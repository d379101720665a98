------------------------------ MODULE ViewerSync ------------------------------
(***************************************************************************)
(* The way of a video to the viewers' screens and back: what playback      *)
(* broadcasts over the SSE broker (broker/sse.go), the catch-up of a       *)
(* stream that opens (handlers/events.go), the page with its YouTube       *)
(* player (pages/ViewerPage.tsx), and the video-ended signals it sends,    *)
(* which playback debounces.  The queue is not edited meanwhile.           *)
(*                                                                         *)
(* What a stream writes reaches the page in order or the stream breaks, so *)
(* the network is part of the channel.  Pause, and play where no video is  *)
(* current, change neither a page's video nor what it signals; the         *)
(* overlays are display only.                                              *)
(***************************************************************************)
EXTENDS PlaybackService

CONSTANTS
    Viewers,
    Unheard,        \* the video of a signal whose page may not be up to date
    Cap             \* what a subscriber's channel holds (16 in the code)

ASSUME ViewerAssumption ==
    /\ IsFiniteSet(Viewers)
    /\ Unheard \notin Items \cup {NoItem}
    /\ Cap \in Nat \ {0}

VARIABLES
    stream,     \* what the handler of each viewer's stream is doing
    chan,       \* the channel of each subscriber
    page,       \* the video of each page, and videoEndedFiredRef
    signal,     \* the video-ended signal of each viewer that is under way
    serves,     \* the video whose end each playback goroutine has been told of, until it
                \* acts on it
    missed,     \* history: the viewers that lost a load, or whose last one came too late
    disturbed   \* history: a command was served, or a debounce interval was too short for
                \* all it has to cover, since the room last was settled

viewerVars == <<stream, chan, page, signal>>
history == <<missed, disturbed>>
viewerSyncVars == <<storeVars, playbackVars, viewerVars, serves, history>>

Streams == [at : {"away", "subscribed", "live"}] \cup [at : {"catchup"}, index : Nat]
Events == [type : {"queue:ended"}] \cup [type : {"load"}, video : Items]

\* Before the first click a page keeps its video for the player it will create.
Pages == [video : Items \cup {NoItem}, fired : BOOLEAN]

ViewerTypeOK ==
    /\ StoreTypeOK
    /\ PlaybackTypeOK
    /\ stream \in [Viewers -> Streams]
    /\ chan \in [Viewers -> Seq(Events)]
    /\ \A v \in Viewers : Len(chan[v]) <= Cap
    /\ page \in [Viewers -> Pages]
    /\ signal \in [Viewers -> Items \cup {NoItem, Unheard}]
    /\ serves \in [PReq -> Items \cup {NoItem, Unheard}]
    /\ missed \subseteq Viewers
    /\ disturbed \in BOOLEAN

\* A queue in some order; nothing has been played.
ViewerInit ==
    /\ PlaybackInit
    /\ LocksInit
    /\ used = Items
    /\ pos \in {f \in [Items -> 0..(Cardinality(Items) - 1)] :
                   \A i, j \in Items : f[i] = f[j] => i = j}
    /\ curIdx = 0
    /\ behind = {}
    /\ stream = [v \in Viewers |-> [at |-> "away"]]
    /\ chan = [v \in Viewers |-> <<>>]
    /\ page = [v \in Viewers |-> [video |-> NoItem, fired |-> FALSE]]
    /\ signal = [v \in Viewers |-> NoItem]
    /\ serves = [p \in PReq |-> NoItem]
    /\ missed = {} /\ disturbed = FALSE

-----------------------------------------------------------------------------
(* SSEBroker (modelled in full in SSEBroker).                              *)

\* Mutant: the handler subscribes after the catch-up.
Subscribers_Late == {v \in Viewers : stream[v].at = "live"}

Subscribers == {v \in Viewers : stream[v].at # "away"}

\* A full channel drops the event.
Full(v) == Len(chan[v]) = Cap

\* Mutant: the buffer grows.
Send_NoDrop(e) ==
    chan' = [v \in Viewers |-> IF v \in Subscribers THEN Append(chan[v], e) ELSE chan[v]]

Send(e) ==
    chan' = [v \in Viewers |->
                IF v \in Subscribers /\ ~ Full(v) THEN Append(chan[v], e) ELSE chan[v]]

-----------------------------------------------------------------------------
(* Playback: PlaybackService's steps and what they broadcast.              *)

\* Goroutines may broadcast in another order than they wrote current_index: a load may be
\* of a video that the room has left.
LoadsVideo(p) ==
    /\ Load(p)
    /\ Send([type |-> "load", video |-> preq[p].item])
    /\ missed' = {v \in Subscribers : Full(v) \/ preq[p].item \notin ItemsAt(curIdx)}
    /\ UNCHANGED disturbed

LooksUp(p) ==
    /\ AdvanceLookup(p)
    /\ IF preq'[p].at = "idle" THEN Send([type |-> "queue:ended"]) ELSE UNCHANGED chan
    /\ UNCHANGED history

Commands(p) ==
    /\ NextOrPrev(p) \/ PlayRead(p)
    /\ disturbed' = TRUE
    /\ UNCHANGED <<chan, missed>>

OtherSteps(p) ==
    /\ \/ AdvanceUpdate(p) \/ PlayLookup(p)
       \/ EndedLock(p) \/ EndedCheck(p) \/ EndedStamp(p) \/ EndedAdvance(p)
       \/ PNotifyQueue(p) \/ PNotifyConfig(p) \/ PlaybackFails(p)
    /\ UNCHANGED <<chan, history>>

PlaybackStep(p) ==
    /\ LoadsVideo(p) \/ LooksUp(p) \/ Commands(p) \/ OtherSteps(p)
    /\ serves' = [serves EXCEPT ![p] = IF preq'[p].at \in {"check", "stamp", "advance"}
                                          THEN @ ELSE NoItem]
    /\ UNCHANGED <<stream, page, signal>>

\* VideoEnded of handlers/playback.go receives a signal.
SignalArrives(p) ==
    /\ Ended(p)
    /\ \E v \in Viewers :
          /\ signal[v] # NoItem
          /\ signal' = [signal EXCEPT ![v] = NoItem]
          /\ serves' = [serves EXCEPT ![p] = signal[v]]
    /\ UNCHANGED <<stream, chan, page, history>>

-----------------------------------------------------------------------------
(* SSEStream.                                                              *)

SGoto(v, state) == stream' = [stream EXCEPT ![v] = state]

Subscribe(v) ==
    /\ stream[v].at = "away"
    /\ SGoto(v, [at |-> "subscribed"])
    /\ UNCHANGED <<storeVars, playbackVars, chan, page, signal, serves, history>>

ReadIndex(v) ==
    /\ stream[v].at = "subscribed"
    /\ SGoto(v, [at |-> "catchup", index |-> curIdx])
    /\ UNCHANGED <<storeVars, playbackVars, chan, page, signal, serves, history>>

\* handleSSEEvent: queue:ended is display only.  A load arms the next signal, and is
\* shown or lost by a player that was created and is not ready (external).
Receives(v, e) ==
    IF e.type # "load" THEN UNCHANGED <<page, missed>>
    ELSE \/ page' = [page EXCEPT ![v] = [video |-> e.video, fired |-> FALSE]] /\ UNCHANGED missed
         \/ page' = [page EXCEPT ![v].fired = FALSE] /\ missed' = missed \cup {v}

\* The item is read and written.
CatchUp(v) ==
    /\ stream[v].at = "catchup"
    /\ SGoto(v, [at |-> "live"])
    /\ \E i \in ItemsAt(stream[v].index) : Receives(v, [type |-> "load", video |-> i])
    /\ UNCHANGED <<storeVars, playbackVars, chan, signal, serves, disturbed>>

\* One of the two reads fails: nothing is written.
CatchUpFails(v) ==
    /\ stream[v].at \in {"subscribed", "catchup"}
    /\ SGoto(v, [at |-> "live"])
    /\ missed' = missed \cup {v}
    /\ UNCHANGED <<storeVars, playbackVars, chan, page, signal, serves, disturbed>>

\* An event leaves the channel and reaches the page.
Forward(v) ==
    /\ stream[v].at = "live"
    /\ chan[v] # <<>>
    /\ chan' = [chan EXCEPT ![v] = Tail(@)]
    /\ Receives(v, Head(chan[v]))
    /\ UNCHANGED <<storeVars, playbackVars, stream, signal, serves, disturbed>>

\* The stream breaks; the page and its player go on, and SSEClient opens the next one.
Break(v) ==
    /\ stream[v].at # "away"
    /\ SGoto(v, [at |-> "away"])
    /\ chan' = [chan EXCEPT ![v] = <<>>]
    /\ missed' = missed \ {v}
    /\ UNCHANGED <<storeVars, playbackVars, page, signal, serves, disturbed>>

-----------------------------------------------------------------------------
(* The player (external) and the page's part of it.                        *)

\* The page shows what the room plays, as far as it knows.
UpToDate(v) == stream[v].at = "live" /\ v \notin missed

\* onStateChange with ENDED: one signal for each load.  Bound: the viewer's last signal
\* has arrived or is lost.
VideoEnds(v) ==
    /\ page[v].video # NoItem
    /\ ~ page[v].fired
    /\ signal[v] = NoItem
    /\ page' = [page EXCEPT ![v].fired = TRUE]
    /\ signal' = [signal EXCEPT ![v] = IF UpToDate(v) THEN page[v].video ELSE Unheard]
    /\ UNCHANGED <<storeVars, playbackVars, stream, chan, serves, history>>

\* The POST does not arrive; it is not repeated.
SignalLost(v) ==
    /\ signal[v] # NoItem
    /\ signal' = [signal EXCEPT ![v] = NoItem]
    /\ UNCHANGED <<storeVars, playbackVars, stream, chan, page, serves, history>>

-----------------------------------------------------------------------------

Loads(v) == {k \in DOMAIN chan[v] : chan[v][k].type = "load"}

\* What the pages show, are sent and report is about the current video.
Agreed ==
    LET about == FetchedAt(curIdx) \cup {NoItem, Unheard}
    IN  /\ \A p \in PReq : serves[p] \in about
        /\ \A v \in Viewers :
              /\ signal[v] \in about
              /\ \A k \in Loads(v) : chan[v][k].video \in about
              /\ stream[v].at = "catchup" => stream[v].index = curIdx
              /\ UpToDate(v) => page[v].video \in about

\* On the way to move the room on, or to load a video.
Moving(p) == preq[p].at \in {"stamp", "advance", "lookup", "update", "load", "playLookup"}

Settled == Agreed /\ \A p \in PReq : ~ Moving(p)

\* Nothing makes what a video's end sets off end with the debounce interval.
Time ==
    /\ Tick
    /\ disturbed' = (~ Settled /\ (disturbed \/ ~ Debounced'))
    /\ UNCHANGED <<viewerVars, serves, missed>>

ViewerRestart ==
    /\ preq' = [p \in PReq |-> PIdle]
    /\ mu' = NoReq
    /\ lastAdvance' = Never
    /\ snap' = [q \in TxReq |-> "none"]
    /\ writer' = NoReq
    /\ behind' = {}
    /\ stream' = [v \in Viewers |-> [at |-> "away"]]
    /\ chan' = [v \in Viewers |-> <<>>]
    /\ signal' = [v \in Viewers |-> NoItem]
    /\ serves' = [p \in PReq |-> NoItem]
    /\ missed' = {}
    /\ UNCHANGED <<pos, used, curIdx, clock, page, disturbed>>

ViewerNext ==
    \/ \E p \in PReq : PlaybackStep(p) \/ SignalArrives(p)
    \/ \E v \in Viewers :
          \/ Subscribe(v) \/ ReadIndex(v) \/ CatchUp(v) \/ CatchUpFails(v)
          \/ Forward(v) \/ Break(v) \/ VideoEnds(v) \/ SignalLost(v)
    \/ Time
    \/ ViewerRestart

ViewerSpec == ViewerInit /\ [][ViewerNext]_viewerSyncVars

-----------------------------------------------------------------------------

\* The video a page is going to show when its channel is empty.
LastLoad(v) ==
    IF Loads(v) = {} THEN page[v].video
    ELSE chan[v][CHOOSE k \in Loads(v) : \A j \in Loads(v) : j <= k].video

\* About to broadcast the current video.
Coming == \E p \in PReq : preq[p].at = "load" /\ preq[p].item \in ItemsAt(curIdx)

\* A viewer whose stream is up shows the current video or has it coming, however its
\* subscription and catch-up interleave with any number of commands and signals:
\* "late-joining viewers catch up immediately" (events.go:65-86).  Except, until the next
\* load, after a dropped event, a failed read or a player that was not ready, or when
\* the last load that was broadcast was overtaken: another request had moved the room on
\* between its update and its broadcast (playback.go:152-161).
OnCurrent ==
    \A v \in Viewers : UpToDate(v) => LastLoad(v) \in FetchedAt(curIdx) \/ Coming

\* An accepted signal's advance begins.
Advances(p) == preq[p].at = "advance" /\ preq'[p].at = "lookup"

\* However many viewers finish a video, the room goes on from that video and from no
\* other: "without debouncing, each viewer's end signal would advance the queue, skipping
\* videos" (playback.go:66-70).  The debounce measures time, so this is claimed only if
\* each interval was long enough for what it has to cover (when it was over, no page that
\* is up to date, no load and no signal was about a video the room had left, and no
\* accepted signal was still being acted on), if no play, next or prev was served
\* since the room was last settled, and of signals from pages that are up to date.
NoSkip ==
    [][\A p \in PReq :
          Advances(p) /\ serves[p] \in Items /\ ~ disturbed
          => serves[p] \in FetchedAt(curIdx)]_viewerSyncVars

===============================================================================
