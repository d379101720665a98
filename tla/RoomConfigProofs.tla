--------------------------- MODULE RoomConfigProofs ---------------------------
(***************************************************************************)
(* Theorems about the room configuration, for any fields, values, requests *)
(* and number of goroutines.                                               *)
(***************************************************************************)
EXTENDS RoomConfig, TLAPS

IInv == TypeOK /\ ParamsCurrent

\* A row with the fields of a request on top is a row.
LEMMA PatchedIsRow ==
    ASSUME NEW row \in [Fields -> Values], NEW patch \in Patches
    PROVE  Patched(row, patch) \in [Fields -> Values]
<1>1. PICK S \in SUBSET Fields : patch \in [S -> Values]
  BY ConfigAssumption
<1> QED
  BY <1>1 DEF Patched

LEMMA InitInv == Init => IInv
  BY ConfigAssumption, SQLiteAssumption
     DEF Init, IInv, TypeOK, ParamsCurrent, LocksInit, LocksTypeOK, SnapStates, ConfigRequests

\* What a step does to the request of c, and leaves of the others.
LEMMA Goto ==
    ASSUME TypeOK, NEW c \in TxReq, NEW state \in ConfigRequests, CGoto(c, state)
    PROVE  /\ creq' \in [TxReq -> ConfigRequests]
           /\ creq'[c] = state
           /\ \A d \in TxReq : d # c => creq'[d] = creq[d]
  BY DEF TypeOK, CGoto

LEMMA CommittersMayCommit ==
    ASSUME IInv, NEW c \in TxReq, creq[c].at = "commit"
    PROVE  /\ writer = c
           /\ creq[c].params = Patched(config, creq[c].patch)
           /\ creq[c].patch \in Patches
           /\ creq[c].params \in [Fields -> Values]
           /\ \A d \in TxReq : d # c => creq[d].at # "commit"
  BY DEF IInv, TypeOK, ParamsCurrent, ConfigRequests

LEMMA StepInv == IInv /\ [Next]_vars => IInv'
<1> SUFFICES ASSUME IInv, [Next]_vars PROVE IInv'
  OBVIOUS
<1>t. /\ DOMAIN creq = TxReq
      /\ DOMAIN snap = TxReq
      /\ \A c \in TxReq : creq[c] \in ConfigRequests
  BY DEF IInv, TypeOK, LocksTypeOK
<1>n. NoReq \notin TxReq
  BY SQLiteAssumption
<1>1. ASSUME NEW c \in TxReq, PatchBegin(c) PROVE IInv'
  <2>1. PICK patch \in Patches : CGoto(c, [at |-> "read", patch |-> patch])
    BY <1>1 DEF PatchBegin
  <2>2. [at |-> "read", patch |-> patch] \in ConfigRequests
    BY DEF ConfigRequests
  <2>3. /\ creq' \in [TxReq -> ConfigRequests]
        /\ creq'[c].at = "read"
        /\ \A d \in TxReq : d # c => creq'[d] = creq[d]
    BY <2>1, <2>2, Goto DEF IInv
  <2> QED
    BY <1>1, <2>3 DEF PatchBegin, IInv, TypeOK, LocksTypeOK, ParamsCurrent
<1>2. ASSUME NEW c \in TxReq, PatchRead(c) PROVE IInv'
  <2> DEFINE state == [at |-> "write", patch |-> creq[c].patch,
                       params |-> Patched(config, creq[c].patch)]
  <2>1. creq[c].at = "read" /\ creq[c].patch \in Patches
    BY <1>2, <1>t DEF PatchRead, ConfigRequests
  <2>2. state \in ConfigRequests
    BY <2>1, PatchedIsRow DEF ConfigRequests, IInv, TypeOK
  <2>3. /\ creq' \in [TxReq -> ConfigRequests]
        /\ creq'[c] = state
        /\ \A d \in TxReq : d # c => creq'[d] = creq[d]
    BY <1>2, <2>2, Goto DEF PatchRead, IInv
  <2>4. /\ snap' \in [TxReq -> SnapStates]
        /\ snap'[c] = "fresh"
        /\ \A d \in TxReq : d # c => snap'[d] = snap[d]
    BY <1>2, <1>t DEF PatchRead, TxOpened, IInv, TypeOK, LocksTypeOK, SnapStates
  <2>5. TypeOK'
    BY <1>2, <2>3, <2>4 DEF PatchRead, IInv, TypeOK, LocksTypeOK
  <2>6. ParamsCurrent'
    BY <1>2, <2>1, <2>3, <2>4 DEF PatchRead, IInv, ParamsCurrent, Patched
  <2> QED
    BY <2>5, <2>6 DEF IInv
<1>3. ASSUME NEW c \in TxReq, PatchWrite(c) PROVE IInv'
  <2>1. creq[c].at = "write" /\ snap[c] = "fresh" /\ writer = NoReq /\ writer' = c
    BY <1>3 DEF PatchWrite, TxMayWrite, WriteLockFree
  <2>2. [creq[c] EXCEPT !.at = "commit"] \in ConfigRequests
    BY <1>t, <2>1 DEF ConfigRequests
  <2>3. /\ creq' \in [TxReq -> ConfigRequests]
        /\ creq'[c] = [creq[c] EXCEPT !.at = "commit"]
        /\ \A d \in TxReq : d # c => creq'[d] = creq[d]
    BY <1>3, <2>2, Goto DEF PatchWrite, IInv
  <2>4. /\ creq'[c].at = "commit"
        /\ creq'[c].patch = creq[c].patch
        /\ creq'[c].params = creq[c].params
    BY <1>t, <2>1, <2>3 DEF ConfigRequests
  <2>5. \A d \in TxReq : creq[d].at # "commit"
    BY <1>n, <2>1 DEF IInv, ParamsCurrent
  <2>6. UNCHANGED <<config, index, snap>>
    BY <1>3 DEF PatchWrite
  <2>7. TypeOK'
    BY <2>1, <2>3, <2>6 DEF IInv, TypeOK, LocksTypeOK
  <2>8. ASSUME NEW d \in TxReq
        PROVE  /\ snap'[d] # "none" <=> creq'[d].at \in {"write", "commit"}
               /\ writer' = d <=> creq'[d].at = "commit"
               /\ creq'[d].at = "commit" => snap'[d] = "fresh"
               /\ snap'[d] = "fresh" => creq'[d].params = Patched(config, creq'[d].patch)
    <3>1. CASE d = c
      BY <2>1, <2>4, <2>6, <3>1 DEF IInv, ParamsCurrent
    <3>2. CASE d # c
      BY <2>1, <2>3, <2>5, <2>6, <3>2 DEF IInv, ParamsCurrent
    <3> QED
      BY <3>1, <3>2
  <2>9. ParamsCurrent'
    BY <2>6, <2>8 DEF ParamsCurrent, Patched
  <2> QED
    BY <2>7, <2>9 DEF IInv
<1>4. ASSUME NEW c \in TxReq, PatchCommit(c) PROVE IInv'
  <2>1. /\ creq[c].at = "commit"
        /\ creq[c].params \in [Fields -> Values]
        /\ \A d \in TxReq : d # c => creq[d].at # "commit"
    BY <1>4, CommittersMayCommit DEF PatchCommit
  <2>2. [at |-> "notify"] \in ConfigRequests
    BY DEF ConfigRequests
  <2>3. /\ creq' \in [TxReq -> ConfigRequests]
        /\ creq'[c].at = "notify"
        /\ \A d \in TxReq : d # c => creq'[d] = creq[d]
    BY <1>4, <2>2, Goto DEF PatchCommit, IInv
  <2>4. /\ snap' \in [TxReq -> SnapStates]
        /\ snap'[c] = "none"
        /\ \A d \in TxReq : snap'[d] # "fresh"
        /\ \A d \in TxReq : d # c => (snap'[d] = "none" <=> snap[d] = "none")
    BY <1>4, <1>t DEF PatchCommit, Outdated, IInv, TypeOK, LocksTypeOK, SnapStates
  <2>5. TypeOK'
    BY <1>4, <2>1, <2>3, <2>4 DEF PatchCommit, IInv, TypeOK, LocksTypeOK
  <2>6. writer' = NoReq
    BY <1>4 DEF PatchCommit
  <2>7. ParamsCurrent'
    BY <1>n, <2>1, <2>3, <2>4, <2>6 DEF IInv, ParamsCurrent
  <2> QED
    BY <2>5, <2>7 DEF IInv
<1>5. ASSUME NEW c \in TxReq, PatchNotify(c) \/ PatchRespond(c) PROVE IInv'
  <2>1. PICK state \in {[at |-> "respond"], [at |-> "idle"]} : CGoto(c, state)
    BY <1>5 DEF PatchNotify, PatchRespond
  <2>2. state \in ConfigRequests
    BY DEF ConfigRequests
  <2>3. /\ creq' \in [TxReq -> ConfigRequests]
        /\ creq'[c].at \in {"respond", "idle"}
        /\ \A d \in TxReq : d # c => creq'[d] = creq[d]
    BY <2>1, <2>2, Goto DEF IInv
  <2> QED
    BY <1>5, <2>3 DEF PatchNotify, PatchRespond, IInv, TypeOK, LocksTypeOK, ParamsCurrent
<1>6. ASSUME NEW c \in TxReq, PatchFails(c) PROVE IInv'
  <2>1. [at |-> "idle"] \in ConfigRequests
    BY DEF ConfigRequests
  <2>2. /\ creq' \in [TxReq -> ConfigRequests]
        /\ creq'[c].at = "idle"
        /\ \A d \in TxReq : d # c => creq'[d] = creq[d]
    BY <1>6, <2>1, Goto DEF PatchFails, IInv
  <2>3. /\ snap' \in [TxReq -> SnapStates]
        /\ snap'[c] = "none"
        /\ \A d \in TxReq : d # c => snap'[d] = snap[d]
    BY <1>6, <1>t DEF PatchFails, TxClosed, IInv, TypeOK, LocksTypeOK, SnapStates
  <2>4. /\ writer' \in TxReq \cup {NoReq}
        /\ writer' # c
        /\ \A d \in TxReq : d # c => (writer' = d <=> writer = d)
    BY <1>6, <1>n DEF PatchFails, IInv, TypeOK, LocksTypeOK
  <2>5. UNCHANGED <<config, index>>
    BY <1>6 DEF PatchFails
  <2>6. TypeOK'
    BY <2>2, <2>3, <2>4, <2>5 DEF IInv, TypeOK, LocksTypeOK
  <2>7. ParamsCurrent'
    BY <2>2, <2>3, <2>4, <2>5 DEF IInv, ParamsCurrent, Patched
  <2> QED
    BY <2>6, <2>7 DEF IInv
<1>7. ASSUME OtherCommit PROVE IInv'
  <2>1. /\ snap' \in [TxReq -> SnapStates]
        /\ \A d \in TxReq : snap'[d] # "fresh"
        /\ \A d \in TxReq : snap'[d] = "none" <=> snap[d] = "none"
    BY <1>7, <1>t DEF OtherCommit, Outdated, IInv, TypeOK, LocksTypeOK, SnapStates
  <2>2. \A d \in TxReq : creq[d].at # "commit"
    BY <1>7, <1>n DEF OtherCommit, WriteLockFree, IInv, ParamsCurrent
  <2> QED
    BY <1>7, <2>1, <2>2 DEF OtherCommit, IInv, TypeOK, LocksTypeOK, ParamsCurrent
<1>8. ASSUME Restart PROVE IInv'
  BY <1>8, <1>n DEF Restart, IInv, TypeOK, LocksTypeOK, SnapStates, ParamsCurrent, ConfigRequests
<1>9. CASE UNCHANGED vars
  BY <1>9 DEF vars, IInv, TypeOK, LocksTypeOK, ConfigRequests, ParamsCurrent, Patched
<1> QED
  BY <1>1, <1>2, <1>3, <1>4, <1>5, <1>6, <1>7, <1>8, <1>9 DEF Next

LEMMA AlwaysIInv == Spec => []IInv
  BY InitInv, StepInv, PTL DEF Spec

\* Every variable of the configuration requests keeps its type.
THEOREM ConfigTypes == Spec => []TypeOK
<1>1. IInv => TypeOK
  BY DEF IInv
<1> QED
  BY <1>1, AlwaysIInv, PTL

\* A transaction that may still commit is about to write the row there is with its
\* own fields on top (config.go:56-113).
THEOREM ParamsAreCurrent == Spec => []ParamsCurrent
<1>1. IInv => ParamsCurrent
  BY DEF IInv
<1> QED
  BY <1>1, AlwaysIInv, PTL

\* Where c goes from one state of a request to another, Pending changes at c only.
LEMMA PendingGoto ==
    ASSUME IInv, NEW c \in TxReq,
           creq' \in [TxReq -> ConfigRequests],
           \A d \in TxReq : d # c => creq'[d] = creq[d]
    PROVE  Pending' = [Pending EXCEPT ![c] = Pending'[c]]
  BY DEF Pending

\* A PATCH takes effect in one step, before it is answered, and loses nothing:
\* a request that begins is an Ask of the abstract specification, a commit a
\* Patch, an answer, a failure and a restart an End, a commit of another service
\* a Move, and every other step leaves the row and what is pending alone
\* (config.go:48-57,86-104).
THEOREM UpdatesAreAtomic == Spec => NoLostUpdate
<1>1. Init => PC!Init
  BY DEF Init, PC!Init, Pending, Asked
<1>2. IInv /\ [Next]_vars => [PC!Next]_PC!vars
  <2> SUFFICES ASSUME IInv, [Next]_vars PROVE [PC!Next]_PC!vars
    OBVIOUS
  <2>t. /\ DOMAIN creq = TxReq
        /\ \A c \in TxReq : creq[c] \in ConfigRequests
    BY DEF IInv, TypeOK
  <2>1. ASSUME NEW c \in TxReq, PatchBegin(c) PROVE PC!Next
    <3>1. PICK patch \in Patches : CGoto(c, [at |-> "read", patch |-> patch])
      BY <2>1 DEF PatchBegin
    <3>2. [at |-> "read", patch |-> patch] \in ConfigRequests
      BY DEF ConfigRequests
    <3>3. /\ creq' \in [TxReq -> ConfigRequests]
          /\ creq'[c] = [at |-> "read", patch |-> patch]
          /\ \A d \in TxReq : d # c => creq'[d] = creq[d]
      BY <3>1, <3>2, Goto DEF IInv
    <3>4. Pending[c] = NoPatch /\ Pending'[c] = patch
      BY <2>1, <3>3 DEF PatchBegin, Pending, Asked
    <3>5. Pending' = [Pending EXCEPT ![c] = patch]
      BY <3>3, <3>4, PendingGoto
    <3>6. PC!Ask(c, patch)
      BY <2>1, <3>4, <3>5 DEF PatchBegin, PC!Ask
    <3> QED
      BY <3>6 DEF PC!Next
  <2>2. ASSUME NEW c \in TxReq, PatchCommit(c) PROVE PC!Next
    <3>1. creq[c].at = "commit"
      BY <2>2 DEF PatchCommit
    <3>2. creq[c].params = Patched(config, creq[c].patch) /\ creq[c].patch \in Patches
      BY <2>2, <3>1, CommittersMayCommit
    <3>3. [at |-> "notify"] \in ConfigRequests
      BY DEF ConfigRequests
    <3>4. /\ creq' \in [TxReq -> ConfigRequests]
          /\ creq'[c].at = "notify"
          /\ \A d \in TxReq : d # c => creq'[d] = creq[d]
      BY <2>2, <3>3, Goto DEF PatchCommit, IInv
    <3>5. Pending[c] = creq[c].patch /\ Pending'[c] = Applied
      BY <3>1, <3>4 DEF Pending, Asked
    <3>6. Pending' = [Pending EXCEPT ![c] = Applied]
      BY <3>4, <3>5, PendingGoto
    <3>7. PC!Patch(c)
      BY <2>2, <3>2, <3>5, <3>6 DEF PatchCommit, Patched, PC!Patch
    <3> QED
      BY <3>7 DEF PC!Next
  <2>3. ASSUME NEW c \in TxReq, PatchRespond(c) \/ PatchFails(c) PROVE PC!Next
    <3>1. [at |-> "idle"] \in ConfigRequests
      BY DEF ConfigRequests
    <3>2. /\ creq' \in [TxReq -> ConfigRequests]
          /\ creq'[c].at = "idle"
          /\ \A d \in TxReq : d # c => creq'[d] = creq[d]
      BY <2>3, <3>1, Goto DEF PatchRespond, PatchFails, IInv
    <3>3. Pending'[c] = NoPatch
      BY <3>2 DEF Pending, Asked
    <3>4. Pending' = [d \in TxReq |-> IF d \in {c} THEN NoPatch ELSE Pending[d]]
      BY <3>2, <3>3, PendingGoto DEF Pending
    <3>5. PC!End({c})
      BY <2>3, <3>4 DEF PatchRespond, PatchFails, PC!End
    <3> QED
      BY <3>5 DEF PC!Next
  <2>4. ASSUME OtherCommit PROVE PC!Next
    BY <2>4 DEF OtherCommit, Pending, PC!Next, PC!Move
  <2>5. ASSUME Restart PROVE PC!Next
    <3>1. Pending' = [d \in TxReq |-> IF d \in TxReq THEN NoPatch ELSE Pending[d]]
      BY <2>5 DEF Restart, Pending, Asked
    <3>2. PC!End(TxReq)
      BY <2>5, <3>1 DEF Restart, PC!End
    <3> QED
      BY <3>2 DEF PC!Next
  <2>6. ASSUME NEW c \in TxReq, PatchRead(c) \/ PatchWrite(c)
        PROVE  UNCHANGED PC!vars
    <3>1. creq[c] \in [at : {"read"}, patch : Patches]
                  \cup [at : {"write"}, patch : Patches, params : [Fields -> Values]]
      BY <2>6, <2>t DEF PatchRead, PatchWrite, ConfigRequests
    <3>2. /\ DOMAIN creq' = TxReq
          /\ creq'[c].at \in {"write", "commit"}
          /\ creq'[c].patch = creq[c].patch
          /\ \A d \in TxReq : d # c => creq'[d] = creq[d]
      BY <2>6, <2>t, <3>1 DEF PatchRead, PatchWrite, CGoto
    <3>3. Pending' = Pending
      BY <3>1, <3>2 DEF Pending, Asked
    <3> QED
      BY <2>6, <3>3 DEF PatchRead, PatchWrite, PC!vars
  <2>7. ASSUME NEW c \in TxReq, PatchNotify(c) PROVE UNCHANGED PC!vars
    <3>1. /\ creq[c].at = "notify"
          /\ creq'[c].at = "respond"
          /\ \A d \in TxReq : d # c => creq'[d] = creq[d]
      BY <2>7, <2>t DEF PatchNotify, CGoto
    <3>2. Pending' = Pending
      BY <3>1 DEF Pending, Asked
    <3> QED
      BY <2>7, <3>2 DEF PatchNotify, PC!vars
  <2>8. UNCHANGED vars => UNCHANGED PC!vars
    BY DEF vars, Pending, PC!vars
  <2> QED
    BY <2>1, <2>2, <2>3, <2>4, <2>5, <2>6, <2>7, <2>8 DEF Next
<1>3. Spec => []IInv
  BY InitInv, StepInv, PTL DEF Spec
<1> QED
  BY <1>1, <1>2, <1>3, PTL DEF Spec, PC!Spec, NoLostUpdate

===============================================================================
