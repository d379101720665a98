----------------------------- MODULE PatchedConfig -----------------------------
(***************************************************************************)
(* What ConfigService.Update promises (services/config.go:48-57): a request*)
(* overwrites the fields it names and no others, in one step, no later than*)
(* it is answered with success; no update is lost to another one or to a   *)
(* move of current_index.                                                  *)
(***************************************************************************)
CONSTANTS
    Reqs,               \* those who ask
    Fields, Patches, Defaults, Indexes, FirstIndex,
    NoPatch, Applied    \* what is pending for one who does not ask, or was served

VARIABLES
    config, index,
    pending     \* what each one has asked for

vars == <<config, index, pending>>

Init ==
    /\ config = Defaults
    /\ index = FirstIndex
    /\ pending = [c \in Reqs |-> NoPatch]

Ask(c, p) ==
    /\ pending[c] = NoPatch
    /\ pending' = [pending EXCEPT ![c] = p]
    /\ UNCHANGED <<config, index>>

Patch(c) ==
    /\ pending[c] \in Patches
    /\ config' = [f \in Fields |-> IF f \in DOMAIN pending[c] THEN pending[c][f] ELSE config[f]]
    /\ pending' = [pending EXCEPT ![c] = Applied]
    /\ UNCHANGED index

\* Requests are answered, or fail, or are cut short by a restart.
End(S) ==
    /\ pending' = [c \in Reqs |-> IF c \in S THEN NoPatch ELSE pending[c]]
    /\ UNCHANGED <<config, index>>

Move(n) == index' = n /\ UNCHANGED <<config, pending>>

Next ==
    \/ \E c \in Reqs : \E p \in Patches : Ask(c, p)
    \/ \E c \in Reqs : Patch(c)
    \/ \E S \in SUBSET Reqs : End(S)
    \/ \E n \in Indexes : Move(n)

Spec == Init /\ [][Next]_vars

================================================================================
