------------------------------ MODULE OwnerLock ------------------------------
(***************************************************************************)
(* What a lock directory promises to the processes that share it (the      *)
(* contract of withLockGuard in src/bridge/src/update-handoff.ts and of    *)
(* acquireSetupLock in src/bridge/src/setup-state.ts): it is entered when  *)
(* it has no owner, and freed by its owner once that is outside, or by     *)
(* anybody once its owner is dead.  BridgeUpdate takes its locks for this. *)
(***************************************************************************)
CONSTANT Procs

VARIABLES
    owner,  \* who owns the lock: one process, or none
    inside, \* who is doing what the lock protects
    dead    \* who has been killed

Init == owner = {} /\ inside = {} /\ dead = {}

Enter(p) ==
    /\ p \notin dead /\ owner = {}
    /\ owner' = {p} /\ inside' = inside \cup {p}
    /\ UNCHANGED dead

Finish(p) ==
    /\ p \in inside
    /\ inside' = inside \ {p}
    /\ UNCHANGED <<owner, dead>>

Release(p) ==
    /\ owner = {p} /\ p \notin inside \cup dead
    /\ owner' = {}
    /\ UNCHANGED <<inside, dead>>

Reclaim(p) ==
    /\ owner = {p} /\ p \in dead
    /\ owner' = {}
    /\ UNCHANGED <<inside, dead>>

Die(p) ==
    /\ p \notin dead
    /\ dead' = dead \cup {p} /\ inside' = inside \ {p}
    /\ UNCHANGED owner

Next == \E p \in Procs :
            Enter(p) \/ Finish(p) \/ Release(p) \/ Reclaim(p) \/ Die(p)

Spec == Init /\ [][Next]_<<owner, inside, dead>>
=============================================================================
