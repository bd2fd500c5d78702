---------------------------- MODULE DirectoryLock ----------------------------
(***************************************************************************)
(* The lock directories under ~/.ftown that processes of one machine use   *)
(* to exclude each other: the update guard (withLockGuard of               *)
(* src/bridge/src/update-handoff.ts) and setup.lock (acquireSetupLock of   *)
(* src/bridge/src/setup-state.ts).  The owner is the process named by the  *)
(* one marker file inside; the marker of a dead process is reclaimed.      *)
(* Every system call is a step, because other processes run in between.    *)
(***************************************************************************)
EXTENDS Naturals

CONSTANTS
    Procs,      \* processes, each with its own pid
    Locks,      \* which of the two, "guard" and "setup", are looked at
    Attempts,   \* acquisition attempts before giving up
    MaxUses,    \* bound on how often each process uses the lock
    MayDie      \* where a process may be killed

Labels == {"idle", "stat", "rename", "list", "read", "probe", "unlink",
           "rmdir", "hold", "unmark", "leave", "dead"}

ASSUME LockAssumption ==
    /\ Locks \subseteq {"guard", "setup"}
    /\ Attempts \in Nat \ {0} /\ MaxUses \in [Procs -> Nat]
    /\ MayDie \subseteq Labels

VARIABLES
    lock,       \* the lock a behaviour is about
    exists,     \* the lock directory exists
    markers,    \* the owner files in it, named by pid and a fresh token
    pc,         \* what each process does next
    tries,      \* failed attempts of the use in progress
    uses,       \* uses of the lock so far, the token of the current one
    found       \* the marker a process has listed
vars == <<lock, exists, markers, pc, tries, uses, found>>

Marker(p) == [pid |-> p, token |-> uses[p]]
Markers == [pid : Procs, token : Nat]
Alive(p) == pc[p] # "dead"
\* The process is inside what the lock protects.
Holds(p) == pc[p] = "hold"

\* The guard looks before it renames, setup.lock is renamed over at once.
First == IF lock = "guard" THEN "stat" ELSE "rename"
Goto(p, l) == pc' = [pc EXCEPT ![p] = l]
\* The attempt failed; after the last one the caller gets an error.
NextTry(p) == /\ tries' = [tries EXCEPT ![p] = @ + 1]
              /\ Goto(p, IF tries[p] + 1 < Attempts THEN First ELSE "idle")

-----------------------------------------------------------------------------
\* A private candidate directory with a fresh marker is prepared.
Start(p) ==
    /\ pc[p] = "idle" /\ uses[p] < MaxUses[p]
    /\ uses' = [uses EXCEPT ![p] = @ + 1]
    /\ tries' = [tries EXCEPT ![p] = 0]
    /\ Goto(p, First)
    /\ UNCHANGED <<lock, exists, markers, found>>

Stat(p) ==
    /\ pc[p] = "stat"
    /\ Goto(p, IF exists THEN "list" ELSE "rename")
    /\ UNCHANGED <<lock, exists, markers, tries, uses, found>>

\* Mutant: whatever is there is replaced.
RenameOver(p) ==
    /\ pc[p] = "rename"
    /\ exists' = TRUE /\ markers' = {Marker(p)} /\ Goto(p, "hold")
    /\ UNCHANGED <<lock, tries, uses, found>>
\* rename(candidate, lock) replaces nothing or an empty directory.
Rename(p) ==
    /\ pc[p] = "rename"
    /\ IF markers = {}
       THEN exists' = TRUE /\ markers' = {Marker(p)} /\ Goto(p, "hold")
       ELSE UNCHANGED <<exists, markers>> /\ Goto(p, "list")
    /\ UNCHANGED <<lock, tries, uses, found>>

\* readdir: a directory that is gone is an error, and so is an empty one for
\* the guard; setup.lock tries again.
List(p) ==
    /\ pc[p] = "list"
    /\ \/ /\ markers = {}
          /\ IF exists /\ lock = "setup"
             THEN NextTry(p)
             ELSE Goto(p, "idle") /\ UNCHANGED tries
          /\ UNCHANGED found
       \/ \E m \in markers :
            /\ found' = [found EXCEPT ![p] = m]
            /\ Goto(p, "read") /\ UNCHANGED tries
    /\ UNCHANGED <<lock, exists, markers, uses>>

\* The marker file is read and compared with its name.
ReadMarker(p) ==
    /\ pc[p] = "read"
    /\ Goto(p, IF found[p] \in markers THEN "probe" ELSE "idle")
    /\ UNCHANGED <<lock, exists, markers, tries, uses, found>>

\* Mutant: nobody is ever found dead.
ProbeTimid(p) ==
    /\ pc[p] = "probe"
    /\ Goto(p, "idle")
    /\ UNCHANGED <<lock, exists, markers, tries, uses, found>>
\* kill(pid, 0): only the marker of a dead process is reclaimed.
Probe(p) ==
    /\ pc[p] = "probe"
    /\ Goto(p, IF Alive(found[p].pid) THEN "idle" ELSE "unlink")
    /\ UNCHANGED <<lock, exists, markers, tries, uses, found>>

\* Exactly the listed marker is removed, if it is still there.
Unlink(p) ==
    /\ pc[p] = "unlink"
    /\ markers' = markers \ {found[p]}
    /\ Goto(p, "rmdir")
    /\ UNCHANGED <<lock, exists, tries, uses, found>>

\* rmdir removes an empty directory and nothing else.
Rmdir(p) ==
    /\ pc[p] = "rmdir"
    /\ exists' = (exists /\ markers # {})
    /\ NextTry(p)
    /\ UNCHANGED <<lock, markers, uses, found>>

\* The protected work is done; the marker and the directory are removed.
Done(p) ==
    /\ Holds(p) /\ Goto(p, "unmark")
    /\ UNCHANGED <<lock, exists, markers, tries, uses, found>>

Unmark(p) ==
    /\ pc[p] = "unmark"
    /\ markers' = markers \ {Marker(p)}
    /\ Goto(p, "leave")
    /\ UNCHANGED <<lock, exists, tries, uses, found>>

Leave(p) ==
    /\ pc[p] = "leave"
    /\ exists' = (exists /\ markers # {})
    /\ Goto(p, "idle")
    /\ UNCHANGED <<lock, markers, tries, uses, found>>

\* A process is killed between two system calls.
Die(p) ==
    /\ pc[p] \in MayDie \ {"dead"}
    /\ Goto(p, "dead")
    /\ UNCHANGED <<lock, exists, markers, tries, uses, found>>

-----------------------------------------------------------------------------
Init ==
    /\ lock \in Locks
    /\ exists = FALSE /\ markers = {}
    /\ pc = [p \in Procs |-> "idle"]
    /\ tries = [p \in Procs |-> 0] /\ uses = [p \in Procs |-> 0]
    /\ found = [p \in Procs |-> [pid |-> p, token |-> 0]]

Step(p) == \/ Start(p) \/ Stat(p) \/ Rename(p) \/ List(p) \/ ReadMarker(p)
           \/ Probe(p) \/ Unlink(p) \/ Rmdir(p) \/ Done(p) \/ Unmark(p)
           \/ Leave(p)

Next == \E p \in Procs : Step(p) \/ Die(p)

Spec == Init /\ [][Next]_vars

\* A running process goes on until its use of the lock is over.
Fairness == \A p \in Procs : WF_vars(Step(p) /\ pc[p] # "idle")
FairSpec == Spec /\ Fairness

-----------------------------------------------------------------------------
TypeOK ==
    /\ lock \in Locks
    /\ exists \in BOOLEAN
    /\ markers \subseteq Markers
    /\ pc \in [Procs -> Labels]
    /\ tries \in [Procs -> 0..Attempts]
    /\ uses \in [Procs -> Nat]
    /\ found \in [Procs -> Markers]

\* Never two processes between acquisition and release, however many of them
\* find the same dead owner and race to reclaim its directory.
Exclusive == \A p, q \in Procs : Holds(p) /\ Holds(q) => p = q

\* "Removing this exact dead marker and rmdir of an empty dir cannot displace
\* a successor" (setup-state.ts:112): whoever holds the lock is the one owner
\* its directory names.
HolderNamed ==
    \A p \in Procs : Holds(p) => exists /\ markers = {Marker(p)}

\* Both directories are the lock their users take them for: one owner at a time,
\* who alone is inside, and who is displaced only once it is dead
\* (setup-state.ts:112).  The owner is whoever the marker names.
Owner == INSTANCE OwnerLock WITH
    owner <- {m.pid : m \in markers},
    inside <- {p \in Procs : Holds(p)},
    dead <- {p \in Procs : ~Alive(p)}
ImplementsOwnerLock == Owner!Spec

\* A process that tries while no other is running gets the lock, whatever the
\* dead ones have left behind; but for the update guard left empty by a process
\* killed between removing a marker and removing the directory.
Alone(p) == \A q \in Procs \ {p} : pc[q] \in {"idle", "dead"}
Tries(p) == pc[p] = First /\ tries[p] = 0 /\ Alone(p)
GetsIn(p) == Holds(p) \/ ~Alive(p) \/ ~Alone(p)
Emptied == lock = "guard" /\ exists /\ markers = {}
RecoverableUnlessEmptied ==
    \A p \in Procs : (Tries(p) /\ ~Emptied) ~> GetsIn(p)
=============================================================================
