-------------------------- MODULE DirectoryLockProofs --------------------------
(***************************************************************************)
(* Both lock directories exclude for any number of processes, however      *)
(* often each tries and wherever each is killed.  Mutual exclusion alone   *)
(* is not inductive: the proof also needs that an owner's marker is the    *)
(* only one in the directory until its owner removes it, and that a        *)
(* process about to unlink a marker has seen the marker's owner dead.      *)
(***************************************************************************)
EXTENDS DirectoryLock, TLAPS

\* From the rename to the unlink of its own marker a process is the owner.
Owns(p) == pc[p] \in {"hold", "unmark"}
OwnerNamed == \A p \in Procs : Owns(p) => exists /\ markers = {Marker(p)}

\* What is about to be unlinked belongs to the dead.
ReclaimsDead == \A p \in Procs : pc[p] = "unlink" => ~Alive(found[p].pid)

\* A directory that is gone has no marker.
GoneEmpty == markers # {} => exists

\* An attempt in progress is one of the allowed ones.
Trying == {"stat", "rename", "list", "read", "probe", "unlink", "rmdir"}
AttemptLeft == \A p \in Procs : pc[p] \in Trying => tries[p] < Attempts

IInv == TypeOK /\ OwnerNamed /\ ReclaimsDead /\ GoneEmpty /\ AttemptLeft

-----------------------------------------------------------------------------
\* Initially nobody owns or reclaims anything.
LEMMA InitInv == ASSUME Init PROVE IInv
<1> USE LockAssumption
<1>1. TypeOK
  <2>1. found \in [Procs -> Markers]
    BY DEF Init, Markers
  <2>2. tries \in [Procs -> 0..Attempts] /\ uses \in [Procs -> Nat]
    BY DEF Init
  <2>3. pc \in [Procs -> Labels] /\ exists \in BOOLEAN /\ markers \subseteq Markers
        /\ lock \in Locks
    BY DEF Init, Labels
  <2> QED BY <2>1, <2>2, <2>3 DEF TypeOK
<1>2. OwnerNamed /\ ReclaimsDead /\ GoneEmpty /\ AttemptLeft
  BY DEF Init, OwnerNamed, Owns, ReclaimsDead, GoneEmpty, AttemptLeft, Trying
<1> QED BY <1>1, <1>2 DEF IInv

\* A failed attempt leads to another one only while attempts are left.
LEMMA NextTryTyped ==
    ASSUME TypeOK, NEW p \in Procs, tries[p] < Attempts, NextTry(p)
    PROVE  /\ pc' \in [Procs -> Labels] /\ tries' \in [Procs -> 0..Attempts]
           /\ pc'[p] \in Trying => tries'[p] < Attempts
           /\ pc'[p] \in {"stat", "rename", "idle"}
           /\ \A q \in Procs \ {p} : pc'[q] = pc[q] /\ tries'[q] = tries[q]
<1> USE LockAssumption
<1>1. tries[p] \in 0..Attempts /\ tries[p] + 1 \in 0..Attempts
  BY DEF TypeOK
<1>2. tries' = [tries EXCEPT ![p] = tries[p] + 1]
  BY DEF NextTry
<1>3. pc' = [pc EXCEPT ![p] = IF tries[p] + 1 < Attempts THEN First ELSE "idle"]
  BY DEF NextTry, Goto
<1>4. First \in {"stat", "rename"}
  BY DEF First
<1>5. pc'[p] = IF tries[p] + 1 < Attempts THEN First ELSE "idle"
  BY <1>3 DEF TypeOK
<1>6. tries'[p] = tries[p] + 1
  BY <1>2 DEF TypeOK
<1>7. pc'[p] \in Trying => tries'[p] < Attempts
  BY <1>5, <1>6 DEF Trying
<1>8. pc'[p] \in {"stat", "rename", "idle"}
  BY <1>4, <1>5
<1>9. \A q \in Procs \ {p} : pc'[q] = pc[q] /\ tries'[q] = tries[q]
  BY <1>2, <1>3 DEF TypeOK
<1>10. pc' \in [Procs -> Labels]
  BY <1>3, <1>4 DEF TypeOK, Labels
<1>11. tries' \in [Procs -> 0..Attempts]
  BY <1>1, <1>2 DEF TypeOK
<1> QED BY <1>7, <1>8, <1>9, <1>10, <1>11

-----------------------------------------------------------------------------
\* Starting a use does not touch the directory, and the starter owns nothing.
LEMMA StartInv == ASSUME IInv, NEW p \in Procs, Start(p) PROVE IInv'
<1> USE LockAssumption
<1>1. TypeOK'
  BY DEF IInv, TypeOK, Start, Goto, First, Labels
<1>2. OwnerNamed'
  BY DEF IInv, TypeOK, OwnerNamed, Owns, Start, Goto, First, Marker
<1>3. ReclaimsDead' /\ GoneEmpty' /\ AttemptLeft'
  BY DEF IInv, TypeOK, ReclaimsDead, Alive, GoneEmpty, AttemptLeft, Trying,
         Start, Goto, First, Markers
<1> QED BY <1>1, <1>2, <1>3 DEF IInv

\* The steps that only look leave the directory as it is.
LEMMA LookInv ==
    ASSUME IInv, NEW p \in Procs, Stat(p) \/ ReadMarker(p)
    PROVE  IInv'
<1>1. TypeOK'
  BY DEF IInv, TypeOK, Stat, ReadMarker, Goto, Labels
<1>2. OwnerNamed'
  BY DEF IInv, TypeOK, OwnerNamed, Owns, Stat, ReadMarker, Goto, Marker
<1>3. ReclaimsDead' /\ GoneEmpty' /\ AttemptLeft'
  BY DEF IInv, TypeOK, ReclaimsDead, Alive, GoneEmpty, AttemptLeft, Trying,
         Stat, ReadMarker, Goto, Markers
<1> QED BY <1>1, <1>2, <1>3 DEF IInv

\* Listing picks a marker or gives the attempt up.
LEMMA ListInv == ASSUME IInv, NEW p \in Procs, List(p) PROVE IInv'
<1> USE LockAssumption
<1>1. pc[p] = "list" /\ tries[p] < Attempts
  BY DEF List, IInv, AttemptLeft, Trying
<1>2. CASE markers = {} /\ NextTry(p) /\ UNCHANGED <<lock, found, exists, markers, uses>>
  <2>1. TypeOK'
    BY <1>1, <1>2, NextTryTyped DEF IInv, TypeOK
  <2>2. OwnerNamed'
    BY <1>1, <1>2, NextTryTyped DEF IInv, OwnerNamed, Owns, Marker
  <2>3. ReclaimsDead' /\ GoneEmpty' /\ AttemptLeft'
    BY <1>1, <1>2, NextTryTyped
       DEF IInv, TypeOK, Markers, ReclaimsDead, Alive, GoneEmpty, AttemptLeft
  <2> QED BY <2>1, <2>2, <2>3 DEF IInv
<1>3. CASE Goto(p, "idle") /\ UNCHANGED <<lock, tries, found, exists, markers, uses>>
  <2>1. TypeOK' /\ OwnerNamed'
    BY <1>3 DEF IInv, TypeOK, OwnerNamed, Owns, Goto, Labels, Marker
  <2>2. ReclaimsDead' /\ GoneEmpty' /\ AttemptLeft'
    BY <1>1, <1>3 DEF IInv, TypeOK, Markers, ReclaimsDead, Alive, GoneEmpty,
                      AttemptLeft, Trying, Goto
  <2> QED BY <2>1, <2>2 DEF IInv
<1>4. ASSUME NEW m \in markers, found' = [found EXCEPT ![p] = m],
             Goto(p, "read"), UNCHANGED <<lock, tries, exists, markers, uses>>
      PROVE  IInv'
  <2>1. TypeOK' /\ OwnerNamed'
    BY <1>4 DEF IInv, TypeOK, OwnerNamed, Owns, Goto, Labels, Marker
  <2>2. ReclaimsDead' /\ GoneEmpty' /\ AttemptLeft'
    BY <1>1, <1>4 DEF IInv, TypeOK, Markers, ReclaimsDead, Alive, GoneEmpty,
                      AttemptLeft, Trying, Goto
  <2> QED BY <2>1, <2>2 DEF IInv
<1> QED BY <1>2, <1>3, <1>4 DEF List

\* Only the marker of a process that is dead goes on to be unlinked.
LEMMA ProbeInv == ASSUME IInv, NEW p \in Procs, Probe(p) PROVE IInv'
<1>1. TypeOK' /\ OwnerNamed'
  BY DEF IInv, TypeOK, OwnerNamed, Owns, Probe, Goto, Labels, Marker
<1>2. ReclaimsDead' /\ GoneEmpty' /\ AttemptLeft'
  BY DEF IInv, TypeOK, Markers, ReclaimsDead, Alive, GoneEmpty, AttemptLeft,
         Trying, Probe, Goto
<1> QED BY <1>1, <1>2 DEF IInv

\* A rename succeeds only where no owner is named, so it displaces none.
LEMMA RenameInv == ASSUME IInv, NEW p \in Procs, Rename(p) PROVE IInv'
<1>1. TypeOK'
  <2>1. Marker(p) \in Markers
    BY DEF IInv, TypeOK, Marker, Markers
  <2>2. exists' \in BOOLEAN /\ markers' \subseteq Markers
    BY <2>1 DEF IInv, TypeOK, Rename
  <2>3. pc' \in [Procs -> Labels]
    BY DEF IInv, TypeOK, Rename, Goto, Labels
  <2> QED BY <2>2, <2>3 DEF IInv, TypeOK, Rename
<1>2. ASSUME markers = {} PROVE OwnerNamed'
  <2>1. \A q \in Procs : ~Owns(q)
    BY <1>2 DEF IInv, OwnerNamed
  <2>2. exists' = TRUE /\ markers' = {Marker(p)} /\ Goto(p, "hold") /\ uses' = uses
    BY <1>2 DEF Rename
  <2> QED BY <2>1, <2>2 DEF IInv, TypeOK, OwnerNamed, Owns, Goto, Marker
<1>3. ASSUME markers # {} PROVE OwnerNamed'
  <2>1. exists' = exists /\ markers' = markers /\ Goto(p, "list") /\ uses' = uses
    BY <1>3 DEF Rename
  <2> QED BY <2>1 DEF IInv, TypeOK, OwnerNamed, Owns, Goto, Marker
<1>4. ReclaimsDead' /\ GoneEmpty' /\ AttemptLeft'
  BY DEF IInv, TypeOK, Markers, ReclaimsDead, Alive, GoneEmpty, AttemptLeft,
         Trying, Rename, Goto
<1> QED BY <1>1, <1>2, <1>3, <1>4 DEF IInv

\* The unlinked marker names a dead process, an owner is alive.
LEMMA UnlinkInv == ASSUME IInv, NEW p \in Procs, Unlink(p) PROVE IInv'
<1>1. TypeOK'
  BY DEF IInv, TypeOK, Unlink, Goto, Labels
<1>2. OwnerNamed'
  <2> SUFFICES ASSUME NEW q \in Procs, Owns(q)' PROVE (exists /\ markers = {Marker(q)})'
    BY DEF OwnerNamed
  <2>1. Owns(q) /\ Alive(q)
    BY DEF IInv, TypeOK, Unlink, Goto, Owns, Alive
  <2>2. exists /\ markers = {Marker(q)}
    BY <2>1 DEF IInv, OwnerNamed
  <2>3. found[p].pid # q
    BY <2>1 DEF IInv, ReclaimsDead, Unlink
  <2>4. found[p] # Marker(q)
    BY <2>3 DEF Marker
  <2> QED BY <2>2, <2>4 DEF Unlink, Marker
<1>3. ReclaimsDead' /\ GoneEmpty' /\ AttemptLeft'
  BY DEF IInv, TypeOK, Markers, ReclaimsDead, Alive, GoneEmpty, AttemptLeft,
         Trying, Unlink, Goto
<1> QED BY <1>1, <1>2, <1>3 DEF IInv

\* rmdir does nothing to a directory that names an owner.
LEMMA RmdirInv == ASSUME IInv, NEW p \in Procs, Rmdir(p) PROVE IInv'
<1> USE LockAssumption
<1>1. pc[p] = "rmdir" /\ tries[p] < Attempts /\ NextTry(p)
  BY DEF Rmdir, IInv, AttemptLeft, Trying
<1>2. TypeOK'
  BY <1>1, NextTryTyped DEF IInv, TypeOK, Rmdir
<1>3. OwnerNamed'
  BY <1>1, NextTryTyped DEF IInv, OwnerNamed, Owns, Rmdir, Marker
<1>4. ReclaimsDead' /\ GoneEmpty'
  BY <1>1, NextTryTyped
     DEF IInv, TypeOK, Markers, ReclaimsDead, Alive, GoneEmpty, Rmdir
<1>5. AttemptLeft'
  BY <1>1, NextTryTyped DEF IInv, AttemptLeft
<1> QED BY <1>2, <1>3, <1>4, <1>5 DEF IInv

\* The owner removes its own marker, and there is no other owner.
LEMMA ReleaseInv ==
    ASSUME IInv, NEW p \in Procs, Done(p) \/ Unmark(p) \/ Leave(p)
    PROVE  IInv'
<1>1. TypeOK'
  BY DEF IInv, TypeOK, Done, Holds, Unmark, Leave, Goto, Labels
<1>2. CASE Done(p) \/ Leave(p)
  <2>1. OwnerNamed'
    BY <1>2 DEF IInv, TypeOK, OwnerNamed, Owns, Done, Holds, Leave, Goto, Marker
  <2>2. ReclaimsDead' /\ GoneEmpty' /\ AttemptLeft'
    <3>1. ReclaimsDead'
      BY <1>2 DEF IInv, TypeOK, Markers, ReclaimsDead, Alive, Done, Holds, Leave, Goto
    <3>2. GoneEmpty'
      BY <1>2 DEF IInv, TypeOK, GoneEmpty, Done, Holds, Leave, Goto
    <3>3. AttemptLeft'
      BY <1>2 DEF IInv, TypeOK, AttemptLeft, Trying, Done, Holds, Leave, Goto
    <3> QED
      BY <3>1, <3>2, <3>3
  <2> QED BY <1>1, <2>1, <2>2 DEF IInv
<1>3. CASE Unmark(p)
  <2>1. markers = {Marker(p)}
    BY <1>3 DEF IInv, OwnerNamed, Owns, Unmark
  <2>2. \A q \in Procs \ {p} : ~Owns(q)
    <3> SUFFICES ASSUME NEW q \in Procs \ {p}, Owns(q) PROVE FALSE
      OBVIOUS
    <3>1. Marker(q) = Marker(p)
      BY <2>1 DEF IInv, OwnerNamed
    <3> QED BY <3>1 DEF Marker
  <2>3. OwnerNamed'
    BY <1>3, <2>2 DEF IInv, TypeOK, OwnerNamed, Owns, Unmark, Goto
  <2>4. ReclaimsDead' /\ GoneEmpty' /\ AttemptLeft'
    BY <1>3 DEF IInv, TypeOK, Markers, ReclaimsDead, Alive, GoneEmpty,
                AttemptLeft, Trying, Unmark, Goto
  <2> QED BY <1>1, <2>3, <2>4 DEF IInv
<1> QED BY <1>2, <1>3

\* Death disturbs nothing: the dead own nothing and stay dead.
LEMMA DieInv == ASSUME IInv, NEW p \in Procs, Die(p) PROVE IInv'
<1>1. TypeOK' /\ OwnerNamed'
  BY DEF IInv, TypeOK, OwnerNamed, Owns, Die, Goto, Labels, Marker
<1>2. ReclaimsDead' /\ GoneEmpty' /\ AttemptLeft'
  BY DEF IInv, TypeOK, Markers, ReclaimsDead, Alive, GoneEmpty, AttemptLeft,
         Trying, Die, Goto
<1> QED BY <1>1, <1>2 DEF IInv

\* No step and no stutter disturbs the invariant.
LEMMA StepInv == ASSUME IInv, [Next]_vars PROVE IInv'
<1>1. CASE UNCHANGED vars
  BY <1>1 DEF IInv, vars, TypeOK, OwnerNamed, Owns, Marker, ReclaimsDead, Alive,
              GoneEmpty, AttemptLeft
<1>2. ASSUME NEW p \in Procs, Step(p) \/ Die(p) PROVE IInv'
  BY <1>2, StartInv, LookInv, RenameInv, ListInv, ProbeInv, UnlinkInv, RmdirInv,
     ReleaseInv, DieInv DEF Step
<1> QED BY <1>1, <1>2 DEF Next

\* The strengthened invariant holds in every reachable state.
THEOREM Inductive == Spec => []IInv
<1>1. Init => IInv
  BY InitInv
<1>2. IInv /\ [Next]_vars => IInv'
  BY StepInv
<1> QED BY <1>1, <1>2, PTL DEF Spec

\* Every variable keeps its type; in particular attempts are bounded.
THEOREM LockTyped == Spec => []TypeOK
<1>1. IInv => TypeOK
  BY DEF IInv
<1> QED BY <1>1, Inductive, PTL

\* Whoever is inside is the one owner the directory names
\* (the comment at setup-state.ts:112).
THEOREM OwnerUndisturbed == Spec => []HolderNamed
<1>1. IInv => HolderNamed
  BY DEF IInv, OwnerNamed, Owns, HolderNamed, Holds
<1> QED BY <1>1, Inductive, PTL

\* The guard of an update and the setup lock are mutual exclusion.
THEOREM LockExcludes == Spec => []Exclusive
<1>1. IInv => Exclusive
  <2> SUFFICES ASSUME IInv, NEW p \in Procs, NEW q \in Procs, Holds(p), Holds(q)
               PROVE  p = q
    BY DEF Exclusive
  <2>1. Marker(p) = Marker(q)
    BY DEF IInv, OwnerNamed, Owns, Holds
  <2> QED BY <2>1 DEF Marker
<1> QED BY <1>1, Inductive, PTL
-----------------------------------------------------------------------------
(* Both directories implement OwnerLock: the owner is whoever the marker   *)
(* names, and it changes with a rename over nothing, with the owner's own  *)
(* unlink and with the unlink of a dead owner's marker.                    *)

\* There is never more than one marker.
OneMarker == \A m, n \in markers : m = n
owners == {m.pid : m \in markers}
insiders == {p \in Procs : Holds(p)}
killed == {p \in Procs : ~Alive(p)}

\* Only a rename over an empty directory puts a marker into it.
LEMMA OneMarkerStep == ASSUME OneMarker, [Next]_vars PROVE OneMarker'
<1>1. markers' \subseteq markers \/ \E p \in Procs : markers' = {Marker(p)}
  BY DEF Next, Step, Start, Stat, Rename, List, ReadMarker, Probe, Unlink, Rmdir,
         Done, Unmark, Leave, Die, vars
<1> QED BY <1>1 DEF OneMarker

\* A step of one process moves that process alone.
LEMMA OthersStay ==
    ASSUME TypeOK, NEW p \in Procs, Step(p) \/ Die(p)
    PROVE  \A q \in Procs \ {p} : pc'[q] = pc[q]
<1>1. \E l : pc' = [pc EXCEPT ![p] = l]
  BY DEF Step, Start, Stat, Rename, List, ReadMarker, Probe, Unlink, Rmdir, Done,
         Unmark, Leave, Die, Goto, NextTry
<1> QED BY <1>1 DEF TypeOK

\* Whoever enters, leaves or dies does so by one step; who is inside and who is
\* dead else stays so.
LEMMA InsideMoves ==
    ASSUME TypeOK, NEW p \in Procs, Step(p) \/ Die(p)
    PROVE  /\ insiders' = IF Holds(p)' THEN insiders \cup {p} ELSE insiders \ {p}
           /\ killed' = IF ~Alive(p)' THEN killed \cup {p} ELSE killed \ {p}
  BY OthersStay DEF insiders, killed, Holds, Alive

\* Every step is one of OwnerLock, or leaves owner, inside and dead alone.
LEMMA LockStep ==
    ASSUME IInv, OneMarker, NEW p \in Procs, Step(p) \/ Die(p)
    PROVE  \/ Owner!Enter(p) \/ Owner!Finish(p) \/ Owner!Release(p)
           \/ \E q \in Procs : Owner!Reclaim(q)
           \/ Owner!Die(p)
           \/ UNCHANGED <<owners, insiders, killed>>
<1> USE InsideMoves DEF IInv
<1>1. p \in insiders <=> Holds(p)
  BY DEF insiders
<1>2. p \in killed <=> ~Alive(p)
  BY DEF killed
<1>3. pc[p] \in Labels /\ pc'[p] \in Labels
  BY StepInv DEF Next, TypeOK
<1>4. ASSUME markers' = markers, pc[p] # "hold", pc'[p] # "hold", Alive(p), Alive(p)'
      PROVE  UNCHANGED <<owners, insiders, killed>>
  BY <1>1, <1>2, <1>4 DEF owners, Holds
<1>5. CASE Start(p) \/ Stat(p) \/ List(p) \/ ReadMarker(p) \/ Probe(p) \/ Rmdir(p) \/ Leave(p)
  <2>1. markers' = markers /\ pc[p] \notin {"hold", "dead"}
    BY <1>5 DEF Start, Stat, List, ReadMarker, Probe, Rmdir, Leave
  <2>2. \E l \in {"idle", "stat", "rename", "list", "read", "probe", "unlink"} :
           pc' = [pc EXCEPT ![p] = l]
    BY <1>5 DEF Start, Stat, List, ReadMarker, Probe, Rmdir, Leave, Goto, NextTry, First
  <2>3. pc'[p] \notin {"hold", "dead"}
    BY <2>2 DEF TypeOK
  <2> QED BY <1>4, <2>1, <2>3 DEF Alive
<1>6. CASE Rename(p)
  <2>1. CASE markers = {}
    <3>1. markers' = {Marker(p)} /\ pc[p] = "rename" /\ pc' = [pc EXCEPT ![p] = "hold"]
      BY <1>6, <2>1 DEF Rename, Goto
    <3>2. pc'[p] = "hold"
      BY <3>1 DEF TypeOK
    <3>3. owners = {} /\ owners' = {p}
      BY <2>1, <3>1 DEF owners, Marker
    <3>4. insiders' = insiders \cup {p} /\ killed' = killed /\ p \notin killed
      BY <1>2, <3>1, <3>2 DEF Holds, Alive
    <3>5. Owner!Enter(p)
      BY <3>3, <3>4 DEF Owner!Enter, owners, insiders, killed
    <3> QED BY <3>5
  <2>2. CASE markers # {}
    <3>1. markers' = markers /\ pc[p] = "rename" /\ pc' = [pc EXCEPT ![p] = "list"]
      BY <1>6, <2>2 DEF Rename, Goto
    <3>2. pc'[p] = "list"
      BY <3>1 DEF TypeOK
    <3> QED BY <1>4, <3>1, <3>2 DEF Alive
  <2> QED BY <2>1, <2>2
<1>7. CASE Unlink(p)
  <2>1. /\ markers' = markers \ {found[p]} /\ pc[p] = "unlink"
        /\ pc' = [pc EXCEPT ![p] = "rmdir"]
    BY <1>7 DEF Unlink, Goto
  <2>2. pc'[p] = "rmdir"
    BY <2>1 DEF TypeOK
  <2>3. insiders' = insiders /\ killed' = killed
    BY <1>1, <1>2, <2>1, <2>2 DEF Holds, Alive
  <2>4. CASE found[p] \in markers
    <3>1. PICK q \in killed : q = found[p].pid
      BY <2>1 DEF TypeOK, Markers, ReclaimsDead, killed
    <3>2. markers = {found[p]}
      BY <2>4 DEF OneMarker
    <3>3. owners = {q} /\ owners' = {}
      BY <2>1, <3>1, <3>2 DEF owners
    <3>4. Owner!Reclaim(q)
      BY <2>3, <3>3 DEF Owner!Reclaim, owners, insiders, killed
    <3>5. q \in Procs
      BY DEF killed
    <3> QED BY <3>4, <3>5
  <2>5. CASE found[p] \notin markers
    <3>1. owners' = owners
      BY <2>1, <2>5 DEF owners
    <3> QED BY <2>3, <3>1
  <2> QED BY <2>4, <2>5
<1>8. CASE Done(p)
  <2>1. markers' = markers /\ pc[p] = "hold" /\ pc' = [pc EXCEPT ![p] = "unmark"]
    BY <1>8 DEF Done, Holds, Goto
  <2>2. pc'[p] = "unmark"
    BY <2>1 DEF TypeOK
  <2>3. p \in insiders /\ insiders' = insiders \ {p} /\ killed' = killed
    BY <1>1, <1>2, <2>1, <2>2 DEF Holds, Alive
  <2>4. owners' = owners
    BY <2>1 DEF owners
  <2>5. Owner!Finish(p)
    BY <2>3, <2>4 DEF Owner!Finish, owners, insiders, killed
  <2> QED BY <2>5
<1>9. CASE Unmark(p)
  <2>1. /\ markers' = markers \ {Marker(p)} /\ pc[p] = "unmark"
        /\ pc' = [pc EXCEPT ![p] = "leave"]
    BY <1>9 DEF Unmark, Goto
  <2>2. pc'[p] = "leave"
    BY <2>1 DEF TypeOK
  <2>3. markers = {Marker(p)} /\ markers' = {}
    BY <2>1 DEF OwnerNamed, Owns
  <2>4. owners = {p} /\ owners' = {}
    BY <2>3 DEF owners, Marker
  <2>5. /\ insiders' = insiders /\ killed' = killed
        /\ p \notin insiders /\ p \notin killed
    BY <1>1, <1>2, <2>1, <2>2 DEF Holds, Alive
  <2>6. Owner!Release(p)
    BY <2>4, <2>5 DEF Owner!Release, owners, insiders, killed
  <2> QED BY <2>6
<1>10. CASE Die(p)
  <2>1. markers' = markers /\ pc[p] # "dead" /\ pc' = [pc EXCEPT ![p] = "dead"]
    BY <1>10 DEF Die, Goto
  <2>2. pc'[p] = "dead"
    BY <2>1 DEF TypeOK
  <2>3. /\ p \notin killed /\ killed' = killed \cup {p}
        /\ insiders' = insiders \ {p}
    BY <1>2, <2>1, <2>2 DEF Holds, Alive
  <2>4. owners' = owners
    BY <2>1 DEF owners
  <2>5. Owner!Die(p)
    BY <2>3, <2>4 DEF Owner!Die, owners, insiders, killed
  <2> QED BY <2>5
<1> QED BY <1>5, <1>6, <1>7, <1>8, <1>9, <1>10 DEF Step

\* Whatever the processes do, and wherever they are killed, what they see of
\* either directory is an OwnerLock.
THEOREM LockImplemented == Spec => ImplementsOwnerLock
<1>1. Init => Owner!Init /\ OneMarker
  BY DEF Init, Owner!Init, OneMarker, Holds, Alive
<1>2. ASSUME IInv, OneMarker, [Next]_vars
      PROVE  [Owner!Next]_<<owners, insiders, killed>>
  <2>1. CASE UNCHANGED vars
    BY <2>1 DEF vars, owners, insiders, killed, Holds, Alive
  <2>2. ASSUME NEW p \in Procs, Step(p) \/ Die(p)
        PROVE  [Owner!Next]_<<owners, insiders, killed>>
    BY <1>2, <2>2, LockStep DEF Owner!Next
  <2> QED BY <1>2, <2>1, <2>2 DEF Next
<1>3. OneMarker /\ [Next]_vars => OneMarker'
  BY OneMarkerStep
<1> USE DEF owners, insiders, killed
<1> QED BY <1>1, <1>2, <1>3, Inductive, PTL DEF Spec, ImplementsOwnerLock, Owner!Spec
=============================================================================
