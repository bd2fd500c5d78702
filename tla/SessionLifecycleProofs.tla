----------------------- MODULE SessionLifecycleProofs -----------------------
(***************************************************************************)
(* Proofs about SessionLifecycle: types, and the four safety properties.   *)
(*                                                                         *)
(* The properties hold while certain mishaps have not happened since the   *)
(* bridge started, so the invariant has a part for each of three ever      *)
(* stronger assumptions (Calm, Smooth, Flawless) and one for a bridge that *)
(* starts undisturbed; a restart clears the mishaps and has to establish   *)
(* all of them anew.  The first part is proved over the kinds of steps of  *)
(* a calm bridge (CalmStep), into which the actions are taken apart once.  *)
(* What is known of the queue is said of the places at which its tasks are.*)
(***************************************************************************)
EXTENDS SessionLifecycle, SequenceTheorems, TLAPS

USE LifecycleAssumption

-----------------------------------------------------------------------------
(* The queue. *)

\* A task has joined the queue; or its first has left it.
Grown(q, t, p) ==
  /\ p \in Seq(Task) /\ p # << >> /\ Len(q) \in Nat
  /\ DOMAIN q = 1..Len(q) /\ DOMAIN p = 1..(Len(q) + 1)
  /\ \A i \in DOMAIN q : i \in DOMAIN p /\ p[i] = q[i]
  /\ p[Len(q) + 1] = t
  /\ q # << >> => Head(p) = Head(q)
  /\ q = << >> => Head(p) = t
Popped(q, p) ==
  /\ p \in Seq(Task) /\ Len(q) \in Nat \ {0}
  /\ DOMAIN q = 1..Len(q) /\ DOMAIN p = 1..(Len(q) - 1)
  /\ 1 \in DOMAIN q /\ Head(q) = q[1] /\ q[1] \in Task
  /\ \A i \in DOMAIN p : i + 1 \in DOMAIN q /\ p[i] = q[i + 1]

\* Append is an enqueue: everyone keeps its place, the newcomer is last.
LEMMA AppendGrows ==
  ASSUME NEW q \in Seq(Task), NEW t \in Task
  PROVE  Grown(q, t, Append(q, t))
  <1> DEFINE p == Append(q, t)
  <1>1. PICK n \in Nat : n = Len(q)
    OBVIOUS
  <1>2. /\ p \in Seq(Task) /\ DOMAIN q = 1..n /\ DOMAIN p = 1..(n + 1)
        /\ \A i \in 1..n : p[i] = q[i]
        /\ p[n + 1] = t
    BY <1>1
  <1>3. p # << >> /\ \A i \in 1..n : i \in 1..(n + 1)
    <2>1. n + 1 \in DOMAIN p
      BY <1>2
    <2>2. p # << >>
      BY <2>1
    <2> QED
      BY <2>2
  <1>4. Head(p) = p[1] /\ (q # << >> => Head(q) = q[1] /\ 1 \in 1..n) /\ (q = << >> => n = 0)
    BY <1>1, <1>2, <1>3
  <1> HIDE DEF p
  <1>5. Grown(q, t, p)
    BY <1>1, <1>2, <1>3, <1>4 DEF Grown
  <1> QED
    BY <1>5 DEF p

\* Tail is a dequeue: everyone moves up by one.
LEMMA TailPops ==
  ASSUME NEW q \in Seq(Task), q # << >>
  PROVE  Popped(q, Tail(q))
  <1>1. PICK n \in Nat \ {0} : n = Len(q) /\ DOMAIN q = 1..n
    OBVIOUS
  <1>2. /\ Tail(q) \in Seq(Task) /\ DOMAIN Tail(q) = 1..(n - 1)
        /\ \A i \in 1..(n - 1) : Tail(q)[i] = q[i + 1]
    BY <1>1
  <1>3. Head(q) = q[1] /\ q[1] \in Task /\ 1 \in 1..n
    BY <1>1
  <1>4. \A i \in 1..(n - 1) : i + 1 \in 1..n
    OBVIOUS
  <1> QED
    BY <1>1, <1>2, <1>3, <1>4 DEF Popped

-----------------------------------------------------------------------------
(* Types, and whose turn it is. *)

\* How far the first task has come says which it is.
TurnShape ==
  /\ at = "launch" => Running("retry") \/ Running("resurrect")
  /\ at \in {"archive", "delete"} => Running("remove") \/ Running("clear")
  /\ at = "publish" => Running("resurrect")
Typed == TypeOK /\ TurnShape

\* Where the queue goes.
Stays == queue' = queue
Joined == \E t \in Task : queue' = Append(queue, t)
Left == queue # << >> /\ queue' = Tail(queue)
Replaced == queue # << >> /\ \E t \in Task : queue' = Append(Tail(queue), t)

\* A task joins, or the first one leaves, and another may join with it.
LEMMA QueueMoves ==
  ASSUME Typed, [Next]_vars
  PROVE  \/ Stays \/ Joined
         \/ (Left \/ Replaced) /\ at' = "start"
         \/ queue' = << >> /\ at' = "start"
  <1>0. /\ at \in {"archive", "delete"} => queue # << >>
        /\ last \in Nat /\ gen \in Nat
        /\ \A g \in Nat : \A v \in Verdicts : Ended(v, g) \in Task
        /\ \A op \in {"stopped", "retry", "remove", "clear", "resurrect", "bury"} : TaskOf(op) \in Task
        /\ "error" \in Verdicts /\ last + 1 \in Nat
    BY DEF Typed, TypeOK, TurnShape, Running, Ended, TaskOf, Task, Verdicts
  <1>1. CASE Creating
    BY <1>1, <1>0 DEF Creating, CreateKills, Moves, CreateNew, Superseded,
       CreatedLate, Forget, Created, CreateFailed, Stays, Joined, Left,
       Replaced, Running
  <1>2. CASE ExitStopped \/ ExitReported \/ ForceStop \/ KillRuns \/ CommandEnds
    BY <1>2, <1>0 DEF ExitStopped, Forget, ExitReported, Enqueue, ForceStop,
       KillRuns, CommandEnds, Stays, Joined, Left, Replaced, Running
  <1>3. CASE WriteStopped \/ WriteEnded \/ RetryRefused \/ RetrySaves \/
            RetryUnpublished
    BY <1>3, <1>0 DEF WriteStopped, Finish, WriteEnded, RetryRefused,
       RetrySaves, RetryUnpublished, Stays, Joined, Left, Replaced, Running
  <1>4. CASE RemoveRefused \/ RemoveStops \/ RemoveArchives \/ RemoveDeletes
    BY <1>4, <1>0 DEF RemoveRefused, Finish, RemoveStops, RemoveArchives,
       RemoveDeletes, Stays, Joined, Left, Replaced, Running
  <1>5. CASE LeftAlone \/ ReattachPublished \/ Resumes \/ MarkedDead \/ Bury \/
            ResurrectFails
    BY <1>5, <1>0 DEF LeftAlone, Finish, ReattachPublished, Resumes,
       MarkedDead, Bury, ResurrectFails, Stays, Joined, Left, Replaced,
       Running
  <1>6. CASE RetryRuns \/ ResumeRuns \/ CreateRuns \/ Reattaches \/ WatchAttaches
    BY <1>6, <1>0 DEF RetryRuns, Run, RunFails, ResumeRuns, CreateRuns,
       Enqueue, Reattaches, Attach, AttachFails, WatchAttaches, Stays,
       Joined, Left, Replaced, Running
  <1>7. CASE CreateSaves \/ Stop \/ (\E op \in {"retry", "remove", "clear"} :
            Ask(op)) \/ WatchLoads
    BY <1>7, <1>0 DEF CreateSaves, Stop, Enqueue, Ask, WatchLoads, Stays,
       Joined, Left, Replaced, Running
  <1>8. CASE Restart \/ ListRecords \/ ListTmux \/ Reap \/ Resurrect
    BY <1>8, <1>0 DEF Restart, ListRecords, ListTmux, Reap, Resurrect,
       Enqueue, Stays, Joined, Left, Replaced, Running
  <1>9. CASE UNCHANGED vars
    BY <1>9, <1>0 DEF vars, disk, runner, server, revival, counts, bounds,
       Stays, Joined, Left, Replaced, Running
  <1> QED
    BY <1>1, <1>2, <1>3, <1>4, <1>5, <1>6, <1>7, <1>8, <1>9 DEF Next,
       Queued, Creating, Exits, Reviving

\* The types, in four parts.
Numbers ==
  /\ gen \in Nat /\ last \in Nat /\ tmux \in Nat /\ kills \in Nat
  /\ creates \subseteq Creation /\ strays \subseteq Nat
Marks ==
  /\ rec \in Statuses /\ at \in Stages
  /\ creator \in {"idle", "staggering", "done"} /\ watcher \in {"idle", "loaded"}
  /\ res \in {"list", "probe", "reap", "queue", "wait", "done"}
  /\ client \in {"none", "up", "forced"}
Flags ==
  /\ runtime \in Runtimes /\ tomb \in BOOLEAN /\ retired \in BOOLEAN
  /\ stopping \in BOOLEAN /\ isTmux \in BOOLEAN
  /\ snapshot \in [rec : Statuses, tmux : BOOLEAN]
Bounded ==
  /\ commands \in 0..MaxCommands /\ restarts \in 0..MaxRestarts
  /\ watches \in 0..MaxWatches /\ mishaps \subseteq Faults

\* Every step keeps the types of what is counted or numbered.
LEMMA NumbersStep ==
  ASSUME Typed, [Next]_vars
  PROVE  Numbers'
  <1>0. Numbers /\ queue \in Seq(Task) /\ (runtime = "tmux" \/ runtime = "direct")
    BY DEF Typed, TypeOK, Numbers
  <1>a. ASSUME Run \/ RunFails \/ Attach \/ AttachFails
        PROVE  Numbers'
    <2>1. gen' \in Nat /\ last' \in Nat /\ tmux' \in Nat /\ kills' \in Nat
      BY <1>a, <1>0 DEF Run, RunFails, Attach, AttachFails, NewGeneration, server, Numbers
    <2>2. strays' \subseteq Nat
      BY <1>a, <1>0 DEF Run, RunFails, Attach, AttachFails, Numbers
    <2>3. [gen |-> last + 1, at |-> "kill"] \in Creation
      BY <1>0 DEF Numbers, Creation
    <2>4. creates' \subseteq creates \cup {[gen |-> last + 1, at |-> "kill"]}
      BY <1>a DEF Run, RunFails, Attach, AttachFails, server
    <2> QED
      BY <2>1, <2>2, <2>3, <2>4, <1>0 DEF Numbers
  <1>b. ASSUME StopRunner
        PROVE  Numbers'
    <2>1. kills' \in Nat
      BY <1>b, <1>0 DEF StopRunner, Numbers
    <2> QED
      BY <1>b, <2>1, <1>0 DEF StopRunner, Numbers
  <1>1. CASE Creating
    BY <1>1, <1>0 DEF Creating, CreateKills, Moves, CreateNew, HappensIf,
       Happen, Superseded, CreatedLate, Forget, Created, CreateFailed,
       Happens, Numbers, Creation, disk, runner, server, revival, counts,
       bounds
  <1>2. CASE ExitStopped
    BY <1>2, <1>0 DEF ExitStopped, Forget, Numbers, Creation, disk, runner,
       server, revival, counts, bounds
  <1>3. CASE ExitReported
    BY <1>3, <1>0 DEF ExitReported, Forget, Numbers, server
  <1>4. CASE ForceStop
    BY <1>4, <1>0 DEF ForceStop, Numbers, server
  <1>5. CASE KillRuns
    BY <1>5, <1>0 DEF KillRuns, Numbers, runner
  <1>6. CASE CommandEnds
    BY <1>6, <1>0 DEF CommandEnds, Numbers, runner
  <1>7. CASE WriteStopped \/ WriteEnded \/ RetryRefused \/ RetrySaves \/
            RetryUnpublished
    BY <1>7, <1>0 DEF WriteStopped, Save, Finish, WriteEnded, RetryRefused,
       RetrySaves, RetryUnpublished, Happens, Happen, Numbers, Creation,
       disk, runner, server, revival, counts, bounds
  <1>8. CASE RemoveRefused \/ RemoveArchives \/ RemoveDeletes
    BY <1>8, <1>0 DEF RemoveRefused, Finish, RemoveArchives, Happens,
       Happen, RemoveDeletes, Numbers, Creation, disk, runner, server,
       revival, counts, bounds
  <1>9. CASE RemoveStops
    BY <1>9, <1>b DEF RemoveStops
  <1>10. CASE LeftAlone \/ ReattachPublished \/ Resumes \/ MarkedDead \/ Bury \/
            ResurrectFails
    BY <1>10, <1>0 DEF LeftAlone, Finish, ReattachPublished, Resumes, Save,
       MarkedDead, Bury, ResurrectFails, Happens, Happen, Numbers, Creation,
       disk, runner, server, revival, counts, bounds
  <1>11. CASE CreateSaves \/ (\E op \in {"retry", "remove", "clear"} : Ask(op)) \/
            WatchLoads
    BY <1>11, <1>0 DEF CreateSaves, Save, Ask, Commanded, Happen,
       WatchLoads, Happens, Numbers, Creation, disk, runner, server,
       revival, counts, bounds
  <1>12. CASE Stop
    BY <1>12, <1>b DEF Stop
  <1>13. CASE Restart \/ ListRecords \/ ListTmux \/ Reap \/ Resurrect
    BY <1>13, <1>0 DEF Restart, ListRecords, ListTmux, Reap, Resurrect,
       Numbers, Creation, disk, runner, server, revival, counts, bounds
  <1>14. CASE RetryRuns \/ ResumeRuns \/ CreateRuns \/ Reattaches
    BY <1>14, <1>a DEF RetryRuns, ResumeRuns, CreateRuns, Reattaches
  <1>15. CASE WatchAttaches
    BY <1>15, <1>a, <1>0 DEF WatchAttaches, Numbers, runner, server
  <1>16. CASE UNCHANGED vars
    BY <1>16, <1>0 DEF vars, disk, runner, server, revival, counts, bounds,
       Numbers, Creation
  <1> QED
    BY <1>1, <1>2, <1>3, <1>4, <1>5, <1>6, <1>7, <1>8, <1>9, <1>10, <1>11,
       <1>12, <1>13, <1>14, <1>15, <1>16 DEF Next, Queued, Creating, Exits,
       Reviving

\* Every step keeps the types of the stages.
LEMMA MarksStep ==
  ASSUME Typed, [Next]_vars
  PROVE  Marks'
  <1>0. /\ Marks /\ queue \in Seq(Task)
        /\ queue # << >> => Head(queue).verdict \in Verdicts
    <2>1. ASSUME queue # << >> PROVE Head(queue) \in Task
      BY <2>1, TailPops DEF Typed, TypeOK, Popped
    <2> QED
      BY <2>1 DEF Typed, TypeOK, Marks, Task
  <1>1. CASE Creating
    BY <1>1, <1>0 DEF Creating, CreateKills, Moves, CreateNew, HappensIf,
       Happen, Superseded, CreatedLate, Forget, Created, CreateFailed,
       Happens, Marks, Running, Statuses, Stages, Verdicts, disk, runner,
       server, revival, counts, bounds
  <1>2. CASE ExitStopped \/ ExitReported \/ ForceStop \/ KillRuns \/ CommandEnds
    BY <1>2, <1>0 DEF ExitStopped, Forget, ExitReported, Happens, Happen,
       ForceStop, KillRuns, CommandEnds, Marks, Running, Statuses, Stages,
       Verdicts, disk, runner, server, revival, counts, bounds
  <1>3. CASE WriteStopped \/ WriteEnded \/ RetryRefused \/ RetrySaves \/
            RetryUnpublished
    BY <1>3, <1>0 DEF WriteStopped, Save, Finish, WriteEnded, RetryRefused,
       RetrySaves, RetryUnpublished, Happens, Happen, Marks, Running,
       Statuses, Stages, Verdicts, disk, runner, server, revival, counts,
       bounds
  <1>4. CASE RemoveRefused \/ RemoveStops \/ RemoveArchives \/ RemoveDeletes
    BY <1>4, <1>0 DEF RemoveRefused, Finish, RemoveStops, StopRunner,
       RemoveArchives, Happens, Happen, RemoveDeletes, Marks, Running,
       Statuses, Stages, Verdicts, disk, runner, server, revival, counts,
       bounds
  <1>5. CASE LeftAlone \/ ReattachPublished \/ Resumes \/ MarkedDead \/ Bury \/
            ResurrectFails
    BY <1>5, <1>0 DEF LeftAlone, Finish, ReattachPublished, Resumes, Save,
       MarkedDead, Bury, ResurrectFails, Happens, Happen, Marks, Running,
       Statuses, Stages, Verdicts, disk, runner, server, revival, counts,
       bounds
  <1>6. CASE RetryRuns \/ ResumeRuns \/ CreateRuns \/ Reattaches \/ WatchAttaches
    BY <1>6, <1>0 DEF RetryRuns, Run, RunFails, NewGeneration, HappensIf,
       Happens, Happen, ResumeRuns, CreateRuns, Reattaches, Attach,
       AttachFails, Save, WatchAttaches, Marks, Running, Statuses, Stages,
       Verdicts, disk, runner, server, revival, counts, bounds
  <1>7. CASE CreateSaves \/ Stop \/ (\E op \in {"retry", "remove", "clear"} :
            Ask(op)) \/ WatchLoads
    BY <1>7, <1>0 DEF CreateSaves, Save, Stop, Commanded, Happen,
       StopRunner, Ask, WatchLoads, Happens, Marks, Running, Statuses,
       Stages, Verdicts, disk, runner, server, revival, counts, bounds
  <1>8. CASE Restart \/ ListRecords \/ ListTmux \/ Reap \/ Resurrect
    BY <1>8, <1>0 DEF Restart, ListRecords, ListTmux, Reap, Resurrect,
       Marks, Running, Statuses, Stages, Verdicts, disk, runner, server,
       revival, counts, bounds
  <1>9. CASE UNCHANGED vars
    BY <1>9, <1>0 DEF vars, disk, runner, server, revival, counts, bounds,
       Marks, Running, Statuses, Stages, Verdicts
  <1> QED
    BY <1>1, <1>2, <1>3, <1>4, <1>5, <1>6, <1>7, <1>8, <1>9 DEF Next,
       Queued, Creating, Exits, Reviving

\* Every step keeps the types of the flags, and of what a start has read.
LEMMA FlagsStep ==
  ASSUME Typed, [Next]_vars
  PROVE  Flags'
  <1>0. Flags /\ rec \in Statuses
    BY DEF Typed, TypeOK, Flags
  <1>1. CASE Creating
    <2>1. PICK c \in creates :
            CreateKills(c) \/ CreateNew(c) \/ Superseded(c) \/ CreatedLate(c)
            \/ Created(c) \/ CreateFailed(c)
      BY <1>1 DEF Creating
    <2>2. CASE CreateKills(c)
      BY <2>2, <1>0 DEF CreateKills, Moves, Flags, disk, runner, server, revival, counts, bounds
    <2>3. CASE CreateNew(c)
      BY <2>3, <1>0 DEF CreateNew, Moves, HappensIf, Happen, Flags, disk, runner, server,
         revival, counts, bounds
    <2>4. CASE Superseded(c)
      BY <2>4, <1>0 DEF Superseded, Flags, disk, runner, server, revival, counts, bounds
    <2>5. CASE CreatedLate(c)
      BY <2>5, <1>0 DEF CreatedLate, Forget, Flags, disk, runner, server, revival, counts,
         bounds
    <2>6. CASE Created(c)
      BY <2>6, <1>0 DEF Created, Flags, disk, runner, server, revival, counts, bounds
    <2>7. CASE CreateFailed(c)
      BY <2>7, <1>0 DEF CreateFailed, Forget, Flags, disk, runner, server,
         revival, counts, bounds
    <2> QED
      BY <2>1, <2>2, <2>3, <2>4, <2>5, <2>6, <2>7
  <1>2. CASE ExitStopped \/ ExitReported \/ ForceStop \/ KillRuns \/ CommandEnds
    BY <1>2, <1>0 DEF ExitStopped, Forget, ExitReported, Happens, Happen,
       ForceStop, KillRuns, CommandEnds, Flags, disk, runner, server,
       revival, counts, bounds
  <1>3. CASE WriteStopped \/ WriteEnded \/ RetryRefused \/ RetrySaves \/
            RetryUnpublished
    BY <1>3, <1>0 DEF WriteStopped, Save, Finish, WriteEnded, RetryRefused,
       RetrySaves, RetryUnpublished, Happens, Happen, Flags, disk, runner,
       server, revival, counts, bounds
  <1>4. CASE RemoveRefused \/ RemoveStops \/ RemoveArchives \/ RemoveDeletes
    BY <1>4, <1>0 DEF RemoveRefused, Finish, RemoveStops, StopRunner,
       RemoveArchives, Happens, Happen, RemoveDeletes, Flags, disk, runner,
       server, revival, counts, bounds
  <1>5. CASE LeftAlone \/ ReattachPublished \/ Resumes \/ MarkedDead \/ Bury \/
            ResurrectFails
    BY <1>5, <1>0 DEF LeftAlone, Finish, ReattachPublished, Resumes, Save,
       MarkedDead, Bury, ResurrectFails, Happens, Happen, Flags, disk,
       runner, server, revival, counts, bounds
  <1>6. CASE RetryRuns \/ ResumeRuns \/ CreateRuns \/ Reattaches \/ WatchAttaches
    BY <1>6, <1>0 DEF RetryRuns, Run, RunFails, NewGeneration, HappensIf,
       Happens, Happen, ResumeRuns, CreateRuns, Reattaches, Attach,
       AttachFails, Save, WatchAttaches, Flags, disk, runner, server,
       revival, counts, bounds
  <1>7. CASE CreateSaves \/ Stop \/ (\E op \in {"retry", "remove", "clear"} :
            Ask(op)) \/ WatchLoads
    BY <1>7, <1>0 DEF CreateSaves, Save, Stop, Commanded, Happen,
       StopRunner, Ask, WatchLoads, Happens, Flags, disk, runner, server,
       revival, counts, bounds
  <1>8. CASE Restart \/ ListRecords \/ ListTmux \/ Reap \/ Resurrect
    BY <1>8, <1>0 DEF Restart, ListRecords, ListTmux, Reap, Resurrect,
       Flags, disk, runner, server, revival, counts, bounds
  <1>9. CASE UNCHANGED vars
    BY <1>9, <1>0 DEF vars, disk, runner, server, revival, counts, bounds,
       Flags
  <1> QED
    BY <1>1, <1>2, <1>3, <1>4, <1>5, <1>6, <1>7, <1>8, <1>9 DEF Next,
       Queued, Creating, Exits, Reviving

\* Every step keeps the bounds.
LEMMA BoundedStep ==
  ASSUME Typed, [Next]_vars
  PROVE  Bounded'
  <1>0. Bounded
    BY DEF Typed, TypeOK, Bounded
  <1>1. CASE Creating
    BY <1>1, <1>0 DEF Creating, CreateKills, Moves, CreateNew, HappensIf,
       Happen, Superseded, CreatedLate, Forget, Created, CreateFailed,
       Happens, Bounded, disk, runner, server, revival, counts, bounds
  <1>2. CASE ExitStopped \/ ExitReported \/ ForceStop \/ KillRuns \/ CommandEnds
    BY <1>2, <1>0 DEF ExitStopped, Forget, ExitReported, Happens, Happen,
       ForceStop, KillRuns, CommandEnds, Bounded, disk, runner, server,
       revival, counts, bounds
  <1>3. CASE WriteStopped \/ WriteEnded \/ RetryRefused \/ RetrySaves \/
            RetryUnpublished
    BY <1>3, <1>0 DEF WriteStopped, Save, Finish, WriteEnded, RetryRefused,
       RetrySaves, RetryUnpublished, Happens, Happen, Bounded, disk, runner,
       server, revival, counts, bounds
  <1>4. CASE RemoveRefused \/ RemoveStops \/ RemoveArchives \/ RemoveDeletes
    BY <1>4, <1>0 DEF RemoveRefused, Finish, RemoveStops, StopRunner,
       RemoveArchives, Happens, Happen, RemoveDeletes, Bounded, disk,
       runner, server, revival, counts, bounds
  <1>5. CASE LeftAlone \/ ReattachPublished \/ Resumes \/ MarkedDead \/ Bury \/
            ResurrectFails
    BY <1>5, <1>0 DEF LeftAlone, Finish, ReattachPublished, Resumes, Save,
       MarkedDead, Bury, ResurrectFails, Happens, Happen, Bounded, disk,
       runner, server, revival, counts, bounds
  <1>6. CASE RetryRuns \/ ResumeRuns \/ CreateRuns \/ Reattaches \/ WatchAttaches
    BY <1>6, <1>0 DEF RetryRuns, Run, RunFails, NewGeneration, HappensIf,
       Happens, Happen, ResumeRuns, CreateRuns, Reattaches, Attach,
       AttachFails, Save, WatchAttaches, Bounded, disk, runner, server,
       revival, counts, bounds
  <1>7. CASE CreateSaves \/ Stop \/ (\E op \in {"retry", "remove", "clear"} :
            Ask(op)) \/ WatchLoads
    BY <1>7, <1>0 DEF CreateSaves, Save, Stop, Commanded, Happen,
       StopRunner, Ask, WatchLoads, Happens, Bounded, disk, runner, server,
       revival, counts, bounds
  <1>8. CASE Restart \/ ListRecords \/ ListTmux \/ Reap \/ Resurrect
    BY <1>8, <1>0 DEF Restart, ListRecords, ListTmux, Reap, Resurrect,
       Bounded, disk, runner, server, revival, counts, bounds
  <1>9. CASE UNCHANGED vars
    BY <1>9, <1>0 DEF vars, disk, runner, server, revival, counts, bounds,
       Bounded
  <1> QED
    BY <1>1, <1>2, <1>3, <1>4, <1>5, <1>6, <1>7, <1>8, <1>9 DEF Next,
       Queued, Creating, Exits, Reviving

\* A task's turn goes on while it is at the head of the line.
LEMMA TurnStep ==
  ASSUME Typed, [Next]_vars
  PROVE  TurnShape'
  <1>0. TurnShape /\ queue \in Seq(Task) /\ at \in Stages
    BY DEF Typed, TypeOK
  <1>1. ASSUME at' = "start" PROVE TurnShape'
    BY <1>1 DEF TurnShape
  <1>2. ASSUME Stays \/ Joined
        PROVE  queue # << >> => queue' # << >> /\ Head(queue') = Head(queue)
    BY <1>2, <1>0, AppendGrows DEF Stays, Joined, Grown
  <1>3. CASE at' = at
    BY <1>0, <1>1, <1>2, <1>3, QueueMoves DEF TurnShape, Running
  <1>4. CASE RetrySaves \/ RemoveStops \/ RemoveArchives \/ Reattaches \/ Resumes
    <2>1. CASE at' = "start"
      BY <1>1, <2>1
    <2>2. CASE at' # "start"
      <3>1. queue # << >> => queue' # << >> /\ Head(queue') = Head(queue)
        BY <1>2, <2>2, QueueMoves
      <3> QED
        BY <1>4, <2>2, <3>1, <1>0
           DEF RetrySaves, RemoveStops, RemoveArchives, Reattaches, Resumes, Finish,
               TurnShape, Running
    <2> QED
      BY <2>1, <2>2
  <1>5. at' = at \/ at' = "start" \/ RetrySaves \/ RemoveStops \/ RemoveArchives \/ Reattaches \/ Resumes
    <2>1. CASE Creating
      BY <2>1 DEF Creating, CreateKills, CreateNew, Superseded, CreatedLate,
         Created, CreateFailed
    <2>2. CASE ExitStopped \/ ExitReported \/ ForceStop \/ KillRuns \/ CommandEnds
      BY <2>2 DEF ExitStopped, ExitReported, ForceStop, KillRuns,
         CommandEnds
    <2>3. CASE WriteStopped \/ WriteEnded \/ RetryRefused \/ RetryUnpublished
      BY <2>3 DEF WriteStopped, Finish, WriteEnded, RetryRefused,
         RetryUnpublished
    <2>4. CASE RemoveRefused \/ RemoveDeletes
      BY <2>4 DEF RemoveRefused, Finish, RemoveDeletes
    <2>5. CASE LeftAlone \/ ReattachPublished \/ MarkedDead \/ Bury \/
              ResurrectFails
      BY <2>5 DEF LeftAlone, Finish, ReattachPublished, MarkedDead, Bury,
         ResurrectFails
    <2>6. CASE RetryRuns \/ ResumeRuns \/ CreateRuns \/ WatchAttaches
      BY <2>6 DEF RetryRuns, ResumeRuns, CreateRuns, WatchAttaches
    <2>7. CASE CreateSaves \/ Stop \/ (\E op \in {"retry", "remove", "clear"} :
              Ask(op)) \/ WatchLoads
      BY <2>7 DEF CreateSaves, Stop, Ask, WatchLoads
    <2>8. CASE Restart \/ ListRecords \/ ListTmux \/ Reap \/ Resurrect
      BY <2>8 DEF Restart, ListRecords, ListTmux, Reap, Resurrect
    <2>9. CASE UNCHANGED vars
      BY <2>9 DEF vars, disk, runner, server, revival, counts, bounds
    <2>t. CASE RetrySaves \/ RemoveStops \/ RemoveArchives \/ Reattaches \/ Resumes
      BY <2>t
    <2> QED
      BY <2>t, <2>1, <2>2, <2>3, <2>4, <2>5, <2>6, <2>7, <2>8, <2>9 DEF Next,
         Queued, Creating, Exits, Reviving
  <1> QED
    BY <1>1, <1>3, <1>4, <1>5

\* Every step keeps the types, and the first task its turn.
LEMMA TypedStep == Typed /\ [Next]_vars => Typed'
  <1> SUFFICES ASSUME Typed, [Next]_vars
               PROVE  Typed'
    OBVIOUS
  <1>1. queue' \in Seq(Task)
    <2>1. queue \in Seq(Task)
      BY DEF Typed, TypeOK
    <2>2. CASE Stays
      BY <2>1, <2>2 DEF Stays
    <2>3. CASE Joined
      BY <2>1, <2>3, AppendGrows DEF Joined, Grown
    <2>4. CASE Left \/ Replaced
      <3>1. Tail(queue) \in Seq(Task)
        BY <2>1, <2>4, TailPops DEF Left, Replaced, Popped
      <3> QED
        BY <3>1, <2>4, AppendGrows DEF Left, Replaced, Grown
    <2>5. CASE queue' = << >>
      BY <2>5
    <2> QED
      BY <2>2, <2>3, <2>4, <2>5, QueueMoves
  <1>2. Numbers' /\ Marks' /\ Flags' /\ Bounded'
    BY NumbersStep, MarksStep, FlagsStep, BoundedStep
  <1>3. TypeOK'
    BY <1>1, <1>2 DEF TypeOK, Numbers, Marks, Flags, Bounded
  <1> QED
    BY <1>3, TurnStep DEF Typed

\* They hold at first.
LEMMA TypedInit == Init => Typed
  <1> SUFFICES ASSUME Init PROVE Typed
    OBVIOUS
  <1>1. TurnShape
    BY DEF Init, TurnShape
  <1>2. queue \in Seq(Task) /\ Numbers /\ Marks /\ Flags /\ Bounded
    <2>1. queue \in Seq(Task) /\ Numbers
      BY DEF Init, Numbers
    <2>2. Marks
      BY DEF Init, Marks, Statuses, Stages
    <2>3. Flags
      BY DEF Init, Flags, Statuses
    <2>4. Bounded
      BY DEF Init, Bounded
    <2> QED
      BY <2>1, <2>2, <2>3, <2>4
  <1> QED
    BY <1>1, <1>2 DEF Typed, TypeOK, Numbers, Marks, Flags, Bounded

-----------------------------------------------------------------------------
(* How record, process and server hang together. *)

Quiet == gen = 0 \/ stopping
Loud == gen # 0 /\ ~stopping

RecordShape ==
  /\ at \in {"launch", "publish"} => rec = "running"
  /\ retired => rec = "gone"
  /\ rec = "gone" \/ at = "delete" => tomb
  /\ rec = "none" <=> creator = "idle"
  /\ at \in {"archive", "delete"} => Stored

\* A generation has a client, or a tmux session, or one in the making.
ClientShape ==
  /\ client = "up" => gen # 0
  /\ client = "forced" => stopping
  /\ stopping \/ isTmux => gen # 0
  /\ gen # 0 => isTmux \/ client # "none"
MakingShape ==
  /\ gen <= last /\ \A c \in creates : c.gen <= last
  /\ Loud /\ client # "up" => \E c \in creates : c.gen = gen
RuntimeShape ==
  /\ runtime = "direct" => ~isTmux /\ tmux = 0 /\ creates = {} /\ kills = 0
  /\ runtime = "tmux" /\ gen # 0 => isTmux
RunnerShape == ClientShape /\ MakingShape /\ RuntimeShape

\* Every step keeps the record in step with its tombstone and with the task
\* that works on it.
LEMMA RecordStep ==
  ASSUME Typed, RecordShape, [Next]_vars
  PROVE  RecordShape'
  <1>0. /\ TurnShape /\ RecordShape /\ rec \in Statuses /\ at \in Stages
        /\ retired \in BOOLEAN /\ tomb \in BOOLEAN
        /\ queue # << >> => Head(queue).verdict \in Verdicts
    <2>1. ASSUME queue # << >> PROVE Head(queue) \in Task
      BY <2>1, TailPops DEF Typed, TypeOK, Popped
    <2> QED
      BY <2>1 DEF Typed, TypeOK, Task
  <1>1. CASE Creating
    BY <1>1, <1>0 DEF Creating, CreateKills, Moves, CreateNew, Superseded,
       CreatedLate, Forget, Created, CreateFailed, RecordShape, Stored,
       TurnShape, Running, Statuses, Verdicts, disk, runner, server,
       revival, counts, bounds
  <1>2. CASE ExitStopped \/ ExitReported \/ ForceStop \/ KillRuns \/ CommandEnds
    BY <1>2, <1>0 DEF ExitStopped, Forget, ExitReported, ForceStop,
       KillRuns, CommandEnds, RecordShape, Stored, TurnShape, Running,
       Statuses, Verdicts, disk, runner, server, revival, counts, bounds
  <1>3. CASE WriteStopped \/ WriteEnded \/ RetryRefused \/ RetrySaves \/
            RetryUnpublished
    BY <1>3, <1>0 DEF WriteStopped, Save, Stored, Finish, WriteEnded,
       RetryRefused, RetrySaves, RetryUnpublished, RecordShape, TurnShape,
       Running, Statuses, Verdicts, disk, runner, server, revival, counts,
       bounds
  <1>4. CASE RemoveRefused
    BY <1>4, <1>0 DEF RemoveRefused, Finish, RecordShape, Stored, TurnShape,
       Running, Statuses, Verdicts, disk, runner, server, revival, counts,
       bounds
  <1>5. CASE RemoveStops
    BY <1>5, <1>0 DEF RemoveStops, Finish, RecordShape, Stored, disk, revival
  <1>6. CASE RemoveArchives
    BY <1>6, <1>0 DEF RemoveArchives, Finish, RecordShape, Stored
  <1>7. CASE RemoveDeletes
    BY <1>7, <1>0 DEF RemoveDeletes, Finish, RecordShape, Stored
  <1>8. CASE LeftAlone \/ ReattachPublished \/ Resumes \/ MarkedDead \/ Bury \/
            ResurrectFails
    BY <1>8, <1>0 DEF LeftAlone, Finish, ReattachPublished, Resumes, Save,
       MarkedDead, Bury, Stored, ResurrectFails, RecordShape, TurnShape,
       Running, Statuses, Verdicts, disk, runner, server, revival, counts,
       bounds
  <1>9. CASE RetryRuns \/ ResumeRuns \/ CreateRuns \/ Reattaches \/ WatchAttaches
    BY <1>9, <1>0 DEF RetryRuns, Run, RunFails, NewGeneration, ResumeRuns,
       CreateRuns, Reattaches, Attach, AttachFails, Save, WatchAttaches,
       RecordShape, Stored, TurnShape, Running, Statuses, Verdicts, disk,
       runner, server, revival, counts, bounds
  <1>10. CASE CreateSaves \/ Stop \/ (\E op \in {"retry", "remove", "clear"} :
            Ask(op)) \/ WatchLoads
    BY <1>10, <1>0 DEF CreateSaves, Save, Stop, StopRunner, Orphaned, Ask,
       WatchLoads, RecordShape, Stored, TurnShape, Running, Statuses,
       Verdicts, disk, runner, server, revival, counts, bounds
  <1>11. CASE Restart \/ ListRecords \/ ListTmux \/ Reap \/ Resurrect
    BY <1>11, <1>0 DEF Restart, ListRecords, ListTmux, Reap, Resurrect,
       RecordShape, Stored, TurnShape, Running, Statuses, Verdicts, disk,
       runner, server, revival, counts, bounds
  <1>12. CASE UNCHANGED vars
    BY <1>12, <1>0 DEF vars, disk, runner, server, revival, counts, bounds,
       RecordShape, Stored, TurnShape, Running, Statuses, Verdicts
  <1> QED
    BY <1>1, <1>2, <1>3, <1>4, <1>5, <1>6, <1>7, <1>8, <1>9, <1>10, <1>11,
       <1>12 DEF Next, Queued, Creating, Exits, Reviving

\* Every step keeps a generation and its client together.
LEMMA ClientStep ==
  ASSUME Typed, RunnerShape, [Next]_vars
  PROVE  ClientShape'
  <1>0. /\ ClientShape /\ RuntimeShape /\ gen \in Nat /\ last \in Nat
        /\ stopping \in BOOLEAN /\ isTmux \in BOOLEAN
        /\ \A c \in creates : c.gen # 0
        /\ (runtime = "direct" \/ runtime = "tmux") /\ "direct" # "tmux"
    BY DEF Typed, TypeOK, RunnerShape, Creation
  <1>a. ASSUME Run \/ RunFails \/ (tmux # 0 /\ Attach) \/ AttachFails, runtime' = runtime
        PROVE  ClientShape'
    <2>1. CASE Run
      <3>1. /\ gen' = last + 1 /\ last' = last + 1 /\ ~stopping' /\ gen' \in Nat \ {0}
            /\ isTmux' = (runtime = "tmux")
            /\ runtime = "direct" => client' = "up"
            /\ runtime = "tmux" => client' = "none"
        BY <2>1, <1>0 DEF Run, NewGeneration
      <3> QED
        BY <3>1, <1>0 DEF ClientShape
    <2>2. CASE RunFails
      BY <2>2, <1>a, <1>0 DEF RunFails, server, ClientShape, RuntimeShape
    <2>3. CASE tmux # 0 /\ Attach
      BY <2>3, <1>a, <1>0 DEF Attach, NewGeneration, server, ClientShape,
         RuntimeShape
    <2>4. CASE AttachFails
      BY <2>4, <1>a, <1>0 DEF AttachFails, server, ClientShape, RuntimeShape
    <2> QED
      BY <1>a, <2>1, <2>2, <2>3, <2>4
  <1>1. CASE \E c \in creates : CreateKills(c)
    BY <1>1, <1>0 DEF CreateKills, Moves, ClientShape, disk, runner, server,
       revival, counts, bounds
  <1>2. CASE \E c \in creates : CreateNew(c)
    BY <1>2, <1>0 DEF CreateNew, Moves, ClientShape, disk, runner, server,
       revival, counts, bounds
  <1>3. CASE \E c \in creates : Superseded(c)
    BY <1>3, <1>0 DEF Superseded, ClientShape, disk, runner, server,
       revival, counts, bounds
  <1>4. CASE \E c \in creates : CreatedLate(c)
    BY <1>4, <1>0 DEF CreatedLate, Forget, ClientShape, disk, runner,
       server, revival, counts, bounds
  <1>5. CASE \E c \in creates : Created(c)
    <2>1. PICK c \in creates : Created(c)
      BY <1>5
    <2>2. c.gen = gen /\ client' = "up" /\ UNCHANGED <<gen, stopping, isTmux>>
      BY <2>1, Zenon DEF Created
    <2>3. gen # 0
      BY <2>2, <1>0
    <2> QED
      BY <2>2, <2>3, <1>0 DEF ClientShape
  <1>6. CASE \E c \in creates : CreateFailed(c)
    BY <1>6, <1>0 DEF CreateFailed, Forget, ClientShape, disk, runner,
       server, revival, counts, bounds
  <1>7. CASE ExitStopped \/ ExitReported \/ ForceStop \/ KillRuns \/ CommandEnds
    BY <1>7, <1>0 DEF ExitStopped, Forget, ExitReported, ForceStop,
       KillRuns, CommandEnds, ClientShape, disk, runner, server, revival,
       counts, bounds
  <1>8. CASE WriteStopped \/ WriteEnded \/ RetryRefused \/ RetrySaves \/
            RetryUnpublished
    BY <1>8, <1>0 DEF WriteStopped, Save, Stored, Finish, WriteEnded,
       RetryRefused, RetrySaves, RetryUnpublished, ClientShape, disk,
       runner, server, revival, counts, bounds
  <1>9. CASE RemoveRefused \/ RemoveStops \/ RemoveArchives \/ RemoveDeletes
    BY <1>9, <1>0 DEF RemoveRefused, Finish, RemoveStops, StopRunner,
       Stored, Orphaned, RemoveArchives, RemoveDeletes, ClientShape, disk,
       runner, server, revival, counts, bounds
  <1>10. CASE LeftAlone \/ ReattachPublished \/ Resumes \/ MarkedDead \/ Bury \/
            ResurrectFails
    BY <1>10, <1>0 DEF LeftAlone, Finish, ReattachPublished, Resumes, Save,
       MarkedDead, Bury, Stored, ResurrectFails, ClientShape, disk, runner,
       server, revival, counts, bounds
  <1>11. CASE CreateSaves \/ Stop \/ (\E op \in {"retry", "remove", "clear"} :
            Ask(op)) \/ WatchLoads
    BY <1>11, <1>0 DEF CreateSaves, Save, Stop, StopRunner, Orphaned, Ask,
       WatchLoads, ClientShape, disk, runner, server, revival, counts,
       bounds
  <1>12. CASE Restart \/ ListRecords \/ ListTmux \/ Reap \/ Resurrect
    BY <1>12, <1>0 DEF Restart, ListRecords, ListTmux, Reap, Resurrect,
       ClientShape, disk, runner, server, revival, counts, bounds
  <1>13. CASE RetryRuns \/ ResumeRuns \/ CreateRuns \/ Reattaches
    BY <1>13, <1>a DEF RetryRuns, ResumeRuns, CreateRuns, Reattaches, counts
  <1>14. CASE WatchAttaches
    BY <1>14, <1>a, <1>0 DEF WatchAttaches, counts, ClientShape, runner
  <1>15. CASE UNCHANGED vars
    BY <1>15, <1>0 DEF vars, disk, runner, server, revival, counts, bounds,
       ClientShape
  <1> QED
    BY <1>1, <1>2, <1>3, <1>4, <1>5, <1>6, <1>7, <1>8, <1>9, <1>10, <1>11,
       <1>12, <1>13, <1>14, <1>15 DEF Next, Queued, Creating, Exits,
       Reviving

\* A creation that moves on stays the same generation's.
LEMMA MovesOn ==
  ASSUME Typed, NEW c \in creates, NEW stage, Moves(c, stage)
  PROVE  /\ \A d \in creates' : d \in creates \/ (d.gen = c.gen /\ d.at = stage)
         /\ \A d \in creates : d \in creates' \/ d = c
         /\ \E d \in creates' : d.gen = c.gen
  <1>1. c \in [gen : Nat \ {0}, at : {"kill", "new", "born", "failed"}]
    BY DEF Typed, TypeOK, Creation
  <1>2. [c EXCEPT !.at = stage].gen = c.gen /\ [c EXCEPT !.at = stage].at = stage
    BY <1>1
  <1> QED
    BY <1>2 DEF Moves

\* A running generation without a client has one in the making.
LEMMA MakingStep ==
  ASSUME Typed, RunnerShape, [Next]_vars
  PROVE  MakingShape'
  <1>0. /\ MakingShape /\ ClientShape /\ gen \in Nat /\ last \in Nat
        /\ stopping \in BOOLEAN
        /\ \A c \in creates : c \in [gen : Nat \ {0}, at : {"kill", "new", "born", "failed"}]
        /\ (runtime = "direct" \/ runtime = "tmux") /\ "direct" # "tmux"
    BY DEF Typed, TypeOK, RunnerShape, Creation
  <1>a. ASSUME Run \/ RunFails \/ (tmux # 0 /\ Attach) \/ AttachFails, runtime' = runtime
        PROVE  MakingShape'
    <2>1. CASE Run
      <3>1. /\ gen' = last + 1 /\ last' = last + 1 /\ ~stopping' /\ gen' \in Nat \ {0}
            /\ isTmux' = (runtime = "tmux")
            /\ runtime = "direct" => client' = "up"
            /\ runtime = "tmux" => client' = "none"
        BY <2>1, <1>0 DEF Run, NewGeneration
      <3>2. ASSUME runtime = "tmux" PROVE \E c \in creates' : c.gen = gen'
        <4>1. creates' = creates \cup {[gen |-> last + 1, at |-> "kill"]}
          BY <2>1, <3>2, Zenon DEF Run
        <4>2. [gen |-> last + 1, at |-> "kill"].gen = gen'
          BY <3>1
        <4> QED
          BY <4>1, <4>2, Zenon
      <3>3. \A c \in creates' : c \in creates \/ c.gen = gen'
        <4>1. creates' \subseteq creates \cup {[gen |-> last + 1, at |-> "kill"]}
          BY <2>1, Zenon DEF Run
        <4> QED
          BY <3>1, <4>1
      <3> QED
        BY <3>1, <3>2, <3>3, <1>0 DEF MakingShape, Loud
    <2>2. CASE RunFails
      BY <2>2, <1>a, <1>0 DEF RunFails, server, MakingShape, Loud
    <2>3. CASE tmux # 0 /\ Attach
      BY <2>3, <1>a, <1>0 DEF Attach, NewGeneration, server, MakingShape,
         Loud
    <2>4. CASE AttachFails
      BY <2>4, <1>a, <1>0 DEF AttachFails, server, MakingShape, Loud
    <2> QED
      BY <1>a, <2>1, <2>2, <2>3, <2>4
  <1>1. CASE \E c \in creates : CreateKills(c)
    BY <1>1, <1>0, MovesOn DEF CreateKills, MakingShape, Loud, runner
  <1>2. CASE \E c \in creates : CreateNew(c)
    BY <1>2, <1>0, MovesOn DEF CreateNew, MakingShape, Loud, runner
  <1>3. CASE \E c \in creates : Superseded(c)
    BY <1>3, <1>0 DEF Superseded, MakingShape, ClientShape, Loud, disk,
       runner, server, revival, counts, bounds
  <1>4. CASE \E c \in creates : CreatedLate(c)
    BY <1>4, <1>0 DEF CreatedLate, Forget, MakingShape, ClientShape, Loud,
       disk, runner, server, revival, counts, bounds
  <1>5. CASE \E c \in creates : Created(c)
    BY <1>5, <1>0 DEF Created, MakingShape, ClientShape, Loud, disk, runner,
       server, revival, counts, bounds
  <1>6. CASE \E c \in creates : CreateFailed(c)
    BY <1>6, <1>0 DEF CreateFailed, Forget, MakingShape, ClientShape, Loud,
       disk, runner, server, revival, counts, bounds
  <1>7. CASE ExitStopped \/ ExitReported \/ ForceStop \/ KillRuns \/ CommandEnds
    BY <1>7, <1>0 DEF ExitStopped, Forget, ExitReported, ForceStop,
       KillRuns, CommandEnds, MakingShape, ClientShape, Loud, disk, runner,
       server, revival, counts, bounds
  <1>8. CASE WriteStopped \/ WriteEnded \/ RetryRefused \/ RetrySaves \/
            RetryUnpublished
    BY <1>8, <1>0 DEF WriteStopped, Save, Stored, Finish, WriteEnded,
       RetryRefused, RetrySaves, RetryUnpublished, MakingShape, ClientShape,
       Loud, disk, runner, server, revival, counts, bounds
  <1>9. CASE RemoveRefused \/ RemoveStops \/ RemoveArchives \/ RemoveDeletes
    BY <1>9, <1>0 DEF RemoveRefused, Finish, RemoveStops, StopRunner,
       Stored, Orphaned, RemoveArchives, RemoveDeletes, MakingShape,
       ClientShape, Loud, disk, runner, server, revival, counts, bounds
  <1>10. CASE LeftAlone \/ ReattachPublished \/ Resumes \/ MarkedDead \/ Bury \/
            ResurrectFails
    BY <1>10, <1>0 DEF LeftAlone, Finish, ReattachPublished, Resumes, Save,
       MarkedDead, Bury, Stored, ResurrectFails, MakingShape, ClientShape,
       Loud, disk, runner, server, revival, counts, bounds
  <1>11. CASE CreateSaves \/ Stop \/ (\E op \in {"retry", "remove", "clear"} :
            Ask(op)) \/ WatchLoads
    BY <1>11, <1>0 DEF CreateSaves, Save, Stop, StopRunner, Orphaned, Ask,
       WatchLoads, MakingShape, ClientShape, Loud, disk, runner, server,
       revival, counts, bounds
  <1>12. CASE Restart \/ ListRecords \/ ListTmux \/ Reap \/ Resurrect
    BY <1>12, <1>0 DEF Restart, ListRecords, ListTmux, Reap, Resurrect,
       MakingShape, ClientShape, Loud, disk, runner, server, revival,
       counts, bounds
  <1>13. CASE RetryRuns \/ ResumeRuns \/ CreateRuns \/ Reattaches
    BY <1>13, <1>a DEF RetryRuns, ResumeRuns, CreateRuns, Reattaches, counts
  <1>14. CASE WatchAttaches
    BY <1>14, <1>a, <1>0 DEF WatchAttaches, counts, MakingShape, Loud, runner, server
  <1>15. CASE UNCHANGED vars
    BY <1>15, <1>0 DEF vars, disk, runner, server, revival, counts, bounds,
       MakingShape, ClientShape, Loud
  <1> QED
    BY <1>1, <1>2, <1>3, <1>4, <1>5, <1>6, <1>7, <1>8, <1>9, <1>10, <1>11,
       <1>12, <1>13, <1>14, <1>15 DEF Next, Queued, Creating, Exits,
       Reviving

\* In the direct runtime there is no tmux session; in the other every
\* generation has one.
LEMMA RuntimeStep ==
  ASSUME Typed, RunnerShape, [Next]_vars
  PROVE  RuntimeShape'
  <1>0. /\ RuntimeShape /\ ClientShape /\ gen \in Nat /\ last \in Nat /\ tmux \in Nat /\ kills \in Nat
        /\ (runtime = "direct" \/ runtime = "tmux") /\ "direct" # "tmux"
    BY DEF Typed, TypeOK, RunnerShape
  <1>a. ASSUME Run \/ RunFails \/ (tmux # 0 /\ Attach) \/ AttachFails, runtime' = runtime
        PROVE  RuntimeShape'
    <2>1. CASE Run
      BY <2>1, <1>a, <1>0 DEF Run, NewGeneration, RuntimeShape, ClientShape
    <2>2. CASE RunFails
      BY <2>2, <1>a, <1>0 DEF RunFails, server, RuntimeShape, ClientShape
    <2>3. CASE tmux # 0 /\ Attach
      BY <2>3, <1>a, <1>0 DEF Attach, NewGeneration, server, RuntimeShape,
         ClientShape
    <2>4. CASE AttachFails
      BY <2>4, <1>a, <1>0 DEF AttachFails, server, RuntimeShape, ClientShape
    <2> QED
      BY <1>a, <2>1, <2>2, <2>3, <2>4
  <1>1. CASE Creating
    BY <1>1, <1>0 DEF Creating, CreateKills, Moves, CreateNew, Superseded,
       CreatedLate, Forget, Created, CreateFailed, RuntimeShape,
       ClientShape, disk, runner, server, revival, counts, bounds
  <1>2. CASE ExitStopped \/ ExitReported \/ ForceStop \/ KillRuns \/ CommandEnds
    BY <1>2, <1>0 DEF ExitStopped, Forget, ExitReported, ForceStop,
       KillRuns, CommandEnds, RuntimeShape, ClientShape, disk, runner,
       server, revival, counts, bounds
  <1>3. CASE WriteStopped \/ WriteEnded \/ RetryRefused \/ RetrySaves \/
            RetryUnpublished
    BY <1>3, <1>0 DEF WriteStopped, Save, Stored, Finish, WriteEnded,
       RetryRefused, RetrySaves, RetryUnpublished, RuntimeShape,
       ClientShape, disk, runner, server, revival, counts, bounds
  <1>4. CASE RemoveRefused \/ RemoveStops \/ RemoveArchives \/ RemoveDeletes
    BY <1>4, <1>0 DEF RemoveRefused, Finish, RemoveStops, StopRunner,
       Stored, Orphaned, RemoveArchives, RemoveDeletes, RuntimeShape,
       ClientShape, disk, runner, server, revival, counts, bounds
  <1>5. CASE LeftAlone \/ ReattachPublished \/ Resumes \/ MarkedDead \/ Bury \/
            ResurrectFails
    BY <1>5, <1>0 DEF LeftAlone, Finish, ReattachPublished, Resumes, Save,
       MarkedDead, Bury, Stored, ResurrectFails, RuntimeShape, ClientShape,
       disk, runner, server, revival, counts, bounds
  <1>6. CASE CreateSaves \/ Stop \/ (\E op \in {"retry", "remove", "clear"} :
            Ask(op)) \/ WatchLoads
    BY <1>6, <1>0 DEF CreateSaves, Save, Stop, StopRunner, Orphaned, Ask,
       WatchLoads, RuntimeShape, ClientShape, disk, runner, server, revival,
       counts, bounds
  <1>7. CASE Restart \/ ListRecords \/ ListTmux \/ Reap \/ Resurrect
    BY <1>7, <1>0 DEF Restart, ListRecords, ListTmux, Reap, Resurrect,
       RuntimeShape, ClientShape, disk, runner, server, revival, counts,
       bounds
  <1>8. CASE RetryRuns \/ ResumeRuns \/ CreateRuns \/ Reattaches
    BY <1>8, <1>a DEF RetryRuns, ResumeRuns, CreateRuns, Reattaches, counts
  <1>9. CASE WatchAttaches
    BY <1>9, <1>a, <1>0 DEF WatchAttaches, counts, RuntimeShape, runner, server
  <1>10. CASE UNCHANGED vars
    BY <1>10, <1>0 DEF vars, disk, runner, server, revival, counts, bounds,
       RuntimeShape, ClientShape
  <1> QED
    BY <1>1, <1>2, <1>3, <1>4, <1>5, <1>6, <1>7, <1>8, <1>9, <1>10 DEF Next,
       Queued, Creating, Exits, Reviving

-----------------------------------------------------------------------------
(* Where in the line the tasks of a kind are. *)

Ops == {"stopped", "ended", "retry", "remove", "clear", "resurrect", "bury"}
Places(op) == {i \in DOMAIN queue : queue[i].op = op}

\* Where they are after a step at which a task t joined, or the first one left,
\* or both.
Joins(t) ==
  /\ Len(queue) \in Nat
  /\ \A op : \A i \in Places(op) : i <= Len(queue)
  /\ \A op : \A i : i \in Places(op)' <=> i \in Places(op) \/ (op = t.op /\ i = Len(queue) + 1)
Leaves ==
  \A op : \A i : i \in Places(op)' <=> i \in Nat \ {0} /\ i + 1 \in Places(op)
Swaps(t) ==
  /\ Len(queue) \in Nat \ {0}
  /\ \A op : \A i : i \in Places(op)' <=>
       i \in Nat \ {0} /\ (i + 1 \in Places(op) \/ (op = t.op /\ i = Len(queue)))
  /\ \A op : \A i \in Places(op) : i <= Len(queue)

\* Every place is one, and the first is that of the task whose turn it is.
PlacesShape ==
  /\ \A op : \A i \in Places(op) : i \in Nat \ {0}
  /\ \A op : Running(op) <=> 1 \in Places(op)
  /\ \A op : InLine(op) <=> Places(op) # {}
  /\ queue = << >> <=> \A op \in Ops : Places(op) = {}
  /\ \A op, o : \A i : i \in Places(op) /\ i \in Places(o) => op = o

\* Of a typed queue the places say who is first, who is in line and whether
\* anybody is.
LEMMA PlacesTyped == Typed => PlacesShape
  <1> SUFFICES ASSUME Typed PROVE PlacesShape
    OBVIOUS
  <1>1. PICK n \in Nat : n = Len(queue) /\ DOMAIN queue = 1..n
    BY DEF Typed, TypeOK
  <1>2. \A op : \A i \in Places(op) : i \in Nat \ {0}
    BY <1>1 DEF Places
  <1>3. ASSUME queue = << >> PROVE \A op : \A i : i \notin Places(op)
    BY <1>3 DEF Places
  <1>4. ASSUME queue # << >>
        PROVE  /\ \A op : Running(op) <=> 1 \in Places(op)
               /\ \E op \in Ops : 1 \in Places(op)
    <2>1. 1 \in DOMAIN queue /\ Head(queue) = queue[1] /\ queue[1] \in Task
      BY <1>4, TailPops DEF Typed, TypeOK, Popped
    <2>2. queue[1].op \in Ops
      BY <2>1 DEF Task, Ops
    <2> QED
      BY <2>1, <2>2, <1>4 DEF Running, Places
  <1>5. \A op : Running(op) <=> 1 \in Places(op)
    BY <1>3, <1>4 DEF Running
  <1>6. \A op : InLine(op) <=> Places(op) # {}
    BY DEF InLine, Places
  <1>7. \A op, o : \A i : i \in Places(op) /\ i \in Places(o) => op = o
    BY DEF Places
  <1> QED
    BY <1>2, <1>3, <1>4, <1>5, <1>6, <1>7 DEF PlacesShape

\* The same after a step.
LEMMA PlacesTypedNext == Typed' => PlacesShape'
  BY PlacesTyped, PTL

\* Where the tasks of a kind are when another has joined;
LEMMA TaskJoins ==
  ASSUME Typed, NEW t \in Task, queue' = Append(queue, t)
  PROVE  Joins(t)
  <1>1. Grown(queue, t, queue')
    BY AppendGrows DEF Typed, TypeOK
  <1> QED
    BY <1>1 DEF Joins, Grown, Places

\* when the first has left;
LEMMA TaskLeaves ==
  ASSUME Typed, queue # << >>, queue' = Tail(queue)
  PROVE  Leaves
  <1>1. Popped(queue, queue')
    BY TailPops DEF Typed, TypeOK
  <1> QED
    BY <1>1 DEF Leaves, Popped, Places

\* and when it has left and another has joined.
LEMMA TaskSwaps ==
  ASSUME Typed, queue # << >>, NEW t \in Task, queue' = Append(Tail(queue), t)
  PROVE  Swaps(t)
  <1> DEFINE r == Tail(queue)
  <1>1. Popped(queue, r) /\ r \in Seq(Task)
    BY TailPops DEF Typed, TypeOK, Popped
  <1>2. Grown(r, t, queue')
    BY <1>1, AppendGrows
  <1> HIDE DEF r
  <1>3. PICK n \in Nat \ {0} : n = Len(queue) /\ DOMAIN queue = 1..n
    BY <1>1 DEF Popped
  <1>4. Len(r) = n - 1
    <2>1. Len(r) \in Nat /\ DOMAIN r = 1..Len(r) /\ DOMAIN r = 1..(n - 1)
      BY <1>1, <1>2, <1>3 DEF Popped, Grown
    <2> QED
      BY <2>1
  <1>5. /\ DOMAIN queue' = 1..n /\ queue'[n] = t
        /\ \A i \in 1..(n - 1) : i + 1 \in 1..n /\ queue'[i] = queue[i + 1]
    BY <1>1, <1>2, <1>3, <1>4 DEF Popped, Grown
  <1>6. \A op : \A i : i \in Places(op)' <=>
          i \in 1..n /\ ((i < n /\ queue[i + 1].op = op) \/ (i = n /\ t.op = op))
    BY <1>3, <1>5 DEF Places
  <1>7. \A op : \A i \in Places(op) : i \in 1..n /\ queue[i].op = op
    BY <1>3 DEF Places
  <1>8. \A op : \A i : i \in 1..n /\ queue[i].op = op => i \in Places(op)
    BY <1>3 DEF Places
  <1>9. Len(queue) = n
    BY <1>3
  <1> HIDE DEF Places
  <1> QED
    BY <1>6, <1>7, <1>8, <1>9 DEF Swaps

\* A task that leaves takes none of another kind with it.
LEMMA OthersStay ==
  ASSUME Typed, Leaves, NEW op, ~Running(op), Places(op) # {}
  PROVE  Places(op)' # {}
  <1>1. PICK i \in Places(op) : i \in Nat \ {0} /\ i # 1
    BY PlacesTyped DEF PlacesShape
  <1>2. i - 1 \in Nat \ {0} /\ (i - 1) + 1 = i
    BY <1>1
  <1>3. i - 1 \in Places(op)'
    BY <1>1, <1>2 DEF Leaves
  <1> QED
    BY <1>3

-----------------------------------------------------------------------------
(* While no command comes at a bad moment, and every update is published.  *)

Calm == Spared({"early", "publish", "watch", "racing"})
\* Nor anything but a process or a tombstone; nor anything but a process.
Smooth == Spared(FaultNames \ {"spawn", "archive"})
Flawless == Spared(FaultNames \ {"spawn"})

\* Until the first launch nothing else is under way.
CalmStart ==
  /\ creator # "done" => queue = << >> /\ gen = 0 /\ res = "done" /\ at = "start"
  /\ creator = "staggering" => rec = "running"
\* At most one end waits to be written, and nothing has run since.
EndedOnce == \A i \in Places("ended") :
  /\ gen = 0 /\ at # "launch" /\ rec \notin Verdicts
  /\ \A j \in Places("ended") : j = i
\* What is over, about to be launched or about to be removed does not run.
OverIsQuiet == rec \in Verdicts \cup {"gone"} \/ at \in {"launch", "archive", "delete"} => Quiet
\* A stop is written before the next launch, and after the ends before it.
StopsInLine == \A i \in Places("stopped") :
  /\ Quiet
  /\ \A j \in Places("ended") : j < i
  /\ \A j \in Places("retry") \cup Places("resurrect") : i < j
\* A starting bridge has the session to itself until it has it revived.
Revival ==
  /\ Places("bury") = {}
  /\ \A i \in Places("resurrect") : i = 1 /\ res = "wait"
  /\ res # "done" =>
       /\ \A op \in Ops \ {"resurrect", "ended"} : Places(op) = {}
       /\ gen # 0 \/ Places("ended") # {} => at = "publish"
       /\ res = "wait" => 1 \in Places("resurrect") /\ rec = "running"
       /\ res \in {"probe", "reap", "queue"} => snapshot.rec = rec
CalmInv == Calm =>
  /\ CalmStart /\ EndedOnce /\ OverIsQuiet /\ StopsInLine /\ Revival
  /\ watcher = "idle" /\ strays = {}

(* What a step may do then. *)
Commands == {"retry", "remove", "clear"}
Removals == {"remove", "clear"}
Rests == UNCHANGED <<creator, res, snapshot>>
Quietly == (Quiet => Quiet') /\ (gen = 0 => gen' = 0)
Same == UNCHANGED <<gen, stopping>>

\* Processes, tmux and its commands go their way.
Idles == UNCHANGED <<queue, at, rec>> /\ Quietly /\ (Loud => Loud') /\ Rests
\* A process ends that was not stopped.
Reports(v) ==
  /\ Loud /\ gen' = 0 /\ queue' = Append(queue, Ended(v, gen))
  /\ tmux = 0 \/ ~Smooth' \/ \E c \in creates : c.at = "failed"
  /\ UNCHANGED <<at, rec>> /\ Rests
\* Commands are given.
StopsNow ==
  /\ gen # 0 \/ tmux # 0
  /\ queue' = Append(queue, TaskOf("stopped"))
  /\ Quiet' /\ (gen = 0 => gen' = 0)
  /\ ~InLine("retry") /\ ~InLine("resurrect") /\ creator = "done" /\ res = "done"
  /\ UNCHANGED <<at, rec>> /\ Rests
Asks(op) ==
  /\ queue' = Append(queue, TaskOf(op))
  /\ creator = "done" /\ res = "done"
  /\ UNCHANGED <<at, rec>> /\ Same /\ Rests
\* The first task is done, or turned down.
Writes ==
  /\ Running("stopped") \/ Running("ended")
  /\ Left /\ at' = "start"
  /\ IF rec = "running" THEN rec' \in Verdicts ELSE rec' \in {rec} \cup Verdicts
  /\ Running("stopped") => rec' \in {rec, "completed"}
  /\ Same /\ Rests
Drops(op) ==
  /\ Running(op) /\ Left /\ at' = "start"
  /\ rec' = rec \/ (at = "delete" /\ rec' = "gone")
  /\ rec' = "running" => ~Flawless' \/ (at = "start" /\ gen' = gen /\ stopping' = stopping)
  /\ Quietly /\ Rests
Revives ==
  /\ Running("resurrect") /\ at \in {"start", "publish"}
  /\ Left /\ at' = "start" /\ res' = "done"
  /\ rec' = rec \/ (at = "start" /\ tmux = 0 /\ rec' = "error")
  /\ at = "start" /\ rec' = "running" => gen # 0
  /\ Same /\ UNCHANGED <<creator, snapshot>>
\* It goes on.
OpensRetry ==
  /\ Running("retry") /\ rec \in Verdicts /\ at' = "launch" /\ rec' = "running"
  /\ UNCHANGED queue /\ Same /\ Rests
OpensRevival ==
  /\ Running("resurrect") /\ at = "start" /\ at' = "launch"
  /\ UNCHANGED <<queue, rec>> /\ Same /\ Rests
OpensRemoval(op) ==
  /\ Running(op) /\ at' \in {"archive", "delete"} /\ Quiet' /\ (gen = 0 => gen' = 0)
  /\ UNCHANGED <<queue, rec>> /\ Rests
\* It launches a process, or fails to.
Launches ==
  /\ at = "launch" /\ at' = "start" /\ UNCHANGED <<rec, creator, snapshot>>
  /\ \/ Running("retry") /\ res' = res
     \/ Running("resurrect") /\ res' = "done"
  /\ \/ Left /\ Loud'
     \/ gen' = 0 /\ runtime = "direct" /\ queue # << >> /\ queue' = Append(Tail(queue), Ended("error", last + 1))
\* So does what is not in line.
Starts ==
  /\ creator = "staggering" /\ creator' = "done"
  /\ UNCHANGED <<at, rec, res, snapshot>>
  /\ \/ Stays /\ Loud'
     \/ gen' = 0 /\ runtime = "direct" /\ queue' = Append(queue, Ended("error", last + 1))
Saves ==
  /\ creator = "idle" /\ creator' = "staggering" /\ rec' = "running"
  /\ UNCHANGED <<queue, at, res, snapshot>> /\ Same
Rejoins ==
  /\ Running("resurrect") /\ at = "start" /\ at' = "publish"
  /\ rec = "running" /\ rec' = "running" /\ Rests
  /\ \/ Stays /\ Loud'
     \/ gen' = 0 /\ ~Smooth' /\ queue' = Append(queue, Ended("error", last + 1))
\* A starting bridge looks, and has what it saw revived.
Looks ==
  /\ \/ res = "list" /\ res' = "probe" /\ snapshot'.rec = rec
     \/ /\ res = "probe" /\ res' = "reap" /\ snapshot'.rec = snapshot.rec
        /\ snapshot'.tmux = (tmux # 0) /\ tmux' = tmux
     \/ /\ res = "reap" /\ res' = "queue" /\ snapshot'.rec = snapshot.rec
        /\ tmux' = IF snapshot.tmux /\ Dead THEN 0 ELSE tmux
     \/ /\ res = "queue" /\ res' = "done" /\ snapshot'.rec = snapshot.rec
        /\ snapshot.rec # "running"
  /\ UNCHANGED <<queue, at, rec, creator>> /\ Same
Finds ==
  /\ res = "queue" /\ res' = "wait" /\ snapshot.rec = "running"
  /\ queue' = Append(queue, TaskOf("resurrect"))
  /\ UNCHANGED <<at, rec, creator>> /\ Same

\* Every step in calm, but a restart, is one of these.
CalmStep ==
  \/ Idles \/ (\E v \in Verdicts : Reports(v))
  \/ StopsNow \/ (\E op \in Commands : Asks(op))
  \/ Writes \/ (\E op \in Commands : Drops(op)) \/ Revives
  \/ OpensRetry \/ OpensRevival \/ (\E op \in Removals : OpensRemoval(op))
  \/ Launches \/ Starts \/ Saves \/ Rejoins \/ Looks \/ Finds

\* What has happened stays on record until the bridge restarts.
LEMMA MishapsStay ==
  ASSUME Typed, Next
  PROVE  Restart \/ mishaps \subseteq mishaps'
  <1>1. CASE Creating
    BY <1>1 DEF Creating, CreateKills, CreateNew, HappensIf, Happen,
       Superseded, CreatedLate, Created, CreateFailed, Happens, bounds,
       counts
  <1>2. CASE ExitStopped \/ ExitReported \/ ForceStop \/ KillRuns \/ CommandEnds
    BY <1>2 DEF ExitStopped, ExitReported, Happens, Happen, ForceStop,
       KillRuns, CommandEnds, HappensIf, bounds, counts
  <1>3. CASE WriteStopped \/ WriteEnded \/ RetryRefused \/ RetrySaves \/
            RetryUnpublished
    BY <1>3 DEF WriteStopped, WriteEnded, RetryRefused, RetrySaves,
       RetryUnpublished, Happens, Happen, HappensIf, bounds, counts
  <1>4. CASE RemoveRefused \/ RemoveStops \/ RemoveArchives \/ RemoveDeletes
    BY <1>4 DEF RemoveRefused, RemoveStops, RemoveArchives, Happens, Happen,
       RemoveDeletes, HappensIf, bounds, counts
  <1>5. CASE LeftAlone \/ ReattachPublished \/ Resumes \/ MarkedDead \/ Bury \/
            ResurrectFails
    BY <1>5 DEF LeftAlone, ReattachPublished, Resumes, MarkedDead, Bury,
       ResurrectFails, Happens, Happen, HappensIf, bounds, counts
  <1>6. CASE RetryRuns \/ ResumeRuns \/ CreateRuns \/ Reattaches \/ WatchAttaches
    BY <1>6 DEF RetryRuns, Run, RunFails, HappensIf, Happens, Happen,
       ResumeRuns, CreateRuns, Reattaches, Attach, AttachFails,
       WatchAttaches, bounds, counts
  <1>7. CASE CreateSaves \/ Stop \/ (\E op \in {"retry", "remove", "clear"} :
            Ask(op)) \/ WatchLoads
    BY <1>7 DEF CreateSaves, Stop, Commanded, Happen, Ask, WatchLoads,
       Happens, HappensIf, bounds, counts
  <1>8. CASE ListRecords \/ ListTmux \/ Reap \/ Resurrect
    BY <1>8 DEF ListRecords, ListTmux, Reap, Resurrect, Happen, Happens,
       HappensIf, bounds, counts
  <1>9. CASE Restart
    BY <1>9
  <1> QED
    BY <1>1, <1>2, <1>3, <1>4, <1>5, <1>6, <1>7, <1>8, <1>9 DEF Next,
       Queued, Creating, Exits, Reviving

\* The actions, taken apart once: while the bridge is calm, each of them is one
\* of the kinds of steps above.
LEMMA CalmSteps ==
  ASSUME Typed, RecordShape, RunnerShape, CalmInv, Calm', Next
  PROVE  Restart \/ (Calm /\ CalmStep)
  <1> SUFFICES ASSUME ~Restart PROVE Calm /\ CalmStep
    OBVIOUS
  <1>1. Calm
    BY MishapsStay DEF Calm, Spared
  <1>2. \A fs : Happen(fs) => fs \cap {"early", "publish", "watch", "racing"} = {}
    BY DEF Calm, Spared, Happen
  <1>3. /\ ~Happens("publish") /\ ~Happens("watch")
        /\ Happens("attach") => ~Smooth'
        /\ Happens("archive") => ~Flawless'
    BY <1>2 DEF Happens, Happen, Smooth, Flawless, Spared, FaultNames
  <1>4. ASSUME NEW op, Commanded(op)
        PROVE  creator = "done" /\ res = "done" /\ ~Launching(op)
    <2>1. Happen((IF Launching(op) THEN {"early"} ELSE {}) \cup (IF res # "done" THEN {"racing"} ELSE {}))
          /\ creator # "idle"
      BY <1>4, Zenon DEF Commanded
    <2>2. ~Launching(op) /\ res = "done"
      BY <2>1, <1>2
    <2> QED
      BY <2>1, <2>2 DEF Launching, Typed, TypeOK
  <1>5. /\ CalmStart /\ OverIsQuiet /\ Revival /\ watcher = "idle" /\ ~Running("bury")
        /\ \A op : Running(op) => queue # << >>
    BY <1>1, PlacesTyped DEF CalmInv, Revival, Running, PlacesShape
  <1>6. /\ ClientShape /\ RecordShape /\ gen \in Nat /\ last \in Nat /\ stopping \in BOOLEAN
        /\ client \in {"none", "up", "forced"} /\ retired \in BOOLEAN /\ TurnShape
        /\ \A c \in creates : c.gen # 0
        /\ queue # << >> => Head(queue).verdict \in Verdicts
    <2>1. ASSUME queue # << >> PROVE Head(queue) \in Task
      BY <2>1, TailPops DEF Typed, TypeOK, Popped
    <2> QED
      BY <2>1 DEF Typed, TypeOK, Task, RunnerShape, Creation
  <1>7. /\ \A c \in creates : CreateKills(c) \/ CreateNew(c) \/ Superseded(c) \/ Created(c) => Idles
        /\ ForceStop \/ KillRuns \/ CommandEnds => Idles
    BY DEF CreateKills, CreateNew, Superseded, Created, ForceStop, KillRuns, CommandEnds,
       disk, runner, revival, Idles, Rests, Quietly, Quiet, Loud
  <1>8. /\ \A c \in creates : CreatedLate(c) => Idles
        /\ ExitStopped => Idles
    BY DEF CreatedLate, ExitStopped, Forget, disk, revival, Idles, Rests, Quietly, Quiet, Loud
  <1>9. ASSUME NEW c \in creates, CreateFailed(c)
        PROVE  Idles \/ Reports("error")
    <2>1. gen # 0
      BY <1>9, <1>6 DEF CreateFailed
    <2>2. c.at = "failed" \/ Happens("attach")
      BY <1>9 DEF CreateFailed
    <2> QED
      BY <1>9, <1>3, <1>6, <2>1, <2>2 DEF CreateFailed, Forget, disk, revival, Idles, Rests,
         Quietly, Quiet, Reports, Loud
  <1>10. ExitReported => \E v \in Verdicts : Reports(v)
    <2>1. SUFFICES ASSUME ExitReported PROVE \E v \in Verdicts : Reports(v)
      OBVIOUS
    <2>2. PICK v \in (IF tmux = 0 THEN Verdicts ELSE {"error"}) : Enqueue(Ended(v, gen))
      BY <2>1, Zenon DEF ExitReported
    <2>3. v \in Verdicts
      BY <2>2 DEF Verdicts
    <2>4. Reports(v)
      BY <2>1, <2>2, <1>3, <1>6 DEF ExitReported, Enqueue, Forget, disk, revival, Rests, Reports,
         Loud, ClientShape
    <2> QED
      BY <2>3, <2>4
  <1>11. Stop => StopsNow
    <2> SUFFICES ASSUME Stop PROVE StopsNow
      OBVIOUS
    <2>1. Commanded("stop") /\ StopRunner /\ Enqueue(TaskOf("stopped"))
      BY Zenon DEF Stop
    <2>2. UNCHANGED <<at, rec, creator, res, snapshot>>
      BY DEF Stop, disk, revival
    <2>3. creator = "done" /\ res = "done" /\ ~InLine("retry") /\ ~InLine("resurrect")
      BY <2>1, <1>4 DEF Launching
    <2>4. Quiet' /\ (gen = 0 => gen' = 0)
      BY <2>1, <1>6 DEF StopRunner, Quiet, ClientShape
    <2>5. gen # 0 \/ tmux # 0
      BY <1>6 DEF Stop, Stops, Orphaned, ClientShape
    <2> QED
      BY <2>1, <2>2, <2>3, <2>4, <2>5 DEF StopsNow, Rests, Enqueue
  <1>12. ASSUME NEW op \in Commands, Ask(op)
         PROVE  Asks(op)
    BY <1>12, <1>4 DEF Commands, Ask, Enqueue, disk, runner, revival, Rests, Asks, Same
  <1>13. WriteStopped \/ WriteEnded => Writes
    <2>1. ASSUME WriteStopped PROVE rec' \in {rec, "completed"} /\ (rec = "running" => rec' = "completed")
      BY <2>1, <1>6 DEF WriteStopped, Save, Stored, RecordShape
    <2>2. ASSUME WriteEnded PROVE rec' \in {rec} \cup Verdicts /\ (rec = "running" => rec' \in Verdicts)
      BY <2>2, <1>5, <1>6 DEF WriteEnded, Running, Save, Stored, RecordShape
    <2>3. ASSUME WriteStopped \/ WriteEnded
          PROVE  /\ Left /\ at' = "start" /\ Same /\ Rests
                 /\ Running("stopped") \/ Running("ended")
                 /\ WriteEnded => ~Running("stopped")
      BY <2>3, <1>5 DEF WriteStopped, WriteEnded, Finish, runner, revival, Rests, Left, Same, Running
    <2> QED
      BY <2>1, <2>2, <2>3 DEF Writes, Verdicts
  <1>14. RetryRefused => Drops("retry")
    BY <1>5 DEF RetryRefused, Finish, disk, runner, revival, Rests, Drops, Left, Quietly, Quiet, Verdicts
  <1>15. RemoveRefused => Drops("clear")
    BY <1>5 DEF RemoveRefused, Finish, disk, runner, revival, Rests, Drops, Left, Quietly, Quiet
  <1>16. RemoveStops => \E op \in Removals : Drops(op) \/ OpensRemoval(op)
    <2> SUFFICES ASSUME RemoveStops PROVE \E op \in Removals : Drops(op) \/ OpensRemoval(op)
      OBVIOUS
    <2>1. PICK op \in Removals : Running(op)
      BY DEF RemoveStops, Removals
    <2>2. UNCHANGED <<rec, creator, res, snapshot>>
      BY DEF RemoveStops, disk, revival
    <2>3. Quiet' /\ gen' = gen
      BY <1>6 DEF RemoveStops, StopRunner, Quiet, ClientShape
    <2>4. (at' = "archive" /\ UNCHANGED queue) \/ (Finish /\ rec # "running")
      BY DEF RemoveStops, Stored
    <2>5. Drops(op) \/ OpensRemoval(op)
      BY <2>1, <2>2, <2>3, <2>4, <1>5 DEF Finish, Rests, Drops, OpensRemoval, Left, Quietly
    <2> QED
      BY <2>5
  <1>17. RemoveArchives => \E op \in Removals : Drops(op) \/ OpensRemoval(op)
    BY <1>3, <1>5, <1>6 DEF Removals, RemoveArchives, TurnShape, OverIsQuiet, Finish, runner, revival, Rests,
       Drops, OpensRemoval, Left, Quietly, Quiet
  <1>18. RemoveDeletes => \E op \in Removals : Drops(op)
    BY <1>5, <1>6 DEF Removals, RemoveDeletes, TurnShape, Finish, runner, revival, Rests, Drops, Left,
       Quietly, Quiet
  <1>19. LeftAlone \/ ReattachPublished => Revives
    BY <1>5, <1>6 DEF LeftAlone, ReattachPublished, ClientShape, Finish, disk, runner, Revives, Left, Same
  <1>20. MarkedDead => Revives
    <2>1. ASSUME MarkedDead PROVE rec' = "error" /\ at = "start" /\ tmux = 0
      BY <2>1, <1>6 DEF MarkedDead, Save, RecordShape
    <2> QED
      BY <2>1, <1>5 DEF MarkedDead, Finish, runner, Revives, Left, Same
  <1>21. RetrySaves => OpensRetry
    BY <1>6 DEF RetrySaves, Save, RecordShape, Verdicts, runner, revival, Rests, OpensRetry, Same
  <1>22. Resumes => OpensRevival
    BY <1>6 DEF Resumes, Save, RecordShape, runner, revival, Rests, OpensRevival, Same
  <1>a. Run \/ Attach => Loud'
    BY <1>6 DEF Run, Attach, NewGeneration, Loud
  <1>23. RetryRuns \/ ResumeRuns => Launches
    BY <1>5, <1>a DEF RetryRuns, ResumeRuns, RunFails, disk, revival, Launches, Left
  <1>24. CreateRuns => Starts
    BY <1>a DEF CreateRuns, RunFails, Enqueue, disk, revival, Starts, Stays
  <1>25. CreateSaves => Saves
    BY <1>6 DEF CreateSaves, Save, RecordShape, runner, revival, Saves, Same
  <1>26. Reattaches => Rejoins
    BY <1>3, <1>6, <1>a DEF Reattaches, AttachFails, Save, RecordShape, Enqueue, revival, Rests, Rejoins, Stays
  <1>27. ListRecords \/ ListTmux \/ Reap => Looks
    <2>1. snapshot \in [rec : Statuses, tmux : BOOLEAN]
      BY DEF Typed, TypeOK
    <2>2. ListRecords => Looks
      BY <2>1 DEF ListRecords, Looks, disk, runner, Same
    <2>3. ListTmux => Looks
      <3> SUFFICES ASSUME ListTmux PROVE Looks
        OBVIOUS
      <3>1. snapshot'.rec = snapshot.rec /\ snapshot'.tmux = (tmux # 0)
        BY <2>1 DEF ListTmux
      <3> QED
        BY <3>1 DEF ListTmux, Looks, disk, runner, server, Same
    <2>4. Reap => Looks
      BY DEF Reap, Looks, disk, runner, Same
    <2> QED
      BY <2>2, <2>3, <2>4
  <1>28. Resurrect => Looks \/ Finds
    BY DEF Resurrect, Enqueue, Looks, Finds, disk, runner, Same
  <1>29. ~RetryUnpublished /\ ~ResurrectFails /\ ~WatchLoads /\ ~WatchAttaches /\ ~Bury
    BY <1>3, <1>5 DEF RetryUnpublished, ResurrectFails, WatchLoads, WatchAttaches, Bury
  <1>30. /\ Idles \/ StopsNow \/ Writes \/ Revives \/ OpensRetry \/ OpensRevival => CalmStep
         /\ Launches \/ Starts \/ Saves \/ Rejoins \/ Looks \/ Finds => CalmStep
         /\ \A v \in Verdicts : Reports(v) => CalmStep
         /\ \A op \in Commands : Asks(op) \/ Drops(op) => CalmStep
         /\ \A op \in Removals : OpensRemoval(op) => CalmStep
         /\ "error" \in Verdicts /\ "retry" \in Commands /\ "clear" \in Commands
         /\ \A op \in Removals : op \in Commands
    <2>1. "error" \in Verdicts /\ "retry" \in Commands /\ "clear" \in Commands
          /\ \A op \in Removals : op \in Commands
      BY DEF Verdicts, Commands, Removals
    <2> QED
      BY <2>1, Zenon DEF CalmStep
  <1>31. CASE Creating
    <2>1. PICK c \in creates : \/ CreateKills(c) \/ CreateNew(c) \/ Superseded(c) \/ CreatedLate(c)
                              \/ Created(c) \/ CreateFailed(c)
      BY <1>31, Zenon DEF Creating
    <2>2. Idles \/ Reports("error")
      BY <2>1, <1>7, <1>8, <1>9, Zenon
    <2> QED
      BY <2>2, <1>1, <1>30, Zenon
  <1>32. CASE ~Creating
    <2>1. \/ Queued \/ ExitStopped \/ ExitReported \/ ForceStop \/ KillRuns \/ CommandEnds
          \/ CreateSaves \/ CreateRuns \/ Stop \/ \E op \in {"retry", "remove", "clear"} : Ask(op)
          \/ ListRecords \/ ListTmux \/ Reap \/ Resurrect
      BY <1>29, <1>32, Zenon DEF Next, Exits, Reviving
    <2>2. CASE Queued
      <3>1. \/ WriteStopped \/ WriteEnded \/ RetryRefused \/ RetrySaves \/ RetryRuns
            \/ RemoveRefused \/ RemoveStops \/ RemoveArchives \/ RemoveDeletes
            \/ LeftAlone \/ Reattaches \/ ReattachPublished \/ Resumes \/ ResumeRuns \/ MarkedDead
        BY <2>2, <1>29, Zenon DEF Queued
      <3> QED
        BY <3>1, <1>1, <1>13, <1>14, <1>15, <1>16, <1>17, <1>18, <1>19, <1>20, <1>21, <1>22, <1>23,
           <1>26, <1>30, Zenon
    <2>3. CASE \E op \in {"retry", "remove", "clear"} : Ask(op)
      <3>1. PICK op \in {"retry", "remove", "clear"} : Ask(op)
        BY <2>3, Zenon
      <3>2. op \in Commands
        BY DEF Commands
      <3> QED
        BY <3>1, <3>2, <1>1, <1>12, <1>30, Zenon
    <2> QED
      BY <2>1, <2>2, <2>3, <1>1, <1>7, <1>8, <1>10, <1>11, <1>24, <1>25, <1>27, <1>28, <1>30, Zenon
  <1> QED
    BY <1>1, <1>31, <1>32

\* Each kind of step keeps the invariant of a calm bridge.
LEMMA CalmKeeps ==
  ASSUME Typed, Typed', RecordShape, RecordShape', RunnerShape, CalmInv, Calm, CalmStep
  PROVE  CalmStart' /\ EndedOnce' /\ OverIsQuiet' /\ StopsInLine' /\ Revival'
  <1>1. CalmStart /\ EndedOnce /\ OverIsQuiet /\ StopsInLine /\ Revival
    BY DEF CalmInv
  <1>2. PlacesShape /\ PlacesShape'
    BY PlacesTyped, PlacesTypedNext
  <1>3. /\ gen \in Nat /\ gen' \in Nat /\ last \in Nat /\ stopping \in BOOLEAN /\ stopping' \in BOOLEAN
        /\ at \in Stages /\ rec \in Statuses /\ rec' \in Statuses
        /\ res \in {"list", "probe", "reap", "queue", "wait", "done"}
        /\ creator \in {"idle", "staggering", "done"}
        /\ at = "launch" => rec = "running" /\ (Running("retry") \/ Running("resurrect"))
        /\ at \in {"archive", "delete"} => Running("remove") \/ Running("clear")
        /\ at = "publish" => Running("resurrect")
    BY DEF Typed, TypeOK, TurnShape, RecordShape
  <1>4. /\ \A v \in Verdicts : Ended(v, gen) \in Task /\ Ended(v, gen).op = "ended"
        /\ Ended("error", last + 1) \in Task /\ Ended("error", last + 1).op = "ended"
        /\ \A op \in Ops : TaskOf(op) \in Task /\ TaskOf(op).op = op
    BY <1>3 DEF Ended, TaskOf, Task, Verdicts, Ops
  <1>5. CASE Idles
    <2>1. \A o : Places(o)' = Places(o)
      BY <1>5 DEF Idles, Places
    <2> QED
      BY <1>5, <2>1, <1>1, <1>2, <1>3, <1>4 DEF Idles, Rests, Quietly, PlacesShape,
         Quiet, Verdicts, Ops, CalmStart, EndedOnce, OverIsQuiet, StopsInLine, Revival
  <1>6. CASE \E v \in Verdicts : Reports(v)
    <2>1. PICK v \in Verdicts : Reports(v)
      BY <1>6, Zenon
    <2>2. Loud /\ gen' = 0 /\ UNCHANGED <<at, rec, creator, res, snapshot>>
      BY <2>1 DEF Reports, Rests
    <2>3. Joins(Ended(v, gen))
      BY <2>1, <1>4, TaskJoins DEF Reports
    <2> QED
      BY <2>2, <2>3, <1>1, <1>2, <1>3, <1>4 DEF Loud, Joins, PlacesShape, Quiet,
         Verdicts, Ops, CalmStart, EndedOnce, OverIsQuiet, StopsInLine, Revival
  <1>7. CASE StopsNow
    <2>1. Joins(TaskOf("stopped"))
      BY <1>7, <1>4, TaskJoins DEF StopsNow, Commands, Ops
    <2> QED
      BY <1>7, <2>1, <1>1, <1>2, <1>3, <1>4, SMTT(30) DEF StopsNow, Rests, Joins, PlacesShape,
         Quiet, Verdicts, Ops, CalmStart, EndedOnce, OverIsQuiet, StopsInLine, Revival
  <1>8. CASE \E op \in Commands : Asks(op)
    <2>1. PICK op \in Commands : Asks(op)
      BY <1>8, Zenon
    <2>2. Joins(TaskOf(op))
      BY <2>1, <1>4, TaskJoins DEF Asks, Commands, Ops
    <2> QED
      BY <2>1, <2>2, <1>1, <1>2, <1>3, <1>4 DEF Asks, Commands, Rests, Same, Joins,
         PlacesShape, Quiet, Verdicts, Ops, CalmStart, EndedOnce, OverIsQuiet,
         StopsInLine, Revival
  <1>9. CASE Writes
    <2>1. Leaves
      BY <1>9, TaskLeaves DEF Writes, Left
    <2> QED
      BY <1>9, <2>1, <1>1, <1>2, <1>3, <1>4 DEF Writes, Rests, Same, Leaves,
         PlacesShape, Quiet, Verdicts, Ops, CalmStart, EndedOnce, OverIsQuiet,
         StopsInLine, Revival
  <1>10. CASE \E op \in Commands : Drops(op)
    <2>1. PICK op \in Commands : Drops(op)
      BY <1>10, Zenon
    <2>2. Leaves
      BY <2>1, TaskLeaves DEF Drops, Left
    <2> QED
      BY <2>1, <2>2, <1>1, <1>2, <1>3, <1>4 DEF Drops, Commands, Rests, Quietly, Leaves,
         PlacesShape, Quiet, Verdicts, Ops, CalmStart, EndedOnce, OverIsQuiet,
         StopsInLine, Revival
  <1>11. CASE Revives
    <2>1. Leaves
      BY <1>11, TaskLeaves DEF Revives, Left
    <2> QED
      BY <1>11, <2>1, <1>1, <1>2, <1>3, <1>4 DEF Revives, Same, Leaves, PlacesShape,
         Quiet, Verdicts, Ops, CalmStart, EndedOnce, OverIsQuiet, StopsInLine, Revival
  <1>12. CASE OpensRetry
    <2>1. \A o : Places(o)' = Places(o)
      BY <1>12 DEF OpensRetry, Places
    <2> QED
      BY <1>12, <2>1, <1>1, <1>2, <1>3, <1>4 DEF OpensRetry, Rests, Same, PlacesShape,
         Quiet, Verdicts, Ops, CalmStart, EndedOnce, OverIsQuiet, StopsInLine, Revival
  <1>13. CASE OpensRevival
    <2>1. \A o : Places(o)' = Places(o)
      BY <1>13 DEF OpensRevival, Places
    <2> QED
      BY <1>13, <2>1, <1>1, <1>2, <1>3, <1>4 DEF OpensRevival, Rests, Same, PlacesShape,
         Quiet, Verdicts, Ops, CalmStart, EndedOnce, OverIsQuiet, StopsInLine, Revival
  <1>14. CASE \E op \in Removals : OpensRemoval(op)
    <2>1. PICK op \in Removals : OpensRemoval(op)
      BY <1>14, Zenon
    <2>2. \A o : Places(o)' = Places(o)
      BY <2>1 DEF OpensRemoval, Places
    <2> QED
      BY <2>1, <2>2, <1>1, <1>2, <1>3, <1>4 DEF OpensRemoval, Removals, Rests,
         PlacesShape, Quiet, Verdicts, Ops, CalmStart, EndedOnce, OverIsQuiet,
         StopsInLine, Revival
  <1>15. CASE Launches
    <2>1. ASSUME Loud' PROVE Leaves
      BY <1>15, <2>1, TaskLeaves DEF Launches, Loud, Left
    <2>2. ASSUME ~Loud' PROVE gen' = 0 /\ Swaps(Ended("error", last + 1))
      BY <1>15, <2>2, <1>4, TaskSwaps DEF Launches
    <2>3. Places("ended") = {} /\ Places("stopped") = {} /\ rec = "running" /\ creator = "done"
      BY <1>15, <1>1, <1>2, <1>3, <1>4 DEF Launches, PlacesShape, Quiet, Verdicts, Ops,
         CalmStart, EndedOnce, OverIsQuiet, StopsInLine, Revival
    <2>4. CASE Loud'
      BY <1>15, <2>4, <2>1, <2>3, <1>1, <1>2, <1>3, <1>4 DEF Launches, Leaves,
         PlacesShape, Quiet, Verdicts, Ops, CalmStart, EndedOnce, OverIsQuiet,
         StopsInLine, Revival
    <2>5. CASE ~Loud'
      <3>1. CalmStart'
        BY <1>15, <2>5, <2>2, <2>3, <1>1, <1>2, <1>3, <1>4 DEF Launches, Swaps,
           PlacesShape, Quiet, Verdicts, Ops, CalmStart, EndedOnce, OverIsQuiet,
           StopsInLine, Revival
      <3>2. EndedOnce'
        BY <1>15, <2>5, <2>2, <2>3, <1>1, <1>2, <1>3, <1>4 DEF Launches, Swaps,
           PlacesShape, Quiet, Verdicts, Ops, CalmStart, EndedOnce, OverIsQuiet,
           StopsInLine, Revival
      <3>3. OverIsQuiet'
        BY <1>15, <2>5, <2>2, <2>3, <1>1, <1>2, <1>3, <1>4 DEF Launches, Swaps,
           PlacesShape, Quiet, Verdicts, Ops, CalmStart, EndedOnce, OverIsQuiet,
           StopsInLine, Revival
      <3>4. StopsInLine'
        BY <1>15, <2>5, <2>2, <2>3, <1>1, <1>2, <1>3, <1>4 DEF Launches, Swaps,
           PlacesShape, Quiet, Verdicts, Ops, CalmStart, EndedOnce, OverIsQuiet,
           StopsInLine, Revival
      <3>5. Places("bury")' = {} /\ Places("resurrect")' = {}
        BY <2>5, <2>2, <1>1, <1>2, <1>4 DEF Swaps, PlacesShape, Revival
      <3>6. ASSUME Running("retry"), res # "done" PROVE FALSE
        BY <3>6, <1>1, <1>2 DEF PlacesShape, Revival, Ops
      <3>7. res' = "done"
        BY <1>15, <3>6 DEF Launches
      <3>8. Revival'
        BY <3>5, <3>7 DEF Revival
      <3> QED
        BY <3>1, <3>2, <3>3, <3>4, <3>8
    <2> QED
      BY <2>4, <2>5
  <1>16. CASE Starts
    <2>1. ASSUME Loud' PROVE \A o : Places(o)' = Places(o)
      BY <1>16, <2>1 DEF Starts, Loud, Stays, Places
    <2>2. ASSUME ~Loud' PROVE gen' = 0 /\ Joins(Ended("error", last + 1))
      BY <1>16, <2>2, <1>4, TaskJoins DEF Starts
    <2> QED
      BY <1>16, <2>1, <2>2, <1>1, <1>2, <1>3, <1>4 DEF Starts, Joins, PlacesShape,
         Quiet, Verdicts, Ops, CalmStart, EndedOnce, OverIsQuiet, StopsInLine, Revival
  <1>17. CASE Saves
    <2>1. \A o : Places(o)' = Places(o)
      BY <1>17 DEF Saves, Places
    <2> QED
      BY <1>17, <2>1, <1>1, <1>2, <1>3, <1>4 DEF Saves, Same, PlacesShape, Quiet,
         Verdicts, Ops, CalmStart, EndedOnce, OverIsQuiet, StopsInLine, Revival
  <1>18. CASE Rejoins
    <2>1. ASSUME Loud' PROVE \A o : Places(o)' = Places(o)
      BY <1>18, <2>1 DEF Rejoins, Loud, Stays, Places
    <2>2. ASSUME ~Loud' PROVE gen' = 0 /\ Joins(Ended("error", last + 1))
      BY <1>18, <2>2, <1>4, TaskJoins DEF Rejoins
    <2> QED
      BY <1>18, <2>1, <2>2, <1>1, <1>2, <1>3, <1>4 DEF Rejoins, Rests, Joins,
         PlacesShape, Quiet, Verdicts, Ops, CalmStart, EndedOnce, OverIsQuiet,
         StopsInLine, Revival
  <1>19. CASE Looks
    <2>1. \A o : Places(o)' = Places(o)
      BY <1>19 DEF Looks, Places
    <2> QED
      BY <1>19, <2>1, <1>1, <1>2, <1>3, <1>4 DEF Looks, Same, PlacesShape, Quiet,
         Verdicts, Ops, CalmStart, EndedOnce, OverIsQuiet, StopsInLine, Revival
  <1>20. CASE Finds
    <2>1. Joins(TaskOf("resurrect"))
      BY <1>20, <1>4, TaskJoins DEF Finds, Ops
    <2> QED
      BY <1>20, <2>1, <1>1, <1>2, <1>3, <1>4 DEF Finds, Same, Joins, PlacesShape, Quiet,
         Verdicts, Ops, CalmStart, EndedOnce, OverIsQuiet, StopsInLine, Revival
  <1> QED
    BY <1>5, <1>6, <1>7, <1>8, <1>9, <1>10, <1>11, <1>12, <1>13, <1>14, <1>15, <1>16,
       <1>17, <1>18, <1>19, <1>20 DEF CalmStep

\* The runner loses track of no process.
LEMMA NoStrays ==
  ASSUME Typed, RunnerShape, CalmInv, Calm, Calm', Next
  PROVE  strays' = {} /\ watcher' = "idle"
  <1>0. /\ strays = {} /\ watcher = "idle" /\ ClientShape
        /\ creator = "staggering" \/ at = "launch" => Quiet
    BY DEF CalmInv, CalmStart, OverIsQuiet, RunnerShape, Quiet
  <1>a. ~WatchLoads
    BY DEF WatchLoads, Happens, Happen, Calm, Spared
  <1>b. ASSUME Run \/ RunFails, Quiet
        PROVE  strays' = {}
    <2>1. ~(client = "up" /\ ~stopping)
      BY <1>b, <1>0 DEF ClientShape, Quiet
    <2>2. CASE Run
      BY <2>1, <2>2, <1>0 DEF Run
    <2>3. CASE RunFails
      BY <2>1, <2>3, <1>0 DEF RunFails
    <2> QED
      BY <1>b, <2>2, <2>3
  <1>1. CASE Creating
    BY <1>1, <1>0 DEF Creating, CreateKills, CreateNew, Superseded,
       CreatedLate, Forget, Created, CreateFailed, runner
  <1>2. CASE ExitStopped \/ ExitReported \/ ForceStop \/ KillRuns \/ CommandEnds
    BY <1>2, <1>0 DEF ExitStopped, Forget, ExitReported, ForceStop,
       KillRuns, CommandEnds, runner
  <1>3. CASE WriteStopped \/ WriteEnded \/ RetryRefused \/ RetrySaves \/
            RetryUnpublished
    BY <1>3, <1>0 DEF WriteStopped, WriteEnded, RetryRefused, RetrySaves,
       RetryUnpublished, runner
  <1>4. CASE RemoveRefused \/ RemoveStops \/ RemoveArchives \/ RemoveDeletes
    BY <1>4, <1>0 DEF RemoveRefused, RemoveStops, StopRunner,
       RemoveArchives, RemoveDeletes, runner
  <1>5. CASE LeftAlone \/ ReattachPublished \/ Resumes \/ MarkedDead \/ Bury \/
            ResurrectFails
    BY <1>5, <1>0 DEF LeftAlone, ReattachPublished, Resumes, MarkedDead,
       Bury, ResurrectFails, runner
  <1>6. CASE RetryRuns \/ ResumeRuns \/ CreateRuns
    BY <1>6, <1>b, <1>0 DEF RetryRuns, ResumeRuns, CreateRuns
  <1>8. CASE Reattaches \/ WatchAttaches
    BY <1>8, <1>0 DEF Reattaches, WatchAttaches, Attach, AttachFails, runner
  <1>9. CASE CreateSaves \/ Stop \/ (\E op \in {"retry", "remove", "clear"} :
            Ask(op))
    BY <1>9, <1>0 DEF CreateSaves, Stop, StopRunner, Ask, runner
  <1>10. CASE WatchLoads
    BY <1>10, <1>a
  <1>11. CASE Restart \/ ListRecords \/ ListTmux \/ Reap \/ Resurrect
    BY <1>11, <1>0 DEF Restart, ListRecords, ListTmux, Reap, Resurrect,
       runner
  <1> QED
    BY <1>1, <1>2, <1>3, <1>4, <1>5, <1>6, <1>8, <1>9, <1>10, <1>11 DEF Next, Queued, Creating, Exits, Reviving

\* A started bridge is calm, and satisfies the invariant whatever was before.
LEMMA CalmRestarts ==
  ASSUME Typed', Restart
  PROVE  CalmInv'
  <1>1. /\ queue' = << >> /\ at' = "start" /\ creator' = "done" /\ watcher' = "idle"
        /\ gen' = 0 /\ strays' = {} /\ res' = "list"
    BY DEF Restart
  <1>2. \A op : \A i : i \notin Places(op)'
    BY <1>1 DEF Places
  <1> QED
    BY <1>1, <1>2 DEF CalmInv, CalmStart, EndedOnce, OverIsQuiet, Quiet, StopsInLine, Revival

\* So the invariant is inductive.
LEMMA CalmNext ==
  ASSUME Typed, Typed', RecordShape, RecordShape', RunnerShape, CalmInv, [Next]_vars
  PROVE  CalmInv'
  <1>1. CASE Restart
    BY <1>1, CalmRestarts
  <1>2. CASE Next /\ ~Restart
    <2> SUFFICES ASSUME Calm' PROVE CalmInv'
      BY DEF CalmInv
    <2>1. Calm /\ CalmStep
      BY <1>2, CalmSteps
    <2> QED
      BY <1>2, <2>1, CalmKeeps, NoStrays DEF CalmInv
  <1>3. CASE UNCHANGED vars
    <2>1. UNCHANGED <<rec, queue, at, creator, watcher, res, snapshot, gen, stopping, strays, mishaps>>
      BY <1>3 DEF vars, disk, revival, runner, bounds
    <2> QED
      BY <2>1 DEF CalmInv, Calm, Spared, CalmStart, EndedOnce, OverIsQuiet, Quiet, StopsInLine,
         Revival, Places
  <1> QED
    BY <1>1, <1>2, <1>3

-----------------------------------------------------------------------------
(* While, moreover, every client attaches and tmux keeps up with launches. *)

Before == res \in {"list", "probe", "reap"}
\* One session at most is in the making, for the generation there is.
OneMaking == \A c \in creates :
  /\ c.gen = gen /\ client = "none"
  /\ c.at \in {"new", "failed"} => tmux = 0
  /\ \A d \in creates : d = c
\* What failed is not being stopped, and leaves no command behind, except to
\* a starting bridge that has yet to look.
FailedIsOver == Places("ended") # {} \/ rec = "error" =>
  gen = 0 /\ Places("stopped") = {} /\ (tmux = 0 \/ Before)
\* That bridge has seen the session that there is.
SessionSeen == res = "reap" => snapshot.tmux \/ tmux = 0
SmoothInv == Smooth => OneMaking /\ FailedIsOver /\ SessionSeen

\* The three assumptions imply one another, and a step that satisfies one
\* starts where it was satisfied, or is a restart.
LEMMA SmoothIsCalm ==
  ASSUME Typed, Next
  PROVE  /\ Smooth => Calm
         /\ Flawless => Smooth
         /\ Restart \/ ((Smooth' => Smooth) /\ (Flawless' => Flawless))
  <1>1. /\ {"early", "publish", "watch", "racing"} \subseteq FaultNames \ {"spawn", "archive"}
        /\ FaultNames \ {"spawn", "archive"} \subseteq FaultNames \ {"spawn"}
    BY DEF FaultNames
  <1> QED
    BY <1>1, MishapsStay DEF Calm, Smooth, Flawless, Spared

\* The command of a session starts only as one in the making is created.
LEMMA TmuxRises ==
  ASSUME Typed, Next
  PROVE  \/ Restart \/ tmux' \in {0, tmux}
         \/ creates # {} /\ UNCHANGED <<gen, res, snapshot, at, rec, queue>>
  <1>1. CASE Creating
    BY <1>1 DEF Creating, CreateKills, CreateNew, Superseded, CreatedLate,
       Created, CreateFailed, runner, server, disk, revival
  <1>2. CASE ExitStopped \/ ExitReported \/ ForceStop \/ KillRuns \/ CommandEnds
    BY <1>2 DEF ExitStopped, ExitReported, ForceStop, KillRuns, CommandEnds,
       runner, server, disk, revival
  <1>3. CASE WriteStopped \/ WriteEnded \/ RetryRefused \/ RetrySaves \/
            RetryUnpublished
    BY <1>3 DEF WriteStopped, WriteEnded, RetryRefused, RetrySaves,
       RetryUnpublished, runner, server, disk, revival
  <1>4. CASE RemoveRefused \/ RemoveStops \/ RemoveArchives \/ RemoveDeletes
    BY <1>4 DEF RemoveRefused, RemoveStops, StopRunner, RemoveArchives,
       RemoveDeletes, runner, server, disk, revival
  <1>5. CASE LeftAlone \/ ReattachPublished \/ Resumes \/ MarkedDead \/ Bury \/
            ResurrectFails
    BY <1>5 DEF LeftAlone, ReattachPublished, Resumes, MarkedDead, Bury,
       ResurrectFails, runner, server, disk, revival
  <1>6. CASE RetryRuns \/ ResumeRuns \/ CreateRuns \/ Reattaches \/ WatchAttaches
    BY <1>6 DEF RetryRuns, Run, RunFails, ResumeRuns, CreateRuns,
       Reattaches, Attach, AttachFails, WatchAttaches, runner, server, disk,
       revival
  <1>7. CASE CreateSaves \/ Stop \/ (\E op \in {"retry", "remove", "clear"} :
            Ask(op)) \/ WatchLoads
    BY <1>7 DEF CreateSaves, Stop, StopRunner, Ask, WatchLoads, runner,
       server, disk, revival
  <1>8. CASE ListRecords \/ ListTmux \/ Reap \/ Resurrect
    BY <1>8 DEF ListRecords, ListTmux, Reap, Resurrect, runner, server,
       disk, revival
  <1>9. CASE Restart
    BY <1>9
  <1> QED
    BY <1>1, <1>2, <1>3, <1>4, <1>5, <1>6, <1>7, <1>8, <1>9 DEF Next,
       Queued, Creating, Exits, Reviving

\* Each action keeps one session at most in the making.
LEMMA OneMakingStep ==
  ASSUME Typed, RunnerShape, CalmInv, OneMaking, Smooth, Calm, Smooth', Next
  PROVE  OneMaking'
  <1>0. /\ OneMaking /\ ClientShape /\ RuntimeShape /\ gen \in Nat /\ last \in Nat
        /\ \A c \in creates : c.gen # 0
        /\ watcher = "idle" /\ (runtime = "direct" \/ runtime = "tmux") /\ "direct" # "tmux"
        /\ tmux \in Nat
    BY DEF Typed, TypeOK, RunnerShape, CalmInv, Creation
  <1>1. client # "none" \/ gen = 0 => creates = {}
    BY <1>0 DEF OneMaking
  <1>2. /\ ~Happens("attach")
        /\ Run => creates = {} /\ kills = 0
    <2>1. \A fs : Happen(fs) => "attach" \notin fs /\ "slow" \notin fs
      BY DEF Happen, Smooth, Spared, FaultNames
    <2>2. ASSUME Run PROVE creates = {} /\ kills = 0
      <3>1. HappensIf(creates # {} \/ kills > 0, "slow")
        BY <2>2, Zenon DEF Run
      <3>2. ~(creates # {} \/ kills > 0)
        BY <3>1, <2>1 DEF HappensIf
      <3> QED
        BY <3>2 DEF Typed, TypeOK
    <2> QED
      BY <2>1, <2>2 DEF Happens
  <1>3. ASSUME Run \/ RunFails
        PROVE  OneMaking'
    <2>1. CASE Run
      <3>1. /\ creates' = IF runtime = "tmux" THEN {[gen |-> last + 1, at |-> "kill"]} ELSE {}
            /\ gen' = last + 1
            /\ client' = IF runtime = "direct" THEN "up" ELSE "none"
        BY <1>2, <2>1 DEF Run, NewGeneration
      <3> QED
        BY <3>1, <1>0 DEF OneMaking
    <2>2. CASE RunFails
      BY <2>2, <1>0 DEF RunFails, server, RuntimeShape, OneMaking
    <2> QED
      BY <1>3, <2>1, <2>2
  <1>4. CASE Creating
    <2>1. PICK c \in creates : \/ CreateKills(c) \/ CreateNew(c) \/ Superseded(c) \/ CreatedLate(c)
                              \/ Created(c) \/ CreateFailed(c)
      BY <1>4, Zenon DEF Creating
    <2>2. creates = {c} /\ c.gen = gen /\ client = "none"
          /\ c \in [gen : Nat \ {0}, at : {"kill", "new", "born", "failed"}]
      BY <1>0 DEF OneMaking, Typed, TypeOK, Creation
    <2>3. ASSUME NEW stage, Moves(c, stage), UNCHANGED <<gen, client>>, stage \in {"new", "failed"} => tmux' = 0
          PROVE  OneMaking'
      <3>1. creates' = {[c EXCEPT !.at = stage]}
        BY <2>2, <2>3 DEF Moves
      <3>2. [c EXCEPT !.at = stage].gen = gen /\ [c EXCEPT !.at = stage].at = stage
        BY <2>2
      <3> QED
        BY <3>1, <3>2, <2>2, <2>3 DEF OneMaking
    <2>4. CASE CreateKills(c)
      BY <2>3, <2>4 DEF CreateKills, runner
    <2>5. CASE CreateNew(c)
      BY <2>3, <2>5, <2>2, <1>0 DEF CreateNew, runner, OneMaking
    <2>6. CASE Superseded(c) \/ CreatedLate(c) \/ Created(c) \/ CreateFailed(c)
      <3>1. creates' = {}
        BY <2>6, <2>2 DEF Superseded, CreatedLate, Created, CreateFailed
      <3> QED
        BY <3>1 DEF OneMaking
    <2> QED
      BY <2>1, <2>4, <2>5, <2>6
  <1>5. CASE ExitStopped \/ ExitReported \/ ForceStop
    <2>1. creates' = {}
      BY <1>5, <1>1 DEF ExitStopped, ExitReported, ForceStop, server
    <2> QED
      BY <2>1 DEF OneMaking
  <1>6. CASE KillRuns \/ CommandEnds
    BY <1>6, <1>0 DEF KillRuns, CommandEnds, runner, OneMaking
  <1>7. CASE RetryRuns \/ ResumeRuns \/ CreateRuns
    BY <1>7, <1>3 DEF RetryRuns, ResumeRuns, CreateRuns
  <1>8. CASE Reattaches
    <2>1. gen = 0
      <3>1. Running("resurrect") /\ at = "start"
        BY <1>8 DEF Reattaches
      <3> QED
        BY <3>1, PlacesTyped DEF CalmInv, Revival, PlacesShape
    <2>2. creates' = {}
      BY <1>8, <1>1, <2>1 DEF Reattaches, Attach, AttachFails, server
    <2> QED
      BY <2>2 DEF OneMaking
  <1>9. CASE WatchAttaches
    BY <1>9, <1>0 DEF WatchAttaches
  <1>10. CASE WriteStopped \/ WriteEnded \/ RetryRefused \/ RetrySaves \/
            RetryUnpublished
    BY <1>10, <1>0 DEF WriteStopped, WriteEnded, RetryRefused, RetrySaves,
       RetryUnpublished, runner, server, OneMaking
  <1>11. CASE RemoveRefused \/ RemoveStops \/ RemoveArchives \/ RemoveDeletes
    BY <1>11, <1>0 DEF RemoveRefused, RemoveStops, StopRunner,
       RemoveArchives, RemoveDeletes, runner, server, OneMaking
  <1>12. CASE LeftAlone \/ ReattachPublished \/ Resumes \/ MarkedDead \/ Bury \/
            ResurrectFails
    BY <1>12, <1>0 DEF LeftAlone, ReattachPublished, Resumes, MarkedDead,
       Bury, ResurrectFails, runner, server, OneMaking
  <1>13. CASE CreateSaves \/ Stop \/ (\E op \in {"retry", "remove", "clear"} :
            Ask(op)) \/ WatchLoads
    BY <1>13, <1>0 DEF CreateSaves, Stop, StopRunner, Ask, WatchLoads,
       runner, server, OneMaking
  <1>14. CASE ListRecords \/ ListTmux \/ Reap \/ Resurrect
    BY <1>14, <1>0 DEF ListRecords, ListTmux, Reap, Resurrect, runner,
       server, OneMaking
  <1>15. CASE Restart
    <2>1. creates' = {}
      BY <1>15 DEF Restart
    <2> QED
      BY <2>1 DEF OneMaking
  <1> QED
    BY <1>4, <1>5, <1>6, <1>7, <1>8, <1>9, <1>10, <1>11, <1>12, <1>13,
       <1>14, <1>15 DEF Next, Queued, Creating, Exits, Reviving

\* A machine keeps its runtime.
LEMMA RuntimeStays ==
  ASSUME Next
  PROVE  runtime' = runtime
  <1>1. CASE Creating
    BY <1>1 DEF Creating, CreateKills, CreateNew, Superseded, CreatedLate,
       Created, CreateFailed, counts, bounds
  <1>2. CASE ExitStopped \/ ExitReported \/ ForceStop \/ KillRuns \/ CommandEnds
    BY <1>2 DEF ExitStopped, ExitReported, ForceStop, KillRuns, CommandEnds,
       counts, bounds
  <1>3. CASE WriteStopped \/ WriteEnded \/ RetryRefused \/ RetrySaves \/
            RetryUnpublished
    BY <1>3 DEF WriteStopped, WriteEnded, RetryRefused, RetrySaves,
       RetryUnpublished, counts, bounds
  <1>4. CASE RemoveRefused \/ RemoveStops \/ RemoveArchives \/ RemoveDeletes
    BY <1>4 DEF RemoveRefused, RemoveStops, RemoveArchives, RemoveDeletes,
       counts, bounds
  <1>5. CASE LeftAlone \/ ReattachPublished \/ Resumes \/ MarkedDead \/ Bury \/
            ResurrectFails
    BY <1>5 DEF LeftAlone, ReattachPublished, Resumes, MarkedDead, Bury,
       ResurrectFails, counts, bounds
  <1>6. CASE RetryRuns \/ ResumeRuns \/ CreateRuns \/ Reattaches \/ WatchAttaches
    BY <1>6 DEF RetryRuns, ResumeRuns, CreateRuns, Reattaches,
       WatchAttaches, counts, bounds
  <1>7. CASE CreateSaves \/ Stop \/ (\E op \in {"retry", "remove", "clear"} :
            Ask(op)) \/ WatchLoads
    BY <1>7 DEF CreateSaves, Stop, Ask, WatchLoads, counts, bounds
  <1>8. CASE Restart \/ ListRecords \/ ListTmux \/ Reap \/ Resurrect
    BY <1>8 DEF Restart, ListRecords, ListTmux, Reap, Resurrect, counts,
       bounds
  <1> QED
    BY <1>1, <1>2, <1>3, <1>4, <1>5, <1>6, <1>7, <1>8 DEF Next,
       Queued, Creating, Exits, Reviving

\* Each kind of step keeps a failed run over, and what a start has seen true.
LEMMA FailedIsOverStep ==
  ASSUME Typed, Typed', RecordShape, RunnerShape, RunnerShape', CalmInv, CalmInv', Calm, Calm', SmoothInv,
         Smooth, Smooth', Next, ~Restart
  PROVE  FailedIsOver' /\ SessionSeen'
  <1> USE DEF Before
  <1>0. CalmStep
    BY CalmSteps
  <1>1. CalmStart /\ EndedOnce /\ OverIsQuiet /\ StopsInLine /\ Revival /\ FailedIsOver /\ SessionSeen
    BY DEF CalmInv, SmoothInv
  <1>2. PlacesShape /\ PlacesShape' /\ EndedOnce'
    BY PlacesTyped, PlacesTypedNext DEF CalmInv
  <1>3. /\ gen \in Nat /\ gen' \in Nat /\ last \in Nat /\ stopping \in BOOLEAN
        /\ at \in Stages /\ rec \in Statuses
        /\ res \in {"list", "probe", "reap", "queue", "wait", "done"}
        /\ creator \in {"idle", "staggering", "done"}
        /\ at = "launch" => rec = "running" /\ (Running("retry") \/ Running("resurrect"))
        /\ at = "publish" => Running("resurrect")
        /\ runtime = "direct" => tmux' = 0
    <2>1. runtime' = runtime
      BY RuntimeStays
    <2> QED
      BY <2>1 DEF Typed, TypeOK, TurnShape, RecordShape, RunnerShape, RuntimeShape
  <1>4. /\ \A v \in Verdicts : Ended(v, gen) \in Task /\ Ended(v, gen).op = "ended"
        /\ Ended("error", last + 1) \in Task /\ Ended("error", last + 1).op = "ended"
        /\ \A op \in Ops : TaskOf(op) \in Task /\ TaskOf(op).op = op
    BY <1>3 DEF Ended, TaskOf, Task, Verdicts, Ops
  <1>5. tmux' = 0 \/ tmux' = tmux \/ (gen # 0 /\ UNCHANGED <<gen, res, snapshot, at, rec, queue>>)
    <2>1. creates # {} => gen # 0
      BY DEF SmoothInv, OneMaking, Typed, TypeOK, Creation
    <2> QED
      BY <2>1, TmuxRises
  <1>6. tmux = 0 \/ \A c \in creates : c.at # "failed"
    BY DEF SmoothInv, OneMaking
  <1>7. CASE Idles
    <2>1. \A o : Places(o)' = Places(o)
      BY <1>7 DEF Idles, Places
    <2> QED
      BY <1>7, <2>1, <1>1, <1>2, <1>3, <1>4, <1>5, <1>6 DEF Idles, Rests, Quietly,
         PlacesShape, Quiet, Verdicts, Ops, CalmStart, EndedOnce, OverIsQuiet,
         StopsInLine, Revival, FailedIsOver, SessionSeen, Dead
  <1>8. CASE \E v \in Verdicts : Reports(v)
    <2>1. PICK v \in Verdicts : Reports(v)
      BY <1>8, Zenon
    <2>2. Loud /\ gen' = 0 /\ UNCHANGED <<at, rec, creator, res, snapshot>>
          /\ tmux = 0
      BY <2>1, <1>6 DEF Reports, Rests
    <2>3. Joins(Ended(v, gen))
      BY <2>1, <1>4, TaskJoins DEF Reports
    <2> QED
      BY <2>2, <2>3, <1>1, <1>2, <1>3, <1>4, <1>5, <1>6 DEF Loud, Joins, PlacesShape,
         Quiet, Verdicts, Ops, CalmStart, EndedOnce, OverIsQuiet, StopsInLine, Revival,
         FailedIsOver, SessionSeen, Dead
  <1>9. CASE StopsNow
    <2>1. Joins(TaskOf("stopped"))
      BY <1>9, <1>4, TaskJoins DEF StopsNow, Commands, Ops
    <2> QED
      BY <1>9, <2>1, <1>1, <1>2, <1>3, <1>4, <1>5, <1>6 DEF StopsNow, Rests, Joins,
         PlacesShape, Quiet, Verdicts, Ops, CalmStart, EndedOnce, OverIsQuiet,
         StopsInLine, Revival, FailedIsOver, SessionSeen, Dead
  <1>10. CASE \E op \in Commands : Asks(op)
    <2>1. PICK op \in Commands : Asks(op)
      BY <1>10, Zenon
    <2>2. Joins(TaskOf(op))
      BY <2>1, <1>4, TaskJoins DEF Asks, Commands, Ops
    <2> QED
      BY <2>1, <2>2, <1>1, <1>2, <1>3, <1>4, <1>5, <1>6 DEF Asks, Commands, Rests, Same,
         Joins, PlacesShape, Quiet, Verdicts, Ops, CalmStart, EndedOnce, OverIsQuiet,
         StopsInLine, Revival, FailedIsOver, SessionSeen, Dead
  <1>11. CASE Writes
    <2>1. Leaves
      BY <1>11, TaskLeaves DEF Writes, Left
    <2> QED
      BY <1>11, <2>1, <1>1, <1>2, <1>3, <1>4, <1>5, <1>6 DEF Writes, Rests, Same,
         Leaves, PlacesShape, Quiet, Verdicts, Ops, CalmStart, EndedOnce, OverIsQuiet,
         StopsInLine, Revival, FailedIsOver, SessionSeen, Dead
  <1>12. CASE \E op \in Commands : Drops(op)
    <2>1. PICK op \in Commands : Drops(op)
      BY <1>12, Zenon
    <2>2. Leaves
      BY <2>1, TaskLeaves DEF Drops, Left
    <2> QED
      BY <2>1, <2>2, <1>1, <1>2, <1>3, <1>4, <1>5, <1>6 DEF Drops, Commands, Rests,
         Quietly, Leaves, PlacesShape, Quiet, Verdicts, Ops, CalmStart, EndedOnce,
         OverIsQuiet, StopsInLine, Revival, FailedIsOver, SessionSeen, Dead
  <1>13. CASE Revives
    <2>1. Leaves
      BY <1>13, TaskLeaves DEF Revives, Left
    <2> QED
      BY <1>13, <2>1, <1>1, <1>2, <1>3, <1>4, <1>5, <1>6 DEF Revives, Same, Leaves,
         PlacesShape, Quiet, Verdicts, Ops, CalmStart, EndedOnce, OverIsQuiet,
         StopsInLine, Revival, FailedIsOver, SessionSeen, Dead
  <1>14. CASE OpensRetry
    <2>1. \A o : Places(o)' = Places(o)
      BY <1>14 DEF OpensRetry, Places
    <2> QED
      BY <1>14, <2>1, <1>1, <1>2, <1>3, <1>4, <1>5, <1>6 DEF OpensRetry, Rests, Same,
         PlacesShape, Quiet, Verdicts, Ops, CalmStart, EndedOnce, OverIsQuiet,
         StopsInLine, Revival, FailedIsOver, SessionSeen, Dead
  <1>15. CASE OpensRevival
    <2>1. \A o : Places(o)' = Places(o)
      BY <1>15 DEF OpensRevival, Places
    <2> QED
      BY <1>15, <2>1, <1>1, <1>2, <1>3, <1>4, <1>5, <1>6 DEF OpensRevival, Rests, Same,
         PlacesShape, Quiet, Verdicts, Ops, CalmStart, EndedOnce, OverIsQuiet,
         StopsInLine, Revival, FailedIsOver, SessionSeen, Dead
  <1>16. CASE \E op \in Removals : OpensRemoval(op)
    <2>1. PICK op \in Removals : OpensRemoval(op)
      BY <1>16, Zenon
    <2>2. \A o : Places(o)' = Places(o)
      BY <2>1 DEF OpensRemoval, Places
    <2> QED
      BY <2>1, <2>2, <1>1, <1>2, <1>3, <1>4, <1>5, <1>6 DEF OpensRemoval, Removals,
         Rests, PlacesShape, Quiet, Verdicts, Ops, CalmStart, EndedOnce, OverIsQuiet,
         StopsInLine, Revival, FailedIsOver, SessionSeen, Dead
  <1>17. CASE Launches
    <2>1. ASSUME Loud' PROVE Leaves
      BY <1>17, <2>1, TaskLeaves DEF Launches, Loud, Left
    <2>2. ASSUME ~Loud' PROVE gen' = 0 /\ Swaps(Ended("error", last + 1))
      BY <1>17, <2>2, <1>4, TaskSwaps DEF Launches
    <2>3. Places("ended") = {} /\ Places("stopped") = {} /\ rec = "running" /\ creator = "done"
      BY <1>17, <1>1, <1>2, <1>3, <1>4, <1>5, <1>6 DEF Launches, PlacesShape, Quiet,
         Verdicts, Ops, CalmStart, EndedOnce, OverIsQuiet, StopsInLine, Revival,
         FailedIsOver, SessionSeen, Dead
    <2>4. CASE Loud'
      BY <1>17, <2>4, <2>1, <2>3, <1>1, <1>2, <1>3, <1>4, <1>5, <1>6 DEF Launches,
         Leaves, PlacesShape, Quiet, Verdicts, Ops, CalmStart, EndedOnce, OverIsQuiet,
         StopsInLine, Revival, FailedIsOver, SessionSeen, Dead
    <2>5. CASE ~Loud'
      BY <1>17, <2>5, <2>2, <2>3, <1>1, <1>2, <1>3, <1>4, <1>5, <1>6 DEF Launches,
         Swaps, PlacesShape, Quiet, Verdicts, Ops, CalmStart, EndedOnce, OverIsQuiet,
         StopsInLine, Revival, FailedIsOver, SessionSeen, Dead
    <2> QED
      BY <2>4, <2>5
  <1>18. CASE Starts
    <2>1. ASSUME Loud' PROVE \A o : Places(o)' = Places(o)
      BY <1>18, <2>1 DEF Starts, Loud, Stays, Places
    <2>2. ASSUME ~Loud' PROVE gen' = 0 /\ Joins(Ended("error", last + 1))
      BY <1>18, <2>2, <1>4, TaskJoins DEF Starts
    <2> QED
      BY <1>18, <2>1, <2>2, <1>1, <1>2, <1>3, <1>4, <1>5, <1>6 DEF Starts, Joins,
         PlacesShape, Quiet, Verdicts, Ops, CalmStart, EndedOnce, OverIsQuiet,
         StopsInLine, Revival, FailedIsOver, SessionSeen, Dead
  <1>19. CASE Saves
    <2>1. \A o : Places(o)' = Places(o)
      BY <1>19 DEF Saves, Places
    <2> QED
      BY <1>19, <2>1, <1>1, <1>2, <1>3, <1>4, <1>5, <1>6 DEF Saves, Same, PlacesShape,
         Quiet, Verdicts, Ops, CalmStart, EndedOnce, OverIsQuiet, StopsInLine, Revival,
         FailedIsOver, SessionSeen, Dead
  <1>20. CASE Rejoins
    <2>1. ASSUME Loud' PROVE \A o : Places(o)' = Places(o)
      BY <1>20, <2>1 DEF Rejoins, Loud, Stays, Places
    <2>2. ASSUME ~Loud' PROVE gen' = 0 /\ Joins(Ended("error", last + 1))
      BY <1>20, <2>2, <1>4, TaskJoins DEF Rejoins
    <2> QED
      BY <1>20, <2>1, <2>2, <1>1, <1>2, <1>3, <1>4, <1>5, <1>6 DEF Rejoins, Rests,
         Joins, PlacesShape, Quiet, Verdicts, Ops, CalmStart, EndedOnce, OverIsQuiet,
         StopsInLine, Revival, FailedIsOver, SessionSeen, Dead
  <1>21. CASE Looks
    <2>1. \A o : Places(o)' = Places(o)
      BY <1>21 DEF Looks, Places
    <2> QED
      BY <1>21, <2>1, <1>1, <1>2, <1>3, <1>4, <1>5, <1>6 DEF Looks, Same, PlacesShape,
         Quiet, Verdicts, Ops, CalmStart, EndedOnce, OverIsQuiet, StopsInLine, Revival,
         FailedIsOver, SessionSeen, Dead
  <1>22. CASE Finds
    <2>1. Joins(TaskOf("resurrect"))
      BY <1>22, <1>4, TaskJoins DEF Finds, Ops
    <2> QED
      BY <1>22, <2>1, <1>1, <1>2, <1>3, <1>4, <1>5, <1>6 DEF Finds, Same, Joins,
         PlacesShape, Quiet, Verdicts, Ops, CalmStart, EndedOnce, OverIsQuiet,
         StopsInLine, Revival, FailedIsOver, SessionSeen, Dead
  <1> QED
    BY <1>7, <1>8, <1>9, <1>10, <1>11, <1>12, <1>13, <1>14, <1>15, <1>16, <1>17, <1>18,
       <1>19, <1>20, <1>21, <1>22, <1>0 DEF CalmStep

-----------------------------------------------------------------------------
(* While, moreover, tombstones can be written. *)

\* A record that says running has a process, or something is about to give it
\* one or to write that it has none.
RunningIsServed == rec = "running" =>
  \/ creator = "staggering" \/ Loud
  \/ Places("ended") # {} \/ Places("stopped") # {}
  \/ at \in {"launch", "archive", "delete"} \/ (res # "done" /\ at # "publish")
\* A tmux session has a generation, or something is about to kill it, to make
\* it or to find it.
TmuxIsServed == tmux # 0 =>
  \/ Loud \/ kills > 0 \/ creates # {} \/ Before
  \/ (res \in {"queue", "wait"} /\ at = "start" /\ rec = "running")
FlawlessInv == Flawless => RunningIsServed /\ TmuxIsServed

\* Each kind of step leaves a running record with a process, or with something
\* that is going to give it one or to write what became of it.
LEMMA RunningIsServedStep ==
  ASSUME Typed, Typed', RecordShape, RecordShape', RunnerShape, CalmInv, Calm, Calm', FlawlessInv,
         Flawless, Flawless', Smooth', Next, ~Restart
  PROVE  RunningIsServed'
  <1>0. CalmStep
    BY CalmSteps
  <1>1. CalmStart /\ EndedOnce /\ OverIsQuiet /\ StopsInLine /\ Revival /\ RunningIsServed
    BY DEF CalmInv, FlawlessInv
  <1>2. PlacesShape /\ PlacesShape'
    BY PlacesTyped, PlacesTypedNext
  <1>3. /\ gen \in Nat /\ gen' \in Nat /\ last \in Nat /\ stopping \in BOOLEAN
        /\ at \in Stages /\ rec \in Statuses
        /\ res \in {"list", "probe", "reap", "queue", "wait", "done"}
        /\ creator \in {"idle", "staggering", "done"}
        /\ at = "launch" => rec = "running" /\ (Running("retry") \/ Running("resurrect"))
        /\ at \in {"archive", "delete"} => Running("remove") \/ Running("clear")
        /\ at = "publish" => Running("resurrect")
    BY DEF Typed, TypeOK, TurnShape, RecordShape
  <1>4. /\ \A v \in Verdicts : Ended(v, gen) \in Task /\ Ended(v, gen).op = "ended"
        /\ Ended("error", last + 1) \in Task /\ Ended("error", last + 1).op = "ended"
        /\ \A op \in Ops : TaskOf(op) \in Task /\ TaskOf(op).op = op
    BY <1>3 DEF Ended, TaskOf, Task, Verdicts, Ops
  <1>5. CASE Idles
    <2>1. \A o : Places(o)' = Places(o)
      BY <1>5 DEF Idles, Places
    <2> QED
      BY <1>5, <2>1, <1>1, <1>2, <1>3, <1>4 DEF Idles, Rests, Quietly, PlacesShape,
         Quiet, Verdicts, Ops, CalmStart, EndedOnce, OverIsQuiet, StopsInLine, Revival,
         RunningIsServed, Loud
  <1>6. CASE \E v \in Verdicts : Reports(v)
    <2>1. PICK v \in Verdicts : Reports(v)
      BY <1>6, Zenon
    <2>2. Loud /\ gen' = 0 /\ UNCHANGED <<at, rec, creator, res, snapshot>>
      BY <2>1 DEF Reports, Rests
    <2>3. Joins(Ended(v, gen))
      BY <2>1, <1>4, TaskJoins DEF Reports
    <2> QED
      BY <2>2, <2>3, <1>1, <1>2, <1>3, <1>4 DEF Joins, PlacesShape, Quiet, Verdicts,
         Ops, CalmStart, EndedOnce, OverIsQuiet, StopsInLine, Revival, RunningIsServed,
         Loud
  <1>7. CASE StopsNow
    <2>1. Joins(TaskOf("stopped"))
      BY <1>7, <1>4, TaskJoins DEF StopsNow, Commands, Ops
    <2> QED
      BY <1>7, <2>1, <1>1, <1>2, <1>3, <1>4 DEF StopsNow, Rests, Joins, PlacesShape,
         Quiet, Verdicts, Ops, CalmStart, EndedOnce, OverIsQuiet, StopsInLine, Revival,
         RunningIsServed, Loud
  <1>8. CASE \E op \in Commands : Asks(op)
    <2>1. PICK op \in Commands : Asks(op)
      BY <1>8, Zenon
    <2>2. Joins(TaskOf(op))
      BY <2>1, <1>4, TaskJoins DEF Asks, Commands, Ops
    <2> QED
      BY <2>1, <2>2, <1>1, <1>2, <1>3, <1>4 DEF Asks, Commands, Rests, Same, Joins,
         PlacesShape, Quiet, Verdicts, Ops, CalmStart, EndedOnce, OverIsQuiet,
         StopsInLine, Revival, RunningIsServed, Loud
  <1>9. CASE Writes
    <2>1. Leaves
      BY <1>9, TaskLeaves DEF Writes, Left
    <2> QED
      BY <1>9, <2>1, <1>1, <1>2, <1>3, <1>4 DEF Writes, Rests, Same, Leaves,
         PlacesShape, Quiet, Verdicts, Ops, CalmStart, EndedOnce, OverIsQuiet,
         StopsInLine, Revival, RunningIsServed, Loud
  <1>10. CASE \E op \in Commands : Drops(op)
    <2>1. PICK op \in Commands : Drops(op)
      BY <1>10, Zenon
    <2>2. Leaves
      BY <2>1, TaskLeaves DEF Drops, Left
    <2>3. \A o \in {"ended", "stopped"} : Places(o) # {} => Places(o)' # {}
      BY <2>1, <2>2, OthersStay DEF Drops, Commands, Running
    <2> QED
      BY <2>1, <2>2, <2>3, <1>1, <1>2, <1>3, <1>4 DEF Drops, Commands, Rests, Quietly,
         Leaves, PlacesShape, Quiet, Verdicts, Ops, CalmStart, EndedOnce, OverIsQuiet,
         StopsInLine, Revival, RunningIsServed, Loud
  <1>11. CASE Revives
    <2>1. Leaves
      BY <1>11, TaskLeaves DEF Revives, Left
    <2>2. \A o \in {"ended", "stopped"} : Places(o) # {} => Places(o)' # {}
      BY <1>11, <2>1, OthersStay DEF Revives, Running
    <2> QED
      BY <1>11, <2>1, <2>2, <1>1, <1>2, <1>3, <1>4 DEF Revives, Same, Leaves,
         PlacesShape, Quiet, Verdicts, Ops, CalmStart, EndedOnce, OverIsQuiet,
         StopsInLine, Revival, RunningIsServed, Loud
  <1>12. CASE OpensRetry
    <2>1. \A o : Places(o)' = Places(o)
      BY <1>12 DEF OpensRetry, Places
    <2> QED
      BY <1>12, <2>1, <1>1, <1>2, <1>3, <1>4 DEF OpensRetry, Rests, Same, PlacesShape,
         Quiet, Verdicts, Ops, CalmStart, EndedOnce, OverIsQuiet, StopsInLine, Revival,
         RunningIsServed, Loud
  <1>13. CASE OpensRevival
    <2>1. \A o : Places(o)' = Places(o)
      BY <1>13 DEF OpensRevival, Places
    <2> QED
      BY <1>13, <2>1, <1>1, <1>2, <1>3, <1>4 DEF OpensRevival, Rests, Same, PlacesShape,
         Quiet, Verdicts, Ops, CalmStart, EndedOnce, OverIsQuiet, StopsInLine, Revival,
         RunningIsServed, Loud
  <1>14. CASE \E op \in Removals : OpensRemoval(op)
    <2>1. PICK op \in Removals : OpensRemoval(op)
      BY <1>14, Zenon
    <2>2. \A o : Places(o)' = Places(o)
      BY <2>1 DEF OpensRemoval, Places
    <2> QED
      BY <2>1, <2>2, <1>1, <1>2, <1>3, <1>4 DEF OpensRemoval, Removals, Rests,
         PlacesShape, Quiet, Verdicts, Ops, CalmStart, EndedOnce, OverIsQuiet,
         StopsInLine, Revival, RunningIsServed, Loud
  <1>15. CASE Launches
    <2>1. ASSUME Loud' PROVE Leaves
      BY <1>15, <2>1, TaskLeaves DEF Launches, Loud, Left
    <2>2. ASSUME ~Loud' PROVE gen' = 0 /\ Swaps(Ended("error", last + 1))
      BY <1>15, <2>2, <1>4, TaskSwaps DEF Launches
    <2>3. Places("ended") = {} /\ Places("stopped") = {} /\ rec = "running" /\ creator = "done"
      BY <1>15, <1>1, <1>2, <1>3, <1>4 DEF Launches, PlacesShape, Quiet, Verdicts, Ops,
         CalmStart, EndedOnce, OverIsQuiet, StopsInLine, Revival, RunningIsServed, Loud
    <2>4. CASE Loud'
      BY <1>15, <2>4, <2>1, <2>3, <1>1, <1>2, <1>3, <1>4 DEF Launches, Leaves,
         PlacesShape, Quiet, Verdicts, Ops, CalmStart, EndedOnce, OverIsQuiet,
         StopsInLine, Revival, RunningIsServed, Loud
    <2>5. CASE ~Loud'
      BY <1>15, <2>5, <2>2, <2>3, <1>1, <1>2, <1>3, <1>4 DEF Launches, Swaps,
         PlacesShape, Quiet, Verdicts, Ops, CalmStart, EndedOnce, OverIsQuiet,
         StopsInLine, Revival, RunningIsServed, Loud
    <2> QED
      BY <2>4, <2>5
  <1>16. CASE Starts
    <2>1. ASSUME Loud' PROVE \A o : Places(o)' = Places(o)
      BY <1>16, <2>1 DEF Starts, Loud, Stays, Places
    <2>2. ASSUME ~Loud' PROVE gen' = 0 /\ Joins(Ended("error", last + 1))
      BY <1>16, <2>2, <1>4, TaskJoins DEF Starts
    <2> QED
      BY <1>16, <2>1, <2>2, <1>1, <1>2, <1>3, <1>4 DEF Starts, Joins, PlacesShape,
         Quiet, Verdicts, Ops, CalmStart, EndedOnce, OverIsQuiet, StopsInLine, Revival,
         RunningIsServed, Loud
  <1>17. CASE Saves
    <2>1. \A o : Places(o)' = Places(o)
      BY <1>17 DEF Saves, Places
    <2> QED
      BY <1>17, <2>1, <1>1, <1>2, <1>3, <1>4 DEF Saves, Same, PlacesShape, Quiet,
         Verdicts, Ops, CalmStart, EndedOnce, OverIsQuiet, StopsInLine, Revival,
         RunningIsServed, Loud
  <1>18. CASE Rejoins
    <2>1. ASSUME Loud' PROVE \A o : Places(o)' = Places(o)
      BY <1>18, <2>1 DEF Rejoins, Loud, Stays, Places
    <2>2. ASSUME ~Loud' PROVE gen' = 0 /\ Joins(Ended("error", last + 1))
      BY <1>18, <2>2, <1>4, TaskJoins DEF Rejoins
    <2> QED
      BY <1>18, <2>1, <2>2, <1>1, <1>2, <1>3, <1>4 DEF Rejoins, Rests, Joins,
         PlacesShape, Quiet, Verdicts, Ops, CalmStart, EndedOnce, OverIsQuiet,
         StopsInLine, Revival, RunningIsServed, Loud
  <1>19. CASE Looks
    <2>1. \A o : Places(o)' = Places(o)
      BY <1>19 DEF Looks, Places
    <2> QED
      BY <1>19, <2>1, <1>1, <1>2, <1>3, <1>4 DEF Looks, Same, PlacesShape, Quiet,
         Verdicts, Ops, CalmStart, EndedOnce, OverIsQuiet, StopsInLine, Revival,
         RunningIsServed, Loud
  <1>20. CASE Finds
    <2>1. Joins(TaskOf("resurrect"))
      BY <1>20, <1>4, TaskJoins DEF Finds, Ops
    <2> QED
      BY <1>20, <2>1, <1>1, <1>2, <1>3, <1>4 DEF Finds, Same, Joins, PlacesShape, Quiet,
         Verdicts, Ops, CalmStart, EndedOnce, OverIsQuiet, StopsInLine, Revival,
         RunningIsServed, Loud
  <1> QED
    BY <1>5, <1>6, <1>7, <1>8, <1>9, <1>10, <1>11, <1>12, <1>13, <1>14, <1>15, <1>16,
       <1>17, <1>18, <1>19, <1>20, <1>0 DEF CalmStep

\* Each action leaves a tmux session with a generation, or with something that
\* is going to kill it, to make it or to find it.
LEMMA TmuxIsServedStep ==
  ASSUME Typed, RecordShape, RunnerShape, CalmInv, Calm, SmoothInv, Smooth, FlawlessInv, Flawless,
         Smooth', Next, ~Restart
  PROVE  TmuxIsServed'
  <1> USE DEF Before
  <1> SUFFICES ASSUME tmux' # 0 PROVE TmuxIsServed'
    BY DEF TmuxIsServed
  <1>1. /\ TmuxIsServed /\ ClientShape /\ RuntimeShape /\ OneMaking /\ SessionSeen /\ watcher = "idle"
        /\ gen \in Nat /\ last \in Nat /\ kills \in Nat /\ stopping \in BOOLEAN /\ at \in Stages
        /\ client \in {"none", "up", "forced"} /\ isTmux \in BOOLEAN
        /\ runtime = "direct" \/ runtime = "tmux"
        /\ \A c \in creates : c.gen # 0
    BY DEF FlawlessInv, SmoothInv, RunnerShape, Typed, TypeOK, CalmInv, Creation
  <1>2. /\ Running("resurrect") => res = "wait" /\ rec = "running"
        /\ Running("resurrect") /\ at = "start" => gen = 0
        /\ \A op \in Ops : res # "done" /\ Running(op) => op = "resurrect"
        /\ res \in {"probe", "reap", "queue"} => snapshot.rec = rec
        /\ res # "done" => creator = "done"
    BY PlacesTyped DEF CalmInv, Revival, CalmStart, PlacesShape, Typed, TypeOK, TurnShape, Ops
  <1>3. ~Happens("attach")
    BY DEF Happens, Happen, Smooth, Spared, FaultNames
  <1>4. ASSUME Run \/ RunFails \/ Attach \/ AttachFails
        PROVE  TmuxIsServed'
    <2>1. CASE Run
      BY <2>1, <1>1 DEF Run, NewGeneration, TmuxIsServed, Loud
    <2>2. CASE RunFails
      BY <2>2, <1>1 DEF RunFails, server, RuntimeShape
    <2>3. CASE Attach
      BY <2>3, <1>1 DEF Attach, NewGeneration, TmuxIsServed, Loud
    <2>4. CASE AttachFails
      BY <2>4, <1>3 DEF AttachFails
    <2> QED
      BY <1>4, <2>1, <2>2, <2>3, <2>4
  <1>5. CASE Creating
    <2>1. PICK c \in creates : \/ CreateKills(c) \/ CreateNew(c) \/ Superseded(c) \/ CreatedLate(c)
                              \/ Created(c) \/ CreateFailed(c)
      BY <1>5, Zenon DEF Creating
    <2>2. c.gen = gen /\ gen # 0 /\ (c.at \in {"new", "failed"} => tmux = 0)
      BY <1>1 DEF OneMaking
    <2>3. CASE CreateKills(c)
      BY <2>3 DEF CreateKills
    <2>4. CASE CreateNew(c)
      <3>1. creates' # {}
        BY <2>4 DEF CreateNew, Moves
      <3> QED
        BY <3>1 DEF TmuxIsServed
    <2>5. CASE Superseded(c)
      BY <2>5, <2>2 DEF Superseded
    <2>6. CASE CreatedLate(c)
      BY <2>6, <1>1 DEF CreatedLate, TmuxIsServed
    <2>7. CASE Created(c)
      BY <2>7, <2>2 DEF Created, TmuxIsServed, Loud
    <2>8. CASE CreateFailed(c)
      BY <2>8, <2>2, <1>3 DEF CreateFailed
    <2> QED
      BY <2>1, <2>3, <2>4, <2>5, <2>6, <2>7, <2>8
  <1>6. CASE ExitReported
    BY <1>6, <1>3 DEF ExitReported, server
  <1>7. CASE ExitStopped \/ ForceStop \/ KillRuns \/ CommandEnds
    BY <1>7, <1>1 DEF ExitStopped, ForceStop, KillRuns, CommandEnds, disk, server, revival,
       TmuxIsServed, Loud
  <1>8. CASE WriteStopped \/ WriteEnded \/ RetryRefused \/ RetrySaves \/ RetryUnpublished
    BY <1>8, <1>1, <1>2 DEF WriteStopped, WriteEnded, RetryRefused, RetrySaves, RetryUnpublished,
       runner, server, revival, TmuxIsServed, Loud, Ops
  <1>9. CASE RemoveRefused \/ RemoveArchives \/ RemoveDeletes
    <2>1. Running("remove") \/ Running("clear")
      BY <1>9 DEF RemoveRefused, RemoveArchives, RemoveDeletes, Typed, TurnShape
    <2>2. res = "done"
      BY <2>1, <1>2 DEF Ops
    <2> QED
      BY <1>9, <2>2, <1>1 DEF RemoveRefused, RemoveArchives, RemoveDeletes, runner, server, revival,
         TmuxIsServed, Loud
  <1>10. ASSUME StopRunner, UNCHANGED res, res = "done" \/ UNCHANGED <<at, rec>>
         PROVE  TmuxIsServed'
    <2>1. tmux' = tmux /\ creates' = creates /\ gen' = gen
          /\ kills' = kills + (IF isTmux \/ Orphaned THEN 1 ELSE 0)
      BY <1>10 DEF StopRunner
    <2>2. kills > 0 \/ Loud => kills' > 0
      BY <2>1, <1>1 DEF Loud, RuntimeShape
    <2> QED
      BY <2>1, <2>2, <1>1, <1>10 DEF TmuxIsServed
  <1>11. CASE RemoveStops
    <2>1. res = "done"
      BY <1>11, <1>2 DEF RemoveStops, Ops
    <2> QED
      BY <2>1, <1>10, <1>11 DEF RemoveStops, revival
  <1>12. CASE Stop
    BY <1>10, <1>12 DEF Stop, disk, revival
  <1>13. CASE LeftAlone
    BY <1>13, <1>1, <1>2 DEF LeftAlone, ClientShape
  <1>14. CASE ReattachPublished \/ ResurrectFails
    BY <1>14, <1>1, <1>2 DEF ReattachPublished, ResurrectFails, runner, server, TmuxIsServed, Loud
  <1>15. CASE Resumes \/ MarkedDead
    BY <1>15 DEF Resumes, MarkedDead, server
  <1>16. ~Bury
    BY PlacesTyped DEF Bury, CalmInv, Revival, PlacesShape
  <1>17. CASE RetryRuns \/ ResumeRuns \/ CreateRuns \/ Reattaches
    BY <1>17, <1>4 DEF RetryRuns, ResumeRuns, CreateRuns, Reattaches
  <1>18. CASE WatchAttaches
    BY <1>18, <1>1 DEF WatchAttaches
  <1>19. CASE CreateSaves
    BY <1>19, <1>1, <1>2 DEF CreateSaves, runner, server, revival, TmuxIsServed, Loud
  <1>20. CASE (\E op \in {"retry", "remove", "clear"} : Ask(op)) \/ WatchLoads
    BY <1>20, <1>1 DEF Ask, WatchLoads, disk, runner, server, revival, TmuxIsServed, Loud
  <1>21. CASE ListRecords \/ ListTmux
    BY <1>21 DEF ListRecords, ListTmux, TmuxIsServed
  <1>22. CASE Reap
    <2>1. res = "reap" /\ res' = "queue" /\ UNCHANGED <<rec, at>> /\ tmux # 0 /\ ~(snapshot.tmux /\ Dead)
      BY <1>22 DEF Reap, disk
    <2>2. snapshot.tmux
      BY <2>1, <1>1 DEF SessionSeen
    <2>3. rec \notin Verdicts /\ (tomb => rec = "running") /\ rec # "none"
      BY <2>1, <2>2, <1>2 DEF Dead, RecordShape
    <2>4. rec = "running"
      BY <2>3 DEF RecordShape, Typed, TypeOK, Statuses
    <2>5. at = "start"
      BY <2>1, <1>1, <1>2 DEF Stages, Typed, TurnShape, Ops
    <2> QED
      BY <2>1, <2>4, <2>5 DEF TmuxIsServed
  <1>23. CASE Resurrect
    BY <1>23, <1>1, <1>2 DEF Resurrect, disk, runner, server, TmuxIsServed, Loud
  <1> QED
    BY <1>5, <1>6, <1>7, <1>8, <1>9, <1>11, <1>12, <1>13, <1>14, <1>15, <1>16, <1>17, <1>18, <1>19,
       <1>20, <1>21, <1>22, <1>23 DEF Next, Queued, Exits, Reviving

-----------------------------------------------------------------------------
(* While no command comes as a bridge starts.                              *)

\* Until it has its records revived nothing is written but the end of a client.
Starting == res \in {"list", "probe", "reap", "queue"}
Unwritten ==
  /\ creator = "done"
  /\ \A op \in Ops \ {"ended"} : Places(op) = {}
  /\ res # "list" /\ rec = "running" => snapshot.rec = "running"
StartInv == Spared({"racing"}) /\ Starting => Unwritten

\* What it does meanwhile.
Meanwhile == Starting' =>
  /\ Stays \/ Left \/ \E t \in Task : t.op = "ended" /\ queue' = Append(queue, t)
  /\ rec' \in {rec} \cup Verdicts /\ creator' = creator
  /\ \/ res' = res /\ snapshot' = snapshot
     \/ res' # "list" /\ rec' = rec /\ snapshot'.rec \in {rec, snapshot.rec}
        /\ (res = "list" => snapshot'.rec = rec)

\* Each action of a starting bridge writes an end, looks, or does neither.
LEMMA StartSteps ==
  ASSUME Typed, RecordShape, Unwritten, Starting, Spared({"racing"})', Next
  PROVE  Restart \/ Meanwhile
  <1>1. /\ \A op \in Ops \ {"ended"} : ~Running(op)
        /\ at = "start" /\ creator = "done" /\ res # "done"
        /\ gen \in Nat /\ last \in Nat
        /\ snapshot \in [rec : Statuses, tmux : BOOLEAN]
        /\ queue # << >> => Head(queue).verdict \in Verdicts
    <2>1. \A op \in Ops \ {"ended"} : ~Running(op)
      BY PlacesTyped DEF PlacesShape, Unwritten
    <2>2. at = "start"
      BY <2>1 DEF Typed, TypeOK, TurnShape, Stages, Ops
    <2>3. ASSUME queue # << >> PROVE Head(queue) \in Task
      BY <2>3, TailPops DEF Typed, TypeOK, Popped
    <2> QED
      BY <2>1, <2>2, <2>3 DEF Typed, TypeOK, Task, Starting, Unwritten
  <1>2. \A op : ~Commanded(op)
    BY <1>1 DEF Commanded, Happen, Spared
  <1>3. \A v \in Verdicts : \A g \in Nat : Ended(v, g) \in Task /\ Ended(v, g).op = "ended"
    BY DEF Ended, Task
  <1>4. /\ ~WriteStopped /\ ~RetryRefused /\ ~RetrySaves /\ ~RetryUnpublished /\ ~RetryRuns
        /\ ~RemoveRefused /\ ~RemoveStops /\ ~RemoveArchives /\ ~RemoveDeletes
        /\ ~LeftAlone /\ ~Reattaches /\ ~ReattachPublished /\ ~Resumes /\ ~ResumeRuns
    BY <1>1 DEF WriteStopped, RetryRefused, RetrySaves, RetryUnpublished, RetryRuns, RemoveRefused,
       RemoveStops, RemoveArchives, RemoveDeletes, LeftAlone, Reattaches, ReattachPublished, Resumes,
       ResumeRuns, Ops
  <1>5. ~MarkedDead /\ ~ResurrectFails /\ ~Bury /\ ~CreateSaves /\ ~CreateRuns /\ ~Stop
        /\ ~\E op \in {"retry", "remove", "clear"} : Ask(op)
    BY <1>1, <1>2 DEF MarkedDead, ResurrectFails, Bury, CreateSaves, CreateRuns, Stop, Ask, Ops
  <1>6. CASE Creating
    <2>1. PICK c \in creates : \/ CreateKills(c) \/ CreateNew(c) \/ Superseded(c) \/ CreatedLate(c)
                              \/ Created(c) \/ CreateFailed(c)
      BY <1>6, Zenon DEF Creating
    <2>2. queue' = queue \/ queue' = Append(queue, Ended("error", gen))
      BY <2>1 DEF CreateKills, CreateNew, Superseded, CreatedLate, Created, CreateFailed
    <2>3. UNCHANGED <<rec, creator, res, snapshot>>
      BY <2>1 DEF CreateKills, CreateNew, Superseded, CreatedLate, Created, CreateFailed, disk, revival
    <2> QED
      BY <2>2, <2>3, <1>1, <1>3 DEF Meanwhile, Stays, Verdicts
  <1>7. CASE ExitReported
    <2>1. UNCHANGED <<rec, creator, res, snapshot>>
      BY <1>7 DEF ExitReported, disk, revival
    <2>2. PICK v \in (IF tmux = 0 THEN Verdicts ELSE {"error"}) : queue' = Append(queue, Ended(v, gen))
      BY <1>7, Zenon DEF ExitReported, Enqueue
    <2>3. v \in Verdicts
      BY DEF Verdicts
    <2> QED
      BY <2>1, <2>2, <2>3, <1>1, <1>3 DEF Meanwhile
  <1>8. CASE ExitStopped \/ ForceStop \/ KillRuns \/ CommandEnds \/ WatchLoads
    BY <1>8 DEF ExitStopped, ForceStop, KillRuns, CommandEnds, WatchLoads, disk, revival, Meanwhile, Stays
  <1>9. CASE WriteEnded
    <2>1. UNCHANGED <<creator, res, snapshot>> /\ Left
      BY <1>9 DEF WriteEnded, Running, Finish, Left, revival
    <2>2. rec' \in {rec} \cup Verdicts
      BY <1>9, <1>1 DEF WriteEnded, Running, Save
    <2> QED
      BY <2>1, <2>2 DEF Meanwhile
  <1>10. CASE WatchAttaches
    <2>1. UNCHANGED <<rec, creator, res, snapshot>>
      BY <1>10 DEF WatchAttaches, disk, revival
    <2>2. queue' = queue \/ queue' = Append(queue, Ended("error", last + 1))
      BY <1>10 DEF WatchAttaches, Enqueue
    <2> QED
      BY <2>1, <2>2, <1>1, <1>3 DEF Meanwhile, Stays, Verdicts
  <1>11. CASE ListRecords \/ ListTmux \/ Reap
    BY <1>11, <1>1 DEF ListRecords, ListTmux, Reap, Starting, disk, Meanwhile, Stays
  <1>12. CASE Resurrect
    BY <1>12 DEF Resurrect, Starting, Meanwhile, Stays
  <1> QED
    BY <1>4, <1>5, <1>6, <1>7, <1>8, <1>9, <1>10, <1>11, <1>12 DEF Next, Queued, Exits, Reviving

\* A bridge begins to look at its records only as it starts.
LEMMA StartsAtRestart ==
  ASSUME Typed, Next, Starting'
  PROVE  Restart \/ Starting
  <1>1. CASE Creating
    BY <1>1 DEF Creating, CreateKills, CreateNew, Superseded, CreatedLate,
       Created, CreateFailed, Starting, revival
  <1>2. CASE ExitStopped \/ ExitReported \/ ForceStop \/ KillRuns \/ CommandEnds
    BY <1>2 DEF ExitStopped, ExitReported, ForceStop, KillRuns, CommandEnds,
       Starting, revival
  <1>3. CASE WriteStopped \/ WriteEnded \/ RetryRefused \/ RetrySaves \/
            RetryUnpublished
    BY <1>3 DEF WriteStopped, WriteEnded, RetryRefused, RetrySaves,
       RetryUnpublished, Starting, revival
  <1>4. CASE RemoveRefused \/ RemoveStops \/ RemoveArchives \/ RemoveDeletes
    BY <1>4 DEF RemoveRefused, RemoveStops, RemoveArchives, RemoveDeletes,
       Starting, revival
  <1>5. CASE LeftAlone \/ ReattachPublished \/ Resumes \/ MarkedDead \/ Bury \/
            ResurrectFails
    BY <1>5 DEF LeftAlone, ReattachPublished, Resumes, MarkedDead, Bury,
       ResurrectFails, Starting, revival
  <1>6. CASE RetryRuns \/ ResumeRuns \/ CreateRuns \/ Reattaches \/ WatchAttaches
    BY <1>6 DEF RetryRuns, ResumeRuns, CreateRuns, Reattaches,
       WatchAttaches, Starting, revival
  <1>7. CASE CreateSaves \/ Stop \/ (\E op \in {"retry", "remove", "clear"} :
            Ask(op)) \/ WatchLoads
    BY <1>7 DEF CreateSaves, Stop, Ask, WatchLoads, Starting, revival
  <1>8. CASE ListRecords \/ ListTmux \/ Reap \/ Resurrect
    BY <1>8 DEF ListRecords, ListTmux, Reap, Resurrect, Starting, revival
  <1>9. CASE Restart
    BY <1>9
  <1> QED
    BY <1>1, <1>2, <1>3, <1>4, <1>5, <1>6, <1>7, <1>8, <1>9 DEF Next,
       Queued, Creating, Exits, Reviving

\* So what it saw running is all that can be running.
LEMMA StartNext ==
  ASSUME Typed, Typed', RecordShape, StartInv, [Next]_vars
  PROVE  StartInv'
  <1>1. CASE Restart
    <2>1. res' = "list" /\ creator' = "done" /\ \A op : Places(op)' = {}
      BY <1>1 DEF Restart, Places
    <2> QED
      BY <2>1 DEF StartInv, Unwritten
  <1>2. CASE UNCHANGED vars
    BY <1>2 DEF vars, disk, revival, bounds, StartInv, Spared, Starting, Unwritten, Places
  <1>3. CASE Next /\ ~Restart
    <2> SUFFICES ASSUME Spared({"racing"})', Starting' PROVE Unwritten'
      BY DEF StartInv
    <2>1. Starting /\ Spared({"racing"})
      BY <1>3, StartsAtRestart, MishapsStay DEF Spared
    <2>2. Unwritten /\ Meanwhile
      BY <1>3, <2>1, StartSteps DEF StartInv
    <2>3. \A op \in Ops \ {"ended"} : Places(op)' = {}
      <3>1. CASE Stays
        BY <3>1, <2>2 DEF Stays, Places, Unwritten
      <3>2. CASE Left
        <4>1. Leaves
          BY <3>2, TaskLeaves DEF Left
        <4> QED
          BY <4>1, <2>2 DEF Leaves, Unwritten
      <3>3. CASE \E t \in Task : t.op = "ended" /\ queue' = Append(queue, t)
        <4>1. PICK t \in Task : t.op = "ended" /\ queue' = Append(queue, t)
          BY <3>3
        <4>2. Joins(t)
          BY <4>1, TaskJoins
        <4> QED
          BY <4>1, <4>2, <2>2 DEF Joins, Unwritten
      <3> QED
        BY <3>1, <3>2, <3>3, <2>2 DEF Meanwhile
    <2> QED
      BY <2>2, <2>3 DEF Meanwhile, Unwritten, Verdicts
  <1> QED
    BY <1>1, <1>2, <1>3

-----------------------------------------------------------------------------
(* The inductive invariant, and the properties. *)

Inv == Typed /\ RecordShape /\ RunnerShape /\ CalmInv /\ SmoothInv /\ FlawlessInv /\ StartInv

\* The invariant holds at first;
LEMMA InvInit == Init => Inv
  <1> SUFFICES ASSUME Init PROVE Inv
    OBVIOUS
  <1>1. Typed
    BY TypedInit
  <1>2. /\ rec = "none" /\ at = "start" /\ ~retired /\ ~tomb /\ creator = "idle" /\ watcher = "idle"
        /\ gen = 0 /\ last = 0 /\ ~stopping /\ ~isTmux /\ client = "none" /\ res = "done"
        /\ tmux = 0 /\ kills = 0 /\ creates = {} /\ strays = {}
        /\ \A op : \A i : i \notin Places(op)
        /\ queue = << >>
    BY DEF Init, Places
  <1>3. RecordShape /\ RunnerShape
    BY <1>2 DEF RecordShape, RunnerShape, ClientShape, MakingShape, RuntimeShape, Loud
  <1>4. CalmInv
    BY <1>2 DEF CalmInv, CalmStart, EndedOnce, OverIsQuiet, StopsInLine, Revival, Quiet, Verdicts
  <1>5. SmoothInv /\ FlawlessInv /\ StartInv
    BY <1>2 DEF StartInv, Starting, SmoothInv, OneMaking, FailedIsOver, SessionSeen, FlawlessInv, RunningIsServed,
       TmuxIsServed
  <1> QED
    BY <1>1, <1>3, <1>4, <1>5 DEF Inv

\* and each step keeps it: a restart re-establishes what the new bridge can
\* assume, any other keeps what the bridge could.
LEMMA InvNext == Inv /\ [Next]_vars => Inv'
  <1> SUFFICES ASSUME Inv, [Next]_vars PROVE Inv'
    OBVIOUS
  <1>1. Typed' /\ RecordShape' /\ RunnerShape'
    BY TypedStep, RecordStep, ClientStep, MakingStep, RuntimeStep DEF Inv, RunnerShape
  <1>2. CalmInv'
    BY <1>1, CalmNext DEF Inv
  <1>a. StartInv'
    BY <1>1, StartNext DEF Inv
  <1>3. CASE UNCHANGED vars
    <2>1. UNCHANGED <<rec, queue, at, creator, res, snapshot, gen, stopping, client, tmux, kills, creates, mishaps>>
      BY <1>3 DEF vars, disk, revival, runner, server, bounds
    <2> QED
      BY <2>1, <1>1, <1>2, <1>a DEF Inv, SmoothInv, Smooth, Spared, OneMaking, FailedIsOver, SessionSeen, Before,
         FlawlessInv, Flawless, RunningIsServed, TmuxIsServed, Places, Loud
  <1>4. CASE Restart
    <2>1. /\ queue' = << >> /\ at' = "start" /\ gen' = 0 /\ creates' = {} /\ res' = "list"
          /\ \A op : \A i : i \notin Places(op)'
      BY <1>4 DEF Restart, Places
    <2> QED
      BY <2>1, <1>1, <1>2, <1>a DEF Inv, SmoothInv, OneMaking, FailedIsOver, SessionSeen, Before,
         FlawlessInv, RunningIsServed, TmuxIsServed
  <1>5. CASE Next /\ ~Restart
    <2>1. ASSUME Smooth' PROVE OneMaking' /\ FailedIsOver' /\ SessionSeen' /\ Smooth /\ Calm /\ Calm'
      <3>1. Smooth /\ Calm
        BY <2>1, <1>5, SmoothIsCalm DEF Inv
      <3>2. Calm'
        BY <2>1 DEF Smooth, Calm, Spared, FaultNames
      <3>3. OneMaking'
        BY <2>1, <3>1, <1>5, OneMakingStep DEF Inv, SmoothInv
      <3>4. FailedIsOver' /\ SessionSeen'
        BY <2>1, <3>1, <3>2, <1>1, <1>2, <1>5, FailedIsOverStep DEF Inv
      <3> QED
        BY <3>1, <3>2, <3>3, <3>4
    <2>2. ASSUME Flawless' PROVE RunningIsServed' /\ TmuxIsServed'
      <3>1. Flawless /\ Smooth'
        <4>1. Flawless
          BY <2>2, <1>5, SmoothIsCalm DEF Inv
        <4>2. Smooth'
          BY <2>2 DEF Smooth, Flawless, Spared, FaultNames
        <4> QED
          BY <4>1, <4>2
      <3>2. Smooth /\ Calm /\ Calm'
        BY <2>1, <3>1
      <3>3. RunningIsServed'
        BY <2>2, <3>1, <3>2, <1>1, <1>5, RunningIsServedStep DEF Inv
      <3>4. TmuxIsServed'
        BY <3>1, <3>2, <1>5, TmuxIsServedStep DEF Inv
      <3> QED
        BY <3>3, <3>4
    <2> QED
      BY <2>1, <2>2, <1>1, <1>2, <1>a DEF Inv, SmoothInv, FlawlessInv
  <1> QED
    BY <1>3, <1>4, <1>5

\* It is an invariant, for any runtime and any numbers of faults, commands,
\* restarts and reattachments.
LEMMA InvHolds == Spec => []Inv
  BY InvInit, InvNext, PTL DEF Spec

\* Type correctness.
THEOREM TypesHold == Spec => []TypeOK
  <1>1. Inv => TypeOK
    BY DEF Inv, Typed
  <1> QED
    BY <1>1, InvHolds, PTL

\* The verdict of an exit handler is never written over a newer process: while
\* it waits in line no process is started (terminal-pump.ts:173), unless a
\* command comes at a bad moment or a viewer adopts the session.
THEOREM LatestSpared == Spec => []VerdictOfTheLatest
  <1>1. Inv => VerdictOfTheLatest
    <2> SUFFICES ASSUME Inv, Running("ended"), Calm PROVE gen = 0
      BY DEF VerdictOfTheLatest, Calm
    <2> QED
      BY PlacesTyped DEF Inv, PlacesShape, CalmInv, EndedOnce
  <1> QED
    BY <1>1, InvHolds, PTL

\* Once things rest, record and process agree: what says running has a client,
\* what says anything else has neither process nor tmux session, in whatever
\* order kills, creations, exits and commands took effect and however often the
\* bridge was restarted (claude-runner.ts:164-205, session-resurrection.ts:96).
THEOREM RestIsTrue == Spec => []SettledAgrees
  <1>1. Inv => SettledAgrees
    <2> SUFFICES ASSUME Inv, Settled, Flawless
                 PROVE  IF rec = "running" THEN client = "up" ELSE ~Alive
      BY DEF SettledAgrees, Flawless
    <2>1. Smooth /\ Calm
      BY DEF Flawless, Smooth, Calm, Spared, FaultNames
    <2>2. /\ queue = << >> /\ kills = 0 /\ creates = {} /\ creator # "staggering" /\ res = "done"
          /\ ~stopping /\ strays = {} /\ at = "start"
          /\ \A op \in Ops : Places(op) = {}
      BY <2>1, PlacesTyped DEF Inv, Settled, CalmInv, Typed, TypeOK, TurnShape, Running, Stages, PlacesShape
    <2>3. ASSUME Loud PROVE rec = "running" /\ client = "up"
      <3>1. rec \notin Verdicts \cup {"gone"} /\ rec # "none"
        BY <2>1, <2>3 DEF Inv, CalmInv, OverIsQuiet, CalmStart, RecordShape, Loud, Quiet
      <3>2. rec = "running"
        BY <3>1 DEF Inv, Typed, TypeOK, Statuses
      <3> QED
        BY <3>2, <2>2, <2>3 DEF Inv, RunnerShape, MakingShape
    <2>4. CASE rec = "running"
      <3>1. Loud
        BY <2>2, <2>4 DEF Inv, FlawlessInv, RunningIsServed, Ops
      <3> QED
        BY <3>1, <2>3, <2>4
    <2>5. CASE rec # "running"
      <3>1. gen = 0
        BY <2>2, <2>3, <2>5 DEF Loud
      <3>2. client = "none"
        BY <3>1, <2>2 DEF Inv, RunnerShape, ClientShape, Typed, TypeOK
      <3>3. tmux = 0
        BY <3>1, <2>2, <2>5 DEF Inv, FlawlessInv, TmuxIsServed, Before, Loud
      <3> QED
        BY <3>2, <3>3, <2>2, <2>5 DEF Alive
    <2> QED
      BY <2>4, <2>5
  <1> QED
    BY <1>1, InvHolds, PTL

\* A starting bridge kills no tmux session of a record that is running, though
\* it decides by what it has read some awaits ago, through failed publications,
\* viewers and ends meanwhile (session-resurrection.ts:122-157).
THEOREM ReapingSpares == Spec => ReapSpares
  <1>1. Inv /\ [Next]_vars => [(Reap /\ tmux' # tmux /\ Spared({"racing"})) => rec # "running"]_vars
    <2> SUFFICES ASSUME Inv, Reap, tmux' # tmux, Spared({"racing"}), rec = "running" PROVE FALSE
      OBVIOUS
    <2>1. res = "reap" /\ Dead
      BY DEF Reap
    <2>2. snapshot.rec = "running"
      BY <2>1 DEF Inv, StartInv, Starting, Unwritten
    <2> QED
      BY <2>1, <2>2 DEF Dead, Verdicts
  <1> QED
    BY <1>1, InvHolds, PTL DEF Spec, ReapSpares

\* How a run ended is not written anew.
LEMMA VerdictStep ==
  ASSUME Inv, Next, rec \in Verdicts, Smooth
  PROVE  rec' \in {rec, "running", "gone"}
  <1>0. /\ ~Running("ended") /\ ~Running("bury") /\ (Running("stopped") => rec = "completed")
        /\ rec # "running" /\ rec # "none" /\ rec # "gone"
    <2>1. Calm
      BY DEF Smooth, Calm, Spared, FaultNames
    <2>2. EndedOnce /\ Places("bury") = {} /\ FailedIsOver
      BY <2>1 DEF Inv, CalmInv, Revival, SmoothInv
    <2> QED
      BY <2>2, PlacesTyped DEF Inv, PlacesShape, EndedOnce, FailedIsOver, Verdicts
  <1>1. CASE Creating
    BY <1>1, <1>0 DEF Creating, CreateKills, CreateNew, Superseded,
       CreatedLate, Created, CreateFailed, disk
  <1>2. CASE ExitStopped \/ ExitReported \/ ForceStop \/ KillRuns \/ CommandEnds
    BY <1>2, <1>0 DEF ExitStopped, ExitReported, ForceStop, KillRuns,
       CommandEnds, disk
  <1>3. CASE RetryRefused \/ RetrySaves \/ RetryUnpublished
    BY <1>3, <1>0 DEF RetryRefused, RetrySaves, Save, RetryUnpublished, disk
  <1>4. CASE WriteStopped
    BY <1>4, <1>0 DEF WriteStopped, Save
  <1>5. CASE WriteEnded
    BY <1>5, <1>0 DEF WriteEnded
  <1>6. CASE RemoveRefused \/ RemoveStops \/ RemoveArchives \/ RemoveDeletes
    BY <1>6, <1>0 DEF RemoveRefused, RemoveStops, Stored, RemoveArchives,
       RemoveDeletes, disk
  <1>7. CASE LeftAlone \/ ReattachPublished \/ Resumes \/ MarkedDead \/
            ResurrectFails
    BY <1>7, <1>0 DEF LeftAlone, ReattachPublished, Resumes, Save,
       MarkedDead, ResurrectFails, disk
  <1>8. CASE Bury
    BY <1>8, <1>0 DEF Bury
  <1>9. CASE RetryRuns \/ ResumeRuns \/ CreateRuns \/ Reattaches \/ WatchAttaches
    BY <1>9, <1>0 DEF RetryRuns, ResumeRuns, CreateRuns, Reattaches, Save,
       WatchAttaches, disk
  <1>10. CASE CreateSaves \/ Stop \/ (\E op \in {"retry", "remove", "clear"} :
            Ask(op)) \/ WatchLoads
    BY <1>10, <1>0 DEF CreateSaves, Save, Stop, Ask, WatchLoads, disk
  <1>11. CASE Restart \/ ListRecords \/ ListTmux \/ Reap \/ Resurrect
    BY <1>11, <1>0 DEF Restart, ListRecords, ListTmux, Reap, Resurrect, disk
  <1> QED
    BY <1>1, <1>2, <1>3, <1>4, <1>5, <1>6, <1>7, <1>8, <1>9, <1>10, <1>11 DEF Next, Queued, Creating, Exits, Reviving

\* A run that has ended keeps its verdict until it is relaunched or removed: a
\* stopped one does not turn into a failed one when its process exits, nor a
\* failed one into a completed one by a stop (claude-runner.ts:356).
THEOREM VerdictStands == Spec => FirstVerdictStands
  <1>1. Inv /\ [Next]_vars =>
          [(rec \in Verdicts /\ Smooth) => (rec' \in {rec, "running", "gone"})]_vars
    <2> SUFFICES ASSUME Inv, Next, rec \in Verdicts, Smooth PROVE rec' \in {rec, "running", "gone"}
      OBVIOUS
    <2> QED
      BY VerdictStep
  <1> QED
    BY <1>1, InvHolds, PTL DEF Spec, FirstVerdictStands, Smooth
=============================================================================
