-------------------------- MODULE SessionLifecycle --------------------------
(***************************************************************************)
(* One agent session of the bridge: the record on disk, the queue of       *)
(* writes that serialises its commands, the generations of processes the   *)
(* runner starts for it, and the tmux server that keeps a command alive    *)
(* while bridges come and go (session-controller.ts, claude-runner.ts,     *)
(* terminal-pump.ts, create-ftown-session.ts, remove-ftown-session.ts,     *)
(* session-resurrection.ts, tmux.ts).                                      *)
(*                                                                         *)
(* Retry, removal, exit handlers and resurrection queue behind one         *)
(* another; creating, stopping and a watcher's reattachment do not.  tmux  *)
(* commands are child processes: a kill or a new-session takes effect some *)
(* time after it was started, on whatever then bears the session's name.   *)
(***************************************************************************)
EXTENDS Naturals, Sequences, FiniteSets

CONSTANTS
    Runtimes,       \* what getPreferredRuntime may answer: "tmux", "direct"
    Faults,         \* what may go wrong, or come at a bad moment; see FaultNames
    MaxFaults,      \* bound: kinds of them between two starts
    MaxCommands,    \* bound: commands of the user
    MaxRestarts,    \* bound: restarts of the bridge
    MaxWatches      \* bound: reattachments for a viewer

FaultNames ==
  { "spawn",   \* a process cannot be started
    "attach",  \* nor the client of a tmux session
    "publish", \* an update cannot be published
    "slow",    \* a tmux command takes longer than the way to the next launch
    "archive", \* the tombstone cannot be written
    "watch",   \* a viewer asks for a session that has no attached client
    "early",   \* a stop or a removal comes while a launch is in line or under way
    "racing" } \* commands come while a started bridge still resurrects

ASSUME LifecycleAssumption ==
  /\ Runtimes \subseteq {"tmux", "direct"}
  /\ Faults \subseteq FaultNames
  /\ MaxFaults \in Nat /\ MaxCommands \in Nat /\ MaxRestarts \in Nat /\ MaxWatches \in Nat

VARIABLES
    runtime,    \* the runtime of this machine
    rec,        \* the record's status; "none" before creation, "gone" after removal
    tomb,       \* archive.jsonl holds a tombstone
    retired,    \* retiredSessionIds holds the id: nothing is saved any more
    queue, at,  \* sessionWrites: the tasks in line, and how far the first has come
    creator,    \* create: "idle", "staggering" or "done"
    watcher,    \* a watcher's reattachment: "idle" or "loaded"
    res,        \* resurrectSessions: "listed", ..., "done"
    snapshot,   \* what it has read: status and whether tmux was alive
    gen, last,  \* the current generation (0: none), and the number of them all
    stopping,   \* that generation is being stopped
    client,     \* its PTY in activeProcesses: "none", "up", or "forced" out of it
    isTmux,     \* runtimes says 'tmux'
    tmux,       \* tmux server: the generation whose command runs in the session, 0: none
    kills,      \* kill-session commands under way
    creates,    \* createTmuxSession calls under way: whose, and how far
    strays,     \* direct processes the runner has lost track of
    commands, restarts, watches,
    mishaps     \* history: the Faults that have happened since the bridge started

disk    == <<rec, tomb>>
runner  == <<gen, last, stopping, client, isTmux, strays>>
server  == <<tmux, kills, creates>>
revival == <<res, snapshot>>
counts  == <<runtime, commands, restarts, watches>>
bounds  == <<counts, mishaps>>
vars == <<disk, retired, queue, at, creator, watcher, revival, runner, server, bounds>>

Verdicts == {"completed", "error"}
Statuses == {"none", "running", "gone"} \cup Verdicts
Task == [op : {"stopped", "ended", "retry", "remove", "clear", "resurrect", "bury"},
         verdict : Verdicts, gen : Nat]
Creation == [gen : Nat \ {0}, at : {"kill", "new", "born", "failed"}]
Stages == {"start", "launch", "archive", "delete", "publish"}

TypeOK ==
  /\ runtime \in Runtimes
  /\ rec \in Statuses /\ tomb \in BOOLEAN /\ retired \in BOOLEAN
  /\ queue \in Seq(Task) /\ at \in Stages
  /\ creator \in {"idle", "staggering", "done"} /\ watcher \in {"idle", "loaded"}
  /\ res \in {"list", "probe", "reap", "queue", "wait", "done"}
  /\ snapshot \in [rec : Statuses, tmux : BOOLEAN]
  /\ gen \in Nat /\ last \in Nat
  /\ stopping \in BOOLEAN /\ client \in {"none", "up", "forced"} /\ isTmux \in BOOLEAN
  /\ tmux \in Nat /\ kills \in Nat /\ creates \subseteq Creation
  /\ strays \subseteq Nat
  /\ commands \in 0..MaxCommands /\ restarts \in 0..MaxRestarts /\ watches \in 0..MaxWatches /\ mishaps \subseteq Faults

Init ==
  /\ runtime \in Runtimes
  /\ rec = "none" /\ tomb = FALSE /\ retired = FALSE
  /\ queue = << >> /\ at = "start"
  /\ creator = "idle" /\ watcher = "idle"
  /\ res = "done" /\ snapshot = [rec |-> "none", tmux |-> FALSE]
  /\ gen = 0 /\ last = 0 /\ stopping = FALSE /\ client = "none" /\ isTmux = FALSE
  /\ tmux = 0 /\ kills = 0 /\ creates = {} /\ strays = {}
  /\ commands = 0 /\ restarts = 0 /\ watches = 0 /\ mishaps = {}

-----------------------------------------------------------------------------
(* The store and the queue. *)

Stored == rec \notin {"none", "gone"}

\* saveSession writes nothing for an id that was removed.
Save(status) == rec' = IF retired THEN rec ELSE status

\* Some of the Faults happen, or none when the condition is false.
Happen(fs) ==
  /\ fs \subseteq Faults /\ mishaps' = mishaps \cup fs
  /\ fs # {} => Cardinality(mishaps') <= MaxFaults
Happens(f) == Happen({f})
HappensIf(cond, f) == Happen(IF cond THEN {f} ELSE {})

TaskOf(op) == [op |-> op, verdict |-> "error", gen |-> 0]
Enqueue(task) == queue' = Append(queue, task)
\* The 'complete' and 'error' events: flush, and queue the verdict.
Ended(verdict, g) == [op |-> "ended", verdict |-> verdict, gen |-> g]

Running(op) == queue # << >> /\ Head(queue).op = op
Finish == queue' = Tail(queue) /\ at' = "start"

-----------------------------------------------------------------------------
(* The runner. *)

\* A started generation replaces its predecessor, whose PTY is let go of.
NewGeneration ==
  /\ last' = last + 1 /\ gen' = last + 1 /\ stopping' = FALSE

\* run: a tmux session is created asynchronously, a direct process at once.
Run ==
  /\ NewGeneration
  /\ HappensIf(creates # {} \/ kills > 0, "slow")
  /\ isTmux' = (runtime = "tmux")
  /\ client' = IF runtime = "direct" THEN "up" ELSE "none"
  /\ creates' = IF runtime = "tmux" THEN creates \cup {[gen |-> last + 1, at |-> "kill"]}
                ELSE creates
  /\ strays' = IF runtime = "direct" /\ client = "up" /\ ~stopping
                 THEN strays \cup {gen} ELSE strays
  /\ UNCHANGED <<tmux, kills>>

\* run whose spawn throws emits 'error' at once.
RunFails ==
  /\ runtime = "direct" /\ Happens("spawn")
  /\ last' = last + 1
  /\ gen' = 0 /\ stopping' = FALSE /\ client' = "none" /\ isTmux' = FALSE
  /\ strays' = IF client = "up" /\ ~stopping THEN strays \cup {gen} ELSE strays
  /\ UNCHANGED server

\* reattach and attachTmux: a client for the session that is there.
Attach ==
  /\ NewGeneration
  /\ client' = "up" /\ isTmux' = TRUE
  /\ UNCHANGED <<strays, server, mishaps>>

\* pty.spawn of that client throws: 'error' is emitted, the session goes on.
AttachFails ==
  /\ Happens("attach")
  /\ last' = last + 1 /\ gen' = 0 /\ stopping' = FALSE
  /\ client' = "none" /\ isTmux' = FALSE
  /\ UNCHANGED <<strays, server>>

Orphaned == client # "up" /\ ~isTmux /\ tmux # 0

\* What ProcessRunner.stop answers, and what it does.
Stops == client = "up" \/ isTmux \/ Orphaned
\* Mutant: the exit of a stopped process is reported like any other.
StopRunnerLoud ==
  /\ kills' = kills + (IF isTmux \/ Orphaned THEN 1 ELSE 0)
  /\ UNCHANGED <<gen, last, stopping, client, isTmux, strays, tmux, creates>>
StopRunner ==
  /\ stopping' = (stopping \/ (gen # 0 /\ (isTmux \/ client = "up")))
  /\ kills' = kills + (IF isTmux \/ Orphaned THEN 1 ELSE 0)
  /\ UNCHANGED <<gen, last, client, isTmux, strays, tmux, creates>>

\* The generation is over and forgotten.
Forget == gen' = 0 /\ stopping' = FALSE /\ client' = "none" /\ isTmux' = FALSE
          /\ UNCHANGED <<last, strays>>

\* Five seconds after a stop: SIGKILL, and out of activeProcesses.
ForceStop ==
  /\ client = "up" /\ stopping
  /\ client' = "forced"
  /\ UNCHANGED <<disk, retired, queue, at, creator, watcher, revival, gen, last, stopping,
                 isTmux, strays, server, bounds>>

\* onExit, silent for a generation that was stopped.
ExitStopped ==
  /\ client # "none" /\ stopping
  /\ Forget
  /\ UNCHANGED <<disk, retired, queue, at, creator, watcher, revival, server, bounds>>

\* onExit of one that was not: the client goes when the command has ended
\* (while its session lives it is replaced by another client).
ExitReported ==
  /\ client = "up" /\ ~stopping
  /\ \/ tmux = 0 /\ UNCHANGED mishaps
     \/ tmux # 0 /\ Happens("attach")
  /\ \E v \in (IF tmux = 0 THEN Verdicts ELSE {"error"}) : Enqueue(Ended(v, gen))
  /\ Forget
  /\ UNCHANGED <<disk, retired, at, creator, watcher, revival, server, counts>>

\* createTmuxSession: kill what bears the name, then new-session, which refuses
\* a name that is taken.
Moves(c, stage) == creates' = (creates \ {c}) \cup {[c EXCEPT !.at = stage]}
CreateKills(c) ==
  /\ c.at = "kill" /\ Moves(c, "new") /\ tmux' = 0
  /\ UNCHANGED <<disk, retired, queue, at, creator, watcher, revival, runner, kills, bounds>>
CreateNew(c) ==
  /\ c.at = "new"
  /\ \/ tmux = 0 /\ tmux' = c.gen /\ Moves(c, "born") /\ UNCHANGED mishaps
     \/ HappensIf(tmux = 0, "spawn") /\ Moves(c, "failed") /\ UNCHANGED tmux
  /\ UNCHANGED <<disk, retired, queue, at, creator, watcher, revival, runner, kills, counts>>

\* runTmux goes on: a generation that was replaced does nothing, a stopped one
\* kills what it has made, a failed one reports an error.
Superseded(c) ==
  /\ c.at \in {"born", "failed"} /\ gen # c.gen
  /\ creates' = creates \ {c}
  /\ UNCHANGED <<disk, retired, queue, at, creator, watcher, revival, runner, tmux, kills, bounds>>
CreatedLate(c) ==
  /\ c.at = "born" /\ gen = c.gen /\ stopping
  /\ Forget
  /\ creates' = creates \ {c} /\ kills' = kills + 1
  /\ UNCHANGED <<disk, retired, queue, at, creator, watcher, revival, tmux, bounds>>
Created(c) ==
  /\ c.at = "born" /\ gen = c.gen /\ ~stopping
  /\ client' = "up"
  /\ creates' = creates \ {c}
  /\ UNCHANGED <<disk, retired, queue, at, creator, watcher, revival, gen, last, stopping,
                 isTmux, strays, tmux, kills, bounds>>
\* Mutant: a creation that fails is reported to nobody.
CreateFailedSilently(c) ==
  /\ gen = c.gen
  /\ \/ c.at = "failed" /\ UNCHANGED mishaps
     \/ c.at = "born" /\ ~stopping /\ Happens("attach")
  /\ Forget
  /\ creates' = creates \ {c}
  /\ UNCHANGED <<disk, retired, queue, at, creator, watcher, revival, tmux, kills, counts>>
CreateFailed(c) ==
  /\ gen = c.gen
  /\ \/ c.at = "failed" /\ UNCHANGED mishaps
     \/ c.at = "born" /\ ~stopping /\ Happens("attach")
  /\ queue' = IF stopping THEN queue ELSE Append(queue, Ended("error", gen))
  /\ Forget
  /\ creates' = creates \ {c}
  /\ UNCHANGED <<disk, retired, at, creator, watcher, revival, tmux, kills, counts>>

-----------------------------------------------------------------------------
(* The tmux server, and the command itself. *)

KillRuns ==
  /\ kills > 0 /\ kills' = kills - 1 /\ tmux' = 0
  /\ UNCHANGED <<disk, retired, queue, at, creator, watcher, revival, runner, creates, bounds>>
CommandEnds ==
  /\ tmux # 0 /\ tmux' = 0
  /\ UNCHANGED <<disk, retired, queue, at, creator, watcher, revival, runner, kills, creates, bounds>>

-----------------------------------------------------------------------------
(* Creating a session: not in line with the other commands. *)

CreateSaves ==
  /\ creator = "idle" /\ rec = "none"
  /\ Save("running") /\ creator' = "staggering"
  /\ UNCHANGED <<tomb, retired, queue, at, watcher, revival, runner, server, bounds>>
CreateRuns ==
  /\ creator = "staggering" /\ creator' = "done"
  /\ \/ Run /\ UNCHANGED queue
     \/ RunFails /\ Enqueue(Ended("error", last + 1))
  /\ UNCHANGED <<disk, retired, at, watcher, revival, counts>>

-----------------------------------------------------------------------------
(* Commands.  Users know a session once it is published. *)

InLine(op) == \E i \in DOMAIN queue : queue[i].op = op
Launching(op) ==
  creator = "staggering" \/ (op = "stop" /\ (InLine("retry") \/ InLine("resurrect")))
Commanded(op) ==
  /\ commands < MaxCommands /\ commands' = commands + 1
  /\ creator # "idle"
  /\ Happen((IF Launching(op) THEN {"early"} ELSE {}) \cup (IF res # "done" THEN {"racing"} ELSE {}))

\* stop: the process first, and not in line; then the record.
Stop ==
  /\ Commanded("stop") /\ Stops
  /\ StopRunner /\ Enqueue(TaskOf("stopped"))
  /\ UNCHANGED <<disk, retired, at, creator, watcher, revival, runtime, restarts, watches>>

\* retry, remove, and the removal of finished sessions only: all in line.
Ask(op) ==
  /\ Commanded(op) /\ op \in {"retry", "remove", "clear"}
  /\ Enqueue(TaskOf(op))
  /\ UNCHANGED <<disk, retired, at, creator, watcher, revival, runner, server, runtime, restarts, watches>>

WriteStopped ==
  /\ Running("stopped")
  /\ IF Stored THEN Save("completed") ELSE UNCHANGED rec
  /\ Finish
  /\ UNCHANGED <<tomb, retired, creator, watcher, revival, runner, server, bounds>>
WriteEnded ==
  /\ Running("ended")
  /\ IF Stored THEN Save(Head(queue).verdict) ELSE UNCHANGED rec
  /\ Finish
  /\ UNCHANGED <<tomb, retired, creator, watcher, revival, runner, server, bounds>>

RetryRefused ==
  /\ Running("retry") /\ at = "start" /\ rec \notin Verdicts
  /\ Finish
  /\ UNCHANGED <<disk, retired, creator, watcher, revival, runner, server, bounds>>
\* Mutant: a running session can be retried.
RetrySavesAnyway ==
  /\ Running("retry") /\ at = "start" /\ Stored
  /\ Save("running") /\ at' = "launch"
  /\ UNCHANGED <<tomb, retired, queue, creator, watcher, revival, runner, server, bounds>>
RetrySaves ==
  /\ Running("retry") /\ at = "start" /\ rec \in Verdicts
  /\ Save("running") /\ at' = "launch"
  /\ UNCHANGED <<tomb, retired, queue, creator, watcher, revival, runner, server, bounds>>
\* relaunchFtownSession: the publication is not guarded; then the spawn.
RetryUnpublished ==
  /\ Running("retry") /\ at = "launch" /\ Happens("publish")
  /\ Finish
  /\ UNCHANGED <<disk, retired, creator, watcher, revival, runner, server, counts>>
RetryRuns ==
  /\ Running("retry") /\ at = "launch" /\ at' = "start"
  /\ \/ Run /\ queue' = Tail(queue)
     \/ RunFails /\ queue' = Append(Tail(queue), Ended("error", last + 1))
  /\ UNCHANGED <<disk, retired, creator, watcher, revival, counts>>

\* removeFtownSession: stop, tombstone, deletion.
RemoveRefused ==
  /\ Running("clear") /\ at = "start" /\ rec \notin Verdicts
  /\ Finish
  /\ UNCHANGED <<disk, retired, creator, watcher, revival, runner, server, bounds>>
RemoveStops ==
  /\ at = "start"
  /\ Running("remove") \/ (Running("clear") /\ rec \in Verdicts)
  /\ StopRunner
  /\ IF Stored THEN at' = "archive" /\ UNCHANGED queue ELSE Finish
  /\ UNCHANGED <<disk, retired, creator, watcher, revival, bounds>>
RemoveArchives ==
  /\ at = "archive"
  /\ \/ tomb' = TRUE /\ at' = "delete" /\ UNCHANGED <<queue, mishaps>>
     \/ Happens("archive") /\ Finish /\ UNCHANGED tomb
  /\ UNCHANGED <<rec, retired, creator, watcher, revival, runner, server, counts>>
RemoveDeletes ==
  /\ at = "delete"
  /\ retired' = TRUE /\ rec' = "gone" /\ Finish
  /\ UNCHANGED <<tomb, creator, watcher, revival, runner, server, bounds>>

-----------------------------------------------------------------------------
(* A viewer asks for a session alive in tmux without a client here. *)

WatchLoads ==
  /\ watcher = "idle" /\ Happens("watch")
  /\ client # "up" /\ tmux # 0 /\ rec = "running"
  /\ watches < MaxWatches /\ watches' = watches + 1
  /\ watcher' = "loaded"
  /\ UNCHANGED <<disk, retired, queue, at, creator, revival, runner, server, runtime, commands, restarts>>
WatchAttaches ==
  /\ watcher = "loaded" /\ watcher' = "idle"
  /\ \/ (client = "up" \/ tmux = 0) /\ UNCHANGED <<runner, server, queue, mishaps>>
     \/ client # "up" /\ tmux # 0 /\ Attach /\ UNCHANGED queue
     \/ client # "up" /\ tmux # 0 /\ AttachFails /\ Enqueue(Ended("error", last + 1))
  /\ UNCHANGED <<disk, retired, at, creator, revival, counts>>

-----------------------------------------------------------------------------
(* The bridge ends and starts again.  Direct processes end with it; tmux   *)
(* commands that were started may still take effect.                       *)

Restart ==
  /\ restarts < MaxRestarts /\ restarts' = restarts + 1
  /\ creator # "idle" /\ creator' = "done"
  /\ retired' = FALSE /\ queue' = << >> /\ at' = "start" /\ watcher' = "idle"
  /\ gen' = 0 /\ stopping' = FALSE /\ client' = "none" /\ isTmux' = FALSE /\ strays' = {}
  /\ tmux' \in {tmux} \cup (IF kills > 0 THEN {0} ELSE {})
                     \cup (IF tmux = 0 THEN {c.gen : c \in {d \in creates : d.at = "new"}} ELSE {})
  /\ kills' = 0 /\ creates' = {}
  /\ res' = "list" /\ mishaps' = {}
  /\ UNCHANGED <<disk, snapshot, last, runtime, commands, watches>>

ListRecords ==
  /\ res = "list" /\ res' = "probe"
  /\ snapshot' = [snapshot EXCEPT !.rec = rec]
  /\ UNCHANGED <<disk, retired, queue, at, creator, watcher, runner, server, bounds>>
ListTmux ==
  /\ res = "probe" /\ res' = "reap"
  /\ snapshot' = [snapshot EXCEPT !.tmux = (tmux # 0)]
  /\ UNCHANGED <<disk, retired, queue, at, creator, watcher, runner, server, bounds>>

\* Kill the tmux session of a record that is dead in what was read; a live
\* record outranks the tombstone of a removal that was cut off.
\* Mutant: removed sessions are not looked for.
DeadRecorded == snapshot.rec \in Verdicts
\* Mutant: any tombstone counts.
DeadArchived == snapshot.rec \in Verdicts \/ tomb
Dead == snapshot.rec \in Verdicts \/ (tomb /\ snapshot.rec # "running")
Reap ==
  /\ res = "reap" /\ res' = "queue"
  /\ tmux' = IF snapshot.tmux /\ Dead THEN 0 ELSE tmux
  /\ UNCHANGED <<disk, retired, queue, at, creator, watcher, snapshot, runner, kills, creates, bounds>>

Resurrect ==
  /\ res = "queue"
  /\ IF snapshot.rec = "running"
       THEN Enqueue(TaskOf("resurrect")) /\ res' = "wait"
       ELSE UNCHANGED queue /\ res' = "done"
  /\ UNCHANGED <<disk, retired, at, creator, watcher, snapshot, runner, server, bounds>>

\* resurrectSession, in line: fresh state decides, and canResumeStoredSession
\* whether what has no tmux session is resumed or dead.
LeftAlone ==
  /\ Running("resurrect") /\ at = "start" /\ (rec # "running" \/ client = "up")
  /\ Finish /\ res' = "done"
  /\ UNCHANGED <<disk, retired, creator, watcher, snapshot, runner, server, bounds>>
Reattaches ==
  /\ Running("resurrect") /\ at = "start" /\ rec = "running" /\ client # "up" /\ tmux # 0
  /\ \/ Attach /\ UNCHANGED queue
     \/ AttachFails /\ Enqueue(Ended("error", last + 1))
  /\ Save("running") /\ at' = "publish"
  /\ UNCHANGED <<tomb, retired, creator, watcher, revival, counts>>
ReattachPublished ==
  /\ Running("resurrect") /\ at = "publish"
  /\ Finish /\ res' = "done"
  /\ UNCHANGED <<disk, retired, creator, watcher, snapshot, runner, server, bounds>>
Resumes ==
  /\ Running("resurrect") /\ at = "start" /\ rec = "running" /\ client # "up" /\ tmux = 0
  /\ Save("running") /\ at' = "launch"
  /\ UNCHANGED <<tomb, retired, queue, creator, watcher, revival, runner, server, bounds>>
ResumeRuns ==
  /\ Running("resurrect") /\ at = "launch" /\ at' = "start" /\ res' = "done"
  /\ \/ Run /\ queue' = Tail(queue)
     \/ RunFails /\ queue' = Append(Tail(queue), Ended("error", last + 1))
  /\ UNCHANGED <<disk, retired, creator, watcher, snapshot, counts>>
MarkedDead ==
  /\ Running("resurrect") /\ at = "start" /\ rec = "running" /\ client # "up" /\ tmux = 0
  /\ Save("error") /\ Finish /\ res' = "done"
  /\ UNCHANGED <<tomb, retired, creator, watcher, snapshot, runner, server, bounds>>
\* What throws is marked dead in a task of its own.
ResurrectFails ==
  /\ Running("resurrect") /\ at \in {"publish", "launch"} /\ Happens("publish")
  /\ queue' = Append(Tail(queue), TaskOf("bury")) /\ at' = "start"
  /\ UNCHANGED <<disk, retired, creator, watcher, revival, runner, server, counts>>
Bury ==
  /\ Running("bury")
  /\ IF Stored THEN Save("error") ELSE UNCHANGED rec
  /\ Finish /\ res' = "done"
  /\ UNCHANGED <<tomb, retired, creator, watcher, snapshot, runner, server, bounds>>

-----------------------------------------------------------------------------
Queued ==
  \/ WriteStopped \/ WriteEnded
  \/ RetryRefused \/ RetrySaves \/ RetryRuns
  \/ RemoveRefused \/ RemoveStops \/ RemoveArchives \/ RemoveDeletes
  \/ LeftAlone \/ Reattaches \/ ReattachPublished \/ Resumes \/ ResumeRuns \/ MarkedDead \/ Bury
Creating == \E c \in creates :
  CreateKills(c) \/ CreateNew(c) \/ Superseded(c) \/ CreatedLate(c) \/ Created(c) \/ CreateFailed(c)
Exits == ExitStopped \/ ExitReported
Reviving == ListRecords \/ ListTmux \/ Reap \/ Resurrect

Next ==
  \/ Queued \/ RetryUnpublished \/ ResurrectFails
  \/ Creating
  \/ Exits \/ ForceStop \/ KillRuns \/ CommandEnds
  \/ CreateSaves \/ CreateRuns
  \/ Stop \/ \E op \in {"retry", "remove", "clear"} : Ask(op)
  \/ WatchLoads \/ WatchAttaches
  \/ Restart \/ Reviving

Spec == Init /\ [][Next]_vars
FairSpec ==
  /\ Spec
  /\ WF_vars(Queued)
  /\ WF_vars(Exits)
  /\ WF_vars(KillRuns \/ Creating)
  /\ WF_vars(CreateRuns \/ WatchAttaches \/ Reviving)

-----------------------------------------------------------------------------
\* Something of this session runs: its command, or a process nobody knows.
Alive == tmux # 0 \/ (runtime = "direct" /\ client # "none") \/ strays # {}

\* Nothing is under way for it.
Settled ==
  /\ queue = << >> /\ kills = 0 /\ creates = {}
  /\ creator # "staggering" /\ watcher = "idle" /\ res = "done" /\ ~stopping
  /\ client = "up" => (runtime = "direct" \/ tmux # 0)

\* None of these has happened since the bridge started.
Spared(faults) == mishaps \cap faults = {}

(* Once things have come to rest, a record that says running has a process *)
(* with a client, and one that says anything else, or is gone, has none:   *)
(* no agent runs unseen and none is shown that does not run.  Whatever     *)
(* went wrong before, a restart puts it right (claude-runner.ts:164-205,   *)
(* session-controller.ts:113-132, session-resurrection.ts:96-171).         *)
SettledAgrees ==
  Settled /\ Spared(FaultNames \ {"spawn"})
    => IF rec = "running" THEN client = "up" ELSE ~Alive

(* How a run ended is decided once: after 'completed' or 'error' the status *)
(* changes only by a relaunch or a removal, so a stopped session does not   *)
(* turn into a failed one when its process exits (claude-runner.ts:356).    *)
FirstVerdictStands ==
  [][(rec \in Verdicts /\ Spared(FaultNames \ {"spawn", "archive"}))
       => (rec' \in {rec, "running", "gone"})]_vars

(* The verdict an exit handler writes, queued behind other commands, is    *)
(* never written over a newer process's 'running' (terminal-pump.ts:173).  *)
VerdictOfTheLatest ==
  Running("ended") /\ Spared({"early", "publish", "watch", "racing"})
    => gen = 0 \/ gen < Head(queue).gen

(* A starting bridge kills the tmux session of no record that is running,  *)
(* though it decides by lists read some awaits ago and a removal that was  *)
(* cut off leaves record and tombstone (session-resurrection.ts:122-157).  *)
ReapSpares ==
  [][(Reap /\ tmux' # tmux /\ Spared({"racing"})) => rec # "running"]_vars

(* A session shown as running without a process does not stay so: its      *)
(* launch succeeds, or an error is written (create-ftown-session.ts:360).  *)
RunningIsReal ==
  (rec = "running" /\ ~Alive)
    ~> (rec # "running" \/ Alive \/ ~Spared({"archive", "publish"}))
=============================================================================
