------------------------------ MODULE Attention ------------------------------
(***************************************************************************)
(* The attention ledger of one session (attention-store.ts): the questions *)
(* its agent puts to the human, with the harness hook or command line that *)
(* long-polls for the answer, the human's answers and dismissals, and the  *)
(* notice a parent gets once the agent has been idle for a while.          *)
(*                                                                         *)
(* All work on the ledger takes its turn behind the session's lock (line): *)
(* the head loads the file, decides, and saves.  What is not in the file   *)
(* is read and changed between those awaits: who polls, the idle timer.    *)
(***************************************************************************)
EXTENDS Naturals, Sequences, FiniteSets, SequencesExt

CONSTANTS
    Questions,  \* what the agent may ask
    Channels,   \* how: functions from Questions to ChannelNames
    Retention,  \* resolved requests kept (500 in the code)
    Faults,     \* what may go wrong; see FaultNames
    MaxFaults,  \* bound: how often
    MaxWaiting, \* bound: tasks behind the lock when something new happens
    MaxEvents   \* bound: what the agent's hooks report, it asks and the human does

FaultNames ==
  { "restart", \* the bridge ends, at any point, and starts again
    "io",      \* the ledger cannot be read or written
    "mail",    \* the answer cannot be mailed
    "kill" }   \* the hook or command that waits is killed

ChannelNames ==
  { "hook",    \* the harness asks: a blocking hook waits for the answer
    "mail",    \* asked through ftown: the answer is polled for, or mailed
    "plain" }  \* a request without a question

ASSUME AttentionAssumption ==
  /\ Channels \subseteq [Questions -> ChannelNames]
  /\ Faults \subseteq FaultNames
  /\ IsFiniteSet(Questions)
  /\ {Retention, MaxFaults, MaxWaiting, MaxEvents} \subseteq Nat

VARIABLES
    channel,    \* how each question is asked (never changes)
    ledger,     \* attention.json; see Ledger
    line, at,   \* the tasks behind the lock, and how far the first has come
    draft,      \* what it is saving
    live,       \* waiterLive: what it decided about the poll
    client,     \* who asked, per question
    poll,       \* its long poll at the bridge
    due,        \* polls whose deadline has passed
    aborted,    \* polls whose connection is closed
    recent,     \* questions last polled less than ATTENTION_WAITER_TTL_MS ago
    delivery,   \* what was made of the answer, and what the human is told
    timer,      \* idleTimers: for which idle cycle, 0: none
    ticking,    \* the timer has not fired yet
    cycles,     \* idle cycles so far
    notices,    \* the cycles the parent was mailed a notice of
    forgone,    \* the cycles marked as notified, and given up before the mail:
                \* there is no parent to tell, or a restart came between (ghost)
    off,        \* notificationsStopped
    restored,   \* restoreIdleNotifications has been called
    active,     \* the session runs
    last,       \* the agent's latest sign: "busy", "idle"; see LastSigns (ghost)
    lapsed,     \* kinds of faults so far
    events, faults

memory == <<line, at, draft, live>>
polls  == <<poll, due, aborted, recent>>
idling == <<timer, ticking, cycles, notices, off, restored, active, last>>
counts == <<channel, lapsed, forgone, events, faults>>
vars == <<ledger, memory, client, polls, delivery, idling, counts>>

Resolutions == {"answered", "manual", "user_prompt", "session_end", "tool_complete"}
Ledger == [how : [Questions -> Resolutions \cup {"absent", "open"}],
           older : SUBSET (Questions \X Questions), \* by their sequence numbers
           activity : {"unknown", "busy", "idle"}, cycle : Nat, told : BOOLEAN]
LastSigns ==
  { "busy", "idle",
    "lost",    \* the task of a busy sign failed, or was cut off by a restart
    "rearmed" } \* busy, but a task called before it has armed the timer again
Busy == {"ask", "seen", "done", "work", "prompt"}
Records == Busy \cup {"request", "stop", "end"}
Task == [op : Records \cup {"cancel", "restore", "emit", "read", "answer", "dismiss", "resolve"},
         q : Questions \cup {"none"}, cycle : Nat]

TypeOK ==
  /\ channel \in Channels
  /\ ledger \in Ledger /\ draft \in Ledger
  /\ line \in Seq(Task) /\ at \in {"start", "saving", "probing", "calling"} /\ live \in BOOLEAN
  /\ client \in [Questions -> {"none", "asking", "retry", "between", "polling", "got", "gone", "killed"}]
  /\ poll \in [Questions -> {"none", "first", "parked", "again"}]
  /\ {due, aborted, recent} \subseteq SUBSET Questions
  /\ delivery \in [Questions -> {"none", "waiter", "mailing", "mail", "mail_failed", "cut"}]
  /\ timer \in Nat /\ ticking \in BOOLEAN /\ cycles \in Nat
  /\ notices \in Seq(Nat) /\ forgone \subseteq Nat
  /\ {off, restored, active} \subseteq BOOLEAN /\ last \in LastSigns
  /\ lapsed \subseteq Faults
  /\ events \in 0..MaxEvents /\ faults \in 0..MaxFaults

Hooks == {q \in Questions : channel[q] = "hook"}
Plain == {q \in Questions : channel[q] = "plain"}

EachQuestion(x) == [q \in Questions |-> x]
Empty == [how |-> EachQuestion("absent"), older |-> {},
          activity |-> "unknown", cycle |-> 0, told |-> FALSE]

Init ==
  /\ channel \in Channels
  /\ \E past \in {"unknown", "busy"} : ledger = [Empty EXCEPT !.activity = past]
  /\ draft = Empty
  /\ line = << >> /\ at = "start" /\ live = FALSE
  /\ client = EachQuestion("none") /\ poll = EachQuestion("none")
  /\ due = {} /\ aborted = {} /\ recent = {}
  /\ delivery = EachQuestion("none")
  /\ timer = 0 /\ ticking = FALSE /\ cycles = 0 /\ notices = << >> /\ forgone = {}
  /\ off = FALSE /\ restored = TRUE /\ active = TRUE /\ last = "busy"
  /\ lapsed = {} /\ events = 0 /\ faults = 0

-----------------------------------------------------------------------------
(* The lock and the ledger. *)

Event == Len(line) < MaxWaiting /\ events < MaxEvents /\ events' = events + 1
         /\ UNCHANGED <<channel, lapsed, forgone, faults>>

Lapse(f) ==
  /\ f \in Faults /\ faults < MaxFaults
  /\ faults' = faults + 1 /\ lapsed' = lapsed \cup {f}
Fault(f) == Lapse(f) /\ UNCHANGED <<channel, forgone, events>>

TaskOf(op, q) == [op |-> op, q |-> q, cycle |-> 0]
Enqueue(task) == line' = Append(line, task) /\ UNCHANGED <<at, draft, live>>
Turn(ops) == line # << >> /\ Head(line).op \in ops
Mine == Head(line).q
\* The head gives way to the next without having saved anything.
Over == at' = "start" /\ draft' = Empty /\ live' = FALSE
GiveWay == line' = Tail(line) /\ Over

Resolve(l, S, why) ==
  [l EXCEPT !.how = [q \in Questions |-> IF q \in S /\ @[q] = "open" THEN why ELSE @[q]]]

Before(l, q, r) == <<q, r>> \in l.older

\* Of the resolved requests, but for those this task has just resolved, the
\* newest are kept.
Prune(l, protect) ==
  LET Resolved == {q \in Questions \ protect : l.how[q] \in Resolutions}
      Dropped == {q \in Resolved :
                    Cardinality({r \in Resolved : Before(l, q, r)}) >= Retention}
  IN  [l EXCEPT !.how = [q \in Questions |-> IF q \in Dropped THEN "absent" ELSE @[q]],
                !.older = @ \ ((Dropped \X Questions) \cup (Questions \X Dropped))]

\* What was resolved between two versions of the ledger.
Fresh(before, after) ==
  {q \in Questions : before.how[q] = "open" /\ after.how[q] \in Resolutions}
Older(l, q) == {r \in Plain : Before(l, r, q)}

\* An open request is the same request again; so is a resolved one when a
\* tool call of the harness identifies it.
\* Mutant: only open requests are looked for.
KnownOpen(l, q) == l.how[q] = "open"
Known(l, q) == l.how[q] = "open" \/ (q \in Hooks /\ l.how[q] # "absent")
Added(l, q) ==
  IF Known(l, q) THEN l
  ELSE [l EXCEPT !.how[q] = "open",
                 !.older = @ \cup ({r \in Questions \ {q} : l.how[r] # "absent"} \X {q})]

-----------------------------------------------------------------------------
(* Idle cycles and their timer. *)

IdleCanceled == timer' = 0 /\ ticking' = FALSE
\* scheduleIdle replaces the timer there is; a firing of it already in line
\* is then the new timer's.
Schedule(cycle) ==
  /\ timer' = cycle /\ ticking' = TRUE
  /\ last' = IF last = "busy" /\ \E i \in DOMAIN line : line[i].op = "emit" /\ line[i].cycle = cycle
             THEN "rearmed" ELSE last
Current(cycle) == ~off /\ timer = cycle
KeepTimer == UNCHANGED <<timer, ticking>>

Cancels(op) == op \in Busy \cup {"end"}
\* How an event of the agent moves the activity and the cycle.
Moved(l, op) ==
  LET now == [l EXCEPT !.activity = CASE op \in Busy -> "busy"
                                      [] op \in {"stop", "end"} -> "idle"
                                      [] OTHER -> @]
  IN  CASE Cancels(op) -> [now EXCEPT !.cycle = 0, !.told = FALSE]
        [] op = "stop" /\ l.activity = "busy" -> [now EXCEPT !.cycle = cycles + 1, !.told = FALSE]
        [] OTHER -> now

-----------------------------------------------------------------------------
(* recordDetailed. *)

\* Called: the idle timer is cancelled at once, the rest waits for the lock.
Record(op, q) ==
  /\ Enqueue(TaskOf(op, q))
  /\ IF Cancels(op) THEN IdleCanceled ELSE KeepTimer
  /\ last' = CASE op \in Busy -> "busy" [] op \in {"stop", "end"} -> "idle" [] OTHER -> last
  /\ UNCHANGED <<cycles, notices, off, restored, active>>

\* The agent's hooks report: another tool, the human's prompt, the end of a
\* turn, the end of the session.
Signal(op) ==
  /\ op \in {"work", "prompt", "stop", "end"}
  /\ Event
  /\ Record(op, "none")
  /\ UNCHANGED <<ledger, client, polls, delivery>>
\* The harness's ordinary hooks report the tool call that asks, and its end.
HookReports(op, q) ==
  /\ q \in Hooks /\ Event
  /\ \/ op = "seen" /\ client[q] # "none"
     \/ op = "done" /\ client[q] \in {"got", "gone", "killed"}
  /\ Record(op, q)
  /\ UNCHANGED <<ledger, client, polls, delivery>>

\* A blocking hook, the command line or MCP asks; a hook asks once more when
\* the bridge went away.
Ask(q) ==
  /\ active
  /\ IF client[q] = "none" THEN Event ELSE client[q] = "retry" /\ UNCHANGED counts
  /\ client' = [client EXCEPT ![q] = "asking"]
  /\ Record(IF q \in Hooks THEN "ask" ELSE "request", q)
  /\ UNCHANGED <<ledger, polls, delivery>>

Observed(l, op, q) ==
  LET moved == Moved(l, op)
  IN  CASE op \in {"ask", "seen", "request"} -> Added(moved, q)
        [] op = "prompt" -> Resolve(moved, Questions, "user_prompt")
        [] op = "end"    -> Resolve(moved, Questions, "session_end")
        [] op = "done"   -> Resolve(moved, {q}, "tool_complete")
        [] OTHER         -> moved

RecordDecides ==
  /\ Turn(Records) /\ at = "start" /\ at' = "saving"
  /\ LET after == Observed(ledger, Head(line).op, Mine)
     IN  /\ draft' = Prune(after, Fresh(ledger, after))
         /\ cycles' = IF after.cycle > cycles THEN after.cycle ELSE cycles
  /\ IF Cancels(Head(line).op) THEN IdleCanceled ELSE KeepTimer
  /\ UNCHANGED <<ledger, line, live, client, polls, delivery, notices, off, restored, active, last, counts>>

\* wakeItemWaiters: every parked poll reads its item again.
Parked == {q \in Questions : poll[q] = "parked"}
Wake(woken) ==
  /\ poll' = [q \in Questions |-> IF q \in woken THEN "again" ELSE poll[q]]
  /\ line' = Tail(line) \o SetToSeq({TaskOf("read", q) : q \in woken})
  /\ Over
  /\ UNCHANGED <<due, aborted, recent>>

RecordSaved ==
  /\ Turn(Records) /\ at = "saving" /\ ledger' = draft
  /\ IF draft.activity = "idle" /\ draft.cycle # 0 /\ ~draft.told /\ timer = 0 /\ ~off
     THEN Schedule(draft.cycle) ELSE KeepTimer /\ UNCHANGED last
  /\ Wake(IF Fresh(ledger, draft) # {} THEN Parked ELSE {})
  /\ client' = IF Head(line).op \in {"ask", "request"} /\ client[Mine] = "asking"
               THEN [client EXCEPT ![Mine] = IF Mine \in Plain THEN "gone" ELSE "between"]
               ELSE client
  /\ UNCHANGED <<delivery, cycles, notices, off, restored, active, counts>>

-----------------------------------------------------------------------------
(* The human: answer, resolveExplicitThrough, mutate. *)

Command(op, q) ==
  /\ op \in {"answer", "dismiss", "resolve"} /\ ledger.how[q] # "absent"
  /\ Event
  /\ Enqueue(TaskOf(op, q))
  /\ UNCHANGED <<ledger, client, polls, delivery, idling>>

ActiveWait(q) == poll[q] \in {"parked", "again"}
\* Mutant: for mail, too, a poll that ended a moment ago is a waiter.
WaiterLiveRecent(q) == ActiveWait(q) \/ q \in recent
WaiterLive(q) == ActiveWait(q) \/ (q \in Hooks /\ q \in recent)

Answerable(q) == q \notin Plain /\ ledger.how[q] = "open" /\ (q \in Hooks => WaiterLive(q))
AnswerDecides ==
  /\ Turn({"answer"}) /\ at = "start" /\ Answerable(Mine)
  /\ LET answered == [ledger EXCEPT !.how[Mine] = "answered"]
         swept == Resolve(answered, Older(ledger, Mine), "manual")
     IN  draft' = Prune(swept, Fresh(ledger, swept) \cup {Mine})
  /\ live' = WaiterLive(Mine) /\ at' = "saving"
  /\ UNCHANGED <<ledger, line, client, polls, delivery, idling, counts>>
AnswerSaved ==
  /\ Turn({"answer"}) /\ at = "saving" /\ ledger' = draft
  /\ delivery' = [delivery EXCEPT ![Mine] = IF live THEN "waiter" ELSE "mailing"]
  /\ Wake(Parked)
  /\ UNCHANGED <<client, idling, counts>>
\* Unknown, not a question, resolved already, or the hook no longer waits.
Refused ==
  /\ at = "start"
  /\ \/ Turn({"answer"}) /\ ~Answerable(Mine)
     \/ Turn({"dismiss", "resolve"}) /\ ledger.how[Mine] = "absent"
  /\ GiveWay
  /\ UNCHANGED <<ledger, client, polls, delivery, idling, counts>>

\* Outside the lock: nobody polls, so the answer goes to the session's mail.
MailAnswer(q) ==
  /\ delivery[q] = "mailing"
  /\ \/ delivery' = [delivery EXCEPT ![q] = "mail"] /\ UNCHANGED counts
     \/ delivery' = [delivery EXCEPT ![q] = "mail_failed"] /\ Fault("mail")
  /\ UNCHANGED <<ledger, memory, client, polls, idling>>

\* A dismissal takes the older plain requests with it, a resolution does not.
DismissDecides ==
  /\ Turn({"dismiss", "resolve"}) /\ at = "start" /\ ledger.how[Mine] # "absent"
  /\ LET through == {Mine} \cup (IF Head(line).op = "dismiss" THEN Older(ledger, Mine) ELSE {})
         after == Resolve(ledger, through, "manual")
     IN  draft' = Prune(after, IF Head(line).op = "dismiss" THEN Fresh(ledger, after) ELSE {Mine})
  /\ at' = "saving"
  /\ UNCHANGED <<ledger, line, live, client, polls, delivery, idling, counts>>
DismissSaved ==
  /\ Turn({"dismiss", "resolve"}) /\ at = "saving" /\ ledger' = draft
  /\ Wake(Parked)
  /\ UNCHANGED <<client, delivery, idling, counts>>

-----------------------------------------------------------------------------
(* Who waits: the ask hook, or the command line. *)

Waits(q) == client[q] \in {"between", "polling"}

Poll(q) ==
  /\ client[q] = "between" /\ poll[q] = "none"
  /\ client' = [client EXCEPT ![q] = "polling"]
  /\ poll' = [poll EXCEPT ![q] = "first"]
  /\ Enqueue(TaskOf("read", q))
  /\ UNCHANGED <<ledger, due, aborted, recent, delivery, idling, counts>>

\* The poll ends; what was polled lately counts for a while.
PollEnds(q) ==
  /\ poll' = [poll EXCEPT ![q] = "none"]
  /\ due' = due \ {q} /\ aborted' = aborted \ {q}
  /\ recent' = CASE q \in aborted -> recent \ {q}
                 [] poll[q] = "again" -> recent \cup {q}
                 [] OTHER -> recent
Returns(q, state) ==
  client' = IF client[q] = "polling" THEN [client EXCEPT ![q] = state] ELSE client

\* readItem, and what waitForItem makes of it.
ReadReturns ==
  /\ Turn({"read"}) /\ at = "start"
  /\ ledger.how[Mine] # "open" \/ Mine \in due
  /\ Returns(Mine, CASE ledger.how[Mine] = "answered" -> "got"
                     [] ledger.how[Mine] = "open" -> "between"
                     [] OTHER -> "gone")
  /\ PollEnds(Mine) /\ GiveWay
  /\ UNCHANGED <<ledger, delivery, idling, counts>>
ReadParks ==
  /\ Turn({"read"}) /\ at = "start"
  /\ ledger.how[Mine] = "open" /\ Mine \notin due
  /\ IF Mine \in aborted THEN PollEnds(Mine)
     ELSE poll' = [poll EXCEPT ![Mine] = "parked"] /\ UNCHANGED <<due, aborted, recent>>
  /\ GiveWay
  /\ UNCHANGED <<ledger, client, delivery, idling, counts>>
ReadFails ==
  /\ Turn({"read"}) /\ Fault("io")
  /\ Returns(Mine, "between") /\ PollEnds(Mine) /\ GiveWay
  /\ UNCHANGED <<ledger, delivery, idling>>

\* At its deadline the poll reads once more, behind the tasks in line.
Deadline(q) ==
  /\ poll[q] = "parked"
  /\ poll' = [poll EXCEPT ![q] = "again"] /\ due' = due \cup {q}
  /\ Enqueue(TaskOf("read", q))
  /\ UNCHANGED <<ledger, client, aborted, recent, delivery, idling, counts>>
\* ATTENTION_WAITER_TTL_MS after the latest poll.
Forgotten(q) ==
  /\ q \in recent /\ recent' = recent \ {q}
  /\ UNCHANGED <<ledger, memory, client, poll, due, aborted, delivery, idling, counts>>

\* Its own deadline passes between two polls.
GivesUp(q) ==
  /\ client[q] \in {"between", "retry"} /\ client' = [client EXCEPT ![q] = "gone"]
  /\ UNCHANGED <<ledger, memory, polls, delivery, idling, counts>>
Killed(q) ==
  /\ client[q] \in {"asking", "between", "polling"} /\ Fault("kill")
  /\ client' = [client EXCEPT ![q] = "killed"]
  /\ UNCHANGED <<ledger, memory, polls, delivery, idling>>
\* The bridge sees the connection of the poll close.
Closed(q) ==
  /\ client[q] = "killed" /\ poll[q] # "none" /\ q \notin aborted
  /\ IF poll[q] = "parked"
     THEN /\ poll' = [poll EXCEPT ![q] = "none"] /\ recent' = recent \ {q}
          /\ UNCHANGED <<due, aborted>>
     ELSE aborted' = aborted \cup {q} /\ UNCHANGED <<poll, due, recent>>
  /\ UNCHANGED <<ledger, memory, client, delivery, idling, counts>>

-----------------------------------------------------------------------------
(* The idle notice: emitIdle and notifyIdleParent. *)

TimerFires ==
  /\ ticking /\ ticking' = FALSE
  /\ Enqueue([op |-> "emit", q |-> "none", cycle |-> timer])
  /\ UNCHANGED <<ledger, client, polls, delivery, timer, cycles, notices, off, restored, active, last, counts>>

MyCycle == Head(line).cycle
\* Not the timer's any more, or the ledger knows better.
EmitStops ==
  /\ Turn({"emit"})
  /\ LET Stale == ledger.cycle # MyCycle \/ ledger.told \/ ledger.activity # "idle"
     IN  \/ ~Current(MyCycle) /\ at # "saving" /\ KeepTimer
         \/ Current(MyCycle) /\ at = "start" /\ Stale /\ IdleCanceled
  /\ GiveWay
  /\ UNCHANGED <<ledger, client, polls, delivery, cycles, notices, off, restored, active, last, counts>>
EmitProbes ==
  /\ Turn({"emit"}) /\ at = "start" /\ Current(MyCycle)
  /\ ledger.cycle = MyCycle /\ ~ledger.told /\ ledger.activity = "idle"
  /\ at' = "probing"
  /\ UNCHANGED <<ledger, line, draft, live, client, polls, delivery, idling, counts>>
\* Marked first, told afterwards; a cycle of a session that ended is dropped.
\* Mutant: the mark is not written.
EmitMarksNot ==
  /\ Turn({"emit"}) /\ at = "probing" /\ Current(MyCycle)
  /\ draft' = IF active THEN ledger ELSE [ledger EXCEPT !.cycle = 0, !.told = FALSE]
  /\ at' = "saving"
  /\ UNCHANGED <<ledger, line, live, client, polls, delivery, idling, counts>>
EmitMarks ==
  /\ Turn({"emit"}) /\ at = "probing" /\ Current(MyCycle)
  /\ draft' = IF active THEN [ledger EXCEPT !.told = TRUE]
              ELSE [ledger EXCEPT !.cycle = 0, !.told = FALSE]
  /\ at' = "saving"
  /\ UNCHANGED <<ledger, line, live, client, polls, delivery, idling, counts>>
EmitSaved ==
  /\ Turn({"emit"}) /\ at = "saving" /\ ledger' = draft
  /\ IF draft.cycle = 0 THEN IdleCanceled /\ GiveWay
     ELSE IF ~Current(MyCycle) THEN KeepTimer /\ GiveWay
     ELSE KeepTimer /\ at' = "calling" /\ UNCHANGED <<line, draft, live>>
  /\ UNCHANGED <<client, polls, delivery, cycles, notices, off, restored, active, last, counts>>
\* The parent is looked up, and is told if the cycle is still current.
\* Mutant: not looked at again after the look-ups.
NoticeMailedAnyway ==
  /\ Turn({"emit"}) /\ at = "calling"
  /\ notices' = Append(notices, MyCycle)
  /\ IF timer = MyCycle THEN IdleCanceled ELSE KeepTimer
  /\ GiveWay
  /\ UNCHANGED <<ledger, client, polls, delivery, cycles, off, restored, active, last, counts>>
NoticeMailed ==
  /\ Turn({"emit"}) /\ at = "calling" /\ Current(MyCycle)
  /\ notices' = Append(notices, MyCycle)
  /\ IdleCanceled /\ GiveWay
  /\ UNCHANGED <<ledger, client, polls, delivery, cycles, off, restored, active, last, counts>>
\* There is no running parent, the mail is refused, or the cycle has passed.
NoParent ==
  /\ Turn({"emit"}) /\ at = "calling"
  /\ forgone' = IF Current(MyCycle) THEN forgone \cup {MyCycle} ELSE forgone
  /\ IF timer = MyCycle THEN IdleCanceled ELSE KeepTimer
  /\ GiveWay
  /\ UNCHANGED <<ledger, client, polls, delivery, cycles, notices, off, restored, active, last,
                 channel, lapsed, events, faults>>

\* The session's record says something else than running: cancelIdleNotification.
SessionStops ==
  /\ active /\ active' = FALSE
  /\ IdleCanceled /\ Enqueue(TaskOf("cancel", "none"))
  /\ UNCHANGED <<ledger, client, polls, delivery, cycles, notices, off, restored, last, counts>>
CancelDecides ==
  /\ Turn({"cancel"}) /\ at = "start" /\ IdleCanceled
  /\ IF ledger.cycle # 0
     THEN draft' = [ledger EXCEPT !.cycle = 0, !.told = FALSE] /\ at' = "saving" /\ UNCHANGED <<line, live>>
     ELSE GiveWay
  /\ UNCHANGED <<ledger, client, polls, delivery, cycles, notices, off, restored, active, last, counts>>
CancelSaved ==
  /\ Turn({"cancel"}) /\ at = "saving" /\ ledger' = draft /\ GiveWay
  /\ UNCHANGED <<client, polls, delivery, idling, counts>>

-----------------------------------------------------------------------------
(* The bridge ends and starts again. *)

ShutsDown ==
  /\ ~off /\ Fault("restart") /\ off' = TRUE /\ IdleCanceled
  /\ UNCHANGED <<ledger, memory, client, polls, delivery, cycles, notices, restored, active, last>>
\* What is being saved may have been renamed into place; a hook that asks asks
\* again, everybody else who waits polls again.  A cycle marked but not mailed
\* stays so: nothing looks at it any more (151-161).
Noticed(c) == \E i \in DOMAIN notices : notices[i] = c
Restart ==
  /\ IF off THEN UNCHANGED <<lapsed, faults>> ELSE Lapse("restart")
  /\ ledger' \in {ledger} \cup (IF at = "saving" THEN {draft} ELSE {})
  /\ line' = << >> /\ Over
  /\ poll' = EachQuestion("none") /\ due' = {} /\ aborted' = {} /\ recent' = {}
  /\ client' = [q \in Questions |->
                  CASE client[q] = "polling" -> "between"
                    [] client[q] = "asking" -> IF q \in Hooks THEN "retry" ELSE "gone"
                    [] OTHER -> client[q]]
  /\ delivery' = [q \in Questions |-> IF delivery[q] = "mailing" THEN "cut" ELSE delivery[q]]
  /\ IdleCanceled /\ off' = FALSE /\ restored' = FALSE
  /\ last' = IF \E i \in DOMAIN line : Cancels(line[i].op) THEN "lost" ELSE last
  /\ forgone' = IF ledger'.told /\ ~Noticed(ledger'.cycle)
                THEN forgone \cup {ledger'.cycle} ELSE forgone
  /\ UNCHANGED <<cycles, notices, active, channel, events>>
\* restoreIdleNotifications, for the sessions that run.
Restore ==
  /\ ~restored /\ restored' = TRUE
  /\ IF active THEN Enqueue(TaskOf("restore", "none")) ELSE UNCHANGED memory
  /\ UNCHANGED <<ledger, client, polls, delivery, timer, ticking, cycles, notices, off, active, last, counts>>
\* Mutant: nothing is scheduled again.
RestoresNothing ==
  /\ Turn({"restore"}) /\ KeepTimer /\ GiveWay
  /\ UNCHANGED <<ledger, client, polls, delivery, cycles, notices, off, restored, active, last, counts>>
Restores ==
  /\ Turn({"restore"})
  /\ IF ledger.activity = "idle" /\ ledger.cycle # 0 /\ ~ledger.told /\ ~off
     THEN Schedule(ledger.cycle) ELSE KeepTimer /\ UNCHANGED last
  /\ GiveWay
  /\ UNCHANGED <<ledger, client, polls, delivery, cycles, notices, off, restored, active, counts>>

\* The ledger cannot be loaded or saved: the task fails, and tells its caller.
TaskFails ==
  /\ line # << >> /\ ~Turn({"read"}) /\ at \in {"start", "saving"} /\ Fault("io")
  /\ client' = IF Turn({"ask", "request"}) /\ client[Mine] = "asking"
               THEN [client EXCEPT ![Mine] = "gone"] ELSE client
  /\ IF Turn({"emit"}) /\ timer = MyCycle THEN IdleCanceled ELSE KeepTimer
  /\ last' = IF Cancels(Head(line).op) THEN "lost" ELSE last
  /\ GiveWay
  /\ UNCHANGED <<ledger, polls, delivery, cycles, notices, off, restored, active>>

-----------------------------------------------------------------------------
Tasks ==
  \/ RecordDecides \/ RecordSaved
  \/ AnswerDecides \/ AnswerSaved \/ Refused \/ DismissDecides \/ DismissSaved
  \/ ReadReturns \/ ReadParks
  \/ EmitStops \/ EmitProbes \/ EmitMarks \/ EmitSaved \/ NoticeMailed \/ NoParent
  \/ CancelDecides \/ CancelSaved \/ Restores

Next ==
  \/ Tasks \/ TaskFails \/ ReadFails
  \/ \E op \in {"work", "prompt", "stop", "end"} : Signal(op)
  \/ \E q \in Questions :
       \/ Ask(q) \/ \E op \in {"seen", "done"} : HookReports(op, q)
       \/ \E op \in {"answer", "dismiss", "resolve"} : Command(op, q)
       \/ MailAnswer(q) \/ Poll(q) \/ Deadline(q) \/ Forgotten(q)
       \/ GivesUp(q) \/ Killed(q) \/ Closed(q)
  \/ TimerFires \/ SessionStops \/ ShutsDown \/ Restart \/ Restore

Spec == Init /\ [][Next]_vars
\* Tasks run, timers fire, a started bridge restores its timers, one that
\* shuts down ends.  Nobody has to answer, poll or go on working.
FairSpec ==
  /\ Spec
  /\ WF_vars(Tasks) /\ WF_vars(TimerFires) /\ WF_vars(Restore)

-----------------------------------------------------------------------------
(* What the human is told of an answer is true.  "waiter": it was got, or   *)
(* the poll under way gets it, or (hook) the hook that polled a moment ago  *)
(* is on its way back; unless the waiter was killed, gave up between two    *)
(* polls, or other requests have pushed the answer out of the ledger.       *)
(* "mail" is only told of mail that was sent (attention-store.ts:373,       *)
(* command-rpc.ts:283).                                                     *)
OnItsWay(q) ==
  \/ client[q] = "got"
  \/ client[q] = "polling" /\ q \notin aborted
  \/ client[q] = "between" /\ (q \in Hooks \/ "restart" \in lapsed \/ "io" \in lapsed)
ToldTrue ==
  \A q \in Questions : delivery[q] = "waiter" =>
    \/ OnItsWay(q) \/ client[q] = "killed"
    \/ client[q] = "gone" /\ (q \in Hooks \/ "restart" \in lapsed \/ "io" \in lapsed)
    \/ ledger.how[q] = "absent"

(* A request is resolved once: no late hook, second answer or restart opens *)
(* it again or changes how it was resolved (attention-store.ts:288, 366).   *)
ResolvedOnce ==
  [][\A q \in Questions : ledger.how[q] \in Resolutions
        => ledger'.how[q] \in {ledger.how[q], "absent"}]_vars

(* A parent is told that a session is idle only while it is: its latest     *)
(* sign was the end of a turn, and it runs, whatever came while the notice  *)
(* was prepared (attention-store.ts:124-147).  The exceptions are the two   *)
(* of LastSigns.                                                            *)
NoticeTrue == [][notices' # notices => last # "busy" /\ active /\ ~off]_vars

(* Of one idle cycle a parent is told once, across restarts as well.        *)
NoticedOnce == \A i, j \in DOMAIN notices : notices[i] = notices[j] => i = j

(* A parent is told of a cycle on record, unless the agent goes on, ends, or *)
(* a fault of the disk gets in between.  A restart does not, with one gap    *)
(* the code leaves: between the mark and the mail it loses the notice for    *)
(* good (139-142, 161), as does having no parent to tell (forgone).          *)
Untold == /\ ledger.cycle # 0 /\ active /\ ~off /\ "io" \notin lapsed
          /\ ~Noticed(ledger.cycle) /\ ledger.cycle \notin forgone
IdleTold == Untold ~> ~Untold
=============================================================================
