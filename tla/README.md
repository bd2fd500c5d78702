# TLA+ verification of ftown

ftown runs command-line coding agents on a user's machines and shows them in a
browser. A *bridge* (`src/bridge`) on each machine starts the agents in
terminals, keeps their sessions, mail and attention requests in files, and talks
to dashboards (`src/ui`) through a cloud broker (`src/centrifugo`) or directly.
This directory models the parts of the bridge where interleaving, failure and
ordering decide correctness, checks them with TLC on small instances and proves
the main invariants with TLAPS for every value of the constants.

Paths below are relative to `src/bridge/src/` unless they begin with `src/`.

## 1. Inventory

| Component | State | Operations | Talks to | What is hard | What must hold | Here |
|---|---|---|---|---|---|---|
| Mail engine (`mail-delivery.ts`, routes in `local-api-server.ts`) | one waiter, one selection lock, nudge timer, Codex claim, leases per session | send, read, long poll, timer, nudge, wake Codex, recover, stop | inbox, runner, Codex, agent hooks | awaits between listing and marking; clients that leave; stop and restart | at most once; nothing lost; mail wakes its session; claims released | modelled, proved |
| Durable inbox (`mail-store.ts`) | JSON lines file | append, mark, commit a pull-request notice | mail engine, watcher | torn appends, rewrites, the cap | acknowledged mail survives; notices ordered and news | modelled, proved |
| Pull-request watcher (`pull-request-events.ts`) | pending wakes, scan in progress | scan, commit, notify | status service, inbox, session record | relinking during a scan; failing commit; restart | notices announced, for the present link only | modelled, proved, service quota left out |
| Update guard and setup lock (`update-handoff.ts`, `setup-state.ts`) | directories with an owner file | acquire, reclaim, release | other processes | kills between any two system calls | exclusion; recovery | modelled, proved |
| Outbound pipeline (`outbound-pipeline.ts`) | job queue, in-flight window, one waiter | enqueue, send, settle, idle | cloud client | missed wakeups, oversized packets, failures | order, window, exact counters, progress | modelled, proved |
| Session lifecycle (`session-controller.ts`, `claude-runner.ts`, `tmux.ts`, `create-ftown-session.ts`, `remove-ftown-session.ts`, `session-resurrection.ts`) | session record, tombstones, process generations, stop timer, the write queue of a session | create, stop, retry, clear, remove, exit, reattach, resurrect | store, tmux, pump | stop outside the lock, spawn staggering, late exits, tmux commands that take effect late | record agrees with the process; verdicts stand; removed sessions stay removed | modelled, proved, metadata left out |
| Bridge update (`bridge-update.ts`, `update-handoff.ts`, `update-admission.ts`, `update-release.ts`) | reservation, admission, receipt, helper and replacement processes | request, stage, drain, commit, cancel, help, acknowledge | setup, helper, replacement | uncertain outcomes, look-then-lock against setup, kills | one bridge serves; one setup writes; admitted work is finished | modelled, proved |
| Attention (`attention-store.ts`, `ask-question-hook.ts`) | ledger per session, polls, idle timer | record, ask, answer, dismiss, poll, notify, restore | agent hooks, command line, mail, dashboards | an answer racing the end of a poll; a timer firing queued behind the event that cancels it; restarts | what the human is told is true; resolved once; a parent told once and truly | modelled, proved, lists left out |
| Browser transport (`src/ui/src/lib/direct-transport/`, `direct-transport/peer-manager.ts`) | per terminal: the path; ladder, upgrade, cohort, held keys | subscribe, close, type, climb, commit, switch, fall back | peers, cloud, watch registry | two paths at once, late screens and closes | page and bridge agree; no key lost unnoticed; upgrade goes on | modelled, rungs' insides left out |
| Terminal pump and store (`terminal-pump.ts`, `terminal-manager.ts`, `session-store.ts`) | output buffers, flush timers, screen, log | data, flush | runner, router | buffered output against a screen dump | log and viewers in order | status writes with the lifecycle; output not modelled |
| Router and watch registry (`direct-transport/publish-router.ts`, `watch-registry.ts`) | watchers with deadlines | watch, unwatch, publish | pump, peers, cloud | expiry against output | a watcher sees a screen and then every byte | watchers with the transport; output not modelled |
| Pairing and tokens (`pairing-client.ts`, `rotating-token-refresher.ts`, `src/ui/src/lib/pairing-store.ts`) | single-use tokens and codes | start, approve, poll, refresh | database, files | two processes rotating one token | one holder of a valid token | not modelled |
| Cloud client and RPC (`centrifugo-client.ts`, `command-rpc.ts`) | subscriptions, inbound chains | publish, subscribe, dispatch | everything | reconnects | commands at most once | not modelled |
| Security and account trust (`security/`) | enrolments, approvals, policy | enrol, approve, revoke | dashboards | pending approvals | revocation takes effect | not modelled, cryptography out of reach |
| MCP, solo, push, usage, previews, installers, command lines, dashboard hooks | little, or React state | requests over the above | outside services | mostly I/O | — | not modelled, see PROJECT.json |

Everything on one bridge runs in a single JavaScript thread: code between two
awaits is atomic, and every await lets other handlers in. That is the
granularity of all models of the bridge and of the page; the locks, which separate
*processes* share, are modelled one system call at a time.

## 2. Modules

**`Mailbox`** — what the mail engine promises: a message becomes unread once, is
taken at most once, and is got by at most one request.

**`MailDelivery`** — the engine for one session (sessions share no mail state).
Each actor — the sender of a message, a request, a request's timer, the wake,
recovery — has a program counter between awaits (`pc`) and what its last inbox
operation returned (`seen`). `selection` is `selectionLocks`, `waiter` is
`mailWaiters`, `claim` is `codexClaims`, `timer`/`label`/`fires` are the nudge
timer, its label and `wakeLocks`. `Kind` chooses the harness, which decides how a
wake is delivered; muse follows the legacy path because the shipped waker refuses
every muse wake (`native-mail.ts:105`). `Faults` chooses which of disconnects,
exits, stop, restart and failing marks happen. `Send*` is `acceptMail` and
`notifyCommittedMail`, `Read*` and `Disconnect` the inbox request,
`Expire*` the long-poll timer, `Wake*` the legacy wake with paste and submit,
`Codex*` the native wake, `Recover*` `recoverPendingMail`.

**`MailStore`** — the inbox file of one session: lines, whether the last one lacks
its line feed, and the pull-request checkpoint. Marking and committing rewrite
the file by a rename; an append may leave part of its line (`AppendTorn`).
The module has no behaviours of its own.

**`PullRequestEvents`** — extends `MailStore` with the watcher: a scan steps
through snapshot, owed wake, observation, commit and notification while users
relink the session, readers drain, senders append and the bridge restarts.

**`DirectoryLock`** — `withLockGuard` and `acquireSetupLock`. The two share their
reclaim protocol and differ in how they begin (`First`) and end; the rigid
variable `lock` says which one a behaviour is about. A process may be killed at
any label of `MayDie`.

**`OwnerLock`** — what both promise their users, without system calls: a lock is
entered when it has no owner, and freed by its owner once that is outside, or by
anybody once its owner is dead. `DirectoryLock` implements it with the owner that
the marker names (`Owner`); most system calls are stutters.

**`OutboundPipeline`** — `createOutboundPipeline`. `at` is where `run()` stands;
while it is `"sending"` the loop has not yielded and nothing else can move.
`full`, `woken` and `room` are the two turns of the event loop between the
settlement that wakes the sender and the send. `made` and `wire` are ghosts:
how many packets each job was sealed into and what was sent.

**`SessionLifecycle`** — one session in a runtime chosen at the start (`runtime`).
`queue`/`at` is `sessionWrites`, behind which retry, removal, exits and
resurrection take their turn (`Enqueue`, `Finish`); `Stop`, `CreateSaves` and
`WatchLoads`/`WatchAttaches` do not queue. A launch steps through the tmux
commands it starts (`CreateKills`, `CreateNew`, `Superseded`, `CreatedLate`,
`Created`, `CreateFailed`), a kill takes effect later (`KillRuns`), a generation
tells late exits from the present process, and `Restart`, `ListRecords`,
`ListTmux`, `Reap` and `Resurrect` are the next start of the bridge.

**`TerminalTransport`** — the page's `HybridTerminalTransport` for one bridge and
several terminals, with the bridge's end of the direct peer. A callback runs to
its end, so the methods are operators from transport state to transport state
(`t`), composed as the code composes them, and an action is a callback. The
rungs, screens and publications in between are what interleaves. Watch commands
(`cmds`) arrive in order or not at all: refused by the message client or lost
(`CommandLost`), refused once the page has gone (`CommandsRefused`), dropped for a
session the bridge does not know (`HandleCommand`),
repeated by `Heartbeat`; a watch that is not renewed runs out (`WatchExpires`). The
ghost `unsure` holds the sessions one of these has happened to since their last
command that arrived.

**`BridgeUpdate`** — `request()` and `run()` of the coordinator in the bridge, the
helper process, the setup it runs, the replacement it starts, and a user who
runs setup or starts a bridge, each with its own place (`bridge`, `helper`,
`child`, `repl`, `user`). `lock` and `setupLock` are held by a process and free
once their owner is dead, which is what `OwnerLock` promises.

**`Attention`** — the ledger of one session. `line`/`at`/`draft` is `withLock`: the
head of the line loads, decides (`*Decides`) and saves (`*Saved`), and in between
the world outside the file goes on: `poll`/`due`/`aborted`/`recent` are the long
polls and `pollers`, `timer`/`ticking` is `idleTimers`, `off` is
`notificationsStopped`. `client` is the hook (`ask-question-hook.ts`) or command
(`waitForAttentionAnswer`) that asked. `delivery` is what `command-rpc.ts` makes
of an answer and tells the human. The rigid `channel` says how each question is
asked. `last`, `lapsed` and `forgone` (cycles marked whose notice was given up) are
ghosts.

`MC*` modules only declare model values, a symmetry or a constant function.
Definitions commented *Mutant* are plausible wrong versions of the definition
after them; no specification uses them. They are what `PROJECT.json` "mutants"
substitutes to show that each property can fail.

## 3. What is checked

| Run | Instance | Shows |
|---|---|---|
| `mail_readers` | two messages, two requests (symmetric), disconnects, one stop or restart | the selection lock is exclusive; the engine refines `Mailbox`: at most once |
| `mail_nudge` | one message, one request, terminal wake, one exit, stop, restart or client that leaves before its close handler is there, one busy hook | nothing is typed after `stop()`; unread mail of an attached session is read or pointed at; no request stays registered for good |
| `mail_codex` | two messages, one request, native wake, one failing mark, stop or disconnect | a claim has an owner and is consumed by nobody else; marked mail is in somebody's hands unless a client left or `stop()` ran; every message is delivered |
| `pr_inbox` | one message, two links, one head, a failing verdict, cap of one, two ordinals, one torn append, restarts, failing commits and wakes | each notice is news, for the present link only, and announced; with no torn append acknowledged mail survives |
| `lock_race` | three processes, one of which comes three times, both locks, kills anywhere | the directory implements `OwnerLock`: one owner, alone inside, displaced only once it is dead; a lone caller gets in except past an emptied guard |
| `pipeline` | four jobs of up to two packets (within the window or larger than it), queue of three, window of two | order, window, progress, `idle()` answered |
| `sessions` | either runtime, three commands, one restart, one reattachment, any one kind of mishap | record and process agree once things rest; a verdict is the latest process's and is not overwritten; what is reaped was to be reaped; a session that only says it runs does not stay so |
| `transport` | two terminals, one typed at, two keys of which one fits the connecting window, two subscriptions, one loss, revocation, rejection, lost or dropped watch command, or watch run out | page and bridge agree on the path; no peer stays pinned for a switch nobody waits for; keys kept in order; watchers match panes but where a command failed or a watch ran out; a bridge on the cloud is going to be tried again |
| `update` | two updates, two starts and two setups of a user, any three mishaps | one bridge serves; setups exclude; no admitted work is cut off; a failed update is over; every update comes to an end: a bridge serves, one can be started (after a setup, if one was left half way), a process is kept for not being known to be gone, or the bridge is left closed in one of the ways told below |
| `attention` | a question of a hook or of the command line and a plain request, three events, three tasks in line, one fault of any kind, no retention beyond the task's own | what the human is told is true; resolved once; a parent is told once, truly, and in the end, unless a restart falls between the mark and the mail |
| `mail_lost_to_leaver` | violation | mail marked for a client that leaves during the mark is lost |
| `transport_revert` | violation | a terminal opened while a committed peer waits for its first screens stays on that peer after it is reverted |

The two violations quote, in `PROJECT.json` "findings", the comment that says
otherwise. The passing runs state the same property outside the circumstance of
the finding (`SafeWhileServed`, `PathsAgree`), so the rest of the behaviour stays
checked.

**Other disagreements met.** Each is excluded, by name, from the property it
would break, and is not run on its own:

- `mail-delivery.ts:365` decides to nudge by whether a waiter *was* there; one that
  leaves while the inbox is listed leaves mail without a nudge, against the
  comment at 401. A client that closed before `local-api-server.ts:1350` installed
  its handler stays registered until its timer (fault `early_close`), and mail that
  comes meanwhile is marked and lost with it.
- `mail-store.ts:128`: an append cut off makes the *next*, acknowledged message
  unreadable, against 173-174 (`AckedSurvivesWhole` asks for no torn append).
- `update-handoff.ts:82`: killed between `unlink` and `rmdir`, a process leaves an
  empty guard that nobody passes, though `docs/investigations/bridge-updates-review.md:11`
  asks that a dead owner recovers (`RecoverableUnlessEmptied`).
- Update: when the bridge backs out, its reservation may be gone: a user's setup
  or start in the middle of `discard()` removes the dead helper's, or an armed
  helper has given up waiting, after 15 s, and removed its own while the bridge was
  still authorizing (`update-handoff.ts:337`, 395-398). `release()` throws and
  admission stays closed (`bridge = "closed"`), though items 3 and 4 of
  `docs/investigations/2026-10-28-bridge-updates.md` have it released once the helper
  is known to be gone. A `shutdown()` that throws leaves a closed bridge alive
  (`bridge = "hung"`). `Settles` accepts these two by name (`LeftClosed`). A helper
  killed after forking leaves a closed replacement; `setup.lock` of a dead setup
  refuses every reservation.
- Lifecycle: a stop behind a launch (`"early"`), a command while a started bridge
  still resurrects (`"racing"`), a reattachment while the session is being stopped
  (`"watch"`) and a relaunch whose publication fails (`"publish"`) each break what
  holds without them.
- Attention: a firing of the idle timer queued behind a task that arms the timer
  again is taken for the new one's, so a parent may be told of a child that has
  gone on (`"rearmed"`); a busy sign whose task fails, or is cut off by a restart,
  leaves the old cycle to be armed again (`"lost"`). At the retention an answered
  item may be pruned by the next task before the woken poll reads it, against the
  comment at `attention-store.ts:226`: `ToldTrue` accepts an answer that is gone from
  the ledger. A restart between saving an answer and mailing it leaves it
  recorded, unmailed, and refused when given again (`delivery = "cut"`). A hook
  killed, or at its deadline, between two polls loses an accepted answer.
  The idle cycle is marked as notified before the parent is mailed, and a marked
  cycle is not restored (`attention-store.ts:139-142`, 161): a restart in between
  loses the notice for good. `IdleTold` accepts it by name (`forgone`), with a
  cycle that has no running parent to tell.
- Transport: `cleanup()` disposes the message client before the transport
  (`src/ui/src/hooks/useCentrifugo.ts:127-131`), so the unwatches of a page that goes
  are refused (`src/ui/src/lib/secure-message-client.ts:137`) and swallowed: the
  bridge publishes for it until the watch runs out after 60 s. `WatchesAgree` speaks
  of a page that is there.
- `index.ts:678, 695, 947-968`: a screen dump includes output that is still in the
  16 ms buffer and is published again afterwards, against
  `hybrid-terminal-transport.ts:885-887` ("no gap, no double-apply"). Not modelled.

**Bounds.** Two messages and two requests are what contention for the selection
lock, replacement of the waiter and a second delivery need; a third adds no new
pair. One fault at a time interrupts each await of each handler. In the lock,
three processes let one reclaim from the dead while another overtakes, and the
third use of one of them meets what both have left. In the pipeline, three
waiting jobs make the queue overflow and out-of-order possible, sizes 1 and 3
with a window of two packets and two bytes make the sender wait for packets, for
bytes, and for an empty window. In the lifecycle three commands are a launch, one
that overtakes it and one that meets what is left, before or after the restart.
In the transport a second terminal is what a cohort and its half-finished switch
need; two keys on one terminal show overtaking, and the held window is smaller
than what is typed. In the update, a second update meets what the first left
behind, and three mishaps are a loss, a kill and a deadline in one handoff. In
the attention ledger three tasks in line let one overtake between the decision
and what it was based on; keeping no resolved request makes pruning happen;
three events are a stop, a resumption and a second stop, or a question, its
answer and a rival; the agent may have been busy before. Deadlock is not checked:
in each model all work may end.

**Fairness.** The event loop runs every ready continuation and every timer it
holds, hence weak fairness on each handler once it has begun; clocks advance. A
sender, client, hook, user or fault owes nothing: `SendAppend`,
`ReadArrive`, `Disconnect`, `Relink`, `Enqueue`, `Die` have no fairness; nor have
the human, the agent, the clients and the shutdown of the attention ledger, whose
line, timer and restoration are fair (`Attention!FairSpec`), or the user and the
processes' deaths of an update. There each process takes its next step, and each
of its waits has a deadline in the code, so waiting is never for ever
(`BridgeUpdate!FairSpec`). In the lifecycle the queue, the exits reported by the
operating system, the tmux commands and the start of the bridge go on
(`SessionLifecycle!FairSpec`). `TerminalTransport` states no liveness: backoff has no
bound, the repair of a lost watch is left to its heartbeat, and `LoopAlive` says as an invariant that a way on is armed.
Strong fairness appears twice, for services outside: Codex asked again and again
eventually queues and acknowledges (`CodexAnswers`), and an owed wake retried by
every scan gets through. In the pipeline every packet settles because the cloud
client gives up on a reply after its timeout; a `prepare()` that never ended would
stop all publications, and is assumed not to happen. For the lock, a live process
takes its next step (`DirectoryLock!FairSpec`).

## 4. What is proved

`MailDeliveryProofs` — for every set of messages, notices and requests, every
harness and every mix and number of faults. The inductive invariant is type
correctness, three mutual-exclusion facts (`SelectionOwned`, `WaiterIsParked`,
`ClaimHasOwner`), `HandedOnce`, and what
they need to be inductive: a sender remembers only a real request
(`WatchedIsReader`), mail a handler has marked and is about to hand over is in no
reply yet (`MarkedUnhanded`), only an answered request holds mail
(`AnswerSettles`), and marked mail is in the file (`MailStored`). From it each
step maps to a step or a stutter of `Mailbox` (`MailboxImplemented`).
`ClaimUndisturbed` needs that nobody who lists in order to mark has listed the
claimed message (`ClaimUnseen`). `SafeWhileServed` needs that the waiter a
message is being marked for stays the waiter (`WaiterKept`), which holds until a
client leaves, `stop()` runs or the bridge crashes, and that what Codex
acknowledged is in its queue (`ReceiptsTrue`); it is proved without `"crash"` in
`Faults`, as a crash between mark and hand-over loses the mail by design.
No mail is forgotten: of an attached session, until mail
was read or pointed at, something is due that will look at it (`MailOwed`, by who
owes it: a send, a timer, a wake, a recovery). That needs that a sender's waiter is
still the waiter when it looks again (`WaiterStays`), so but for Codex it is stated
until a client has left, the disagreement of section 3; a session that long-polls
gets no nudge.

`DirectoryLockProofs` — for any number of processes, attempts and uses, killed
anywhere. `Exclusive` alone is not inductive: the proof carries that an owner's
marker is the only one in its directory (`OwnerNamed`), that a process about to
unlink has seen the marker's owner dead (`ReclaimsDead`), that a directory that
is gone has no marker and that a try under way is one of those allowed. From it
each system call maps to a step of `OwnerLock` or to a stutter
(`LockImplemented`): `rename` enters, `unlink` of a listed marker reclaims from
the dead or finds nothing, and nobody else's marker is ever removed.

`OutboundPipelineProofs` — for any limits, packet sizes and number of jobs.
The window needs that room once found stays room (`RoomKept`); the packet counter
needs that nothing is sent twice, which is the order; the order needs where the
wire stands within the job in progress (`WireKnown`, `LastNext`) and that later
jobs are not sealed yet (`NotMade`). What `BacklogDrains` and `IdleAnswered` rest on
is proved as well: who waits, waits beside something that ends the wait
(`NoneForgotten`), and an answered `idle()` means that all that was sealed is sent
(`RestIsComplete`).

`BridgeUpdateProofs` — for any number of updates, starts, setups and mishaps. The
reservation follows the work: the bridge owns it from the check for setups to the
fork, the helper for as long as it lives (`ReservationHeld`); while a helper lives
the bridge is past the handoff, and gone once the helper has begun the setup
(`HandedOver`); the replacement serves only when the bridge is gone, and from a
helper that will not stop it (`Succession`); whoever is past `acquireSetupLock`
owns `setup.lock`, and a user's setup that writes meets no update (`SetupOwned`);
the receipt says what becomes of the attempt (`ReceiptTrue`); admission is closed
from the drain on, and nothing admitted outlasts it (`Fenced`). Each of the four
properties follows from that conjunction; none is inductive as it stands.

`AttentionProofs` — for any questions and channels, number of events and tasks,
retention and faults. The actions are first sorted by what they do to the line, the
ledger and the idle timer (`StepKinds`) and to who polls (`PollKinds`); the rest
goes over those kinds. A parent is told once because the mark is on file before
the mail (`MarkedFirst`) and the firing that holds the lock has the cycle on
record, not marked before (`Emitting`). It is told truly because a working agent's
sign is in the line behind every end of a turn and before every firing of the
armed timer, and the ledger calls the agent idle only until that sign comes
(`BusyInv`). A request is resolved once because nobody but a hook asks twice
(`AskedOnce`) and what is being saved opens nothing again (`DraftKeeps`).
`ToldTrue` needs that a poll that reads has exactly one read in the line
(`ReadsOnce`), that who polls is who asked (`PollersKnown`), and what a decided
answer promises until it is saved and told (`ToldWaits`). Of `IdleTold` the safety
half is proved (`CyclesAttended`): while a notice is owed, its cycle has its timer,
ticking or fired, until it is marked, and then the firing that mails it; or what
arms the timer again or ends the cycle is due. That needs that the armed timer is
for the cycle on record (`TimerRuns`), which what is being saved must not change
behind it (`DraftsCycle`, `DraftsMark`), and that between mark and mail only what
ends the cycle takes the timer from the firing (`MarkKept`).

`PullRequestEventsProofs` — for any cap, mail, heads and verdicts, any number of
links and observations. What `filter` keeps is counted by positions (`Rank`), and
the lemmas about it say that the file loses no unread line when it is rewritten,
at the cap too (`FilterFacts`, `MarkStep`, `EnqueueStep`). With no torn append the
last line is complete, so no append is swallowed (`AckedInv`). Notices are news
because the checkpoint is as new as the newest notice in the file, and only the
last link given out is recorded (`CheckpointAhead`, `LinksKnown`). None is
forgotten: while the session runs, a notice of its present link that no wake has
pointed at has its wake owed or about to be given (`WakeOwed`), since a scan under
way for another link finds no notice of the present one (`ScansOther`).

`SessionLifecycleProofs` — for either runtime and any number of faults, commands,
restarts and reattachments. Each property holds while certain mishaps have not
happened since the bridge started, and so does each part of the invariant: `Calm`
(no command at a bad moment, no failed publication, no adoption by a viewer),
`Smooth` (besides, clients attach and tmux keeps up with launches) and `Flawless`
(besides, tombstones can be written); a restart clears the mishaps, so it has to
establish every part from the shape of record, runner and server alone. In calm an
end waits in line only while nothing runs and no other end does (`EndedOnce`), what
is over or about to be launched is quiet (`OverIsQuiet`), a stop is written before
the next launch (`StopsInLine`), and a starting bridge has the session to itself
(`Revival`): `VerdictOfTheLatest` follows. `FirstVerdictStands` needs that a failed
run is not being stopped, and for that that it leaves no command in tmux
(`OneMaking`, `FailedIsOver`). `SettledAgrees` needs who is about to serve a running
record or a tmux session that has nobody (`RunningIsServed`, `TmuxIsServed`).
`ReapSpares` needs only that no command races the start: all that is written
meanwhile is the end of an adopted client, so what is running was so when it was
read (`StartInv`).

`TerminalTransportProofs` — for any finite set of sessions, any number of keys and
subscriptions, any limit of the connecting window and any faults. The invariant
relates the fields of the transport to each other (`ModesFit`, `LinkFits`) and to
the bridge (`BridgeFits`). The bridge's side lags behind by what is on its way, so
`BridgeFits` speaks of what the bridge will have once that has arrived (`Reaches`,
`Watching`): sending a frame changes it, handling that frame does not, and a close
ends it all. `PathsAgree` is its case of nothing on the way. Commands may come to
nothing, so of the watchers it speaks of those the bridge would have if none had:
they are the ones it has but for the sessions in `unsure` (`Sure`), through loss,
heartbeat and expiry, and `WatchesAgree` is again the case of nothing on the way.
The methods are described by the fields they change, the loops over sessions by
what they keep turn by turn (`EachGoDirect` and its like; `Each` is written with a
recursive function for that), and each action then keeps the invariant. A pinned
peer needs in addition that who is switching is on the cloud, the loop that a climb
runs only while the page is connecting or has failed.

`KeysKept` has an invariant of its own beside that one (`KeysFit`). Every key typed
is housed in one kind of place of one session, or lost (`HomeIs`), and each queue
holds a key once: so it is in one place. What the process has received is in order
because everything is, all along the way: held keys come after queued ones, those
after the ones in flight, and all of these after what has arrived, except for keys
that were under way when their session changed its path (`SetsFit`, with the ghost
`exposed`). Each change of the transport is described by the keys it moves from one
kind of place to another, loses or exposes (`MovedAt`), and leaves the other
sessions alone (`Aside`). Two facts of the first invariant are needed: only a cloud
session has a subscription, and a local-only page has none. The proof found that a
teardown has to expose what is in flight of the entry it removes: a key typed after
the session is opened again can pass it.

The proofs rest on the modules' ASSUMEs alone, which TLC evaluates in the runs.
Left to model checking: every liveness property, `RunningIsReal` among them
(fairness and ENABLED are beyond the prover); for the pipeline, the attention
ledger, the watcher and the mail engine the invariant that there is always
something to wait for is proved, and TLC shows that it happens.

## 5. Not modelled, and why

Within the modelled parts: reuse of process ids and a `kill(pid, 0)` refused by
permission; rewiring of the mail engine's stores, which happens once at startup;
failing reads of the inbox and a failing notification after a durable append;
a `recoverPendingMail` that throws; the status service's groups and quota; the
rate-limited log lines of the pipeline. Parsing, formatting and encryption are
abstracted everywhere.

Of the session lifecycle: metadata that keeps the status, retired automation
records, what is typed at a start. Of the transport: resizes, signalling and the
handshake inside a rung, reachability callbacks, the time backoff takes, and how
soon a heartbeat repairs a watch; and a cloud reconnection shorter than the watch lease, which brings no
new screen. Of the update: what a release is, and how it is fetched and verified.
Of the attention store: cursor lists and `wait`, acknowledgements, permission and
elicitation items, the migration of idle cycles with the old delay, a timer that
fires early, and a wake that only makes a poll read once more.

Whole components not modelled, with the reason in `PROJECT.json`: the output path
of the terminal pump and the router (no command of the bridge depends on it; the
gap named in section 3 was found by reading), pairing and token rotation, the cloud
client's subscriptions and the dispatch of commands, enrolment and account trust,
MCP, solo mode, push, the dashboard's state, previews, reviews and usage, and
installers. The first four keep state that a model could follow; the rest is
mostly requests to other programs, files and services.
