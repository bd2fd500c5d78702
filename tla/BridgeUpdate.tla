---------------------------- MODULE BridgeUpdate ----------------------------
(***************************************************************************)
(* An assisted update of one bridge (bridge-update.ts, update-handoff.ts,  *)
(* update-admission.ts, update-release.ts): the running bridge stages a    *)
(* release, closes its admission, hands its reservation to a helper        *)
(* process and exits; the helper runs setup, starts the replacement and    *)
(* acknowledges it.  Meanwhile a user runs setup or starts a bridge, any   *)
(* process is killed, any deadline passes.  Setup's own lock and the guard *)
(* of the reservation are what DirectoryLock implements: a lock that       *)
(* whoever finds it with a dead owner may take.                            *)
(***************************************************************************)
EXTENDS Naturals, FiniteSets

CONSTANTS
    Faults,     \* what may go wrong; see FaultNames
    MaxMishaps, \* bound: how often
    MaxUpdates, \* bound: updates asked for
    MaxStarts,  \* bound: bridges a user starts after the first is gone
    MaxSetups   \* bound: setups a user runs

FaultNames ==
  { "crash",    \* a process is killed
    "late",     \* a deadline passes though the answer would still come
    "unproven", \* a killed process is not seen to exit in time
    "lost",     \* a message is reported lost, delivered or not
    "hang" }    \* shutdown() does not get to its exit

ASSUME UpdateAssumption ==
  /\ Faults \subseteq FaultNames
  /\ MaxMishaps \in Nat /\ MaxUpdates \in Nat /\ MaxStarts \in Nat /\ MaxSetups \in Nat

VARIABLES
    bridge,    \* the bridge, and how far run() has come in it
    frozen,    \* its admission is closed
    busy,      \* what it works on: an admitted "request", a "session"
    lock,      \* update-reservation.json: whose process owns it, or "none"
    helper,    \* the helper process
    told,      \* what passed between bridge and helper last
    child,     \* the setup the helper runs
    repl,      \* the replacement the helper starts
    setupLock, \* setup.lock: "none", or whose it is
    user,      \* a setup the user runs
    installed, \* the runtime on disk: "valid", or "broken" while it is replaced
    receipt,   \* phase in operation.json
    updates, starts, setups, mishaps

old    == <<bridge, frozen, busy>>
new    == <<helper, told, child, repl>>
disk   == <<lock, setupLock, installed, receipt>>
others == <<user, updates, starts, setups>>
vars == <<old, new, disk, others, mishaps>>

Phases == {"serving", "accepted", "starting", "reserving", "staging", "draining", "quiet",
           "preparing", "prepared", "committing", "confirming", "leaving",
           "cancel", "discard", "release", "gone",
           "held",   \* closed: a process may be left that would still act
           "closed", \* closed: its reservation could not be removed
           "hung"}   \* closed: shutdown() has begun and does not end
\* The helper goes on with the update, or is on its way out.
GoingOn == {"waiting", "setup", "starting", "persisting", "acking", "releasing"}
GivingUp == {"stopping", "failing", "unlocking"}

TypeOK ==
  /\ bridge \in Phases /\ frozen \in BOOLEAN /\ busy \subseteq {"request", "session"}
  /\ lock \in {"none", "bridge", "helper"}
  /\ helper \in GoingOn \cup GivingUp
                  \cup {"none", "boot", "ready", "retaining", "holding", "gone"}
  /\ told \in {"nothing", "prepare", "commit", "committed"}
  /\ child \in {"none", "locking", "checking", "installing", "done", "failed"}
  /\ repl \in {"none", "boot", "ready", "lapsed", "stuck", "serving", "gone"}
  /\ setupLock \in {"none", "child", "user"}
  /\ user \in {"idle", "checking", "removing", "installing"}
  /\ installed \in {"valid", "broken"}
  /\ receipt \in {"none", "staging", "prepared", "restarting", "succeeded", "failed"}
  /\ updates \in 0..MaxUpdates /\ starts \in 0..MaxStarts /\ setups \in 0..MaxSetups
  /\ mishaps \in 0..MaxMishaps

Init ==
  /\ bridge = "serving" /\ frozen = FALSE /\ busy = {}
  /\ lock = "none" /\ helper = "none" /\ told = "nothing"
  /\ child = "none" /\ repl = "none" /\ setupLock = "none" /\ user = "idle"
  /\ installed = "valid" /\ receipt = "none"
  /\ updates = 0 /\ starts = 0 /\ setups = 0 /\ mishaps = 0

-----------------------------------------------------------------------------
(* Who is alive, and what that makes of the locks. *)

Mishap(f) == f \in Faults /\ mishaps < MaxMishaps /\ mishaps' = mishaps + 1

BridgeAlive == bridge # "gone"
HelperAlive == helper \notin {"none", "gone"}
LockLive == \/ lock = "bridge" /\ BridgeAlive
            \/ lock = "helper" /\ HelperAlive
SetupLive == \/ setupLock = "user" /\ user # "idle"
             \/ setupLock = "child" /\ child \in {"checking", "installing"}
Active == receipt \in {"staging", "prepared", "restarting"}

-----------------------------------------------------------------------------
(* The bridge's own work. *)

\* enter(): a mutating request or a launch is admitted.
Admit ==
  /\ BridgeAlive /\ ~frozen /\ "request" \notin busy
  /\ busy' = busy \cup {"request"}
  /\ UNCHANGED <<bridge, frozen, new, disk, others, mishaps>>
\* Its token is released; a launch leaves a running session.
Finish ==
  /\ "request" \in busy
  /\ \/ busy' = busy \ {"request"}
     \/ busy' = (busy \ {"request"}) \cup {"session"}
  /\ UNCHANGED <<bridge, frozen, new, disk, others, mishaps>>
SessionEnds ==
  /\ "session" \in busy /\ busy' = busy \ {"session"}
  /\ UNCHANGED <<bridge, frozen, new, disk, others, mishaps>>

-----------------------------------------------------------------------------
(* request() and run(), up to the handoff. *)

Goto(phase) == bridge' = phase

RequestUpdate ==
  /\ bridge = "serving" /\ ~frozen /\ "session" \notin busy
  /\ updates < MaxUpdates /\ updates' = updates + 1
  /\ receipt' = "staging" /\ Goto("accepted")
  /\ UNCHANGED <<frozen, busy, lock, setupLock, installed, new, user, starts, setups, mishaps>>

\* The ticket: the response is sealed and delivered, or it is not.
TicketDelivered ==
  /\ bridge = "accepted" /\ Goto("starting")
  /\ UNCHANGED <<frozen, busy, new, disk, others, mishaps>>
TicketCancelled ==
  /\ bridge = "accepted" /\ Goto("serving") /\ receipt' = "failed"
  /\ UNCHANGED <<frozen, busy, lock, setupLock, installed, new, others, mishaps>>

\* reserveUpdate writes the reservation under the guard, then looks for a setup.
Reserve ==
  /\ bridge = "starting" /\ ~LockLive
  /\ lock' = "bridge" /\ Goto("reserving")
  /\ UNCHANGED <<frozen, busy, setupLock, installed, receipt, new, others, mishaps>>
\* Mutant: nobody looks for a setup once the reservation is written.
ReservedBlindly ==
  /\ bridge = "reserving" /\ Goto("staging")
  /\ UNCHANGED <<frozen, busy, new, disk, others, mishaps>>
Reserved ==
  /\ bridge = "reserving" /\ setupLock = "none" /\ Goto("staging")
  /\ UNCHANGED <<frozen, busy, new, disk, others, mishaps>>
\* Authority is gone, or somebody else updates or sets up.
ReserveFails ==
  /\ bridge \in {"starting", "reserving"}
  /\ bridge = "reserving" => setupLock # "none"
  /\ lock' = IF bridge = "reserving" THEN "none" ELSE lock
  /\ Goto("serving") /\ receipt' = "failed"
  /\ UNCHANGED <<frozen, busy, setupLock, installed, new, others, mishaps>>

\* The release is staged and admission closed, or there is no such release.
Freeze ==
  /\ bridge = "staging" /\ Goto("draining") /\ frozen' = TRUE
  /\ UNCHANGED <<busy, new, disk, others, mishaps>>
StageFails ==
  /\ bridge = "staging" /\ Goto("release")
  /\ UNCHANGED <<frozen, busy, new, disk, others, mishaps>>
\* npm was killed and not seen to exit: nothing is released any more.
StageUnproven ==
  /\ bridge = "staging" /\ Mishap("unproven")
  /\ Goto("held") /\ frozen' = TRUE /\ receipt' = "restarting"
  /\ UNCHANGED <<busy, lock, setupLock, installed, new, others>>

\* Mutant: what is under way when admission closes is not waited for.
DrainedAtOnce ==
  /\ bridge = "draining" /\ Goto("quiet")
  /\ UNCHANGED <<frozen, busy, new, disk, others, mishaps>>
Drained ==
  /\ bridge = "draining" /\ "request" \notin busy /\ Goto("quiet")
  /\ UNCHANGED <<frozen, busy, new, disk, others, mishaps>>
\* Requests outlast the drain, sessions run, authority is gone.
PrepareRefused ==
  /\ \/ bridge = "draining" /\ "request" \in busy
     \/ bridge = "quiet"
  /\ Goto("discard")
  /\ UNCHANGED <<frozen, busy, new, disk, others, mishaps>>

\* prepareHandoff forks the helper and makes it the owner before its first await.
Fork ==
  /\ bridge = "quiet" /\ "session" \notin busy /\ lock = "bridge"
  /\ helper' = "boot" /\ told' = "prepare" /\ lock' = "helper"
  /\ Goto("preparing")
  /\ UNCHANGED <<frozen, busy, child, repl, setupLock, installed, receipt, others, mishaps>>
HandoffPrepared ==
  /\ bridge = "preparing" /\ helper = "ready"
  /\ Goto("prepared") /\ receipt' = "prepared"
  /\ UNCHANGED <<frozen, busy, lock, setupLock, installed, new, others, mishaps>>
\* No 'prepared' in time: the helper is killed, and seen to exit or not.
HandoffFails ==
  /\ bridge = "preparing"
  /\ \/ helper = "gone" /\ UNCHANGED mishaps
     \/ HelperAlive /\ Mishap("late")
  /\ helper' = "gone" /\ Goto("discard")
  /\ UNCHANGED <<frozen, busy, told, child, repl, disk, others>>
HandoffUncertain ==
  /\ bridge = "preparing" /\ HelperAlive /\ Mishap("unproven")
  /\ Goto("held") /\ receipt' = "restarting"
  /\ UNCHANGED <<frozen, busy, lock, setupLock, installed, new, others>>

\* Authority and sessions are looked at again; then the helper may go on.
Commit ==
  /\ bridge = "prepared" /\ "session" \notin busy
  /\ told' = "commit" /\ receipt' = "restarting" /\ Goto("committing")
  /\ UNCHANGED <<frozen, busy, lock, setupLock, installed, helper, child, repl, others, mishaps>>
Committed ==
  /\ bridge = "committing" /\ told = "committed" /\ Goto("confirming")
  /\ UNCHANGED <<frozen, busy, new, disk, others, mishaps>>
\* Authority is looked at once more, and the bridge shuts down.
Confirm ==
  /\ bridge = "confirming" /\ Goto("leaving")
  /\ UNCHANGED <<frozen, busy, new, disk, others, mishaps>>
\* Any of that fails, or the helper does not answer.
CommitFails ==
  /\ \/ bridge \in {"prepared", "confirming"} /\ UNCHANGED mishaps
     \/ bridge = "committing"
          /\ IF HelperAlive THEN Mishap("late")
             ELSE told = "commit" /\ UNCHANGED mishaps
  /\ Goto("cancel")
  /\ UNCHANGED <<frozen, busy, new, disk, others>>

Leave ==
  /\ bridge = "leaving" /\ Goto("gone") /\ busy' = {}
  /\ UNCHANGED <<frozen, new, disk, others, mishaps>>
LeaveHangs ==
  /\ bridge = "leaving" /\ Mishap("hang")
  /\ Goto("hung") /\ receipt' = "restarting"
  /\ UNCHANGED <<frozen, busy, lock, setupLock, installed, new, others>>

-----------------------------------------------------------------------------
(* run() backing out. *)

\* cancel() kills the helper and waits until it is gone.
Cancel ==
  /\ bridge = "cancel" /\ helper' = "gone" /\ Goto("discard")
  /\ UNCHANGED <<frozen, busy, told, child, repl, disk, others, mishaps>>
CancelUnproven ==
  /\ bridge = "cancel" /\ HelperAlive /\ Mishap("unproven")
  /\ Goto("held") /\ receipt' = "restarting"
  /\ UNCHANGED <<frozen, busy, lock, setupLock, installed, new, others>>
Discard ==
  /\ bridge = "discard" /\ Goto("release")
  /\ UNCHANGED <<frozen, busy, new, disk, others, mishaps>>
\* release() removes the reservation, its own or its dead helper's; then
\* admission is open again.
Release ==
  /\ bridge = "release" /\ lock # "none" /\ (lock = "helper" => ~HelperAlive)
  /\ lock' = "none" /\ frozen' = FALSE
  /\ Goto("serving") /\ receipt' = "failed"
  /\ UNCHANGED <<busy, setupLock, installed, new, others, mishaps>>
\* A setup took it for left over, the helper gave it back, or the helper lives:
\* admission stays closed.
ReleaseFails ==
  /\ bridge = "release" /\ (lock = "none" \/ (lock = "helper" /\ HelperAlive))
  /\ Goto("closed") /\ receipt' = "restarting"
  /\ UNCHANGED <<frozen, busy, lock, setupLock, installed, new, others, mishaps>>

-----------------------------------------------------------------------------
(* The helper: helperMain. *)

HelperPrepared ==
  /\ helper = "boot" /\ told = "prepare" /\ helper' = "ready"
  /\ UNCHANGED <<old, told, child, repl, disk, others, mishaps>>
HelperCommitted ==
  /\ helper = "ready" /\ told = "commit"
  /\ helper' = "waiting" /\ told' = "committed"
  /\ UNCHANGED <<old, child, repl, disk, others, mishaps>>
\* Mutant: there is no such deadline once the helper is prepared.
HelperExpiresUnprepared ==
  /\ helper = "boot"
  /\ IF bridge = "preparing" THEN Mishap("late") ELSE UNCHANGED mishaps
  /\ helper' = "gone"
  /\ UNCHANGED <<old, told, child, repl, disk, others>>
\* Nobody commits in time: the helper exits and leaves the reservation.
HelperExpires ==
  /\ helper \in {"boot", "ready"}
  /\ IF bridge \in {"preparing", "prepared", "committing"}
     THEN Mishap("late") ELSE UNCHANGED mishaps
  /\ helper' = "gone"
  /\ UNCHANGED <<old, told, child, repl, disk, others>>

HelperSetsUp ==
  /\ helper = "waiting" /\ ~BridgeAlive
  /\ helper' = "setup" /\ child' = "locking"
  /\ UNCHANGED <<old, told, repl, disk, others, mishaps>>
HelperTired ==
  /\ helper = "waiting" /\ BridgeAlive
  /\ IF bridge \in {"held", "hung"} THEN UNCHANGED mishaps ELSE Mishap("late")
  /\ helper' = "failing"
  /\ UNCHANGED <<old, told, child, repl, disk, others>>

SetupFinished ==
  /\ helper = "setup" /\ child \in {"done", "failed"}
  /\ helper' = IF child = "done" THEN "starting" ELSE "failing"
  /\ repl' = IF child = "done" THEN "boot" ELSE repl
  /\ UNCHANGED <<old, told, child, disk, others, mishaps>>
\* Setup outlasts its deadline and is killed, seen to exit or not.
SetupKilled ==
  /\ helper = "setup" /\ child \in {"locking", "checking", "installing"}
  /\ \/ Mishap("late") /\ child' = "failed" /\ helper' = "failing"
     \/ Mishap("unproven") /\ helper' = "holding" /\ UNCHANGED child
  /\ UNCHANGED <<old, told, repl, disk, others>>

\* 'ready' came, whatever has become of the replacement since.
ReplacementReady ==
  /\ helper = "starting" /\ repl \in {"ready", "lapsed"}
  /\ helper' = "persisting"
  /\ UNCHANGED <<old, told, child, repl, disk, others, mishaps>>
ReplacementLate ==
  /\ helper = "starting"
  /\ IF repl \in {"stuck", "gone"} THEN UNCHANGED mishaps ELSE Mishap("late")
  /\ helper' = "stopping"
  /\ UNCHANGED <<old, told, child, repl, disk, others>>
\* finalizeUpdateReady: the receipt, the acknowledgement, the reservation.
\* Mutant: the reservation is released before the acknowledgement.
PersistReleases ==
  /\ helper = "persisting"
  /\ receipt' = "succeeded" /\ helper' = "acking" /\ lock' = "none"
  /\ UNCHANGED <<old, told, child, repl, setupLock, installed, others, mishaps>>
Persist ==
  /\ helper = "persisting"
  /\ receipt' = "succeeded" /\ helper' = "acking"
  /\ UNCHANGED <<old, told, child, repl, lock, setupLock, installed, others, mishaps>>
PersistFails ==
  /\ helper = "persisting" /\ Mishap("lost") /\ helper' = "stopping"
  /\ UNCHANGED <<old, told, child, repl, disk, others>>
Acked == repl' = IF repl = "ready" THEN "serving" ELSE repl
Acknowledge ==
  /\ helper = "acking" /\ Acked /\ helper' = "releasing"
  /\ UNCHANGED <<old, told, child, disk, others, mishaps>>
\* Mutant: an acknowledgement that may have arrived counts as not given.
AckUncertainStops ==
  /\ helper = "acking" /\ Mishap("lost")
  /\ Acked \/ UNCHANGED repl
  /\ helper' = "stopping"
  /\ UNCHANGED <<old, told, child, disk, others>>
\* The attempt cannot be taken back: the replacement may have been told.
AckUncertain ==
  /\ helper = "acking" /\ Mishap("lost")
  /\ Acked \/ UNCHANGED repl
  /\ helper' = "retaining"
  /\ UNCHANGED <<old, told, child, disk, others>>
HelperReleases ==
  /\ helper = "releasing" /\ lock' = "none" /\ helper' = "gone"
  /\ UNCHANGED <<old, told, child, repl, setupLock, installed, receipt, others, mishaps>>
HelperRetains ==
  /\ helper = "retaining" /\ receipt' = "restarting" /\ helper' = "holding"
  /\ UNCHANGED <<old, told, child, repl, lock, setupLock, installed, others, mishaps>>

\* Without an acknowledgement the replacement is killed, seen to exit or not.
StopReplacement ==
  /\ helper = "stopping" /\ repl' = "gone" /\ helper' = "failing"
  /\ UNCHANGED <<old, told, child, disk, others, mishaps>>
StopUnproven ==
  /\ helper = "stopping" /\ repl # "gone" /\ Mishap("unproven")
  /\ helper' = "holding"
  /\ UNCHANGED <<old, told, child, repl, disk, others>>
HelperFails ==
  /\ helper = "failing" /\ receipt' = "failed" /\ helper' = "unlocking"
  /\ UNCHANGED <<old, told, child, repl, lock, setupLock, installed, others, mishaps>>
HelperUnlocks ==
  /\ helper = "unlocking" /\ helper' = "gone"
  /\ lock' = IF lock = "helper" THEN "none" ELSE lock
  /\ UNCHANGED <<old, told, child, repl, setupLock, installed, receipt, others, mishaps>>

-----------------------------------------------------------------------------
(* What the helper starts: performSetup and the replacement's startup. *)

ChildLocks ==
  /\ child = "locking"
  /\ IF SetupLive THEN child' = "failed" /\ UNCHANGED setupLock
     ELSE child' = "checking" /\ setupLock' = "child"
  /\ UNCHANGED <<old, helper, told, repl, lock, installed, receipt, others, mishaps>>
\* authorizedContext: its parent is the helper that owns the reservation.
ChildChecks ==
  /\ child = "checking"
  /\ IF helper \in {"setup", "holding"} /\ lock = "helper"
     THEN child' = "installing" /\ installed' = "broken" /\ UNCHANGED setupLock
     ELSE child' = "failed" /\ setupLock' = "none" /\ UNCHANGED installed
  /\ UNCHANGED <<old, helper, told, repl, lock, receipt, others, mishaps>>
ChildEnds ==
  /\ child = "installing" /\ setupLock' = "none"
  /\ \/ child' = "done" /\ installed' = "valid"
     \/ child' = "failed" /\ UNCHANGED installed
  /\ UNCHANGED <<old, helper, told, repl, lock, receipt, others, mishaps>>

\* The replacement proves its context, comes up frozen and reports, or does not.
ReplacementStarts ==
  /\ repl = "boot"
  /\ repl' \in IF helper \in {"starting", "stopping", "holding"} /\ lock = "helper"
                 /\ installed = "valid"
              THEN {"ready", "stuck", "gone"} ELSE {"stuck", "gone"}
  /\ UNCHANGED <<old, helper, told, child, disk, others, mishaps>>
\* No acknowledgement in time: it stays up, and stays frozen.
ReplacementLapses ==
  /\ repl = "ready"
  /\ IF helper \in {"starting", "persisting", "acking"} THEN Mishap("late")
     ELSE UNCHANGED mishaps
  /\ repl' = "lapsed"
  /\ UNCHANGED <<old, helper, told, child, disk, others>>

-----------------------------------------------------------------------------
(* The user's setup and start. *)

UserLocks ==
  /\ user = "idle" /\ setups < MaxSetups /\ setups' = setups + 1
  /\ IF SetupLive THEN UNCHANGED <<user, setupLock>>
     ELSE user' = "checking" /\ setupLock' = "user"
  /\ UNCHANGED <<old, new, lock, installed, receipt, updates, starts, mishaps>>
UserRefused == user' = "idle" /\ setupLock' = "none" /\ UNCHANGED <<lock, installed>>
UserInstalls == user' = "installing" /\ installed' = "broken" /\ UNCHANGED setupLock
\* assertUpdateReservationAllowed, then the reservation's guard (Reserve holds it).
UserChecks ==
  /\ user = "checking"
  /\ CASE lock = "none" -> UserInstalls /\ UNCHANGED lock
       [] LockLive -> UserRefused
       [] OTHER -> user' = "removing" /\ UNCHANGED <<lock, setupLock, installed>>
  /\ UNCHANGED <<old, new, receipt, updates, starts, setups, mishaps>>
UserRemoves ==
  /\ user = "removing"
  /\ IF lock # "none" /\ ~LockLive THEN UserInstalls /\ lock' = "none" ELSE UserRefused
  /\ UNCHANGED <<old, new, receipt, updates, starts, setups, mishaps>>
\* Setup succeeds, or throws with the runtime half replaced.
UserEnds ==
  /\ user = "installing" /\ user' = "idle" /\ setupLock' = "none"
  /\ installed' = "valid" \/ UNCHANGED installed
  /\ UNCHANGED <<old, new, lock, receipt, updates, starts, setups, mishaps>>

\* A user starts a bridge once none serves; initialize() settles its receipt.
StartBridge ==
  /\ ~BridgeAlive /\ repl # "serving"
  /\ starts < MaxStarts /\ starts' = starts + 1
  /\ ~LockLive /\ installed = "valid"
  /\ bridge' = "serving" /\ frozen' = FALSE /\ busy' = {}
  /\ lock' = "none" /\ receipt' = IF Active THEN "failed" ELSE receipt
  /\ UNCHANGED <<new, setupLock, installed, user, updates, setups, mishaps>>

-----------------------------------------------------------------------------
(* Processes killed by the system or the user. *)

BridgeDies ==
  /\ BridgeAlive /\ Mishap("crash") /\ Goto("gone") /\ busy' = {}
  /\ UNCHANGED <<frozen, new, disk, others>>
HelperDies ==
  /\ HelperAlive /\ Mishap("crash") /\ helper' = "gone"
  /\ UNCHANGED <<old, told, child, repl, disk, others>>
ChildDies ==
  /\ child \in {"locking", "checking", "installing"} /\ Mishap("crash")
  /\ child' = "failed"
  /\ UNCHANGED <<old, helper, told, repl, disk, others>>
ReplacementDies ==
  /\ repl \notin {"none", "gone"} /\ Mishap("crash") /\ repl' = "gone"
  /\ UNCHANGED <<old, helper, told, child, disk, others>>
UserDies ==
  /\ user # "idle" /\ Mishap("crash") /\ user' = "idle"
  /\ UNCHANGED <<old, new, disk, updates, starts, setups>>
Crash == BridgeDies \/ HelperDies \/ ChildDies \/ ReplacementDies \/ UserDies

-----------------------------------------------------------------------------
Work == Admit \/ Finish \/ SessionEnds
Run == \/ TicketDelivered \/ TicketCancelled \/ Reserve \/ Reserved \/ ReserveFails
       \/ Freeze \/ StageFails \/ StageUnproven \/ Drained \/ PrepareRefused
       \/ Fork \/ HandoffPrepared \/ HandoffFails \/ HandoffUncertain
       \/ Commit \/ Committed \/ Confirm \/ CommitFails \/ Leave \/ LeaveHangs
       \/ Cancel \/ CancelUnproven \/ Discard \/ Release \/ ReleaseFails
Help == \/ HelperPrepared \/ HelperCommitted \/ HelperExpires \/ HelperSetsUp \/ HelperTired
        \/ SetupFinished \/ SetupKilled \/ ReplacementReady \/ ReplacementLate
        \/ Persist \/ PersistFails \/ Acknowledge \/ AckUncertain \/ HelperReleases
        \/ HelperRetains \/ StopReplacement \/ StopUnproven \/ HelperFails \/ HelperUnlocks
Setup == ChildLocks \/ ChildChecks \/ ChildEnds
Replacement == ReplacementStarts \/ ReplacementLapses
User == UserLocks \/ UserChecks \/ UserRemoves \/ UserEnds \/ StartBridge

Next == Work \/ RequestUpdate \/ Run \/ Help \/ Setup \/ Replacement \/ User \/ Crash

Spec == Init /\ [][Next]_vars

\* Each process runs on, and every wait in it has a deadline.  Nobody has to
\* ask for an update, start a bridge or run setup.
FairSpec == /\ Spec /\ WF_vars(Run) /\ WF_vars(Help) /\ WF_vars(Setup)
            /\ WF_vars(Replacement) /\ WF_vars(UserChecks \/ UserRemoves \/ UserEnds)

-----------------------------------------------------------------------------
\* A bridge takes work only while no other does.
OneServes == ~(BridgeAlive /\ ~frozen /\ repl = "serving")

\* An update is under way from the check for setups to the helper's end.
UnderWay == \/ bridge \in {"staging", "draining", "quiet"}
            \/ helper \in GoingOn \cup {"boot", "ready"}

\* The runtime on disk is replaced by one setup at a time: a user's setup
\* never runs during an update, nor beside the update's own setup, which in
\* turn never runs under the old bridge.
InstallsAlone ==
  /\ user = "installing" => ~UnderWay /\ child # "installing"
  /\ child = "installing" /\ helper = "setup" => ~BridgeAlive

\* A bridge shuts down for an update with nothing admitted and nothing running.
NoWorkLost == bridge = "leaving" => busy = {}

\* An update that is recorded as failed is over: no helper goes on with it,
\* and no replacement that it would have to kill has taken work.
FailedIsOver ==
  /\ receipt = "failed" => helper \notin GoingOn \cup {"boot"}
  /\ helper \in {"stopping", "failing"} => repl # "serving"

\* However an update ends, in the end a bridge takes work, or one can be
\* started, or, with a runtime that a setup has left half replaced, a user's
\* setup can be run, which is what `ftown start` then asks for.  Otherwise a
\* process is knowingly kept: one that is not known to be gone may still act.
\* Two ends are neither, and are named for what they are (LeftClosed): a bridge
\* that stays up and takes no work because its reservation was removed while it
\* backed out, by a user's setup or by a helper that gave up before it was
\* cancelled; and one whose shutdown() does not end.
Served == (BridgeAlive /\ ~frozen) \/ repl = "serving"
Startable == ~BridgeAlive /\ ~LockLive /\ installed = "valid"
Repairable == ~BridgeAlive /\ ~LockLive /\ ~SetupLive /\ installed = "broken"
KeptUnproven == bridge = "held" \/ helper = "holding"
LeftClosed == (bridge = "closed" /\ lock = "none") \/ bridge = "hung"
Settles == []<>(Served \/ Startable \/ Repairable \/ KeptUnproven \/ LeftClosed)
=============================================================================
