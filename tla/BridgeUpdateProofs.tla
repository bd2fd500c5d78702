------------------------- MODULE BridgeUpdateProofs -------------------------
(***************************************************************************)
(* The safety properties of BridgeUpdate, for any mix of mishaps and any   *)
(* number of updates, starts and setups.  The argument: the reservation    *)
(* follows the work.  It belongs to the bridge from the check for setups   *)
(* until the helper is forked, and to the helper as long as that lives; so *)
(* nobody who respects a live reservation starts a bridge or a setup       *)
(* meanwhile, and what an update finds when it reserves stays that way.    *)
(***************************************************************************)
EXTENDS BridgeUpdate, TLAPS

\* Who works on the update owns the reservation.
ReservationHeld ==
  /\ HelperAlive => lock = "helper"
  /\ bridge \in {"reserving", "staging", "draining", "quiet"} => lock = "bridge"

\* While a helper lives the bridge is past the handoff, and gone once the
\* helper has begun the setup.
HandedOver ==
  /\ HelperAlive => bridge \in {"preparing", "prepared", "committing", "confirming",
                                "leaving", "cancel", "held", "hung", "gone"}
  /\ helper \in {"setup", "starting", "persisting", "acking", "releasing",
                 "stopping", "retaining"} => bridge = "gone"

\* The replacement takes work only when the bridge is gone, and from a helper
\* that will not stop it.
Succession ==
  /\ repl = "serving" => bridge = "gone"
  /\ repl = "serving" => helper \in {"releasing", "retaining", "holding", "gone"}

\* Whoever is past acquireSetupLock owns setup.lock.
SetupOwned ==
  /\ user # "idle" => setupLock = "user"
  /\ child \in {"checking", "installing"} => setupLock = "child"
  /\ user = "installing" => ~UnderWay

\* The receipt says what becomes of the attempt.
ReceiptTrue ==
  /\ bridge \in {"accepted", "starting", "reserving", "staging", "draining", "quiet"}
       => receipt = "staging"
  /\ receipt = "failed" => helper \notin GoingOn \cup {"boot", "ready"}

\* Admission is closed from the drain on, and nothing outlasts it.
Fenced ==
  /\ bridge \in {"draining", "quiet", "preparing", "prepared", "committing",
                 "confirming", "leaving"} => frozen
  /\ bridge = "quiet" => "request" \notin busy
  /\ bridge \in {"preparing", "prepared", "committing", "confirming", "leaving"}
       => busy = {}

IInv == TypeOK /\ ReservationHeld /\ HandedOver /\ Succession
               /\ SetupOwned /\ ReceiptTrue /\ Fenced

-----------------------------------------------------------------------------
\* Nothing has happened yet.
LEMMA InitKeeps == Init => IInv
<1> SUFFICES ASSUME Init PROVE IInv
  OBVIOUS
<1>1. TypeOK
  <2>1. bridge \in Phases /\ frozen \in BOOLEAN /\ busy \subseteq {"request", "session"}
    BY DEF Init, Phases
  <2>2. /\ updates \in 0..MaxUpdates /\ starts \in 0..MaxStarts /\ setups \in 0..MaxSetups
        /\ mishaps \in 0..MaxMishaps
    BY UpdateAssumption DEF Init
  <2> QED
    BY <2>1, <2>2 DEF Init, TypeOK, GoingOn, GivingUp
<1>2. ReservationHeld /\ HandedOver /\ Succession
  BY DEF Init, ReservationHeld, HandedOver, Succession, HelperAlive
<1>3. SetupOwned /\ ReceiptTrue /\ Fenced
  BY DEF Init, SetupOwned, ReceiptTrue, Fenced, UnderWay, GoingOn
<1> QED
  BY <1>1, <1>2, <1>3 DEF IInv

\* What the bridge works on while its admission is open does not disturb an update.
LEMMA WorkKeeps ==
  ASSUME IInv,
         Work
  PROVE  IInv'
<1> USE DEF IInv, TypeOK, Phases, GoingOn, GivingUp, ReservationHeld, HandedOver,
            Succession, SetupOwned, ReceiptTrue, Fenced, UnderWay, BridgeAlive,
            HelperAlive, old, new, disk, others
<1>1. CASE Admit
  BY <1>1 DEF Admit
<1>2. CASE Finish
  <2>1. CASE busy' = busy \ {"request"}
    BY <1>2, <2>1 DEF Finish
  <2>2. CASE busy' = (busy \ {"request"}) \cup {"session"}
    <3>1. busy' \subseteq {"request", "session"} /\ "request" \notin busy'
      BY <2>2
    <3>2. bridge \notin {"quiet", "preparing", "prepared", "committing", "confirming", "leaving"}
      BY <1>2 DEF Finish
    <3> QED
      BY <1>2, <3>1, <3>2 DEF Finish
  <2> QED
    BY <1>2, <2>1, <2>2 DEF Finish
<1>3. CASE SessionEnds
  BY <1>3 DEF SessionEnds
<1> QED
  BY <1>1, <1>2, <1>3 DEF Work

\* request() and run() up to the handoff: the reservation is the bridge's, and it is
\* written before the look for a setup.
LEMMA StagingKeeps ==
  ASSUME IInv,
         RequestUpdate \/ TicketDelivered \/ TicketCancelled
         \/ Reserve \/ Reserved \/ ReserveFails \/ Freeze
         \/ StageFails \/ StageUnproven \/ Drained
         \/ PrepareRefused
  PROVE  IInv'
<1> USE DEF IInv, TypeOK, Phases, GoingOn, GivingUp, ReservationHeld, HandedOver,
            Succession, SetupOwned, ReceiptTrue, Fenced, UnderWay, BridgeAlive,
            HelperAlive, old, new, disk, others
<1>1. CASE RequestUpdate
  BY <1>1, UpdateAssumption DEF RequestUpdate, Goto
<1>2. CASE TicketDelivered
  BY <1>2 DEF TicketDelivered, Goto
<1>3. CASE TicketCancelled
  BY <1>3 DEF TicketCancelled, Goto
<1>4. CASE Reserve
  BY <1>4 DEF Reserve, Goto, LockLive
<1>5. CASE Reserved
  BY <1>5 DEF Reserved, Goto
<1>6. CASE ReserveFails
  BY <1>6 DEF ReserveFails, Goto
<1>7. CASE Freeze
  BY <1>7 DEF Freeze, Goto
<1>8. CASE StageFails
  BY <1>8 DEF StageFails, Goto
<1>9. CASE StageUnproven
  BY <1>9, UpdateAssumption DEF StageUnproven, Goto, Mishap
<1>10. CASE Drained
  BY <1>10 DEF Drained, Goto
<1>11. CASE PrepareRefused
  BY <1>11 DEF PrepareRefused, Goto
<1> QED
  BY <1>1, <1>2, <1>3, <1>4, <1>5, <1>6, <1>7, <1>8, <1>9, <1>10, <1>11

\* run() from the fork to the exit: the reservation passes to the helper.
LEMMA HandoffKeeps ==
  ASSUME IInv,
         Fork \/ HandoffPrepared \/ HandoffFails
         \/ HandoffUncertain \/ Commit \/ Committed
         \/ Confirm \/ CommitFails \/ Leave \/ LeaveHangs
  PROVE  IInv'
<1> USE DEF IInv, TypeOK, Phases, GoingOn, GivingUp, ReservationHeld, HandedOver,
            Succession, SetupOwned, ReceiptTrue, Fenced, UnderWay, BridgeAlive,
            HelperAlive, old, new, disk, others
<1>1. CASE Fork
  BY <1>1 DEF Fork, Goto
<1>2. CASE HandoffPrepared
  BY <1>2 DEF HandoffPrepared, Goto
<1>3. CASE HandoffFails
  BY <1>3, UpdateAssumption DEF HandoffFails, Goto, Mishap
<1>4. CASE HandoffUncertain
  BY <1>4, UpdateAssumption DEF HandoffUncertain, Goto, Mishap
<1>5. CASE Commit
  BY <1>5 DEF Commit, Goto
<1>6. CASE Committed
  BY <1>6 DEF Committed, Goto
<1>7. CASE Confirm
  BY <1>7 DEF Confirm, Goto
<1>8. CASE CommitFails
  BY <1>8, UpdateAssumption DEF CommitFails, Goto, Mishap
<1>9. CASE Leave
  BY <1>9 DEF Leave, Goto
<1>10. CASE LeaveHangs
  BY <1>10, UpdateAssumption DEF LeaveHangs, Goto, Mishap
<1> QED
  BY <1>1, <1>2, <1>3, <1>4, <1>5, <1>6, <1>7, <1>8, <1>9, <1>10

\* run() backing out: the helper is dead before admission is open again.
LEMMA BackingOutKeeps ==
  ASSUME IInv,
         Cancel \/ CancelUnproven \/ Discard \/ Release
         \/ ReleaseFails
  PROVE  IInv'
<1> USE DEF IInv, TypeOK, Phases, GoingOn, GivingUp, ReservationHeld, HandedOver,
            Succession, SetupOwned, ReceiptTrue, Fenced, UnderWay, BridgeAlive,
            HelperAlive, old, new, disk, others
<1>1. CASE Cancel
  BY <1>1 DEF Cancel, Goto
<1>2. CASE CancelUnproven
  BY <1>2, UpdateAssumption DEF CancelUnproven, Goto, Mishap
<1>3. CASE Discard
  BY <1>3 DEF Discard, Goto
<1>4. CASE Release
  <2>1. ~HelperAlive
    BY <1>4 DEF Release
  <2>2. TypeOK'
    <3>1. bridge' \in Phases /\ frozen' \in BOOLEAN /\ lock' = "none" /\ receipt' = "failed"
      BY <1>4 DEF Release, Goto
    <3> QED
      BY <1>4, <3>1 DEF Release
  <2>3. ReservationHeld' /\ HandedOver' /\ Succession'
    BY <1>4, <2>1 DEF Release, Goto
  <2>4. SetupOwned' /\ ReceiptTrue' /\ Fenced'
    BY <1>4, <2>1 DEF Release, Goto
  <2> QED
    BY <2>2, <2>3, <2>4
<1>5. CASE ReleaseFails
  BY <1>5 DEF ReleaseFails, Goto
<1> QED
  BY <1>1, <1>2, <1>3, <1>4, <1>5

\* helperMain: it owns the reservation until it exits, and goes on only without
\* the bridge.
LEMMA HelpKeeps ==
  ASSUME IInv,
         Help
  PROVE  IInv'
<1> USE DEF IInv, TypeOK, Phases, GoingOn, GivingUp, ReservationHeld, HandedOver,
            Succession, SetupOwned, ReceiptTrue, Fenced, UnderWay, BridgeAlive,
            HelperAlive, old, new, disk, others
<1>1. CASE HelperPrepared
  BY <1>1 DEF HelperPrepared
<1>2. CASE HelperCommitted
  BY <1>2 DEF HelperCommitted
<1>3. CASE HelperExpires
  BY <1>3, UpdateAssumption DEF HelperExpires, Mishap
<1>4. CASE HelperSetsUp
  BY <1>4 DEF HelperSetsUp
<1>5. CASE HelperTired
  BY <1>5, UpdateAssumption DEF HelperTired, Mishap
<1>6. CASE SetupFinished
  BY <1>6 DEF SetupFinished
<1>7. CASE SetupKilled
  BY <1>7, UpdateAssumption DEF SetupKilled, Mishap
<1>8. CASE ReplacementReady
  BY <1>8 DEF ReplacementReady
<1>9. CASE ReplacementLate
  BY <1>9, UpdateAssumption DEF ReplacementLate, Mishap
<1>10. CASE Persist
  BY <1>10 DEF Persist
<1>11. CASE PersistFails
  BY <1>11, UpdateAssumption DEF PersistFails, Mishap
<1>12. CASE Acknowledge
  BY <1>12 DEF Acknowledge, Acked
<1>13. CASE AckUncertain
  BY <1>13, UpdateAssumption DEF AckUncertain, Mishap, Acked
<1>14. CASE HelperReleases
  BY <1>14 DEF HelperReleases
<1>15. CASE HelperRetains
  BY <1>15 DEF HelperRetains
<1>16. CASE StopReplacement
  BY <1>16 DEF StopReplacement
<1>17. CASE StopUnproven
  BY <1>17, UpdateAssumption DEF StopUnproven, Mishap
<1>18. CASE HelperFails
  BY <1>18 DEF HelperFails
<1>19. CASE HelperUnlocks
  BY <1>19 DEF HelperUnlocks
<1> QED
  BY <1>1, <1>2, <1>3, <1>4, <1>5, <1>6, <1>7, <1>8, <1>9, <1>10, <1>11,
     <1>12, <1>13, <1>14, <1>15, <1>16, <1>17, <1>18, <1>19 DEF Help

\* The setup and the replacement the helper starts.
LEMMA ChildrenKeep ==
  ASSUME IInv,
         ChildLocks \/ ChildChecks \/ ChildEnds
         \/ ReplacementStarts \/ ReplacementLapses
  PROVE  IInv'
<1> USE DEF IInv, TypeOK, Phases, GoingOn, GivingUp, ReservationHeld, HandedOver,
            Succession, SetupOwned, ReceiptTrue, Fenced, UnderWay, BridgeAlive,
            HelperAlive, old, new, disk, others
<1>1. CASE ChildLocks
  BY <1>1 DEF ChildLocks, SetupLive
<1>2. CASE ChildChecks
  BY <1>2 DEF ChildChecks
<1>3. CASE ChildEnds
  BY <1>3 DEF ChildEnds
<1>4. CASE ReplacementStarts
  BY <1>4 DEF ReplacementStarts
<1>5. CASE ReplacementLapses
  BY <1>5, UpdateAssumption DEF ReplacementLapses, Mishap
<1> QED
  BY <1>1, <1>2, <1>3, <1>4, <1>5

\* A user's setup and start respect a live reservation and a live setup.
LEMMA UserKeeps ==
  ASSUME IInv,
         User
  PROVE  IInv'
<1> USE DEF IInv, TypeOK, Phases, GoingOn, GivingUp, ReservationHeld, HandedOver,
            Succession, SetupOwned, ReceiptTrue, Fenced, UnderWay, BridgeAlive,
            HelperAlive, old, new, disk, others
<1>1. CASE UserLocks
  BY <1>1, UpdateAssumption DEF UserLocks, SetupLive
<1>2. CASE UserChecks
  BY <1>2 DEF UserChecks, LockLive, UserRefused, UserInstalls
<1>3. CASE UserRemoves
  BY <1>3 DEF UserRemoves, LockLive, UserRefused, UserInstalls
<1>4. CASE UserEnds
  BY <1>4 DEF UserEnds
<1>5. CASE StartBridge
  <2>1. ~HelperAlive
    BY <1>5 DEF StartBridge, LockLive
  <2>2. TypeOK'
    <3>1. receipt' \in {"failed", receipt}
      BY <1>5 DEF StartBridge
    <3>2. starts' \in 0..MaxStarts
      BY <1>5, UpdateAssumption DEF StartBridge
    <3>3. bridge' \in Phases /\ frozen' \in BOOLEAN /\ busy' \subseteq {"request", "session"}
      BY <1>5 DEF StartBridge
    <3> QED
      BY <1>5, <3>1, <3>2, <3>3 DEF StartBridge
  <2>3. ReservationHeld' /\ HandedOver' /\ Succession'
    BY <1>5, <2>1 DEF StartBridge
  <2>4. SetupOwned' /\ ReceiptTrue' /\ Fenced'
    BY <1>5, <2>1 DEF StartBridge
  <2> QED
    BY <2>2, <2>3, <2>4
<1> QED
  BY <1>1, <1>2, <1>3, <1>4, <1>5 DEF User

\* A process that is killed frees what it owned, and owes nothing more.
LEMMA CrashKeeps ==
  ASSUME IInv,
         Crash
  PROVE  IInv'
<1> USE DEF IInv, TypeOK, Phases, GoingOn, GivingUp, ReservationHeld, HandedOver,
            Succession, SetupOwned, ReceiptTrue, Fenced, UnderWay, BridgeAlive,
            HelperAlive, old, new, disk, others
<1>1. CASE BridgeDies
  BY <1>1, UpdateAssumption DEF BridgeDies, Goto, Mishap
<1>2. CASE HelperDies
  BY <1>2, UpdateAssumption DEF HelperDies, Mishap
<1>3. CASE ChildDies
  BY <1>3, UpdateAssumption DEF ChildDies, Mishap
<1>4. CASE ReplacementDies
  BY <1>4, UpdateAssumption DEF ReplacementDies, Mishap
<1>5. CASE UserDies
  BY <1>5, UpdateAssumption DEF UserDies, Mishap
<1> QED
  BY <1>1, <1>2, <1>3, <1>4, <1>5 DEF Crash

-----------------------------------------------------------------------------
\* Every step keeps the inductive invariant.
LEMMA NextKeeps == IInv /\ [Next]_vars => IInv'
<1> SUFFICES ASSUME IInv, [Next]_vars PROVE IInv'
  OBVIOUS
<1>1. CASE Run
  BY <1>1, StagingKeeps, HandoffKeeps, BackingOutKeeps DEF Run
<1>2. CASE Setup \/ Replacement
  BY <1>2, ChildrenKeep DEF Setup, Replacement
<1>3. CASE UNCHANGED vars
  BY <1>3 DEF vars, old, new, disk, others, IInv, TypeOK, ReservationHeld, HandedOver,
              Succession, SetupOwned, ReceiptTrue, Fenced, UnderWay, HelperAlive
<1> QED
  BY <1>1, <1>2, <1>3, WorkKeeps, StagingKeeps, HelpKeeps, UserKeeps, CrashKeeps DEF Next

THEOREM Inductive == Spec => []IInv
  BY InitKeeps, NextKeeps, PTL DEF Spec

\* Every variable keeps its type.
THEOREM TypeCorrect == Spec => []TypeOK
<1>1. IInv => TypeOK
  BY DEF IInv
<1> QED
  BY <1>1, Inductive, PTL

\* However an update ends, the bridge and its replacement never both take
\* work: one data directory and one endpoint are served by one process.
THEOREM OneBridgeServes == Spec => []OneServes
<1>1. IInv => OneServes
  BY DEF IInv, Succession, OneServes, BridgeAlive
<1> QED
  BY <1>1, Inductive, PTL

\* The runtime on disk is written by one setup at a time, never during an
\* update by a user's, and by the update's own only once the bridge is gone.
THEOREM InstallsExclusive == Spec => []InstallsAlone
<1>1. IInv => InstallsAlone
  BY DEF IInv, SetupOwned, HandedOver, InstallsAlone, BridgeAlive
<1> QED
  BY <1>1, Inductive, PTL

\* A bridge that shuts down for an update has nothing admitted and nothing
\* running, though sessions come and go until admission closes.
THEOREM NothingLost == Spec => []NoWorkLost
<1>1. IInv => NoWorkLost
  BY DEF IInv, Fenced, NoWorkLost
<1> QED
  BY <1>1, Inductive, PTL

\* What the receipt calls failed is over, and a replacement that may have
\* been acknowledged is not stopped any more.
THEOREM FailureFinal == Spec => []FailedIsOver
<1>1. IInv => FailedIsOver
  BY DEF IInv, ReceiptTrue, Succession, FailedIsOver
<1> QED
  BY <1>1, Inductive, PTL
=============================================================================
