-------------------------- MODULE PullRequestEvents --------------------------
(***************************************************************************)
(* The pull-request watcher of one linked session                          *)
(* (src/bridge/src/pull-request-events.ts) on top of its durable inbox.    *)
(* A scan snapshots the link, retries a pending wake, observes the pull    *)
(* request, commits the observation under the session's mutation lock and  *)
(* wakes the session; between its awaits the user relinks the session,     *)
(* readers drain the inbox, senders append to it, or the bridge restarts.  *)
(***************************************************************************)
EXTENDS MailStore

VARIABLES
    linkId,  \* the session's pullRequestLinkId, 0 without a link
    links,   \* links given out so far
    phase,   \* where the scan is between two awaits
    scanned, \* the link id the scan has snapshot
    obs,     \* what the scan observed
    pending, \* pendingWake: the link whose wake is owed, 0 for none
    ready,   \* the session's process is attached
    announced \* unread messages the last wake pointed at

watch == <<linkId, links, phase, scanned, obs, pending, ready, announced>>
vars == <<store, watch>>

NoObs == [state |-> "unknown", head |-> NoHead]

\* updateSession links another pull request, or none.
Relink ==
    /\ \/ /\ links < MaxLinks
          /\ links' = links + 1 /\ linkId' = links + 1
       \/ linkId # 0 /\ linkId' = 0 /\ UNCHANGED links
    /\ UNCHANGED <<store, phase, scanned, obs, pending, ready, announced>>

\* runOnce: no scan is in flight.
ScanLinks ==
    /\ phase = "idle"
    /\ scanned' = linkId
    /\ phase' = "wake"
    /\ UNCHANGED <<store, linkId, links, obs, pending, ready, announced>>

\* notifyCommitted points a running session at everything unread.
Announce == announced' = IF ready THEN Unread ELSE announced

\* A wake that is owed is retried, unless the link is gone.
ScanWake ==
    /\ phase = "wake"
    /\ \/ /\ pending # 0 /\ pending = linkId
          /\ \/ Announce /\ pending' = 0
             \/ UNCHANGED <<announced, pending>>
       \/ pending # linkId /\ pending' = 0 /\ UNCHANGED announced
       \/ pending = 0 /\ UNCHANGED <<announced, pending>>
    /\ phase' = IF scanned = 0 THEN "idle" ELSE "observe"
    /\ UNCHANGED <<store, linkId, links, scanned, obs, ready>>

\* getObservations: fresh, or stale and to be ignored.
ScanObserve ==
    /\ phase = "observe"
    /\ \/ \E o \in Observations : obs' = o /\ phase' = "commit"
       \/ UNCHANGED obs /\ phase' = "idle"
    /\ UNCHANGED <<store, linkId, links, scanned, pending, ready, announced>>

\* The scan ends for this link without a wake.
ScanSkip ==
    /\ phase = "commit" /\ linkId # scanned
    /\ phase' = "idle" /\ obs' = NoObs
    /\ UNCHANGED <<store, linkId, links, scanned, pending, ready, announced>>

\* Mutant: the observation is committed whatever the session links now.
ScanCommitStale ==
    /\ phase = "commit"
    /\ Commit(scanned, obs)
    /\ phase' = "notify" /\ obs' = NoObs
    /\ UNCHANGED <<linkId, links, scanned, pending, ready, announced>>
\* Under the mutation lock: the session still has the observed link.
ScanCommit ==
    /\ phase = "commit" /\ linkId = scanned
    /\ Commit(scanned, obs)
    /\ phase' = "notify" /\ obs' = NoObs
    /\ UNCHANGED <<linkId, links, scanned, pending, ready, announced>>

\* Mutant: a failed commit is forgotten.
ScanCommitForgets ==
    /\ phase = "commit" /\ linkId = scanned
    /\ \/ UNCHANGED store
       \/ Changed(scanned, obs) /\ Recordable(scanned)
            /\ Enqueue(scanned, obs) /\ UNCHANGED acked
    /\ phase' = "idle" /\ obs' = NoObs
    /\ UNCHANGED <<linkId, links, scanned, pending, ready, announced>>
\* The commit throws, before or after its rename: a wake is owed.
ScanCommitFails ==
    /\ phase = "commit" /\ linkId = scanned
    /\ \/ UNCHANGED store
       \/ Changed(scanned, obs) /\ Recordable(scanned)
            /\ Enqueue(scanned, obs) /\ UNCHANGED acked
    /\ pending' = scanned
    /\ phase' = "idle" /\ obs' = NoObs
    /\ UNCHANGED <<linkId, links, scanned, ready, announced>>

ScanNotify ==
    /\ phase = "notify"
    /\ \/ Announce /\ pending' = 0
       \/ pending' = scanned /\ UNCHANGED announced
    /\ phase' = "idle"
    /\ UNCHANGED <<store, linkId, links, scanned, obs, ready>>

\* A reader takes some of the inbox, a sender appends to it.
Drain == (\E S \in SUBSET Unread : MarkDelivered(S)) /\ UNCHANGED watch
Send(m) == (Append1(m) \/ AppendTorn(m)) /\ UNCHANGED watch

\* The bridge restarts: only the file and the session record survive.
Restart ==
    /\ ready
    /\ phase' = "idle" /\ pending' = 0 /\ obs' = NoObs /\ ready' = FALSE
    /\ UNCHANGED <<store, linkId, links, scanned, announced>>

\* The session's process exits; the watcher goes on.
SessionExits ==
    /\ ready /\ ready' = FALSE
    /\ UNCHANGED <<store, linkId, links, phase, scanned, obs, pending, announced>>

\* The process is attached (again): recoverPendingMail.
SessionReady ==
    /\ ~ready /\ ready' = TRUE
    /\ announced' = Unread
    /\ UNCHANGED <<store, linkId, links, phase, scanned, obs, pending>>

-----------------------------------------------------------------------------
Init ==
    /\ StoreInit
    /\ linkId = 0 /\ links = 0 /\ phase = "idle" /\ scanned = 0
    /\ obs = NoObs /\ pending = 0 /\ ready = TRUE /\ announced = {}

Scan == ScanLinks \/ ScanWake \/ ScanObserve \/ ScanSkip \/ ScanCommit
          \/ ScanCommitFails \/ ScanNotify

Next == \/ Relink \/ Scan \/ Drain \/ Restart \/ SessionExits \/ SessionReady
        \/ \E m \in Mail : Send(m)

Spec == Init /\ [][Next]_vars

\* Scans recur, and a wake that is retried again and again gets through.
\* Nobody promises that a session is attached again.
Fairness == /\ WF_vars(ScanLinks) /\ WF_vars(ScanWake) /\ WF_vars(ScanObserve)
            /\ WF_vars(ScanSkip) /\ WF_vars(ScanCommit \/ ScanCommitFails)
            /\ WF_vars(ScanNotify)
            /\ SF_vars(ScanWake /\ (pending # 0 /\ pending = linkId => pending' = 0))
FairSpec == Spec /\ Fairness
-----------------------------------------------------------------------------
TypeOK ==
    /\ StoreTypeOK
    /\ linkId \in 0..MaxLinks /\ links \in 0..MaxLinks
    /\ scanned \in 0..MaxLinks /\ pending \in 0..MaxLinks
    /\ phase \in {"idle", "wake", "observe", "commit", "notify"}
    /\ obs \in Observations \cup {NoObs}
    /\ ready \in BOOLEAN /\ announced \subseteq Ids

\* A notice is only ever written for the pull request the session links at
\* that moment, however long the observation took.
NoticeForCurrentLink ==
    [][checkpoint' # checkpoint => checkpoint'.link = linkId]_vars

\* A committed notice is announced to its session, whichever of its commit,
\* its wake or the bridge failed, unless it is read first, the session is
\* linked elsewhere or its process never comes back.
Settled == \A n \in Notices \cap Unread : n \in announced \/ n.link # linkId
NoticesAnnounced == []<>Settled \/ <>[]~ready
=============================================================================
