-------------------------- MODULE TerminalTransport --------------------------
(***************************************************************************)
(* The browser's hybrid terminal transport: one bridge, the terminals      *)
(* (sessions) a page shows of it, and the path each of them is on.  A page *)
(* climbs a ladder of direct rungs (a loopback socket, then WebRTC), falls *)
(* back to the cloud when every rung fails or the direct peer is lost, and *)
(* keeps trying to upgrade: a new peer is committed while the sessions are *)
(* still on the cloud, and each switches over when the bridge's screen     *)
(* arrives on the peer.                                                    *)
(*                                                                         *)
(* JavaScript runs each callback to its end, so a callback is one step and *)
(* the methods it calls are operators from transport state to transport    *)
(* state, composed as the code composes them.  What interleaves is what    *)
(* the code awaits: rungs, screens, publications, timers.                  *)
(***************************************************************************)
EXTENDS Naturals, Sequences, FiniteSets, SequencesExt

CONSTANTS
    Sessions,   \* terminals of the one bridge
    TypedAt,    \* those of them that are typed at
    MaxKeys,    \* keystrokes typed in a run
    MaxHeld,    \* keystrokes the connecting window holds (64 KiB in the code)
    MaxSubs,    \* subscribeTerminal calls in a run
    Faults,     \* which faults happen: see Hazards
    MaxFaults   \* how many of them in a run

(* The peer is lost, trust is revoked, a publication of input is rejected, *)
(* a watch command is lost, one names a session the bridge does not know,  *)
(* no heartbeat of a watched session arrives for as long as a watch lasts. *)
Hazards == {"loss", "revoke", "reject", "drop", "unknown", "lapse"}

ASSUME TransportAssumption ==
    /\ IsFiniteSet(Sessions) /\ TypedAt \subseteq Sessions
    /\ {MaxKeys, MaxHeld, MaxSubs, MaxFaults} \subseteq Nat
    /\ Faults \subseteq Hazards

VARIABLES
    t,          \* the transport: see Transports
    localOnly,  \* the page is paired to its own machine: loopback or nothing
    attached,   \* bridge: sessions attached on this page's direct peer
    watchers,   \* bridge: sessions this page is a live watcher of
    unsure,     \* sessions whose last watch command failed, or whose watch
                \* ran out while it was wanted (ghost)
    pty,        \* bridge: the keys each session's process has received
    typed,      \* keys typed so far (a key is its number)
    subs,       \* subscriptions so far
    faults      \* faults so far

vars == <<t, localOnly, attached, watchers, unsure, pty, typed, subs, faults>>

Keys == 1 .. MaxKeys
Rungs == {"local", "webrtc"}
EachSession(x) == [s \in Sessions |-> x]

(* A page that has connected to the cloud and shows no terminal yet.       *)
Fresh ==
    [mode |-> EachSession("none"),      \* SessionEntry.mode, "none" without an entry
     sub |-> EachSession("none"),       \* the cloud subscriptions of the entry
     held |-> EachSession(<<>>),        \* pendingInput
     out |-> EachSession(<<>>),         \* outQueue, adjacent input coalesced
     flying |-> EachSession(<<>>),      \* the frame of the publish in flight
     cloud |-> EachSession(<<>>),       \* in flight still for an entry that is gone
     switching |-> {},                  \* pendingSwitchPeer set, watchdog armed
     switched |-> FALSE,                \* SwitchState.succeeded > 0
     status |-> "none",                 \* PeerEntry.status
     link |-> "none",                   \* kind of the attached peer
     served |-> {},                     \* handlers on that peer
     ladder |-> "idle",                 \* what the ladder run awaits
     timer |-> "off",                   \* upgradeTimer; "stale": cleared, not nulled
     up |-> <<>>,                       \* frames of the peer on their way to the bridge
     down |-> <<>>,                     \* screens on their way to the page
     cmds |-> <<>>,                     \* watch commands on their way
     disposed |-> FALSE,
     lost |-> {},                       \* keys the code gave up (ghost)
     exposed |-> {},                    \* keys in flight when the path changed (ghost)
     stranded |-> {}]                   \* direct sessions whose peer was reverted (ghost)

-----------------------------------------------------------------------------
(* Sending.                                                                *)

Frame(kind, s, key) == [kind |-> kind, session |-> s, key |-> key]
KeyFrames(s, keys) == [i \in DOMAIN keys |-> Frame("input", s, keys[i])]
KeysOf(frames) == {f.key : f \in {g \in ToSet(frames) : g.kind = "input"}}

Send(u, frames) == IF u.link = "none" THEN u ELSE [u EXCEPT !.up = @ \o frames]

(* The message client is disposed before the transport: what a page that   *)
(* goes has still to say is refused, and the refusal is swallowed.         *)
SendWatch(u, type, s) ==
    IF u.disposed THEN u
    ELSE [u EXCEPT !.cmds = Append(@, [type |-> type, session |-> s])]

PumpOutQueue(u, s) ==
    IF u.flying[s] # <<>> \/ u.sub[s] = "none" \/ u.out[s] = <<>>
    THEN u
    ELSE [u EXCEPT !.flying[s] = u.out[s], !.out[s] = <<>>]

DispatchInput(u, s, keys) ==
    IF u.mode[s] = "direct"
    THEN IF u.link = "none" THEN [u EXCEPT !.lost = @ \union ToSet(keys)]
                            ELSE Send(u, KeyFrames(s, keys))
    ELSE PumpOutQueue([u EXCEPT !.out[s] = @ \o keys], s)

FlushPending(u, s) == DispatchInput([u EXCEPT !.held[s] = <<>>], s, u.held[s])

-----------------------------------------------------------------------------
(* The upgrade loop.                                                       *)

HasCentrifugoSessions(u) ==
    \E s \in Sessions : u.mode[s] = "cloud" \/ (localOnly /\ u.mode[s] = "connecting")

CanUpgrade(u) == ~u.disposed /\ u.status = "failed" /\ HasCentrifugoSessions(u)

EnsureUpgradeLoop(u, reset) ==
    IF CanUpgrade(u) /\ u.ladder = "idle" /\ (reset \/ u.timer = "off")
    THEN [u EXCEPT !.timer = "armed"]
    ELSE u

StopUpgradeLoop(u) == [u EXCEPT !.timer = "off"]

-----------------------------------------------------------------------------
(* Paths.                                                                  *)

AttachOver(u, s) == Send([u EXCEPT !.served = @ \union {s}], <<Frame("attach", s, 0)>>)
DetachFrom(u, s) == Send([u EXCEPT !.served = @ \ {s}], <<Frame("detach", s, 0)>>)

GoDirect(u, s) == FlushPending(AttachOver([u EXCEPT !.mode[s] = "direct"], s), s)

GoCentrifugo(u, s) ==
    IF localOnly
    THEN [u EXCEPT !.mode[s] = "connecting", !.held[s] = <<>>, !.stranded = @ \ {s},
                   !.lost = @ \union ToSet(u.held[s])]
    ELSE IF u.mode[s] = "cloud"
    THEN [u EXCEPT !.switching = @ \ {s}]
    ELSE FlushPending([u EXCEPT !.switching = @ \ {s}, !.mode[s] = "cloud",
                                !.stranded = @ \ {s}, !.sub[s] = "subscribing"], s)

(* A loop over the sessions of S, in some order.                           *)
Each(Op(_, _), u, S) ==
    LET turn == SetToSeq(S)
        after[n \in 0 .. Len(turn)] ==
            IF n = 0 THEN u ELSE Op(after[n - 1], turn[n])
    IN  after[Len(turn)]

(* The peer is closed at the page: what it sent may still arrive, what the *)
(* bridge sent is dropped.                                                 *)
CloseLink(u) ==
    [u EXCEPT !.link = "none", !.served = {}, !.down = <<>>,
              !.up = IF u.link = "none" THEN @ ELSE Append(@, Frame("close", 0, 0)),
              !.exposed = @ \union KeysOf(u.up)]

FinalizeFailed(u) ==
    LET closed == [CloseLink(u) EXCEPT !.status = "failed", !.switching = {}]
        shown  == {s \in Sessions : u.mode[s] # "none"}
    IN  EnsureUpgradeLoop(Each(GoCentrifugo, closed, shown), FALSE)

\* Mutant: a committed peer is kept whether or not it delivered a screen.
MaybeRevertUpgradeNever(u) == u

MaybeRevertUpgrade(u) ==
    IF u.switching # {} \/ u.switched
    THEN u
    ELSE EnsureUpgradeLoop(
           [CloseLink(u) EXCEPT !.status = "failed",
              !.stranded = {s \in Sessions : u.mode[s] = "direct"}], FALSE)

AttachPeer(u, rung) ==
    Each(GoDirect, [u EXCEPT !.status = "attached", !.link = rung],
         {s \in Sessions : u.mode[s] = "connecting"})

CommitUpgrade(u, rung) ==
    LET cohort == {s \in Sessions : u.mode[s] = "cloud"}
        fresh  == {s \in Sessions : u.mode[s] = "connecting"}
        up0    == StopUpgradeLoop([u EXCEPT !.status = "attached", !.link = rung,
                                            !.switching = cohort, !.switched = FALSE])
    IN  Each(AttachOver, Each(GoDirect, up0, fresh), cohort)

DetachCentrifugo(u, s) == [u EXCEPT !.sub[s] = "none", !.out[s] = <<>>]

\* Mutant: the queue is dropped with the subscription instead of replayed.
PerformSwitchNoReplay(u, s) ==
    DetachCentrifugo(SendWatch(
        [u EXCEPT !.mode[s] = "direct", !.switching = @ \ {s}, !.switched = TRUE,
                  !.exposed = @ \union ToSet(u.flying[s] \o u.cloud[s])],
        "unwatch", s), s)

\* Mutant: the session leaves the cloud without telling the bridge.
PerformSwitchNoUnwatch(u, s) ==
    LET swapped == DetachCentrifugo(
            [u EXCEPT !.mode[s] = "direct", !.switching = @ \ {s}, !.switched = TRUE,
                      !.exposed = @ \union ToSet(u.flying[s] \o u.cloud[s])], s)
    IN  DispatchInput(swapped, s, u.out[s])

PerformSwitch(u, s) ==
    LET replay == u.out[s]
        swapped == DetachCentrifugo(SendWatch(
            [u EXCEPT !.mode[s] = "direct", !.switching = @ \ {s}, !.switched = TRUE,
                      !.exposed = @ \union ToSet(u.flying[s] \o u.cloud[s])],
            "unwatch", s), s)
    IN  DispatchInput(swapped, s, replay)

\* Mutant: an aborted session keeps its handlers on the peer.
AbortSessionSwitchAttached(u, s) ==
    MaybeRevertUpgrade([u EXCEPT !.switching = @ \ {s}])

AbortSessionSwitch(u, s) ==
    MaybeRevertUpgrade(DetachFrom([u EXCEPT !.switching = @ \ {s}], s))

(* An entry is torn down: buffers are dropped, a publish in flight is past *)
(* recall, a switch under way leaves its cohort.                           *)
TeardownSession(u, s) ==
    LET emptied == [u EXCEPT !.held[s] = <<>>, !.out[s] = <<>>, !.flying[s] = <<>>,
                             !.exposed = @ \union ToSet(u.flying[s]),
                             !.cloud[s] = @ \o u.flying[s],
                             !.lost = @ \union ToSet(u.held[s] \o u.out[s]),
                             !.stranded = @ \ {s}, !.mode[s] = "none", !.sub[s] = "none"]
        left == IF s \notin u.switching THEN emptied
                ELSE LET out0 == DetachFrom([emptied EXCEPT !.switching = @ \ {s}], s)
                     IN  IF u.disposed THEN out0 ELSE MaybeRevertUpgrade(out0)
    IN  CASE u.mode[s] = "direct" -> DetachFrom(left, s)
          [] u.mode[s] = "cloud"  -> SendWatch(left, "unwatch", s)
          [] OTHER                -> left

-----------------------------------------------------------------------------
(* What the page's user and the browser do.                                *)

Registry == <<watchers, unsure>>
Bridge == <<attached, Registry, pty>>

EnsurePeer(u) ==
    IF u.status = "none" THEN [u EXCEPT !.status = "connecting", !.ladder = "local"] ELSE u

SubscribeTerminal(s) ==
    /\ ~t.disposed /\ subs < MaxSubs
    /\ subs' = subs + 1
    /\ LET prior == IF t.mode[s] = "none" THEN t ELSE TeardownSession(t, s)
           entry == EnsurePeer([prior EXCEPT !.mode[s] = "connecting"])
       IN  t' = CASE entry.status = "attached" -> GoDirect(entry, s)
                  [] entry.status = "failed" ->
                        EnsureUpgradeLoop(GoCentrifugo(entry, s), TRUE)
                  [] OTHER -> entry
    /\ UNCHANGED <<localOnly, Bridge, typed, faults>>

Unsubscribe(s) ==
    /\ ~t.disposed /\ t.mode[s] # "none"
    /\ LET left == TeardownSession(t, s)
       IN  t' = IF HasCentrifugoSessions(left) THEN left ELSE StopUpgradeLoop(left)
    /\ UNCHANGED <<localOnly, Bridge, typed, subs, faults>>

BufferInput(u, s, key) ==
    LET all == Append(u.held[s], key)
    IN  IF Len(all) <= MaxHeld THEN [u EXCEPT !.held[s] = all]
        ELSE [u EXCEPT !.held[s] = Tail(all), !.lost = @ \union {Head(all)}]

SendInput(s) ==
    LET key == typed + 1
    IN  /\ s \in TypedAt /\ typed < MaxKeys /\ t.mode[s] # "none"
        /\ typed' = key
        /\ t' = CASE t.mode[s] = "direct" \/ t.sub[s] # "none" -> DispatchInput(t, s, <<key>>)
                  [] t.mode[s] = "connecting" /\ ~localOnly    -> BufferInput(t, s, key)
                  [] OTHER                                     -> [t EXCEPT !.lost = @ \union {key}]
    /\ UNCHANGED <<localOnly, Bridge, subs, faults>>

(* The machine comes online, or the page becomes visible.                  *)
GlobalTrigger ==
    /\ t' = EnsureUpgradeLoop(t, TRUE)
    /\ t' # t
    /\ UNCHANGED <<localOnly, Bridge, typed, subs, faults>>

(* The page goes: every entry is torn down and the peers are closed.  What *)
(* the peer had on its way is not followed further.                        *)
Dispose ==
    /\ ~t.disposed
    /\ LET shown == {s \in Sessions : t.mode[s] # "none"}
           going == [t EXCEPT !.disposed = TRUE]
           gone  == Each(TeardownSession, going, shown)
       IN  t' = [StopUpgradeLoop(CloseLink(gone)) EXCEPT
                   !.up = <<>>, !.lost = @ \union KeysOf(gone.up)]
    /\ attached' = {}
    /\ UNCHANGED <<localOnly, Registry, pty, typed, subs, faults>>

-----------------------------------------------------------------------------
(* The ladder.                                                             *)

Aborted(u) ==
    \/ u.disposed
    \/ u.status = "failed" /\ ~HasCentrifugoSessions(u)

(* The climb is over without a peer: initial pairing falls back, an        *)
(* upgrade attempt reschedules itself.                                     *)
ClimbFailed(u) ==
    LET ended == [u EXCEPT !.ladder = "idle"]
    IN  IF Aborted(u) THEN StopUpgradeLoop(ended)
        ELSE IF u.status = "connecting" THEN FinalizeFailed(ended)
        ELSE [ended EXCEPT !.timer = "armed"]

(* The upgrade timer fires.                                                *)
RunUpgradeAttempt ==
    /\ t.timer = "armed" /\ ~t.disposed
    /\ LET fired == StopUpgradeLoop(t)
       IN  t' = IF CanUpgrade(t) THEN [fired EXCEPT !.ladder = "online"] ELSE fired
    /\ UNCHANGED <<localOnly, Bridge, typed, subs, faults>>

\* Mutant: an attempt that finds the bridge offline ends the loop.
OnlineKnownEndsLoop(online) ==
    /\ t.ladder = "online"
    /\ t' = IF online /\ ~Aborted(t) THEN [t EXCEPT !.ladder = "local"]
            ELSE [t EXCEPT !.ladder = "idle"]
    /\ UNCHANGED <<localOnly, Bridge, typed, subs, faults>>

(* Presence has answered: is the bridge online?                            *)
OnlineKnown(online) ==
    /\ t.ladder = "online"
    /\ t' = IF online /\ ~Aborted(t) THEN [t EXCEPT !.ladder = "local"] ELSE ClimbFailed(t)
    /\ UNCHANGED <<localOnly, Bridge, typed, subs, faults>>

(* WebRTC is never tried in local pairing.                                 *)
NextRung(u) ==
    IF localOnly \/ Aborted(u) THEN ClimbFailed(u) ELSE [u EXCEPT !.ladder = "webrtc"]

(* A rung fails: no advert, no answer in time, a handshake refused.        *)
RungFails ==
    /\ t.ladder \in Rungs
    /\ t' = IF t.ladder = "local" THEN NextRung(t) ELSE ClimbFailed(t)
    /\ UNCHANGED <<localOnly, Bridge, typed, subs, faults>>

(* A rung connects.  The bridge has seen the end of the peer before it.    *)
RungConnects ==
    /\ t.ladder \in Rungs /\ t.up = <<>>
    /\ LET ended == [t EXCEPT !.ladder = "idle"]
       IN  t' = IF Aborted(t) THEN ClimbFailed(t)
                ELSE IF t.status = "connecting" THEN AttachPeer(ended, t.ladder)
                ELSE CommitUpgrade(ended, t.ladder)
    /\ UNCHANGED <<localOnly, Bridge, typed, subs, faults>>

(* The attached peer closes: an error, missed pongs, the bridge's end.     *)
OnPeerDown ==
    /\ "loss" \in Faults /\ faults < MaxFaults
    /\ t.status = "attached"
    /\ faults' = faults + 1
    /\ t' = FinalizeFailed(t)
    /\ UNCHANGED <<localOnly, Bridge, typed, subs>>

(* The account's trust in the bridge is withdrawn: peers are closed, what  *)
(* is not yet sent is dropped, the timer is cleared but keeps its handle.  *)
Revoked ==
    /\ "revoke" \in Faults /\ faults < MaxFaults
    /\ ~t.disposed /\ t.status # "none"
    /\ faults' = faults + 1
    /\ LET down == IF t.status = "attached" THEN FinalizeFailed(t) ELSE t
       IN  t' = [down EXCEPT !.timer = IF @ = "armed" THEN "stale" ELSE @,
                   !.held = EachSession(<<>>), !.out = EachSession(<<>>),
                   !.lost = @ \union UNION {ToSet(down.held[s] \o down.out[s]) : s \in Sessions}]
    /\ UNCHANGED <<localOnly, Bridge, typed, subs>>

-----------------------------------------------------------------------------
(* Switching over.                                                         *)

(* A screen arrives on the peer: the switch point of a session that waits. *)
ScreenArrives ==
    /\ t.down # <<>>
    /\ LET s == Head(t.down)
           rest == [t EXCEPT !.down = Tail(@)]
       IN  t' = IF s \in t.served /\ s \in t.switching THEN PerformSwitch(rest, s) ELSE rest
    /\ UNCHANGED <<localOnly, Bridge, typed, subs, faults>>

(* The watchdog of a session's switch fires.                               *)
WatchdogFires(s) ==
    /\ s \in t.switching
    /\ t' = AbortSessionSwitch(t, s)
    /\ UNCHANGED <<localOnly, Bridge, typed, subs, faults>>

-----------------------------------------------------------------------------
(* The cloud path.                                                         *)

(* The output channel is subscribed: only now is the bridge told, so that  *)
(* the screen it publishes in return is not missed.                        *)
Subscribed(s) ==
    /\ t.sub[s] = "subscribing"
    /\ t' = SendWatch([t EXCEPT !.sub[s] = "subscribed"], "watch", s)
    /\ UNCHANGED <<localOnly, Bridge, typed, subs, faults>>

(* The publish in flight settles, its keys having reached the process, and *)
(* the queue's next goes out.                                              *)
PublishSettles(s) ==
    /\ t.flying[s] # <<>> /\ t.cloud[s] = <<>>
    /\ LET flown == [t EXCEPT !.flying[s] = <<>>]
       IN  \/ /\ pty' = [pty EXCEPT ![s] = @ \o t.flying[s]]
              /\ t' = PumpOutQueue(flown, s)
              /\ UNCHANGED faults
           \/ /\ "reject" \in Faults /\ faults < MaxFaults
              /\ faults' = faults + 1
              /\ t' = PumpOutQueue([flown EXCEPT !.lost = @ \union ToSet(t.flying[s])], s)
              /\ UNCHANGED pty
    /\ UNCHANGED <<localOnly, attached, Registry, typed, subs>>

(* The publication of an entry that is gone arrives.                       *)
CloudInput(s) ==
    /\ t.cloud[s] # <<>>
    /\ pty' = [pty EXCEPT ![s] = @ \o t.cloud[s]]
    /\ t' = [t EXCEPT !.cloud[s] = <<>>]
    /\ UNCHANGED <<localOnly, attached, Registry, typed, subs, faults>>

-----------------------------------------------------------------------------
(* The bridge's end.                                                       *)

(* A frame of the direct peer: attach is answered with a screen.           *)
HandleFrame ==
    /\ t.up # <<>>
    /\ LET f == Head(t.up)
           rest == [t EXCEPT !.up = Tail(@)]
       IN  \/ /\ f.kind = "attach"
              /\ attached' = attached \union {f.session}
              /\ t' = IF t.link = "none" THEN rest
                      ELSE [rest EXCEPT !.down = Append(@, f.session)]
              /\ UNCHANGED pty
           \/ /\ f.kind = "detach"
              /\ attached' = attached \ {f.session}
              /\ t' = rest
              /\ UNCHANGED pty
           \/ /\ f.kind = "input"
              /\ pty' = [pty EXCEPT ![f.session] = Append(@, f.key)]
              /\ t' = rest
              /\ UNCHANGED attached
           \/ /\ f.kind = "close"
              /\ attached' = {}
              /\ t' = rest
              /\ UNCHANGED pty
    /\ UNCHANGED <<localOnly, Registry, typed, subs, faults>>

(* Input that was on its way when the peer closed is lost.                 *)
FrameLost ==
    /\ t.up # <<>> /\ t.link = "none" /\ Head(t.up).kind = "input"
    /\ t' = [t EXCEPT !.up = Tail(@), !.lost = @ \union {Head(t.up).key}]
    /\ UNCHANGED <<localOnly, Bridge, typed, subs, faults>>

(* A watch command is the next to arrive.                                  *)
NextCommand == t.cmds # <<>> /\ t' = [t EXCEPT !.cmds = Tail(@)]

(* It reaches the registry, unless it asks to watch a session the bridge   *)
(* does not know (no process, no buffer, no tmux session): that is logged  *)
(* once and dropped.                                                       *)
HandleCommand ==
    /\ NextCommand
    /\ LET c == Head(t.cmds)
       IN  \/ /\ watchers' = IF c.type = "watch" THEN watchers \union {c.session}
                                               ELSE watchers \ {c.session}
              /\ unsure' = unsure \ {c.session}
              /\ UNCHANGED faults
           \/ /\ c.type = "watch" /\ "unknown" \in Faults /\ faults < MaxFaults
              /\ faults' = faults + 1
              /\ unsure' = unsure \union {c.session}
              /\ UNCHANGED watchers
    /\ UNCHANGED <<localOnly, attached, pty, typed, subs>>

(* It is refused before it is published (the handshake or the seal failed, *)
(* the cloud is away) or lost after: nobody is told, the next one goes on. *)
CommandLost ==
    /\ NextCommand
    /\ "drop" \in Faults /\ faults < MaxFaults
    /\ faults' = faults + 1
    /\ unsure' = unsure \union {Head(t.cmds).session}
    /\ UNCHANGED <<localOnly, attached, watchers, pty, typed, subs>>

(* The page has gone: what it has not published by now is refused.         *)
CommandsRefused ==
    /\ t.disposed /\ t.cmds # <<>>
    /\ t' = [t EXCEPT !.cmds = <<>>]
    /\ UNCHANGED <<localOnly, Bridge, typed, subs, faults>>

UnderWay(s) == \E i \in DOMAIN t.cmds : t.cmds[i].session = s

(* The heartbeat of a session on the cloud asks again, every 20 s while it *)
(* is subscribed, and whenever the subscription comes back.  (The bound:   *)
(* only the beats that find a watch missing and nothing under way are      *)
(* followed; any other leaves the registry as it is or soon will be.)      *)
Heartbeat(s) ==
    /\ t.sub[s] = "subscribed" /\ s \notin watchers /\ ~UnderWay(s)
    /\ t' = SendWatch(t, "watch", s)
    /\ UNCHANGED <<localOnly, Bridge, typed, subs, faults>>

(* A watch that was not renewed for 60 s is over: the page no longer takes *)
(* the session from the cloud, or its heartbeats do not come through.      *)
WatchExpires(s) ==
    /\ s \in watchers
    /\ watchers' = watchers \ {s}
    /\ \/ /\ t.sub[s] # "subscribed"
          /\ unsure' = unsure \ {s}
          /\ UNCHANGED faults
       \/ /\ t.sub[s] = "subscribed" /\ "lapse" \in Faults /\ faults < MaxFaults
          /\ faults' = faults + 1
          /\ unsure' = unsure \union {s}
    /\ UNCHANGED <<t, localOnly, attached, pty, typed, subs>>

-----------------------------------------------------------------------------

Init ==
    /\ t = Fresh
    /\ localOnly \in BOOLEAN
    /\ attached = {} /\ watchers = {} /\ unsure = {}
    /\ pty = EachSession(<<>>)
    /\ typed = 0 /\ subs = 0 /\ faults = 0

Next ==
    \/ \E s \in Sessions :
          \/ SubscribeTerminal(s) \/ Unsubscribe(s) \/ SendInput(s)
          \/ WatchdogFires(s) \/ Subscribed(s) \/ PublishSettles(s) \/ CloudInput(s)
          \/ Heartbeat(s) \/ WatchExpires(s)
    \/ \E online \in BOOLEAN : OnlineKnown(online)
    \/ RunUpgradeAttempt \/ RungFails \/ RungConnects
    \/ ScreenArrives \/ HandleFrame \/ FrameLost \/ HandleCommand \/ CommandLost
    \/ CommandsRefused \/ GlobalTrigger \/ OnPeerDown \/ Revoked \/ Dispose

Spec == Init /\ [][Next]_vars

-----------------------------------------------------------------------------
(* Properties.                                                             *)

Direct == {s \in Sessions : t.mode[s] = "direct"}

KeyQueues == [Sessions -> Seq(Keys)]
Frames == [kind : {"attach", "detach"}, session : Sessions, key : {0}]
          \union [kind : {"input"}, session : Sessions, key : Keys]
          \union {Frame("close", 0, 0)}

Transports ==
    [mode : [Sessions -> {"none", "connecting", "cloud", "direct"}],
     sub : [Sessions -> {"none", "subscribing", "subscribed"}],
     held : KeyQueues, out : KeyQueues, flying : KeyQueues, cloud : KeyQueues,
     switching : SUBSET Sessions, switched : BOOLEAN,
     status : {"none", "connecting", "attached", "failed"},
     link : Rungs \union {"none"}, served : SUBSET Sessions,
     ladder : Rungs \union {"idle", "online"}, timer : {"off", "armed", "stale"},
     up : Seq(Frames), down : Seq(Sessions),
     cmds : Seq([type : {"watch", "unwatch"}, session : Sessions]),
     disposed : BOOLEAN, lost : SUBSET Keys, exposed : SUBSET Keys,
     stranded : SUBSET Sessions]

TypeOK ==
    /\ t \in Transports /\ \A s \in Sessions : Len(t.held[s]) <= MaxHeld
    /\ localOnly \in BOOLEAN /\ attached \subseteq Sessions /\ watchers \subseteq Sessions
    /\ unsure \subseteq Sessions
    /\ pty \in KeyQueues
    /\ typed \in 0 .. MaxKeys /\ subs \in 0 .. MaxSubs /\ faults \in 0 .. MaxFaults

(* The page and the bridge agree on who is served over the peer: handlers  *)
(* are installed for exactly the direct sessions and those switching over, *)
(* and once the frames have arrived the bridge has attached exactly them.  *)
(* (A session that took the peer directly and lost it to a revert is the   *)
(* exception; see RevertLeavesCloud.)                                      *)
PathsAgree ==
    /\ ~t.disposed => t.served = (Direct \ t.stranded) \union t.switching
    /\ t.served # {} => t.link # "none" /\ t.status = "attached"
    /\ t.up = <<>> => attached = t.served

(* A bridge is never left pinned to a peer that delivered no screen: while *)
(* sessions are on the cloud beside an attached peer, one of them has      *)
(* switched to it or may still do so.                                      *)
NeverPinned ==
    t.status = "attached" /\ (\E s \in Sessions : t.mode[s] = "cloud")
        => t.switched \/ t.switching # {}

Places(k) ==
    LET In(name, s, q) == {<<name, s, i>> : i \in {j \in DOMAIN q : q[j] = k}}
    IN  (UNION {In("held", s, t.held[s]) \union In("out", s, t.out[s])
                \union In("flying", s, t.flying[s]) \union In("cloud", s, t.cloud[s])
                \union In("pty", s, pty[s]) : s \in Sessions})
        \union {<<"up", i>> : i \in {j \in DOMAIN t.up :
                                        t.up[j].kind = "input" /\ t.up[j].key = k}}

(* A key is in one place (a buffer, a queue, on its way, at the process)   *)
(* unless it was in a publication that was rejected, on a peer that        *)
(* closed, in a buffer that overflowed, or on an entry that was torn down. *)
KeysAccounted ==
    \A k \in 1 .. typed : Cardinality(Places(k)) = IF k \in t.lost THEN 0 ELSE 1

(* Keys reach the process in the order they were typed; only a key that    *)
(* was on its way when the session changed its path may be overtaken.      *)
InOrder ==
    \A s \in Sessions : \A i, j \in DOMAIN pty[s] :
        i < j /\ pty[s][i] > pty[s][j] => pty[s][j] \in t.exposed

(* Whatever path a session takes and changes to, no key is lost unnoticed, *)
(* typed twice or overtaken by a later one that had the same way.          *)
KeysKept == KeysAccounted /\ InOrder

(* Page and bridge agree on which sessions the bridge publishes for this   *)
(* page, whatever paths a session went through: once no command of it is   *)
(* under way, the page is a live watcher of it exactly if it takes its     *)
(* output from the cloud.  Delivery is not reliable: a command that was    *)
(* refused, lost or dropped by the bridge, or a watch that ran out, parts  *)
(* the two until another command of the session arrives (a heartbeat, the  *)
(* next change of path) or the watch left over runs out.  A page that has  *)
(* gone says nothing more: the bridge publishes for it until that happens. *)
WatchesAgree ==
    ~t.disposed =>
      \A s \in Sessions : UnderWay(s) \/ s \in unsure
                         \/ (s \in watchers <=> t.sub[s] = "subscribed")

(* A failed bridge with a session on the cloud is always going to be tried *)
(* again: an attempt is under way or the timer is set, whichever attempt   *)
(* failed and whoever came or went meanwhile.  (Revocation clears the      *)
(* timer without forgetting it: then only a trigger or a subscription      *)
(* starts the loop again.)                                                 *)
LoopAlive ==
    CanUpgrade(t) => t.ladder # "idle" \/ t.timer \in {"armed", "stale"}

(* A reverted peer served nobody: all sessions are still on the cloud.     *)
RevertLeavesCloud == t.stranded = {}

=============================================================================
