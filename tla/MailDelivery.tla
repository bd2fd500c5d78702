---------------------------- MODULE MailDelivery ----------------------------
(***************************************************************************)
(* The mail engine of one session (src/bridge/src/mail-delivery.ts).       *)
(*                                                                         *)
(* Senders append mail to the durable inbox and then notify; HTTP readers  *)
(* drain it or park as the session's one long-poll waiter; a waiter's      *)
(* timer sweeps the inbox; a debounced nudge timer wakes the session,      *)
(* either by typing a pointer into its terminal or, for Codex, by queueing *)
(* the message natively under a claim.  JavaScript is single threaded, so  *)
(* a step is the code between two awaits; an awaited inbox operation is a  *)
(* step of its own because other handlers run before its continuation.     *)
(* Sessions share no mail state, so one session is the whole system.       *)
(***************************************************************************)
EXTENDS Naturals, Sequences

CONSTANTS
    Messages,   \* mail ids, each sent once
    Notices,    \* the mails committed by the pull-request watcher
    Readers,    \* inbox requests, each made once
    Kind,       \* the session's harness: "codex", "pi" or "legacy"
    Nobody,     \* no reader
    NoMail,     \* no message
    Faults,     \* which environment faults may happen
    MaxFaults,  \* bound on exits, stops and crashes
    MaxHooks    \* bound on busy hooks and lease registrations

FaultKinds == {"early_close", "close", "exit", "stop", "crash", "io"}

ASSUME ConstantsAssumption ==
    /\ Notices \subseteq Messages
    /\ Kind \in {"codex", "pi", "legacy"}
    /\ Nobody \notin Readers
    /\ NoMail \notin Messages
    /\ Faults \subseteq FaultKinds
    /\ MaxFaults \in Nat
    /\ MaxHooks \in Nat

(***************************************************************************)
(* Everything that waits for the per-session selection lock.               *)
(***************************************************************************)
Send(m)   == <<"send", m>>
Read(r)   == <<"read", r>>
Expire(r) == <<"expire", r>>
Waker     == <<"wake", NoMail>>
Recovery  == <<"recover", NoMail>>

Actors == {Send(m) : m \in Messages} \cup {Read(r) : r \in Readers}
            \cup {Expire(r) : r \in Readers} \cup {Waker, Recovery}

VARIABLES
    inbox,      \* the mail file: ids in the order they were appended
    delivered,  \* ids stamped deliveredAt
    pc,         \* where each actor is between two awaits
    seen,       \* what each actor's last inbox operation returned
    watched,    \* the waiter a sender found when it got the lock
    wants,      \* whether a request may long-poll (effectiveWait > 0)
    reply,      \* what each request was answered with
    gone,       \* requests whose client has disconnected
    waiter,     \* mailWaiters
    selection,  \* selectionLocks: the actors holding or awaiting the lock
    claim,      \* codexClaims
    accepted,   \* wakeCodex's local flag
    timer,      \* nudgeTimers
    fires,      \* wakeLocks: fired nudges queued behind a running wake
    label,      \* pendingNudgeFrom
    grace,      \* legacyReadyAt: "unset", "pending" or "passed"
    spaced,     \* lastNudgeAt is less than the minimum interval ago
    retry,      \* codexRetryAt lies in the future
    busy,       \* agentBusySince is fresh
    leased,     \* nativeLeases holds a live lease
    stopped,    \* the service was stopped
    up,         \* the session is recorded running and its process attached
    composer,   \* the nudge line in the terminal: "clear", "line", "sent"
    nudged,     \* mail a submitted nudge line has pointed at
    native,     \* messages Codex itself has queued
    nfaults,    \* faults so far
    nhooks      \* hook events so far

file    == <<inbox, delivered>>
http    == <<wants, reply, gone, waiter>>
codex   == <<claim, accepted, retry, native>>
nudge   == <<timer, label, grace>>
session == <<busy, leased, stopped, up, nfaults, nhooks>>
typing  == <<spaced, composer, nudged>>
vars    == <<file, pc, seen, watched, http, selection, codex, fires, nudge,
             session, typing>>

-----------------------------------------------------------------------------
Stored      == {inbox[i] : i \in 1..Len(inbox)}
Undelivered == Stored \ delivered
\* Mutant: readers may still drain the claimed message.
AvailableUnclaimed == Undelivered
\* A claimed Codex message is invisible to every other consumer.
Available   == Undelivered \ {claim}

\* pending[0]: the oldest of the listed messages.
IsOldest(m, S) == \E i \in 1..Len(inbox) :
                    /\ inbox[i] = m /\ m \in S
                    /\ \A j \in 1..(i - 1) : inbox[j] \notin S

Goto(a, l)  == pc' = [pc EXCEPT ![a] = l]
Sees(a, S)  == seen' = [seen EXCEPT ![a] = S]
\* A finished actor keeps no local values.
Finish(a, l) == Goto(a, l) /\ Sees(a, {})
Join(a)     == selection' = Append(selection, a)
\* Mutant: the lock is granted to whoever waits for it.
GrantedAnyone(a) == \E i \in 1..Len(selection) : selection[i] = a
Granted(a)  == selection # <<>> /\ Head(selection) = a
Release     == selection' = Tail(selection)

\* Mutant: one stamp is written, everything listed is returned.
MarkOne(a) == /\ delivered' = delivered \cup
                    {m \in seen[a] : IsOldest(m, Undelivered)}
              /\ UNCHANGED <<seen, inbox>>
\* markDelivered stamps and returns only what was still undelivered.
Mark(a) == LET marked == seen[a] \cap Undelivered
           IN  /\ delivered' = delivered \cup marked
               /\ Sees(a, marked)
               /\ UNCHANGED inbox

\* scheduleMailNudge: one timer per session, the sender label always updated.
Schedule(now) == IF now THEN /\ timer' = (timer \/ ~stopped)
                             /\ label' = (label \/ ~stopped)
                        ELSE UNCHANGED <<timer, label>>

-----------------------------------------------------------------------------
(* acceptMail and notifyCommittedMail *)

SendAppend(m) ==
    /\ pc[Send(m)] = "idle"
    /\ inbox' = Append(inbox, m)
    /\ Goto(Send(m), "stored")
    /\ UNCHANGED <<delivered, seen, watched, http, selection, codex, fires,
                   nudge, session, typing>>

SendNotify(m) ==
    /\ pc[Send(m)] = "stored"
    /\ IF stopped THEN Goto(Send(m), "done") /\ UNCHANGED selection
                  ELSE Goto(Send(m), "queued") /\ Join(Send(m))
    /\ UNCHANGED <<file, seen, watched, http, codex, fires, nudge, session,
                   typing>>

\* The lock is granted: look for a waiter and list the inbox for it.
SendLook(m) ==
    /\ pc[Send(m)] = "queued" /\ Granted(Send(m))
    /\ IF m \in Notices /\ (stopped \/ ~up)
       THEN /\ Goto(Send(m), "done") /\ Release
            /\ UNCHANGED <<seen, watched>>
       ELSE /\ watched' = [watched EXCEPT ![m] = waiter]
            /\ IF waiter # Nobody
               THEN Goto(Send(m), "check") /\ Sees(Send(m), Available)
               ELSE Goto(Send(m), "close") /\ Sees(Send(m), Undelivered)
            /\ UNCHANGED selection
    /\ UNCHANGED <<file, http, codex, fires, nudge, session, typing>>

SendCheck(m) ==
    /\ pc[Send(m)] = "check"
    /\ Goto(Send(m), IF waiter = watched[m] /\ seen[Send(m)] # {}
                     THEN "mark" ELSE "count")
    /\ UNCHANGED <<file, seen, watched, http, selection, codex, fires, nudge,
                   session, typing>>

SendMark(m) ==
    /\ pc[Send(m)] = "mark"
    /\ Mark(Send(m))
    /\ Goto(Send(m), "deliver")
    /\ UNCHANGED <<watched, http, selection, codex, fires, nudge, session,
                   typing>>

\* Mutant: a waiter is answered only when there is mail.
DeliverNever(r, S, a, next) ==
    IF pc[Read(r)] = "waiting" /\ S # {}
    THEN /\ reply' = [reply EXCEPT ![r] = S]
         /\ pc' = [pc EXCEPT ![Read(r)] = "answered", ![a] = next]
         /\ waiter' = Nobody
    ELSE Goto(a, next) /\ UNCHANGED <<reply, waiter>>
\* waiter.deliver: settles a request once; on a settled one it does nothing.
Deliver(r, S, a, next) ==
    IF pc[Read(r)] = "waiting"
    THEN /\ reply' = [reply EXCEPT ![r] = S]
         /\ pc' = [pc EXCEPT ![Read(r)] = "answered", ![a] = next]
         /\ waiter' = IF waiter = r THEN Nobody ELSE waiter
    ELSE Goto(a, next) /\ UNCHANGED <<reply, waiter>>

SendDeliver(m) ==
    /\ pc[Send(m)] = "deliver"
    /\ Deliver(watched[m], seen[Send(m)], Send(m), "count")
    /\ UNCHANGED <<file, seen, watched, wants, gone, selection, codex, fires,
                   nudge, session, typing>>

SendCount(m) ==
    /\ pc[Send(m)] = "count"
    /\ Sees(Send(m), Undelivered)
    /\ Goto(Send(m), "close")
    /\ UNCHANGED <<file, watched, http, selection, codex, fires, nudge,
                   session, typing>>

\* Unlock; mail no waiter took gets a nudge.
SendClose(m) ==
    /\ pc[Send(m)] = "close"
    /\ Release
    /\ Finish(Send(m), "done")
    /\ watched' = [watched EXCEPT ![m] = Nobody]
    /\ LET wake == /\ seen[Send(m)] # {}
                   /\ watched[m] = Nobody \/ Kind = "codex"
                   /\ Kind # "pi"
       IN  /\ grace' = IF wake /\ ~label THEN "pending" ELSE grace
           /\ Schedule(wake)
    /\ UNCHANGED <<file, http, codex, fires, session, typing>>

-----------------------------------------------------------------------------
(* readMail *)

\* A request arrives; participatesInMail decides whether it may wait.
ReadArrive(r) ==
    /\ pc[Read(r)] = "idle"
    /\ \E w \in BOOLEAN : wants' = [wants EXCEPT ![r] = w]
    /\ Goto(Read(r), "queued")
    /\ Join(Read(r))
    /\ UNCHANGED <<file, seen, watched, reply, gone, waiter, codex, fires,
                   nudge, session, typing>>

ReadList(r) ==
    /\ pc[Read(r)] = "queued" /\ Granted(Read(r))
    /\ Sees(Read(r), Available)
    /\ Goto(Read(r), "check")
    /\ UNCHANGED <<file, watched, http, selection, codex, fires, nudge,
                   session, typing>>

\* Mail, no wait, or a claimed head: answer at once.
ReadDrain(r) ==
    /\ pc[Read(r)] = "check"
    /\ seen[Read(r)] # {} \/ ~wants[r] \/ claim # NoMail
    /\ Goto(Read(r), "mark")
    /\ UNCHANGED <<file, seen, watched, http, selection, codex, fires, nudge,
                   session, typing>>

\* Otherwise become the waiter; the one it replaces is answered with nothing.
ReadPark(r) ==
    /\ pc[Read(r)] = "check"
    /\ seen[Read(r)] = {} /\ wants[r] /\ claim = NoMail
    /\ pc' = [a \in Actors |-> IF a = Read(r) THEN "waiting"
                               ELSE IF waiter # Nobody /\ a = Read(waiter)
                                    THEN "answered" ELSE pc[a]]
    /\ waiter' = r
    /\ wants' = [wants EXCEPT ![r] = FALSE]
    /\ Release
    /\ UNCHANGED <<file, seen, watched, reply, gone, codex, fires,
                   nudge, session, typing>>

ReadMark(r) ==
    /\ pc[Read(r)] = "mark"
    /\ Mark(Read(r))
    /\ Goto(Read(r), "reply")
    /\ UNCHANGED <<watched, http, selection, codex, fires, nudge, session,
                   typing>>

ReadReply(r) ==
    /\ pc[Read(r)] = "reply"
    /\ reply' = [reply EXCEPT ![r] = seen[Read(r)]]
    /\ Finish(Read(r), "answered")
    /\ wants' = [wants EXCEPT ![r] = FALSE]
    /\ Release
    /\ UNCHANGED <<file, watched, gone, waiter, codex, fires,
                   nudge, session, typing>>

\* The long-poll timer; settling a request clears its timer.
ExpireFire(r) ==
    /\ pc[Read(r)] = "waiting" /\ waiter = r
    /\ pc[Expire(r)] = "idle"
    /\ Goto(Expire(r), "queued")
    /\ Join(Expire(r))
    /\ UNCHANGED <<file, seen, watched, http, codex, fires, nudge, session,
                   typing>>

ExpireList(r) ==
    /\ pc[Expire(r)] = "queued" /\ Granted(Expire(r))
    /\ Sees(Expire(r), Available)
    /\ Goto(Expire(r), "check")
    /\ UNCHANGED <<file, watched, http, selection, codex, fires, nudge,
                   session, typing>>

\* Mutant: the timer's sweep forgets that the request may be settled.
ExpireCheckBlind(r) ==
    /\ pc[Expire(r)] = "check"
    /\ IF seen[Expire(r)] = {}
       THEN Deliver(r, {}, Expire(r), "done") /\ Sees(Expire(r), {}) /\ Release
       ELSE Goto(Expire(r), "mark") /\ UNCHANGED <<reply, waiter, seen, selection>>
    /\ UNCHANGED <<file, watched, wants, gone, codex, fires, nudge,
                   session, typing>>
\* A settled request, or nothing to hand over: answer with nothing.
ExpireCheck(r) ==
    /\ pc[Expire(r)] = "check"
    /\ IF pc[Read(r)] # "waiting" \/ waiter # r \/ seen[Expire(r)] = {}
       THEN Deliver(r, {}, Expire(r), "done") /\ Sees(Expire(r), {}) /\ Release
       ELSE Goto(Expire(r), "mark") /\ UNCHANGED <<reply, waiter, seen, selection>>
    /\ UNCHANGED <<file, watched, wants, gone, codex, fires, nudge,
                   session, typing>>

ExpireMark(r) ==
    /\ pc[Expire(r)] = "mark"
    /\ Mark(Expire(r))
    /\ Goto(Expire(r), "deliver")
    /\ UNCHANGED <<watched, http, selection, codex, fires, nudge, session,
                   typing>>

ExpireDeliver(r) ==
    /\ pc[Expire(r)] = "deliver"
    /\ Deliver(r, seen[Expire(r)], Expire(r), "done")
    /\ Sees(Expire(r), {})
    /\ Release
    /\ UNCHANGED <<file, watched, wants, gone, codex, fires, nudge,
                   session, typing>>

\* The client disconnects.  Only a parked request has its close handler, so
\* only that one is abandoned; an earlier close is never heard.
Disconnect(r) ==
    /\ r \notin gone
    /\ gone' = gone \cup {r}
    /\ \/ /\ "early_close" \in Faults
          /\ pc[Read(r)] \in {"queued", "check", "mark", "reply"}
          /\ UNCHANGED <<pc, waiter>>
       \/ /\ "close" \in Faults
          /\ pc[Read(r)] = "waiting"
          /\ IF waiter = r THEN Goto(Read(r), "abandoned") /\ waiter' = Nobody
                           ELSE UNCHANGED <<pc, waiter>>
    /\ UNCHANGED <<file, seen, watched, wants, reply, selection, codex, fires,
                   nudge, session, typing>>

-----------------------------------------------------------------------------
(* The nudge timer and wakeSession *)

NudgeFires ==
    /\ timer
    /\ timer' = FALSE
    /\ fires' = fires + 1
    /\ UNCHANGED <<file, pc, seen, watched, http, selection, codex, label,
                   grace, session, typing>>

\* Wakes of one session run one after another; a stopped epoch skips them.
WakeStart ==
    /\ pc[Waker] = "idle" /\ fires > 0
    /\ fires' = fires - 1
    /\ IF stopped THEN UNCHANGED <<pc, seen>>
                  ELSE Goto(Waker, "look") /\ Sees(Waker, Undelivered)
    /\ UNCHANGED <<file, watched, http, selection, codex, nudge, session,
                   typing>>

WakeLook ==
    /\ pc[Waker] = "look"
    /\ IF stopped \/ seen[Waker] = {}
       THEN Finish(Waker, "idle") ELSE Finish(Waker, "decide")
    /\ IF ~stopped /\ seen[Waker] = {}
       THEN label' = FALSE /\ grace' = "unset"
       ELSE UNCHANGED <<label, grace>>
    /\ UNCHANGED <<file, watched, http, selection, codex, fires, timer,
                   session, typing>>

\* Mutant: a wake that finds the session busy is not rescheduled.
WakeDecideOnce ==
    /\ pc[Waker] = "decide" /\ Kind # "codex"
    /\ Goto(Waker, IF stopped \/ ~up \/ Kind = "pi" \/ busy THEN "idle"
                   ELSE "recheck")
    /\ UNCHANGED <<file, seen, watched, http, selection, codex, fires, nudge,
                   session, typing>>
\* Why a typed nudge has to wait (the session is up).
Held == leased \/ busy \/ grace = "pending" \/ spaced

WakeDecide ==
    /\ pc[Waker] = "decide" /\ Kind # "codex"
    /\ LET ends == stopped \/ ~up \/ Kind = "pi"
       IN  /\ Goto(Waker, IF ends \/ Held THEN "idle" ELSE "recheck")
           /\ leased' = IF ~stopped /\ ends THEN FALSE ELSE leased
           /\ Schedule(~ends /\ Held)
    /\ UNCHANGED <<file, seen, watched, http, selection, codex, fires, grace,
                   busy, stopped, up, nfaults, nhooks, typing>>

WakeRecheck ==
    /\ pc[Waker] = "recheck"
    /\ Sees(Waker, Undelivered)
    /\ Goto(Waker, "inject")
    /\ UNCHANGED <<file, watched, http, selection, codex, fires, nudge,
                   session, typing>>

\* The session record is loaded after the inbox was listed; then type.
WakeInject ==
    /\ pc[Waker] = "inject"
    /\ LET ends == stopped \/ seen[Waker] = {} \/ ~up
           held == leased \/ busy
       IN  IF ends \/ held
           THEN /\ Finish(Waker, "idle")
                /\ Schedule(~ends)
                /\ UNCHANGED <<spaced, composer>>
           ELSE /\ Goto(Waker, "submit")
                /\ label' = FALSE
                /\ spaced' = TRUE
                /\ composer' = "line"
                /\ UNCHANGED <<timer, seen>>
    /\ UNCHANGED <<file, watched, http, selection, codex, fires, grace,
                   session, nudged>>

\* Mutant: the continuation after the pause does not look whether the service
\* was stopped meanwhile.
WakeSubmitLate ==
    /\ pc[Waker] = "submit"
    /\ Finish(Waker, "resubmit")
    /\ composer' = "sent"
    /\ nudged' = nudged \cup seen[Waker]
    /\ UNCHANGED <<file, watched, http, selection, codex, fires, nudge,
                   session, spaced>>
\* The submit CR, after the paste has settled; a second one follows.
WakeSubmit ==
    /\ pc[Waker] = "submit"
    /\ IF stopped \/ ~up
       THEN Finish(Waker, "idle") /\ UNCHANGED <<composer, nudged>>
       ELSE /\ Finish(Waker, "resubmit")
            /\ composer' = "sent"
            /\ nudged' = IF composer = "line" THEN nudged \cup seen[Waker]
                                             ELSE nudged
    /\ UNCHANGED <<file, watched, http, selection, codex, fires, nudge,
                   session, spaced>>

WakeResubmit ==
    /\ pc[Waker] = "resubmit"
    /\ Goto(Waker, "idle")
    /\ composer' = IF stopped \/ ~up THEN composer ELSE "clear"
    /\ UNCHANGED <<file, seen, watched, http, selection, codex, fires, nudge,
                   session, spaced, nudged>>

(* wakeCodex *)

CodexGate ==
    /\ pc[Waker] = "decide" /\ Kind = "codex"
    /\ IF stopped \/ retry \/ ~up
       THEN Goto(Waker, "idle") /\ UNCHANGED selection
       ELSE Goto(Waker, "claim") /\ Join(Waker)
    /\ retry' = (retry \/ (~stopped /\ ~up))
    /\ Schedule(~stopped /\ (retry \/ ~up))
    /\ UNCHANGED <<file, seen, watched, http, claim, accepted, native, fires,
                   grace, session, typing>>

CodexClaim ==
    /\ pc[Waker] = "claim" /\ Granted(Waker)
    /\ \/ /\ stopped \/ Available = {}
          /\ Goto(Waker, "idle") /\ UNCHANGED <<claim, accepted>>
       \/ /\ ~stopped
          /\ \E m \in Messages : IsOldest(m, Available) /\ claim' = m
          /\ accepted' = FALSE
          /\ Goto(Waker, "probe")
    /\ Release
    /\ UNCHANGED <<file, seen, watched, http, retry, native, fires, nudge,
                   session, typing>>

\* nativeWake probes, re-checks isCurrent and dispatches the claimed message.
CodexDispatch ==
    /\ pc[Waker] = "probe"
    /\ ~stopped /\ up /\ claim \in Undelivered
    /\ \/ Goto(Waker, "dispatched") /\ native' = native \cup {claim}
       \/ Goto(Waker, "refused") /\ UNCHANGED native
    /\ UNCHANGED <<file, seen, watched, http, selection, claim, accepted,
                   retry, fires, nudge, session, typing>>

\* Unsupported, rejected, or no longer current: nothing was dispatched.
CodexReject ==
    /\ pc[Waker] = "probe"
    /\ Goto(Waker, "unclaim") /\ Join(Waker)
    /\ UNCHANGED <<file, seen, watched, http, codex, fires, nudge, session,
                   typing>>

\* A receipt of the queued message; it is acknowledged unless stopped.
CodexReceipt ==
    /\ pc[Waker] = "dispatched"
    /\ Goto(Waker, IF stopped THEN "unclaim" ELSE "ack")
    /\ Join(Waker)
    /\ UNCHANGED <<file, seen, watched, http, codex, fires, nudge, session,
                   typing>>

\* A refusal, an interrupted command or an unusable receipt.
CodexUnknown ==
    /\ pc[Waker] \in {"dispatched", "refused"}
    /\ Goto(Waker, "unclaim") /\ Join(Waker)
    /\ UNCHANGED <<file, seen, watched, http, codex, fires, nudge, session,
                   typing>>

\* Mark the acknowledged message; a failed mark is retried like a refusal.
CodexAck ==
    /\ pc[Waker] = "ack" /\ Granted(Waker)
    /\ \/ /\ ~stopped /\ claim \in Undelivered
          /\ accepted' = TRUE
          /\ delivered' = delivered \cup {claim}
       \/ /\ stopped \/ claim \notin Undelivered \/ "io" \in Faults
          /\ UNCHANGED <<accepted, delivered>>
    /\ Goto(Waker, "unclaim")
    /\ selection' = Append(Tail(selection), Waker)
    /\ UNCHANGED <<inbox, seen, watched, http, claim, retry, native, fires,
                   nudge, session, typing>>

\* Mutant: only an acknowledged claim is released.
CodexUnclaimAccepted ==
    /\ pc[Waker] = "unclaim" /\ Granted(Waker)
    /\ claim' = IF accepted THEN NoMail ELSE claim
    /\ accepted' = FALSE /\ retry' = ~accepted
    /\ Release
    /\ Goto(Waker, IF stopped THEN "idle" ELSE "tally")
    /\ UNCHANGED <<file, seen, watched, http, native, fires, nudge,
                   session, typing>>
\* The finally block: the claim goes whatever the outcome was.
CodexUnclaim ==
    /\ pc[Waker] = "unclaim" /\ Granted(Waker)
    /\ claim' = NoMail /\ accepted' = FALSE
    /\ Release
    /\ retry' = IF stopped THEN retry ELSE ~accepted
    /\ Goto(Waker, IF stopped THEN "idle" ELSE "tally")
    /\ UNCHANGED <<file, seen, watched, http, native, fires, nudge,
                   session, typing>>

\* Mutant: an acknowledged message ends the wake, whatever mail is left.
CodexTallyLast ==
    /\ pc[Waker] = "tally"
    /\ Goto(Waker, "idle")
    /\ Schedule(retry)
    /\ UNCHANGED <<file, seen, watched, http, selection, codex, fires,
                   grace, session, typing>>
\* More mail, or the same again, waits for another nudge.
CodexTally ==
    /\ pc[Waker] = "tally"
    /\ Goto(Waker, "idle")
    /\ IF stopped \/ Undelivered # {}
       THEN Schedule(~stopped) /\ UNCHANGED retry
       ELSE label' = FALSE /\ retry' = FALSE /\ UNCHANGED timer
    /\ UNCHANGED <<file, seen, watched, http, selection, claim, accepted,
                   native, fires, grace, session, typing>>

-----------------------------------------------------------------------------
(* recoverPendingMail, started when the session's process is ready *)

RecoverList ==
    /\ pc[Recovery] = "load"
    /\ IF stopped \/ ~up \/ Kind = "pi"
       THEN Goto(Recovery, "idle") /\ UNCHANGED seen
       ELSE Goto(Recovery, "rearm") /\ Sees(Recovery, Undelivered)
    /\ UNCHANGED <<file, watched, http, selection, codex, fires, nudge,
                   session, typing>>

RecoverArm ==
    /\ pc[Recovery] = "rearm"
    /\ Finish(Recovery, "idle")
    /\ LET arm == ~stopped /\ seen[Recovery] # {} /\ up
       IN  /\ grace' = IF arm /\ grace = "unset" THEN "pending" ELSE grace
           /\ Schedule(arm)
    /\ UNCHANGED <<file, watched, http, selection, codex, fires,
                   session, typing>>

-----------------------------------------------------------------------------
(* Hooks, clocks and the environment *)

Clock(due, effect) ==
    /\ due /\ effect
    /\ UNCHANGED <<file, pc, seen, watched, http, selection, fires, timer,
                   label, stopped, up, nfaults, nhooks, composer, nudged,
                   claim, accepted, native>>

GracePasses  == Clock(grace = "pending", grace' = "passed"
                        /\ UNCHANGED <<spaced, retry, busy, leased>>)
WindowOpens  == Clock(spaced, spaced' = FALSE
                        /\ UNCHANGED <<grace, retry, busy, leased>>)
RetryDue     == Clock(retry, retry' = FALSE
                        /\ UNCHANGED <<grace, spaced, busy, leased>>)
LeaseExpires == Clock(leased, leased' = FALSE
                        /\ UNCHANGED <<grace, spaced, retry, busy>>)
\* A Stop hook, or the stale-marker limit.
AgentIdle    == Clock(busy, busy' = FALSE
                        /\ UNCHANGED <<grace, spaced, retry, leased>>)

AgentBusy ==
    /\ nhooks < MaxHooks /\ nhooks' = nhooks + 1
    /\ busy' = TRUE
    /\ UNCHANGED <<file, pc, seen, watched, http, selection, codex, fires,
                   nudge, leased, stopped, up, nfaults, typing>>

RegisterNativeWake ==
    /\ nhooks < MaxHooks /\ nhooks' = nhooks + 1
    /\ Kind = "legacy"
    /\ leased' = (~stopped /\ up)
    /\ UNCHANGED <<file, pc, seen, watched, http, selection, codex, fires,
                   nudge, busy, stopped, up, nfaults, typing>>

Fault(f) == f \in Faults /\ nfaults < MaxFaults /\ nfaults' = nfaults + 1

SessionExits ==
    /\ Fault("exit")
    /\ up
    /\ up' = FALSE
    /\ composer' = "clear"
    /\ UNCHANGED <<file, pc, seen, watched, http, selection, codex, fires,
                   nudge, busy, leased, stopped, nhooks, spaced, nudged>>

\* The process is attached again ("ready"): recovery starts.
SessionReady ==
    /\ ~up /\ pc[Recovery] = "idle"
    /\ up' = TRUE
    /\ Goto(Recovery, "load")
    /\ UNCHANGED <<file, seen, watched, http, selection, codex, fires, nudge,
                   busy, leased, stopped, nfaults, nhooks, typing>>

\* stop(): timers cleared, the waiter answered with nothing.
Stop ==
    /\ Fault("stop")
    /\ ~stopped
    /\ stopped' = TRUE
    /\ timer' = FALSE
    /\ IF waiter # Nobody
       THEN /\ Goto(Read(waiter), "answered")
            /\ waiter' = Nobody
       ELSE UNCHANGED <<pc, waiter>>
    /\ leased' = FALSE
    /\ grace' = "unset"
    /\ retry' = FALSE
    /\ UNCHANGED <<file, seen, watched, wants, reply, gone, selection, claim,
                   accepted, native, fires, label, busy, up, nhooks, typing>>

\* The bridge process ends and a new one starts: only the mail file survives.
\* The session's process is attached again later, by SessionReady.
Crash ==
    /\ Fault("crash")
    /\ pc' = [a \in Actors |->
                IF pc[a] = "idle" \/ a \in {Waker, Recovery} THEN "idle"
                ELSE IF pc[a] \in {"answered", "abandoned"} THEN pc[a]
                ELSE "done"]
    /\ seen' = [a \in Actors |-> {}]
    /\ watched' = [m \in Messages |-> Nobody]
    /\ wants' = [r \in Readers |-> FALSE]
    /\ selection' = <<>>
    /\ waiter' = Nobody
    /\ claim' = NoMail
    /\ fires' = 0
    /\ timer' = FALSE /\ label' = FALSE /\ grace' = "unset"
    /\ spaced' = FALSE /\ retry' = FALSE
    /\ busy' = FALSE /\ leased' = FALSE /\ stopped' = FALSE /\ up' = FALSE
    /\ composer' = "clear"
    /\ accepted' = FALSE
    /\ UNCHANGED <<file, reply, gone, native, nudged, nhooks>>

-----------------------------------------------------------------------------
Init ==
    /\ inbox = <<>> /\ delivered = {}
    /\ pc = [a \in Actors |-> "idle"]
    /\ seen = [a \in Actors |-> {}]
    /\ watched = [m \in Messages |-> Nobody]
    /\ wants = [r \in Readers |-> FALSE]
    /\ reply = [r \in Readers |-> {}]
    /\ gone = {} /\ waiter = Nobody /\ selection = <<>>
    /\ claim = NoMail /\ accepted = FALSE /\ retry = FALSE
    /\ native = {}
    /\ timer = FALSE /\ fires = 0 /\ label = FALSE /\ grace = "unset"
    /\ spaced = FALSE /\ busy = FALSE /\ leased = FALSE
    /\ stopped = FALSE /\ up = TRUE
    /\ composer = "clear" /\ nudged = {}
    /\ nfaults = 0 /\ nhooks = 0

\* A send from the moment its mail is stored; the mail itself is the client's.
Notify(m) == SendNotify(m) \/ SendLook(m) \/ SendCheck(m) \/ SendMark(m)
               \/ SendDeliver(m) \/ SendCount(m) \/ SendClose(m)

Sender(m) == SendAppend(m) \/ Notify(m)

\* A request from the moment it was received; its arrival is the client's.
Reader(r) == ReadList(r) \/ ReadDrain(r) \/ ReadPark(r) \/ ReadMark(r)
               \/ ReadReply(r)

Expiry(r) == ExpireFire(r) \/ ExpireList(r) \/ ExpireCheck(r)
               \/ ExpireMark(r) \/ ExpireDeliver(r)

Wake == WakeStart \/ WakeLook \/ WakeDecide \/ WakeRecheck \/ WakeInject
          \/ WakeSubmit \/ WakeResubmit

Codex == CodexGate \/ CodexClaim \/ CodexDispatch \/ CodexReject
           \/ CodexReceipt \/ CodexUnknown \/ CodexAck \/ CodexUnclaim
           \/ CodexTally

Recover == RecoverList \/ RecoverArm

Clocks == GracePasses \/ WindowOpens \/ RetryDue \/ LeaseExpires \/ AgentIdle

Environment == AgentBusy \/ RegisterNativeWake \/ SessionExits \/ SessionReady
                 \/ Stop \/ Crash \/ \E r \in Readers : Disconnect(r)

Next == \/ \E m \in Messages : Sender(m)
        \/ \E r \in Readers : ReadArrive(r) \/ Reader(r) \/ Expiry(r)
        \/ NudgeFires \/ Wake \/ Codex \/ Recover
        \/ Clocks \/ Environment

Spec == Init /\ [][Next]_vars
-----------------------------------------------------------------------------
(* Properties *)

SendLabels   == {"stored", "queued", "check", "mark", "deliver", "count",
                 "close", "done"}
ReadLabels   == {"queued", "check", "mark", "reply", "waiting", "answered",
                 "abandoned", "done"}
ExpireLabels == {"queued", "check", "mark", "deliver", "done"}
WakeLabels   == {"look", "decide", "recheck", "inject", "submit", "resubmit",
                 "claim", "probe", "dispatched", "refused", "ack", "unclaim",
                 "tally"}
Labels == {"idle", "load", "rearm"} \cup SendLabels \cup ReadLabels
            \cup ExpireLabels \cup WakeLabels

MailTyped == /\ inbox \in Seq(Messages) /\ delivered \subseteq Messages
             /\ claim \in Messages \cup {NoMail}
             /\ native \subseteq Messages /\ nudged \subseteq Messages
ActorsTyped == /\ pc \in [Actors -> Labels]
               /\ seen \in [Actors -> SUBSET Messages]
               /\ watched \in [Messages -> Readers \cup {Nobody}]
               /\ selection \in Seq(Actors)
RequestsTyped == /\ wants \in [Readers -> BOOLEAN]
                 /\ reply \in [Readers -> SUBSET Messages]
                 /\ gone \subseteq Readers
                 /\ waiter \in Readers \cup {Nobody}
FlagsTyped == /\ accepted \in BOOLEAN /\ retry \in BOOLEAN
              /\ timer \in BOOLEAN /\ label \in BOOLEAN
              /\ spaced \in BOOLEAN /\ busy \in BOOLEAN /\ leased \in BOOLEAN
              /\ stopped \in BOOLEAN /\ up \in BOOLEAN
CountersTyped == /\ fires \in Nat /\ nfaults \in Nat /\ nhooks \in Nat
                 /\ grace \in {"unset", "pending", "passed"}
                 /\ composer \in {"clear", "line", "sent"}

\* Every variable has its type.
TypeOK == /\ MailTyped /\ ActorsTyped /\ RequestsTyped
          /\ FlagsTyped /\ CountersTyped

\* What runs between the grant of the selection lock and its release.
Selecting(a) == pc[a] \in {"check", "mark", "deliver", "count", "close", "reply"}

\* Whoever lists the inbox in order to mark it holds the session's selection
\* lock, so no two actors ever select the same mail (withSelection).
SelectionOwned ==
    \A a \in Actors : Selecting(a) => selection # <<>> /\ Head(selection) = a

\* The registered waiter is exactly the parked request: mail is never marked
\* for a settled request by looking it up, and no parked request is forgotten
\* by mailWaiters, where nothing would ever answer it.
WaiterIsParked == \A r \in Readers : pc[Read(r)] = "waiting" <=> waiter = r

\* A message is handed to at most one request, and only once it is marked.
HandedOnce ==
    /\ \A r \in Readers : reply[r] \subseteq delivered
    /\ \A r, s \in Readers : r # s => reply[r] \cap reply[s] = {}

\* The engine implements the mailbox: at most once, whatever interleaves.
Box == INSTANCE Mailbox WITH unread <- Undelivered, taken <- delivered,
                             got <- reply
ImplementsMailbox == Box!Spec

\* A Codex claim always belongs to the wake in progress: none can be left
\* behind to hide its message from every reader for good.
ClaimHasOwner ==
    claim # NoMail => pc[Waker] \in {"probe", "dispatched", "refused", "ack",
                                     "unclaim"}

\* While a message is claimed for native delivery nobody else consumes it:
\* only the wake's own acknowledgement marks it.
ClaimUndisturbed == claim \in delivered => accepted

\* Mail marked delivered has reached a request or Codex, or is in the hands
\* of a handler that is about to answer: marking never loses mail.
InHand(m) ==
    \/ \E r \in Readers :
          \/ m \in reply[r]
          \/ pc[Read(r)] = "reply" /\ m \in seen[Read(r)]
          \/ pc[Expire(r)] = "deliver" /\ m \in seen[Expire(r)]
    \/ \E n \in Messages : pc[Send(n)] = "deliver" /\ m \in seen[Send(n)]
    \/ m \in native
NoMailLost == \A m \in delivered : InHand(m)

\* The same as long as no client has left and the service is not stopped.
SafeWhileServed == gone = {} /\ ~stopped => NoMailLost

\* After stop() nothing is typed into the terminal and nothing dispatched.
QuietAfterStop ==
    [][stopped /\ stopped' => /\ composer' \in {composer, "clear"}
                              /\ native' = native]_vars

-----------------------------------------------------------------------------
(***************************************************************************)
(* Fairness: the event loop runs every ready continuation and every timer, *)
(* clocks advance, a turn ends, and a detached session that stays wanted   *)
(* is attached again.  Clients, hooks and faults owe nothing.              *)
(***************************************************************************)
Fairness ==
    /\ \A m \in Messages : WF_vars(Notify(m))
    /\ \A r \in Readers : WF_vars(Reader(r)) /\ WF_vars(Expiry(r))
    /\ WF_vars(NudgeFires) /\ WF_vars(Wake) /\ WF_vars(Codex)
    /\ WF_vars(Recover)
    /\ WF_vars(GracePasses) /\ WF_vars(WindowOpens) /\ WF_vars(RetryDue)
    /\ WF_vars(LeaseExpires) /\ WF_vars(AgentIdle)
    /\ WF_vars(SessionReady)

\* Codex, asked again and again, eventually queues and acknowledges.
CodexAnswers ==
    /\ SF_vars(CodexDispatch /\ pc'[Waker] = "dispatched")
    /\ SF_vars(CodexReceipt)
    /\ SF_vars(CodexAck /\ accepted')

FairSpec == Spec /\ Fairness
CodexFairSpec == FairSpec /\ CodexAnswers

\* Unread mail of an attached session is read or pointed at by a nudge.
MailWakes ==
    \A m \in Messages :
      (m \in Undelivered /\ up) ~> (m \in delivered \cup nudged \/ ~up \/ stopped)

\* No request stays registered for good: mail, its timer, a newer request, a
\* stop or a restart ends it, also when its client left before the close
\* handler was there to hear of it (local-api-server.ts:1350).
ReadsAnswered ==
    \A r \in Readers :
      pc[Read(r)] = "queued"
        ~> pc[Read(r)] \in {"answered", "abandoned", "done"}

\* Mail sent to a Codex session that keeps running is delivered.
CodexDelivers ==
    \A m \in Messages : m \in Undelivered ~> (m \in delivered \/ stopped)
=============================================================================
