------------------------- MODULE MailDeliveryProofs -------------------------
(***************************************************************************)
(* Theorems about MailDelivery for every set of messages and requests,     *)
(* every harness kind and every choice and number of faults.               *)
(***************************************************************************)
EXTENDS MailDelivery, SequenceTheorems, TLAPS

USE ConstantsAssumption

\* A sender that hands over mail has found a waiter.
WatchedIsReader == \A m \in Messages :
    pc[Send(m)] \in {"check", "mark", "deliver"} => watched[m] \in Readers

\* Marked mail a handler is about to hand over has not been handed over.
MarkedUnhanded == \A a \in Actors :
    pc[a] \in {"deliver", "reply"} =>
      /\ seen[a] \subseteq delivered
      /\ \A r \in Readers : reply[r] \cap seen[a] = {}

\* Only an answered request holds mail.
AnswerSettles ==
    \A r \in Readers : reply[r] # {} => pc[Read(r)] = "answered"

\* The stamped mail is in the file, and a message not yet sent is not.
MailStored ==
    /\ delivered \subseteq Stored
    /\ \A m \in Messages : pc[Send(m)] = "idle" => m \notin Stored

\* What runs by itself: timers, wakes, recovery and the clocks.
Machine == NudgeFires \/ Wake \/ Codex \/ Recover \/ Clocks

\* The actors are pairwise different.
LEMMA ActorsDistinct ==
    /\ \A m \in Messages : Send(m) \in Actors
    /\ \A r \in Readers : Read(r) \in Actors /\ Expire(r) \in Actors
    /\ Waker \in Actors /\ Recovery \in Actors /\ Waker # Recovery
    /\ \A m, n \in Messages : Send(m) = Send(n) => m = n
    /\ \A r, s \in Readers : Read(r) = Read(s) => r = s
    /\ \A r, s \in Readers : Expire(r) = Expire(s) => r = s
    /\ \A m \in Messages, r \in Readers :
          Send(m) # Read(r) /\ Send(m) # Expire(r)
    /\ \A m \in Messages : Send(m) # Waker /\ Send(m) # Recovery
    /\ \A r, s \in Readers : Read(r) # Expire(s)
    /\ \A r \in Readers :
          /\ Read(r) # Waker /\ Read(r) # Recovery
          /\ Expire(r) # Waker /\ Expire(r) # Recovery
  BY DEF Send, Read, Expire, Waker, Recovery, Actors

\* What joining and leaving does to the lock's queue.
LEMMA SelectionFacts ==
    ASSUME selection \in Seq(Actors)
    PROVE  /\ \A a \in Actors :
                 /\ Append(selection, a) \in Seq(Actors)
                 /\ Append(selection, a) # <<>>
                 /\ Head(Append(selection, a)) =
                      IF selection = <<>> THEN a ELSE Head(selection)
           /\ selection # <<>> => /\ Head(selection) \in Actors
                                  /\ Tail(selection) \in Seq(Actors)
           /\ \A a \in Actors : selection # <<>> =>
                 Append(Tail(selection), a) \in Seq(Actors)
  BY AppendProperties, HeadTailAppend, HeadTailProperties

\* Appending to the mail file stores one more message and keeps the others.
LEMMA AppendStores ==
    ASSUME NEW m \in Messages, inbox \in Seq(Messages),
           inbox' = Append(inbox, m)
    PROVE  Stored' = Stored \cup {m}
  <1>1. Len(inbox) \in Nat /\ Len(inbox') = Len(inbox) + 1
    OBVIOUS
  <1>2. inbox'[Len(inbox) + 1] = m
    OBVIOUS
  <1>3. \A i \in 1..Len(inbox) : inbox'[i] = inbox[i]
    OBVIOUS
  <1> QED
    BY <1>1, <1>2, <1>3 DEF Stored

\* The file keeps what it stores as long as nothing is appended.
LEMMA StoredKept == inbox' = inbox => Stored' = Stored
  BY DEF Stored

\* Stored mail is a set of messages.
LEMMA StoredTyped == inbox \in Seq(Messages) => Stored \subseteq Messages
  BY DEF Stored

-----------------------------------------------------------------------------
\* The flags stay Boolean.
LEMMA FlagsStep ==
    /\ FlagsTyped /\ [Next]_vars
    => FlagsTyped'
  <1> SUFFICES ASSUME FlagsTyped, [Next]_vars
               PROVE  FlagsTyped'
    OBVIOUS
  <1> USE DEF FlagsTyped, vars, file, http, codex, nudge, session, typing,
          Schedule, Clock, Fault
  <1>1. ASSUME NEW m \in Messages, Sender(m) PROVE FlagsTyped'
    <2>1. CASE SendAppend(m)
      BY <2>1, Zenon DEF SendAppend
    <2>2. CASE SendNotify(m)
      BY <2>2, Zenon DEF SendNotify
    <2>3. CASE SendLook(m)
      BY <2>3, Zenon DEF SendLook
    <2>4. CASE SendCheck(m)
      BY <2>4, Zenon DEF SendCheck
    <2>5. CASE SendMark(m)
      BY <2>5, Zenon DEF SendMark
    <2>6. CASE SendDeliver(m)
      BY <2>6, Zenon DEF SendDeliver
    <2>7. CASE SendCount(m)
      BY <2>7, Zenon DEF SendCount
    <2>8. CASE SendClose(m)
      BY <2>8, Zenon DEF SendClose
    <2> QED
      BY <1>1, <2>1, <2>2, <2>3, <2>4, <2>5, <2>6, <2>7, <2>8 DEF Sender, Notify
  <1>2. ASSUME NEW r \in Readers, ReadArrive(r) PROVE FlagsTyped'
    BY <1>2, Zenon DEF ReadArrive
  <1>3. ASSUME NEW r \in Readers, Reader(r) PROVE FlagsTyped'
    BY <1>3, ZenonT(60) DEF Reader, ReadList, ReadDrain, ReadPark, ReadMark,
        ReadReply
  <1>4. ASSUME NEW r \in Readers, Expiry(r) PROVE FlagsTyped'
    BY <1>4, ZenonT(60) DEF Expiry, ExpireFire, ExpireList, ExpireCheck,
        ExpireMark, ExpireDeliver
  <1>5. ASSUME NudgeFires PROVE FlagsTyped'
    BY <1>5, Zenon DEF NudgeFires
  <1>6. ASSUME Wake PROVE FlagsTyped'
    <2>1. CASE WakeStart
      BY <2>1, Zenon DEF WakeStart
    <2>2. CASE WakeLook
      BY <2>2, Zenon DEF WakeLook
    <2>3. CASE WakeDecide
      BY <2>3, Zenon DEF WakeDecide
    <2>4. CASE WakeRecheck
      BY <2>4, Zenon DEF WakeRecheck
    <2>5. CASE WakeInject
      BY <2>5, Zenon DEF WakeInject
    <2>6. CASE WakeSubmit
      BY <2>6, Zenon DEF WakeSubmit
    <2>7. CASE WakeResubmit
      BY <2>7, Zenon DEF WakeResubmit
    <2> QED
      BY <1>6, <2>1, <2>2, <2>3, <2>4, <2>5, <2>6, <2>7 DEF Wake
  <1>7. ASSUME Codex PROVE FlagsTyped'
    <2>1. CASE CodexGate
      BY <2>1, Zenon DEF CodexGate
    <2>2. CASE CodexClaim
      BY <2>2, Zenon DEF CodexClaim
    <2>3. CASE CodexDispatch
      BY <2>3, Zenon DEF CodexDispatch
    <2>4. CASE CodexReject
      BY <2>4, Zenon DEF CodexReject
    <2>5. CASE CodexReceipt
      BY <2>5, Zenon DEF CodexReceipt
    <2>6. CASE CodexUnknown
      BY <2>6, Zenon DEF CodexUnknown
    <2>7. CASE CodexAck
      BY <2>7, Zenon DEF CodexAck
    <2>8. CASE CodexUnclaim
      BY <2>8, Zenon DEF CodexUnclaim
    <2>9. CASE CodexTally
      BY <2>9, Zenon DEF CodexTally
    <2> QED
      BY <1>7, <2>1, <2>2, <2>3, <2>4, <2>5, <2>6, <2>7, <2>8, <2>9 DEF Codex
  <1>8. ASSUME Recover PROVE FlagsTyped'
    BY <1>8, ZenonT(60) DEF Recover, RecoverList, RecoverArm
  <1>9. ASSUME Clocks PROVE FlagsTyped'
    BY <1>9, ZenonT(60) DEF Clocks, GracePasses, WindowOpens, RetryDue,
        LeaseExpires, AgentIdle
  <1>10. ASSUME Environment PROVE FlagsTyped'
    <2>1. CASE AgentBusy
      BY <2>1, Zenon DEF AgentBusy
    <2>2. CASE RegisterNativeWake
      BY <2>2, Zenon DEF RegisterNativeWake
    <2>3. CASE SessionExits
      BY <2>3, Zenon DEF SessionExits
    <2>4. CASE SessionReady
      BY <2>4, Zenon DEF SessionReady
    <2>5. CASE Stop
      BY <2>5, Zenon DEF Stop
    <2>6. CASE Crash
      BY <2>6, Zenon DEF Crash
    <2>7. ASSUME NEW r \in Readers, Disconnect(r) PROVE FlagsTyped'
      BY <2>7, Zenon DEF Disconnect
    <2> QED
      BY <1>10, <2>1, <2>2, <2>3, <2>4, <2>5, <2>6, <2>7 DEF Environment
  <1>11. CASE UNCHANGED vars
    BY <1>11
  <1> QED
    BY <1>1, <1>2, <1>3, <1>4, <1>5, <1>6, <1>7, <1>8, <1>9, <1>10, <1>11 DEF
       Next

\* The counters and the enumerated fields keep their types.
LEMMA CountersStep ==
    /\ CountersTyped /\ [Next]_vars
    => CountersTyped'
  <1> SUFFICES ASSUME CountersTyped, [Next]_vars
               PROVE  CountersTyped'
    OBVIOUS
  <1> USE ConstantsAssumption DEF CountersTyped, vars, file, http, codex,
          nudge, session, typing,
          Clock, Fault
  <1>1. ASSUME NEW m \in Messages, Sender(m) PROVE CountersTyped'
    BY <1>1 DEF Sender, Notify, SendAppend, SendNotify, SendLook, SendCheck, SendMark,
        SendDeliver, SendCount, SendClose
  <1>2. ASSUME NEW r \in Readers, ReadArrive(r) PROVE CountersTyped'
    BY <1>2 DEF ReadArrive
  <1>3. ASSUME NEW r \in Readers, Reader(r) PROVE CountersTyped'
    BY <1>3 DEF Reader, ReadList, ReadDrain, ReadPark, ReadMark, ReadReply
  <1>4. ASSUME NEW r \in Readers, Expiry(r) PROVE CountersTyped'
    BY <1>4 DEF Expiry, ExpireFire, ExpireList, ExpireCheck, ExpireMark,
        ExpireDeliver
  <1>5. ASSUME NudgeFires PROVE CountersTyped'
    BY <1>5 DEF NudgeFires
  <1>6. ASSUME Wake PROVE CountersTyped'
    <2>1. CASE WakeStart
      BY <2>1 DEF WakeStart
    <2>2. CASE WakeLook
      BY <2>2 DEF WakeLook
    <2>3. CASE WakeDecide
      BY <2>3 DEF WakeDecide
    <2>4. CASE WakeRecheck
      BY <2>4 DEF WakeRecheck
    <2>5. CASE WakeInject
      BY <2>5 DEF WakeInject
    <2>6. CASE WakeSubmit
      BY <2>6 DEF WakeSubmit
    <2>7. CASE WakeResubmit
      BY <2>7 DEF WakeResubmit
    <2> QED
      BY <1>6, <2>1, <2>2, <2>3, <2>4, <2>5, <2>6, <2>7 DEF Wake
  <1>7. ASSUME Codex PROVE CountersTyped'
    BY <1>7 DEF Codex, CodexGate, CodexClaim, CodexDispatch, CodexReject,
        CodexReceipt, CodexUnknown, CodexAck, CodexUnclaim, CodexTally
  <1>8. ASSUME Recover PROVE CountersTyped'
    BY <1>8 DEF Recover, RecoverList, RecoverArm
  <1>9. ASSUME Clocks PROVE CountersTyped'
    BY <1>9 DEF Clocks, GracePasses, WindowOpens, RetryDue, LeaseExpires,
        AgentIdle
  <1>10. ASSUME Environment PROVE CountersTyped'
    BY <1>10 DEF Environment, AgentBusy, RegisterNativeWake, SessionExits,
        SessionReady, Stop, Crash, Disconnect
  <1>11. CASE UNCHANGED vars
    BY <1>11
  <1> QED
    BY <1>1, <1>2, <1>3, <1>4, <1>5, <1>6, <1>7, <1>8, <1>9, <1>10, <1>11 DEF
       Next

\* Everything that names mail names messages.
LEMMA MailStep ==
    /\ MailTyped /\ ActorsTyped /\ [Next]_vars
    => MailTyped'
  <1> SUFFICES ASSUME MailTyped, ActorsTyped, [Next]_vars
               PROVE  MailTyped'
    OBVIOUS
  <1> USE ActorsDistinct, StoredTyped DEF MailTyped, ActorsTyped, vars, file,
          http, codex, nudge, session, typing,
          Clock, Fault, Mark, Undelivered, Available, IsOldest
  <1>1. ASSUME NEW m \in Messages, Sender(m) PROVE MailTyped'
    <2>1. CASE SendAppend(m)
      BY <2>1 DEF SendAppend
    <2>2. CASE SendNotify(m)
      BY <2>2 DEF SendNotify
    <2>3. CASE SendLook(m)
      BY <2>3 DEF SendLook
    <2>4. CASE SendCheck(m)
      BY <2>4 DEF SendCheck
    <2>5. CASE SendMark(m)
      BY <2>5 DEF SendMark
    <2>6. CASE SendDeliver(m)
      BY <2>6 DEF SendDeliver
    <2>7. CASE SendCount(m)
      BY <2>7 DEF SendCount
    <2>8. CASE SendClose(m)
      BY <2>8 DEF SendClose
    <2> QED
      BY <1>1, <2>1, <2>2, <2>3, <2>4, <2>5, <2>6, <2>7, <2>8 DEF Sender, Notify
  <1>2. ASSUME NEW r \in Readers, ReadArrive(r) PROVE MailTyped'
    BY <1>2 DEF ReadArrive
  <1>3. ASSUME NEW r \in Readers, Reader(r) PROVE MailTyped'
    BY <1>3 DEF Reader, ReadList, ReadDrain, ReadPark, ReadMark, ReadReply
  <1>4. ASSUME NEW r \in Readers, Expiry(r) PROVE MailTyped'
    BY <1>4 DEF Expiry, ExpireFire, ExpireList, ExpireCheck, ExpireMark,
        ExpireDeliver
  <1>5. ASSUME NudgeFires PROVE MailTyped'
    BY <1>5 DEF NudgeFires
  <1>6. ASSUME Wake PROVE MailTyped'
    BY <1>6 DEF Wake, WakeStart, WakeLook, WakeDecide, WakeRecheck,
        WakeInject, WakeSubmit, WakeResubmit
  <1>7. ASSUME Codex PROVE MailTyped'
    BY <1>7 DEF Codex, CodexGate, CodexClaim, CodexDispatch, CodexReject,
        CodexReceipt, CodexUnknown, CodexAck, CodexUnclaim, CodexTally
  <1>8. ASSUME Recover PROVE MailTyped'
    BY <1>8 DEF Recover, RecoverList, RecoverArm
  <1>9. ASSUME Clocks PROVE MailTyped'
    BY <1>9 DEF Clocks, GracePasses, WindowOpens, RetryDue, LeaseExpires,
        AgentIdle
  <1>10. ASSUME Environment PROVE MailTyped'
    BY <1>10 DEF Environment, AgentBusy, RegisterNativeWake, SessionExits,
        SessionReady, Stop, Crash, Disconnect
  <1>11. CASE UNCHANGED vars
    BY <1>11
  <1> QED
    BY <1>1, <1>2, <1>3, <1>4, <1>5, <1>6, <1>7, <1>8, <1>9, <1>10, <1>11 DEF
       Next

\* What the machine leaves alone: the answers, the waiter, every actor but
\* its own; it may stamp stored mail.
LEMMA MachineFrame ==
    ASSUME ActorsTyped, Machine
    PROVE  /\ UNCHANGED <<inbox, wants, reply, gone, waiter, watched>>
           /\ delivered \subseteq delivered'
           /\ delivered' \subseteq delivered \cup Stored
           /\ \A a \in Actors :
                 \/ pc'[a] = pc[a] /\ seen'[a] = seen[a]
                 \/ /\ a \in {Waker, Recovery}
                    /\ pc'[a] \in {"idle", "rearm"} \cup WakeLabels
  <1> DEFINE Frame ==
        /\ UNCHANGED <<inbox, wants, reply, gone, waiter, watched>>
        /\ delivered \subseteq delivered'
        /\ delivered' \subseteq delivered \cup Stored
        /\ \A a \in Actors :
              \/ pc'[a] = pc[a] /\ seen'[a] = seen[a]
              \/ /\ a \in {Waker, Recovery}
                 /\ pc'[a] \in {"idle", "rearm"} \cup WakeLabels
  <1> USE DEF ActorsTyped, WakeLabels, Goto, Sees, Finish, Clock, Undelivered,
              file, http
  <1>1. CASE NudgeFires
    BY <1>1 DEF NudgeFires
  <1>2. CASE Wake
    BY <1>2 DEF Wake, WakeStart, WakeLook, WakeDecide, WakeRecheck,
        WakeInject, WakeSubmit, WakeResubmit
  <1>3. CASE Codex
    BY <1>3 DEF Codex, CodexGate, CodexClaim, CodexDispatch, CodexReject,
        CodexReceipt, CodexUnknown, CodexAck, CodexUnclaim, CodexTally
  <1>4. CASE Recover
    BY <1>4 DEF Recover, RecoverList, RecoverArm
  <1>5. CASE Clocks
    BY <1>5 DEF Clocks, GracePasses, WindowOpens, RetryDue, LeaseExpires,
        AgentIdle
  <1> QED
    BY <1>1, <1>2, <1>3, <1>4, <1>5 DEF Machine

\* The requests' records keep their types.
LEMMA RequestsStep ==
    /\ RequestsTyped /\ ActorsTyped /\ WatchedIsReader /\ [Next]_vars
    => RequestsTyped'
  <1> SUFFICES ASSUME RequestsTyped, ActorsTyped, WatchedIsReader, [Next]_vars
               PROVE  RequestsTyped'
    OBVIOUS
  <1> USE ActorsDistinct DEF RequestsTyped, ActorsTyped, WatchedIsReader,
          vars, file, http, codex, nudge, session, typing,
          Fault, Deliver
  <1>1. ASSUME NEW m \in Messages, Sender(m) PROVE RequestsTyped'
    <2>1. CASE SendAppend(m)
      BY <2>1 DEF SendAppend
    <2>2. CASE SendNotify(m)
      BY <2>2 DEF SendNotify
    <2>3. CASE SendLook(m)
      BY <2>3 DEF SendLook
    <2>4. CASE SendCheck(m)
      BY <2>4 DEF SendCheck
    <2>5. CASE SendMark(m)
      BY <2>5 DEF SendMark
    <2>6. CASE SendDeliver(m)
      BY <2>6 DEF SendDeliver
    <2>7. CASE SendCount(m)
      BY <2>7 DEF SendCount
    <2>8. CASE SendClose(m)
      BY <2>8 DEF SendClose
    <2> QED
      BY <1>1, <2>1, <2>2, <2>3, <2>4, <2>5, <2>6, <2>7, <2>8 DEF Sender, Notify
  <1>2. ASSUME NEW r \in Readers, ReadArrive(r) PROVE RequestsTyped'
    BY <1>2 DEF ReadArrive
  <1>3. ASSUME NEW r \in Readers, Reader(r) PROVE RequestsTyped'
    BY <1>3 DEF Reader, ReadList, ReadDrain, ReadPark, ReadMark, ReadReply
  <1>4. ASSUME NEW r \in Readers, Expiry(r) PROVE RequestsTyped'
    BY <1>4 DEF Expiry, ExpireFire, ExpireList, ExpireCheck, ExpireMark,
        ExpireDeliver
  <1>5. CASE Machine
    BY <1>5, MachineFrame
  <1>6. ASSUME Environment PROVE RequestsTyped'
    BY <1>6 DEF Environment, AgentBusy, RegisterNativeWake, SessionExits,
        SessionReady, Stop, Crash, Disconnect
  <1>7. CASE UNCHANGED vars
    BY <1>7
  <1> QED
    BY <1>1, <1>2, <1>3, <1>4, <1>5, <1>6, <1>7 DEF Next, Machine

\* Every actor stays where it can be, with what it can have seen.
LEMMA ActorsStep ==
    /\ ActorsTyped /\ RequestsTyped /\ MailTyped /\ SelectionOwned
    /\ WatchedIsReader /\ [Next]_vars
    => ActorsTyped'
  <1> SUFFICES ASSUME ActorsTyped, RequestsTyped, MailTyped, SelectionOwned,
                      WatchedIsReader, [Next]_vars
               PROVE  ActorsTyped'
    OBVIOUS
  <1> USE ActorsDistinct, SelectionFacts, StoredTyped
      DEF ActorsTyped, MailTyped, RequestsTyped, Labels, SendLabels, ReadLabels,
          ExpireLabels, WakeLabels, SelectionOwned, Selecting,
          WatchedIsReader, Goto, Sees, Finish, Join, Granted, Release, Mark,
          Deliver, Clock, Fault, Undelivered, Available,
          vars, file, http, codex, nudge, session, typing
  <1>1. ASSUME NEW m \in Messages, Sender(m) PROVE ActorsTyped'
    <2>1. CASE SendAppend(m)
      BY <2>1 DEF SendAppend
    <2>2. CASE SendNotify(m)
      <3>1. CASE stopped
        BY <2>2, <3>1 DEF SendNotify
      <3>2. CASE ~stopped
        <4>1. pc' = [pc EXCEPT ![Send(m)] = "queued"]
          BY <2>2, <3>2 DEF SendNotify
        <4>2. selection' = Append(selection, Send(m))
          BY <2>2, <3>2 DEF SendNotify
        <4>3. UNCHANGED <<seen, watched>>
          BY <2>2, <3>2 DEF SendNotify
        <4> QED
          BY <4>1, <4>2, <4>3
      <3> QED
        BY <3>1, <3>2
    <2>3. CASE SendLook(m)
      <3>1. CASE m \in Notices /\ (stopped \/ ~up)
        BY <2>3, <3>1 DEF SendLook
      <3>2. CASE ~(m \in Notices /\ (stopped \/ ~up))
        <4>1. \/ pc' = [pc EXCEPT ![Send(m)] = "check"]
              \/ pc' = [pc EXCEPT ![Send(m)] = "close"]
          BY <2>3, <3>2 DEF SendLook
        <4>2. \/ seen' = [seen EXCEPT ![Send(m)] = Available]
              \/ seen' = [seen EXCEPT ![Send(m)] = Undelivered]
          BY <2>3, <3>2 DEF SendLook
        <4>3. watched' = [watched EXCEPT ![m] = waiter] /\ UNCHANGED selection
          BY <2>3, <3>2 DEF SendLook
        <4>4. seen' \in [Actors -> SUBSET Messages]
          BY <4>2
        <4>5. pc' \in [Actors -> Labels]
          BY <4>1
        <4> QED
          BY <4>3, <4>4, <4>5
      <3> QED
        BY <3>1, <3>2
    <2>4. CASE SendCheck(m)
      BY <2>4 DEF SendCheck
    <2>5. CASE SendMark(m)
      BY <2>5 DEF SendMark
    <2>6. CASE SendDeliver(m)
      BY <2>6 DEF SendDeliver
    <2>7. CASE SendCount(m)
      BY <2>7 DEF SendCount
    <2>8. CASE SendClose(m)
      BY <2>8 DEF SendClose
    <2> QED
      BY <1>1, <2>1, <2>2, <2>3, <2>4, <2>5, <2>6, <2>7, <2>8 DEF Sender, Notify
  <1>2. ASSUME NEW r \in Readers, ReadArrive(r) PROVE ActorsTyped'
    BY <1>2 DEF ReadArrive
  <1>3. ASSUME NEW r \in Readers, Reader(r) PROVE ActorsTyped'
    <2>1. CASE ReadList(r)
      BY <2>1 DEF ReadList
    <2>2. CASE ReadDrain(r)
      BY <2>2 DEF ReadDrain
    <2>3. CASE ReadPark(r)
      BY <2>3 DEF ReadPark
    <2>4. CASE ReadMark(r)
      BY <2>4 DEF ReadMark
    <2>5. CASE ReadReply(r)
      BY <2>5 DEF ReadReply
    <2> QED
      BY <1>3, <2>1, <2>2, <2>3, <2>4, <2>5 DEF Reader
  <1>4. ASSUME NEW r \in Readers, Expiry(r) PROVE ActorsTyped'
    <2>1. CASE ExpireFire(r)
      BY <2>1 DEF ExpireFire
    <2>2. CASE ExpireList(r)
      BY <2>2 DEF ExpireList
    <2>3. CASE ExpireCheck(r)
      BY <2>3, ZenonT(60) DEF ExpireCheck
    <2>4. CASE ExpireMark(r)
      BY <2>4 DEF ExpireMark
    <2>5. CASE ExpireDeliver(r)
      BY <2>5 DEF ExpireDeliver
    <2> QED
      BY <1>4, <2>1, <2>2, <2>3, <2>4, <2>5 DEF Expiry
  <1>5. ASSUME NudgeFires PROVE ActorsTyped'
    BY <1>5 DEF NudgeFires
  <1>6. ASSUME Wake PROVE ActorsTyped'
    <2>1. CASE WakeStart
      BY <2>1 DEF WakeStart
    <2>2. CASE WakeLook
      BY <2>2 DEF WakeLook
    <2>3. CASE WakeDecide
      BY <2>3 DEF WakeDecide
    <2>4. CASE WakeRecheck
      BY <2>4 DEF WakeRecheck
    <2>5. CASE WakeInject
      BY <2>5 DEF WakeInject
    <2>6. CASE WakeSubmit
      BY <2>6, ZenonT(60) DEF WakeSubmit
    <2>7. CASE WakeResubmit
      BY <2>7 DEF WakeResubmit
    <2> QED
      BY <1>6, <2>1, <2>2, <2>3, <2>4, <2>5, <2>6, <2>7 DEF Wake
  <1>7. ASSUME Codex PROVE ActorsTyped'
    <2>1. CASE CodexGate
      <3>1. CASE stopped \/ retry \/ ~up
        BY <2>1, <3>1 DEF CodexGate
      <3>2. CASE ~(stopped \/ retry \/ ~up)
        <4>1. pc' = [pc EXCEPT ![Waker] = "claim"]
          BY <2>1, <3>2 DEF CodexGate
        <4>2. selection' = Append(selection, Waker)
          BY <2>1, <3>2 DEF CodexGate
        <4>3. UNCHANGED <<seen, watched>>
          BY <2>1, <3>2 DEF CodexGate
        <4> QED
          BY <4>1, <4>2, <4>3
      <3> QED
        BY <3>1, <3>2
    <2>2. CASE CodexClaim
      BY <2>2 DEF CodexClaim
    <2>3. CASE CodexDispatch
      BY <2>3 DEF CodexDispatch
    <2>4. CASE CodexReject
      BY <2>4 DEF CodexReject
    <2>5. CASE CodexReceipt
      BY <2>5 DEF CodexReceipt
    <2>6. CASE CodexUnknown
      BY <2>6 DEF CodexUnknown
    <2>7. CASE CodexAck
      BY <2>7 DEF CodexAck
    <2>8. CASE CodexUnclaim
      BY <2>8 DEF CodexUnclaim
    <2>9. CASE CodexTally
      BY <2>9 DEF CodexTally
    <2> QED
      BY <1>7, <2>1, <2>2, <2>3, <2>4, <2>5, <2>6, <2>7, <2>8, <2>9 DEF Codex
  <1>8. ASSUME Recover PROVE ActorsTyped'
    <2>1. CASE RecoverList
      <3>1. CASE stopped \/ ~up \/ Kind = "pi"
        BY <2>1, <3>1 DEF RecoverList
      <3>2. CASE ~(stopped \/ ~up \/ Kind = "pi")
        <4>1. pc' = [pc EXCEPT ![Recovery] = "rearm"]
          BY <2>1, <3>2 DEF RecoverList
        <4>2. seen' = [seen EXCEPT ![Recovery] = Undelivered]
          BY <2>1, <3>2 DEF RecoverList
        <4>3. UNCHANGED <<selection, watched>>
          BY <2>1 DEF RecoverList
        <4> QED
          BY <4>1, <4>2, <4>3
      <3> QED
        BY <3>1, <3>2
    <2>2. CASE RecoverArm
      BY <2>2, SMTT(30) DEF RecoverArm
    <2> QED
      BY <1>8, <2>1, <2>2 DEF Recover
  <1>9. ASSUME Clocks PROVE ActorsTyped'
    <2>1. CASE GracePasses
      BY <2>1 DEF GracePasses
    <2>2. CASE WindowOpens
      BY <2>2 DEF WindowOpens
    <2>3. CASE RetryDue
      BY <2>3 DEF RetryDue
    <2>4. CASE LeaseExpires
      BY <2>4 DEF LeaseExpires
    <2>5. CASE AgentIdle
      BY <2>5 DEF AgentIdle
    <2> QED
      BY <1>9, <2>1, <2>2, <2>3, <2>4, <2>5 DEF Clocks
  <1>10. ASSUME Environment PROVE ActorsTyped'
    <2>1. CASE AgentBusy
      BY <2>1 DEF AgentBusy
    <2>2. CASE RegisterNativeWake
      BY <2>2 DEF RegisterNativeWake
    <2>3. CASE SessionExits
      BY <2>3 DEF SessionExits
    <2>4. CASE SessionReady
      BY <2>4 DEF SessionReady
    <2>5. CASE Stop
      BY <2>5 DEF Stop
    <2>6. CASE Crash
      BY <2>6 DEF Crash
    <2>7. ASSUME NEW r \in Readers, Disconnect(r) PROVE ActorsTyped'
      BY <2>7 DEF Disconnect
    <2> QED
      BY <1>10, <2>1, <2>2, <2>3, <2>4, <2>5, <2>6, <2>7 DEF Environment
  <1>11. CASE UNCHANGED vars
    BY <1>11
  <1> QED
    BY <1>1, <1>2, <1>3, <1>4, <1>5, <1>6, <1>7, <1>8, <1>9, <1>10, <1>11 DEF
       Next

\* A sender keeps the waiter it found.
LEMMA WatchedStep ==
    /\ ActorsTyped /\ RequestsTyped /\ WatchedIsReader /\ [Next]_vars
    => WatchedIsReader'
  <1> SUFFICES ASSUME ActorsTyped, RequestsTyped, WatchedIsReader, [Next]_vars
               PROVE  WatchedIsReader'
    OBVIOUS
  <1> USE ActorsDistinct DEF ActorsTyped, RequestsTyped, WatchedIsReader,
          WakeLabels,
          Goto, Sees, Finish, Deliver, Fault,
          vars, file, http, codex, nudge, session, typing
  <1>1. ASSUME NEW m \in Messages, Sender(m) PROVE WatchedIsReader'
    <2>1. CASE SendAppend(m)
      BY <2>1 DEF SendAppend
    <2>2. CASE SendNotify(m)
      BY <2>2 DEF SendNotify
    <2>3. CASE SendLook(m)
      BY <2>3 DEF SendLook
    <2>4. CASE SendCheck(m)
      BY <2>4 DEF SendCheck
    <2>5. CASE SendMark(m)
      BY <2>5 DEF SendMark
    <2>6. CASE SendDeliver(m)
      BY <2>6 DEF SendDeliver
    <2>7. CASE SendCount(m)
      BY <2>7 DEF SendCount
    <2>8. CASE SendClose(m)
      BY <2>8 DEF SendClose
    <2> QED
      BY <1>1, <2>1, <2>2, <2>3, <2>4, <2>5, <2>6, <2>7, <2>8 DEF Sender, Notify
  <1>2. ASSUME NEW r \in Readers, ReadArrive(r) PROVE WatchedIsReader'
    BY <1>2 DEF ReadArrive
  <1>3. ASSUME NEW r \in Readers, Reader(r) PROVE WatchedIsReader'
    BY <1>3 DEF Reader, ReadList, ReadDrain, ReadPark, ReadMark, ReadReply
  <1>4. ASSUME NEW r \in Readers, Expiry(r) PROVE WatchedIsReader'
    BY <1>4 DEF Expiry, ExpireFire, ExpireList, ExpireCheck, ExpireMark,
        ExpireDeliver
  <1>5. CASE Machine
    BY <1>5, MachineFrame
  <1>6. ASSUME Environment PROVE WatchedIsReader'
    BY <1>6 DEF Environment, AgentBusy, RegisterNativeWake, SessionExits,
        SessionReady, Stop, Crash, Disconnect
  <1>7. CASE UNCHANGED vars
    BY <1>7
  <1> QED
    BY <1>1, <1>2, <1>3, <1>4, <1>5, <1>6, <1>7 DEF Next, Machine

\* Parking, settling, abandoning and stopping keep mailWaiters exact.
LEMMA WaiterStep ==
    /\ ActorsTyped /\ RequestsTyped /\ WatchedIsReader /\ WaiterIsParked
    /\ [Next]_vars
    => WaiterIsParked'
  <1> SUFFICES ASSUME ActorsTyped, RequestsTyped, WatchedIsReader,
                      WaiterIsParked, [Next]_vars
               PROVE  WaiterIsParked'
    OBVIOUS
  <1> USE ConstantsAssumption, ActorsDistinct
      DEF ActorsTyped, RequestsTyped, WatchedIsReader, WaiterIsParked,
          WakeLabels, Goto, Sees, Finish, Deliver, Fault,
          vars, file, http, codex, nudge, session, typing
  <1>1. ASSUME NEW m \in Messages, Sender(m) PROVE WaiterIsParked'
    <2>1. CASE SendAppend(m)
      BY <2>1 DEF SendAppend
    <2>2. CASE SendNotify(m)
      BY <2>2 DEF SendNotify
    <2>3. CASE SendLook(m)
      BY <2>3 DEF SendLook
    <2>4. CASE SendCheck(m)
      BY <2>4 DEF SendCheck
    <2>5. CASE SendMark(m)
      BY <2>5 DEF SendMark
    <2>6. CASE SendDeliver(m)
      BY <2>6 DEF SendDeliver
    <2>7. CASE SendCount(m)
      BY <2>7 DEF SendCount
    <2>8. CASE SendClose(m)
      BY <2>8 DEF SendClose
    <2> QED
      BY <1>1, <2>1, <2>2, <2>3, <2>4, <2>5, <2>6, <2>7, <2>8 DEF Sender, Notify
  <1>2. ASSUME NEW r \in Readers, ReadArrive(r) PROVE WaiterIsParked'
    BY <1>2 DEF ReadArrive
  <1>3. ASSUME NEW r \in Readers, Reader(r) PROVE WaiterIsParked'
    <2>1. CASE ReadList(r)
      BY <2>1 DEF ReadList
    <2>2. CASE ReadDrain(r)
      BY <2>2 DEF ReadDrain
    <2>3. CASE ReadPark(r)
      BY <2>3 DEF ReadPark
    <2>4. CASE ReadMark(r)
      BY <2>4 DEF ReadMark
    <2>5. CASE ReadReply(r)
      BY <2>5 DEF ReadReply
    <2> QED
      BY <1>3, <2>1, <2>2, <2>3, <2>4, <2>5 DEF Reader
  <1>4. ASSUME NEW r \in Readers, Expiry(r) PROVE WaiterIsParked'
    <2>1. CASE ExpireFire(r)
      BY <2>1 DEF ExpireFire
    <2>2. CASE ExpireList(r)
      BY <2>2 DEF ExpireList
    <2>3. CASE ExpireCheck(r)
      BY <2>3 DEF ExpireCheck
    <2>4. CASE ExpireMark(r)
      BY <2>4 DEF ExpireMark
    <2>5. CASE ExpireDeliver(r)
      BY <2>5 DEF ExpireDeliver
    <2> QED
      BY <1>4, <2>1, <2>2, <2>3, <2>4, <2>5 DEF Expiry
  <1>5. CASE Machine
    BY <1>5, MachineFrame
  <1>6. ASSUME Environment PROVE WaiterIsParked'
    <2>1. CASE AgentBusy
      BY <2>1 DEF AgentBusy
    <2>2. CASE RegisterNativeWake
      BY <2>2 DEF RegisterNativeWake
    <2>3. CASE SessionExits
      BY <2>3 DEF SessionExits
    <2>4. CASE SessionReady
      BY <2>4 DEF SessionReady
    <2>5. CASE Stop
      BY <2>5 DEF Stop
    <2>6. CASE Crash
      BY <2>6 DEF Crash
    <2>7. ASSUME NEW r \in Readers, Disconnect(r) PROVE WaiterIsParked'
      BY <2>7 DEF Disconnect
    <2> QED
      BY <1>6, <2>1, <2>2, <2>3, <2>4, <2>5, <2>6, <2>7 DEF Environment
  <1>7. CASE UNCHANGED vars
    BY <1>7
  <1> QED
    BY <1>1, <1>2, <1>3, <1>4, <1>5, <1>6, <1>7 DEF Next, Machine

\* Only the wake sets its claim, and it clears it on its way out.
LEMMA ClaimStep ==
    /\ ActorsTyped /\ RequestsTyped /\ WatchedIsReader /\ ClaimHasOwner
    /\ [Next]_vars
    => ClaimHasOwner'
  <1> SUFFICES ASSUME ActorsTyped, RequestsTyped, WatchedIsReader,
                      ClaimHasOwner, [Next]_vars
               PROVE  ClaimHasOwner'
    OBVIOUS
  <1> USE ActorsDistinct DEF ActorsTyped, RequestsTyped, WatchedIsReader,
          ClaimHasOwner, Goto, Sees, Finish, Deliver, Clock, Fault,
          vars, file, http, codex, nudge, session, typing
  <1>1. ASSUME NEW m \in Messages, Sender(m) PROVE ClaimHasOwner'
    BY <1>1 DEF Sender, Notify, SendAppend, SendNotify, SendLook, SendCheck, SendMark,
        SendDeliver, SendCount, SendClose
  <1>2. ASSUME NEW r \in Readers, ReadArrive(r) PROVE ClaimHasOwner'
    BY <1>2 DEF ReadArrive
  <1>3. ASSUME NEW r \in Readers, Reader(r) PROVE ClaimHasOwner'
    BY <1>3 DEF Reader, ReadList, ReadDrain, ReadPark, ReadMark, ReadReply
  <1>4. ASSUME NEW r \in Readers, Expiry(r) PROVE ClaimHasOwner'
    BY <1>4 DEF Expiry, ExpireFire, ExpireList, ExpireCheck, ExpireMark,
        ExpireDeliver
  <1>5. ASSUME NudgeFires PROVE ClaimHasOwner'
    BY <1>5 DEF NudgeFires
  <1>6. ASSUME Wake PROVE ClaimHasOwner'
    BY <1>6 DEF Wake, WakeStart, WakeLook, WakeDecide, WakeRecheck,
        WakeInject, WakeSubmit, WakeResubmit
  <1>7. ASSUME Codex PROVE ClaimHasOwner'
    <2>1. CASE CodexGate
      BY <2>1 DEF CodexGate
    <2>2. CASE CodexClaim
      BY <2>2 DEF CodexClaim
    <2>3. CASE CodexDispatch
      BY <2>3 DEF CodexDispatch
    <2>4. CASE CodexReject
      BY <2>4 DEF CodexReject
    <2>5. CASE CodexReceipt
      BY <2>5 DEF CodexReceipt
    <2>6. CASE CodexUnknown
      BY <2>6 DEF CodexUnknown
    <2>7. CASE CodexAck
      BY <2>7 DEF CodexAck
    <2>8. CASE CodexUnclaim
      BY <2>8 DEF CodexUnclaim
    <2>9. CASE CodexTally
      BY <2>9 DEF CodexTally
    <2> QED
      BY <1>7, <2>1, <2>2, <2>3, <2>4, <2>5, <2>6, <2>7, <2>8, <2>9 DEF Codex
  <1>8. ASSUME Recover PROVE ClaimHasOwner'
    BY <1>8 DEF Recover, RecoverList, RecoverArm
  <1>9. ASSUME Clocks PROVE ClaimHasOwner'
    BY <1>9 DEF Clocks, GracePasses, WindowOpens, RetryDue, LeaseExpires,
        AgentIdle
  <1>10. ASSUME Environment PROVE ClaimHasOwner'
    <2>1. CASE AgentBusy
      BY <2>1 DEF AgentBusy
    <2>2. CASE RegisterNativeWake
      BY <2>2 DEF RegisterNativeWake
    <2>3. CASE SessionExits
      BY <2>3 DEF SessionExits
    <2>4. CASE SessionReady
      BY <2>4 DEF SessionReady
    <2>5. CASE Stop
      BY <2>5 DEF Stop
    <2>6. CASE Crash
      BY <2>6 DEF Crash
    <2>7. ASSUME NEW r \in Readers, Disconnect(r) PROVE ClaimHasOwner'
      BY <2>7 DEF Disconnect
    <2> QED
      BY <1>10, <2>1, <2>2, <2>3, <2>4, <2>5, <2>6, <2>7 DEF Environment
  <1>11. CASE UNCHANGED vars
    BY <1>11
  <1> QED
    BY <1>1, <1>2, <1>3, <1>4, <1>5, <1>6, <1>7, <1>8, <1>9, <1>10, <1>11 DEF
       Next

\* The lock passes on only when its holder is done.
LEMMA SelectionStep ==
    /\ ActorsTyped /\ RequestsTyped /\ WatchedIsReader /\ SelectionOwned
    /\ [Next]_vars
    => SelectionOwned'
  <1> SUFFICES ASSUME ActorsTyped, RequestsTyped, WatchedIsReader,
                      SelectionOwned, [Next]_vars
               PROVE  SelectionOwned'
    OBVIOUS
  <1> USE ActorsDistinct, SelectionFacts
      DEF ActorsTyped, RequestsTyped, WatchedIsReader, SelectionOwned, Selecting,
          Join, Granted, Release, Goto, Sees, Finish, Deliver, Clock, Fault,
          vars, file, http, codex, nudge, session, typing
  <1>1. ASSUME NEW m \in Messages, Sender(m) PROVE SelectionOwned'
    <2>1. CASE SendAppend(m)
      BY <2>1 DEF SendAppend
    <2>2. CASE SendNotify(m)
      <3>1. CASE stopped
        BY <2>2, <3>1 DEF SendNotify
      <3>2. CASE ~stopped
        <4>1. /\ pc' = [pc EXCEPT ![Send(m)] = "queued"]
              /\ selection' = Append(selection, Send(m))
          BY <2>2, <3>2 DEF SendNotify
        <4> QED
          BY <4>1
      <3> QED
        BY <3>1, <3>2
    <2>3. CASE SendLook(m)
      BY <2>3 DEF SendLook
    <2>4. CASE SendCheck(m)
      BY <2>4 DEF SendCheck
    <2>5. CASE SendMark(m)
      BY <2>5 DEF SendMark
    <2>6. CASE SendDeliver(m)
      BY <2>6 DEF SendDeliver
    <2>7. CASE SendCount(m)
      BY <2>7 DEF SendCount
    <2>8. CASE SendClose(m)
      BY <2>8 DEF SendClose
    <2> QED
      BY <1>1, <2>1, <2>2, <2>3, <2>4, <2>5, <2>6, <2>7, <2>8 DEF Sender, Notify
  <1>2. ASSUME NEW r \in Readers, ReadArrive(r) PROVE SelectionOwned'
    BY <1>2 DEF ReadArrive
  <1>3. ASSUME NEW r \in Readers, Reader(r) PROVE SelectionOwned'
    <2>1. CASE ReadList(r)
      BY <2>1 DEF ReadList
    <2>2. CASE ReadDrain(r)
      BY <2>2 DEF ReadDrain
    <2>3. CASE ReadPark(r)
      BY <2>3 DEF ReadPark
    <2>4. CASE ReadMark(r)
      BY <2>4 DEF ReadMark
    <2>5. CASE ReadReply(r)
      BY <2>5 DEF ReadReply
    <2> QED
      BY <1>3, <2>1, <2>2, <2>3, <2>4, <2>5 DEF Reader
  <1>4. ASSUME NEW r \in Readers, Expiry(r) PROVE SelectionOwned'
    <2>1. CASE ExpireFire(r)
      BY <2>1 DEF ExpireFire
    <2>2. CASE ExpireList(r)
      BY <2>2 DEF ExpireList
    <2>3. CASE ExpireCheck(r)
      BY <2>3 DEF ExpireCheck
    <2>4. CASE ExpireMark(r)
      BY <2>4 DEF ExpireMark
    <2>5. CASE ExpireDeliver(r)
      BY <2>5 DEF ExpireDeliver
    <2> QED
      BY <1>4, <2>1, <2>2, <2>3, <2>4, <2>5 DEF Expiry
  <1>5. ASSUME NudgeFires PROVE SelectionOwned'
    BY <1>5 DEF NudgeFires
  <1>6. ASSUME Wake PROVE SelectionOwned'
    BY <1>6, ZenonT(60) DEF Wake, WakeStart, WakeLook, WakeDecide, WakeRecheck,
        WakeInject, WakeSubmit, WakeResubmit
  <1>7. ASSUME Codex PROVE SelectionOwned'
    <2>1. CASE CodexGate
      BY <2>1 DEF CodexGate
    <2>2. CASE CodexClaim
      BY <2>2 DEF CodexClaim
    <2>3. CASE CodexDispatch
      BY <2>3 DEF CodexDispatch
    <2>4. CASE CodexReject
      BY <2>4 DEF CodexReject
    <2>5. CASE CodexReceipt
      BY <2>5 DEF CodexReceipt
    <2>6. CASE CodexUnknown
      BY <2>6 DEF CodexUnknown
    <2>7. CASE CodexAck
      BY <2>7 DEF CodexAck
    <2>8. CASE CodexUnclaim
      BY <2>8 DEF CodexUnclaim
    <2>9. CASE CodexTally
      BY <2>9 DEF CodexTally
    <2> QED
      BY <1>7, <2>1, <2>2, <2>3, <2>4, <2>5, <2>6, <2>7, <2>8, <2>9 DEF Codex
  <1>8. ASSUME Recover PROVE SelectionOwned'
    BY <1>8 DEF Recover, RecoverList, RecoverArm
  <1>9. ASSUME Clocks PROVE SelectionOwned'
    BY <1>9 DEF Clocks, GracePasses, WindowOpens, RetryDue, LeaseExpires,
        AgentIdle
  <1>10. ASSUME Environment PROVE SelectionOwned'
    <2>1. CASE AgentBusy
      BY <2>1 DEF AgentBusy
    <2>2. CASE RegisterNativeWake
      BY <2>2 DEF RegisterNativeWake
    <2>3. CASE SessionExits
      BY <2>3 DEF SessionExits
    <2>4. CASE SessionReady
      BY <2>4 DEF SessionReady
    <2>5. CASE Stop
      BY <2>5 DEF Stop
    <2>6. CASE Crash
      BY <2>6 DEF Crash
    <2>7. ASSUME NEW r \in Readers, Disconnect(r) PROVE SelectionOwned'
      BY <2>7 DEF Disconnect
    <2> QED
      BY <1>10, <2>1, <2>2, <2>3, <2>4, <2>5, <2>6, <2>7 DEF Environment
  <1>11. CASE UNCHANGED vars
    BY <1>11
  <1> QED
    BY <1>1, <1>2, <1>3, <1>4, <1>5, <1>6, <1>7, <1>8, <1>9, <1>10, <1>11 DEF
       Next

\* Freshly marked mail is in nobody's answer, and only its marker has it.
LEMMA MarkedStep ==
    /\ ActorsTyped /\ RequestsTyped /\ WatchedIsReader /\ SelectionOwned
    /\ WaiterIsParked /\ AnswerSettles /\ HandedOnce /\ MarkedUnhanded
    /\ [Next]_vars
    => MarkedUnhanded'
  <1> SUFFICES ASSUME ActorsTyped, RequestsTyped, WatchedIsReader,
                      SelectionOwned, WaiterIsParked, AnswerSettles,
                      HandedOnce, MarkedUnhanded, [Next]_vars
               PROVE  MarkedUnhanded'
    OBVIOUS
  <1> USE ActorsDistinct
      DEF ActorsTyped, RequestsTyped, WatchedIsReader, SelectionOwned, Selecting,
          WaiterIsParked, AnswerSettles, HandedOnce, MarkedUnhanded, Mark,
          Undelivered, Granted, WakeLabels, Goto, Sees, Finish, Deliver,
          Fault,
          vars, file, http, codex, nudge, session, typing
  <1>1. ASSUME NEW m \in Messages, Sender(m) PROVE MarkedUnhanded'
    <2>1. CASE SendAppend(m)
      BY <2>1 DEF SendAppend
    <2>2. CASE SendNotify(m)
      BY <2>2 DEF SendNotify
    <2>3. CASE SendLook(m)
      BY <2>3 DEF SendLook
    <2>4. CASE SendCheck(m)
      BY <2>4 DEF SendCheck
    <2>5. CASE SendMark(m)
      BY <2>5 DEF SendMark
    <2>6. CASE SendDeliver(m)
      BY <2>6 DEF SendDeliver
    <2>7. CASE SendCount(m)
      BY <2>7 DEF SendCount
    <2>8. CASE SendClose(m)
      BY <2>8 DEF SendClose
    <2> QED
      BY <1>1, <2>1, <2>2, <2>3, <2>4, <2>5, <2>6, <2>7, <2>8 DEF Sender, Notify
  <1>2. ASSUME NEW r \in Readers, ReadArrive(r) PROVE MarkedUnhanded'
    BY <1>2 DEF ReadArrive
  <1>3. ASSUME NEW r \in Readers, Reader(r) PROVE MarkedUnhanded'
    <2>1. CASE ReadList(r)
      BY <2>1 DEF ReadList
    <2>2. CASE ReadDrain(r)
      BY <2>2 DEF ReadDrain
    <2>3. CASE ReadPark(r)
      BY <2>3 DEF ReadPark
    <2>4. CASE ReadMark(r)
      BY <2>4 DEF ReadMark
    <2>5. CASE ReadReply(r)
      BY <2>5 DEF ReadReply
    <2> QED
      BY <1>3, <2>1, <2>2, <2>3, <2>4, <2>5 DEF Reader
  <1>4. ASSUME NEW r \in Readers, Expiry(r) PROVE MarkedUnhanded'
    <2>1. CASE ExpireFire(r)
      BY <2>1 DEF ExpireFire
    <2>2. CASE ExpireList(r)
      BY <2>2 DEF ExpireList
    <2>3. CASE ExpireCheck(r)
      BY <2>3 DEF ExpireCheck
    <2>4. CASE ExpireMark(r)
      BY <2>4 DEF ExpireMark
    <2>5. CASE ExpireDeliver(r)
      BY <2>5 DEF ExpireDeliver
    <2> QED
      BY <1>4, <2>1, <2>2, <2>3, <2>4, <2>5 DEF Expiry
  <1>5. CASE Machine
    BY <1>5, MachineFrame
  <1>6. ASSUME Environment PROVE MarkedUnhanded'
    <2>1. CASE AgentBusy
      BY <2>1 DEF AgentBusy
    <2>2. CASE RegisterNativeWake
      BY <2>2 DEF RegisterNativeWake
    <2>3. CASE SessionExits
      BY <2>3 DEF SessionExits
    <2>4. CASE SessionReady
      BY <2>4 DEF SessionReady
    <2>5. CASE Stop
      BY <2>5 DEF Stop
    <2>6. CASE Crash
      BY <2>6 DEF Crash
    <2>7. ASSUME NEW r \in Readers, Disconnect(r) PROVE MarkedUnhanded'
      BY <2>7 DEF Disconnect
    <2> QED
      BY <1>6, <2>1, <2>2, <2>3, <2>4, <2>5, <2>6, <2>7 DEF Environment
  <1>7. CASE UNCHANGED vars
    BY <1>7
  <1> QED
    BY <1>1, <1>2, <1>3, <1>4, <1>5, <1>6, <1>7 DEF Next, Machine

\* An answer is given once and takes mail nobody else was given.
LEMMA HandedStep ==
    /\ ActorsTyped /\ RequestsTyped /\ WatchedIsReader /\ WaiterIsParked
    /\ AnswerSettles /\ HandedOnce /\ MarkedUnhanded /\ [Next]_vars
    => HandedOnce' /\ AnswerSettles'
  <1> SUFFICES ASSUME ActorsTyped, RequestsTyped, WatchedIsReader,
                      WaiterIsParked, AnswerSettles, HandedOnce,
                      MarkedUnhanded, [Next]_vars
               PROVE  HandedOnce' /\ AnswerSettles'
    OBVIOUS
  <1> USE ActorsDistinct
      DEF ActorsTyped, RequestsTyped, WatchedIsReader, WaiterIsParked,
          AnswerSettles, HandedOnce, MarkedUnhanded, Mark, Undelivered,
          WakeLabels, Goto, Sees, Finish, Deliver, Fault,
          vars, file, http, codex, nudge, session, typing
  <1>1. ASSUME NEW m \in Messages, Sender(m) PROVE HandedOnce' /\ AnswerSettles'
    <2>1. CASE SendAppend(m)
      BY <2>1 DEF SendAppend
    <2>2. CASE SendNotify(m)
      BY <2>2 DEF SendNotify
    <2>3. CASE SendLook(m)
      BY <2>3 DEF SendLook
    <2>4. CASE SendCheck(m)
      BY <2>4 DEF SendCheck
    <2>5. CASE SendMark(m)
      BY <2>5 DEF SendMark
    <2>6. CASE SendDeliver(m)
      BY <2>6 DEF SendDeliver
    <2>7. CASE SendCount(m)
      BY <2>7 DEF SendCount
    <2>8. CASE SendClose(m)
      BY <2>8 DEF SendClose
    <2> QED
      BY <1>1, <2>1, <2>2, <2>3, <2>4, <2>5, <2>6, <2>7, <2>8 DEF Sender, Notify
  <1>2. ASSUME NEW r \in Readers, ReadArrive(r) PROVE HandedOnce' /\ AnswerSettles'
    BY <1>2 DEF ReadArrive
  <1>3. ASSUME NEW r \in Readers, Reader(r) PROVE HandedOnce' /\ AnswerSettles'
    <2>1. CASE ReadList(r)
      BY <2>1 DEF ReadList
    <2>2. CASE ReadDrain(r)
      BY <2>2 DEF ReadDrain
    <2>3. CASE ReadPark(r)
      BY <2>3 DEF ReadPark
    <2>4. CASE ReadMark(r)
      BY <2>4 DEF ReadMark
    <2>5. CASE ReadReply(r)
      BY <2>5 DEF ReadReply
    <2> QED
      BY <1>3, <2>1, <2>2, <2>3, <2>4, <2>5 DEF Reader
  <1>4. ASSUME NEW r \in Readers, Expiry(r) PROVE HandedOnce' /\ AnswerSettles'
    <2>1. CASE ExpireFire(r)
      BY <2>1 DEF ExpireFire
    <2>2. CASE ExpireList(r)
      BY <2>2 DEF ExpireList
    <2>3. CASE ExpireCheck(r)
      BY <2>3 DEF ExpireCheck
    <2>4. CASE ExpireMark(r)
      BY <2>4 DEF ExpireMark
    <2>5. CASE ExpireDeliver(r)
      BY <2>5 DEF ExpireDeliver
    <2> QED
      BY <1>4, <2>1, <2>2, <2>3, <2>4, <2>5 DEF Expiry
  <1>5. CASE Machine
    BY <1>5, MachineFrame
  <1>6. ASSUME Environment PROVE HandedOnce' /\ AnswerSettles'
    <2>1. CASE AgentBusy
      BY <2>1 DEF AgentBusy
    <2>2. CASE RegisterNativeWake
      BY <2>2 DEF RegisterNativeWake
    <2>3. CASE SessionExits
      BY <2>3 DEF SessionExits
    <2>4. CASE SessionReady
      BY <2>4 DEF SessionReady
    <2>5. CASE Stop
      BY <2>5 DEF Stop
    <2>6. CASE Crash
      BY <2>6 DEF Crash
    <2>7. ASSUME NEW r \in Readers, Disconnect(r) PROVE HandedOnce' /\ AnswerSettles'
      BY <2>7 DEF Disconnect
    <2> QED
      BY <1>6, <2>1, <2>2, <2>3, <2>4, <2>5, <2>6, <2>7 DEF Environment
  <1>7. CASE UNCHANGED vars
    BY <1>7
  <1> QED
    BY <1>1, <1>2, <1>3, <1>4, <1>5, <1>6, <1>7 DEF Next, Machine

\* A message enters the file once, before it can be stamped.
LEMMA StoredStep ==
    /\ ActorsTyped /\ MailTyped /\ RequestsTyped /\ WatchedIsReader
    /\ MailStored /\ [Next]_vars
    => MailStored'
  <1> SUFFICES ASSUME ActorsTyped, MailTyped, RequestsTyped, WatchedIsReader,
                      MailStored, [Next]_vars
               PROVE  MailStored'
    OBVIOUS
  <1> USE ActorsDistinct, AppendStores, StoredKept
      DEF ActorsTyped, MailTyped, RequestsTyped, WatchedIsReader, MailStored,
          Mark, Undelivered, WakeLabels, Goto, Sees, Finish, Deliver, Fault,
          vars, file, http, codex, nudge, session, typing
  <1>1. ASSUME NEW m \in Messages, Sender(m) PROVE MailStored'
    <2>1. CASE SendAppend(m)
      BY <2>1 DEF SendAppend
    <2>2. CASE SendNotify(m)
      BY <2>2 DEF SendNotify
    <2>3. CASE SendLook(m)
      BY <2>3 DEF SendLook
    <2>4. CASE SendCheck(m)
      BY <2>4 DEF SendCheck
    <2>5. CASE SendMark(m)
      BY <2>5 DEF SendMark
    <2>6. CASE SendDeliver(m)
      BY <2>6 DEF SendDeliver
    <2>7. CASE SendCount(m)
      BY <2>7 DEF SendCount
    <2>8. CASE SendClose(m)
      BY <2>8 DEF SendClose
    <2> QED
      BY <1>1, <2>1, <2>2, <2>3, <2>4, <2>5, <2>6, <2>7, <2>8 DEF Sender, Notify
  <1>2. ASSUME NEW r \in Readers, ReadArrive(r) PROVE MailStored'
    BY <1>2 DEF ReadArrive
  <1>3. ASSUME NEW r \in Readers, Reader(r) PROVE MailStored'
    BY <1>3 DEF Reader, ReadList, ReadDrain, ReadPark, ReadMark, ReadReply
  <1>4. ASSUME NEW r \in Readers, Expiry(r) PROVE MailStored'
    BY <1>4 DEF Expiry, ExpireFire, ExpireList, ExpireCheck, ExpireMark,
        ExpireDeliver
  <1>5. CASE Machine
    <2>1. Stored' = Stored /\ delivered' \subseteq delivered \cup Stored
      BY <1>5, MachineFrame
    <2>2. ASSUME NEW m \in Messages PROVE pc'[Send(m)] = pc[Send(m)]
      <3>1. Send(m) \in Actors /\ Send(m) \notin {Waker, Recovery}
        OBVIOUS
      <3> QED
        BY <1>5, <3>1, MachineFrame
    <2> QED
      BY <2>1, <2>2
  <1>6. ASSUME Environment PROVE MailStored'
    <2>1. CASE AgentBusy
      BY <2>1 DEF AgentBusy
    <2>2. CASE RegisterNativeWake
      BY <2>2 DEF RegisterNativeWake
    <2>3. CASE SessionExits
      BY <2>3 DEF SessionExits
    <2>4. CASE SessionReady
      BY <2>4 DEF SessionReady
    <2>5. CASE Stop
      BY <2>5 DEF Stop
    <2>6. CASE Crash
      <3>1. ASSUME NEW m \in Messages, pc'[Send(m)] = "idle"
            PROVE  pc[Send(m)] = "idle"
        <4>1. Send(m) \in Actors /\ Send(m) \notin {Waker, Recovery}
          OBVIOUS
        <4> QED
          BY <2>6, <3>1, <4>1 DEF Crash
      <3>2. UNCHANGED <<inbox, delivered>>
        BY <2>6 DEF Crash
      <3> QED
        BY <3>1, <3>2
    <2>7. ASSUME NEW r \in Readers, Disconnect(r) PROVE MailStored'
      BY <2>7 DEF Disconnect
    <2> QED
      BY <1>6, <2>1, <2>2, <2>3, <2>4, <2>5, <2>6, <2>7 DEF Environment
  <1>7. CASE UNCHANGED vars
    BY <1>7
  <1> QED
    BY <1>1, <1>2, <1>3, <1>4, <1>5, <1>6, <1>7 DEF Next, Machine

-----------------------------------------------------------------------------
\* A step in which the mailbox does not move.
BoxSame == Undelivered' = Undelivered /\ delivered' = delivered /\ reply' = reply

\* What each step of the engine is to the mailbox.
BoxMoves == Box!Next \/ BoxSame

\* Undelivered mail of the refinement is posted, taken and handed over by one
\* step of the abstract mailbox each; every other step stutters.
LEMMA MailboxStep ==
    /\ ActorsTyped /\ MailTyped /\ RequestsTyped /\ WatchedIsReader
    /\ SelectionOwned /\ WaiterIsParked /\ AnswerSettles /\ HandedOnce
    /\ MarkedUnhanded /\ MailStored /\ [Next]_vars
    => BoxMoves
  <1> SUFFICES ASSUME ActorsTyped, MailTyped, RequestsTyped, WatchedIsReader,
                      SelectionOwned, WaiterIsParked, AnswerSettles,
                      HandedOnce,
                      MarkedUnhanded, MailStored, [Next]_vars
               PROVE  BoxMoves
    OBVIOUS
  <1>a. ASSUME UNCHANGED <<inbox, delivered, reply>> PROVE BoxMoves
    BY <1>a, StoredKept DEF Undelivered, BoxMoves, BoxSame
  <1>b. ASSUME NEW S \in SUBSET Undelivered, delivered' = delivered \cup S,
               UNCHANGED <<inbox, reply>>
        PROVE  BoxMoves
    <2>1. Undelivered' = Undelivered \ S
      BY <1>b, StoredKept DEF Undelivered
    <2>2. Box!Take(S)
      BY <1>b, <2>1 DEF Box!Take
    <2> QED
      BY <2>2 DEF Box!Next, BoxMoves
  <1>c. ASSUME NEW a \in Actors, Mark(a), UNCHANGED reply
        PROVE  BoxMoves
    BY <1>c, <1>b DEF Mark
  <1>d. ASSUME NEW a \in Actors, pc[a] \in {"deliver", "reply"},
               NEW r \in Readers, pc[Read(r)] \in {"waiting", "reply"},
               reply' = [reply EXCEPT ![r] = seen[a]],
               UNCHANGED <<inbox, delivered>>
        PROVE  BoxMoves
    <2>1. reply[r] = {} /\ seen[a] \in SUBSET delivered
      BY <1>d DEF AnswerSettles, MarkedUnhanded
    <2>2. \A s \in Readers : reply[s] \cap seen[a] = {}
      BY <1>d DEF MarkedUnhanded
    <2>3. UNCHANGED Undelivered
      BY <1>d, StoredKept DEF Undelivered
    <2>4. Box!Hand(r, seen[a])
      BY <1>d, <2>1, <2>2, <2>3 DEF Box!Hand
    <2> QED
      BY <2>1, <2>4 DEF Box!Next, BoxMoves
  <1> USE ActorsDistinct DEF vars, file, http
  <1>1. ASSUME NEW m \in Messages, Sender(m) PROVE BoxMoves
    <2>1. CASE SendAppend(m)
      <3>1. m \notin Undelivered \cup delivered
        BY <2>1 DEF SendAppend, MailStored, Undelivered
      <3>2. Undelivered' = Undelivered \cup {m}
        BY <2>1, <3>1, AppendStores
           DEF SendAppend, MailTyped, Undelivered, MailStored
      <3>3. Box!Post(m)
        BY <2>1, <3>1, <3>2 DEF SendAppend, Box!Post
      <3> QED
        BY <3>3 DEF Box!Next, BoxMoves
    <2>2. CASE SendMark(m)
      BY <2>2, <1>c DEF SendMark
    <2>3. CASE SendDeliver(m)
      <3>1. watched[m] \in Readers
        BY <2>3 DEF SendDeliver, WatchedIsReader
      <3>2. CASE pc[Read(watched[m])] = "waiting"
        BY <2>3, <3>1, <3>2, <1>d DEF SendDeliver, Deliver
      <3>3. CASE pc[Read(watched[m])] # "waiting"
        BY <2>3, <3>3, <1>a DEF SendDeliver, Deliver
      <3> QED
        BY <3>2, <3>3
    <2>4. CASE SendNotify(m) \/ SendLook(m) \/ SendCheck(m) \/ SendCount(m)
                 \/ SendClose(m)
      BY <2>4, <1>a DEF SendNotify, SendLook, SendCheck, SendCount, SendClose
    <2> QED
      BY <1>1, <2>1, <2>2, <2>3, <2>4 DEF Sender, Notify
  <1>2. ASSUME NEW r \in Readers, ReadArrive(r) PROVE BoxMoves
    BY <1>2, <1>a DEF ReadArrive
  <1>3. ASSUME NEW r \in Readers, Reader(r) PROVE BoxMoves
    <2>1. CASE ReadMark(r)
      BY <2>1, <1>c DEF ReadMark
    <2>2. CASE ReadReply(r)
      BY <2>2, <1>d DEF ReadReply
    <2>3. CASE ReadList(r) \/ ReadDrain(r) \/ ReadPark(r)
      BY <2>3, <1>a DEF ReadList, ReadDrain, ReadPark
    <2> QED
      BY <1>3, <2>1, <2>2, <2>3 DEF Reader
  <1>4. ASSUME NEW r \in Readers, Expiry(r) PROVE BoxMoves
    <2>1. CASE ExpireMark(r)
      BY <2>1, <1>c DEF ExpireMark
    <2>2. CASE ExpireDeliver(r)
      <3>1. CASE pc[Read(r)] = "waiting"
        BY <2>2, <3>1, <1>d DEF ExpireDeliver, Deliver
      <3>2. CASE pc[Read(r)] # "waiting"
        BY <2>2, <3>2, <1>a DEF ExpireDeliver, Deliver
      <3> QED
        BY <3>1, <3>2
    <2>3. CASE ExpireCheck(r)
      <3>1. \A s \in Readers : reply'[s] = reply[s]
        BY <2>3, ZenonT(60) DEF ExpireCheck, Deliver, AnswerSettles, RequestsTyped
      <3>2. reply' = reply
        BY <2>3, <3>1 DEF ExpireCheck, Deliver, RequestsTyped
      <3> QED
        BY <2>3, <3>2, <1>a DEF ExpireCheck
    <2>4. CASE ExpireFire(r) \/ ExpireList(r)
      BY <2>4, <1>a DEF ExpireFire, ExpireList
    <2> QED
      BY <1>4, <2>1, <2>2, <2>3, <2>4 DEF Expiry
  <1>5. CASE Machine
    <2>1. CASE CodexAck
      <3>1. CASE delivered' = delivered \cup {claim} /\ claim \in Undelivered
        <4>1. {claim} \in SUBSET Undelivered
          BY <3>1
        <4>2. UNCHANGED <<inbox, reply>>
          BY <2>1 DEF CodexAck
        <4> QED
          BY <3>1, <4>1, <4>2, <1>b
      <3>2. CASE UNCHANGED delivered
        BY <2>1, <3>2, <1>a DEF CodexAck
      <3> QED
        BY <2>1, <3>1, <3>2 DEF CodexAck
    <2>2. CASE NudgeFires \/ Wake \/ Recover \/ Clocks
      BY <2>2, <1>a
         DEF NudgeFires, Wake, WakeStart, WakeLook, WakeDecide, WakeRecheck,
             WakeInject, WakeSubmit, WakeResubmit, Recover, RecoverList,
             RecoverArm, Clocks, GracePasses, WindowOpens, RetryDue,
             LeaseExpires, AgentIdle, Clock
    <2>3. CASE Codex /\ ~CodexAck
      BY <2>3, <1>a
         DEF Codex, CodexGate, CodexClaim, CodexDispatch, CodexReject,
             CodexReceipt, CodexUnknown, CodexUnclaim, CodexTally
    <2> QED
      BY <1>5, <2>1, <2>2, <2>3 DEF Machine
  <1>6. ASSUME Environment PROVE BoxMoves
    BY <1>6, <1>a
       DEF Environment, AgentBusy, RegisterNativeWake, SessionExits,
           SessionReady, Stop, Crash, Disconnect
  <1>7. CASE UNCHANGED vars
    BY <1>7, <1>a
  <1> QED
    BY <1>1, <1>2, <1>3, <1>4, <1>5, <1>6, <1>7 DEF Next, Machine

-----------------------------------------------------------------------------
\* The inductive invariant: the types, the lock, the waiter and the claim
\* discipline, and where each marked message is.
IInv == /\ TypeOK /\ WatchedIsReader
        /\ SelectionOwned /\ WaiterIsParked /\ ClaimHasOwner
        /\ HandedOnce /\ MarkedUnhanded /\ AnswerSettles /\ MailStored

\* The invariant holds at first.
LEMMA Initially == Init => IInv
  <1> SUFFICES ASSUME Init PROVE IInv
    OBVIOUS
  <1> USE ActorsDistinct DEF Init
  <1>1. TypeOK
    <2>1. FlagsTyped
      BY Zenon DEF FlagsTyped
    <2>2. MailTyped /\ CountersTyped
      BY DEF MailTyped, CountersTyped
    <2>3. ActorsTyped /\ RequestsTyped
      BY DEF ActorsTyped, RequestsTyped, Labels
    <2> QED
      BY <2>1, <2>2, <2>3 DEF TypeOK
  <1>2. WatchedIsReader /\ SelectionOwned /\ MarkedUnhanded
    BY DEF WatchedIsReader, SelectionOwned, Selecting, MarkedUnhanded
  <1>3. WaiterIsParked
    BY ConstantsAssumption DEF WaiterIsParked
  <1>4. ClaimHasOwner /\ HandedOnce /\ AnswerSettles
    BY DEF ClaimHasOwner, HandedOnce, AnswerSettles
  <1>5. MailStored
    BY DEF MailStored, Stored
  <1> QED
    BY <1>1, <1>2, <1>3, <1>4, <1>5 DEF IInv

\* Every step keeps it.
LEMMA Inductive == IInv /\ [Next]_vars => IInv'
  <1> SUFFICES ASSUME IInv, [Next]_vars PROVE IInv'
    OBVIOUS
  <1>1. TypeOK'
    BY FlagsStep, CountersStep, MailStep, RequestsStep, ActorsStep DEF IInv,
       TypeOK
  <1>2. WatchedIsReader' /\ WaiterIsParked' /\ ClaimHasOwner' /\ SelectionOwned'
    BY WatchedStep, WaiterStep, ClaimStep, SelectionStep DEF IInv, TypeOK
  <1>3. HandedOnce' /\ AnswerSettles' /\ MarkedUnhanded'
    BY HandedStep, MarkedStep DEF IInv, TypeOK
  <1>4. MailStored'
    BY StoredStep DEF IInv, TypeOK
  <1> QED
    BY <1>1, <1>2, <1>3, <1>4 DEF IInv

\* So it always holds.
LEMMA Invariance == Spec => []IInv
  <1>1. Init => IInv
    BY Initially
  <1>2. IInv /\ [Next]_vars => IInv'
    BY Inductive
  <1> QED
    BY <1>1, <1>2, PTL DEF Spec

\* Every variable keeps its type whatever happens to the session.
THEOREM TypeCorrect == Spec => []TypeOK
  <1>1. IInv => TypeOK
    BY DEF IInv
  <1> QED
    BY <1>1, Invariance, PTL

\* withSelection is mutual exclusion: whoever is between listing and marking
\* mail is the one the lock was granted to.
THEOREM SelectionExclusive == Spec => []SelectionOwned
  <1>1. IInv => SelectionOwned
    BY DEF IInv
  <1> QED
    BY <1>1, Invariance, PTL

\* mailWaiters names the parked request and no other, through every
\* replacement, timeout, disconnect, stop and crash.
THEOREM WaiterExact == Spec => []WaiterIsParked
  <1>1. IInv => WaiterIsParked
    BY DEF IInv
  <1> QED
    BY <1>1, Invariance, PTL

\* No wake leaves its Codex claim behind.
THEOREM ClaimOwned == Spec => []ClaimHasOwner
  <1>1. IInv => ClaimHasOwner
    BY DEF IInv
  <1> QED
    BY <1>1, Invariance, PTL

\* No two inbox requests are ever answered with the same message.
THEOREM AtMostOnce == Spec => []HandedOnce
  <1>1. IInv => HandedOnce
    BY DEF IInv
  <1> QED
    BY <1>1, Invariance, PTL

\* The mail engine implements the at-most-once mailbox.
THEOREM MailboxImplemented == Spec => ImplementsMailbox
  <1>1. Init => Box!Init
    BY DEF Init, Box!Init, Undelivered, Stored
  <1>2. IInv /\ [Next]_vars => [Box!Next]_<<Undelivered, delivered, reply>>
    BY MailboxStep DEF IInv, TypeOK, BoxMoves, BoxSame
  <1> QED
    BY <1>1, <1>2, Invariance, PTL DEF Spec, ImplementsMailbox, Box!Spec

-----------------------------------------------------------------------------
\* Nobody has listed the claimed message in order to mark it: the claim is
\* made under the selection lock and the listings after it leave it out.
ClaimUnseen ==
    \A a \in Actors : pc[a] \in {"check", "mark"} => claim \notin seen[a]

\* A claim is made under the lock and what is listed under it leaves the claim
\* out, so only the wake's acknowledgement marks the claimed message.
LEMMA UnseenStep ==
    /\ ActorsTyped /\ MailTyped /\ RequestsTyped /\ WatchedIsReader
    /\ SelectionOwned /\ ClaimUnseen /\ ClaimUndisturbed /\ [Next]_vars
    => (ClaimUnseen /\ ClaimUndisturbed)'
  <1> SUFFICES ASSUME ActorsTyped, MailTyped, RequestsTyped, WatchedIsReader,
                      SelectionOwned, ClaimUnseen, ClaimUndisturbed,
                      [Next]_vars
               PROVE  (ClaimUnseen /\ ClaimUndisturbed)'
    OBVIOUS
  <1> USE ConstantsAssumption, ActorsDistinct, StoredKept, StoredTyped
      DEF ActorsTyped, MailTyped, RequestsTyped, WatchedIsReader,
          SelectionOwned, Selecting, ClaimUnseen, ClaimUndisturbed, Mark,
          Undelivered, Available, Granted, IsOldest, WakeLabels, Goto, Sees,
          Finish, Deliver, Clock, Fault, vars, file, http, codex, nudge,
          session, typing
  <1>1. ASSUME NEW m \in Messages, Sender(m) PROVE (ClaimUnseen /\ ClaimUndisturbed)'
    <2>1. CASE SendAppend(m)
      BY <2>1 DEF SendAppend
    <2>2. CASE SendNotify(m)
      BY <2>2 DEF SendNotify
    <2>3. CASE SendLook(m)
      BY <2>3 DEF SendLook
    <2>4. CASE SendCheck(m)
      BY <2>4 DEF SendCheck
    <2>5. CASE SendMark(m)
      BY <2>5 DEF SendMark
    <2>6. CASE SendDeliver(m)
      BY <2>6 DEF SendDeliver
    <2>7. CASE SendCount(m)
      BY <2>7 DEF SendCount
    <2>8. CASE SendClose(m)
      BY <2>8 DEF SendClose
    <2> QED
      BY <1>1, <2>1, <2>2, <2>3, <2>4, <2>5, <2>6, <2>7, <2>8 DEF Sender, Notify
  <1>2. ASSUME NEW r \in Readers, ReadArrive(r) PROVE (ClaimUnseen /\ ClaimUndisturbed)'
    BY <1>2 DEF ReadArrive
  <1>3. ASSUME NEW r \in Readers, Reader(r) PROVE (ClaimUnseen /\ ClaimUndisturbed)'
    <2>1. CASE ReadList(r)
      BY <2>1 DEF ReadList
    <2>2. CASE ReadDrain(r)
      BY <2>2 DEF ReadDrain
    <2>3. CASE ReadPark(r)
      BY <2>3 DEF ReadPark
    <2>4. CASE ReadMark(r)
      BY <2>4 DEF ReadMark
    <2>5. CASE ReadReply(r)
      BY <2>5 DEF ReadReply
    <2> QED
      BY <1>3, <2>1, <2>2, <2>3, <2>4, <2>5 DEF Reader
  <1>4. ASSUME NEW r \in Readers, Expiry(r) PROVE (ClaimUnseen /\ ClaimUndisturbed)'
    <2>1. CASE ExpireFire(r)
      BY <2>1 DEF ExpireFire
    <2>2. CASE ExpireList(r)
      BY <2>2 DEF ExpireList
    <2>3. CASE ExpireCheck(r)
      BY <2>3 DEF ExpireCheck
    <2>4. CASE ExpireMark(r)
      BY <2>4 DEF ExpireMark
    <2>5. CASE ExpireDeliver(r)
      BY <2>5 DEF ExpireDeliver
    <2> QED
      BY <1>4, <2>1, <2>2, <2>3, <2>4, <2>5 DEF Expiry
  <1>5. ASSUME NudgeFires PROVE (ClaimUnseen /\ ClaimUndisturbed)'
    BY <1>5 DEF NudgeFires
  <1>6. ASSUME Wake PROVE (ClaimUnseen /\ ClaimUndisturbed)'
    <2>1. CASE WakeStart
      BY <2>1 DEF WakeStart
    <2>2. CASE WakeLook
      BY <2>2 DEF WakeLook
    <2>3. CASE WakeDecide
      BY <2>3 DEF WakeDecide
    <2>4. CASE WakeRecheck
      BY <2>4 DEF WakeRecheck
    <2>5. CASE WakeInject
      BY <2>5 DEF WakeInject
    <2>6. CASE WakeSubmit
      BY <2>6 DEF WakeSubmit
    <2>7. CASE WakeResubmit
      BY <2>7 DEF WakeResubmit
    <2> QED
      BY <1>6, <2>1, <2>2, <2>3, <2>4, <2>5, <2>6, <2>7 DEF Wake
  <1>7. ASSUME Codex PROVE (ClaimUnseen /\ ClaimUndisturbed)'
    <2>1. CASE CodexGate
      BY <2>1 DEF CodexGate
    <2>2. CASE CodexClaim
      BY <2>2 DEF CodexClaim
    <2>3. CASE CodexDispatch
      BY <2>3 DEF CodexDispatch
    <2>4. CASE CodexReject
      BY <2>4 DEF CodexReject
    <2>5. CASE CodexReceipt
      BY <2>5 DEF CodexReceipt
    <2>6. CASE CodexUnknown
      BY <2>6 DEF CodexUnknown
    <2>7. CASE CodexAck
      BY <2>7 DEF CodexAck
    <2>8. CASE CodexUnclaim
      BY <2>8 DEF CodexUnclaim
    <2>9. CASE CodexTally
      BY <2>9 DEF CodexTally
    <2> QED
      BY <1>7, <2>1, <2>2, <2>3, <2>4, <2>5, <2>6, <2>7, <2>8, <2>9 DEF Codex
  <1>8. ASSUME Recover PROVE (ClaimUnseen /\ ClaimUndisturbed)'
    BY <1>8 DEF Recover, RecoverList, RecoverArm
  <1>9. ASSUME Clocks PROVE (ClaimUnseen /\ ClaimUndisturbed)'
    BY <1>9 DEF Clocks, GracePasses, WindowOpens, RetryDue,
        LeaseExpires, AgentIdle
  <1>10. ASSUME Environment PROVE (ClaimUnseen /\ ClaimUndisturbed)'
    <2>1. CASE AgentBusy
      BY <2>1 DEF AgentBusy
    <2>2. CASE RegisterNativeWake
      BY <2>2 DEF RegisterNativeWake
    <2>3. CASE SessionExits
      BY <2>3 DEF SessionExits
    <2>4. CASE SessionReady
      BY <2>4 DEF SessionReady
    <2>5. CASE Stop
      BY <2>5 DEF Stop
    <2>6. CASE Crash
      BY <2>6 DEF Crash
    <2>7. ASSUME NEW r \in Readers, Disconnect(r) PROVE (ClaimUnseen /\ ClaimUndisturbed)'
      BY <2>7 DEF Disconnect
    <2> QED
      BY <1>10, <2>1, <2>2, <2>3, <2>4, <2>5, <2>6, <2>7 DEF Environment
  <1>11. CASE UNCHANGED vars
    BY <1>11
  <1> QED
    BY <1>1, <1>2, <1>3, <1>4, <1>5, <1>6, <1>7, <1>8, <1>9, <1>10, <1>11
       DEF Next


\* As long as everybody is served, a waiter mail is marked for stays parked
\* until it is answered.
Served == gone = {} /\ ~stopped
WaiterKept ==
    Served => /\ \A m \in Messages :
                    pc[Send(m)] \in {"mark", "deliver"} => waiter = watched[m]
              /\ \A r \in Readers :
                    pc[Expire(r)] \in {"mark", "deliver"} => waiter = r

\* What is acknowledged for Codex is in its queue.
ReceiptsTrue == pc[Waker] \in {"dispatched", "ack"} => claim \in native

\* Only the holder of the lock replaces or answers the waiter.
LEMMA KeptStep ==
    /\ "crash" \notin Faults /\ ActorsTyped /\ RequestsTyped
    /\ WatchedIsReader /\ SelectionOwned /\ WaiterKept /\ [Next]_vars
    => WaiterKept'
  <1> SUFFICES ASSUME "crash" \notin Faults, ActorsTyped, RequestsTyped,
                      WatchedIsReader, SelectionOwned, WaiterKept, [Next]_vars
               PROVE  WaiterKept'
    OBVIOUS
  <1> USE ConstantsAssumption, ActorsDistinct
      DEF ActorsTyped, RequestsTyped, WatchedIsReader, SelectionOwned,
          Selecting, Served, WaiterKept, WakeLabels, Goto, Sees, Finish,
          Deliver, Clock, Fault, vars, file, http, codex, nudge, session,
          typing
  <1>1. ASSUME NEW m \in Messages, Sender(m) PROVE WaiterKept'
    <2>1. CASE SendAppend(m)
      BY <2>1 DEF SendAppend
    <2>2. CASE SendNotify(m)
      BY <2>2 DEF SendNotify
    <2>3. CASE SendLook(m)
      BY <2>3 DEF SendLook
    <2>4. CASE SendCheck(m)
      BY <2>4 DEF SendCheck
    <2>5. CASE SendMark(m)
      BY <2>5 DEF SendMark
    <2>6. CASE SendDeliver(m)
      BY <2>6 DEF SendDeliver
    <2>7. CASE SendCount(m)
      BY <2>7 DEF SendCount
    <2>8. CASE SendClose(m)
      BY <2>8 DEF SendClose
    <2> QED
      BY <1>1, <2>1, <2>2, <2>3, <2>4, <2>5, <2>6, <2>7, <2>8 DEF Sender, Notify
  <1>2. ASSUME NEW r \in Readers, ReadArrive(r) PROVE WaiterKept'
    BY <1>2 DEF ReadArrive
  <1>3. ASSUME NEW r \in Readers, Reader(r) PROVE WaiterKept'
    <2>1. CASE ReadList(r)
      BY <2>1 DEF ReadList
    <2>2. CASE ReadDrain(r)
      BY <2>2 DEF ReadDrain
    <2>3. CASE ReadPark(r)
      BY <2>3 DEF ReadPark
    <2>4. CASE ReadMark(r)
      BY <2>4 DEF ReadMark
    <2>5. CASE ReadReply(r)
      BY <2>5 DEF ReadReply
    <2> QED
      BY <1>3, <2>1, <2>2, <2>3, <2>4, <2>5 DEF Reader
  <1>4. ASSUME NEW r \in Readers, Expiry(r) PROVE WaiterKept'
    <2>1. CASE ExpireFire(r)
      BY <2>1 DEF ExpireFire
    <2>2. CASE ExpireList(r)
      BY <2>2 DEF ExpireList
    <2>3. CASE ExpireCheck(r)
      BY <2>3 DEF ExpireCheck
    <2>4. CASE ExpireMark(r)
      BY <2>4 DEF ExpireMark
    <2>5. CASE ExpireDeliver(r)
      BY <2>5 DEF ExpireDeliver
    <2> QED
      BY <1>4, <2>1, <2>2, <2>3, <2>4, <2>5 DEF Expiry
  <1>5. ASSUME NudgeFires PROVE WaiterKept'
    BY <1>5 DEF NudgeFires
  <1>6. ASSUME Wake PROVE WaiterKept'
    <2>1. CASE WakeStart
      BY <2>1 DEF WakeStart
    <2>2. CASE WakeLook
      BY <2>2 DEF WakeLook
    <2>3. CASE WakeDecide
      BY <2>3 DEF WakeDecide
    <2>4. CASE WakeRecheck
      BY <2>4 DEF WakeRecheck
    <2>5. CASE WakeInject
      BY <2>5 DEF WakeInject
    <2>6. CASE WakeSubmit
      BY <2>6 DEF WakeSubmit
    <2>7. CASE WakeResubmit
      BY <2>7 DEF WakeResubmit
    <2> QED
      BY <1>6, <2>1, <2>2, <2>3, <2>4, <2>5, <2>6, <2>7 DEF Wake
  <1>7. ASSUME Codex PROVE WaiterKept'
    <2>1. CASE CodexGate
      BY <2>1 DEF CodexGate
    <2>2. CASE CodexClaim
      BY <2>2 DEF CodexClaim
    <2>3. CASE CodexDispatch
      BY <2>3 DEF CodexDispatch
    <2>4. CASE CodexReject
      BY <2>4 DEF CodexReject
    <2>5. CASE CodexReceipt
      BY <2>5 DEF CodexReceipt
    <2>6. CASE CodexUnknown
      BY <2>6 DEF CodexUnknown
    <2>7. CASE CodexAck
      BY <2>7 DEF CodexAck
    <2>8. CASE CodexUnclaim
      BY <2>8 DEF CodexUnclaim
    <2>9. CASE CodexTally
      BY <2>9 DEF CodexTally
    <2> QED
      BY <1>7, <2>1, <2>2, <2>3, <2>4, <2>5, <2>6, <2>7, <2>8, <2>9 DEF Codex
  <1>8. ASSUME Recover PROVE WaiterKept'
    BY <1>8 DEF Recover, RecoverList, RecoverArm
  <1>9. ASSUME Clocks PROVE WaiterKept'
    BY <1>9 DEF Clocks, GracePasses, WindowOpens, RetryDue,
        LeaseExpires, AgentIdle
  <1>10. ASSUME Environment PROVE WaiterKept'
    <2>1. CASE AgentBusy
      BY <2>1 DEF AgentBusy
    <2>2. CASE RegisterNativeWake
      BY <2>2 DEF RegisterNativeWake
    <2>3. CASE SessionExits
      BY <2>3 DEF SessionExits
    <2>4. CASE SessionReady
      BY <2>4 DEF SessionReady
    <2>5. CASE Stop
      BY <2>5 DEF Stop
    <2>6. CASE Crash
      BY <2>6 DEF Crash
    <2>7. ASSUME NEW r \in Readers, Disconnect(r) PROVE WaiterKept'
      BY <2>7 DEF Disconnect
    <2> QED
      BY <1>10, <2>1, <2>2, <2>3, <2>4, <2>5, <2>6, <2>7 DEF Environment
  <1>11. CASE UNCHANGED vars
    BY <1>11
  <1> QED
    BY <1>1, <1>2, <1>3, <1>4, <1>5, <1>6, <1>7, <1>8, <1>9, <1>10, <1>11
       DEF Next

\* A receipt is for the message that was dispatched.
LEMMA ReceiptStep ==
    /\ ActorsTyped /\ RequestsTyped /\ WatchedIsReader /\ ReceiptsTrue
    /\ [Next]_vars
    => ReceiptsTrue'
  <1> SUFFICES ASSUME ActorsTyped, RequestsTyped, WatchedIsReader,
                      ReceiptsTrue, [Next]_vars
               PROVE  ReceiptsTrue'
    OBVIOUS
  <1> USE ActorsDistinct
      DEF ActorsTyped, RequestsTyped, WatchedIsReader, ReceiptsTrue, Goto,
          Sees, Finish, Deliver, Clock, Fault, vars, file, http, codex, nudge,
          session, typing
  <1>1. ASSUME NEW m \in Messages, Sender(m) PROVE ReceiptsTrue'
    <2>1. CASE SendAppend(m)
      BY <2>1 DEF SendAppend
    <2>2. CASE SendNotify(m)
      BY <2>2 DEF SendNotify
    <2>3. CASE SendLook(m)
      BY <2>3 DEF SendLook
    <2>4. CASE SendCheck(m)
      BY <2>4 DEF SendCheck
    <2>5. CASE SendMark(m)
      BY <2>5 DEF SendMark
    <2>6. CASE SendDeliver(m)
      BY <2>6 DEF SendDeliver
    <2>7. CASE SendCount(m)
      BY <2>7 DEF SendCount
    <2>8. CASE SendClose(m)
      BY <2>8 DEF SendClose
    <2> QED
      BY <1>1, <2>1, <2>2, <2>3, <2>4, <2>5, <2>6, <2>7, <2>8 DEF Sender, Notify
  <1>2. ASSUME NEW r \in Readers, ReadArrive(r) PROVE ReceiptsTrue'
    BY <1>2 DEF ReadArrive
  <1>3. ASSUME NEW r \in Readers, Reader(r) PROVE ReceiptsTrue'
    <2>1. CASE ReadList(r)
      BY <2>1 DEF ReadList
    <2>2. CASE ReadDrain(r)
      BY <2>2 DEF ReadDrain
    <2>3. CASE ReadPark(r)
      BY <2>3 DEF ReadPark
    <2>4. CASE ReadMark(r)
      BY <2>4 DEF ReadMark
    <2>5. CASE ReadReply(r)
      BY <2>5 DEF ReadReply
    <2> QED
      BY <1>3, <2>1, <2>2, <2>3, <2>4, <2>5 DEF Reader
  <1>4. ASSUME NEW r \in Readers, Expiry(r) PROVE ReceiptsTrue'
    <2>1. CASE ExpireFire(r)
      BY <2>1 DEF ExpireFire
    <2>2. CASE ExpireList(r)
      BY <2>2 DEF ExpireList
    <2>3. CASE ExpireCheck(r)
      BY <2>3 DEF ExpireCheck
    <2>4. CASE ExpireMark(r)
      BY <2>4 DEF ExpireMark
    <2>5. CASE ExpireDeliver(r)
      BY <2>5 DEF ExpireDeliver
    <2> QED
      BY <1>4, <2>1, <2>2, <2>3, <2>4, <2>5 DEF Expiry
  <1>5. ASSUME NudgeFires PROVE ReceiptsTrue'
    BY <1>5 DEF NudgeFires
  <1>6. ASSUME Wake PROVE ReceiptsTrue'
    <2>1. CASE WakeStart
      BY <2>1 DEF WakeStart
    <2>2. CASE WakeLook
      BY <2>2 DEF WakeLook
    <2>3. CASE WakeDecide
      BY <2>3 DEF WakeDecide
    <2>4. CASE WakeRecheck
      BY <2>4 DEF WakeRecheck
    <2>5. CASE WakeInject
      BY <2>5 DEF WakeInject
    <2>6. CASE WakeSubmit
      BY <2>6 DEF WakeSubmit
    <2>7. CASE WakeResubmit
      BY <2>7 DEF WakeResubmit
    <2> QED
      BY <1>6, <2>1, <2>2, <2>3, <2>4, <2>5, <2>6, <2>7 DEF Wake
  <1>7. ASSUME Codex PROVE ReceiptsTrue'
    <2>1. CASE CodexGate
      BY <2>1 DEF CodexGate
    <2>2. CASE CodexClaim
      BY <2>2 DEF CodexClaim
    <2>3. CASE CodexDispatch
      BY <2>3 DEF CodexDispatch
    <2>4. CASE CodexReject
      BY <2>4 DEF CodexReject
    <2>5. CASE CodexReceipt
      BY <2>5 DEF CodexReceipt
    <2>6. CASE CodexUnknown
      BY <2>6 DEF CodexUnknown
    <2>7. CASE CodexAck
      BY <2>7 DEF CodexAck
    <2>8. CASE CodexUnclaim
      BY <2>8 DEF CodexUnclaim
    <2>9. CASE CodexTally
      BY <2>9 DEF CodexTally
    <2> QED
      BY <1>7, <2>1, <2>2, <2>3, <2>4, <2>5, <2>6, <2>7, <2>8, <2>9 DEF Codex
  <1>8. ASSUME Recover PROVE ReceiptsTrue'
    BY <1>8 DEF Recover, RecoverList, RecoverArm
  <1>9. ASSUME Clocks PROVE ReceiptsTrue'
    BY <1>9 DEF Clocks, GracePasses, WindowOpens, RetryDue,
        LeaseExpires, AgentIdle
  <1>10. ASSUME Environment PROVE ReceiptsTrue'
    <2>1. CASE AgentBusy
      BY <2>1 DEF AgentBusy
    <2>2. CASE RegisterNativeWake
      BY <2>2 DEF RegisterNativeWake
    <2>3. CASE SessionExits
      BY <2>3 DEF SessionExits
    <2>4. CASE SessionReady
      BY <2>4 DEF SessionReady
    <2>5. CASE Stop
      BY <2>5 DEF Stop
    <2>6. CASE Crash
      BY <2>6 DEF Crash
    <2>7. ASSUME NEW r \in Readers, Disconnect(r) PROVE ReceiptsTrue'
      BY <2>7 DEF Disconnect
    <2> QED
      BY <1>10, <2>1, <2>2, <2>3, <2>4, <2>5, <2>6, <2>7 DEF Environment
  <1>11. CASE UNCHANGED vars
    BY <1>11
  <1> QED
    BY <1>1, <1>2, <1>3, <1>4, <1>5, <1>6, <1>7, <1>8, <1>9, <1>10, <1>11
       DEF Next

\* Marked mail passes from the hands of its marker into an answer.
LEMMA SafeStep ==
    /\ "crash" \notin Faults /\ ActorsTyped /\ RequestsTyped
    /\ WatchedIsReader /\ WaiterIsParked /\ SelectionOwned
    /\ AnswerSettles /\ WaiterKept /\ ReceiptsTrue /\ SafeWhileServed
    /\ [Next]_vars
    => SafeWhileServed'
  <1> SUFFICES ASSUME "crash" \notin Faults, ActorsTyped, RequestsTyped,
                      WatchedIsReader, WaiterIsParked, SelectionOwned,
                      AnswerSettles, WaiterKept, ReceiptsTrue,
                      SafeWhileServed, [Next]_vars
               PROVE  SafeWhileServed'
    OBVIOUS
  <1> USE ConstantsAssumption, ActorsDistinct
      DEF ActorsTyped, RequestsTyped, WatchedIsReader, WaiterIsParked,
          SelectionOwned, Selecting, AnswerSettles, Served, WaiterKept,
          ReceiptsTrue, SafeWhileServed, NoMailLost, InHand, Mark, WakeLabels,
          Goto, Sees, Finish, Deliver, Clock, Fault, vars, file, http, codex,
          nudge, session, typing
  <1>1. ASSUME NEW m \in Messages, Sender(m) PROVE SafeWhileServed'
    <2>1. CASE SendAppend(m)
      BY <2>1 DEF SendAppend
    <2>2. CASE SendNotify(m)
      BY <2>2 DEF SendNotify
    <2>3. CASE SendLook(m)
      BY <2>3 DEF SendLook
    <2>4. CASE SendCheck(m)
      BY <2>4, ZenonT(60) DEF SendCheck
    <2>5. CASE SendMark(m)
      BY <2>5 DEF SendMark
    <2>6. CASE SendDeliver(m)
      BY <2>6 DEF SendDeliver
    <2>7. CASE SendCount(m)
      BY <2>7 DEF SendCount
    <2>8. CASE SendClose(m)
      BY <2>8 DEF SendClose
    <2> QED
      BY <1>1, <2>1, <2>2, <2>3, <2>4, <2>5, <2>6, <2>7, <2>8 DEF Sender, Notify
  <1>2. ASSUME NEW r \in Readers, ReadArrive(r) PROVE SafeWhileServed'
    BY <1>2 DEF ReadArrive
  <1>3. ASSUME NEW r \in Readers, Reader(r) PROVE SafeWhileServed'
    <2>1. CASE ReadList(r)
      BY <2>1 DEF ReadList
    <2>2. CASE ReadDrain(r)
      BY <2>2 DEF ReadDrain
    <2>3. CASE ReadPark(r)
      BY <2>3 DEF ReadPark
    <2>4. CASE ReadMark(r)
      BY <2>4 DEF ReadMark
    <2>5. CASE ReadReply(r)
      BY <2>5 DEF ReadReply
    <2> QED
      BY <1>3, <2>1, <2>2, <2>3, <2>4, <2>5 DEF Reader
  <1>4. ASSUME NEW r \in Readers, Expiry(r) PROVE SafeWhileServed'
    <2>1. CASE ExpireFire(r)
      BY <2>1 DEF ExpireFire
    <2>2. CASE ExpireList(r)
      BY <2>2, ZenonT(60) DEF ExpireList
    <2>3. CASE ExpireCheck(r)
      BY <2>3 DEF ExpireCheck
    <2>4. CASE ExpireMark(r)
      BY <2>4 DEF ExpireMark
    <2>5. CASE ExpireDeliver(r)
      BY <2>5 DEF ExpireDeliver
    <2> QED
      BY <1>4, <2>1, <2>2, <2>3, <2>4, <2>5 DEF Expiry
  <1>5. ASSUME NudgeFires PROVE SafeWhileServed'
    BY <1>5 DEF NudgeFires
  <1>6. ASSUME Wake PROVE SafeWhileServed'
    <2>1. CASE WakeStart
      BY <2>1 DEF WakeStart
    <2>2. CASE WakeLook
      BY <2>2 DEF WakeLook
    <2>3. CASE WakeDecide
      BY <2>3 DEF WakeDecide
    <2>4. CASE WakeRecheck
      BY <2>4 DEF WakeRecheck
    <2>5. CASE WakeInject
      BY <2>5 DEF WakeInject
    <2>6. CASE WakeSubmit
      BY <2>6 DEF WakeSubmit
    <2>7. CASE WakeResubmit
      BY <2>7 DEF WakeResubmit
    <2> QED
      BY <1>6, <2>1, <2>2, <2>3, <2>4, <2>5, <2>6, <2>7 DEF Wake
  <1>7. ASSUME Codex PROVE SafeWhileServed'
    <2>1. CASE CodexGate
      BY <2>1 DEF CodexGate
    <2>2. CASE CodexClaim
      BY <2>2 DEF CodexClaim
    <2>3. CASE CodexDispatch
      BY <2>3 DEF CodexDispatch
    <2>4. CASE CodexReject
      BY <2>4 DEF CodexReject
    <2>5. CASE CodexReceipt
      BY <2>5 DEF CodexReceipt
    <2>6. CASE CodexUnknown
      BY <2>6 DEF CodexUnknown
    <2>7. CASE CodexAck
      BY <2>7 DEF CodexAck
    <2>8. CASE CodexUnclaim
      BY <2>8 DEF CodexUnclaim
    <2>9. CASE CodexTally
      BY <2>9 DEF CodexTally
    <2> QED
      BY <1>7, <2>1, <2>2, <2>3, <2>4, <2>5, <2>6, <2>7, <2>8, <2>9 DEF Codex
  <1>8. ASSUME Recover PROVE SafeWhileServed'
    BY <1>8 DEF Recover, RecoverList, RecoverArm
  <1>9. ASSUME Clocks PROVE SafeWhileServed'
    BY <1>9 DEF Clocks, GracePasses, WindowOpens, RetryDue,
        LeaseExpires, AgentIdle
  <1>10. ASSUME Environment PROVE SafeWhileServed'
    <2>1. CASE AgentBusy
      BY <2>1 DEF AgentBusy
    <2>2. CASE RegisterNativeWake
      BY <2>2 DEF RegisterNativeWake
    <2>3. CASE SessionExits
      BY <2>3 DEF SessionExits
    <2>4. CASE SessionReady
      BY <2>4 DEF SessionReady
    <2>5. CASE Stop
      BY <2>5 DEF Stop
    <2>6. CASE Crash
      BY <2>6 DEF Crash
    <2>7. ASSUME NEW r \in Readers, Disconnect(r) PROVE SafeWhileServed'
      BY <2>7 DEF Disconnect
    <2> QED
      BY <1>10, <2>1, <2>2, <2>3, <2>4, <2>5, <2>6, <2>7 DEF Environment
  <1>11. CASE UNCHANGED vars
    BY <1>11
  <1> QED
    BY <1>1, <1>2, <1>3, <1>4, <1>5, <1>6, <1>7, <1>8, <1>9, <1>10, <1>11
       DEF Next


\* Nothing but a wake types and nothing but a dispatch queues natively, and
\* each looks at the service's epoch in the step in which it does.
LEMMA QuietStep ==
    ASSUME [Next]_vars, stopped, stopped'
    PROVE  composer' \in {composer, "clear"} /\ native' = native
  <1> DEFINE Quiet == composer' \in {composer, "clear"} /\ native' = native
  <1> USE DEF vars, codex, session, typing, Clock
  <1>1. ASSUME NEW m \in Messages, Sender(m) PROVE Quiet
    BY <1>1 DEF Sender, Notify, SendAppend, SendNotify, SendLook, SendCheck,
        SendMark, SendDeliver, SendCount, SendClose
  <1>2. ASSUME NEW r \in Readers, ReadArrive(r) \/ Reader(r) \/ Expiry(r)
        PROVE  Quiet
    BY <1>2 DEF ReadArrive, Reader, ReadList, ReadDrain, ReadPark, ReadMark,
        ReadReply, Expiry, ExpireFire, ExpireList, ExpireCheck, ExpireMark,
        ExpireDeliver
  <1>3. CASE NudgeFires \/ Recover \/ Clocks
    BY <1>3 DEF NudgeFires, Recover, RecoverList, RecoverArm, Clocks,
        GracePasses, WindowOpens, RetryDue, LeaseExpires, AgentIdle
  <1>4. CASE Wake
    BY <1>4 DEF Wake, WakeStart, WakeLook, WakeDecide, WakeRecheck,
        WakeInject, WakeSubmit, WakeResubmit
  <1>5. CASE Codex
    BY <1>5 DEF Codex, CodexGate, CodexClaim, CodexDispatch, CodexReject,
        CodexReceipt, CodexUnknown, CodexAck, CodexUnclaim, CodexTally
  <1>6. CASE Environment
    BY <1>6 DEF Environment, AgentBusy, RegisterNativeWake, SessionExits,
        SessionReady, Stop, Crash, Disconnect
  <1>7. CASE UNCHANGED vars
    BY <1>7
  <1> QED
    BY <1>1, <1>2, <1>3, <1>4, <1>5, <1>6, <1>7 DEF Next

-----------------------------------------------------------------------------
\* While Codex is asked about a message no reader and no sender consumes it:
\* the claim hides it from every listing made after it, and a listing made
\* before it was marked under the lock the claim had to wait for.
THEOREM ClaimsRespected == Spec => []ClaimUndisturbed
  <1> DEFINE Strong == IInv /\ ClaimUnseen /\ ClaimUndisturbed
  <1>1. Init => Strong
    BY Initially, ConstantsAssumption
       DEF Init, ClaimUnseen, ClaimUndisturbed
  <1>2. Strong /\ [Next]_vars => Strong'
    BY Inductive, UnseenStep DEF IInv, TypeOK
  <1>3. Strong => ClaimUndisturbed
    OBVIOUS
  <1> QED
    BY <1>1, <1>2, <1>3, PTL DEF Spec

\* As long as the bridge does not die, no client leaves and the service is
\* not stopped, mail marked delivered is in an answer, in Codex's queue or in
\* the hands of the handler that is about to put it there.
THEOREM MarkedMailReaches ==
    ASSUME "crash" \notin Faults
    PROVE  Spec => []SafeWhileServed
  <1> DEFINE Strong == IInv /\ WaiterKept /\ ReceiptsTrue /\ SafeWhileServed
  <1>1. Init => Strong
    BY Initially, ActorsDistinct
       DEF Init, WaiterKept, ReceiptsTrue, SafeWhileServed, NoMailLost
  <1>2. Strong /\ [Next]_vars => Strong'
    BY Inductive, KeptStep, ReceiptStep, SafeStep DEF IInv, TypeOK
  <1>3. Strong => SafeWhileServed
    OBVIOUS
  <1> QED
    BY <1>1, <1>2, <1>3, PTL DEF Spec

\* A stopped service types no nudge and dispatches nothing to Codex, although
\* its wakes are still between two awaits.
THEOREM StoppedIsQuiet == Spec => QuietAfterStop
  <1>1. [Next]_vars => [stopped /\ stopped' =>
                          /\ composer' \in {composer, "clear"}
                          /\ native' = native]_vars
    BY QuietStep
  <1> QED
    BY <1>1, PTL DEF Spec, QuietAfterStop
-----------------------------------------------------------------------------
(* No mail is forgotten: what the liveness properties MailWakes and        *)
(* CodexDelivers rest on.  That the timers fire, that clocks pass and that *)
(* Codex answers is left to fairness, and so to TLC.                       *)

\* The send that stored m has yet to look, to mark m or to arm the nudge.
SendOwes(m) ==
    \/ pc[Send(m)] \in {"stored", "queued"}
    \/ Kind = "codex" /\ pc[Send(m)] \in {"check", "mark", "deliver", "count"}
    \/ pc[Send(m)] \in {"check", "mark", "close"} /\ m \in seen[Send(m)]
         /\ (pc[Send(m)] = "close" => watched[m] = Nobody \/ Kind = "codex")

\* The wake under way has yet to look, or has seen m and is about to point at
\* it, to ask Codex or to arm the nudge again.
WakerOwes(m) ==
    \/ pc[Waker] \in {"look", "inject"} /\ m \in seen[Waker]
    \/ pc[Waker] = "submit" /\ m \in seen[Waker] /\ composer = "line"
    \/ pc[Waker] \in {"decide", "recheck", "claim", "probe", "dispatched",
                      "refused", "ack", "unclaim", "tally"}

\* So has the recovery.
RecoveryOwes(m) ==
    \/ pc[Recovery] = "load"
    \/ pc[Recovery] = "rearm" /\ m \in seen[Recovery]

\* Something is due that will look at m: a send, a timer, a wake, a recovery.
Owed(m) == SendOwes(m) \/ timer \/ fires > 0 \/ WakerOwes(m) \/ RecoveryOwes(m)

\* While the session is attached and the service not stopped, mail that was
\* neither read nor pointed at has a wake coming.  A session that long-polls
\* (pi) gets none, and a client that leaves while a sender hands mail to it
\* may leave mail without one, but for Codex (mail-delivery.ts:365).
MailOwed ==
    up /\ ~stopped /\ Kind # "pi" /\ (gone = {} \/ Kind = "codex")
      => \A m \in Undelivered \ nudged : Owed(m)

\* Typed nudges and native wakes are not mixed.
WakeKind ==
    /\ pc[Waker] \in {"recheck", "inject", "submit", "resubmit"} => Kind # "codex"
    /\ pc[Waker] \in {"claim", "probe", "dispatched", "refused", "ack",
                      "unclaim", "tally"} => Kind = "codex"

\* The waiter a sender has found is the waiter until it has looked again.
WaiterStays ==
    gone = {} /\ ~stopped
      => \A m \in Messages : pc[Send(m)] = "check" => waiter = watched[m]

OwedInv == WakeKind /\ WaiterStays /\ MailOwed

\* A wake keeps to the kind of its session.
LEMMA KindStep ==
    /\ ActorsTyped /\ RequestsTyped /\ WatchedIsReader /\ WakeKind /\ [Next]_vars
    => WakeKind'
  <1> SUFFICES ASSUME ActorsTyped, RequestsTyped, WatchedIsReader, WakeKind,
                      [Next]_vars
               PROVE  WakeKind'
    OBVIOUS
  <1> USE ActorsDistinct
      DEF ActorsTyped, RequestsTyped, WatchedIsReader, WakeKind, WakeLabels, Goto, Sees, Finish,
          Deliver, Clock, Fault, vars, file, http, codex, nudge, session,
          typing
  <1>1. ASSUME NEW m \in Messages, Sender(m) PROVE WakeKind'
    <2>1. CASE SendAppend(m)
      BY <2>1 DEF SendAppend
    <2>2. CASE SendNotify(m)
      BY <2>2 DEF SendNotify
    <2>3. CASE SendLook(m)
      BY <2>3 DEF SendLook
    <2>4. CASE SendCheck(m)
      BY <2>4 DEF SendCheck
    <2>5. CASE SendMark(m)
      BY <2>5 DEF SendMark
    <2>6. CASE SendDeliver(m)
      BY <2>6 DEF SendDeliver
    <2>7. CASE SendCount(m)
      BY <2>7 DEF SendCount
    <2>8. CASE SendClose(m)
      BY <2>8 DEF SendClose
    <2> QED
      BY <1>1, <2>1, <2>2, <2>3, <2>4, <2>5, <2>6, <2>7, <2>8 DEF Sender, Notify
  <1>2. ASSUME NEW r \in Readers, ReadArrive(r) PROVE WakeKind'
    BY <1>2 DEF ReadArrive
  <1>3. ASSUME NEW r \in Readers, Reader(r) PROVE WakeKind'
    <2>1. CASE ReadList(r)
      BY <2>1 DEF ReadList
    <2>2. CASE ReadDrain(r)
      BY <2>2 DEF ReadDrain
    <2>3. CASE ReadPark(r)
      BY <2>3 DEF ReadPark
    <2>4. CASE ReadMark(r)
      BY <2>4 DEF ReadMark
    <2>5. CASE ReadReply(r)
      BY <2>5 DEF ReadReply
    <2> QED
      BY <1>3, <2>1, <2>2, <2>3, <2>4, <2>5 DEF Reader
  <1>4. ASSUME NEW r \in Readers, Expiry(r) PROVE WakeKind'
    <2>1. CASE ExpireFire(r)
      BY <2>1 DEF ExpireFire
    <2>2. CASE ExpireList(r)
      BY <2>2 DEF ExpireList
    <2>3. CASE ExpireCheck(r)
      BY <2>3 DEF ExpireCheck
    <2>4. CASE ExpireMark(r)
      BY <2>4 DEF ExpireMark
    <2>5. CASE ExpireDeliver(r)
      BY <2>5 DEF ExpireDeliver
    <2> QED
      BY <1>4, <2>1, <2>2, <2>3, <2>4, <2>5 DEF Expiry
  <1>5. ASSUME NudgeFires PROVE WakeKind'
    BY <1>5 DEF NudgeFires
  <1>6. ASSUME Wake PROVE WakeKind'
    <2>1. CASE WakeStart
      BY <2>1 DEF WakeStart
    <2>2. CASE WakeLook
      BY <2>2 DEF WakeLook
    <2>3. CASE WakeDecide
      BY <2>3 DEF WakeDecide
    <2>4. CASE WakeRecheck
      BY <2>4 DEF WakeRecheck
    <2>5. CASE WakeInject
      BY <2>5 DEF WakeInject
    <2>6. CASE WakeSubmit
      BY <2>6 DEF WakeSubmit
    <2>7. CASE WakeResubmit
      BY <2>7 DEF WakeResubmit
    <2> QED
      BY <1>6, <2>1, <2>2, <2>3, <2>4, <2>5, <2>6, <2>7 DEF Wake
  <1>7. ASSUME Codex PROVE WakeKind'
    <2>1. CASE CodexGate
      BY <2>1 DEF CodexGate
    <2>2. CASE CodexClaim
      BY <2>2 DEF CodexClaim
    <2>3. CASE CodexDispatch
      BY <2>3 DEF CodexDispatch
    <2>4. CASE CodexReject
      BY <2>4 DEF CodexReject
    <2>5. CASE CodexReceipt
      BY <2>5 DEF CodexReceipt
    <2>6. CASE CodexUnknown
      BY <2>6 DEF CodexUnknown
    <2>7. CASE CodexAck
      BY <2>7 DEF CodexAck
    <2>8. CASE CodexUnclaim
      BY <2>8 DEF CodexUnclaim
    <2>9. CASE CodexTally
      BY <2>9 DEF CodexTally
    <2> QED
      BY <1>7, <2>1, <2>2, <2>3, <2>4, <2>5, <2>6, <2>7, <2>8, <2>9 DEF Codex
  <1>8. ASSUME Recover PROVE WakeKind'
    BY <1>8 DEF Recover, RecoverList, RecoverArm
  <1>9. ASSUME Clocks PROVE WakeKind'
    BY <1>9 DEF Clocks, GracePasses, WindowOpens, RetryDue,
        LeaseExpires, AgentIdle
  <1>10. ASSUME Environment PROVE WakeKind'
    <2>1. CASE AgentBusy
      BY <2>1 DEF AgentBusy
    <2>2. CASE RegisterNativeWake
      BY <2>2 DEF RegisterNativeWake
    <2>3. CASE SessionExits
      BY <2>3 DEF SessionExits
    <2>4. CASE SessionReady
      BY <2>4 DEF SessionReady
    <2>5. CASE Stop
      BY <2>5 DEF Stop
    <2>6. CASE Crash
      BY <2>6 DEF Crash
    <2>7. ASSUME NEW r \in Readers, Disconnect(r) PROVE WakeKind'
      BY <2>7 DEF Disconnect
    <2> QED
      BY <1>10, <2>1, <2>2, <2>3, <2>4, <2>5, <2>6, <2>7 DEF Environment
  <1>11. CASE UNCHANGED vars
    BY <1>11
  <1> QED
    BY <1>1, <1>2, <1>3, <1>4, <1>5, <1>6, <1>7, <1>8, <1>9, <1>10, <1>11
       DEF Next

\* Only the holder of the lock answers or replaces the waiter, unless its
\* client leaves or the service is stopped.
LEMMA StaysStep ==
    /\ ActorsTyped /\ RequestsTyped /\ WatchedIsReader /\ SelectionOwned
    /\ WaiterStays /\ [Next]_vars
    => WaiterStays'
  <1> SUFFICES ASSUME ActorsTyped, RequestsTyped, WatchedIsReader,
                      SelectionOwned, WaiterStays, [Next]_vars
               PROVE  WaiterStays'
    OBVIOUS
  <1> USE ConstantsAssumption, ActorsDistinct
      DEF ActorsTyped, RequestsTyped, WatchedIsReader, SelectionOwned,
          Selecting, WaiterStays, WakeLabels, Goto, Sees, Finish,
          Deliver, Clock, Fault, vars, file, http, codex, nudge, session,
          typing
  <1>1. ASSUME NEW m \in Messages, Sender(m) PROVE WaiterStays'
    <2>1. CASE SendAppend(m)
      BY <2>1 DEF SendAppend
    <2>2. CASE SendNotify(m)
      BY <2>2 DEF SendNotify
    <2>3. CASE SendLook(m)
      BY <2>3 DEF SendLook
    <2>4. CASE SendCheck(m)
      BY <2>4 DEF SendCheck
    <2>5. CASE SendMark(m)
      BY <2>5 DEF SendMark
    <2>6. CASE SendDeliver(m)
      BY <2>6 DEF SendDeliver
    <2>7. CASE SendCount(m)
      BY <2>7 DEF SendCount
    <2>8. CASE SendClose(m)
      BY <2>8 DEF SendClose
    <2> QED
      BY <1>1, <2>1, <2>2, <2>3, <2>4, <2>5, <2>6, <2>7, <2>8 DEF Sender, Notify
  <1>2. ASSUME NEW r \in Readers, ReadArrive(r) PROVE WaiterStays'
    BY <1>2 DEF ReadArrive
  <1>3. ASSUME NEW r \in Readers, Reader(r) PROVE WaiterStays'
    <2>1. CASE ReadList(r)
      BY <2>1 DEF ReadList
    <2>2. CASE ReadDrain(r)
      BY <2>2 DEF ReadDrain
    <2>3. CASE ReadPark(r)
      BY <2>3 DEF ReadPark
    <2>4. CASE ReadMark(r)
      BY <2>4 DEF ReadMark
    <2>5. CASE ReadReply(r)
      BY <2>5 DEF ReadReply
    <2> QED
      BY <1>3, <2>1, <2>2, <2>3, <2>4, <2>5 DEF Reader
  <1>4. ASSUME NEW r \in Readers, Expiry(r) PROVE WaiterStays'
    <2>1. CASE ExpireFire(r)
      BY <2>1 DEF ExpireFire
    <2>2. CASE ExpireList(r)
      BY <2>2 DEF ExpireList
    <2>3. CASE ExpireCheck(r)
      BY <2>3 DEF ExpireCheck
    <2>4. CASE ExpireMark(r)
      BY <2>4 DEF ExpireMark
    <2>5. CASE ExpireDeliver(r)
      BY <2>5 DEF ExpireDeliver
    <2> QED
      BY <1>4, <2>1, <2>2, <2>3, <2>4, <2>5 DEF Expiry
  <1>5. ASSUME NudgeFires PROVE WaiterStays'
    BY <1>5 DEF NudgeFires
  <1>6. ASSUME Wake PROVE WaiterStays'
    <2>1. CASE WakeStart
      BY <2>1 DEF WakeStart
    <2>2. CASE WakeLook
      BY <2>2 DEF WakeLook
    <2>3. CASE WakeDecide
      BY <2>3 DEF WakeDecide
    <2>4. CASE WakeRecheck
      BY <2>4 DEF WakeRecheck
    <2>5. CASE WakeInject
      BY <2>5 DEF WakeInject
    <2>6. CASE WakeSubmit
      BY <2>6 DEF WakeSubmit
    <2>7. CASE WakeResubmit
      BY <2>7 DEF WakeResubmit
    <2> QED
      BY <1>6, <2>1, <2>2, <2>3, <2>4, <2>5, <2>6, <2>7 DEF Wake
  <1>7. ASSUME Codex PROVE WaiterStays'
    <2>1. CASE CodexGate
      BY <2>1 DEF CodexGate
    <2>2. CASE CodexClaim
      BY <2>2 DEF CodexClaim
    <2>3. CASE CodexDispatch
      BY <2>3 DEF CodexDispatch
    <2>4. CASE CodexReject
      BY <2>4 DEF CodexReject
    <2>5. CASE CodexReceipt
      BY <2>5 DEF CodexReceipt
    <2>6. CASE CodexUnknown
      BY <2>6 DEF CodexUnknown
    <2>7. CASE CodexAck
      BY <2>7 DEF CodexAck
    <2>8. CASE CodexUnclaim
      BY <2>8 DEF CodexUnclaim
    <2>9. CASE CodexTally
      BY <2>9 DEF CodexTally
    <2> QED
      BY <1>7, <2>1, <2>2, <2>3, <2>4, <2>5, <2>6, <2>7, <2>8, <2>9 DEF Codex
  <1>8. ASSUME Recover PROVE WaiterStays'
    BY <1>8 DEF Recover, RecoverList, RecoverArm
  <1>9. ASSUME Clocks PROVE WaiterStays'
    BY <1>9 DEF Clocks, GracePasses, WindowOpens, RetryDue,
        LeaseExpires, AgentIdle
  <1>10. ASSUME Environment PROVE WaiterStays'
    <2>1. CASE AgentBusy
      BY <2>1 DEF AgentBusy
    <2>2. CASE RegisterNativeWake
      BY <2>2 DEF RegisterNativeWake
    <2>3. CASE SessionExits
      BY <2>3 DEF SessionExits
    <2>4. CASE SessionReady
      BY <2>4 DEF SessionReady
    <2>5. CASE Stop
      BY <2>5 DEF Stop
    <2>6. CASE Crash
      BY <2>6 DEF Crash
    <2>7. ASSUME NEW r \in Readers, Disconnect(r) PROVE WaiterStays'
      BY <2>7 DEF Disconnect
    <2> QED
      BY <1>10, <2>1, <2>2, <2>3, <2>4, <2>5, <2>6, <2>7 DEF Environment
  <1>11. CASE UNCHANGED vars
    BY <1>11
  <1> QED
    BY <1>1, <1>2, <1>3, <1>4, <1>5, <1>6, <1>7, <1>8, <1>9, <1>10, <1>11
       DEF Next

\* What an actor is doing is left to it.
Stands(a) == pc'[a] = pc[a] /\ seen'[a] = seen[a]
Others ==
    /\ \A n \in Messages :
          Sender(n) \/ (Stands(Send(n)) /\ watched'[n] = watched[n])
    /\ Wake \/ Codex \/ (Stands(Waker) /\ (composer' = composer \/ ~up'))
    /\ Recover \/ SessionReady \/ Stands(Recovery)
    /\ timer => timer' \/ NudgeFires \/ stopped'
    /\ fires > 0 => fires' > 0 \/ WakeStart

\* Unless the bridge dies, nobody but an actor itself changes what it does,
\* and a timer stands until it fires or the service is stopped.
LEMMA OthersStep ==
    ASSUME ActorsTyped, RequestsTyped, FlagsTyped, CountersTyped,
           WatchedIsReader, [Next]_vars, ~Crash
    PROVE  Others
  <1> USE ConstantsAssumption, ActorsDistinct
      DEF ActorsTyped, RequestsTyped, FlagsTyped, CountersTyped,
          WatchedIsReader, Stands, Others, Schedule, Mark, WakeLabels, Goto, Sees, Finish,
          Deliver, Clock, Fault, vars, file, http, codex, nudge, session,
          typing
  <1>1. ASSUME NEW m \in Messages, Sender(m) PROVE Others
    <2>1. CASE SendAppend(m)
      BY <2>1, <1>1 DEF SendAppend
    <2>2. CASE SendNotify(m)
      BY <2>2, <1>1 DEF SendNotify
    <2>3. CASE SendLook(m)
      BY <2>3, <1>1 DEF SendLook
    <2>4. CASE SendCheck(m)
      BY <2>4, <1>1 DEF SendCheck
    <2>5. CASE SendMark(m)
      BY <2>5, <1>1 DEF SendMark
    <2>6. CASE SendDeliver(m)
      BY <2>6, <1>1 DEF SendDeliver
    <2>7. CASE SendCount(m)
      BY <2>7, <1>1 DEF SendCount
    <2>8. CASE SendClose(m)
      BY <2>8, <1>1 DEF SendClose
    <2> QED
      BY <1>1, <2>1, <2>2, <2>3, <2>4, <2>5, <2>6, <2>7, <2>8 DEF Sender, Notify
  <1>2. ASSUME NEW r \in Readers, ReadArrive(r) PROVE Others
    BY <1>2 DEF ReadArrive
  <1>3. ASSUME NEW r \in Readers, Reader(r) PROVE Others
    <2>1. CASE ReadList(r)
      BY <2>1 DEF ReadList
    <2>2. CASE ReadDrain(r)
      BY <2>2 DEF ReadDrain
    <2>3. CASE ReadPark(r)
      BY <2>3 DEF ReadPark
    <2>4. CASE ReadMark(r)
      BY <2>4 DEF ReadMark
    <2>5. CASE ReadReply(r)
      BY <2>5 DEF ReadReply
    <2> QED
      BY <1>3, <2>1, <2>2, <2>3, <2>4, <2>5 DEF Reader
  <1>4. ASSUME NEW r \in Readers, Expiry(r) PROVE Others
    <2>1. CASE ExpireFire(r)
      BY <2>1 DEF ExpireFire
    <2>2. CASE ExpireList(r)
      BY <2>2 DEF ExpireList
    <2>3. CASE ExpireCheck(r)
      BY <2>3 DEF ExpireCheck
    <2>4. CASE ExpireMark(r)
      BY <2>4 DEF ExpireMark
    <2>5. CASE ExpireDeliver(r)
      BY <2>5 DEF ExpireDeliver
    <2> QED
      BY <1>4, <2>1, <2>2, <2>3, <2>4, <2>5 DEF Expiry
  <1>5. ASSUME NudgeFires PROVE Others
    BY <1>5 DEF NudgeFires
  <1>6. ASSUME Wake PROVE Others
    <2>1. CASE WakeStart
      BY <2>1, <1>6 DEF WakeStart
    <2>2. CASE WakeLook
      BY <2>2, <1>6 DEF WakeLook
    <2>3. CASE WakeDecide
      BY <2>3, <1>6 DEF WakeDecide
    <2>4. CASE WakeRecheck
      BY <2>4, <1>6 DEF WakeRecheck
    <2>5. CASE WakeInject
      BY <2>5, <1>6 DEF WakeInject
    <2>6. CASE WakeSubmit
      BY <2>6, <1>6 DEF WakeSubmit
    <2>7. CASE WakeResubmit
      BY <2>7, <1>6 DEF WakeResubmit
    <2> QED
      BY <1>6, <2>1, <2>2, <2>3, <2>4, <2>5, <2>6, <2>7 DEF Wake
  <1>7. ASSUME Codex PROVE Others
    <2>1. CASE CodexGate
      BY <2>1, <1>7 DEF CodexGate
    <2>2. CASE CodexClaim
      BY <2>2, <1>7 DEF CodexClaim
    <2>3. CASE CodexDispatch
      BY <2>3, <1>7 DEF CodexDispatch
    <2>4. CASE CodexReject
      BY <2>4, <1>7 DEF CodexReject
    <2>5. CASE CodexReceipt
      BY <2>5, <1>7 DEF CodexReceipt
    <2>6. CASE CodexUnknown
      BY <2>6, <1>7 DEF CodexUnknown
    <2>7. CASE CodexAck
      BY <2>7, <1>7 DEF CodexAck
    <2>8. CASE CodexUnclaim
      BY <2>8, <1>7 DEF CodexUnclaim
    <2>9. CASE CodexTally
      BY <2>9, <1>7 DEF CodexTally
    <2> QED
      BY <1>7, <2>1, <2>2, <2>3, <2>4, <2>5, <2>6, <2>7, <2>8, <2>9 DEF Codex
  <1>8. ASSUME Recover PROVE Others
    BY <1>8 DEF RecoverList, RecoverArm, Recover
  <1>9. ASSUME Clocks PROVE Others
    BY <1>9 DEF Clocks, GracePasses, WindowOpens, RetryDue,
        LeaseExpires, AgentIdle
  <1>10. ASSUME Environment PROVE Others
    <2>1. CASE AgentBusy
      BY <2>1 DEF AgentBusy
    <2>2. CASE RegisterNativeWake
      BY <2>2 DEF RegisterNativeWake
    <2>3. CASE SessionExits
      BY <2>3 DEF SessionExits
    <2>4. CASE SessionReady
      BY <2>4 DEF SessionReady
    <2>5. CASE Stop
      BY <2>5 DEF Stop
    <2>6. CASE Crash
      BY <2>6 DEF Crash
    <2>7. ASSUME NEW r \in Readers, Disconnect(r) PROVE Others
      BY <2>7 DEF Disconnect
    <2> QED
      BY <1>10, <2>1, <2>2, <2>3, <2>4, <2>5, <2>6, <2>7 DEF Environment
  <1>11. CASE UNCHANGED vars
    BY <1>11
  <1> QED
    BY <1>1, <1>2, <1>3, <1>4, <1>5, <1>6, <1>7, <1>8, <1>9, <1>10, <1>11
       DEF Next

\* A session that is attached and served after a step was so before, unless
\* the step attached it.
LEMMA ServedBefore ==
    ASSUME RequestsTyped, [Next]_vars, up', ~stopped',
           gone' = {} \/ Kind = "codex"
    PROVE  /\ ~Crash /\ ~stopped /\ (gone = {} \/ Kind = "codex")
           /\ up \/ SessionReady
  <1> DEFINE Kept == /\ stopped' = stopped \/ stopped'
                     /\ gone' = gone \/ gone' # {}
                     /\ up' = up \/ ~up'
  <1> USE DEF vars, file, http, session, Clock
  <1>1. ~Crash
    BY DEF Crash
  <1>2. ASSUME NEW m \in Messages, Sender(m) PROVE Kept
    BY <1>2 DEF Sender, Notify, SendAppend, SendNotify, SendLook, SendCheck,
        SendMark, SendDeliver, SendCount, SendClose
  <1>3. ASSUME NEW r \in Readers, ReadArrive(r) \/ Reader(r) \/ Expiry(r)
        PROVE  Kept
    BY <1>3 DEF ReadArrive, Reader, ReadList, ReadDrain, ReadPark, ReadMark,
        ReadReply, Expiry, ExpireFire, ExpireList, ExpireCheck, ExpireMark,
        ExpireDeliver
  <1>4. ASSUME NudgeFires \/ Recover \/ Clocks PROVE Kept
    BY <1>4 DEF NudgeFires, Recover, RecoverList, RecoverArm, Clocks,
        GracePasses, WindowOpens, RetryDue, LeaseExpires, AgentIdle
  <1>5. ASSUME Wake PROVE Kept
    BY <1>5 DEF Wake, WakeStart, WakeLook, WakeDecide, WakeRecheck,
        WakeInject, WakeSubmit, WakeResubmit
  <1>6. ASSUME Codex PROVE Kept
    BY <1>6 DEF Codex, CodexGate, CodexClaim, CodexDispatch, CodexReject,
        CodexReceipt, CodexUnknown, CodexAck, CodexUnclaim, CodexTally
  <1>7. ASSUME Environment, ~SessionReady PROVE Kept
    BY <1>1, <1>7 DEF Environment, AgentBusy, RegisterNativeWake, SessionExits,
        Stop, Disconnect
  <1>8. ASSUME SessionReady
        PROVE  stopped' = stopped /\ gone' = gone
    BY <1>8 DEF SessionReady
  <1>9. ASSUME UNCHANGED vars PROVE Kept
    BY <1>1, <1>9
  <1> HIDE DEF Kept
  <1>10. Kept \/ SessionReady
    BY <1>2, <1>3, <1>4, <1>5, <1>6, <1>7, <1>9 DEF Next
  <1>11. ~stopped
    BY <1>8, <1>10 DEF Kept
  <1>12. gone = {} \/ Kind = "codex"
    BY <1>8, <1>10 DEF Kept
  <1>13. up \/ SessionReady
    BY <1>10 DEF Kept
  <1> QED
    BY <1>1, <1>11, <1>12, <1>13

\* Mail that is unread and not pointed at was so before, or was just sent.
LEMMA UnreadBefore ==
    ASSUME MailTyped, ActorsTyped, [Next]_vars, NEW m \in Messages,
           m \in Undelivered' \ nudged'
    PROVE  m \in Undelivered \ nudged \/ SendAppend(m)
  <1> DEFINE Kept == inbox' = inbox /\ delivered \subseteq delivered'
                       /\ nudged \subseteq nudged'
  <1> USE DEF vars, file, session, typing, codex, Clock, Mark
  <1>1. ASSUME NEW n \in Messages, Sender(n), ~SendAppend(n) PROVE Kept
    BY <1>1 DEF Sender, Notify, SendNotify, SendLook, SendCheck,
        SendMark, SendDeliver, SendCount, SendClose
  <1>2. ASSUME NEW n \in Messages, SendAppend(n), n # m
        PROVE  m \in Undelivered \ nudged
    <2>1. /\ inbox' = Append(inbox, n)
          /\ delivered' = delivered /\ nudged' = nudged
      BY <1>2 DEF SendAppend
    <2>2. m \in Stored
      BY <2>1, <1>2, AppendStores DEF MailTyped, Undelivered
    <2> QED
      BY <2>1, <2>2 DEF Undelivered
  <1>3. ASSUME NEW r \in Readers, ReadArrive(r) \/ Reader(r) \/ Expiry(r)
        PROVE  Kept
    BY <1>3 DEF ReadArrive, Reader, ReadList, ReadDrain, ReadPark, ReadMark,
        ReadReply, Expiry, ExpireFire, ExpireList, ExpireCheck, ExpireMark,
        ExpireDeliver
  <1>4. ASSUME NudgeFires \/ Recover \/ Clocks PROVE Kept
    BY <1>4 DEF NudgeFires, Recover, RecoverList, RecoverArm, Clocks,
        GracePasses, WindowOpens, RetryDue, LeaseExpires, AgentIdle
  <1>5. ASSUME Wake PROVE Kept
    BY <1>5 DEF Wake, WakeStart, WakeLook, WakeDecide, WakeRecheck,
        WakeInject, WakeSubmit, WakeResubmit
  <1>6. ASSUME Codex PROVE Kept
    BY <1>6 DEF Codex, CodexGate, CodexClaim, CodexDispatch, CodexReject,
        CodexReceipt, CodexUnknown, CodexAck, CodexUnclaim, CodexTally
  <1>7. ASSUME Environment PROVE Kept
    BY <1>7 DEF Environment, AgentBusy, RegisterNativeWake, SessionExits,
        SessionReady, Stop, Crash, Disconnect
  <1>8. ASSUME UNCHANGED vars PROVE Kept
    BY <1>8
  <1>9. Kept => m \in Undelivered \ nudged
    BY StoredKept DEF Undelivered
  <1> QED
    BY <1>1, <1>2, <1>3, <1>4, <1>5, <1>6, <1>7, <1>8, <1>9 DEF Next

\* A send that owes m a look looks, marks m, or arms the nudge.
LEMMA SendKeeps ==
    ASSUME ActorsTyped, RequestsTyped, MailTyped, FlagsTyped, WatchedIsReader,
           ClaimHasOwner, WakeKind, WaiterStays, Others, NEW m \in Messages,
           Kind # "pi", up, ~stopped, gone = {} \/ Kind = "codex",
           m \in Undelivered', m \in Undelivered, SendOwes(m)
    PROVE  SendOwes(m)' \/ timer'
  <1> USE ActorsDistinct
      DEF ActorsTyped, RequestsTyped, MailTyped, FlagsTyped, SendOwes, Goto,
          Sees, Finish
  <1>1. CASE SendAppend(m)
    BY <1>1 DEF SendAppend
  <1>2. CASE SendNotify(m)
    BY <1>2 DEF SendNotify
  <1>3. CASE SendLook(m)
    <2>1. Kind # "codex" => m \in Available
      BY DEF ClaimHasOwner, WakeKind, Available
    <2> QED
      BY <1>3, <2>1 DEF SendLook
  <1>4. CASE SendCheck(m)
    BY <1>4 DEF SendCheck, WaiterStays
  <1>5. CASE SendMark(m)
    BY <1>5 DEF SendMark, Mark, Undelivered
  <1>6. CASE SendDeliver(m)
    BY <1>6 DEF SendDeliver, Deliver, WatchedIsReader
  <1>7. CASE SendCount(m)
    BY <1>7 DEF SendCount
  <1>8. CASE SendClose(m)
    BY <1>8 DEF SendClose, Schedule
  <1>9. CASE Stands(Send(m)) /\ watched'[m] = watched[m]
    BY <1>9 DEF Stands
  <1> QED
    BY <1>1, <1>2, <1>3, <1>4, <1>5, <1>6, <1>7, <1>8, <1>9
       DEF Others, Sender, Notify

\* A nudge that is due looks at what is unread.
LEMMA TimerKeeps ==
    ASSUME ActorsTyped, FlagsTyped, CountersTyped, Others, ~stopped, ~stopped',
           NEW m \in Messages, m \in Undelivered, timer \/ fires > 0
    PROVE  timer' \/ fires' > 0 \/ WakerOwes(m)'
  <1> USE ActorsDistinct DEF ActorsTyped, FlagsTyped, CountersTyped
  <1>1. CASE NudgeFires
    BY <1>1 DEF NudgeFires
  <1>2. CASE WakeStart
    BY <1>2 DEF WakeStart, Goto, Sees, WakerOwes
  <1> QED
    BY <1>1, <1>2 DEF Others

\* A wake that owes m a look points at it, asks Codex, or arms the nudge.
LEMMA WakerKeeps ==
    ASSUME ActorsTyped, FlagsTyped, MailTyped, ClaimHasOwner, WakeKind, Others,
           NEW m \in Messages, Kind # "pi", up, up', ~stopped,
           m \in Undelivered' \ nudged', m \in Undelivered, WakerOwes(m)
    PROVE  WakerOwes(m)' \/ timer'
  <1> USE ActorsDistinct
      DEF ActorsTyped, FlagsTyped, MailTyped, WakerOwes, Goto, Sees, Finish,
          Schedule
  <1>1. CASE WakeStart
    BY <1>1 DEF WakeStart
  <1>2. CASE WakeLook
    BY <1>2 DEF WakeLook
  <1>3. CASE WakeDecide
    BY <1>3 DEF WakeDecide
  <1>4. CASE WakeRecheck
    BY <1>4 DEF WakeRecheck
  <1>5. CASE WakeInject
    BY <1>5 DEF WakeInject
  <1>6. CASE WakeSubmit
    BY <1>6 DEF WakeSubmit
  <1>7. CASE WakeResubmit
    BY <1>7 DEF WakeResubmit
  <1>8. CASE CodexGate
    BY <1>8 DEF CodexGate
  <1>9. CASE CodexClaim
    <2>1. m \in Available
      BY <1>9 DEF CodexClaim, ClaimHasOwner, Available
    <2> QED
      BY <1>9, <2>1 DEF CodexClaim
  <1>10. CASE CodexDispatch \/ CodexReject \/ CodexReceipt \/ CodexUnknown
    BY <1>10 DEF CodexDispatch, CodexReject, CodexReceipt, CodexUnknown
  <1>11. CASE CodexAck
    BY <1>11 DEF CodexAck
  <1>12. CASE CodexUnclaim
    BY <1>12 DEF CodexUnclaim
  <1>13. CASE CodexTally
    BY <1>13 DEF CodexTally
  <1>14. CASE Stands(Waker) /\ (composer' = composer \/ ~up')
    BY <1>14 DEF Stands
  <1> QED
    BY <1>1, <1>2, <1>3, <1>4, <1>5, <1>6, <1>7, <1>8, <1>9, <1>10, <1>11,
       <1>12, <1>13, <1>14 DEF Others, Wake, Codex

\* So does a recovery.
LEMMA RecoveryKeeps ==
    ASSUME ActorsTyped, FlagsTyped, Others, NEW m \in Messages, Kind # "pi",
           up, ~stopped, m \in Undelivered, RecoveryOwes(m)
    PROVE  RecoveryOwes(m)' \/ timer'
  <1> USE ActorsDistinct
      DEF ActorsTyped, FlagsTyped, RecoveryOwes, Goto, Sees, Finish, Schedule
  <1>1. CASE RecoverList
    BY <1>1 DEF RecoverList
  <1>2. CASE RecoverArm
    BY <1>2 DEF RecoverArm
  <1>3. CASE SessionReady
    BY <1>3 DEF SessionReady
  <1>4. CASE Stands(Recovery)
    BY <1>4 DEF Stands
  <1> QED
    BY <1>1, <1>2, <1>3, <1>4 DEF Others, Recover

\* What is owed stays owed until it is given.
LEMMA OwedStep == IInv /\ OwedInv /\ [Next]_vars => OwedInv'
  <1> SUFFICES ASSUME IInv, OwedInv, [Next]_vars PROVE OwedInv'
    OBVIOUS
  <1> USE DEF IInv, TypeOK, OwedInv
  <1>1. WakeKind' /\ WaiterStays'
    BY KindStep, StaysStep
  <1>2. ASSUME up', ~stopped', Kind # "pi", gone' = {} \/ Kind = "codex",
               NEW m \in Undelivered' \ nudged'
        PROVE  Owed(m)'
    <2>1. m \in Messages
      <3>1. MailTyped'
        BY MailStep
      <3> QED
        BY <3>1, StoredTyped DEF MailTyped, Undelivered, Stored
    <2>2. /\ ~Crash /\ ~stopped /\ (gone = {} \/ Kind = "codex")
          /\ up \/ SessionReady
      BY <1>2, ServedBefore
    <2>3. CASE SessionReady
      BY <2>3, ActorsDistinct
         DEF SessionReady, Goto, ActorsTyped, Owed, RecoveryOwes
    <2>4. CASE SendAppend(m)
      BY <2>1, <2>4, ActorsDistinct
         DEF SendAppend, Goto, ActorsTyped, Owed, SendOwes
    <2>5. CASE ~SessionReady /\ ~SendAppend(m)
      <3>1. m \in Undelivered \ nudged
        BY <2>1, <2>5, UnreadBefore
      <3>2. Owed(m) /\ Others
        BY <1>2, <2>2, <2>5, <3>1, OthersStep DEF MailOwed
      <3> QED
        BY <1>2, <2>1, <2>2, <2>5, <3>1, <3>2, SendKeeps, TimerKeeps,
           WakerKeeps, RecoveryKeeps DEF Owed
    <2> QED
      BY <2>3, <2>4, <2>5
  <1> QED
    BY <1>1, <1>2 DEF MailOwed

\* Mail of a session that is attached is never forgotten: until it was read or
\* a nudge pointed at it, a send, a timer, a wake or a recovery is due that
\* will look at it, whatever was replaced, refused, detached or restarted.
THEOREM MailNotForgotten == Spec => []MailOwed
  <1>1. Init => IInv /\ OwedInv
    BY Initially, ActorsDistinct
       DEF Init, OwedInv, WakeKind, WaiterStays, MailOwed, Undelivered, Stored
  <1>2. IInv /\ OwedInv /\ [Next]_vars => IInv' /\ OwedInv'
    BY Inductive, OwedStep
  <1>3. IInv /\ OwedInv => MailOwed
    BY DEF OwedInv
  <1> QED
    BY <1>1, <1>2, <1>3, PTL DEF Spec

=============================================================================
