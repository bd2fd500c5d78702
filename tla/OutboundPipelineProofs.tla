------------------------ MODULE OutboundPipelineProofs ------------------------
(***************************************************************************)
(* The window bounds, the counters and the order of the outbound pipeline  *)
(* hold for any number of publications, packets and callers, any packet    *)
(* sizes and any window.  None of the three is inductive alone: the window *)
(* needs that room found before the last turn is room still (RoomKept),    *)
(* the counter of packets that no packet is sent twice, which is the       *)
(* order, and the order needs where the wire stands in the job in progress *)
(* (WireKnown, LastNext) and that later jobs are not sealed yet (NotMade). *)
(***************************************************************************)
EXTENDS OutboundPipeline, FiniteSetTheorems, TLAPS

\* What each stage of run() says of the job in progress.
StageOK ==
    /\ at = "off" <=> current = 0
    /\ at = "off" => jobs = <<>>
    /\ at \in {"off", "prepare", "sent"} => packets = <<>>
    /\ at \in {"full", "woken", "room"} => packets # <<>>
RoomKept == at = "room" => HasRoom(Head(packets).bytes)

\* The packets left are the last ones of the job in progress, in order.
PacketsLeft ==
    packets # <<>> =>
        /\ current \in JobIds /\ Len(packets) <= made[current]
        /\ \A i \in 1..Len(packets) :
              /\ packets[i].job = current
              /\ packets[i].k = made[current] - Len(packets) + i

\* The queue is in the order of acceptance, behind the job in progress.
JobsOrdered ==
    /\ current <= offered
    /\ \A i \in 1..Len(jobs) : current < jobs[i] /\ jobs[i] <= offered
    /\ \A i, k \in 1..Len(jobs) : i < k => jobs[i] < jobs[k]

\* No job is sealed before its turn.
NotMade ==
    \A j \in JobIds :
        \/ j > offered
        \/ current # 0 /\ j > current
        \/ at = "prepare" /\ j = current
        => made[j] = 0

\* What is on the wire was sealed and is not among the packets left.
WireKnown ==
    \A i \in 1..Len(wire) :
        /\ wire[i].k <= made[wire[i].job]
        /\ wire[i].job = current => wire[i].k <= made[current] - Len(packets)
InFlightSent == \A p \in inFlight : \E i \in 1..Len(wire) : wire[i] = p

\* The wire stands where the packets left begin.
Last == IF wire = <<>> THEN Nothing ELSE wire[Len(wire)]
WithinJob == /\ Last.job # 0 /\ Last.job = current
             /\ Last.k = made[current] - Len(packets)
BetweenJobs ==
    /\ Last.job = 0 \/ Last.k = made[Last.job]
    /\ current # 0 => Last.job < current /\ Len(packets) = made[current]
    /\ \A j \in JobIds : j > Last.job /\ j # current => made[j] = 0
LastNext == WithinJob \/ BetweenJobs

Counted == CountsHonest /\ IsFiniteSet(inFlight)
Flow == StageOK /\ PacketsLeft /\ JobsOrdered /\ NotMade
Wire == WireKnown /\ InFlightSent /\ LastNext /\ SentInOrder
IInv == TypeOK /\ Counted /\ Flow /\ Wire /\ RoomKept /\ WindowHeld
-----------------------------------------------------------------------------
\* Nothing is offered, sealed or sent initially.
LEMMA InitInv == ASSUME Init PROVE IInv
<1> USE PipelineAssumption
<1>1. TypeOK
  BY DEF Init, TypeOK, Stages
<1>2. Counted
  BY FS_EmptySet DEF Init, Counted, CountsHonest
<1>3. Flow
  BY DEF Init, Flow, StageOK, PacketsLeft, JobsOrdered, NotMade, JobIds
<1>4. Wire
  BY DEF Init, Wire, WireKnown, InFlightSent, LastNext, BetweenJobs, Last,
         Nothing, SentInOrder, JobIds
<1>5. RoomKept /\ WindowHeld
  BY DEF Init, RoomKept, WindowHeld
<1> QED BY <1>1, <1>2, <1>3, <1>4, <1>5 DEF IInv

-----------------------------------------------------------------------------
(* What the invariant says of the window and the wire carries over a step   *)
(* that leaves them, the packets left and what was sealed as they are.      *)
LEMMA WindowKept ==
    ASSUME IInv, UNCHANGED <<window, packets, made, wire>>,
           at' = "room" => at = "room" \/ HasRoom(Head(packets).bytes)
    PROVE  RoomKept' /\ WindowHeld' /\ IsFiniteSet(inFlight)' /\ InFlightSent'
           /\ (inFlightPackets = Cardinality(inFlight))'
<1>1. RoomKept' /\ WindowHeld'
  BY DEF IInv, window, RoomKept, HasRoom, WindowHeld
<1>2. InFlightSent'
  BY DEF IInv, Wire, window, InFlightSent
<1>3. IsFiniteSet(inFlight)' /\ (inFlightPackets = Cardinality(inFlight))'
  BY DEF IInv, Counted, CountsHonest, window
<1> QED BY <1>1, <1>2, <1>3

\* A step that only moves the loop within the job in progress.
LEMMA WireKept ==
    ASSUME IInv, UNCHANGED <<current, packets, made, wire>>
    PROVE  WireKnown' /\ LastNext' /\ SentInOrder'
<1>1. WireKnown' /\ SentInOrder'
  BY DEF IInv, Wire, WireKnown, SentInOrder, Follows, Nothing
<1>2. LastNext'
  BY DEF IInv, Wire, LastNext, WithinJob, BetweenJobs, Last, Nothing
<1> QED BY <1>1, <1>2

\* The job numbers on the wire are those of begun jobs.
LEMMA WireBegun ==
    ASSUME IInv, NEW i \in 1..Len(wire)
    PROVE  /\ wire[i] \in Packets /\ made[wire[i].job] # 0
           /\ wire[i].job <= offered
           /\ current # 0 => wire[i].job <= current
           /\ at = "prepare" => wire[i].job # current
<1> USE PipelineAssumption
<1>1. wire[i] \in Packets
  BY DEF IInv, TypeOK
<1>2. wire[i].job \in JobIds /\ wire[i].k \in 1..MaxPerJob
  BY <1>1 DEF Packets
<1>3. wire[i].k <= made[wire[i].job] /\ made[wire[i].job] \in 0..MaxPerJob
  BY <1>2 DEF IInv, Wire, WireKnown, TypeOK
<1>4. made[wire[i].job] # 0
  BY <1>2, <1>3
<1>5. ~(wire[i].job > offered) /\ ~(current # 0 /\ wire[i].job > current)
      /\ ~(at = "prepare" /\ wire[i].job = current)
  BY <1>2, <1>4 DEF IInv, Flow, NotMade
<1>6. offered \in Nat /\ current \in Nat /\ wire[i].job \in Nat
  BY <1>2 DEF IInv, TypeOK, JobIds
<1> QED BY <1>1, <1>4, <1>5, <1>6

-----------------------------------------------------------------------------
\* An accepted job is the last of the queue, or the one in progress.
LEMMA EnqueueInv == ASSUME IInv, Enqueue PROVE IInv'
<1> USE PipelineAssumption
<1>1. offered' = offered + 1 /\ offered' \in JobIds /\ offered \in Nat
      /\ queued' = queued + 1 /\ queued' \in 0..MaxQueued
      /\ UNCHANGED <<packets, window, idleWaiters, made, wire>>
  BY DEF Enqueue, HasCapacity, IInv, TypeOK, JobIds
<1>2. CASE /\ at = "off" /\ current' = offered' /\ at' = "prepare"
           /\ UNCHANGED jobs
  <2>1. packets = <<>> /\ jobs = <<>> /\ current = 0
    BY <1>2 DEF IInv, Flow, StageOK
  <2>2. TypeOK'
    BY <1>1, <1>2 DEF IInv, TypeOK, Stages, window, JobIds
  <2>3. CountsHonest' /\ IsFiniteSet(inFlight)' /\ InFlightSent' /\ RoomKept'
        /\ WindowHeld'
    BY <1>1, <1>2, <2>1, WindowKept DEF IInv, TypeOK, Counted, CountsHonest
  <2>4. Flow'
    BY <1>1, <1>2, <2>1
       DEF IInv, TypeOK, Flow, StageOK, PacketsLeft, JobsOrdered, NotMade, JobIds
  <2>5. \A i \in 1..Len(wire) : wire[i].job # offered'
    BY <1>1, WireBegun DEF Packets, JobIds
  <2>6. WireKnown' /\ SentInOrder'
    BY <1>1, <1>2, <2>5 DEF IInv, Wire, WireKnown, SentInOrder, Follows, Nothing
  <2>7. LastNext'
    <3>1. BetweenJobs
      BY <2>1 DEF IInv, Wire, LastNext, WithinJob
    <3>2. Last.job < offered'
      <4>1. CASE wire = <<>>
        BY <4>1, <1>1 DEF Last, Nothing
      <4>2. CASE wire # <<>>
        <5>1. Len(wire) \in 1..Len(wire)
          BY <4>2 DEF IInv, TypeOK
        <5>2. wire[Len(wire)] \in Packets /\ wire[Len(wire)].job <= offered
          BY <5>1, WireBegun
        <5> QED BY <4>2, <5>2, <1>1 DEF Last, Packets, JobIds
      <4> QED BY <4>1, <4>2
    <3>3. made[offered'] = 0
      BY <1>1 DEF IInv, Flow, NotMade
    <3>4. BetweenJobs'
      <4>1. Last' = Last /\ current' # 0
        BY <1>1, <1>2 DEF Last, Nothing, JobIds
      <4>2. Last.job = 0 \/ Last.k = made[Last.job]
        BY <3>1 DEF BetweenJobs
      <4>3. \A j \in JobIds : j > Last.job => made[j] = 0
        <5>1. 0 \notin JobIds
          BY DEF JobIds
        <5> QED BY <2>1, <3>1, <5>1 DEF BetweenJobs
      <4>4. Len(packets') = made'[current']
        BY <1>1, <1>2, <2>1, <3>3
      <4> QED BY <1>1, <1>2, <3>2, <4>1, <4>2, <4>3, <4>4 DEF BetweenJobs
    <3> QED BY <3>4 DEF LastNext
  <2> QED BY <2>2, <2>3, <2>4, <2>6, <2>7 DEF IInv, Counted, Wire
<1>3. CASE at # "off" /\ jobs' = Append(jobs, offered') /\ UNCHANGED <<current, at>>
  <2>1. TypeOK'
    <3>1. jobs' \in Seq(JobIds)
      BY <1>1, <1>3 DEF IInv, TypeOK
    <3>2. offered' \in 0..MaxJobs
      BY <1>1 DEF JobIds
    <3> QED BY <1>1, <1>3, <3>1, <3>2 DEF IInv, TypeOK, window
  <2>2. CountsHonest' /\ IsFiniteSet(inFlight)' /\ InFlightSent' /\ RoomKept'
        /\ WindowHeld'
    BY <1>1, <1>3, WindowKept DEF IInv, TypeOK, Counted, CountsHonest
  <2>3. StageOK' /\ PacketsLeft' /\ NotMade'
    BY <1>1, <1>3 DEF IInv, TypeOK, Flow, StageOK, PacketsLeft, NotMade, JobIds
  <2>4. JobsOrdered'
    <3>1. jobs \in Seq(JobIds) /\ Len(jobs') = Len(jobs) + 1
          /\ jobs'[Len(jobs) + 1] = offered'
          /\ \A i \in 1..Len(jobs) : jobs'[i] = jobs[i] /\ jobs[i] \in JobIds
      BY <1>1, <1>3 DEF IInv, TypeOK
    <3>2. current <= offered /\ current \in Nat
          /\ (\A i \in 1..Len(jobs) : current < jobs[i] /\ jobs[i] <= offered)
          /\ \A i, k \in 1..Len(jobs) : i < k => jobs[i] < jobs[k]
      BY DEF IInv, Flow, JobsOrdered, TypeOK
    <3>3. \A i \in 1..Len(jobs') : i \in 1..Len(jobs) \/ i = Len(jobs) + 1
      BY <3>1
    <3>4. ASSUME NEW i \in 1..Len(jobs')
          PROVE  current < jobs'[i] /\ jobs'[i] <= offered'
      <4>1. CASE i \in 1..Len(jobs)
        <5>1. jobs'[i] \in Nat /\ current < jobs'[i] /\ jobs'[i] <= offered
          BY <3>1, <3>2, <4>1 DEF JobIds
        <5> QED BY <1>1, <5>1
      <4>2. CASE i = Len(jobs) + 1
        BY <1>1, <3>1, <3>2, <4>2
      <4> QED BY <3>3, <4>1, <4>2
    <3>5. ASSUME NEW i \in 1..Len(jobs'), NEW k \in 1..Len(jobs'), i < k
          PROVE  jobs'[i] < jobs'[k]
      <4>1. i \in 1..Len(jobs) /\ Len(jobs) \in Nat
        BY <3>1, <3>3, <3>5
      <4>2. jobs'[i] \in Nat /\ jobs'[i] = jobs[i] /\ jobs[i] <= offered
        BY <3>1, <3>2, <4>1 DEF JobIds
      <4>3. CASE k \in 1..Len(jobs)
        BY <3>1, <3>2, <3>5, <4>1, <4>2, <4>3
      <4>4. CASE k = Len(jobs) + 1
        BY <1>1, <3>1, <4>2, <4>4
      <4> QED BY <3>3, <4>3, <4>4
    <3> QED BY <1>1, <1>3, <3>2, <3>4, <3>5 DEF JobsOrdered
  <2>5. WireKnown' /\ LastNext' /\ SentInOrder'
    BY <1>1, <1>3, WireKept
  <2> QED BY <2>1, <2>2, <2>3, <2>4, <2>5 DEF IInv, Counted, Flow, Wire
<1> QED BY <1>2, <1>3 DEF Enqueue, Push

\* A dropped publication and a call of idle() move nothing else.
LEMMA AsideInv ==
    ASSUME IInv, Drop \/ \E c \in Callers : Idle(c)
    PROVE  IInv'
<1> USE PipelineAssumption
<1>1. /\ UNCHANGED <<jobs, queued, current, packets, at, window, made, wire>>
      /\ offered' \in 0..MaxJobs /\ offered <= offered'
      /\ idleWaiters' \subseteq Callers
  BY DEF Drop, Idle, IInv, TypeOK
<1>2. TypeOK'
  BY <1>1 DEF IInv, TypeOK, window
<1>3. Counted' /\ RoomKept' /\ WindowHeld' /\ InFlightSent'
  BY <1>1, WindowKept DEF IInv, Counted, CountsHonest
<1>4. Flow'
  <2>1. StageOK' /\ PacketsLeft'
    BY <1>1 DEF IInv, Flow, StageOK, PacketsLeft
  <2>2. JobsOrdered'
    <3>1. /\ jobs' = jobs /\ current' = current
          /\ offered \in Nat /\ offered' \in Nat /\ current \in Nat
          /\ \A i \in 1..Len(jobs) : jobs[i] \in Nat
      BY <1>1 DEF IInv, TypeOK, JobIds
    <3> QED BY <1>1, <3>1 DEF IInv, Flow, JobsOrdered
  <2>3. NotMade'
    BY <1>1 DEF IInv, TypeOK, Flow, NotMade, JobIds
  <2> QED BY <2>1, <2>2, <2>3 DEF Flow
<1>5. WireKnown' /\ LastNext' /\ SentInOrder'
  BY <1>1, WireKept
<1> QED BY <1>2, <1>3, <1>4, <1>5 DEF IInv, Wire
-----------------------------------------------------------------------------
\* The packets of the job in progress are numbered behind each other.
LEMMA PreparedInv == ASSUME IInv, Prepared PROVE IInv'
<1> USE PipelineAssumption
<1>1. PICK n \in 0..MaxPerJob : \E size \in [1..n -> Sizes] :
        /\ packets' = [k \in 1..n |-> [job |-> current, k |-> k, bytes |-> size[k]]]
        /\ made' = [made EXCEPT ![current] = n]
  BY DEF Prepared
<1>2. PICK size \in [1..n -> Sizes] :
        /\ packets' = [k \in 1..n |-> [job |-> current, k |-> k, bytes |-> size[k]]]
        /\ made' = [made EXCEPT ![current] = n]
  BY <1>1
<1>3. /\ at = "prepare" /\ at' = "sending" /\ current \in JobIds /\ packets = <<>>
      /\ UNCHANGED <<offered, jobs, queued, current, window, idleWaiters, wire>>
  BY DEF Prepared, IInv, TypeOK, Flow, StageOK, JobIds
<1>4. packets' \in Seq(Packets) /\ Len(packets') = n
  <2>1. \A k \in 1..n : packets'[k] \in Packets
    BY <1>2, <1>3 DEF Packets
  <2>2. DOMAIN packets' = 1..n
    BY <1>2
  <2>3. packets' = [k \in 1..n |-> packets'[k]]
    BY <1>2
  <2>4. packets' \in Seq(Packets)
    BY <2>1, <2>3, n \in Nat
  <2> QED BY <2>2, <2>4, n \in Nat
<1>5. /\ made' \in [JobIds -> 0..MaxPerJob] /\ made'[current] = n
      /\ made[current] = 0
      /\ \A j \in JobIds : j # current => made'[j] = made[j]
  BY <1>2, <1>3 DEF IInv, TypeOK, Flow, NotMade
<1>6. TypeOK'
  BY <1>3, <1>4, <1>5 DEF IInv, TypeOK, window, Stages
<1>7. Counted' /\ RoomKept' /\ WindowHeld' /\ InFlightSent'
  BY <1>3 DEF IInv, Wire, Counted, CountsHonest, RoomKept, WindowHeld,
              InFlightSent, window
<1>8. Flow'
  <2>1. StageOK' /\ JobsOrdered'
    BY <1>3 DEF IInv, Flow, StageOK, JobsOrdered, JobIds
  <2>2. PacketsLeft'
    BY <1>2, <1>3, <1>4, <1>5 DEF PacketsLeft
  <2>3. NotMade'
    BY <1>3, <1>5 DEF IInv, TypeOK, Flow, NotMade, JobsOrdered, JobIds
  <2> QED BY <2>1, <2>2, <2>3 DEF Flow
<1>9. \A i \in 1..Len(wire) :
        /\ wire[i] \in Packets /\ wire[i].job \in JobIds /\ wire[i].job < current
        /\ made'[wire[i].job] = made[wire[i].job]
  <2> TAKE i \in 1..Len(wire)
  <2>1. wire[i] \in Packets /\ wire[i].job <= current /\ wire[i].job # current
    BY <1>3, WireBegun DEF JobIds
  <2> QED BY <2>1, <1>3, <1>5 DEF Packets, JobIds
<1>10. WireKnown'
  BY <1>3, <1>5, <1>9 DEF IInv, Wire, WireKnown, JobIds
<1>11. SentInOrder'
  <2> SUFFICES ASSUME NEW i \in 1..Len(wire)
               PROVE  Follows(IF i = 1 THEN Nothing ELSE wire[i - 1], wire[i])'
    BY <1>3 DEF SentInOrder
  <2>1. Follows(IF i = 1 THEN Nothing ELSE wire[i - 1], wire[i])
    BY DEF IInv, Wire, SentInOrder
  <2>2. \A j \in JobIds : j < wire[i].job => made'[j] = made[j]
    BY <1>3, <1>5, <1>9 DEF JobIds
  <2>3. i # 1 => i - 1 \in 1..Len(wire)
    OBVIOUS
  <2> QED BY <1>3, <1>9, <2>1, <2>2, <2>3 DEF Follows, Nothing
<1>12. LastNext'
  <2>1. Last' = Last
    BY <1>3 DEF Last, Nothing
  <2>2. Last.job = 0 \/ (Last.job \in JobIds /\ Last.job < current)
    <3>1. wire # <<>> => Len(wire) \in 1..Len(wire)
      BY DEF IInv, TypeOK
    <3> QED BY <1>9, <3>1 DEF Last, Nothing
  <2>3. BetweenJobs
    BY <1>3, <2>2 DEF IInv, Wire, LastNext, WithinJob, JobIds
  <2>4. BetweenJobs'
    <3>1. Last.job = 0 \/ Last.k = made'[Last.job]
      BY <1>3, <1>5, <2>2, <2>3 DEF BetweenJobs, JobIds
    <3>2. Last.job < current /\ Len(packets') = made'[current]
      BY <1>3, <1>4, <1>5, <2>2 DEF JobIds
    <3>3. \A j \in JobIds : j > Last.job /\ j # current => made'[j] = 0
      BY <1>3, <1>5, <2>3 DEF BetweenJobs
    <3> QED BY <1>3, <2>1, <3>1, <3>2, <3>3 DEF BetweenJobs
  <2> QED BY <2>4 DEF LastNext
<1> QED BY <1>6, <1>7, <1>8, <1>10, <1>11, <1>12 DEF IInv, Wire
-----------------------------------------------------------------------------
(* Sending takes the first of the packets left, for which there is room.    *)
LEMMA SendInv ==
    ASSUME IInv, packets # <<>>, at \in {"sending", "room"},
           HasRoom(Head(packets).bytes), SendPacket(Head(packets))
    PROVE  IInv'
<1> USE PipelineAssumption
<1> DEFINE p == Head(packets)
<1>1. /\ p \in Packets /\ p = packets[1] /\ Len(packets) \in Nat /\ Len(packets) > 0
      /\ Len(packets') = Len(packets) - 1 /\ packets' \in Seq(Packets)
      /\ \A i \in 1..Len(packets') : packets'[i] = packets[i + 1]
  BY DEF SendPacket, IInv, TypeOK
<1>2. /\ inFlight' = inFlight \union {p}
      /\ inFlightPackets' = inFlightPackets + 1
      /\ inFlightBytes' = inFlightBytes + p.bytes
      /\ at' = "sending" /\ wire' = Append(wire, p)
      /\ UNCHANGED <<offered, jobs, queued, current, idleWaiters, made>>
  BY DEF SendPacket
<1>3. /\ current \in JobIds /\ p.job = current
      /\ p.k = made[current] - Len(packets) + 1
      /\ made[current] \in Nat
  BY <1>1 DEF IInv, TypeOK, Flow, PacketsLeft, JobIds
<1>4. p.bytes \in Nat /\ p.k \in 1..MaxPerJob
  BY <1>1 DEF Packets
<1>5. /\ wire' \in Seq(Packets) /\ Len(wire') = Len(wire) + 1 /\ Len(wire) \in Nat
      /\ \A i \in 1..Len(wire) : wire'[i] = wire[i] /\ wire[i] \in Packets
      /\ wire'[Len(wire) + 1] = p
  BY <1>1, <1>2 DEF IInv, TypeOK
<1>6. \A i \in 1..Len(wire') : i \in 1..Len(wire) \/ i = Len(wire) + 1
  BY <1>5
<1>7. p \notin inFlight
  <2>1. ASSUME NEW i \in 1..Len(wire), wire[i] = p PROVE FALSE
    <3>1. wire[i].job = current /\ wire[i].k = made[current] - Len(packets) + 1
      BY <1>3, <2>1
    <3>2. wire[i].k <= made[current] - Len(packets)
      BY <3>1 DEF IInv, Wire, WireKnown
    <3> QED BY <1>1, <1>3, <3>1, <3>2
  <2> QED BY <2>1 DEF IInv, Wire, InFlightSent
<1>8. TypeOK'
  <2>1. TypeOK
    BY DEF IInv
  <2>2. /\ inFlight' \subseteq Packets
        /\ inFlightPackets' \in Nat /\ inFlightBytes' \in Int
    BY <1>1, <1>2, <1>4, <2>1 DEF TypeOK
  <2>3. at' \in Stages
    BY <1>2 DEF Stages
  <2>4. packets' \in Seq(Packets) /\ wire' \in Seq(Packets)
    BY <1>1, <1>5
  <2> QED BY <1>2, <2>1, <2>2, <2>3, <2>4 DEF TypeOK
<1>9. Counted'
  BY <1>2, <1>7, FS_AddElement
     DEF IInv, Flow, StageOK, Counted, CountsHonest
<1>10. RoomKept' /\ WindowHeld'
  BY <1>2, <1>4 DEF IInv, TypeOK, HasRoom, RoomKept, WindowHeld
<1>11. Flow'
  <2>1. StageOK' /\ JobsOrdered' /\ NotMade'
    BY <1>2, <1>3 DEF IInv, Flow, StageOK, JobsOrdered, NotMade, JobIds
  <2>2. PacketsLeft'
    <3>1. SUFFICES ASSUME packets' # <<>>
                   PROVE  /\ Len(packets') <= made[current]
                          /\ \A i \in 1..Len(packets') :
                                /\ packets'[i].job = current
                                /\ packets'[i].k = made[current] - Len(packets') + i
      BY <1>2, <1>3 DEF PacketsLeft
    <3>2. /\ Len(packets) <= made[current]
          /\ \A i \in 1..Len(packets) :
                /\ packets[i].job = current
                /\ packets[i].k = made[current] - Len(packets) + i
      BY <1>1 DEF IInv, Flow, PacketsLeft
    <3>3. Len(packets') <= made[current]
      BY <1>1, <1>3, <3>2
    <3>4. ASSUME NEW i \in 1..Len(packets')
          PROVE  /\ packets'[i].job = current
                 /\ packets'[i].k = made[current] - Len(packets') + i
      <4>1. i + 1 \in 1..Len(packets) /\ packets'[i] = packets[i + 1]
        BY <1>1
      <4>2. packets[i + 1].k = made[current] - Len(packets) + (i + 1)
        BY <3>2, <4>1
      <4>3. packets[i + 1].job = current
        BY <3>2, <4>1
      <4>4. made[current] - Len(packets) + (i + 1) = made[current] - Len(packets') + i
        <5>1. Len(packets) \in Nat /\ Len(packets') = Len(packets) - 1
              /\ made[current] \in Nat
          BY <1>1, <1>3
        <5> QED BY <5>1
      <4> QED BY <4>1, <4>2, <4>3, <4>4
    <3> QED BY <3>3, <3>4
  <2> QED BY <2>1, <2>2 DEF Flow
<1>12. WireKnown'
  <2>1. \A i \in 1..Len(wire) :
          /\ wire[i].k <= made[wire[i].job]
          /\ wire[i].job = current => wire[i].k <= made[current] - Len(packets)
    BY DEF IInv, Wire, WireKnown
  <2>2. \A i \in 1..Len(wire) : wire[i].k \in Nat
    BY <1>5 DEF Packets
  <2>3. /\ made' = made /\ current' = current
        /\ made[current] \in Nat /\ Len(packets) \in Nat
        /\ Len(packets') = Len(packets) - 1
    BY <1>1, <1>2, <1>3
  <2>4. p.k <= made[p.job] /\ p.k <= made[current] - Len(packets')
    BY <1>1, <1>3, <2>3
  <2>5. ASSUME NEW i \in 1..Len(wire')
        PROVE  /\ wire'[i].k <= made[wire'[i].job]
               /\ wire'[i].job = current
                  => wire'[i].k <= made[current] - Len(packets')
    <3>1. CASE i \in 1..Len(wire)
      <4>1. wire'[i] = wire[i]
        BY <1>5, <3>1
      <4>2. wire[i].k \in Nat
        BY <2>2, <3>1
      <4>3. /\ wire[i].k <= made[wire[i].job]
            /\ wire[i].job = current => wire[i].k <= made[current] - Len(packets)
        BY <2>1, <3>1
      <4> QED BY <2>3, <4>1, <4>2, <4>3
    <3>2. CASE i \notin 1..Len(wire)
      <4>1. wire'[i] = p
        BY <1>5, <3>2
      <4> HIDE DEF p
      <4> QED BY <2>4, <4>1
    <3> QED BY <3>1, <3>2
  <2> QED BY <2>3, <2>5 DEF WireKnown
<1>13. InFlightSent'
  BY <1>2, <1>5 DEF IInv, Wire, InFlightSent
<1>14. LastNext'
  <2>1. Last' = p
    BY <1>5 DEF Last
  <2>2. WithinJob'
    <3>1. p.job = current /\ current' = current /\ made' = made /\ current # 0
      BY <1>2, <1>3 DEF JobIds
    <3>2. p.k = made[current] - Len(packets')
      BY <1>1, <1>3
    <3> HIDE DEF p
    <3> QED BY <2>1, <3>1, <3>2 DEF WithinJob
  <2> QED BY <2>2 DEF LastNext
<1>15. Follows(Last, p)
  <2>1. CASE WithinJob
    BY <1>3, <2>1 DEF WithinJob, Follows
  <2>2. CASE BetweenJobs
    BY <1>3, <2>2 DEF BetweenJobs, Follows, JobIds
  <2> QED BY <2>1, <2>2 DEF IInv, Wire, LastNext
<1>16. SentInOrder'
  <2> SUFFICES ASSUME NEW i \in 1..Len(wire')
               PROVE  Follows(IF i = 1 THEN Nothing ELSE wire'[i - 1], wire'[i])
    BY <1>2 DEF SentInOrder, Follows, Nothing
  <2>1. CASE i \in 1..Len(wire)
    <3>1. Follows(IF i = 1 THEN Nothing ELSE wire[i - 1], wire[i])
      BY <2>1 DEF IInv, Wire, SentInOrder
    <3>2. i # 1 => wire'[i - 1] = wire[i - 1]
      BY <1>5, <2>1
    <3> QED BY <1>5, <2>1, <3>1, <3>2
  <2>2. CASE i = Len(wire) + 1
    <3>1. Last = IF i = 1 THEN Nothing ELSE wire'[i - 1]
      BY <1>5, <2>2 DEF Last, IInv, TypeOK
    <3> QED BY <1>5, <1>15, <2>2, <3>1
  <2> QED BY <1>6, <2>1, <2>2
<1> QED BY <1>8, <1>9, <1>10, <1>11, <1>12, <1>13, <1>14, <1>16 DEF IInv, Wire
-----------------------------------------------------------------------------
\* Parking, looking again and coming to the end of a job send nothing.
LEMMA MoveInv ==
    ASSUME IInv, WaitForRoom \/ Resume \/ Finish
    PROVE  IInv'
<1>1. /\ UNCHANGED <<offered, jobs, queued, current, packets, window, idleWaiters,
                     made, wire>>
      /\ at \notin {"off", "prepare"} /\ at' \in {"full", "room", "sent"}
      /\ at' = "room" => HasRoom(Head(packets).bytes)
      /\ at' = "sent" <=> packets = <<>>
  BY DEF WaitForRoom, Resume, AfterWake, Finish, IInv, Flow, StageOK
<1>2. TypeOK'
  BY <1>1 DEF IInv, TypeOK, window, Stages
<1>3. Counted' /\ RoomKept' /\ WindowHeld' /\ InFlightSent'
  BY <1>1, WindowKept DEF IInv, Counted, CountsHonest
<1>4. Flow'
  <2>1. StageOK' /\ PacketsLeft'
    BY <1>1 DEF IInv, Flow, StageOK, PacketsLeft
  <2>2. JobsOrdered' /\ NotMade'
    BY <1>1 DEF IInv, Flow, JobsOrdered, NotMade
  <2> QED BY <2>1, <2>2 DEF Flow
<1>5. WireKnown' /\ LastNext' /\ SentInOrder'
  BY <1>1, WireKept
<1> QED BY <1>2, <1>3, <1>4, <1>5 DEF IInv, Wire

\* The next job comes behind everything sent, and so does a later one.
LEMMA JobDoneInv == ASSUME IInv, JobDone PROVE IInv'
<1> USE PipelineAssumption
<1>1. /\ at = "sent" /\ packets = <<>> /\ current \in JobIds /\ queued' = queued - 1
      /\ UNCHANGED <<offered, packets, window, made, wire>>
  BY DEF JobDone, CountDown, IInv, TypeOK, Flow, StageOK, JobIds
<1>2. queued = Len(jobs) + 1 /\ Len(jobs) \in Nat /\ queued \in 0..MaxQueued
  BY <1>1 DEF IInv, TypeOK, Counted, CountsHonest
<1>3. /\ Last' = Last /\ Last.job \in Nat /\ Last.job <= current
      /\ Last.job = 0 \/ Last.k = made[Last.job]
      /\ \A j \in JobIds : j > Last.job => made[j] = 0
  <2>1. Last' = Last
    BY <1>1 DEF Last, Nothing
  <2>2. CASE WithinJob
    <3>1. \A j \in JobIds : j > current => made[j] = 0
      BY <1>1 DEF IInv, Flow, NotMade, JobIds
    <3> QED BY <1>1, <2>1, <2>2, <3>1 DEF WithinJob, JobIds, IInv, TypeOK
  <2>3. CASE BetweenJobs
    <3>1. Last.job \in Nat
      <4>1. wire # <<>> => Len(wire) \in 1..Len(wire)
        BY DEF IInv, TypeOK
      <4> QED BY <4>1, WireBegun DEF Last, Nothing, Packets, JobIds
    <3>2. made[current] = 0
      BY <1>1, <2>3 DEF BetweenJobs, JobIds
    <3> QED BY <1>1, <2>1, <2>3, <3>1, <3>2 DEF BetweenJobs, JobIds
  <2> QED BY <2>2, <2>3 DEF IInv, Wire, LastNext
<1>4. \/ at' = "off" /\ current' = 0 /\ jobs = <<>> /\ jobs' = <<>>
      \/ /\ at' = "prepare" /\ jobs # <<>>
         /\ current' = Head(jobs) /\ jobs' = Tail(jobs)
  BY DEF JobDone, EndRun, BeginNext
<1>5. jobs # <<>> =>
        /\ Head(jobs) = jobs[1] /\ Head(jobs) \in JobIds /\ Tail(jobs) \in Seq(JobIds)
        /\ Head(jobs) > current /\ Head(jobs) <= offered
        /\ Len(Tail(jobs)) = Len(jobs) - 1
        /\ \A i \in 1..Len(Tail(jobs)) :
              /\ Tail(jobs)[i] = jobs[i + 1] /\ i + 1 \in 1..Len(jobs)
              /\ jobs[i + 1] > Head(jobs) /\ jobs[i + 1] <= offered
  BY DEF IInv, TypeOK, Flow, JobsOrdered
<1>6. TypeOK'
  <2>1. idleWaiters' \subseteq Callers
    BY DEF JobDone, EndRun, BeginNext, NotifyIdle, IInv, TypeOK
  <2>2. queued' \in 0..MaxQueued
    BY <1>1, <1>2
  <2>3. jobs' \in Seq(JobIds) /\ current' \in 0..MaxJobs /\ at' \in Stages
    <3>1. 0 \in 0..MaxJobs /\ \A j \in JobIds : j \in 0..MaxJobs
      BY DEF JobIds
    <3>2. <<>> \in Seq(JobIds)
      OBVIOUS
    <3> QED BY <1>4, <1>5, <3>1, <3>2 DEF Stages
  <2> QED BY <1>1, <2>1, <2>2, <2>3 DEF IInv, TypeOK, window
<1>7. Counted'
  BY <1>1, <1>2, <1>4, <1>5 DEF IInv, Counted, CountsHonest, window
<1>8. RoomKept' /\ WindowHeld' /\ InFlightSent'
  BY <1>1, <1>4, WindowKept
<1>9. StageOK' /\ PacketsLeft' /\ NotMade'
  <2>1. StageOK' /\ PacketsLeft'
    <3>1. current' # 0 <=> jobs # <<>>
      BY <1>4, <1>5 DEF JobIds
    <3> QED BY <1>1, <1>4, <3>1 DEF StageOK, PacketsLeft
  <2>2. \A j \in JobIds : j > current => made[j] = 0
    BY <1>1, <1>3 DEF JobIds
  <2>3. current <= offered /\ offered \in Nat
    BY DEF IInv, TypeOK, Flow, JobsOrdered
  <2> QED BY <1>1, <1>4, <1>5, <2>1, <2>2, <2>3 DEF NotMade, JobIds
<1>10. JobsOrdered'
  <2>1. CASE jobs' = <<>> /\ current' = 0
    BY <1>1, <2>1 DEF JobsOrdered, IInv, TypeOK
  <2>2. CASE jobs # <<>> /\ current' = Head(jobs) /\ jobs' = Tail(jobs)
    <3>1. \A i, k \in 1..Len(jobs) : i < k => jobs[i] < jobs[k]
      BY DEF IInv, Flow, JobsOrdered
    <3>2. \A i, k \in 1..Len(jobs') : i < k => jobs'[i] < jobs'[k]
      BY <1>5, <2>2, <3>1
    <3> QED BY <1>1, <1>5, <2>2, <3>2 DEF JobsOrdered
  <2> QED BY <1>4, <2>1, <2>2
<1>11. WireKnown'
  <2>1. ASSUME NEW i \in 1..Len(wire), wire[i].job = current' PROVE FALSE
    <3>1. wire[i].job \in JobIds /\ wire[i].job <= current
      BY <1>1, WireBegun DEF Packets, JobIds
    <3> QED BY <1>1, <1>4, <1>5, <2>1, <3>1 DEF JobIds
  <2> QED BY <1>1, <2>1 DEF IInv, Wire, WireKnown
<1>12. SentInOrder'
  BY <1>1 DEF IInv, Wire, SentInOrder, Follows, Nothing
<1>13. LastNext'
  <2>1. CASE current' = 0
    BY <1>1, <1>3, <2>1 DEF LastNext, BetweenJobs
  <2>2. CASE current' \in JobIds /\ current' > current
    <3>1. Last.job < current' /\ made[current'] = 0
      BY <1>1, <1>3, <2>2 DEF JobIds
    <3> QED BY <1>1, <1>3, <2>2, <3>1 DEF LastNext, BetweenJobs
  <2> QED BY <1>4, <1>5, <2>1, <2>2
<1> QED BY <1>6, <1>7, <1>8, <1>9, <1>10, <1>11, <1>12, <1>13 DEF IInv, Flow, Wire

\* A settled packet makes room: what was found to fit fits still.
LEMMA SettleInv == ASSUME IInv, NEW p \in inFlight, Settle(p) PROVE IInv'
<1> USE PipelineAssumption
<1>1. /\ p.bytes \in Nat /\ at # "sending"
      /\ inFlight' = inFlight \ {p} /\ inFlightPackets' = inFlightPackets - 1
      /\ inFlightBytes' = inFlightBytes - p.bytes
      /\ at' = IF at = "full" THEN "woken" ELSE at
      /\ idleWaiters' \subseteq Callers
      /\ UNCHANGED <<offered, jobs, queued, current, packets, made, wire>>
  BY DEF Settle, Yielded, ReleaseBytes, WakeSender, NotifyIdle, IInv, TypeOK, Packets
<1>2. /\ IsFiniteSet(inFlight') /\ Cardinality(inFlight') = Cardinality(inFlight) - 1
      /\ IsFiniteSet(inFlight)
  BY <1>1, FS_RemoveElement DEF IInv, Counted
<1>3. Cardinality(inFlight') \in Nat /\ Cardinality(inFlight) \in Nat
  BY <1>2, FS_CardinalityType
<1>4. Counted'
  BY <1>1, <1>2 DEF IInv, Flow, StageOK, Counted, CountsHonest
<1>5. inFlightPackets' \in Nat /\ inFlightPackets > 0
  BY <1>1, <1>2, <1>3 DEF IInv, Counted, CountsHonest
<1>6. TypeOK'
  BY <1>1, <1>5 DEF IInv, TypeOK, Stages
<1>7. WindowHeld'
  BY <1>1, <1>5 DEF IInv, TypeOK, WindowHeld
<1>8. RoomKept'
  <2> SUFFICES ASSUME at = "room" PROVE HasRoom(Head(packets).bytes)'
    BY <1>1 DEF RoomKept
  <2>1. Head(packets).bytes \in Nat
    <3>1. packets # <<>> /\ packets \in Seq(Packets)
      BY DEF IInv, TypeOK, Flow, StageOK
    <3>2. Head(packets) \in Packets
      BY <3>1
    <3> QED BY <3>2 DEF Packets
  <2>2. HasRoom(Head(packets).bytes)
    BY DEF IInv, RoomKept
  <2> QED BY <1>1, <1>5, <2>1, <2>2 DEF HasRoom, IInv, TypeOK
<1>9. Flow'
  <2>1. StageOK' /\ PacketsLeft'
    BY <1>1 DEF IInv, Flow, StageOK, PacketsLeft
  <2>2. JobsOrdered' /\ NotMade'
    BY <1>1 DEF IInv, Flow, JobsOrdered, NotMade
  <2> QED BY <2>1, <2>2 DEF Flow
<1>10. WireKnown' /\ LastNext' /\ SentInOrder'
  BY <1>1, WireKept
<1>11. InFlightSent'
  BY <1>1 DEF IInv, Wire, InFlightSent
<1> QED BY <1>4, <1>6, <1>7, <1>8, <1>9, <1>10, <1>11 DEF IInv, Wire
-----------------------------------------------------------------------------
\* Every step keeps the invariant.
LEMMA NextInv == ASSUME IInv, [Next]_vars PROVE IInv'
<1>1. CASE UNCHANGED vars
  <2>1. UNCHANGED <<current, packets, made, wire, inFlight, inFlightPackets,
                    inFlightBytes, jobs, queued, at, offered, idleWaiters>>
    BY <1>1 DEF vars, window
  <2>2. TypeOK' /\ Counted' /\ Flow' /\ RoomKept' /\ WindowHeld' /\ InFlightSent'
    BY <2>1 DEF IInv, TypeOK, Counted, CountsHonest, Flow, StageOK, PacketsLeft,
                JobsOrdered, NotMade, RoomKept, HasRoom, WindowHeld, Wire, InFlightSent
  <2>3. WireKnown' /\ LastNext' /\ SentInOrder'
    BY <2>1, WireKept
  <2> QED BY <2>2, <2>3 DEF IInv, Wire
<1>2. CASE Enqueue
  BY <1>2, EnqueueInv
<1>3. CASE Drop \/ \E c \in Callers : Idle(c)
  BY <1>3, AsideInv
<1>4. CASE Prepared
  BY <1>4, PreparedInv
<1>5. CASE Send
  BY <1>5, SendInv DEF Send
<1>6. CASE SendAfterWait
  BY <1>6, SendInv DEF SendAfterWait, IInv, RoomKept, Flow, StageOK
<1>7. CASE WaitForRoom \/ Resume \/ Finish
  BY <1>7, MoveInv
<1>8. CASE JobDone
  BY <1>8, JobDoneInv
<1>9. CASE \E p \in inFlight : Settle(p)
  BY <1>9, SettleInv
<1> QED BY <1>1, <1>2, <1>3, <1>4, <1>5, <1>6, <1>7, <1>8, <1>9 DEF Next, Loop

\* The inductive invariant holds throughout.
THEOREM PipelineInvariant == Spec => []IInv
<1>1. Init => IInv
  BY InitInv
<1>2. IInv /\ [Next]_vars => IInv'
  BY NextInv
<1> QED BY <1>1, <1>2, PTL DEF Spec

(* However many publications are offered, whatever their sizes and in       *)
(* whatever order replies come, the window of sendPacket is never exceeded. *)
THEOREM WindowBounded == Spec => []WindowHeld
<1>1. IInv => WindowHeld
  BY DEF IInv
<1> QED BY <1>1, PipelineInvariant, PTL

\* The counters of jobs and packets are exact for any number of either.
THEOREM CountersExact == Spec => []CountsHonest
<1>1. IInv => CountsHonest
  BY DEF IInv, Counted
<1> QED BY <1>1, PipelineInvariant, PTL

\* Publications leave in the order accepted, whole and once, for any number.
THEOREM OrderKept == Spec => []SentInOrder
<1>1. IInv => SentInOrder
  BY DEF IInv, Wire
<1> QED BY <1>1, PipelineInvariant, PTL

-----------------------------------------------------------------------------
(* That the backlog drains and idle() is answered is liveness, which stays *)
(* with TLC; what it rests on is proved here for every value of the        *)
(* constants: whoever waits waits for something that will come, and the    *)
(* count of zero that answers idle() means that all has been sent.         *)

\* No wakeup is missed.  A sender that is parked has packets in flight, whose
\* settling wakes it; jobs that are counted have a run() going on; and a caller
\* of idle() is left waiting only while there is something to wait for.
NobodyForgotten ==
    /\ at = "full" => inFlight # {}
    /\ queued # 0 => at # "off"
    /\ idleWaiters # {} => queued # 0 \/ inFlight # {}

\* When nothing is queued, every packet that was sealed is on the wire.
Sent(j, k) == \E i \in 1..Len(wire) : wire[i].job = j /\ wire[i].k = k
AllSentAtRest == queued = 0 => \A j \in JobIds : \A k \in 1..made[j] : Sent(j, k)

\* A sender parks only beside packets in flight, a caller beside them or a queue.
Waits ==
    /\ at = "full" => inFlightPackets # 0
    /\ idleWaiters # {} => queued # 0 \/ inFlightPackets # 0
\* All is sent but what is left of the job in progress.
SentButLeft ==
    \A j \in JobIds : \A k \in 1..made[j] :
        j # current \/ k <= made[j] - Len(packets) => Sent(j, k)
RestInv == Waits /\ SentButLeft

\* Whoever begins to wait has looked in the same turn, and whoever takes away
\* what is waited for wakes the waiter.
LEMMA WaitsStep == ASSUME IInv, IInv', Waits, [Next]_vars PROVE Waits'
<1> USE PipelineAssumption
<1>1. inFlightPackets \in Nat /\ queued \in Nat /\ Len(jobs') \in Nat
  BY DEF IInv, TypeOK
<1>2. CASE UNCHANGED vars
  BY <1>2 DEF vars, window, Waits
<1>3. CASE Enqueue
  BY <1>1, <1>3 DEF Enqueue, Waits, window
<1>4. CASE Drop \/ (\E c \in Callers : Idle(c))
  BY <1>4 DEF Drop, Idle, Waits, window
<1>5. CASE Prepared \/ Finish
  BY <1>5 DEF Prepared, Finish, Waits, window
<1>6. CASE Send \/ SendAfterWait
  BY <1>1, <1>6 DEF Send, SendAfterWait, SendPacket, Waits
<1>7. CASE WaitForRoom \/ Resume
  <2>1. at' = "full" => inFlightPackets # 0
    BY <1>1, <1>7 DEF WaitForRoom, Resume, AfterWake, HasRoom
  <2> QED BY <1>7, <2>1 DEF WaitForRoom, Resume, Waits, window
<1>8. CASE JobDone
  <2>1. UNCHANGED window
    BY <1>8 DEF JobDone
  <2>2. CASE EndRun
    BY <2>1, <2>2 DEF EndRun, NotifyIdle, Waits, window
  <2>3. CASE BeginNext
    <3>1. at' = "prepare" /\ idleWaiters' = idleWaiters
      BY <2>3 DEF BeginNext
    <3>2. queued' = Len(jobs') + 1
      BY <3>1 DEF IInv, Counted, CountsHonest
    <3>3. queued' # 0
      BY <1>1, <3>2
    <3> QED BY <3>1, <3>3 DEF Waits
  <2> QED BY <1>8, <2>2, <2>3 DEF JobDone
<1>9. ASSUME NEW p \in inFlight, Settle(p) PROVE Waits'
  <2>1. at' # "full"
    BY <1>9 DEF Settle, WakeSender
  <2>2. idleWaiters' # {} => queued # 0 \/ inFlightPackets' # 0
    BY <1>9 DEF Settle, NotifyIdle
  <2> QED BY <1>9, <2>1, <2>2 DEF Settle, Waits
<1> QED BY <1>2, <1>3, <1>4, <1>5, <1>6, <1>7, <1>8, <1>9 DEF Next, Loop

\* A packet that is sent leaves those that are left, and no job ends before.
LEMMA SentStep == ASSUME IInv, IInv', SentButLeft, [Next]_vars PROVE SentButLeft'
<1> USE PipelineAssumption
<1>1. /\ Len(packets) \in Nat /\ Len(wire) \in Nat /\ made \in [JobIds -> 0..MaxPerJob]
      /\ current \in 0..MaxJobs /\ current' \in 0..MaxJobs
  BY DEF IInv, TypeOK
<1>2. ASSUME UNCHANGED <<wire, made, packets, current>> PROVE SentButLeft'
  BY <1>2 DEF SentButLeft, Sent
<1>3. ASSUME UNCHANGED <<wire, made, packets>>, packets = <<>> PROVE SentButLeft'
  <2>1. Len(packets) = 0
    BY <1>3
  <2>2. \A j \in JobIds : \A k \in 1..made[j] : Sent(j, k)
    BY <1>1, <2>1 DEF SentButLeft, JobIds
  <2> QED BY <1>3, <2>2 DEF SentButLeft, Sent
<1>4. CASE UNCHANGED vars
  BY <1>2, <1>4 DEF vars
<1>5. CASE Enqueue
  <2>1. CASE at = "off"
    BY <1>3, <1>5, <2>1 DEF Enqueue, IInv, Flow, StageOK
  <2>2. CASE at # "off"
    BY <1>2, <1>5, <2>2 DEF Enqueue
  <2> QED BY <2>1, <2>2
<1>6. CASE Drop \/ (\E c \in Callers : Idle(c)) \/ WaitForRoom \/ Resume \/ Finish
  BY <1>2, <1>6 DEF Drop, Idle, WaitForRoom, Resume, Finish
<1>7. CASE Prepared
  <2>1. PICK n \in 0..MaxPerJob : \E size \in [1..n -> Sizes] :
          /\ packets' = [k \in 1..n |-> [job |-> current, k |-> k, bytes |-> size[k]]]
          /\ made' = [made EXCEPT ![current] = n]
    BY <1>7 DEF Prepared
  <2>2. UNCHANGED <<wire, current>> /\ n \in Nat
    BY <1>7 DEF Prepared
  <2>3. Len(packets') = n
    BY <2>1, <2>2
  <2>4. \A j \in JobIds : j # current => made'[j] = made[j]
    BY <1>1, <2>1
  <2>5. current \in JobIds => made'[current] = n
    BY <1>1, <2>1
  <2> SUFFICES ASSUME NEW j \in JobIds, NEW k \in 1..made'[j],
                      j # current' \/ k <= made'[j] - Len(packets')
               PROVE  Sent(j, k)'
    BY DEF SentButLeft
  <2>6. j # current
    BY <2>2, <2>3, <2>5
  <2> QED BY <2>2, <2>4, <2>6 DEF SentButLeft, Sent
<1>8. CASE Send \/ SendAfterWait
  <2> DEFINE p == Head(packets)
  <2>1. SendPacket(p) /\ packets # <<>>
    BY <1>8 DEF Send, SendAfterWait, IInv, Flow, StageOK
  <2>2. UNCHANGED <<made, current>> /\ wire' = Append(wire, p) /\ packets' = Tail(packets)
    BY <2>1 DEF SendPacket
  <2>3. p = packets[1] /\ Len(packets) > 0 /\ Len(packets') = Len(packets) - 1 /\ p \in Packets
    BY <2>1, <2>2 DEF IInv, TypeOK
  <2>4. p.job = current /\ p.k = made[current] - Len(packets) + 1
    BY <1>1, <2>1, <2>3 DEF IInv, Flow, PacketsLeft
  <2>5. /\ Len(wire') = Len(wire) + 1 /\ wire'[Len(wire) + 1] = p
        /\ \A i \in 1..Len(wire) : wire'[i] = wire[i]
    BY <2>2, <2>3 DEF IInv, TypeOK
  <2> HIDE DEF p
  <2> SUFFICES ASSUME NEW j \in JobIds, NEW k \in 1..made[j],
                      j # current \/ k <= made[j] - Len(packets')
               PROVE  Sent(j, k)'
    BY <2>2 DEF SentButLeft
  <2>6. CASE Sent(j, k)
    BY <1>1, <2>5, <2>6 DEF Sent
  <2>7. CASE ~Sent(j, k)
    <3>1. j = current /\ ~(k <= made[j] - Len(packets))
      BY <2>7 DEF SentButLeft
    <3>2. k = p.k /\ p.job = j
      BY <1>1, <2>3, <2>4, <3>1
    <3>3. Len(wire) + 1 \in 1..Len(wire')
      BY <1>1, <2>5
    <3> QED BY <2>5, <3>2, <3>3 DEF Sent
  <2> QED BY <2>6, <2>7
<1>9. CASE JobDone
  BY <1>3, <1>9 DEF JobDone, IInv, Flow, StageOK
<1>10. ASSUME NEW p \in inFlight, Settle(p) PROVE SentButLeft'
  BY <1>2, <1>10 DEF Settle
<1> QED BY <1>4, <1>5, <1>6, <1>7, <1>8, <1>9, <1>10 DEF Next, Loop

\* What is waited for and what has been sent, in every reachable state.
LEMMA RestInvariant == Spec => [](IInv /\ RestInv)
<1>1. Init => RestInv
  BY DEF Init, RestInv, Waits, SentButLeft
<1>2. IInv /\ IInv' /\ RestInv /\ [Next]_vars => RestInv'
  BY WaitsStep, SentStep DEF RestInv
<1> QED BY <1>1, <1>2, PipelineInvariant, PTL DEF Spec

\* However many publications and callers there are, and in whatever order
\* packets settle, the wakeup of waitForRoom and the answer of idle() come.
THEOREM NoneForgotten == Spec => []NobodyForgotten
<1>1. ASSUME IInv, RestInv PROVE NobodyForgotten
  <2>1. inFlightPackets # 0 => inFlight # {}
    BY <1>1, FS_EmptySet DEF IInv, Counted, CountsHonest
  <2>2. at = "off" => queued = 0
    <3>1. at = "off" => Len(jobs) = 0
      BY <1>1 DEF IInv, Flow, StageOK
    <3> QED BY <1>1, <3>1 DEF IInv, Counted, CountsHonest
  <2> QED BY <1>1, <2>1, <2>2 DEF RestInv, Waits, NobodyForgotten
<1> QED BY <1>1, RestInvariant, PTL

\* The caller of idle() finds every publication on its way to the cloud.
THEOREM RestIsComplete == Spec => []AllSentAtRest
<1>1. ASSUME IInv, RestInv, queued = 0, NEW j \in JobIds, NEW k \in 1..made[j]
      PROVE  Sent(j, k)
  <2>1. at = "off"
    BY <1>1 DEF IInv, TypeOK, Counted, CountsHonest
  <2>2. current = 0
    BY <1>1, <2>1 DEF IInv, Flow, StageOK
  <2> QED BY <1>1, <2>2 DEF RestInv, SentButLeft, JobIds
<1>2. IInv /\ RestInv => AllSentAtRest
  BY <1>1 DEF AllSentAtRest
<1> QED BY <1>2, RestInvariant, PTL
=============================================================================
