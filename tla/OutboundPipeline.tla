--------------------------- MODULE OutboundPipeline ---------------------------
(***************************************************************************)
(* The outbound publication pipeline of src/bridge/src/outbound-pipeline.ts: *)
(* what the bridge publishes to the cloud is sealed one job at a time in   *)
(* the order accepted, and the packets of a job are sent without waiting   *)
(* for replies, as long as they fit a window of packets and bytes.         *)
(* A step is what JavaScript runs between two awaits; while the loop is    *)
(* "sending" it has not yielded, so nothing else moves.                    *)
(***************************************************************************)
EXTENDS Integers, Sequences, FiniteSetsExt

CONSTANTS
    MaxQueued,      \* OUTBOUND_MAX_QUEUED
    MaxPackets,     \* OUTBOUND_MAX_IN_FLIGHT_PACKETS
    MaxBytes,       \* OUTBOUND_MAX_IN_FLIGHT_BYTES
    Sizes,          \* the packet sizes that occur
    MaxPerJob,      \* bound on the packets of one job (one for each recipient)
    MaxJobs,        \* bound on the publications attempted
    Callers         \* who waits for idle()

ASSUME PipelineAssumption ==
    /\ MaxQueued \in Nat \ {0} /\ MaxPackets \in Nat \ {0} /\ MaxBytes \in Nat
    /\ Sizes \subseteq Nat /\ MaxPerJob \in Nat /\ MaxJobs \in Nat

VARIABLES
    offered,            \* publications attempted, which numbers the jobs
    jobs,               \* jobs not begun
    queued,             \* the code's count of jobs accepted and not sent
    current,            \* the job in progress, 0 for none
    packets,            \* its packets not sent
    at,                 \* where run() is
    inFlight,           \* packets sent without a reply
    inFlightPackets,    \* the code's count of them
    inFlightBytes,      \* and of their bytes
    idleWaiters,        \* callers whose idle() has not resolved
    made,               \* how many packets each job was sealed into (ghost)
    wire                \* every packet sent, in order (ghost)
window == <<inFlight, inFlightPackets, inFlightBytes>>
vars == <<offered, jobs, queued, current, packets, at, window, idleWaiters,
          made, wire>>

JobIds == 1..MaxJobs
Packets == [job : JobIds, k : 1..MaxPerJob, bytes : Sizes]
(* off: not running; prepare: awaits prepare(); sending: in the loop over   *)
(* the packets; full: parked with windowWaiter set; woken: resumes in       *)
(* waitForRoom; room: resumes after it; sent: resumes after processJob.     *)
Stages == {"off", "prepare", "sending", "full", "woken", "room", "sent"}
Yielded == at # "sending"

HasRoom(bytes) ==
    /\ inFlightPackets < MaxPackets
    /\ inFlightPackets = 0 \/ inFlightBytes + bytes <= MaxBytes

\* Idle callers are answered only when nothing is queued and nothing in flight.
NotifyIdle(nQueued, nInFlight) ==
    idleWaiters' = IF nQueued = 0 /\ nInFlight = 0 THEN {} ELSE idleWaiters

-----------------------------------------------------------------------------
Init ==
    /\ offered = 0 /\ jobs = <<>> /\ queued = 0 /\ current = 0
    /\ packets = <<>> /\ at = "off"
    /\ inFlight = {} /\ inFlightPackets = 0 /\ inFlightBytes = 0
    /\ idleWaiters = {} /\ made = [j \in JobIds |-> 0] /\ wire = <<>>

HasCapacity == queued < MaxQueued
\* Mutant: the job goes to the head of the queue.
PushFirst(j) == jobs' = <<j>> \o jobs
Push(j) == jobs' = Append(jobs, j)
\* An accepted job starts run() unless it runs already.
Enqueue ==
    /\ Yielded /\ offered < MaxJobs /\ HasCapacity
    /\ offered' = offered + 1
    /\ queued' = queued + 1
    /\ IF at = "off"
       THEN current' = offered' /\ at' = "prepare" /\ UNCHANGED jobs
       ELSE Push(offered') /\ UNCHANGED <<current, at>>
    /\ UNCHANGED <<packets, window, idleWaiters, made, wire>>

\* At capacity the publication is dropped.
Drop ==
    /\ Yielded /\ offered < MaxJobs /\ ~HasCapacity
    /\ offered' = offered + 1
    /\ UNCHANGED <<jobs, queued, current, packets, at, window, idleWaiters,
                   made, wire>>

\* idle(); when there is nothing to wait for it resolves at once.
Idle(c) ==
    /\ Yielded /\ c \notin idleWaiters
    /\ queued # 0 \/ inFlightPackets # 0
    /\ idleWaiters' = idleWaiters \union {c}
    /\ UNCHANGED <<offered, jobs, queued, current, packets, at, window, made,
                   wire>>

\* prepare() settles; a failure leaves the job without packets.
Prepared ==
    /\ at = "prepare" /\ at' = "sending"
    /\ \E n \in 0..MaxPerJob : \E size \in [1..n -> Sizes] :
        /\ packets' = [k \in 1..n |-> [job |-> current, k |-> k, bytes |-> size[k]]]
        /\ made' = [made EXCEPT ![current] = n]
    /\ UNCHANGED <<offered, jobs, queued, current, window, idleWaiters, wire>>

SendPacket(p) ==
    /\ packets' = Tail(packets)
    /\ inFlight' = inFlight \union {p}
    /\ inFlightPackets' = inFlightPackets + 1
    /\ inFlightBytes' = inFlightBytes + p.bytes
    /\ wire' = Append(wire, p)
    /\ at' = "sending"
    /\ UNCHANGED <<offered, jobs, queued, current, idleWaiters, made>>

Send ==
    /\ at = "sending" /\ packets # <<>> /\ HasRoom(Head(packets).bytes)
    /\ SendPacket(Head(packets))

WaitForRoom ==
    /\ at = "sending" /\ packets # <<>> /\ ~HasRoom(Head(packets).bytes)
    /\ at' = "full"
    /\ UNCHANGED <<offered, jobs, queued, current, packets, window, idleWaiters,
                   made, wire>>

\* Mutant: whoever is woken takes it that there is room.
AfterWakeAnyway == "room"
\* The while of waitForRoom looks again, and parks again.
AfterWake == IF HasRoom(Head(packets).bytes) THEN "room" ELSE "full"
Resume ==
    /\ at = "woken" /\ at' = AfterWake
    /\ UNCHANGED <<offered, jobs, queued, current, packets, window, idleWaiters,
                   made, wire>>

\* Back from waitForRoom the packet is sent without another look.
SendAfterWait == at = "room" /\ SendPacket(Head(packets))

Finish ==
    /\ at = "sending" /\ packets = <<>> /\ at' = "sent"
    /\ UNCHANGED <<offered, jobs, queued, current, packets, window, idleWaiters,
                   made, wire>>

CountDown == queued' = queued - 1
\* Mutant: the end of run() does not look for idle callers.
EndRunSilent ==
    /\ jobs = <<>> /\ current' = 0 /\ at' = "off"
    /\ UNCHANGED <<jobs, idleWaiters>>
EndRun ==
    /\ jobs = <<>> /\ current' = 0 /\ at' = "off"
    /\ NotifyIdle(queued', inFlightPackets)
    /\ UNCHANGED jobs
BeginNext ==
    /\ jobs # <<>> /\ current' = Head(jobs) /\ jobs' = Tail(jobs)
    /\ at' = "prepare"
    /\ UNCHANGED idleWaiters
\* The job leaves the count, and run() ends or begins the next one.
JobDone ==
    /\ at = "sent" /\ CountDown
    /\ EndRun \/ BeginNext
    /\ UNCHANGED <<offered, packets, window, made, wire>>

\* Mutant: only a window full of packets wakes the sender.
WakeSenderIfFull ==
    at' = IF at = "full" /\ inFlightPackets = MaxPackets THEN "woken" ELSE at
WakeSender == at' = IF at = "full" THEN "woken" ELSE at
ReleaseBytes(p) == inFlightBytes' = inFlightBytes - p.bytes
\* A reply, or a failure, makes room and wakes whoever waits for it.
Settle(p) ==
    /\ Yielded /\ p \in inFlight
    /\ inFlight' = inFlight \ {p}
    /\ inFlightPackets' = inFlightPackets - 1
    /\ ReleaseBytes(p)
    /\ WakeSender /\ NotifyIdle(queued, inFlightPackets')
    /\ UNCHANGED <<offered, jobs, queued, current, packets, made, wire>>

-----------------------------------------------------------------------------
\* What the event loop runs of run() when its turn comes.
Loop == Prepared \/ Send \/ WaitForRoom \/ Resume \/ SendAfterWait \/ Finish \/ JobDone
Next ==
    \/ Enqueue \/ Drop \/ Loop
    \/ \E c \in Callers : Idle(c)
    \/ \E p \in inFlight : Settle(p)
Spec == Init /\ [][Next]_vars
(* Sealing ends, and a reply comes or the client of the cloud gives up      *)
(* waiting for it, so every packet in flight settles.                       *)
FairSpec ==
    /\ Spec /\ WF_vars(Loop)
    /\ \A p \in Packets : WF_vars(Settle(p))

-----------------------------------------------------------------------------
TypeOK ==
    /\ offered \in 0..MaxJobs /\ jobs \in Seq(JobIds) /\ queued \in 0..MaxQueued
    /\ current \in 0..MaxJobs /\ packets \in Seq(Packets) /\ at \in Stages
    /\ inFlight \subseteq Packets
    /\ inFlightPackets \in Nat /\ inFlightBytes \in Int
    /\ idleWaiters \subseteq Callers
    /\ made \in [JobIds -> 0..MaxPerJob] /\ wire \in Seq(Packets)

(* The window is never exceeded, though the sender goes on two turns of the *)
(* event loop after it was woken and looks only in one of them: at most     *)
(* MaxPackets unanswered packets, of at most MaxBytes unless one that is    *)
(* larger went out alone.                                                   *)
WindowHeld ==
    /\ inFlightPackets <= MaxPackets
    /\ inFlightPackets > 1 => inFlightBytes <= MaxBytes

(* The counters the drop at capacity and idle() rest on count what they      *)
(* say, whatever fails on the way.                                          *)
CountsHonest ==
    /\ queued = Len(jobs) + (IF at = "off" THEN 0 ELSE 1)
    /\ inFlightPackets = Cardinality(inFlight)

\* q is the packet to send after p, and the first one when p is Nothing.
Nothing == [job |-> 0, k |-> 0]
Follows(p, q) ==
    \/ q.job = p.job /\ q.k = p.k + 1
    \/ /\ q.job > p.job /\ q.k = 1
       /\ p.job = 0 \/ p.k = made[p.job]
       /\ \A j \in JobIds : p.job < j /\ j < q.job => made[j] = 0
(* Packets leave in the order their publications were accepted, those of    *)
(* one publication together, none twice and none skipped, though replies    *)
(* come in any order.                                                       *)
SentInOrder ==
    \A i \in 1..Len(wire) : Follows(IF i = 1 THEN Nothing ELSE wire[i - 1], wire[i])

(* A parked sender is always woken: every accepted publication is sent.     *)
BacklogDrains == queued > 0 ~> queued = 0
(* Every idle() resolves once publications stop coming.                     *)
IdleAnswered == \A c \in Callers : c \in idleWaiters ~> c \notin idleWaiters
=============================================================================
