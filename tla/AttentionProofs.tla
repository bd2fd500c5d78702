-------------------------- MODULE AttentionProofs --------------------------
(***************************************************************************)
(* Proofs about Attention: types; one notice per idle cycle, and none      *)
(* while the agent works; requests that are resolved once; that what the   *)
(* human is told of an answer is true; and that no idle cycle is forgotten.*)
(*                                                                         *)
(* The proofs go over the kinds of steps a part of the state can take      *)
(* (StepKinds for the line, the ledger and the timer, PollKinds for who    *)
(* waits); the actions are taken apart once for each part.                 *)
(***************************************************************************)
EXTENDS Attention, FiniteSetTheorems, SequenceTheorems, TLAPS

USE AttentionAssumption

-----------------------------------------------------------------------------
(* The lock's line. *)

LineTyped ==
  /\ line \in Seq(Task) /\ at \in {"start", "saving", "probing", "calling"}
  /\ line = << >> => at = "start"

\* A task has joined the line.
Grown(t) ==
  /\ line' \in Seq(Task) /\ line' # << >> /\ Len(line) \in Nat
  /\ DOMAIN line = 1..Len(line) /\ DOMAIN line' = 1..(Len(line) + 1)
  /\ \A i \in DOMAIN line : line'[i] = line[i]
  /\ line'[Len(line) + 1] = t
  /\ UNCHANGED <<at, draft, live>>

\* The first has left it, and reads of parked polls may have joined.
Popped ==
  /\ line' \in Seq(Task)
  /\ DOMAIN line \subseteq Nat \ {0} /\ DOMAIN line' \subseteq Nat \ {0}
  /\ \A j \in DOMAIN line : j # 1 => j - 1 \in DOMAIN line' /\ line'[j - 1] = line[j]
  /\ \A i \in DOMAIN line' :
       \/ i + 1 \in DOMAIN line /\ line'[i] = line[i + 1]
       \/ line'[i].op = "read" /\ line'[i].q \in Questions
  /\ at' = "start" /\ draft' = Empty /\ live' = FALSE
\* What has joined are reads, one of each of these questions.
Rereads(S) ==
  \A i \in DOMAIN line' : i + 1 \notin DOMAIN line =>
    /\ line'[i].op = "read" /\ line'[i].q \in S
    /\ \A j \in DOMAIN line' :
         j + 1 \notin DOMAIN line /\ line'[j].q = line'[i].q => i = j

\* The head of the line, and the rest of it.
LEMMA TurnFacts ==
  ASSUME line \in Seq(Task)
  PROVE  /\ DOMAIN line = 1..Len(line) /\ Len(line) \in Nat
         /\ line # << >> => /\ 1 \in DOMAIN line /\ Head(line) = line[1]
                            /\ Head(line) \in Task
         /\ line = << >> => DOMAIN line = {}
  <1>1. CASE line # << >>
    BY <1>1, HeadTailProperties, LenProperties
  <1>2. CASE line = << >>
    BY <1>2
  <1> QED
    BY <1>1, <1>2

\* Joining the line leaves its head at what it does.
LEMMA Grows ==
  ASSUME LineTyped, NEW t \in Task, Enqueue(t)
  PROVE  Grown(t)
  <1>1. /\ line' \in Seq(Task) /\ Len(line') = Len(line) + 1
        /\ \A i \in 1..Len(line) : line'[i] = line[i]
        /\ line'[Len(line) + 1] = t
    BY AppendProperties DEF LineTyped, Enqueue
  <1>2. /\ Len(line) \in Nat /\ DOMAIN line = 1..Len(line)
        /\ DOMAIN line' = 1..(Len(line) + 1)
    BY <1>1, LenProperties DEF LineTyped
  <1>3. line' # << >>
    BY <1>2
  <1> QED
    BY <1>1, <1>2, <1>3 DEF Grown, Enqueue

\* Giving way takes the head off the line.
LEMMA GivesWay ==
  ASSUME LineTyped, line # << >>, GiveWay
  PROVE  Popped /\ Rereads({})
  <1>1. /\ line' \in Seq(Task) /\ Len(line') = Len(line) - 1
        /\ \A i \in 1..Len(line') : line'[i] = line[i + 1]
    BY HeadTailProperties DEF LineTyped, GiveWay
  <1>2. /\ Len(line) \in Nat /\ DOMAIN line = 1..Len(line)
        /\ Len(line') \in Nat /\ DOMAIN line' = 1..Len(line')
    BY <1>1, LenProperties DEF LineTyped
  <1> QED
    BY <1>1, <1>2 DEF Popped, Rereads, GiveWay, Over

\* A finite set of tasks makes a sequence of them.
LEMMA ReadsListed ==
  ASSUME NEW S \in SUBSET Questions
  PROVE  LET reads == SetToSeq({TaskOf("read", q) : q \in S})
         IN  /\ reads \in Seq(Task)
             /\ \A i \in DOMAIN reads : reads[i].op = "read" /\ reads[i].q \in S
             /\ \A i, j \in DOMAIN reads : reads[i].q = reads[j].q => i = j
  <1> DEFINE R == {TaskOf("read", q) : q \in S}
  <1> DEFINE f == [q \in S |-> TaskOf("read", q)]
  <1>1. IsFiniteSet(S)
    BY FS_Subset
  <1>2. f \in Surjection(S, R)
    BY DEF Surjection
  <1>3. IsFiniteSet(R)
    BY <1>1, <1>2, FS_Surjection
  <1> DEFINE n == Cardinality(R)
  <1>4. n \in Nat /\ ExistsBijection(1..n, R)
    BY <1>3, FS_CardinalityType
  <1>5. \E g \in [1..n -> R] : IsInjective(g)
    BY <1>4 DEF ExistsBijection, Bijection, Injection, IsInjective
  <1>6. SetToSeq(R) \in [1..n -> R] /\ IsInjective(SetToSeq(R))
    BY <1>5 DEF SetToSeq
  <1>7. /\ \A t \in R : t \in Task /\ t.op = "read" /\ t.q \in S
        /\ \A t, u \in R : t.q = u.q => t = u
    BY DEF TaskOf, Task
  <1> HIDE DEF R, n
  <1>8. SetToSeq(R) \in [1..n -> Task]
    BY <1>6, <1>7
  <1>9. SetToSeq(R) \in Seq(Task)
    BY <1>4, <1>8, SeqDef
  <1>10. \A i, j \in DOMAIN SetToSeq(R) : SetToSeq(R)[i] = SetToSeq(R)[j] => i = j
    BY <1>6 DEF IsInjective
  <1>11. \A i, j \in DOMAIN SetToSeq(R) : SetToSeq(R)[i].q = SetToSeq(R)[j].q => i = j
    BY <1>6, <1>7, <1>10
  <1> QED
    BY <1>6, <1>7, <1>9, <1>11 DEF R

\* What follows the head, and what is put behind it.
LEMMA Joined ==
  ASSUME NEW s \in Seq(Task), s # << >>, NEW r \in Seq(Task)
  PROVE  LET t == Tail(s) \o r
         IN  /\ t \in Seq(Task)
             /\ DOMAIN s \subseteq Nat \ {0} /\ DOMAIN t \subseteq Nat \ {0}
             /\ \A j \in DOMAIN s : j # 1 => j - 1 \in DOMAIN t /\ t[j - 1] = s[j]
             /\ \A i \in DOMAIN t :
                  \/ i + 1 \in DOMAIN s /\ t[i] = s[i + 1]
                  \/ \E k \in DOMAIN r : t[i] = r[k] /\ i = Len(s) - 1 + k
  <1> DEFINE rest == Tail(s)
             t == rest \o r
             m == Len(rest)
             n == Len(r)
  <1>1. /\ rest \in Seq(Task) /\ m = Len(s) - 1
        /\ \A i \in 1..m : rest[i] = s[i + 1]
    BY HeadTailProperties
  <1>2. /\ t \in Seq(Task) /\ Len(t) = m + n
        /\ \A i \in 1..(m + n) : t[i] = IF i <= m THEN rest[i] ELSE r[i - m]
    BY <1>1, ConcatProperties
  <1>3. /\ m \in Nat /\ n \in Nat /\ DOMAIN r = 1..n /\ Len(s) = m + 1
        /\ DOMAIN s = 1..(m + 1) /\ DOMAIN t = 1..(m + n)
    BY <1>1, <1>2, LenProperties
  <1> HIDE DEF rest, t, m, n
  <1>4. ASSUME NEW j \in DOMAIN s, j # 1
        PROVE  j - 1 \in DOMAIN t /\ t[j - 1] = s[j]
    <2>1. j - 1 \in 1..m /\ j - 1 \in 1..(m + n) /\ j - 1 + 1 = j
      BY <1>3, <1>4
    <2>2. t[j - 1] = rest[j - 1]
      BY <1>2, <1>3, <2>1
    <2>3. rest[j - 1] = s[j - 1 + 1]
      BY <1>1, <2>1
    <2>4. rest[j - 1] = s[j]
      BY <2>1, <2>3
    <2> QED
      BY <1>3, <2>1, <2>2, <2>4
  <1>5. ASSUME NEW i \in DOMAIN t
        PROVE  \/ i + 1 \in DOMAIN s /\ t[i] = s[i + 1]
               \/ \E k \in DOMAIN r : t[i] = r[k] /\ i = Len(s) - 1 + k
    <2>1. CASE i <= m
      <3>1. i \in 1..m /\ i \in 1..(m + n)
        BY <1>3, <2>1
      <3>2. t[i] = rest[i]
        BY <1>2, <2>1, <3>1
      <3>3. rest[i] = s[i + 1] /\ i + 1 \in DOMAIN s
        BY <1>1, <1>3, <3>1
      <3> QED
        BY <3>2, <3>3
    <2>2. CASE i > m
      <3>1. i - m \in DOMAIN r /\ t[i] = r[i - m]
        BY <1>2, <1>3, <2>2
      <3>2. i = Len(s) - 1 + (i - m)
        BY <1>3
      <3> QED
        BY <3>1, <3>2
    <2> QED
      BY <1>3, <2>1, <2>2
  <1>6. DOMAIN s \subseteq Nat \ {0} /\ DOMAIN t \subseteq Nat \ {0}
    BY <1>3
  <1> QED
    BY <1>2, <1>4, <1>5, <1>6 DEF t, rest

\* So does waking the parked polls, whose reads join the line.
LEMMA Woken ==
  ASSUME LineTyped, line # << >>, NEW S \in SUBSET Questions, Wake(S)
  PROVE  Popped /\ Rereads(S)
  <1> DEFINE reads == SetToSeq({TaskOf("read", q) : q \in S})
  <1>1. /\ reads \in Seq(Task)
        /\ \A i \in DOMAIN reads : reads[i].op = "read" /\ reads[i].q \in S
        /\ \A i, j \in DOMAIN reads : reads[i].q = reads[j].q => i = j
    BY ReadsListed
  <1>2. line' = Tail(line) \o reads /\ Over
    BY DEF Wake
  <1> HIDE DEF reads
  <1>3. /\ line' \in Seq(Task)
        /\ DOMAIN line \subseteq Nat \ {0} /\ DOMAIN line' \subseteq Nat \ {0}
        /\ \A j \in DOMAIN line : j # 1 => j - 1 \in DOMAIN line' /\ line'[j - 1] = line[j]
        /\ \A i \in DOMAIN line' :
             \/ i + 1 \in DOMAIN line /\ line'[i] = line[i + 1]
             \/ \E k \in DOMAIN reads : line'[i] = reads[k] /\ i = Len(line) - 1 + k
    <2>1. line \in Seq(Task)
      BY DEF LineTyped
    <2> DEFINE t == Tail(line) \o reads
    <2>2. /\ t \in Seq(Task)
          /\ DOMAIN line \subseteq Nat \ {0} /\ DOMAIN t \subseteq Nat \ {0}
          /\ \A j \in DOMAIN line : j # 1 => j - 1 \in DOMAIN t /\ t[j - 1] = line[j]
          /\ \A i \in DOMAIN t :
               \/ i + 1 \in DOMAIN line /\ t[i] = line[i + 1]
               \/ \E k \in DOMAIN reads : t[i] = reads[k] /\ i = Len(line) - 1 + k
      BY <1>1, <2>1, Joined, ZenonT(60)
    <2>3. line' = t
      BY <1>2
    <2> HIDE DEF t
    <2> QED
      BY <2>2, <2>3
  <1>4. Popped
    BY <1>1, <1>2, <1>3 DEF Popped, Over
  <1>5. ASSUME NEW i \in DOMAIN line', i + 1 \notin DOMAIN line
        PROVE  /\ line'[i].op = "read" /\ line'[i].q \in S
               /\ \A j \in DOMAIN line' :
                    j + 1 \notin DOMAIN line /\ line'[j].q = line'[i].q => i = j
    <2>1. PICK k \in DOMAIN reads : line'[i] = reads[k] /\ i = Len(line) - 1 + k
      BY <1>3, <1>5
    <2>2. ASSUME NEW j \in DOMAIN line', j + 1 \notin DOMAIN line, line'[j].q = line'[i].q
          PROVE  i = j
      <3>1. PICK l \in DOMAIN reads : line'[j] = reads[l] /\ j = Len(line) - 1 + l
        BY <1>3, <2>2
      <3>2. k = l
        BY <1>1, <2>1, <2>2, <3>1
      <3> QED
        BY <2>1, <3>1, <3>2
    <2> QED
      BY <1>1, <2>1, <2>2
  <1> QED
    BY <1>4, <1>5 DEF Rereads

-----------------------------------------------------------------------------
(* The ledger's operators. *)

LedgerTyped == ledger \in Ledger /\ draft \in Ledger

\* What two versions of the ledger agree on when nothing but requests changed.
SameCycle(l, k) == k.activity = l.activity /\ k.cycle = l.cycle /\ k.told = l.told

\* A ledger is a record of its five fields, and so is the empty one.
LEMMA LedgerFields ==
  /\ Empty \in Ledger
  /\ \A l \in Ledger :
       /\ l.how \in [Questions -> Resolutions \cup {"absent", "open"}]
       /\ l.older \in SUBSET (Questions \X Questions)
       /\ l.activity \in {"unknown", "busy", "idle"}
       /\ l.cycle \in Nat /\ l.told \in BOOLEAN
  BY DEF Ledger, Empty, EachQuestion

\* Resolving touches open requests only.
LEMMA Resolving ==
  ASSUME NEW l \in Ledger, NEW S, NEW why \in Resolutions
  PROVE  LET k == Resolve(l, S, why)
         IN  /\ k \in Ledger /\ SameCycle(l, k) /\ k.older = l.older
             /\ \A q \in Questions :
                  k.how[q] = IF q \in S /\ l.how[q] = "open" THEN why ELSE l.how[q]
  BY DEF Ledger, Resolve, SameCycle

\* Pruning forgets resolved requests, never a protected one.
LEMMA Pruning ==
  ASSUME NEW l \in Ledger, NEW protect
  PROVE  LET k == Prune(l, protect)
         IN  /\ k \in Ledger /\ SameCycle(l, k)
             /\ \A q \in Questions :
                  /\ k.how[q] \in {l.how[q], "absent"}
                  /\ q \in protect \/ l.how[q] \notin Resolutions => k.how[q] = l.how[q]
  <1> DEFINE Resolved == {q \in Questions \ protect : l.how[q] \in Resolutions}
             Dropped == {q \in Resolved :
                           Cardinality({r \in Resolved : Before(l, q, r)}) >= Retention}
  <1>1. Dropped \subseteq {q \in Questions \ protect : l.how[q] \in Resolutions}
    OBVIOUS
  <1>2. Prune(l, protect) =
          [l EXCEPT !.how = [q \in Questions |-> IF q \in Dropped THEN "absent" ELSE @[q]],
                    !.older = @ \ ((Dropped \X Questions) \cup (Questions \X Dropped))]
    BY DEF Prune
  <1> HIDE DEF Dropped
  <1> DEFINE h == [q \in Questions |-> IF q \in Dropped THEN "absent" ELSE l.how[q]]
             o == l.older \ ((Dropped \X Questions) \cup (Questions \X Dropped))
             k == [l EXCEPT !.how = h, !.older = o]
  <1>3. Prune(l, protect) = k
    BY <1>2
  <1>4. h \in [Questions -> Resolutions \cup {"absent", "open"}]
    BY LedgerFields
  <1>5. o \in SUBSET (Questions \X Questions)
    BY LedgerFields
  <1> HIDE DEF h, o
  <1>6. k \in Ledger /\ SameCycle(l, k) /\ k.how = h
    BY <1>4, <1>5 DEF Ledger, SameCycle
  <1>7. \A q \in Questions : h[q] = IF q \in Dropped THEN "absent" ELSE l.how[q]
    BY DEF h
  <1> QED
    BY <1>1, <1>3, <1>6, <1>7

\* Recording opens what is not known, and nothing else.
LEMMA Adding ==
  ASSUME NEW l \in Ledger, NEW q \in Questions
  PROVE  LET k == Added(l, q)
         IN  /\ k \in Ledger /\ SameCycle(l, k)
             /\ \A x \in Questions :
                  k.how[x] = IF x = q /\ ~Known(l, q) THEN "open" ELSE l.how[x]
  BY DEF Ledger, Added, SameCycle

\* The signs of work are records, the rest of the records is no sign of it.
LEMMA RecordNames ==
  /\ Busy = {"ask", "seen", "done", "work", "prompt"}
  /\ Records = {"ask", "seen", "done", "work", "prompt", "request", "stop", "end"}
  BY DEF Busy, Records

\* The activity and the cycle an event leaves.
LEMMA Moving ==
  ASSUME NEW l \in Ledger, NEW op \in Records, cycles \in Nat
  PROVE  LET k == Moved(l, op)
         IN  /\ k \in Ledger /\ k.how = l.how /\ k.older = l.older
             /\ op \in Busy => k.activity = "busy"
             /\ op \in {"stop", "end"} => k.activity = "idle"
             /\ op = "request" => k.activity = l.activity
             /\ \/ k.cycle = 0 /\ ~k.told
                \/ k.cycle = cycles + 1 /\ ~k.told
                \/ k.cycle = l.cycle /\ k.told = l.told
  <1> USE RecordNames
  <1> DEFINE sign == CASE op \in Busy -> "busy"
                       [] op \in {"stop", "end"} -> "idle"
                       [] OTHER -> l.activity
             now == [l EXCEPT !.activity = sign]
  <1>1. /\ op \in Busy => sign = "busy"
        /\ op \in {"stop", "end"} => sign = "idle"
        /\ op = "request" => sign = l.activity
    OBVIOUS
  <1>2. Moved(l, op) =
          CASE Cancels(op) -> [now EXCEPT !.cycle = 0, !.told = FALSE]
            [] op = "stop" /\ l.activity = "busy" ->
                 [now EXCEPT !.cycle = cycles + 1, !.told = FALSE]
            [] OTHER -> now
    BY DEF Moved
  <1>3. \/ Moved(l, op) = [now EXCEPT !.cycle = 0, !.told = FALSE]
        \/ Moved(l, op) = [now EXCEPT !.cycle = cycles + 1, !.told = FALSE]
        \/ Moved(l, op) = now
    BY <1>2, Zenon
  <1>4. sign \in {"unknown", "busy", "idle"}
    BY <1>1, LedgerFields
  <1> HIDE DEF sign
  <1>5. /\ now \in Ledger /\ now.how = l.how /\ now.older = l.older
        /\ now.activity = sign /\ now.cycle = l.cycle /\ now.told = l.told
    BY <1>4 DEF Ledger
  <1> HIDE DEF now
  <1>6. ASSUME NEW c \in Nat, NEW k, k = [now EXCEPT !.cycle = c, !.told = FALSE]
        PROVE  /\ k \in Ledger /\ k.how = l.how /\ k.older = l.older
               /\ k.activity = sign /\ k.cycle = c /\ ~k.told
    BY <1>5, <1>6 DEF Ledger
  <1>7. 0 \in Nat /\ cycles + 1 \in Nat
    OBVIOUS
  <1>8. CASE Moved(l, op) = [now EXCEPT !.cycle = 0, !.told = FALSE]
    <2> DEFINE k == Moved(l, op)
    <2>1. k = [now EXCEPT !.cycle = 0, !.told = FALSE]
      BY <1>8
    <2> HIDE DEF k
    <2>2. /\ k \in Ledger /\ k.how = l.how /\ k.older = l.older
          /\ k.activity = sign /\ k.cycle = 0 /\ ~k.told
      BY <1>6, <1>7, <2>1
    <2> QED
      BY <1>1, <2>2 DEF k
  <1>9. CASE Moved(l, op) = [now EXCEPT !.cycle = cycles + 1, !.told = FALSE]
    <2> DEFINE k == Moved(l, op)
    <2>1. k = [now EXCEPT !.cycle = cycles + 1, !.told = FALSE]
      BY <1>9
    <2> HIDE DEF k
    <2>2. /\ k \in Ledger /\ k.how = l.how /\ k.older = l.older
          /\ k.activity = sign /\ k.cycle = cycles + 1 /\ ~k.told
      BY <1>6, <1>7, <2>1
    <2> QED
      BY <1>1, <2>2 DEF k
  <1>10. CASE Moved(l, op) = now
    BY <1>1, <1>5, <1>10
  <1> QED
    BY <1>3, <1>8, <1>9, <1>10

\* What an event leaves of the ledger: nothing resolved is touched, but by a
\* request that is made through ftown.
LEMMA Observing ==
  ASSUME NEW l \in Ledger, NEW op \in Records, NEW q, cycles \in Nat,
         op \in {"ask", "seen", "request"} => q \in Questions
  PROVE  LET k == Observed(l, op, q)
         IN  /\ k \in Ledger /\ SameCycle(Moved(l, op), k)
             /\ \A x \in Questions :
                  /\ l.how[x] \in Resolutions =>
                       k.how[x] = l.how[x] \/ (x = q /\ op \in {"ask", "seen", "request"} /\ x \notin Hooks)
                  /\ l.how[x] = "absent" =>
                       k.how[x] = "absent" \/ (x = q /\ op \in {"ask", "seen", "request"})
  <1> DEFINE m == Moved(l, op)
             k == Observed(l, op, q)
  <1>1. m \in Ledger /\ m.how = l.how
    BY Moving
  <1>2. SameCycle(m, m)
    BY DEF SameCycle
  <1>3. \A why \in Resolutions : why # "open" /\ why # "absent"
    BY DEF Resolutions
  <1> HIDE DEF m
  <1>4. CASE op \in {"ask", "seen", "request"}
    <2>1. k = Added(m, q)
      BY <1>4 DEF Observed, m
    <2> QED
      BY <1>1, <1>3, <1>4, <2>1, Adding DEF Known, m
  <1>5. CASE op \in {"prompt", "end", "done"}
    <2>1. \/ k = Resolve(m, Questions, "user_prompt")
          \/ k = Resolve(m, Questions, "session_end")
          \/ k = Resolve(m, {q}, "tool_complete")
      BY <1>5 DEF Observed, m
    <2>2. {"user_prompt", "session_end", "tool_complete"} \subseteq Resolutions
      BY DEF Resolutions
    <2>3. \E S, why : why \in Resolutions /\ k = Resolve(m, S, why)
      BY <2>1, <2>2, Zenon
    <2>4. PICK S, why : why \in Resolutions /\ k = Resolve(m, S, why)
      BY <2>3
    <2>5. /\ k \in Ledger /\ SameCycle(m, k)
          /\ \A x \in Questions :
               k.how[x] = IF x \in S /\ m.how[x] = "open" THEN why ELSE m.how[x]
      BY <1>1, <2>4, Resolving
    <2> QED
      BY <1>1, <1>3, <2>5 DEF m
  <1>6. CASE op \in {"work", "stop"}
    <2>1. k = m
      BY <1>6 DEF Observed, m
    <2> QED
      BY <1>1, <1>2, <1>3, <2>1 DEF m
  <1> QED
    BY <1>4, <1>5, <1>6, RecordNames

-----------------------------------------------------------------------------
(* The kinds of steps, as far as the line, the ledger and the idle cycles go. *)

clock == <<timer, ticking, cycles, notices, off, active, last>>

\* The tasks that are about a question name one.
Addressed ==
  \A i \in DOMAIN line :
    line[i].op \in {"ask", "seen", "done", "request", "answer", "dismiss", "resolve", "read"}
      => line[i].q \in Questions

\* No request is opened, and none resolved again.
Keeps(l, k) ==
  \A q \in Questions : l.how[q] # "open" => k.how[q] \in {l.how[q], "absent"}

\* Who waits, polls or gives up.
Aside == UNCHANGED <<ledger, memory, clock>>
\* A command, a poll or the restoration joins the line.
Joins ==
  \E t \in Task :
    /\ Grown(t) /\ t.op \in {"answer", "dismiss", "resolve", "read", "restore"}
    /\ t.op # "restore" => t.q \in Questions
    /\ UNCHANGED <<ledger, clock>>
\* The agent reports or asks.
Reports ==
  \E t \in Task :
    /\ Grown(t) /\ t.op \in Records
    /\ t.op \in {"ask", "seen", "done"} => t.q \in Hooks
    /\ t.op = "request" => t.q \in Questions \ Hooks /\ Ask(t.q)
    /\ IF Cancels(t.op) THEN IdleCanceled ELSE KeepTimer
    /\ last' = CASE t.op \in Busy -> "busy" [] t.op \in {"stop", "end"} -> "idle" [] OTHER -> last
    /\ UNCHANGED <<ledger, cycles, notices, off, active>>
\* A refused command or a read gives way.
Leaves ==
  /\ line # << >> /\ Popped
  /\ Head(line).op \in {"answer", "dismiss", "resolve", "read"}
  /\ UNCHANGED <<ledger, clock>>
\* A command decides what it is going to save, and saves it; so does a
\* cancellation.
Files ==
  /\ line # << >> /\ Head(line).op \in {"answer", "dismiss", "resolve"}
  /\ Head(line).op = "answer" => AnswerDecides
  /\ at = "start" /\ at' = "saving"
  /\ draft' \in Ledger /\ SameCycle(ledger, draft') /\ Keeps(ledger, draft')
  /\ UNCHANGED <<ledger, line, clock>>
Filed ==
  /\ line # << >> /\ Head(line).op \in {"answer", "dismiss", "resolve", "cancel"}
  /\ at = "saving" /\ ledger' = draft /\ Popped
  /\ UNCHANGED clock

\* A task for a question.
LEMMA TaskTypes ==
  ASSUME NEW op \in Records \cup {"cancel", "restore", "emit", "read", "answer", "dismiss", "resolve"},
         NEW q \in Questions \cup {"none"}
  PROVE  /\ TaskOf(op, q) \in Task
         /\ TaskOf(op, q).op = op /\ TaskOf(op, q).q = q /\ TaskOf(op, q).cycle = 0
  BY DEF TaskOf, Task

\* Every step is of one of these kinds, or one of the actions named here.
LEMMA StepKinds ==
  ASSUME LineTyped, LedgerTyped, Addressed, [Next]_vars
  PROVE  \/ Aside \/ Joins \/ Reports \/ Leaves \/ Files \/ Filed
         \/ RecordDecides \/ RecordSaved
         \/ TimerFires \/ EmitStops \/ EmitProbes \/ EmitMarks \/ EmitSaved
         \/ NoticeMailed \/ NoParent \/ SessionStops \/ CancelDecides
         \/ ShutsDown \/ Restart \/ Restores \/ TaskFails
  <1> DEFINE Kind == \/ Aside \/ Joins \/ Reports \/ Leaves \/ Files \/ Filed
                     \/ RecordDecides \/ RecordSaved
                     \/ TimerFires \/ EmitStops \/ EmitProbes \/ EmitMarks \/ EmitSaved
                     \/ NoticeMailed \/ NoParent \/ SessionStops \/ CancelDecides
                     \/ ShutsDown \/ Restart \/ Restores \/ TaskFails
  <1> USE RecordNames DEF memory, polls, idling, counts, clock
  <1>1. ASSUME NEW op \in {"work", "prompt", "stop", "end"}, Signal(op) PROVE Reports
    <2>1. TaskOf(op, "none") \in Task /\ TaskOf(op, "none").op = op
      BY TaskTypes
    <2>2. Grown(TaskOf(op, "none"))
      BY <1>1, <2>1, Grows DEF Signal, Record
    <2> QED
      BY <1>1, <2>1, <2>2 DEF Signal, Record, Reports
  <1>2. ASSUME NEW q \in Questions, Ask(q) PROVE Reports
    <2> DEFINE op == IF q \in Hooks THEN "ask" ELSE "request"
    <2>1. TaskOf(op, q) \in Task /\ TaskOf(op, q).op = op /\ TaskOf(op, q).q = q
      BY TaskTypes
    <2>2. /\ Record(op, q) /\ UNCHANGED ledger
          /\ \/ op = "ask" /\ q \in Hooks
             \/ op = "request" /\ q \in Questions \ Hooks
      BY <1>2 DEF Ask
    <2> HIDE DEF op
    <2>3. Grown(TaskOf(op, q))
      BY <2>1, <2>2, Grows DEF Record
    <2> QED
      BY <1>2, <2>1, <2>2, <2>3 DEF Record, Reports
  <1>3. ASSUME NEW q \in Questions, NEW op \in {"seen", "done"}, HookReports(op, q)
        PROVE  Reports
    <2>1. TaskOf(op, q) \in Task /\ TaskOf(op, q).op = op /\ TaskOf(op, q).q = q
      BY TaskTypes
    <2>2. Grown(TaskOf(op, q))
      BY <1>3, <2>1, Grows DEF HookReports, Record
    <2> QED
      BY <1>3, <2>1, <2>2 DEF HookReports, Record, Reports
  <1>4. ASSUME NEW q \in Questions,
               NEW op \in {"answer", "dismiss", "resolve", "read"}, Enqueue(TaskOf(op, q)),
               UNCHANGED <<ledger, clock>>
        PROVE  Joins
    <2>1. TaskOf(op, q) \in Task /\ TaskOf(op, q).op = op /\ TaskOf(op, q).q = q
      BY TaskTypes
    <2> QED
      BY <1>4, <2>1, Grows DEF Joins
  <1>5. ASSUME NEW q \in Questions, NEW op \in {"answer", "dismiss", "resolve"}, Command(op, q)
        PROVE  Joins
    BY <1>4, <1>5 DEF Command
  <1>6. ASSUME NEW q \in Questions, Poll(q) \/ Deadline(q) PROVE Joins
    BY <1>4, <1>6 DEF Poll, Deadline
  <1>7. ASSUME NEW q \in Questions,
               MailAnswer(q) \/ Forgotten(q) \/ GivesUp(q) \/ Killed(q) \/ Closed(q)
        PROVE  Aside
    BY <1>7 DEF MailAnswer, Forgotten, GivesUp, Killed, Closed, Aside
  <1>8. CASE Restore
    <2>1. CASE active
      <3>1. TaskOf("restore", "none") \in Task /\ TaskOf("restore", "none").op = "restore"
        BY TaskTypes
      <3> QED
        BY <1>8, <2>1, <3>1, Grows DEF Restore, Joins
    <2>2. CASE ~active
      BY <1>8, <2>2 DEF Restore, Aside
    <2> QED
      BY <2>1, <2>2
  <1>9. CASE Refused \/ ReadReturns \/ ReadParks \/ ReadFails
    BY <1>9, GivesWay DEF Refused, ReadReturns, ReadParks, ReadFails, Turn, Leaves
  <1>10. CASE AnswerDecides
    <2>1. PICK P, k : /\ k \in Ledger /\ draft' = Prune(k, P)
                      /\ SameCycle(ledger, k) /\ Keeps(ledger, k)
      <3> DEFINE l == [ledger EXCEPT !.how[Mine] = "answered"]
                 k == Resolve(l, Older(ledger, Mine), "manual")
      <3>1. l \in Ledger /\ SameCycle(ledger, l)
        BY DEF LedgerTyped, Ledger, SameCycle, Resolutions
      <3>2. \A q \in Questions : ledger.how[q] # "open" => l.how[q] = ledger.how[q]
        BY <1>10 DEF AnswerDecides, Answerable, LedgerTyped, Ledger
      <3>3. "manual" \in Resolutions
        BY DEF Resolutions
      <3> HIDE DEF l
      <3>4. /\ k \in Ledger /\ SameCycle(l, k)
            /\ \A q \in Questions : l.how[q] # "open" => k.how[q] = l.how[q]
        BY <3>1, <3>3, Resolving
      <3>5. draft' = Prune(k, Fresh(ledger, k) \cup {Mine})
        BY <1>10 DEF AnswerDecides, l
      <3>6. Keeps(ledger, k)
        BY <3>2, <3>4 DEF Keeps
      <3> QED
        BY <3>1, <3>4, <3>5, <3>6 DEF SameCycle
    <2>2. draft' \in Ledger /\ SameCycle(ledger, draft') /\ Keeps(ledger, draft')
      BY <2>1, Pruning DEF SameCycle, Keeps
    <2> QED
      BY <1>10, <2>2 DEF AnswerDecides, Turn, Files
  <1>11. CASE DismissDecides
    <2> DEFINE through == {Mine} \cup (IF Head(line).op = "dismiss" THEN Older(ledger, Mine) ELSE {})
               k == Resolve(ledger, through, "manual")
               P == IF Head(line).op = "dismiss" THEN Fresh(ledger, k) ELSE {Mine}
    <2>1. "manual" \in Resolutions
      BY DEF Resolutions
    <2>2. k \in Ledger /\ SameCycle(ledger, k) /\ Keeps(ledger, k)
      BY <2>1, Resolving DEF LedgerTyped, Keeps
    <2>3. draft' = Prune(k, P)
      BY <1>11 DEF DismissDecides
    <2> HIDE DEF k
    <2>4. /\ draft' \in Ledger /\ SameCycle(k, draft')
          /\ \A q \in Questions : draft'.how[q] \in {k.how[q], "absent"}
      BY <2>2, <2>3, Pruning
    <2>5. SameCycle(ledger, draft') /\ Keeps(ledger, draft')
      BY <2>2, <2>4 DEF SameCycle, Keeps
    <2> QED
      BY <1>11, <2>4, <2>5 DEF DismissDecides, Turn, Files
  <1>12. CASE AnswerSaved \/ DismissSaved
    <2>1. Parked \in SUBSET Questions
      BY DEF Parked
    <2> QED
      BY <1>12, <2>1, Woken DEF AnswerSaved, DismissSaved, Turn, Filed
  <1>13. CASE CancelSaved
    BY <1>13, GivesWay DEF CancelSaved, Turn, Filed
  <1>14. CASE UNCHANGED vars
    BY <1>14 DEF vars, Aside
  <1>15. CASE Next
    <2>1. CASE Tasks
      BY <2>1, <1>9, <1>10, <1>11, <1>12, <1>13 DEF Tasks
    <2>2. CASE \E q \in Questions :
                 \/ Ask(q) \/ \E op \in {"seen", "done"} : HookReports(op, q)
                 \/ \E op \in {"answer", "dismiss", "resolve"} : Command(op, q)
                 \/ MailAnswer(q) \/ Poll(q) \/ Deadline(q) \/ Forgotten(q)
                 \/ GivesUp(q) \/ Killed(q) \/ Closed(q)
      BY <2>2, <1>2, <1>3, <1>5, <1>6, <1>7
    <2>3. CASE \E op \in {"work", "prompt", "stop", "end"} : Signal(op)
      BY <2>3, <1>1
    <2> QED
      BY <1>15, <2>1, <2>2, <2>3, <1>8, <1>9 DEF Next
  <1> QED
    BY <1>14, <1>15

TimerTyped == timer \in Nat /\ cycles \in Nat /\ notices \in Seq(Nat)

\* The part of the state that the line, the ledger and the timer are.
CoreTyped == LineTyped /\ Addressed /\ LedgerTyped /\ TimerTyped

\* What a record is about to save.
LEMMA RecordDrafts ==
  ASSUME CoreTyped, RecordDecides
  PROVE  /\ line # << >> /\ Head(line).op \in Records /\ at = "start" /\ at' = "saving"
         /\ draft' \in Ledger
         /\ Head(line).op \in Busy => draft'.activity = "busy"
         /\ Head(line).op \in {"stop", "end"} => draft'.activity = "idle"
         /\ Head(line).op = "request" => draft'.activity = ledger.activity
         /\ \/ draft'.cycle = 0 /\ ~draft'.told
            \/ draft'.cycle = cycles + 1 /\ ~draft'.told
            \/ draft'.cycle = ledger.cycle /\ draft'.told = ledger.told
         /\ cycles' = IF draft'.cycle > cycles THEN draft'.cycle ELSE cycles
         /\ \A x \in Questions :
              /\ ledger.how[x] \in Resolutions =>
                   \/ draft'.how[x] \in {ledger.how[x], "absent"}
                   \/ x = Mine /\ Head(line).op = "request" /\ x \notin Hooks
                   \/ x = Mine /\ Head(line).op \in {"ask", "seen"} /\ x \notin Hooks
              /\ ledger.how[x] = "absent" =>
                   \/ draft'.how[x] = "absent"
                   \/ x = Mine /\ Head(line).op \in {"ask", "seen", "request"}
  <1> DEFINE op == Head(line).op
             m == Moved(ledger, op)
             k == Observed(ledger, op, Mine)
  <1>1. /\ line # << >> /\ op \in Records /\ at = "start" /\ at' = "saving"
        /\ draft' = Prune(k, Fresh(ledger, k))
        /\ cycles' = IF k.cycle > cycles THEN k.cycle ELSE cycles
    BY DEF RecordDecides, Turn
  <1>2. ledger \in Ledger /\ cycles \in Nat
    BY DEF CoreTyped, LedgerTyped, TimerTyped
  <1>3. op \in {"ask", "seen", "request"} => Mine \in Questions
    BY <1>1, TurnFacts DEF CoreTyped, LineTyped, Addressed, Mine
  <1> HIDE DEF op
  <1>4. /\ m.how = ledger.how
        /\ op \in Busy => m.activity = "busy"
        /\ op \in {"stop", "end"} => m.activity = "idle"
        /\ op = "request" => m.activity = ledger.activity
        /\ \/ m.cycle = 0 /\ ~m.told
           \/ m.cycle = cycles + 1 /\ ~m.told
           \/ m.cycle = ledger.cycle /\ m.told = ledger.told
    BY <1>1, <1>2, Moving
  <1>5. /\ k \in Ledger /\ SameCycle(m, k)
        /\ \A x \in Questions :
             /\ ledger.how[x] \in Resolutions =>
                  k.how[x] = ledger.how[x]
                    \/ (x = Mine /\ op \in {"ask", "seen", "request"} /\ x \notin Hooks)
             /\ ledger.how[x] = "absent" =>
                  k.how[x] = "absent" \/ (x = Mine /\ op \in {"ask", "seen", "request"})
    BY <1>1, <1>2, <1>3, Observing
  <1> HIDE DEF m, k
  <1>6. /\ draft' \in Ledger /\ SameCycle(k, draft')
        /\ \A x \in Questions : draft'.how[x] \in {k.how[x], "absent"}
    BY <1>1, <1>5, Pruning
  <1> QED
    BY <1>1, <1>4, <1>5, <1>6 DEF SameCycle, op

\* A restart finds the ledger, or what was being saved in its place.
LEMMA RestartSaves ==
  ASSUME Restart
  PROVE  ledger' = ledger \/ (at = "saving" /\ ledger' = draft)
  BY Zenon DEF Restart

\* The types of the line, of the ledger and of the timer are kept.
LEMMA CoreStep == CoreTyped /\ [Next]_vars => CoreTyped'
  <1> SUFFICES ASSUME CoreTyped, [Next]_vars PROVE CoreTyped'
    OBVIOUS
  <1>a. /\ Empty \in Ledger /\ ledger.cycle \in Nat /\ draft.cycle \in Nat
        /\ ledger \in Ledger /\ draft \in Ledger
    BY LedgerFields DEF CoreTyped, LedgerTyped
  <1>h. line # << >> => Head(line) \in Task /\ MyCycle \in Nat
    BY TurnFacts DEF CoreTyped, LineTyped, MyCycle, Task
  <1>k. ASSUME LineTyped', Addressed', ledger' \in Ledger, draft' \in Ledger, TimerTyped'
        PROVE  CoreTyped'
    BY <1>k DEF CoreTyped, LedgerTyped
  <1>t. UNCHANGED <<timer, cycles, notices>> => TimerTyped'
    BY DEF CoreTyped, TimerTyped
  <1>l. line' = line /\ line # << >> /\ at' \in {at, "saving", "probing", "calling"}
          => LineTyped' /\ Addressed'
    BY DEF CoreTyped, LineTyped, Addressed
  <1>u. line' = line /\ at' = at => LineTyped' /\ Addressed'
    BY DEF CoreTyped, LineTyped, Addressed
  <1>g. ASSUME NEW t \in Task, Grown(t),
               t.op \in {"ask", "seen", "done", "request", "answer", "dismiss", "resolve", "read"}
                 => t.q \in Questions
        PROVE  LineTyped' /\ Addressed' /\ draft' = draft
    <2>1. LineTyped' /\ draft' = draft
      BY <1>g DEF CoreTyped, LineTyped, Grown
    <2>2. ASSUME NEW i \in DOMAIN line' PROVE (i \in DOMAIN line /\ line'[i] = line[i]) \/ line'[i] = t
      BY <1>g, <2>2 DEF Grown
    <2>3. Addressed'
      BY <1>g, <2>2 DEF CoreTyped, Addressed
    <2> QED
      BY <2>1, <2>3
  <1>p. ASSUME Popped
        PROVE  LineTyped' /\ Addressed' /\ draft' = Empty
    <2>1. LineTyped' /\ draft' = Empty
      BY <1>p DEF Popped, LineTyped
    <2>2. Addressed'
      BY <1>p DEF CoreTyped, Addressed, Popped
    <2> QED
      BY <2>1, <2>2
  <1> USE DEF clock, memory, idling
  <1>1. CASE Aside
    <2>1. UNCHANGED <<ledger, line, at, draft, timer, cycles, notices>>
      BY <1>1 DEF Aside
    <2> QED
      BY <2>1, <1>a, <1>k, <1>t, <1>u
  <1>2. CASE Joins
    BY <1>2, <1>a, <1>g, <1>k, <1>t DEF Joins
  <1>3. CASE Reports
    <2>1. PICK t \in Task :
            /\ Grown(t) /\ t.op \in Records
            /\ t.op \in {"ask", "seen", "done"} => t.q \in Hooks
            /\ t.op = "request" => t.q \in Questions
            /\ timer' \in Nat /\ UNCHANGED <<ledger, cycles, notices>>
      BY <1>3 DEF Reports, IdleCanceled, KeepTimer, CoreTyped, TimerTyped
    <2>2. LineTyped' /\ Addressed' /\ draft' = draft
      BY <2>1, <1>g, RecordNames DEF Hooks
    <2>3. TimerTyped'
      BY <2>1 DEF CoreTyped, TimerTyped
    <2> QED
      BY <2>1, <2>2, <2>3, <1>a, <1>k
  <1>4. CASE Leaves
    BY <1>4, <1>a, <1>p, <1>k, <1>t DEF Leaves
  <1>5. CASE Files
    BY <1>5, <1>a, <1>k, <1>l, <1>t DEF Files
  <1>6. CASE Filed
    BY <1>6, <1>a, <1>p, <1>k, <1>t DEF Filed
  <1>7. CASE RecordDecides
    <2>1. /\ UNCHANGED <<ledger, line, notices>> /\ line # << >> /\ at' = "saving"
          /\ timer' \in {0, timer}
      BY <1>7 DEF RecordDecides, Turn, IdleCanceled, KeepTimer
    <2>2. cycles' \in Nat /\ draft' \in Ledger
      BY <1>7, RecordDrafts, LedgerFields DEF CoreTyped, TimerTyped
    <2>3. TimerTyped'
      BY <2>1, <2>2 DEF CoreTyped, TimerTyped
    <2> QED
      BY <2>1, <2>2, <2>3, <1>a, <1>k, <1>l
  <1>8. CASE RecordSaved
    <2>1. Popped
      BY <1>8, Woken DEF RecordSaved, Parked, CoreTyped, Turn
    <2>2. timer' \in {timer, draft.cycle} /\ UNCHANGED <<cycles, notices>> /\ ledger' = draft
      BY <1>8 DEF RecordSaved, Schedule, KeepTimer
    <2>3. TimerTyped'
      BY <2>2, <1>a DEF CoreTyped, TimerTyped
    <2> QED
      BY <2>1, <2>2, <2>3, <1>a, <1>k, <1>p
  <1>9. CASE TimerFires
    <2> DEFINE t == [op |-> "emit", q |-> "none", cycle |-> timer]
    <2>1. t \in Task /\ t.op = "emit"
      BY DEF Task, CoreTyped, TimerTyped
    <2>2. Grown(t) /\ UNCHANGED <<ledger, timer, cycles, notices>>
      BY <1>9, <2>1, Grows DEF TimerFires, CoreTyped
    <2> HIDE DEF t
    <2> QED
      BY <2>1, <2>2, <1>a, <1>g, <1>k, <1>t
  <1>10. ASSUME line # << >>, GiveWay, ledger' \in {ledger, draft},
                timer' \in {0, timer, ledger.cycle}, UNCHANGED <<cycles, notices>>
         PROVE  CoreTyped'
    <2>1. Popped
      BY <1>10, GivesWay DEF CoreTyped
    <2>2. TimerTyped'
      BY <1>10, <1>a DEF CoreTyped, TimerTyped
    <2> QED
      BY <2>1, <2>2, <1>10, <1>a, <1>k, <1>p
  <1>11. CASE EmitStops \/ NoParent \/ Restores \/ TaskFails
    <2>1. /\ line # << >> /\ GiveWay /\ ledger' = ledger /\ UNCHANGED <<cycles, notices>>
          /\ timer' \in {0, timer, ledger.cycle}
      BY <1>11 DEF EmitStops, NoParent, Restores, TaskFails, Turn, Schedule, IdleCanceled, KeepTimer
    <2> QED
      BY <2>1, <1>10
  <1>12. CASE EmitProbes \/ EmitMarks
    <2>1. /\ line # << >> /\ UNCHANGED <<line, ledger, timer, cycles, notices>>
          /\ at' \in {"probing", "saving"}
      BY <1>12 DEF EmitProbes, EmitMarks, Turn
    <2>2. \/ draft' = draft
          \/ draft' = [ledger EXCEPT !.told = TRUE]
          \/ draft' = [ledger EXCEPT !.cycle = 0, !.told = FALSE]
      BY <1>12 DEF EmitProbes, EmitMarks
    <2>3. /\ [ledger EXCEPT !.told = TRUE] \in Ledger
          /\ [ledger EXCEPT !.cycle = 0, !.told = FALSE] \in Ledger
      BY <1>a DEF Ledger
    <2>4. draft' \in Ledger
      BY <1>12, <2>2, <2>3, <1>a, Zenon
    <2> QED
      BY <2>1, <2>4, <1>a, <1>k, <1>l, <1>t
  <1>13. CASE EmitSaved
    <2>1. /\ line # << >> /\ ledger' = draft /\ timer' \in {0, timer}
          /\ UNCHANGED <<cycles, notices>>
          /\ GiveWay \/ (at' = "calling" /\ UNCHANGED <<line, draft>>)
      BY <1>13 DEF EmitSaved, Turn, IdleCanceled, KeepTimer
    <2>2. CASE GiveWay
      BY <2>1, <2>2, <1>10
    <2>3. CASE at' = "calling" /\ UNCHANGED <<line, draft>>
      <3>1. TimerTyped'
        BY <2>1 DEF CoreTyped, TimerTyped
      <3> QED
        BY <2>1, <2>3, <3>1, <1>a, <1>k, <1>l
    <2> QED
      BY <2>1, <2>2, <2>3
  <1>14. CASE NoticeMailed
    <2>1. /\ line # << >> /\ GiveWay /\ UNCHANGED <<ledger, cycles>> /\ timer' = 0
          /\ notices' = Append(notices, MyCycle)
      BY <1>14 DEF NoticeMailed, Turn, IdleCanceled
    <2>2. Popped
      BY <2>1, GivesWay DEF CoreTyped
    <2>3. notices' \in Seq(Nat)
      BY <2>1, <1>h, AppendProperties DEF CoreTyped, TimerTyped
    <2>4. TimerTyped'
      BY <2>1, <2>3 DEF CoreTyped, TimerTyped
    <2> QED
      BY <2>1, <2>2, <2>4, <1>a, <1>k, <1>p
  <1>15. CASE SessionStops
    <2>1. TaskOf("cancel", "none") \in Task /\ TaskOf("cancel", "none").op = "cancel"
      BY TaskTypes
    <2>2. /\ Grown(TaskOf("cancel", "none"))
          /\ timer' = 0 /\ UNCHANGED <<ledger, cycles, notices>>
      BY <1>15, <2>1, Grows DEF SessionStops, IdleCanceled, CoreTyped
    <2>3. TimerTyped'
      BY <2>2 DEF CoreTyped, TimerTyped
    <2> QED
      BY <2>1, <2>2, <2>3, <1>a, <1>g, <1>k
  <1>16. CASE CancelDecides
    <2>1. /\ line # << >> /\ timer' = 0 /\ UNCHANGED <<ledger, cycles, notices>>
      BY <1>16 DEF CancelDecides, Turn, IdleCanceled
    <2>2. CASE ledger.cycle # 0
      <3>1. /\ draft' = [ledger EXCEPT !.cycle = 0, !.told = FALSE]
            /\ line' = line /\ at' = "saving"
        BY <1>16, <2>2 DEF CancelDecides
      <3>2. draft' \in Ledger
        BY <3>1, <1>a DEF Ledger
      <3>3. TimerTyped'
        BY <2>1 DEF CoreTyped, TimerTyped
      <3> QED
        BY <2>1, <3>1, <3>2, <3>3, <1>a, <1>k, <1>l
    <2>3. CASE ledger.cycle = 0
      BY <1>16, <2>1, <2>3, <1>10 DEF CancelDecides
    <2> QED
      BY <2>2, <2>3
  <1>17. CASE ShutsDown
    <2>1. UNCHANGED <<ledger, line, at, draft, cycles, notices>> /\ timer' = 0
      BY <1>17 DEF ShutsDown, IdleCanceled
    <2>2. TimerTyped'
      BY <2>1 DEF CoreTyped, TimerTyped
    <2> QED
      BY <2>1, <2>2, <1>a, <1>k, <1>u
  <1>18. CASE Restart
    <2>1. /\ line' = << >> /\ at' = "start" /\ draft' = Empty /\ timer' = 0
          /\ UNCHANGED <<cycles, notices>>
      BY <1>18 DEF Restart, Over, IdleCanceled
    <2>2. LineTyped' /\ Addressed'
      BY <2>1 DEF LineTyped, Addressed
    <2>3. TimerTyped'
      BY <2>1 DEF CoreTyped, TimerTyped
    <2>4. ledger' \in Ledger
      BY <1>18, <1>a, RestartSaves
    <2> QED
      BY <2>1, <2>2, <2>3, <2>4, <1>a, <1>k
  <1> QED
    BY <1>1, <1>2, <1>3, <1>4, <1>5, <1>6, <1>7, <1>8, <1>9, <1>11, <1>12, <1>13, <1>14,
       <1>15, <1>16, <1>17, <1>18, StepKinds DEF CoreTyped

-----------------------------------------------------------------------------
(* One notice per cycle. *)

\* No cycle is on record, armed or noticed that has not begun.
CyclesKnown ==
  /\ ledger.cycle <= cycles
  /\ at = "saving" => draft.cycle <= cycles
  /\ ticking => timer # 0
  /\ \A i \in DOMAIN line : line[i].op = "emit" => line[i].cycle # 0
  /\ \A k \in DOMAIN notices : notices[k] # 0 /\ notices[k] <= cycles

\* The mark is in the ledger before the notice is mailed.
MarkedFirst ==
  /\ Noticed(ledger.cycle) => ledger.told
  /\ at = "saving" /\ Noticed(draft.cycle) => draft.told

\* What the firing that holds the lock has established: its cycle is the one
\* on record, it was not marked before, and whoever stops the session takes
\* the timer away from it.
Emitting ==
  Turn({"emit"}) =>
    /\ at = "probing" => ledger.cycle = MyCycle /\ ~ledger.told
    /\ at = "saving" /\ draft.cycle # 0 =>
         draft.cycle = MyCycle /\ draft.told /\ ~Noticed(MyCycle)
    /\ at = "calling" =>
         ledger.cycle = MyCycle /\ ledger.told /\ ~Noticed(MyCycle)
    /\ at = "calling" \/ (at = "saving" /\ draft.cycle # 0) =>
         (timer = MyCycle => active)

NoticeInv == CyclesKnown /\ MarkedFirst /\ Emitting /\ NoticedOnce

\* A notice is mailed by the firing whose cycle was on record, unmarked, under
\* the lock it still holds, and the mark outlives every restart.
LEMMA NoticeStep ==
  CoreTyped /\ NoticeInv /\ [Next]_vars => NoticeInv'
  <1> SUFFICES ASSUME CoreTyped, NoticeInv, [Next]_vars PROVE NoticeInv'
    OBVIOUS
  <1> USE TurnFacts DEF CoreTyped, LineTyped, LedgerTyped, TimerTyped, clock,
          memory, idling, Turn, MyCycle, IdleCanceled, KeepTimer, SameCycle,
          CyclesKnown, MarkedFirst, Emitting, NoticedOnce, Noticed
  <1>a. /\ Empty.cycle = 0 /\ ledger.cycle \in Nat /\ draft.cycle \in Nat
        /\ DOMAIN notices = 1..Len(notices) /\ Len(notices) \in Nat
        /\ \A k \in DOMAIN notices : notices[k] \in Nat
    BY LedgerFields DEF Empty
  <1>k. CyclesKnown /\ MarkedFirst /\ Emitting /\ NoticedOnce
    BY DEF NoticeInv
  <1>b. CoreTyped'
    BY CoreStep
  <1>p. ASSUME Popped, ledger' = ledger \/ (at = "saving" /\ ledger' = draft),
               UNCHANGED <<cycles, notices>>, ticking' => timer' # 0
        PROVE  NoticeInv'
    <2>0. notices' = notices /\ cycles' = cycles /\ at' # "saving"
      BY <1>p DEF Popped
    <2>1. CyclesKnown'
      <3>1. ledger'.cycle <= cycles
        BY <1>p, <1>a, <1>k
      <3>2. \A i \in DOMAIN line' : line'[i].op = "emit" => line'[i].cycle # 0
        BY <1>p, <1>k DEF Popped
      <3> QED
        BY <1>p, <1>k, <2>0, <3>1, <3>2
    <2>2. MarkedFirst'
      <3>1. CASE ledger' = ledger
        BY <1>k, <2>0, <3>1
      <3>2. CASE at = "saving" /\ ledger' = draft
        BY <1>k, <2>0, <3>2
      <3> QED
        BY <1>p, <3>1, <3>2
    <2>3. NoticedOnce'
      BY <1>k, <2>0
    <2>4. Emitting'
      BY <1>p DEF Popped
    <2> QED
      BY <2>1, <2>2, <2>3, <2>4 DEF NoticeInv
  <1>g. ASSUME NEW t \in Task, Grown(t), t.op = "emit" => t.cycle # 0,
               UNCHANGED <<ledger, cycles, notices>>,
               \/ UNCHANGED <<timer, active>> /\ (ticking' => ticking)
               \/ timer' = 0 /\ ~ticking'
        PROVE  NoticeInv'
    <2>a. ASSUME NEW i \in DOMAIN line', line'[i].op = "emit" PROVE line'[i].cycle # 0
      <3>1. CASE i \in DOMAIN line
        BY <1>g, <1>k, <2>a, <3>1 DEF Grown
      <3>2. CASE i \notin DOMAIN line
        <4>1. i = Len(line) + 1
          BY <1>g, <2>a, <3>2 DEF Grown
        <4> QED
          BY <1>g, <2>a, <4>1 DEF Grown
      <3> QED
        BY <3>1, <3>2
    <2>1. CyclesKnown'
      BY <1>g, <1>a, <1>k, <2>a DEF Grown
    <2>2. MarkedFirst' /\ NoticedOnce'
      BY <1>g, <1>k DEF Grown
    <2>3. Turn({"emit"})' =>
            (line # << >> /\ Turn({"emit"}) /\ MyCycle' = MyCycle) \/ at' = "start"
      <3>1. CASE line = << >>
        BY <1>g, <3>1 DEF Grown
      <3>2. CASE line # << >>
        <4>1. line'[1] = line[1] /\ line' # << >> /\ line' \in Seq(Task)
          BY <1>g, <3>2 DEF Grown
        <4>2. Head(line') = line'[1]
          BY <4>1, HeadTailProperties
        <4> QED
          BY <3>2, <4>1, <4>2
      <3> QED
        BY <3>1, <3>2
    <2>4. Turn({"emit"}) => MyCycle # 0
      BY <1>a, <1>k
    <2>5. Emitting'
      BY <1>g, <1>k, <2>3, <2>4 DEF Grown
    <2> QED
      BY <2>1, <2>2, <2>5 DEF NoticeInv
  <1>1. CASE Aside
    BY <1>1, <1>k DEF Aside, NoticeInv
  <1>2. CASE Joins
    BY <1>2, <1>g, <1>k DEF Joins
  <1>3. CASE Reports
    BY <1>3, <1>g, <1>k, RecordNames DEF Reports
  <1>4. CASE Leaves
    BY <1>4, <1>p, <1>k DEF Leaves
  <1>5. CASE Files
    BY <1>5, <1>a, <1>k DEF Files, NoticeInv
  <1>6. CASE Filed
    BY <1>6, <1>p, <1>k DEF Filed
  <1>7. CASE RecordDecides
    <2>1. UNCHANGED <<ledger, line, notices, active>> /\ Head(line).op \in Records
      BY <1>7 DEF RecordDecides
    <2>2. (timer' = timer /\ ticking' = ticking) \/ (timer' = 0 /\ ticking' = FALSE)
      BY <1>7 DEF RecordDecides
    <2>3. draft'.cycle <= cycles' /\ cycles <= cycles'
      BY <1>7, <1>a, <1>b, <1>k, RecordDrafts, LedgerFields
    <2>4. Noticed(draft'.cycle) => draft'.told
      BY <1>7, <1>a, <1>k, RecordDrafts
    <2> QED
      BY <2>1, <2>2, <2>3, <2>4, <1>a, <1>b, <1>7, <1>k, RecordNames DEF NoticeInv
  <1>8. CASE RecordSaved
    <2>1. Popped
      BY <1>8, Woken DEF RecordSaved, Parked
    <2> QED
      BY <1>8, <2>1, <1>p, <1>k DEF RecordSaved, Schedule
  <1>9. CASE TimerFires
    <2> DEFINE t == [op |-> "emit", q |-> "none", cycle |-> timer]
    <2>1. t \in Task /\ timer # 0 /\ t.cycle = timer
      BY <1>9, <1>k DEF TimerFires, Task
    <2>2. Grown(t)
      BY <1>9, <1>k, <2>1, Grows DEF TimerFires
    <2>3. UNCHANGED <<ledger, cycles, notices, timer, active>> /\ ~ticking'
      BY <1>9 DEF TimerFires
    <2> HIDE DEF t
    <2> QED
      BY <2>1, <2>2, <2>3, <1>g
  <1>10. CASE EmitStops
    BY <1>10, <1>p, <1>k, GivesWay DEF EmitStops
  <1>11. CASE EmitProbes
    BY <1>11, <1>k DEF EmitProbes, NoticeInv
  <1>12. CASE EmitMarks
    BY <1>12, <1>a, <1>k DEF EmitMarks, Ledger, NoticeInv
  <1>13. CASE EmitSaved
    <2>1. CASE GiveWay
      BY <1>13, <2>1, <1>p, <1>k, GivesWay DEF EmitSaved
    <2>2. CASE ~GiveWay
      BY <1>13, <2>2, <1>a, <1>k DEF EmitSaved, NoticeInv
    <2> QED
      BY <2>1, <2>2
  <1>14. CASE NoticeMailed
    <2>1. Popped
      BY <1>14, GivesWay DEF NoticeMailed
    <2>2. /\ MyCycle \in Nat /\ MyCycle # 0 /\ MyCycle <= cycles
          /\ ledger.cycle = MyCycle /\ ledger.told /\ ~Noticed(MyCycle)
      BY <1>14, <1>k DEF NoticeMailed, Task
    <2>3. /\ DOMAIN notices' = 1..(Len(notices) + 1)
          /\ \A k \in DOMAIN notices : notices'[k] = notices[k]
          /\ notices'[Len(notices) + 1] = MyCycle
      BY <1>14, <1>a, <2>2, AppendProperties, LenProperties DEF NoticeMailed
    <2>4. UNCHANGED <<ledger, cycles>> /\ timer' = 0 /\ ~ticking'
      BY <1>14 DEF NoticeMailed
    <2>a. /\ \A k \in DOMAIN notices :
               notices[k] # 0 /\ notices[k] <= cycles /\ notices[k] # MyCycle
          /\ \A j, k \in DOMAIN notices : notices[j] = notices[k] => j = k
      BY <1>k, <2>2
    <2>b. CyclesKnown' <=> /\ ledger'.cycle <= cycles'
                           /\ at' = "saving" => draft'.cycle <= cycles'
                           /\ ticking' => timer' # 0
                           /\ \A i \in DOMAIN line' : line'[i].op = "emit" => line'[i].cycle # 0
                           /\ \A k \in DOMAIN notices' : notices'[k] # 0 /\ notices'[k] <= cycles'
      OBVIOUS
    <2>c. NoticedOnce' <=> \A i, j \in DOMAIN notices' : notices'[i] = notices'[j] => i = j
      OBVIOUS
    <2>d. /\ ledger.cycle <= cycles
          /\ \A i \in DOMAIN line : line[i].op = "emit" => line[i].cycle # 0
      BY <1>k
    <2> HIDE TurnFacts DEF CoreTyped, LineTyped, LedgerTyped, TimerTyped, clock,
             memory, idling, Turn, MyCycle, IdleCanceled, KeepTimer, SameCycle,
             CyclesKnown, MarkedFirst, Emitting, NoticedOnce, Noticed
    <2>5. ASSUME NEW k \in DOMAIN notices', k \notin DOMAIN notices
          PROVE  k = Len(notices) + 1 /\ notices'[k] = MyCycle
      <3>1. k \in 1..(Len(notices) + 1) /\ k \notin 1..Len(notices)
        BY <1>a, <2>3, <2>5
      <3>2. k = Len(notices) + 1
        BY <1>a, <3>1
      <3> QED
        BY <2>3, <3>2
    <2>6. \A k \in DOMAIN notices' : notices'[k] # 0 /\ notices'[k] <= cycles
      <3>1. SUFFICES ASSUME NEW k \in DOMAIN notices'
                     PROVE  notices'[k] # 0 /\ notices'[k] <= cycles
        OBVIOUS
      <3>2. CASE k \in DOMAIN notices
        BY <2>3, <2>a, <3>2
      <3>3. CASE k \notin DOMAIN notices
        BY <2>2, <2>5, <3>3
      <3> QED
        BY <3>2, <3>3
    <2>7. NoticedOnce'
      <3>1. SUFFICES ASSUME NEW i \in DOMAIN notices', NEW j \in DOMAIN notices',
                            notices'[i] = notices'[j]
                     PROVE  i = j
        BY <2>c
      <3>2. CASE i \in DOMAIN notices /\ j \in DOMAIN notices
        BY <2>3, <2>a, <3>1, <3>2
      <3>3. CASE i \notin DOMAIN notices
        <4>1. j \notin DOMAIN notices
          BY <2>3, <2>5, <2>a, <3>1, <3>3
        <4> QED
          BY <2>5, <3>3, <4>1
      <3>4. CASE j \notin DOMAIN notices
        <4>1. i \notin DOMAIN notices
          BY <2>3, <2>5, <2>a, <3>1, <3>4
        <4> QED
          BY <2>5, <3>4, <4>1
      <3> QED
        BY <3>2, <3>3, <3>4
    <2>8. CyclesKnown'
      <3>1. at' # "saving" /\ \A i \in DOMAIN line' : line'[i].op = "emit" => line'[i].cycle # 0
        BY <2>1, <2>d DEF Popped
      <3> QED
        BY <2>4, <2>6, <2>b, <2>d, <3>1
    <2>9. MarkedFirst'
      BY <2>1, <2>2, <2>4 DEF Popped, MarkedFirst
    <2>10. Emitting'
      BY <2>1 DEF Popped, Emitting, Turn
    <2> QED
      BY <2>7, <2>8, <2>9, <2>10 DEF NoticeInv
  <1>15. CASE NoParent
    BY <1>15, <1>p, <1>k, GivesWay DEF NoParent
  <1>16. CASE SessionStops
    <2>1. TaskOf("cancel", "none") \in Task /\ TaskOf("cancel", "none").op = "cancel"
      BY TaskTypes
    <2> QED
      BY <1>16, <1>g, <1>k, <2>1, Grows DEF SessionStops
  <1>17. CASE CancelDecides
    <2>1. CASE ledger.cycle # 0
      <3>1. draft' = [ledger EXCEPT !.cycle = 0, !.told = FALSE]
        BY <1>17, <2>1 DEF CancelDecides
      <3>2. draft'.cycle = 0
        BY <3>1 DEF Ledger
      <3> QED
        BY <1>17, <2>1, <3>2, <1>a, <1>k DEF CancelDecides, NoticeInv
    <2>2. CASE ledger.cycle = 0
      BY <1>17, <2>2, <1>p, <1>k, GivesWay DEF CancelDecides
    <2> QED
      BY <2>1, <2>2
  <1>18. CASE ShutsDown
    BY <1>18, <1>k DEF ShutsDown, NoticeInv
  <1>19. CASE Restart
    <2>1. /\ ledger' = ledger \/ (at = "saving" /\ ledger' = draft)
          /\ line' = << >> /\ at' = "start" /\ ~ticking'
          /\ UNCHANGED <<cycles, notices>>
      BY <1>19 DEF Restart, Over
    <2>2. ~Turn({"emit"})'
      BY <2>1
    <2> QED
      BY <1>a, <1>k, <2>1, <2>2 DEF NoticeInv
  <1>20. CASE Restores
    BY <1>20, <1>p, <1>k, GivesWay DEF Restores, Schedule
  <1>21. CASE TaskFails
    BY <1>21, <1>p, <1>k, GivesWay DEF TaskFails
  <1> QED
    BY <1>1, <1>2, <1>3, <1>4, <1>5, <1>6, <1>7, <1>8, <1>9, <1>10, <1>11, <1>12,
       <1>13, <1>14, <1>15, <1>16, <1>17, <1>18, <1>19, <1>20, <1>21, StepKinds

-----------------------------------------------------------------------------
(* No notice of an agent that works. *)

\* A sign of work that has not been handled yet, or is being handled; and one
\* that is not the task under way.
Coming(j) == j \in DOMAIN line /\ line[j].op \in Busy
Unbegun(j) == j # 1 \/ at = "start"

\* The end of a turn that waits while the agent works again is overtaken.
StopOvertaken ==
  last = "busy" =>
    \A i \in DOMAIN line : line[i].op \in {"stop", "end"} =>
      \E j \in DOMAIN line : j > i /\ Coming(j)

\* The ledger says that a working agent is idle only until its sign comes.
BusyComes ==
  last = "busy" =>
    \/ \E j \in DOMAIN line : Coming(j) /\ (Unbegun(j) \/ draft.activity # "idle")
    \/ ledger.activity # "idle" /\ (at = "saving" => draft.activity # "idle")

\* Of a working agent no firing of the timer that is armed comes before the
\* sign that takes the timer away.
TimerBehind ==
  last = "busy" /\ timer # 0 =>
    \E j \in DOMAIN line :
      /\ Coming(j) /\ Unbegun(j)
      /\ \A i \in DOMAIN line :
           line[i].op = "emit" /\ line[i].cycle = timer => i > j

BusyInv == StopOvertaken /\ BusyComes /\ TimerBehind

\* The head leaves the line: a sign of work with what it saved.
LEMMA BusyPops ==
  ASSUME CoreTyped, BusyInv, Popped, line # << >>,
         last' = "busy" =>
           /\ last = "busy"
           /\ \/ Head(line).op \notin Busy /\ ledger'.activity = ledger.activity
              \/ at = "saving" /\ ledger'.activity = draft.activity
  PROVE  /\ StopOvertaken' /\ BusyComes'
         /\ timer' \in {0, timer} => TimerBehind'
         /\ (\A i \in DOMAIN line : line[i].op = "emit" => line[i].cycle # timer')
              /\ ledger'.activity = "idle" => TimerBehind'
  <1> USE TurnFacts DEF CoreTyped, LineTyped, BusyInv
  <1>1. CASE last' # "busy"
    BY <1>1 DEF StopOvertaken, BusyComes, TimerBehind
  <1>2. CASE last' = "busy"
    <2>1. last = "busy" /\ Head(line) = line[1]
      BY <1>2
    <2>2. ASSUME NEW j \in DOMAIN line, Coming(j), j # 1
          PROVE  j - 1 \in DOMAIN line' /\ Coming(j - 1)' /\ Unbegun(j - 1)'
      BY <2>2 DEF Popped, Coming, Unbegun
    <2>3. ASSUME NEW j \in DOMAIN line, j # 1, NEW i \in DOMAIN line',
                 line'[i].op # "read", ~(i > j - 1)
          PROVE  i + 1 \in DOMAIN line /\ line'[i] = line[i + 1] /\ ~(i + 1 > j)
      BY <2>3 DEF Popped
    <2>4. StopOvertaken'
      <3>1. SUFFICES ASSUME NEW i \in DOMAIN line', line'[i].op \in {"stop", "end"}
                     PROVE  \E j \in DOMAIN line' : j > i /\ Coming(j)'
        BY DEF StopOvertaken
      <3>2. i + 1 \in DOMAIN line /\ line'[i] = line[i + 1] /\ i \in Nat \ {0}
        BY <3>1 DEF Popped
      <3>3. PICK j \in DOMAIN line : j > i + 1 /\ Coming(j)
        BY <2>1, <3>1, <3>2 DEF StopOvertaken
      <3>4. j # 1 /\ j - 1 > i
        BY <3>2, <3>3 DEF Popped
      <3> QED
        BY <2>2, <3>3, <3>4
    <2>5. BusyComes'
      <3>1. CASE \E j \in DOMAIN line : Coming(j) /\ j # 1
        BY <2>2, <3>1 DEF BusyComes
      <3>2. CASE \A j \in DOMAIN line : Coming(j) => j = 1
        <4>1. \/ Coming(1) /\ (Unbegun(1) \/ draft.activity # "idle")
              \/ ledger.activity # "idle" /\ (at = "saving" => draft.activity # "idle")
          BY <2>1, <3>2 DEF BusyComes
        <4>2. ledger'.activity # "idle"
          BY <1>2, <2>1, <4>1 DEF Coming, Unbegun
        <4> QED
          BY <4>2 DEF BusyComes, Popped
      <3> QED
        BY <3>1, <3>2
    <2>6. ASSUME timer' \in {0, timer} PROVE TimerBehind'
      <3>1. CASE timer' = 0
        BY <3>1 DEF TimerBehind
      <3>2. CASE timer' = timer /\ timer # 0
        <4>1. PICK j \in DOMAIN line :
                /\ Coming(j) /\ Unbegun(j)
                /\ \A i \in DOMAIN line :
                     line[i].op = "emit" /\ line[i].cycle = timer => i > j
          BY <2>1, <3>2 DEF TimerBehind
        <4>2. j # 1
          BY <1>2, <2>1, <4>1 DEF Coming, Unbegun
        <4>3. \A i \in DOMAIN line' :
                line'[i].op = "emit" /\ line'[i].cycle = timer' => i > j - 1
          BY <2>3, <3>2, <4>1, <4>2
        <4> QED
          BY <2>2, <4>1, <4>2, <4>3 DEF TimerBehind
      <3> QED
        BY <2>6, <3>1, <3>2
    <2>7. ASSUME \A i \in DOMAIN line : line[i].op = "emit" => line[i].cycle # timer',
                 ledger'.activity = "idle"
          PROVE  TimerBehind'
      <3>1. PICK j \in DOMAIN line : Coming(j) /\ j # 1
        BY <1>2, <2>1, <2>7 DEF BusyComes, Coming, Unbegun
      <3>2. \A i \in DOMAIN line' : line'[i].op = "emit" => line'[i].cycle # timer'
        BY <2>7 DEF Popped
      <3> QED
        BY <2>2, <3>1, <3>2 DEF TimerBehind
    <2> QED
      BY <2>4, <2>5, <2>6, <2>7
  <1> QED
    BY <1>1, <1>2

\* A task joins the line: a sign of work takes the timer away.
LEMMA BusyGrows ==
  ASSUME CoreTyped, BusyInv, NEW t \in Task, Grown(t), UNCHANGED ledger,
         \/ last' # "busy"
         \/ t.op \in Busy /\ timer' = 0
         \/ t.op \notin {"stop", "end"} /\ last' = last /\ timer' \in {0, timer}
  PROVE  BusyInv'
  <1> USE TurnFacts DEF CoreTyped, LineTyped, BusyInv
  <1>b. PICK n : n = Len(line) + 1
    OBVIOUS
  <1>a. /\ n \in DOMAIN line' /\ line'[n] = t
        /\ \A i \in DOMAIN line : i \in DOMAIN line' /\ line'[i] = line[i] /\ n > i
        /\ \A i \in DOMAIN line' : i \in DOMAIN line \/ i = n
        /\ \A i \in DOMAIN line : Coming(i) => Coming(i)'
        /\ \A i \in DOMAIN line : Unbegun(i) => Unbegun(i)'
    BY <1>b DEF Grown, Coming, Unbegun
  <1>1. CASE last' # "busy"
    BY <1>1 DEF StopOvertaken, BusyComes, TimerBehind
  <1>2. CASE t.op \in Busy /\ timer' = 0
    <2>1. Coming(n)'
      BY <1>2, <1>a DEF Coming
    <2>2. Unbegun(n)'
      BY <1>b DEF Unbegun, Grown
    <2>3. \A i \in DOMAIN line' : line'[i].op \in {"stop", "end"} => n > i
      BY <1>2, <1>a, RecordNames
    <2>4. StopOvertaken'
      BY <1>a, <2>1, <2>3 DEF StopOvertaken
    <2>5. BusyComes' /\ TimerBehind'
      BY <1>2, <1>a, <2>1, <2>2 DEF BusyComes, TimerBehind
    <2> QED
      BY <2>4, <2>5
  <1>3. CASE t.op \notin {"stop", "end"} /\ last' = last /\ timer' \in {0, timer}
    <2>1. StopOvertaken'
      BY <1>3, <1>a DEF StopOvertaken
    <2>2. BusyComes'
      BY <1>3, <1>a DEF BusyComes, Grown
    <2>3. TimerBehind'
      <3>1. CASE timer' = timer /\ timer # 0 /\ last = "busy"
        <4>1. PICK j \in DOMAIN line :
                /\ Coming(j) /\ Unbegun(j)
                /\ \A i \in DOMAIN line :
                     line[i].op = "emit" /\ line[i].cycle = timer => i > j
          BY <3>1 DEF TimerBehind
        <4>2. \A i \in DOMAIN line' :
                line'[i].op = "emit" /\ line'[i].cycle = timer' => i > j
          BY <1>a, <3>1, <4>1
        <4> QED
          BY <1>a, <4>1, <4>2 DEF TimerBehind
      <3>2. CASE timer' = 0 \/ last # "busy"
        BY <1>3, <3>2 DEF TimerBehind
      <3> QED
        BY <1>3, <3>1, <3>2
    <2> QED
      BY <2>1, <2>2, <2>3
  <1> QED
    BY <1>1, <1>2, <1>3

\* Signs of work overtake the notice: each takes the timer away when it is
\* reported and again when it is recorded, and nothing arms it in between for
\* a firing that waits in front of the sign.
LEMMA BusyStep ==
  CoreTyped /\ NoticeInv /\ BusyInv /\ [Next]_vars => BusyInv'
  <1> SUFFICES ASSUME CoreTyped, NoticeInv, BusyInv, [Next]_vars PROVE BusyInv'
    OBVIOUS
  <1> USE TurnFacts, RecordNames
      DEF CoreTyped, LineTyped, clock, memory, idling, Turn, MyCycle,
          IdleCanceled, KeepTimer, BusyInv
  <1>s. ASSUME UNCHANGED <<line, timer, last>>, line # << >>, Head(line).op \notin Busy,
               ledger'.activity = ledger.activity,
               at' = "saving" => draft'.activity = ledger.activity
        PROVE  BusyInv'
    <2>1. StopOvertaken'
      BY <1>s DEF StopOvertaken, Coming
    <2>2. \A j \in DOMAIN line : Coming(j) => j # 1 /\ Coming(j)'
      BY <1>s DEF Coming
    <2>3. BusyComes'
      BY <1>s, <2>2 DEF BusyComes, Unbegun
    <2>4. TimerBehind'
      BY <1>s, <2>2 DEF TimerBehind, Unbegun
    <2> QED
      BY <2>1, <2>3, <2>4
  <1>1. CASE Aside
    BY <1>1 DEF Aside, StopOvertaken, BusyComes, TimerBehind, Coming, Unbegun
  <1>2. CASE Joins
    BY <1>2, BusyGrows DEF Joins
  <1>3. CASE Reports
    BY <1>3, BusyGrows DEF Reports, Cancels
  <1>4. CASE Leaves
    BY <1>4, BusyPops DEF Leaves
  <1>5. CASE Files
    BY <1>5, <1>s DEF Files, SameCycle
  <1>6. CASE Filed
    BY <1>6, BusyPops DEF Filed
  <1>7. CASE RecordDecides
    <2>1. UNCHANGED <<ledger, line, last>> /\ line # << >> /\ at = "start" /\ at' = "saving"
      BY <1>7 DEF RecordDecides
    <2>2. Cancels(Head(line).op) => timer' = 0
      BY <1>7 DEF RecordDecides
    <2>3. ~Cancels(Head(line).op) => timer' = timer
      BY <1>7 DEF RecordDecides
    <2>4. StopOvertaken'
      BY <2>1 DEF StopOvertaken, Coming
    <2>5. BusyComes'
      <3>1. CASE Head(line).op \in Busy
        BY <1>7, <2>1, <3>1, RecordDrafts DEF BusyComes, Coming, Unbegun
      <3>2. CASE Head(line).op = "request"
        BY <1>7, <2>1, <3>2, RecordDrafts DEF BusyComes, Coming, Unbegun
      <3>3. CASE Head(line).op \in {"stop", "end"}
        <4>1. last = "busy" => \E j \in DOMAIN line : j > 1 /\ Coming(j)
          BY <2>1, <3>3 DEF StopOvertaken
        <4> QED
          BY <2>1, <4>1 DEF BusyComes, Coming, Unbegun
      <3> QED
        BY <1>7, <3>1, <3>2, <3>3, RecordDrafts
    <2>6. TimerBehind'
      BY <2>1, <2>2, <2>3 DEF TimerBehind, Coming, Unbegun, Cancels
    <2> QED
      BY <2>4, <2>5, <2>6
  <1>8. CASE RecordSaved
    <2>1. Popped
      BY <1>8, Woken DEF RecordSaved, Parked
    <2>2. CASE Schedule(draft.cycle) /\ draft.activity = "idle"
      <3>1. /\ last' = "busy" => last = "busy"
            /\ last' = "busy" =>
                 \A i \in DOMAIN line : line[i].op = "emit" => line[i].cycle # timer'
        BY <2>2 DEF Schedule
      <3>2. ledger' = draft /\ line # << >> /\ at = "saving"
        BY <1>8 DEF RecordSaved
      <3>3. StopOvertaken' /\ BusyComes' /\ (last' = "busy" => TimerBehind')
        BY <2>1, <2>2, <3>1, <3>2, BusyPops
      <3> QED
        BY <3>3 DEF TimerBehind
    <2>3. CASE KeepTimer /\ UNCHANGED last
      BY <1>8, <2>1, <2>3, BusyPops DEF RecordSaved
    <2> QED
      BY <1>8, <2>2, <2>3 DEF RecordSaved
  <1>9. CASE TimerFires
    <2> DEFINE t == [op |-> "emit", q |-> "none", cycle |-> timer]
    <2>1. t \in Task /\ t.op = "emit"
      BY DEF Task, TimerTyped
    <2>2. Grown(t)
      BY <1>9, <2>1, Grows DEF TimerFires
    <2>3. UNCHANGED <<ledger, timer, last>>
      BY <1>9 DEF TimerFires
    <2> HIDE DEF t
    <2> QED
      BY <2>1, <2>2, <2>3, BusyGrows
  <1>10. CASE EmitStops
    BY <1>10, BusyPops, GivesWay DEF EmitStops
  <1>11. CASE EmitProbes
    BY <1>11, <1>s DEF EmitProbes
  <1>12. CASE EmitMarks
    <2>1. draft'.activity = ledger.activity
      BY <1>12 DEF EmitMarks, LedgerTyped, Ledger
    <2> QED
      BY <1>12, <2>1, <1>s DEF EmitMarks
  <1>13. CASE EmitSaved
    <2>1. CASE GiveWay
      BY <1>13, <2>1, BusyPops, GivesWay DEF EmitSaved
    <2>2. CASE ~GiveWay
      <3>1. UNCHANGED <<line, timer, last, draft>> /\ at = "saving" /\ at' = "calling" /\ ledger' = draft
        BY <1>13, <2>2 DEF EmitSaved
      <3>2. line # << >> /\ Head(line).op = "emit"
        BY <1>13 DEF EmitSaved
      <3>3. StopOvertaken' /\ TimerBehind'
        BY <3>1, <3>2 DEF StopOvertaken, TimerBehind, Coming, Unbegun
      <3>4. BusyComes'
        BY <3>1, <3>2 DEF BusyComes, Coming, Unbegun
      <3> QED
        BY <3>3, <3>4
    <2> QED
      BY <2>1, <2>2
  <1>14. CASE NoticeMailed
    BY <1>14, BusyPops, GivesWay DEF NoticeMailed
  <1>15. CASE NoParent
    BY <1>15, BusyPops, GivesWay DEF NoParent
  <1>16. CASE SessionStops
    <2>1. TaskOf("cancel", "none") \in Task /\ TaskOf("cancel", "none").op = "cancel"
      BY TaskTypes
    <2> QED
      BY <1>16, BusyGrows, <2>1, Grows DEF SessionStops
  <1>17. CASE CancelDecides
    <2>1. UNCHANGED <<ledger, last>> /\ timer' = 0 /\ line # << >> /\ Head(line).op = "cancel"
      BY <1>17 DEF CancelDecides
    <2>2. CASE ledger.cycle # 0
      <3>1. draft' = [ledger EXCEPT !.cycle = 0, !.told = FALSE]
        BY <1>17, <2>2 DEF CancelDecides
      <3>2. draft'.activity = ledger.activity
        BY <3>1 DEF LedgerTyped, Ledger
      <3>3. UNCHANGED line /\ at = "start"
        BY <1>17, <2>2 DEF CancelDecides
      <3>4. StopOvertaken' /\ TimerBehind'
        BY <2>1, <3>3 DEF StopOvertaken, TimerBehind, Coming
      <3>5. BusyComes'
        BY <2>1, <3>2, <3>3 DEF BusyComes, Coming, Unbegun
      <3> QED
        BY <3>4, <3>5
    <2>3. CASE ledger.cycle = 0
      BY <1>17, <2>1, <2>3, BusyPops, GivesWay DEF CancelDecides
    <2> QED
      BY <2>2, <2>3
  <1>18. CASE ShutsDown
    <2>1. UNCHANGED <<line, at, draft, ledger, last>> /\ timer' = 0
      BY <1>18 DEF ShutsDown
    <2> QED
      BY <2>1 DEF StopOvertaken, BusyComes, TimerBehind, Coming, Unbegun
  <1>19. CASE Restart
    <2>1. line' = << >> /\ timer' = 0 /\ at' = "start"
      BY <1>19 DEF Restart, Over
    <2>2. last' = "busy" => last = "busy" /\ \A i \in DOMAIN line : line[i].op \notin Busy
      BY <1>19 DEF Restart, Cancels
    <2>3. ledger' = ledger \/ (at = "saving" /\ ledger' = draft)
      BY <1>19, RestartSaves
    <2> QED
      BY <2>1, <2>2, <2>3 DEF StopOvertaken, BusyComes, TimerBehind, Coming
  <1>20. CASE Restores
    <2>1. Popped
      BY <1>20, GivesWay DEF Restores
    <2>2. CASE Schedule(ledger.cycle) /\ ledger.activity = "idle"
      <3>1. /\ last' = "busy" => last = "busy"
            /\ last' = "busy" =>
                 \A i \in DOMAIN line : line[i].op = "emit" => line[i].cycle # timer'
        BY <2>2 DEF Schedule
      <3>2. ledger' = ledger /\ line # << >> /\ Head(line).op = "restore"
        BY <1>20 DEF Restores
      <3>3. StopOvertaken' /\ BusyComes' /\ (last' = "busy" => TimerBehind')
        BY <2>1, <2>2, <3>1, <3>2, BusyPops
      <3> QED
        BY <3>3 DEF TimerBehind
    <2>3. CASE KeepTimer /\ UNCHANGED last
      BY <1>20, <2>1, <2>3, BusyPops DEF Restores
    <2> QED
      BY <1>20, <2>2, <2>3 DEF Restores
  <1>21. CASE TaskFails
    <2>1. Popped
      BY <1>21, GivesWay DEF TaskFails
    <2>2. timer' \in {0, timer} /\ UNCHANGED ledger /\ line # << >>
      BY <1>21 DEF TaskFails
    <2>3. last' = IF Cancels(Head(line).op) THEN "lost" ELSE last
      BY <1>21 DEF TaskFails
    <2> QED
      BY <2>1, <2>2, <2>3, BusyPops DEF Cancels
  <1> QED
    BY <1>1, <1>2, <1>3, <1>4, <1>5, <1>6, <1>7, <1>8, <1>9, <1>10, <1>11, <1>12,
       <1>13, <1>14, <1>15, <1>16, <1>17, <1>18, <1>19, <1>20, <1>21, StepKinds

\* A notice is mailed of a cycle that is still the timer's, by a firing that
\* heads the line: no sign of work is in front of it, so none has come.
LEMMA NoticeIsTrue ==
  ASSUME CoreTyped, NoticeInv, BusyInv, [Next]_vars
  PROVE  notices' # notices => last # "busy" /\ active /\ ~off
  <1> USE DEF CoreTyped, clock, memory, idling
  <1>1. SUFFICES ASSUME notices' # notices PROVE last # "busy" /\ active /\ ~off
    OBVIOUS
  <1>2. NoticeMailed
    BY <1>1, StepKinds
       DEF Aside, Joins, Reports, Leaves, Files, Filed, RecordDecides,
           RecordSaved, TimerFires, EmitStops, EmitProbes, EmitMarks,
           EmitSaved, NoParent, SessionStops, CancelDecides, ShutsDown,
           Restart, Restores, TaskFails
  <1>3. /\ line # << >> /\ Head(line).op = "emit" /\ at = "calling"
        /\ timer = MyCycle /\ ~off
    BY <1>2 DEF NoticeMailed, Turn, Current
  <1>4. 1 \in DOMAIN line /\ Head(line) = line[1] /\ DOMAIN line \subseteq Nat \ {0}
    BY <1>3, TurnFacts DEF LineTyped
  <1>5. timer # 0 /\ active
    BY <1>3, <1>4 DEF NoticeInv, CyclesKnown, Emitting, Turn, MyCycle
  <1>6. last # "busy"
    BY <1>3, <1>4, <1>5 DEF BusyInv, TimerBehind, MyCycle
  <1> QED
    BY <1>3, <1>5, <1>6

\* In the beginning there is nothing in the line, and no cycle.
LEMMA Beginning ==
  ASSUME Init
  PROVE  CoreTyped /\ NoticeInv /\ BusyInv
  <1>1. PICK past \in {"unknown", "busy"} : ledger = [Empty EXCEPT !.activity = past]
    BY DEF Init
  <1>2. ledger \in Ledger /\ ledger.cycle = 0 /\ ledger.activity # "idle"
    BY <1>1, LedgerFields DEF Ledger, Empty
  <1>3. draft = Empty /\ line = << >> /\ at = "start"
    BY DEF Init
  <1>4. timer = 0 /\ ticking = FALSE /\ cycles = 0 /\ notices = << >>
    BY DEF Init
  <1>5. line \in Seq(Task) /\ DOMAIN line = {} /\ notices \in Seq(Nat) /\ DOMAIN notices = {}
    BY <1>3, <1>4
  <1>6. CoreTyped
    BY <1>2, <1>3, <1>4, <1>5, LedgerFields
       DEF CoreTyped, LineTyped, Addressed, LedgerTyped, TimerTyped
  <1>7. NoticeInv
    BY <1>2, <1>3, <1>4, <1>5
       DEF NoticeInv, CyclesKnown, MarkedFirst, Emitting, NoticedOnce, Noticed, Turn
  <1>8. BusyInv
    BY <1>2, <1>3, <1>4, <1>5
       DEF BusyInv, StopOvertaken, BusyComes, TimerBehind
  <1> QED
    BY <1>6, <1>7, <1>8

\* Of one idle cycle a parent is told once, whatever restarts in between: the
\* mark is saved before the notice is mailed, and emitIdle stops at a mark.
THEOREM OneNoticePerCycle == Spec => []NoticedOnce
  <1>1. Init => CoreTyped /\ NoticeInv
    BY Beginning
  <1>2. CoreTyped /\ NoticeInv /\ [Next]_vars => (CoreTyped /\ NoticeInv)'
    BY CoreStep, NoticeStep
  <1>3. CoreTyped /\ NoticeInv => NoticedOnce
    BY DEF NoticeInv
  <1> QED
    BY <1>1, <1>2, <1>3, PTL DEF Spec

\* A parent is told that a session is idle only while it is.
THEOREM NoticesTrue == Spec => NoticeTrue
  <1> DEFINE Inv == CoreTyped /\ NoticeInv /\ BusyInv
  <1>1. Init => Inv
    BY Beginning
  <1>2. Inv /\ [Next]_vars => Inv'
    BY CoreStep, NoticeStep, BusyStep
  <1>3. Inv /\ [Next]_vars => [notices' # notices => last # "busy" /\ active /\ ~off]_vars
    BY NoticeIsTrue
  <1> QED
    BY <1>1, <1>2, <1>3, PTL DEF Spec, NoticeTrue

-----------------------------------------------------------------------------
(* A request is resolved once. *)

\* What a step makes of the line, the ledger and what is being saved.
LEMMA Shapes ==
  ASSUME CoreTyped, [Next]_vars
  PROVE  /\ \/ ledger' = ledger
            \/ at = "saving" /\ ledger' = draft
         /\ \/ line' = line /\ (at' = "start" => at = "start")
            \/ \E t \in Task :
                 /\ Grown(t)
                 /\ t.op \in {"ask", "seen", "done"} => t.q \in Hooks
                 /\ t.op = "request" => t.q \in Questions \ Hooks /\ Ask(t.q)
            \/ line # << >> /\ Popped
            \/ line' = << >> /\ at' = "start"
         /\ at' = "saving" =>
              \/ at = "saving" /\ UNCHANGED <<ledger, draft, live>>
              \/ RecordDecides
              \/ /\ line # << >> /\ Head(line).op \notin Records /\ at # "saving"
                 /\ Head(line).op = "answer" => AnswerDecides
                 /\ line' = line /\ ledger' = ledger /\ Keeps(ledger, draft')
  <1> USE RecordNames DEF CoreTyped, LineTyped, memory, idling
  <1>1. CASE Aside \/ ShutsDown
    BY <1>1 DEF Aside, ShutsDown
  <1>2. CASE Joins
    BY <1>2 DEF Joins, Grown
  <1>3. CASE Reports
    BY <1>3 DEF Reports, Grown
  <1>4. CASE Leaves \/ Filed
    BY <1>4 DEF Leaves, Filed, Popped
  <1>5. CASE Files
    BY <1>5 DEF Files
  <1>6. CASE RecordDecides
    BY <1>6 DEF RecordDecides
  <1>7. CASE RecordSaved
    <2>1. Popped
      BY <1>7, Woken DEF RecordSaved, Parked, Turn
    <2> QED
      BY <1>7, <2>1 DEF RecordSaved, Turn, Popped
  <1>8. CASE TimerFires
    <2> DEFINE t == [op |-> "emit", q |-> "none", cycle |-> timer]
    <2>1. t \in Task /\ t.op = "emit"
      BY DEF Task, TimerTyped
    <2>2. Grown(t) /\ UNCHANGED ledger
      BY <1>8, <2>1, Grows DEF TimerFires
    <2> HIDE DEF t
    <2> QED
      BY <2>1, <2>2 DEF Grown
  <1>9. CASE EmitStops \/ NoticeMailed \/ NoParent \/ Restores
    BY <1>9, GivesWay DEF EmitStops, NoticeMailed, NoParent, Restores, Turn, Popped
  <1>10. CASE EmitProbes
    BY <1>10 DEF EmitProbes
  <1>11. CASE EmitMarks
    <2>1. draft'.how = ledger.how
      BY <1>11 DEF EmitMarks, LedgerTyped, Ledger
    <2> QED
      BY <1>11, <2>1 DEF EmitMarks, Turn, Keeps
  <1>12. CASE EmitSaved
    <2>1. CASE GiveWay
      BY <1>12, <2>1, GivesWay DEF EmitSaved, Turn, Popped
    <2>2. CASE ~GiveWay
      BY <1>12, <2>2 DEF EmitSaved
    <2> QED
      BY <2>1, <2>2
  <1>13. CASE SessionStops
    <2>1. TaskOf("cancel", "none") \in Task /\ TaskOf("cancel", "none").op = "cancel"
      BY TaskTypes
    <2>2. Grown(TaskOf("cancel", "none")) /\ UNCHANGED ledger
      BY <1>13, <2>1, Grows DEF SessionStops
    <2> QED
      BY <2>1, <2>2 DEF Grown
  <1>14. CASE CancelDecides
    <2>1. CASE ledger.cycle # 0
      <3>1. draft' = [ledger EXCEPT !.cycle = 0, !.told = FALSE]
        BY <1>14, <2>1 DEF CancelDecides
      <3>2. draft'.how = ledger.how
        BY <3>1 DEF LedgerTyped, Ledger
      <3> QED
        BY <1>14, <2>1, <3>2 DEF CancelDecides, Turn, Keeps
    <2>2. CASE ledger.cycle = 0
      BY <1>14, <2>2, GivesWay DEF CancelDecides, Turn, Popped
    <2> QED
      BY <2>1, <2>2
  <1>15. CASE Restart
    BY <1>15, RestartSaves DEF Restart, Over
  <1>16. CASE TaskFails
    BY <1>16, GivesWay DEF TaskFails, Popped
  <1> QED
    BY <1>1, <1>2, <1>3, <1>4, <1>5, <1>6, <1>7, <1>8, <1>9, <1>10, <1>11, <1>12,
       <1>13, <1>14, <1>15, <1>16, StepKinds

ClientStates ==
  {"none", "asking", "retry", "between", "polling", "got", "gone", "killed"}

\* Who has asked, and who asks again.
AskersKnown ==
  /\ client \in [Questions -> ClientStates]
  /\ \A q \in Questions : client[q] = "retry" => q \in Hooks
  /\ \A i \in DOMAIN line : line[i].op \in {"ask", "seen", "done"} => line[i].q \in Hooks
  /\ \A i \in DOMAIN line : line[i].op = "request" =>
       line[i].q \in Questions \ Hooks /\ client[line[i].q] # "none"

\* How a step moves those who ask.
LEMMA Asking ==
  ASSUME CoreTyped, client \in [Questions -> ClientStates], [Next]_vars
  PROVE  /\ channel' = channel
         /\ client' \in [Questions -> ClientStates]
         /\ \A q \in Questions :
              /\ client[q] # "none" => client'[q] # "none"
              /\ client[q] = "none" => client'[q] = "none" \/ Ask(q)
              /\ Ask(q) => client'[q] # "none" /\ client[q] \in {"none", "retry"}
              /\ client'[q] = "retry" => q \in Hooks \/ client[q] = "retry"
  <1> DEFINE Asks ==
        /\ channel' = channel
        /\ client' \in [Questions -> ClientStates]
        /\ \A q \in Questions :
             /\ client[q] # "none" => client'[q] # "none"
             /\ client[q] = "none" => client'[q] = "none" \/ Ask(q)
             /\ client'[q] = "retry" => q \in Hooks \/ client[q] = "retry"
  <1>a. ASSUME NEW q \in Questions, Ask(q)
        PROVE  client'[q] # "none" /\ client[q] \in {"none", "retry"}
    BY <1>a DEF Ask, ClientStates
  <1>m. ASSUME channel' = channel, client' \in [Questions -> ClientStates],
               \A q \in Questions :
                 /\ client[q] # "none" => client'[q] # "none"
                 /\ client[q] = "none" => client'[q] = "none" \/ Ask(q)
                 /\ client'[q] = "retry" => q \in Hooks \/ client[q] = "retry"
        PROVE  Asks
    BY <1>m
  <1> HIDE DEF Asks
  <1>n. client' = client /\ channel' = channel => Asks
    BY <1>m
  <1>o. ASSUME NEW q \in Questions, NEW s \in ClientStates \ {"none", "retry"},
               client' = [client EXCEPT ![q] = s], client[q] # "none" \/ Ask(q),
               channel' = channel
        PROVE  Asks
    BY <1>m, <1>o DEF ClientStates
  <1> USE DEF counts
  <1>1. ASSUME NEW op, Signal(op) PROVE Asks
    BY <1>1, <1>n DEF Signal, Event
  <1>2. ASSUME NEW q \in Questions, Ask(q) PROVE Asks
    <2>1. channel' = channel /\ client' = [client EXCEPT ![q] = "asking"]
      BY <1>2 DEF Ask, Event
    <2> QED
      BY <1>2, <2>1, <1>o DEF ClientStates
  <1>3. ASSUME NEW q \in Questions, NEW op, HookReports(op, q) \/ Command(op, q) PROVE Asks
    BY <1>3, <1>n DEF HookReports, Command, Event
  <1>4. ASSUME NEW q \in Questions, MailAnswer(q) \/ Deadline(q) \/ Forgotten(q) \/ Closed(q)
        PROVE  Asks
    BY <1>4, <1>n DEF MailAnswer, Deadline, Forgotten, Closed, Fault
  <1>5. ASSUME NEW q \in Questions, Poll(q) \/ GivesUp(q) \/ Killed(q)
        PROVE  Asks
    <2>1. channel' = channel /\ client[q] # "none"
      BY <1>5 DEF Poll, GivesUp, Killed, Fault
    <2>2. PICK s \in {"polling", "gone", "killed"} : client' = [client EXCEPT ![q] = s]
      BY <1>5 DEF Poll, GivesUp, Killed
    <2> QED
      BY <2>1, <2>2, <1>o DEF ClientStates
  <1>6. ASSUME RecordDecides \/ AnswerDecides \/ AnswerSaved \/ Refused
               \/ DismissDecides \/ DismissSaved \/ ReadParks
        PROVE  Asks
    <2>1. client' = client /\ channel' = channel
      BY <1>6, Zenon DEF RecordDecides, AnswerDecides, AnswerSaved, Refused,
                         DismissDecides, DismissSaved, ReadParks
    <2> QED
      BY <2>1, <1>n
  <1>7. ASSUME RecordSaved \/ TaskFails
        PROVE  Asks
    <2>1. channel' = channel
      BY <1>7 DEF RecordSaved, TaskFails, Fault
    <2>2. \/ client' = client
          \/ /\ client[Mine] = "asking"
             /\ \/ client' = [client EXCEPT ![Mine] = "gone"]
                \/ client' = [client EXCEPT ![Mine] = "between"]
      BY <1>7 DEF RecordSaved, TaskFails
    <2> QED
      BY <2>1, <2>2, <1>m, <1>n DEF ClientStates
  <1>8. ASSUME ReadReturns \/ ReadFails
        PROVE  Asks
    <2>1. channel' = channel
      BY <1>8 DEF ReadReturns, ReadFails, Fault
    <2>2. \E s \in {"got", "between", "gone"} : Returns(Mine, s)
      BY <1>8, Zenon DEF ReadReturns, ReadFails
    <2>3. \/ client' = client
          \/ /\ client[Mine] = "polling"
             /\ \E s \in {"got", "between", "gone"} : client' = [client EXCEPT ![Mine] = s]
      BY <2>2 DEF Returns
    <2> QED
      BY <2>1, <2>3, <1>m, <1>n DEF ClientStates
  <1>9. ASSUME EmitStops \/ EmitProbes \/ EmitMarks \/ EmitSaved \/ NoticeMailed
               \/ NoParent \/ CancelDecides \/ CancelSaved \/ Restores
        PROVE  Asks
    <2>1. client' = client /\ channel' = channel
      BY <1>9, Zenon DEF EmitStops, EmitProbes, EmitMarks, EmitSaved, NoticeMailed,
                         NoParent, CancelDecides, CancelSaved, Restores
    <2> QED
      BY <2>1, <1>n
  <1>10. ASSUME TimerFires \/ SessionStops \/ ShutsDown \/ Restore
        PROVE  Asks
    <2>1. client' = client /\ channel' = channel
      BY <1>10 DEF TimerFires, SessionStops, ShutsDown, Restore, Fault
    <2> QED
      BY <2>1, <1>n
  <1>11. ASSUME Restart
        PROVE  Asks
    <2>1. channel' = channel
      BY <1>11 DEF Restart
    <2>2. client' = [q \in Questions |->
                       CASE client[q] = "polling" -> "between"
                         [] client[q] = "asking" -> IF q \in Hooks THEN "retry" ELSE "gone"
                         [] OTHER -> client[q]]
      BY <1>11, Zenon DEF Restart
    <2> QED
      BY <2>1, <2>2, <1>m DEF ClientStates
  <1>13. ASSUME UNCHANGED vars
        PROVE  Asks
    BY <1>13, <1>n DEF vars
  <1>14. ASSUME \E q \in Questions :
               \/ Ask(q) \/ \E op \in {"seen", "done"} : HookReports(op, q)
               \/ \E op \in {"answer", "dismiss", "resolve"} : Command(op, q)
               \/ MailAnswer(q) \/ Poll(q) \/ Deadline(q) \/ Forgotten(q)
               \/ GivesUp(q) \/ Killed(q) \/ Closed(q)
        PROVE  Asks
    BY <1>14, <1>2, <1>3, <1>4, <1>5
  <1>15. Asks
    BY <1>1, <1>6, <1>7, <1>8, <1>9, <1>10, <1>11, <1>13, <1>14 DEF Next, Tasks
  <1> QED
    BY <1>a, <1>15 DEF Asks

\* Only those who asked have a request in the line.
LEMMA AskersStep ==
  CoreTyped /\ AskersKnown /\ [Next]_vars => AskersKnown'
  <1> SUFFICES ASSUME CoreTyped, AskersKnown, [Next]_vars PROVE AskersKnown'
    OBVIOUS
  <1>1. /\ channel' = channel
        /\ client' \in [Questions -> ClientStates]
        /\ \A q \in Questions :
             /\ client[q] # "none" => client'[q] # "none"
             /\ client[q] = "none" => client'[q] = "none" \/ Ask(q)
             /\ Ask(q) => client'[q] # "none" /\ client[q] \in {"none", "retry"}
             /\ client'[q] = "retry" => q \in Hooks \/ client[q] = "retry"
    BY Asking DEF AskersKnown
  <1>2. Hooks' = Hooks /\ Hooks \subseteq Questions
    BY <1>1 DEF Hooks
  <1>3. \/ line' = line
        \/ \E t \in Task :
             /\ Grown(t)
             /\ t.op \in {"ask", "seen", "done"} => t.q \in Hooks
             /\ t.op = "request" => t.q \in Questions \ Hooks /\ Ask(t.q)
        \/ line # << >> /\ Popped
        \/ line' = << >>
    BY Shapes
  <1> DEFINE From(i) ==
        \/ line'[i].op = "read"
        \/ \E j \in DOMAIN line : line'[i] = line[j]
        \/ /\ line'[i].op \in {"ask", "seen", "done"} => line'[i].q \in Hooks
           /\ line'[i].op = "request" => line'[i].q \in Questions \ Hooks /\ Ask(line'[i].q)
  <1>4. \A i \in DOMAIN line' : From(i)
    <2>1. CASE line' = line
      BY <2>1
    <2>2. CASE line # << >> /\ Popped
      BY <2>2 DEF Popped
    <2>3. CASE line' = << >>
      BY <2>3
    <2>4. ASSUME NEW t \in Task, Grown(t),
                 t.op \in {"ask", "seen", "done"} => t.q \in Hooks,
                 t.op = "request" => t.q \in Questions \ Hooks /\ Ask(t.q)
          PROVE  \A i \in DOMAIN line' : From(i)
      <3>1. \A i \in DOMAIN line' : i \in DOMAIN line \/ i = Len(line) + 1
        BY <2>4 DEF Grown
      <3>2. \A i \in DOMAIN line : line'[i] = line[i]
        BY <2>4 DEF Grown
      <3>3. line'[Len(line) + 1] = t
        BY <2>4 DEF Grown
      <3> QED
        BY <2>4, <3>1, <3>2, <3>3
    <2> HIDE DEF From
    <2> QED
      BY <1>3, <2>1, <2>2, <2>3, <2>4
  <1>5. ASSUME NEW i \in DOMAIN line', line'[i].op \in {"ask", "seen", "done"}
        PROVE  line'[i].q \in Hooks
    BY <1>4, <1>5 DEF AskersKnown
  <1>6. ASSUME NEW i \in DOMAIN line', line'[i].op = "request"
        PROVE  line'[i].q \in Questions \ Hooks /\ client'[line'[i].q] # "none"
    BY <1>1, <1>4, <1>6 DEF AskersKnown
  <1> QED
    BY <1>1, <1>2, <1>5, <1>6 DEF AskersKnown

\* A request that is asked for, and not recorded yet.
Requested(i) == i \in DOMAIN line /\ line[i].op = "request"
Awaited(q) == client[q] = "none" \/ \E i \in DOMAIN line : Requested(i) /\ Unbegun(i) /\ line[i].q = q

\* But for a hook nobody asks for the same thing twice: until its request is
\* recorded the ledger has not heard of a question.
AskedOnce ==
  /\ \A i, j \in DOMAIN line : Requested(i) /\ Requested(j) /\ line[i].q = line[j].q => i = j
  /\ \A q \in Questions \ Hooks :
       Awaited(q) => ledger.how[q] = "absent" /\ (at = "saving" => draft.how[q] = "absent")

\* What is being saved opens nothing again, and resolves nothing twice.
DraftKeeps ==
  at = "saving" =>
    \A q \in Questions :
      ledger.how[q] \in Resolutions => draft.how[q] \in {ledger.how[q], "absent"}

OnceInv == AskersKnown /\ AskedOnce /\ DraftKeeps

\* A request leaves the line when it is recorded, and joins it once.
LEMMA OnceStep ==
  CoreTyped /\ OnceInv /\ [Next]_vars => OnceInv'
  <1> SUFFICES ASSUME CoreTyped, OnceInv, [Next]_vars PROVE OnceInv'
    OBVIOUS
  <1>a. /\ AskersKnown /\ AskersKnown' /\ CoreTyped'
        /\ line \in Seq(Task) /\ line' \in Seq(Task)
    BY AskersStep, CoreStep DEF OnceInv, CoreTyped, LineTyped
  <1>b. /\ channel' = channel
        /\ \A q \in Questions :
             /\ client[q] # "none" => client'[q] # "none"
             /\ Ask(q) => client'[q] # "none" /\ client[q] \in {"none", "retry"}
    BY <1>a, Asking DEF AskersKnown
  <1>c. Hooks' = Hooks /\ Hooks \subseteq Questions
    BY <1>b DEF Hooks
  <1>d. /\ \/ ledger' = ledger
           \/ at = "saving" /\ ledger' = draft
        /\ at' = "saving" =>
             \/ at = "saving" /\ UNCHANGED <<ledger, draft>>
             \/ RecordDecides
             \/ /\ line # << >> /\ Head(line).op \notin Records /\ at # "saving"
                /\ line' = line /\ ledger' = ledger /\ Keeps(ledger, draft')
    BY Shapes
  <1>e. line # << >> => 1 \in DOMAIN line /\ Head(line) = line[1]
    BY <1>a, TurnFacts
  <1> DEFINE Same == line' = line /\ (at' = "start" => at = "start")
  <1>g. ASSUME NEW t \in Task, Grown(t),
               t.op = "request" => t.q \in Questions \ Hooks /\ Ask(t.q)
        PROVE  /\ \A i, j \in DOMAIN line' :
                    Requested(i)' /\ Requested(j)' /\ line'[i].q = line'[j].q => i = j
               /\ \A q \in Questions \ Hooks : Awaited(q)' => Awaited(q)
    <2>1. PICK n : n = Len(line) + 1
      OBVIOUS
    <2>2. /\ n \in Nat /\ line'[n] = t /\ n \in DOMAIN line' /\ n \notin DOMAIN line
          /\ \A i \in DOMAIN line : i \in DOMAIN line' /\ line'[i] = line[i]
          /\ \A i \in DOMAIN line' : i \in DOMAIN line \/ i = n
          /\ line' # << >> /\ at' = at
          /\ line = << >> => n = 1
      BY <1>g, <2>1 DEF Grown
    <2>3. t.op = "request" => /\ client[t.q] = "none"
                              /\ \A i \in DOMAIN line : Requested(i) => line[i].q # t.q
      BY <1>a, <1>b, <1>g DEF AskersKnown, Requested
    <2>4. \A i \in DOMAIN line' : Requested(i)' /\ i # n => Requested(i)
      BY <2>2 DEF Requested
    <2>5. Requested(n)' => t.op = "request"
      BY <2>2 DEF Requested
    <2>6. \A i, j \in DOMAIN line' :
            Requested(i)' /\ Requested(j)' /\ line'[i].q = line'[j].q => i = j
      BY <2>2, <2>3, <2>4, <2>5 DEF OnceInv, AskedOnce
    <2>7. ASSUME NEW q \in Questions \ Hooks, Awaited(q)' PROVE Awaited(q)
      <3>1. CASE client'[q] = "none"
        BY <1>b, <3>1 DEF Awaited
      <3>2. CASE \E i \in DOMAIN line' : Requested(i)' /\ Unbegun(i)' /\ line'[i].q = q
        <4>1. PICK i \in DOMAIN line' : Requested(i)' /\ Unbegun(i)' /\ line'[i].q = q
          BY <3>2
        <4>2. CASE i = n
          BY <2>2, <2>3, <2>5, <4>1, <4>2 DEF Awaited
        <4>3. CASE i # n
          BY <2>2, <2>4, <4>1, <4>3 DEF Awaited, Unbegun
        <4> QED
          BY <4>2, <4>3
      <3> QED
        BY <2>7, <3>1, <3>2 DEF Awaited
    <2> QED
      BY <2>6, <2>7
  <1>p. ASSUME line # << >>, Popped
        PROVE  /\ \A i, j \in DOMAIN line' :
                    Requested(i)' /\ Requested(j)' /\ line'[i].q = line'[j].q => i = j
               /\ \A q \in Questions \ Hooks : Awaited(q)' => Awaited(q)
    <2>1. \A i \in DOMAIN line' :
            /\ i \in Nat \ {0}
            /\ Requested(i)' => /\ Requested(i + 1) /\ line'[i] = line[i + 1]
                                /\ Unbegun(i + 1)
      BY <1>p DEF Popped, Requested, Unbegun
    <2>2. \A i, j \in DOMAIN line' :
            Requested(i)' /\ Requested(j)' /\ line'[i].q = line'[j].q => i = j
      <3>1. SUFFICES ASSUME NEW i \in DOMAIN line', NEW j \in DOMAIN line',
                            Requested(i)', Requested(j)', line'[i].q = line'[j].q
                     PROVE  i = j
        OBVIOUS
      <3>2. i + 1 = j + 1
        BY <2>1, <3>1 DEF OnceInv, AskedOnce, Requested
      <3> QED
        BY <2>1, <3>2
    <2>3. \A q \in Questions \ Hooks : Awaited(q)' => Awaited(q)
      BY <1>b, <2>1 DEF Awaited, Requested
    <2> QED
      BY <2>2, <2>3
  <1>s. ASSUME Same
        PROVE  /\ \A i, j \in DOMAIN line' :
                    Requested(i)' /\ Requested(j)' /\ line'[i].q = line'[j].q => i = j
               /\ \A q \in Questions \ Hooks : Awaited(q)' => Awaited(q)
    <2>1. \A i, j \in DOMAIN line' :
            Requested(i)' /\ Requested(j)' /\ line'[i].q = line'[j].q => i = j
      BY <1>s DEF OnceInv, AskedOnce, Requested
    <2>2. \A q \in Questions \ Hooks : Awaited(q)' => Awaited(q)
      BY <1>b, <1>s DEF Awaited, Requested, Unbegun
    <2> QED
      BY <2>1, <2>2
  <1>o. ASSUME line' = << >>
        PROVE  /\ \A i, j \in DOMAIN line' :
                    Requested(i)' /\ Requested(j)' /\ line'[i].q = line'[j].q => i = j
               /\ \A q \in Questions \ Hooks : Awaited(q)' => Awaited(q)
    BY <1>b, <1>o DEF Awaited
  <1>1. /\ \A i, j \in DOMAIN line' :
             Requested(i)' /\ Requested(j)' /\ line'[i].q = line'[j].q => i = j
        /\ \A q \in Questions \ Hooks : Awaited(q)' => Awaited(q)
    <2>1. \/ Same
          \/ \E t \in Task :
               /\ Grown(t)
               /\ t.op = "request" => t.q \in Questions \ Hooks /\ Ask(t.q)
          \/ line # << >> /\ Popped
          \/ line' = << >>
      BY Shapes
    <2> QED
      BY <1>g, <1>p, <1>s, <1>o, <2>1
  <1>2. ASSUME NEW q \in Questions \ Hooks, Awaited(q)'
        PROVE  ledger'.how[q] = "absent" /\ (at' = "saving" => draft'.how[q] = "absent")
    <2>1. Awaited(q) /\ ledger.how[q] = "absent" /\ (at = "saving" => draft.how[q] = "absent")
      BY <1>1, <1>2 DEF OnceInv, AskedOnce
    <2>2. ledger'.how[q] = "absent"
      BY <1>d, <2>1
    <2>3. CASE RecordDecides
      <3>1. /\ line # << >> /\ line' = line /\ at' = "saving"
            /\ draft'.how[q] = "absent"
                 \/ (q = Mine /\ Head(line).op \in {"ask", "seen", "request"})
        BY <2>1, <2>3, RecordDrafts DEF RecordDecides
      <3>2. CASE q = Mine /\ Head(line).op \in {"ask", "seen"}
        BY <1>a, <1>e, <3>1, <3>2 DEF AskersKnown, Mine
      <3>3. CASE q = Mine /\ Head(line).op = "request"
        <4>1. Requested(1) /\ line[1].q = q /\ client[q] # "none"
          BY <1>a, <1>e, <3>1, <3>3 DEF AskersKnown, Mine, Requested
        <4>2. PICK i \in DOMAIN line' : Requested(i)' /\ Unbegun(i)' /\ line'[i].q = q
          BY <1>2, <1>b, <4>1 DEF Awaited
        <4>3. i # 1 /\ Requested(i) /\ line[i].q = q
          BY <3>1, <4>2 DEF Unbegun, Requested
        <4> QED
          BY <4>1, <4>3 DEF OnceInv, AskedOnce, Requested
      <3> QED
        BY <2>2, <3>1, <3>2, <3>3
    <2>4. CASE ~RecordDecides
      BY <1>d, <2>1, <2>2, <2>4 DEF Keeps
    <2> QED
      BY <2>3, <2>4
  <1>3. DraftKeeps'
    <2>1. CASE RecordDecides
      <3>1. SUFFICES ASSUME NEW q \in Questions, ledger'.how[q] \in Resolutions
                     PROVE  draft'.how[q] \in {ledger'.how[q], "absent"}
        BY DEF DraftKeeps
      <3>2. ledger' = ledger /\ line # << >> /\ at = "start"
        BY <2>1 DEF RecordDecides, Turn
      <3>3. \/ draft'.how[q] \in {ledger.how[q], "absent"}
            \/ q = Mine /\ Head(line).op = "request"
            \/ q = Mine /\ Head(line).op \in {"ask", "seen"} /\ q \notin Hooks
        BY <2>1, <3>1, <3>2, RecordDrafts
      <3>4. CASE q = Mine /\ Head(line).op = "request"
        <4>1. q \in Questions \ Hooks /\ Requested(1) /\ line[1].q = q
          BY <1>a, <1>e, <3>2, <3>4 DEF AskersKnown, Mine, Requested
        <4>2. Awaited(q)
          BY <3>2, <4>1 DEF Awaited, Requested, Unbegun
        <4> QED
          BY <3>1, <3>2, <4>1, <4>2 DEF OnceInv, AskedOnce, Resolutions
      <3>5. CASE q = Mine /\ Head(line).op \in {"ask", "seen"} /\ q \notin Hooks
        BY <1>a, <1>e, <3>2, <3>5 DEF AskersKnown, Mine
      <3> QED
        BY <3>2, <3>3, <3>4, <3>5
    <2>2. CASE ~RecordDecides
      BY <1>d, <2>2 DEF OnceInv, DraftKeeps, Keeps, Resolutions
    <2> QED
      BY <2>1, <2>2
  <1> QED
    BY <1>a, <1>c, <1>1, <1>2, <1>3 DEF OnceInv, AskedOnce

\* A request is resolved once: no later answer, hook, prune or restart opens
\* it again or resolves it in another way.
THEOREM ResolvedOnceOnly == Spec => ResolvedOnce
  <1> DEFINE Inv == CoreTyped /\ OnceInv
  <1>1. Init => Inv
    <2> SUFFICES ASSUME Init PROVE OnceInv
      BY Beginning
    <2>1. line = << >> /\ DOMAIN line = {} /\ at = "start" /\ client = EachQuestion("none")
      BY DEF Init
    <2>2. PICK past \in {"unknown", "busy"} : ledger = [Empty EXCEPT !.activity = past]
      BY DEF Init
    <2>3. \A q \in Questions : ledger.how[q] = "absent"
      BY <2>2 DEF Empty, EachQuestion
    <2>4. AskersKnown
      BY <2>1 DEF AskersKnown, ClientStates, EachQuestion
    <2>5. AskedOnce /\ DraftKeeps
      BY <2>1, <2>3 DEF AskedOnce, DraftKeeps, Turn
    <2> QED
      BY <2>4, <2>5 DEF OnceInv
  <1>2. Inv /\ [Next]_vars => Inv'
    BY CoreStep, OnceStep
  <1>3. Inv /\ [Next]_vars =>
          [\A q \in Questions : ledger.how[q] \in Resolutions
             => ledger'.how[q] \in {ledger.how[q], "absent"}]_vars
    <2> SUFFICES ASSUME Inv, [Next]_vars, NEW q \in Questions, ledger.how[q] \in Resolutions
                 PROVE  ledger'.how[q] \in {ledger.how[q], "absent"}
      OBVIOUS
    <2>1. \/ ledger' = ledger
          \/ at = "saving" /\ ledger' = draft
      BY Shapes
    <2> QED
      BY <2>1 DEF OnceInv, DraftKeeps
  <1> QED
    BY <1>1, <1>2, <1>3, PTL DEF Spec, ResolvedOnce

-----------------------------------------------------------------------------
(* What the human is told is true. *)

\* Those whose request has been recorded, as far as they know.
Waited == {"between", "polling", "got", "gone", "killed"}

\* Nobody starts or stops polling: who waits waits on, or gives up.
WaitsOn ==
  \A q \in Questions : client[q] \in Waited =>
    client'[q] = client[q] \/ (client[q] = "between" /\ client'[q] = "gone")
Idles ==
  /\ UNCHANGED polls /\ WaitsOn
  /\ \/ line' = line
     \/ \E t \in Task : Grown(t) /\ t.op # "read"
     \/ line # << >> /\ Popped /\ Rereads({})
\* The parked polls are told to read again.
Wakes ==
  \E S \in SUBSET Parked :
    /\ line # << >> /\ Popped /\ Rereads(S)
    /\ poll' = [q \in Questions |-> IF q \in S THEN "again" ELSE poll[q]]
    /\ UNCHANGED <<due, aborted, recent>> /\ WaitsOn

\* Every step is of one of these kinds as far as the polls go.
LEMMA PollKinds ==
  ASSUME CoreTyped, client \in [Questions -> ClientStates], [Next]_vars
  PROVE  \/ Idles \/ Wakes
         \/ ReadReturns \/ ReadParks \/ ReadFails \/ Restart
         \/ \E q \in Questions :
              Poll(q) \/ Deadline(q) \/ Forgotten(q) \/ Killed(q) \/ Closed(q)
  <1> DEFINE Kind == \/ Idles \/ Wakes
                     \/ ReadReturns \/ ReadParks \/ ReadFails \/ Restart
                     \/ \E q \in Questions :
                          Poll(q) \/ Deadline(q) \/ Forgotten(q) \/ Killed(q) \/ Closed(q)
  <1> USE RecordNames DEF CoreTyped, LineTyped, memory
  <1>w. client' = client => WaitsOn
    BY DEF WaitsOn
  <1>t. ASSUME NEW op \in Records \cup {"cancel", "restore", "answer", "dismiss", "resolve"},
               NEW q \in Questions \cup {"none"}, Enqueue(TaskOf(op, q)),
               UNCHANGED polls, WaitsOn
        PROVE  Idles
    <2>1. TaskOf(op, q) \in Task /\ TaskOf(op, q).op # "read"
      BY <1>t, TaskTypes
    <2> QED
      BY <1>t, <2>1, Grows DEF Idles
  <1>v. ASSUME line # << >>, GiveWay, UNCHANGED polls, WaitsOn
        PROVE  Idles
    BY <1>v, GivesWay DEF Idles
  <1>l. ASSUME line' = line, UNCHANGED polls, WaitsOn PROVE Idles
    BY <1>l DEF Idles
  <1>1. ASSUME NEW op, Signal(op) PROVE Idles
    BY <1>1, <1>t, <1>w DEF Signal, Record
  <1>2. ASSUME NEW q \in Questions, Ask(q) PROVE Idles
    <2>1. WaitsOn
      BY <1>2 DEF Ask, WaitsOn, Waited, ClientStates
    <2>2. UNCHANGED polls /\ Enqueue(TaskOf(IF q \in Hooks THEN "ask" ELSE "request", q))
      BY <1>2, Zenon DEF Ask, Record
    <2> QED
      BY <1>t, <2>1, <2>2
  <1>3. ASSUME NEW q \in Questions, NEW op \in {"seen", "done"}, HookReports(op, q) PROVE Idles
    BY <1>3, <1>t, <1>w DEF HookReports, Record
  <1>4. ASSUME NEW q \in Questions, NEW op \in {"answer", "dismiss", "resolve"}, Command(op, q)
        PROVE  Idles
    BY <1>4, <1>t, <1>w DEF Command
  <1>5. ASSUME NEW q \in Questions, MailAnswer(q) \/ GivesUp(q) PROVE Idles
    <2>1. UNCHANGED polls /\ line' = line
      BY <1>5 DEF MailAnswer, GivesUp
    <2>2. WaitsOn
      BY <1>5, <1>w DEF MailAnswer, GivesUp, WaitsOn, Waited, ClientStates
    <2> QED
      BY <2>1, <2>2, <1>l
  <1>6. ASSUME RecordDecides \/ AnswerDecides \/ DismissDecides \/ EmitProbes \/ EmitMarks
        PROVE  Idles
    <2>1. UNCHANGED <<client, polls, line>>
      BY <1>6, Zenon DEF RecordDecides, AnswerDecides, DismissDecides, EmitProbes, EmitMarks
    <2> QED
      BY <2>1, <1>l, <1>w
  <1>7. ASSUME Refused \/ EmitStops \/ NoticeMailed \/ NoParent \/ CancelSaved \/ Restores
        PROVE  Idles
    <2>1. UNCHANGED <<client, polls>> /\ GiveWay /\ line # << >>
      BY <1>7, Zenon DEF Refused, EmitStops, NoticeMailed, NoParent, CancelSaved, Restores, Turn
    <2> QED
      BY <2>1, <1>v, <1>w
  <1>8. ASSUME EmitSaved \/ CancelDecides PROVE Idles
    <2>1. UNCHANGED <<client, polls>> /\ (GiveWay \/ line' = line) /\ line # << >>
      BY <1>8, Zenon DEF EmitSaved, CancelDecides, Turn
    <2> QED
      BY <2>1, <1>l, <1>v, <1>w
  <1>9. ASSUME TimerFires PROVE Idles
    <2> DEFINE t == [op |-> "emit", q |-> "none", cycle |-> timer]
    <2>1. t \in Task /\ t.op = "emit"
      BY DEF Task, TimerTyped
    <2>2. Grown(t) /\ UNCHANGED <<client, polls>>
      BY <1>9, <2>1, Grows DEF TimerFires
    <2> HIDE DEF t
    <2> QED
      BY <2>1, <2>2, <1>w DEF Idles
  <1>10. ASSUME SessionStops \/ Restore \/ ShutsDown PROVE Idles
    <2>1. UNCHANGED <<client, polls>>
      BY <1>10 DEF SessionStops, Restore, ShutsDown
    <2>2. \/ line' = line
          \/ Enqueue(TaskOf("cancel", "none"))
          \/ Enqueue(TaskOf("restore", "none"))
      BY <1>10 DEF SessionStops, Restore, ShutsDown
    <2> QED
      BY <2>1, <2>2, <1>l, <1>t, <1>w
  <1>11. ASSUME TaskFails PROVE Idles
    <2>1. /\ UNCHANGED polls /\ GiveWay /\ line # << >>
          /\ \/ client' = client
             \/ client[Mine] = "asking" /\ client' = [client EXCEPT ![Mine] = "gone"]
      BY <1>11 DEF TaskFails
    <2>2. WaitsOn
      BY <2>1 DEF WaitsOn, Waited, ClientStates
    <2> QED
      BY <2>1, <2>2, <1>v
  <1>12. ASSUME RecordSaved \/ AnswerSaved \/ DismissSaved PROVE Wakes
    <2>1. /\ line # << >>
          /\ \/ client' = client
             \/ client[Mine] = "asking" /\ client' = [client EXCEPT ![Mine] = "gone"]
             \/ client[Mine] = "asking" /\ client' = [client EXCEPT ![Mine] = "between"]
      BY <1>12 DEF RecordSaved, AnswerSaved, DismissSaved, Turn
    <2>2. WaitsOn
      BY <2>1 DEF WaitsOn, Waited, ClientStates
    <2>3. \E S \in SUBSET Parked : Wake(S)
      BY <1>12 DEF RecordSaved, AnswerSaved, DismissSaved
    <2>4. PICK S \in SUBSET Parked : Wake(S)
      BY <2>3
    <2>5. Popped /\ Rereads(S)
      BY <2>1, <2>4, Woken DEF Parked
    <2>6. poll' = [q \in Questions |-> IF q \in S THEN "again" ELSE poll[q]]
      BY <2>4 DEF Wake
    <2>7. UNCHANGED <<due, aborted, recent>>
      BY <2>4 DEF Wake
    <2> QED
      BY <2>1, <2>2, <2>5, <2>6, <2>7 DEF Wakes
  <1>13. ASSUME UNCHANGED vars PROVE Idles
    <2>1. UNCHANGED <<client, polls, line>>
      BY <1>13 DEF vars
    <2> QED
      BY <2>1, <1>l, <1>w
  <1>14. ASSUME \E q \in Questions :
                  \/ Ask(q) \/ \E op \in {"seen", "done"} : HookReports(op, q)
                  \/ \E op \in {"answer", "dismiss", "resolve"} : Command(op, q)
                  \/ MailAnswer(q) \/ Poll(q) \/ Deadline(q) \/ Forgotten(q)
                  \/ GivesUp(q) \/ Killed(q) \/ Closed(q)
         PROVE  Kind
    BY <1>14, <1>2, <1>3, <1>4, <1>5
  <1> HIDE DEF Kind
  <1>15. Idles \/ Wakes \/ ReadReturns \/ ReadParks \/ ReadFails \/ Restart => Kind
    BY DEF Kind
  <1>16. Kind
    BY <1>1, <1>6, <1>7, <1>8, <1>9, <1>10, <1>11, <1>12, <1>13, <1>14, <1>15 DEF Next, Tasks
  <1> QED
    BY <1>16 DEF Kind

PollStates == {"none", "first", "parked", "again"}

\* A poll that reads has one read in the line.
Reading(i) == i \in DOMAIN line /\ line[i].op = "read"
ReadsOnce ==
  /\ \A i \in DOMAIN line : Reading(i) => poll[line[i].q] \in {"first", "again"}
  /\ \A i, j \in DOMAIN line : Reading(i) /\ Reading(j) /\ line[i].q = line[j].q => i = j

\* Only who has asked polls, and only the dead hang up.
PollersKnown ==
  /\ poll \in [Questions -> PollStates] /\ aborted \subseteq Questions /\ recent \subseteq Questions
  /\ \A q \in Questions : poll[q] # "none" => client[q] \in {"polling", "killed"}
  /\ \A q \in recent : client[q] \in Waited
  /\ \A q \in aborted : client[q] = "killed"

\* Reads join the line for polls that have none in it.
LEMMA ReadsJoin ==
  ASSUME CoreTyped, ReadsOnce, NEW t \in Task, Grown(t),
         t.op = "read" => poll[t.q] \notin {"first", "again"}
  PROVE  /\ \A i \in DOMAIN line' : Reading(i)' =>
              \/ Reading(i) /\ line'[i] = line[i]
              \/ line'[i] = t /\ t.op = "read"
         /\ \A i, j \in DOMAIN line' :
              Reading(i)' /\ Reading(j)' /\ line'[i].q = line'[j].q => i = j
  <1>1. PICK n : n = Len(line) + 1
    OBVIOUS
  <1>2. /\ line'[n] = t
        /\ \A i \in DOMAIN line : line'[i] = line[i]
        /\ \A i \in DOMAIN line' : i \in DOMAIN line \/ i = n
    BY <1>1 DEF Grown
  <1>3. \A i \in DOMAIN line' : Reading(i)' =>
          \/ Reading(i) /\ line'[i] = line[i]
          \/ i = n /\ line'[i] = t /\ t.op = "read"
    BY <1>2 DEF Reading
  <1>4. ASSUME NEW i \in DOMAIN line', NEW j \in DOMAIN line',
               Reading(i)', Reading(j)', line'[i].q = line'[j].q
        PROVE  i = j
    <2>1. Reading(i) /\ Reading(j) => i = j
      BY <1>2, <1>4 DEF ReadsOnce, Reading
    <2>2. \A k \in DOMAIN line : Reading(k) /\ t.op = "read" => line[k].q # t.q
      BY DEF ReadsOnce
    <2> QED
      BY <1>3, <1>4, <2>1, <2>2 DEF Reading
  <1> QED
    BY <1>3, <1>4

\* The head leaves: if it was a read, it was the only one of its poll.
LEMMA ReadsPop ==
  ASSUME CoreTyped, ReadsOnce, line # << >>, NEW S, Popped, Rereads(S),
         \A q \in S : poll[q] \notin {"first", "again"}
  PROVE  /\ \A i \in DOMAIN line' : Reading(i)' =>
              \/ line'[i].q \in S
              \/ /\ \E j \in DOMAIN line : Reading(j) /\ line'[i] = line[j]
                 /\ Head(line).op = "read" => line'[i].q # Mine
         /\ \A i, j \in DOMAIN line' :
              Reading(i)' /\ Reading(j)' /\ line'[i].q = line'[j].q => i = j
  <1>1. 1 \in DOMAIN line /\ Head(line) = line[1] /\ DOMAIN line' \subseteq Nat \ {0}
    BY TurnFacts DEF CoreTyped, LineTyped, Popped
  <1>2. ASSUME NEW i \in DOMAIN line', Reading(i)'
        PROVE  \/ i + 1 \notin DOMAIN line /\ line'[i].q \in S
               \/ Reading(i + 1) /\ line'[i] = line[i + 1] /\ i + 1 # 1
    BY <1>1, <1>2 DEF Reading, Popped, Rereads
  <1>3. ASSUME NEW i \in DOMAIN line', Reading(i)'
        PROVE  \/ line'[i].q \in S
               \/ /\ \E j \in DOMAIN line : Reading(j) /\ line'[i] = line[j]
                  /\ Head(line).op = "read" => line'[i].q # Mine
    BY <1>1, <1>2, <1>3 DEF Reading, ReadsOnce, Mine
  <1>4. ASSUME NEW i \in DOMAIN line', NEW j \in DOMAIN line',
               Reading(i)', Reading(j)', line'[i].q = line'[j].q
        PROVE  i = j
    <2>1. CASE i + 1 \in DOMAIN line /\ j + 1 \in DOMAIN line
      <3>1. Reading(i + 1) /\ Reading(j + 1) /\ line[i + 1].q = line[j + 1].q
        BY <1>2, <1>4, <2>1 DEF Reading
      <3>2. i + 1 = j + 1
        BY <3>1 DEF ReadsOnce, Reading
      <3> QED
        BY <1>1, <3>2
    <2>2. CASE i + 1 \notin DOMAIN line /\ j + 1 \notin DOMAIN line
      BY <1>4, <2>2 DEF Rereads
    <2>3. CASE i + 1 \in DOMAIN line /\ j + 1 \notin DOMAIN line
      BY <1>2, <1>4, <2>3 DEF Reading, ReadsOnce
    <2>4. CASE i + 1 \notin DOMAIN line /\ j + 1 \in DOMAIN line
      BY <1>2, <1>4, <2>4 DEF Reading, ReadsOnce
    <2> QED
      BY <2>1, <2>2, <2>3, <2>4
  <1> QED
    BY <1>3, <1>4

\* Who polls has asked, and polls once at a time.
LEMMA PollStep ==
  CoreTyped /\ AskersKnown /\ ReadsOnce /\ PollersKnown /\ [Next]_vars
    => (ReadsOnce /\ PollersKnown)'
  <1> SUFFICES ASSUME CoreTyped, AskersKnown, ReadsOnce, PollersKnown, [Next]_vars
               PROVE  (ReadsOnce /\ PollersKnown)'
    OBVIOUS
  <1>a. /\ client \in [Questions -> ClientStates]
        /\ client' \in [Questions -> ClientStates]
    BY Asking DEF AskersKnown
  <1>b. /\ line # << >> => 1 \in DOMAIN line /\ Head(line) = line[1]
        /\ \A i \in DOMAIN line : Reading(i) => line[i].q \in Questions
        /\ Turn({"read"}) => Mine \in Questions /\ poll[Mine] \in {"first", "again"}
    BY TurnFacts DEF CoreTyped, LineTyped, Addressed, Turn, Mine, Reading, ReadsOnce
  <1>e. line' = line => \A i \in DOMAIN line' : Reading(i)' => Reading(i) /\ line'[i] = line[i]
    BY DEF Reading
  <1>f. line' = line => \A i, j \in DOMAIN line' :
                          Reading(i)' /\ Reading(j)' /\ line'[i].q = line'[j].q => i = j
    BY DEF Reading, ReadsOnce
  <1> USE DEF PollStates
  <1>1. CASE Idles
    <2>1. /\ \A i \in DOMAIN line' : Reading(i)' =>
               \E j \in DOMAIN line : Reading(j) /\ line'[i] = line[j]
          /\ \A i, j \in DOMAIN line' :
               Reading(i)' /\ Reading(j)' /\ line'[i].q = line'[j].q => i = j
      <3>1. CASE line' = line
        BY <3>1, <1>e, <1>f DEF Reading
      <3>2. CASE \E t \in Task : Grown(t) /\ t.op # "read"
        BY <3>2, ReadsJoin DEF Reading
      <3>3. CASE line # << >> /\ Popped /\ Rereads({})
        BY <3>3, ReadsPop
      <3> QED
        BY <1>1, <3>1, <3>2, <3>3 DEF Idles
    <2>2. poll' = poll /\ aborted' = aborted /\ recent' = recent /\ WaitsOn
      BY <1>1 DEF Idles, polls
    <2>3. ReadsOnce'
      BY <2>1, <2>2 DEF ReadsOnce
    <2>4. PollersKnown'
      BY <2>2 DEF PollersKnown, WaitsOn, Waited
    <2> QED
      BY <2>3, <2>4
  <1>2. CASE Wakes
    <2>1. PICK S \in SUBSET Parked :
            /\ line # << >> /\ Popped /\ Rereads(S)
            /\ poll' = [q \in Questions |-> IF q \in S THEN "again" ELSE poll[q]]
            /\ UNCHANGED <<due, aborted, recent>> /\ WaitsOn
      BY <1>2 DEF Wakes
    <2>2. \A q \in S : q \in Questions /\ poll[q] = "parked"
      BY DEF Parked
    <2>3. /\ \A i \in DOMAIN line' : Reading(i)' =>
               \/ line'[i].q \in S
               \/ \E j \in DOMAIN line : Reading(j) /\ line'[i] = line[j]
          /\ \A i, j \in DOMAIN line' :
               Reading(i)' /\ Reading(j)' /\ line'[i].q = line'[j].q => i = j
      BY <2>1, <2>2, ReadsPop
    <2>4. ReadsOnce'
      BY <1>b, <2>1, <2>2, <2>3 DEF ReadsOnce
    <2>5. PollersKnown'
      BY <2>1, <2>2 DEF PollersKnown, WaitsOn, Waited
    <2> QED
      BY <2>4, <2>5
  <1>3. ASSUME Turn({"read"}), GiveWay, PollEnds(Mine),
               \/ client' = client
               \/ /\ client[Mine] = "polling"
                  /\ \E s \in {"got", "between", "gone"} : client' = [client EXCEPT ![Mine] = s]
        PROVE  (ReadsOnce /\ PollersKnown)'
    <2>1. /\ poll' = [poll EXCEPT ![Mine] = "none"] /\ aborted' = aborted \ {Mine}
          /\ recent' \subseteq recent \cup {Mine}
      BY <1>3 DEF PollEnds
    <2>2. line # << >> /\ Head(line).op = "read" /\ Popped /\ Rereads({})
      BY <1>3, GivesWay DEF Turn, CoreTyped
    <2>3. /\ \A i \in DOMAIN line' : Reading(i)' =>
               /\ \E j \in DOMAIN line : Reading(j) /\ line'[i] = line[j]
               /\ line'[i].q # Mine
          /\ \A i, j \in DOMAIN line' :
               Reading(i)' /\ Reading(j)' /\ line'[i].q = line'[j].q => i = j
      BY <2>2, ReadsPop
    <2>4. ReadsOnce'
      BY <1>b, <2>1, <2>3 DEF ReadsOnce, PollersKnown
    <2>5. client[Mine] \in {"polling", "killed"} /\ Mine \in Questions
      BY <1>3, <1>b DEF PollersKnown
    <2>6. PollersKnown'
      <3>1. \A q \in Questions : q # Mine => client'[q] = client[q] /\ poll'[q] = poll[q]
        BY <1>3, <1>a, <2>1 DEF PollersKnown
      <3>2. client'[Mine] \in Waited /\ poll'[Mine] = "none"
        BY <1>3, <1>a, <2>1, <2>5 DEF PollersKnown, Waited
      <3>3. poll' \in [Questions -> PollStates]
        BY <2>1 DEF PollersKnown
      <3> QED
        BY <2>1, <2>5, <3>1, <3>2, <3>3 DEF PollersKnown
    <2> QED
      BY <2>4, <2>6
  <1>4. CASE ReadReturns \/ ReadFails
    <2>1. Turn({"read"}) /\ GiveWay /\ PollEnds(Mine)
      BY <1>4 DEF ReadReturns, ReadFails
    <2>2. \E s \in {"got", "between", "gone"} : Returns(Mine, s)
      BY <1>4, Zenon DEF ReadReturns, ReadFails
    <2> QED
      BY <1>3, <2>1, <2>2 DEF Returns
  <1>5. CASE ReadParks
    <2>1. CASE Mine \in aborted
      BY <1>3, <1>5, <2>1 DEF ReadParks
    <2>2. CASE Mine \notin aborted
      <3>1. /\ poll' = [poll EXCEPT ![Mine] = "parked"]
            /\ UNCHANGED <<client, aborted, recent>>
        BY <1>5, <2>2 DEF ReadParks
      <3>2. /\ line # << >> /\ Head(line).op = "read" /\ Popped /\ Rereads({})
            /\ Turn({"read"})
        BY <1>5, GivesWay DEF ReadParks, Turn, CoreTyped
      <3>3. /\ \A i \in DOMAIN line' : Reading(i)' =>
                 /\ \E j \in DOMAIN line : Reading(j) /\ line'[i] = line[j]
                 /\ line'[i].q # Mine
            /\ \A i, j \in DOMAIN line' :
                 Reading(i)' /\ Reading(j)' /\ line'[i].q = line'[j].q => i = j
        BY <3>2, ReadsPop
      <3>4. ReadsOnce'
        BY <1>b, <3>1, <3>3 DEF ReadsOnce, PollersKnown
      <3>5. PollersKnown'
        BY <1>b, <3>1, <3>2 DEF PollersKnown
      <3> QED
        BY <3>4, <3>5
    <2> QED
      BY <2>1, <2>2
  <1>6. CASE Restart
    <2>1. line' = << >> /\ poll' = EachQuestion("none") /\ aborted' = {} /\ recent' = {}
      BY <1>6 DEF Restart
    <2>2. ReadsOnce'
      BY <2>1 DEF ReadsOnce
    <2>3. PollersKnown'
      BY <2>1 DEF PollersKnown, EachQuestion
    <2> QED
      BY <2>2, <2>3
  <1>7. ASSUME NEW q \in Questions, Poll(q) \/ Deadline(q) PROVE (ReadsOnce /\ PollersKnown)'
    <2>1. TaskOf("read", q) \in Task /\ TaskOf("read", q).op = "read" /\ TaskOf("read", q).q = q
      BY TaskTypes
    <2>2. Grown(TaskOf("read", q)) /\ poll[q] \notin {"first", "again"}
      BY <1>7, <2>1, Grows DEF Poll, Deadline, CoreTyped
    <2>3. /\ \A i \in DOMAIN line' : Reading(i)' =>
               (Reading(i) /\ line'[i] = line[i]) \/ line'[i].q = q
          /\ \A i, j \in DOMAIN line' :
               Reading(i)' /\ Reading(j)' /\ line'[i].q = line'[j].q => i = j
      BY <2>1, <2>2, ReadsJoin
    <2>4. /\ aborted' = aborted /\ recent' = recent
          /\ \/ /\ poll[q] = "none" /\ poll' = [poll EXCEPT ![q] = "first"]
                /\ client[q] = "between" /\ client' = [client EXCEPT ![q] = "polling"]
             \/ /\ poll[q] = "parked" /\ poll' = [poll EXCEPT ![q] = "again"]
                /\ client' = client
      BY <1>7 DEF Poll, Deadline
    <2>5. poll' \in [Questions -> PollStates] /\ poll'[q] \in {"first", "again"}
      BY <2>4 DEF PollersKnown
    <2>6. \A x \in Questions : x # q => poll'[x] = poll[x] /\ client'[x] = client[x]
      BY <1>a, <2>4 DEF PollersKnown
    <2>7. ReadsOnce'
      BY <1>b, <2>3, <2>5, <2>6 DEF ReadsOnce, Reading
    <2>8. client'[q] \in {"polling", "killed"} /\ (q \in aborted => client'[q] = "killed")
      BY <1>a, <2>4 DEF PollersKnown
    <2>9. PollersKnown'
      BY <2>4, <2>5, <2>6, <2>8 DEF PollersKnown, Waited
    <2> QED
      BY <2>7, <2>9
  <1>8. ASSUME NEW q \in Questions, Forgotten(q) \/ Killed(q) \/ Closed(q)
        PROVE  (ReadsOnce /\ PollersKnown)'
    <2>1. /\ line' = line /\ recent' \subseteq recent
          /\ \/ client' = client
             \/ client[q] \in ClientStates /\ client' = [client EXCEPT ![q] = "killed"]
          /\ \/ poll' = poll
             \/ poll[q] = "parked" /\ poll' = [poll EXCEPT ![q] = "none"]
          /\ \/ aborted' = aborted
             \/ client[q] = "killed" /\ client' = client /\ aborted' = aborted \cup {q}
      <3>1. CASE Forgotten(q)
        BY <3>1 DEF Forgotten, memory
      <3>2. CASE Killed(q)
        BY <3>2, <1>a DEF Killed, memory, polls
      <3>3. CASE Closed(q)
        BY <3>3 DEF Closed, memory
      <3> QED
        BY <1>8, <3>1, <3>2, <3>3
    <2>2. ReadsOnce'
      BY <1>b, <1>e, <1>f, <2>1 DEF ReadsOnce, PollersKnown
    <2>3. PollersKnown'
      BY <1>a, <2>1 DEF PollersKnown, Waited
    <2> QED
      BY <2>2, <2>3
  <1> QED
    BY <1>a, <1>1, <1>2, <1>4, <1>5, <1>6, <1>7, <1>8, PollKinds

Deliveries == {"none", "waiter", "mailing", "mail", "mail_failed", "cut"}
Told(q) == delivery[q] = "waiter"
\* An answer about to be told to a waiter.
Telling(q) == Turn({"answer"}) /\ at = "saving" /\ live /\ Mine = q
\* The bridge has ended, or the disk has failed.
Cut == "restart" \in lapsed \/ "io" \in lapsed

\* Faults are not taken back, and a bridge that is going down has a fault.
LEMMA Lapsing ==
  ASSUME [Next]_vars
  PROVE  lapsed \subseteq lapsed' /\ (off' => off \/ "restart" \in lapsed')
  <1> DEFINE Lapses == lapsed \subseteq lapsed' /\ (off' => off \/ "restart" \in lapsed')
  <1>a. ASSUME lapsed' = lapsed \/ (\E f : Lapse(f)), off' = off \/ off' = FALSE PROVE Lapses
    BY <1>a DEF Lapse
  <1>b. ASSUME NEW f, Fault(f) PROVE Lapse(f)
    BY <1>b DEF Fault
  <1> HIDE DEF Lapses
  <1>1. ASSUME NEW op, Signal(op) PROVE Lapses
    BY <1>1, <1>a DEF Signal, Record, Event
  <1>2. ASSUME NEW q \in Questions, Ask(q) PROVE Lapses
    BY <1>2, <1>a DEF Ask, Record, Event, counts
  <1>3. ASSUME NEW q \in Questions, NEW op, HookReports(op, q) \/ Command(op, q) PROVE Lapses
    BY <1>3, <1>a DEF HookReports, Record, Command, Event, idling
  <1>4. ASSUME NEW q \in Questions,
               \/ MailAnswer(q) \/ Poll(q) \/ Deadline(q) \/ Forgotten(q)
               \/ GivesUp(q) \/ Killed(q) \/ Closed(q)
        PROVE  Lapses
    <2>1. (UNCHANGED counts \/ \E f : Fault(f)) /\ UNCHANGED idling
      BY <1>4, Zenon DEF MailAnswer, Poll, Deadline, Forgotten, GivesUp, Killed, Closed
    <2> QED
      BY <2>1, <1>a, <1>b DEF counts, idling
  <1>5. ASSUME RecordDecides \/ RecordSaved \/ EmitStops \/ EmitSaved \/ NoticeMailed
                 \/ NoParent \/ CancelDecides \/ Restores
        PROVE  Lapses
    <2>1. (UNCHANGED counts \/ lapsed' = lapsed) /\ UNCHANGED off
      BY <1>5, Zenon DEF RecordDecides, RecordSaved, EmitStops, EmitSaved, NoticeMailed,
                         NoParent, CancelDecides, Restores
    <2> QED
      BY <2>1, <1>a DEF counts
  <1>6. ASSUME AnswerDecides \/ AnswerSaved \/ Refused \/ DismissDecides \/ DismissSaved
                 \/ ReadReturns \/ ReadParks \/ EmitProbes \/ EmitMarks \/ CancelSaved
        PROVE  Lapses
    <2>1. UNCHANGED <<counts, idling>>
      BY <1>6, Zenon DEF AnswerDecides, AnswerSaved, Refused, DismissDecides, DismissSaved,
                         ReadReturns, ReadParks, EmitProbes, EmitMarks, CancelSaved
    <2> QED
      BY <2>1, <1>a DEF counts, idling
  <1>7. ASSUME ReadFails \/ TaskFails PROVE Lapses
    <2>1. Fault("io") /\ off' = off
      BY <1>7 DEF ReadFails, TaskFails, idling
    <2> QED
      BY <2>1, <1>a, <1>b
  <1>8. ASSUME TimerFires \/ SessionStops \/ Restore PROVE Lapses
    BY <1>8, <1>a DEF TimerFires, SessionStops, Restore, counts
  <1>9. ASSUME ShutsDown PROVE Lapses
    BY <1>9 DEF ShutsDown, Fault, Lapse, Lapses
  <1>10. ASSUME Restart PROVE Lapses
    <2>1. (lapsed' = lapsed \/ Lapse("restart")) /\ off' = FALSE
      BY <1>10 DEF Restart
    <2> QED
      BY <2>1, <1>a
  <1>11. ASSUME UNCHANGED vars PROVE Lapses
    BY <1>11, <1>a DEF vars, counts, idling
  <1>12. ASSUME \E q \in Questions :
                  \/ Ask(q) \/ \E op \in {"seen", "done"} : HookReports(op, q)
                  \/ \E op \in {"answer", "dismiss", "resolve"} : Command(op, q)
                  \/ MailAnswer(q) \/ Poll(q) \/ Deadline(q) \/ Forgotten(q)
                  \/ GivesUp(q) \/ Killed(q) \/ Closed(q)
         PROVE  Lapses
    BY <1>12, <1>2, <1>3, <1>4
  <1>13. Lapses
    BY <1>1, <1>5, <1>6, <1>7, <1>8, <1>9, <1>10, <1>11, <1>12 DEF Next, Tasks
  <1> QED
    BY <1>13 DEF Lapses

\* A waiter is told when the answer is saved, and only then.
LEMMA Delivering ==
  ASSUME delivery \in [Questions -> Deliveries], [Next]_vars
  PROVE  /\ delivery' \in [Questions -> Deliveries]
         /\ \A q \in Questions : Told(q)' => Told(q) \/ (AnswerSaved /\ q = Mine /\ live)
  <1> DEFINE Tells ==
        /\ delivery' \in [Questions -> Deliveries]
        /\ \A q \in Questions : Told(q)' => Told(q) \/ (AnswerSaved /\ q = Mine /\ live)
  <1>a. delivery' = delivery => Tells
    BY DEF Told
  <1>b. ASSUME NEW q \in Questions, MailAnswer(q) PROVE Tells
    BY <1>b DEF MailAnswer, Told, Deliveries
  <1>c. ASSUME AnswerSaved PROVE Tells
    BY <1>c DEF AnswerSaved, Told, Deliveries
  <1>d. ASSUME Restart PROVE Tells
    <2>1. delivery' = [q \in Questions |-> IF delivery[q] = "mailing" THEN "cut" ELSE delivery[q]]
      BY <1>d DEF Restart
    <2> QED
      BY <2>1 DEF Told, Deliveries
  <1> HIDE DEF Tells
  <1>1. ASSUME NEW op, Signal(op) PROVE Tells
    BY <1>1, <1>a DEF Signal
  <1>2. ASSUME NEW q \in Questions, NEW op,
               \/ Ask(q) \/ HookReports(op, q) \/ Command(op, q) \/ Poll(q) \/ Deadline(q)
               \/ Forgotten(q) \/ GivesUp(q) \/ Killed(q) \/ Closed(q)
        PROVE  Tells
    <2>1. delivery' = delivery
      BY <1>2, Zenon DEF Ask, HookReports, Command, Poll, Deadline, Forgotten, GivesUp,
                         Killed, Closed
    <2> QED
      BY <2>1, <1>a
  <1>3. ASSUME RecordDecides \/ RecordSaved \/ EmitStops \/ EmitSaved \/ NoticeMailed
                 \/ NoParent \/ CancelDecides \/ Restores
        PROVE  Tells
    <2>1. delivery' = delivery
      BY <1>3, Zenon DEF RecordDecides, RecordSaved, EmitStops, EmitSaved, NoticeMailed,
                         NoParent, CancelDecides, Restores
    <2> QED
      BY <2>1, <1>a
  <1>4. ASSUME AnswerDecides \/ Refused \/ DismissDecides \/ DismissSaved
                 \/ ReadReturns \/ ReadParks \/ EmitProbes \/ EmitMarks \/ CancelSaved
        PROVE  Tells
    <2>1. delivery' = delivery
      BY <1>4, Zenon DEF AnswerDecides, Refused, DismissDecides, DismissSaved,
                         ReadReturns, ReadParks, EmitProbes, EmitMarks, CancelSaved
    <2> QED
      BY <2>1, <1>a
  <1>5. ASSUME ReadFails \/ TaskFails \/ TimerFires \/ SessionStops \/ Restore \/ ShutsDown
        PROVE  Tells
    <2>1. delivery' = delivery
      BY <1>5, Zenon DEF ReadFails, TaskFails, TimerFires, SessionStops, Restore, ShutsDown
    <2> QED
      BY <2>1, <1>a
  <1>6. ASSUME UNCHANGED vars PROVE Tells
    BY <1>6, <1>a DEF vars
  <1>7. ASSUME \E q \in Questions :
                 \/ Ask(q) \/ \E op \in {"seen", "done"} : HookReports(op, q)
                 \/ \E op \in {"answer", "dismiss", "resolve"} : Command(op, q)
                 \/ MailAnswer(q) \/ Poll(q) \/ Deadline(q) \/ Forgotten(q)
                 \/ GivesUp(q) \/ Killed(q) \/ Closed(q)
        PROVE  Tells
    BY <1>7, <1>b, <1>2
  <1>8. Tells
    BY <1>c, <1>d, <1>1, <1>3, <1>4, <1>5, <1>6, <1>7 DEF Next, Tasks
  <1> QED
    BY <1>8 DEF Tells

\* Whoever waits goes on waiting unless it is killed or gives up, and a poll
\* comes back without the answer only if there is none, or after a fault.
LEMMA Waiting ==
  ASSUME CoreTyped, AskersKnown, PollersKnown, off => "restart" \in lapsed, [Next]_vars,
         NEW q \in Questions, client[q] \in Waited
  PROVE  /\ client'[q] \in Waited
         /\ client'[q] \in {"between", "gone"} =>
              \/ client[q] \in {"between", "gone"}
              \/ Cut'
              \/ Turn({"read"}) /\ ledger' = ledger /\ Mine = q /\ ledger.how[q] # "answered"
  <1> USE DEF Waited
  <1>a. client \in [Questions -> ClientStates]
    BY DEF AskersKnown
  <1>1. CASE Idles
    BY <1>1 DEF Idles, WaitsOn
  <1>2. CASE Wakes
    BY <1>2 DEF Wakes, WaitsOn
  <1>3. CASE ReadReturns
    <2> DEFINE s == CASE ledger.how[Mine] = "answered" -> "got"
                      [] ledger.how[Mine] = "open" -> "between"
                      [] OTHER -> "gone"
    <2>1. Turn({"read"}) /\ ledger' = ledger /\ Returns(Mine, s)
      BY <1>3, Zenon DEF ReadReturns
    <2>2. /\ s \in {"got", "between", "gone"}
          /\ ledger.how[Mine] = "answered" => s = "got"
      OBVIOUS
    <2> HIDE DEF s
    <2> QED
      BY <1>a, <2>1, <2>2 DEF Returns
  <1>4. CASE ReadParks
    BY <1>4 DEF ReadParks
  <1>5. CASE ReadFails
    <2>1. "io" \in lapsed' /\ Returns(Mine, "between")
      BY <1>5 DEF ReadFails, Fault, Lapse
    <2> QED
      BY <1>a, <2>1 DEF Returns, Cut
  <1>6. CASE Restart
    <2>1. "restart" \in lapsed'
      BY <1>6 DEF Restart, Lapse
    <2>2. client' = [x \in Questions |->
                       CASE client[x] = "polling" -> "between"
                         [] client[x] = "asking" -> IF x \in Hooks THEN "retry" ELSE "gone"
                         [] OTHER -> client[x]]
      BY <1>6, Zenon DEF Restart
    <2>3. client'[q] \in {client[q], "between"}
      BY <2>2
    <2> QED
      BY <2>1, <2>3 DEF Cut
  <1>7. ASSUME NEW x \in Questions,
               Poll(x) \/ Deadline(x) \/ Forgotten(x) \/ Killed(x) \/ Closed(x)
        PROVE  client'[q] = client[q] \/ client'[q] \in {"polling", "killed"}
    BY <1>7, <1>a DEF Poll, Deadline, Forgotten, Killed, Closed
  <1> QED
    BY <1>a, <1>1, <1>2, <1>3, <1>4, <1>5, <1>6, <1>7, PollKinds

\* The answer is for an open question whose asker may still be reached.
LEMMA Answering ==
  ASSUME CoreTyped, AnswerDecides
  PROVE  /\ Mine \in Questions /\ ledger.how[Mine] = "open" /\ at = "start"
         /\ line # << >> /\ draft'.how[Mine] = "answered"
         /\ live' => poll[Mine] \in {"parked", "again"} \/ (Mine \in Hooks /\ Mine \in recent)
  <1>1. /\ line # << >> /\ Head(line).op = "answer" /\ Answerable(Mine) /\ at = "start"
        /\ live' = WaiterLive(Mine)
    BY DEF AnswerDecides, Turn
  <1>2. Mine \in Questions
    BY <1>1, TurnFacts DEF CoreTyped, LineTyped, Addressed, Mine
  <1> DEFINE l == [ledger EXCEPT !.how[Mine] = "answered"]
             k == Resolve(l, Older(ledger, Mine), "manual")
  <1>3. l \in Ledger /\ l.how[Mine] = "answered"
    BY <1>2 DEF CoreTyped, LedgerTyped, Ledger, Resolutions
  <1>4. "manual" \in Resolutions
    BY DEF Resolutions
  <1>5. draft' = Prune(k, Fresh(ledger, k) \cup {Mine})
    BY DEF AnswerDecides
  <1> HIDE DEF l
  <1>6. k \in Ledger /\ k.how[Mine] = "answered"
    BY <1>2, <1>3, <1>4, Resolving
  <1>7. draft'.how[Mine] = "answered"
    BY <1>2, <1>5, <1>6, Pruning
  <1> QED
    BY <1>1, <1>2, <1>7 DEF Answerable, WaiterLive, ActiveWait

\* What is being saved opens a request that is asked for, and no other.
DraftOpens ==
  at = "saving" =>
    \A q \in Questions \ Hooks : ledger.how[q] = "absent" =>
      draft.how[q] = "absent" \/ (Turn({"request"}) /\ Mine = q)

\* Whoever is told an answer has polled; the command line reads it unless the
\* bridge or the disk failed it, or the answer was pruned.
ToldWaits ==
  \A q \in Questions :
    /\ Told(q) \/ Telling(q) =>
         /\ client[q] \in Waited
         /\ q \notin Hooks => \A i \in DOMAIN line : Requested(i) => line[i].q # q
    /\ Told(q) /\ q \notin Hooks =>
         /\ ledger.how[q] \in {"answered", "absent"}
         /\ at = "saving" => draft.how[q] \in {"answered", "absent"}
         /\ client[q] \in {"between", "gone"} => Cut \/ ledger.how[q] = "absent"
    /\ Telling(q) /\ q \notin Hooks =>
         /\ draft.how[q] = "answered"
         /\ client[q] \in {"between", "gone"} => Cut

\* Who saves keeps its turn.
LEMMA HeadStays ==
  ASSUME CoreTyped, [Next]_vars, at = "saving", at' = "saving"
  PROVE  line # << >> /\ line' # << >> /\ Head(line') = Head(line)
  <1>1. line # << >> /\ Head(line) = line[1] /\ 1 \in DOMAIN line
    BY TurnFacts DEF CoreTyped, LineTyped
  <1>2. line' = line \/ \E t \in Task : Grown(t)
    BY Shapes DEF Popped
  <1>3. CASE \E t \in Task : Grown(t)
    <2>1. line' \in Seq(Task) /\ line' # << >> /\ line'[1] = line[1]
      BY <1>1, <1>3 DEF Grown
    <2> QED
      BY <1>1, <2>1, HeadTailProperties
  <1> QED
    BY <1>1, <1>2, <1>3

\* An answer that is about to be told was decided with a waiter.
LEMMA TellingStep ==
  ASSUME CoreTyped, [Next]_vars, NEW q, Telling(q)'
  PROVE  \/ Telling(q) /\ UNCHANGED <<ledger, draft>>
         \/ AnswerDecides /\ Mine = q /\ live'
  <1>1. \/ at = "saving" /\ UNCHANGED <<ledger, draft, live>>
        \/ RecordDecides
        \/ /\ line # << >> /\ line' = line
           /\ Head(line).op = "answer" => AnswerDecides
    BY Shapes DEF Telling
  <1>2. CASE at = "saving" /\ UNCHANGED <<ledger, draft, live>>
    BY <1>2, HeadStays DEF Telling, Turn, Mine
  <1>3. CASE RecordDecides
    <2>1. line' = line /\ Head(line).op \in Records
      BY <1>3 DEF RecordDecides, Turn
    <2> QED
      BY <2>1, RecordNames DEF Telling, Turn
  <1>4. CASE /\ line # << >> /\ line' = line
             /\ Head(line).op = "answer" => AnswerDecides
    BY <1>4 DEF Telling, Turn, Mine
  <1> QED
    BY <1>1, <1>2, <1>3, <1>4

ToldInv ==
  /\ OnceInv /\ ReadsOnce /\ PollersKnown
  /\ delivery \in [Questions -> Deliveries]
  /\ off => "restart" \in lapsed
  /\ DraftOpens /\ ToldWaits

\* What is told stays true whatever the asker, the bridge and others do.
LEMMA ToldStep == CoreTyped /\ ToldInv /\ [Next]_vars => ToldInv'
  <1> SUFFICES ASSUME CoreTyped, ToldInv, [Next]_vars PROVE ToldInv'
    OBVIOUS
  <1>a. /\ OnceInv /\ AskersKnown /\ AskedOnce /\ ReadsOnce /\ PollersKnown
        /\ DraftOpens /\ ToldWaits
        /\ CoreTyped' /\ OnceInv' /\ ReadsOnce' /\ PollersKnown'
        /\ off => "restart" \in lapsed
    BY CoreStep, OnceStep, PollStep DEF ToldInv, OnceInv
  <1>b. /\ delivery' \in [Questions -> Deliveries]
        /\ \A q \in Questions : Told(q)' => Told(q) \/ (AnswerSaved /\ q = Mine /\ live)
    BY Delivering DEF ToldInv
  <1>c. (off' => "restart" \in lapsed') /\ (Cut => Cut')
    BY <1>a, Lapsing DEF Cut
  <1>d. /\ Hooks' = Hooks
        /\ \A q \in Questions : Ask(q) => client[q] \in {"none", "retry"}
    BY <1>a, Asking DEF AskersKnown, Hooks
  <1>e. /\ \/ ledger' = ledger
           \/ at = "saving" /\ ledger' = draft
        /\ \/ line' = line
           \/ \E t \in Task :
                Grown(t) /\ (t.op = "request" => t.q \in Questions \ Hooks /\ Ask(t.q))
           \/ line # << >> /\ Popped
           \/ line' = << >>
        /\ at' = "saving" =>
             \/ at = "saving" /\ UNCHANGED <<ledger, draft>>
             \/ RecordDecides
             \/ line # << >> /\ line' = line /\ ledger' = ledger /\ Keeps(ledger, draft')
    BY Shapes
  <1>f. line # << >> => 1 \in DOMAIN line /\ Head(line) = line[1]
    BY TurnFacts DEF CoreTyped, LineTyped
  \* What a record makes of a question that is not a hook's, and not its own.
  <1>r. ASSUME RecordDecides, NEW q \in Questions \ Hooks
        PROVE  /\ line' = line /\ ledger' = ledger /\ line # << >>
               /\ \/ ledger.how[q] \in Resolutions => draft'.how[q] \in {ledger.how[q], "absent"}
                  \/ Turn({"request"}) /\ Mine = q
               /\ \/ ledger.how[q] = "absent" => draft'.how[q] = "absent"
                  \/ Turn({"request"}) /\ Mine = q
    <2>1. /\ line' = line /\ ledger' = ledger /\ line # << >>
      BY <1>r, Zenon DEF RecordDecides, Turn
    <2>2. Head(line).op \in {"ask", "seen"} => Mine # q
      BY <1>a, <1>f, <2>1 DEF AskersKnown, Mine
    <2>3. /\ ledger.how[q] \in Resolutions =>
               \/ draft'.how[q] \in {ledger.how[q], "absent"}
               \/ q = Mine /\ Head(line).op \in {"request", "ask", "seen"}
          /\ ledger.how[q] = "absent" =>
               \/ draft'.how[q] = "absent"
               \/ q = Mine /\ Head(line).op \in {"request", "ask", "seen"}
      BY <1>r, RecordDrafts
    <2> QED
      BY <2>1, <2>2, <2>3 DEF Turn
  <1>1. DraftOpens'
    <2> SUFFICES ASSUME at' = "saving", NEW q \in Questions \ Hooks, ledger'.how[q] = "absent"
                 PROVE  draft'.how[q] = "absent" \/ (Turn({"request"})' /\ Mine' = q)
      BY <1>d DEF DraftOpens
    <2>1. CASE at = "saving" /\ UNCHANGED <<ledger, draft>>
      BY <1>a, <2>1, HeadStays DEF DraftOpens, Turn, Mine
    <2>2. CASE RecordDecides
      BY <1>r, <2>2 DEF Turn, Mine
    <2>3. CASE ledger' = ledger /\ Keeps(ledger, draft')
      BY <2>3 DEF Keeps
    <2> QED
      BY <1>e, <2>1, <2>2, <2>3
  <1>2. ASSUME NEW q \in Questions, Told(q)' \/ Telling(q)'
        PROVE  \/ Told(q) \/ Telling(q)
               \/ AnswerDecides /\ Mine = q /\ live'
    BY <1>b, <1>2, TellingStep DEF Telling, AnswerSaved
  <1>3. ASSUME NEW q \in Questions, Told(q)' \/ Telling(q)'
        PROVE  client'[q] \in Waited
    <2>1. CASE Told(q) \/ Telling(q)
      BY <1>a, <2>1, Waiting DEF ToldWaits
    <2>2. CASE AnswerDecides /\ Mine = q /\ live'
      <3>1. client' = client
        BY <2>2 DEF AnswerDecides
      <3>2. poll[q] \in {"parked", "again"} \/ q \in recent
        BY <2>2, Answering
      <3> QED
        BY <1>a, <3>1, <3>2 DEF PollersKnown, Waited
    <2> QED
      BY <1>2, <1>3, <2>1, <2>2
  <1>4. ASSUME NEW q \in Questions \ Hooks, Told(q)' \/ Telling(q)',
               NEW i \in DOMAIN line', Requested(i)'
        PROVE  line'[i].q # q
    <2>1. CASE Told(q) \/ Telling(q)
      <3>1. client[q] \in Waited /\ \A j \in DOMAIN line : Requested(j) => line[j].q # q
        BY <1>a, <2>1 DEF ToldWaits
      <3>2. CASE line' = line
        BY <1>4, <3>1, <3>2 DEF Requested
      <3>3. CASE line # << >> /\ Popped
        BY <1>4, <3>1, <3>3 DEF Requested, Popped
      <3>4. ASSUME NEW t \in Task, Grown(t), t.op = "request" => Ask(t.q) /\ t.q \in Questions
            PROVE  line'[i].q # q
        <4>1. t.op = "request" => t.q # q
          BY <1>d, <3>1, <3>4 DEF Waited
        <4>2. CASE i \in DOMAIN line
          BY <1>4, <3>1, <3>4, <4>2 DEF Requested, Grown
        <4>3. CASE i \notin DOMAIN line
          <5>1. i = Len(line) + 1
            BY <3>4, <4>3 DEF Grown
          <5> QED
            BY <1>4, <3>4, <4>1, <5>1 DEF Requested, Grown
        <4> QED
          BY <4>2, <4>3
      <3> QED
        BY <1>e, <3>2, <3>3, <3>4
    <2>2. CASE AnswerDecides /\ Mine = q /\ live'
      <3>1. line' = line
        BY <2>2 DEF AnswerDecides
      <3>2. at = "start" /\ ledger.how[q] = "open"
        BY <2>2, Answering
      <3> QED
        BY <1>a, <1>4, <3>1, <3>2 DEF AskedOnce, Awaited, Requested, Unbegun
    <2> QED
      BY <1>2, <1>4, <2>1, <2>2
  <1>5. ASSUME NEW q \in Questions \ Hooks, Told(q)'
        PROVE  /\ ledger'.how[q] \in {"answered", "absent"}
               /\ at' = "saving" => draft'.how[q] \in {"answered", "absent"}
               /\ client'[q] \in {"between", "gone"} => Cut' \/ ledger'.how[q] = "absent"
    <2>1. CASE Told(q)
      <3>1. /\ client[q] \in Waited
            /\ \A j \in DOMAIN line : Requested(j) => line[j].q # q
            /\ ledger.how[q] \in {"answered", "absent"}
            /\ at = "saving" => draft.how[q] \in {"answered", "absent"}
            /\ client[q] \in {"between", "gone"} => Cut \/ ledger.how[q] = "absent"
        BY <1>a, <2>1 DEF ToldWaits
      <3>2. ~(Turn({"request"}) /\ Mine = q)
        BY <1>f, <3>1 DEF Requested, Turn, Mine
      <3>3. ledger'.how[q] \in {"answered", "absent"}
        BY <1>e, <3>1
      <3>4. ledger.how[q] = "absent" => ledger'.how[q] = "absent"
        BY <1>a, <1>e, <3>2 DEF DraftOpens
      <3>5. at' = "saving" => draft'.how[q] \in {"answered", "absent"}
        <4>1. CASE RecordDecides
          BY <1>r, <3>1, <3>2, <4>1 DEF Resolutions
        <4>2. CASE Keeps(ledger, draft')
          BY <3>1, <4>2 DEF Keeps
        <4> QED
          BY <1>e, <3>1, <4>1, <4>2
      <3>6. client'[q] \in {"between", "gone"} =>
              \/ client[q] \in {"between", "gone"}
              \/ Cut'
              \/ ledger' = ledger /\ ledger.how[q] # "answered"
        BY <1>a, <3>1, Waiting
      <3>7. client'[q] \in {"between", "gone"} => Cut' \/ ledger'.how[q] = "absent"
        BY <1>c, <3>1, <3>4, <3>6
      <3> QED
        BY <3>3, <3>5, <3>7
    <2>2. CASE AnswerSaved /\ q = Mine /\ live
      <3>1. Telling(q) /\ ledger' = draft
        BY <2>2 DEF AnswerSaved, Telling
      <3>2. at' = "start"
        BY <2>2 DEF AnswerSaved, Wake, Over
      <3>3. /\ draft.how[q] = "answered" /\ client[q] \in Waited
            /\ client[q] \in {"between", "gone"} => Cut
        BY <1>a, <3>1 DEF ToldWaits
      <3>4. ~Turn({"read"})
        BY <3>1 DEF Telling, Turn
      <3>5. client'[q] \in {"between", "gone"} => client[q] \in {"between", "gone"} \/ Cut'
        BY <1>a, <3>3, <3>4, Waiting
      <3> QED
        BY <1>c, <3>1, <3>2, <3>3, <3>5
    <2> QED
      BY <1>b, <1>5, <2>1, <2>2
  <1>6. ASSUME NEW q \in Questions \ Hooks, Telling(q)'
        PROVE  /\ draft'.how[q] = "answered"
               /\ client'[q] \in {"between", "gone"} => Cut'
    <2>1. CASE Telling(q) /\ UNCHANGED <<ledger, draft>>
      <3>1. /\ draft.how[q] = "answered" /\ client[q] \in Waited
            /\ client[q] \in {"between", "gone"} => Cut
        BY <1>a, <2>1 DEF ToldWaits
      <3>2. ~Turn({"read"})
        BY <2>1 DEF Telling, Turn
      <3>3. client'[q] \in {"between", "gone"} => client[q] \in {"between", "gone"} \/ Cut'
        BY <1>a, <3>1, <3>2, Waiting
      <3> QED
        BY <1>c, <2>1, <3>1, <3>3
    <2>2. CASE AnswerDecides /\ Mine = q /\ live'
      <3>1. client' = client
        BY <2>2 DEF AnswerDecides
      <3>2. draft'.how[q] = "answered" /\ poll[q] \in {"parked", "again"}
        BY <2>2, Answering
      <3>3. client[q] \in {"polling", "killed"}
        BY <1>a, <3>2 DEF PollersKnown
      <3> QED
        BY <3>1, <3>2, <3>3
    <2> QED
      BY <1>6, <2>1, <2>2, TellingStep
  <1>7. ToldWaits'
    BY <1>d, <1>3, <1>4, <1>5, <1>6 DEF ToldWaits
  <1> QED
    BY <1>a, <1>b, <1>c, <1>1, <1>7 DEF ToldInv

\* Nothing is asked, polled or told in the beginning.
LEMMA ToldBegins ==
  ASSUME Init
  PROVE  ToldInv
  <1>1. /\ line = << >> /\ DOMAIN line = {} /\ at = "start"
        /\ client = EachQuestion("none") /\ poll = EachQuestion("none")
        /\ delivery = EachQuestion("none")
        /\ aborted = {} /\ recent = {} /\ off = FALSE
    BY DEF Init
  <1>2. PICK past \in {"unknown", "busy"} : ledger = [Empty EXCEPT !.activity = past]
    BY DEF Init
  <1>3. \A q \in Questions : ledger.how[q] = "absent"
    BY <1>2 DEF Empty, EachQuestion
  <1>4. OnceInv
    BY <1>1, <1>3
       DEF OnceInv, AskersKnown, ClientStates, EachQuestion, AskedOnce, DraftKeeps
  <1>5. ReadsOnce /\ PollersKnown /\ DraftOpens
    BY <1>1 DEF ReadsOnce, PollersKnown, PollStates, EachQuestion, DraftOpens
  <1>6. ToldWaits /\ delivery \in [Questions -> Deliveries]
    BY <1>1 DEF ToldWaits, Told, Telling, Turn, EachQuestion, Deliveries
  <1> QED
    BY <1>1, <1>4, <1>5, <1>6 DEF ToldInv

\* What the human is told of an answer is true: whoever it was told of got it,
\* gets it with the poll that is under way or the next, or is gone for one of
\* the reasons that the property names.
THEOREM ToldIsTrue == Spec => []ToldTrue
  <1> DEFINE Inv == CoreTyped /\ ToldInv
  <1>1. Init => Inv
    BY Beginning, ToldBegins
  <1>2. Inv /\ [Next]_vars => Inv'
    BY CoreStep, ToldStep
  <1>3. Inv => ToldTrue
    <2> SUFFICES ASSUME Inv, NEW q \in Questions, delivery[q] = "waiter"
                 PROVE  \/ OnItsWay(q) \/ client[q] = "killed"
                        \/ client[q] = "gone" /\ (q \in Hooks \/ "restart" \in lapsed \/ "io" \in lapsed)
                        \/ ledger.how[q] = "absent"
      BY DEF ToldTrue
    <2>1. client[q] \in Waited
      BY DEF ToldInv, ToldWaits, Told
    <2>2. q \notin Hooks /\ client[q] \in {"between", "gone"} => Cut \/ ledger.how[q] = "absent"
      BY DEF ToldInv, ToldWaits, Told
    <2>3. client[q] = "polling" => q \notin aborted
      BY DEF ToldInv, PollersKnown
    <2> QED
      BY <2>1, <2>2, <2>3 DEF Waited, Cut, OnItsWay
  <1> QED
    BY <1>1, <1>2, <1>3, PTL DEF Spec

-----------------------------------------------------------------------------
(* No cycle is forgotten: what the liveness property IdleTold rests on. *)

\* A firing of the timer for this cycle waits behind the lock, or holds it.
EmitComes(c) == \E i \in DOMAIN line : line[i].op = "emit" /\ line[i].cycle = c
\* What arms the timer again, or ends the cycle.
Revives(op) == op = "restore" \/ Cancels(op)
RevivalComes == \E i \in DOMAIN line : Revives(line[i].op)
\* Of these, what ends it.
CancelComes == \E i \in DOMAIN line : Cancels(line[i].op)

\* Only of an idle agent is there a cycle.
CycleIdle ==
  /\ ledger.cycle # 0 => ledger.activity = "idle"
  /\ at = "saving" /\ draft.cycle # 0 => draft.activity = "idle"

\* A session that was stopped stays so; only then is its cycle cancelled.
CancelStops == \A i \in DOMAIN line : line[i].op = "cancel" => ~active

\* What is saved while the timer is armed leaves it its cycle, or is the
\* firing's own drop of it; the human's commands touch no cycle.
DraftsCycle ==
  at = "saving" =>
    /\ timer # 0 => draft.cycle = ledger.cycle \/ (Turn({"emit"}) /\ draft.cycle = 0)
    /\ Turn({"answer", "dismiss", "resolve"}) =>
         draft.cycle = ledger.cycle /\ draft.told = ledger.told
    /\ Turn({"cancel"}) => draft.cycle = 0

\* The armed timer is for the cycle on record, and ticks or has fired.
TimerRuns == timer # 0 => ~off /\ timer = ledger.cycle /\ (ticking \/ EmitComes(timer))

\* A mark that is saved by anybody but the firing is the one on record, and
\* what ends a cycle saves none.
DraftsMark ==
  at = "saving" =>
    /\ draft.told /\ ~Turn({"emit"}) => draft.cycle = ledger.cycle /\ ledger.told
    /\ Cancels(Head(line).op) => draft.cycle = 0

\* The firing that marks its cycle, and mails it, has the timer, unless it was
\* taken away by what ends the cycle.
MarkKept ==
  Turn({"emit"}) /\ ((at = "saving" /\ draft.cycle # 0) \/ at = "calling")
    => timer = MyCycle \/ off \/ ~active \/ CancelComes

\* The firing is about to mail the notice of the cycle on record.
Mailing == Turn({"emit"}) /\ at = "calling" /\ MyCycle = ledger.cycle /\ timer = MyCycle

\* A cycle that was marked, and whose notice is owed, is being mailed, unless
\* what ends it waits in line.
MarkAttended == Untold /\ ledger.told => Mailing \/ CancelComes

\* A cycle that is still to be marked, and mailed.
Armed == ledger.cycle # 0 /\ ~ledger.told /\ active /\ ~off /\ "io" \notin lapsed

\* An armed cycle without its timer waits for the restoration, or for a sign
\* that ends it.
ArmedAttended == Armed /\ timer = 0 => ~restored \/ RevivalComes

\* A cycle whose notice is owed has its timer until it is marked, and from
\* then on the firing that mails the notice; or what arms the timer again, or
\* ends the cycle, is due.
CycleAttended ==
  Untold => \/ ~ledger.told /\ timer = ledger.cycle /\ (ticking \/ EmitComes(ledger.cycle))
            \/ ledger.told /\ Mailing
            \/ ~restored \/ RevivalComes

AttInv ==
  /\ CycleIdle /\ CancelStops /\ DraftsCycle /\ TimerRuns /\ ArmedAttended
  /\ DraftsMark /\ MarkKept /\ MarkAttended

\* Who waits in the line is not lost when its head leaves.
LEMMA AttendedPops ==
  ASSUME LineTyped, line # << >>, Popped
  PROVE  /\ \A c : /\ EmitComes(c)
                   /\ ~(Head(line).op = "emit" /\ Head(line).cycle = c)
                   => \E i \in DOMAIN line' : line'[i].op = "emit" /\ line'[i].cycle = c
         /\ RevivalComes /\ ~Revives(Head(line).op) => RevivalComes'
         /\ CancelComes /\ ~Cancels(Head(line).op) => CancelComes'
         /\ \A i \in DOMAIN line' : line'[i].op = "cancel" =>
              \E j \in DOMAIN line : line[j].op = "cancel"
  <1>1. Head(line) = line[1] /\ 1 \in DOMAIN line
    BY TurnFacts DEF LineTyped
  <1>2. \A j \in DOMAIN line : j # 1 => j - 1 \in DOMAIN line' /\ line'[j - 1] = line[j]
    BY DEF Popped
  <1>3. ASSUME NEW c, EmitComes(c), ~(Head(line).op = "emit" /\ Head(line).cycle = c)
        PROVE  \E i \in DOMAIN line' : line'[i].op = "emit" /\ line'[i].cycle = c
    BY <1>1, <1>2, <1>3 DEF EmitComes
  <1>4. ASSUME RevivalComes, ~Revives(Head(line).op) PROVE RevivalComes'
    BY <1>1, <1>2, <1>4 DEF RevivalComes, Revives, Cancels
  <1>6. ASSUME CancelComes, ~Cancels(Head(line).op) PROVE CancelComes'
    BY <1>1, <1>2, <1>6 DEF CancelComes, Cancels
  <1>5. ASSUME NEW i \in DOMAIN line', line'[i].op = "cancel"
        PROVE  \E j \in DOMAIN line : line[j].op = "cancel"
    BY <1>5 DEF Popped
  <1> QED
    BY <1>3, <1>4, <1>5, <1>6

\* Nor when a task joins.
LEMMA AttendedGrows ==
  ASSUME LineTyped, NEW t \in Task, Grown(t)
  PROVE  /\ \A c : EmitComes(c) \/ (t.op = "emit" /\ t.cycle = c)
                   => \E i \in DOMAIN line' : line'[i].op = "emit" /\ line'[i].cycle = c
         /\ RevivalComes \/ Revives(t.op) => RevivalComes'
         /\ CancelComes \/ Cancels(t.op) => CancelComes'
         /\ \A i \in DOMAIN line' : line'[i].op = "cancel" =>
              t.op = "cancel" \/ \E j \in DOMAIN line : line[j].op = "cancel"
  <1>1. /\ \A i \in DOMAIN line : i \in DOMAIN line' /\ line'[i] = line[i]
        /\ Len(line) + 1 \in DOMAIN line' /\ line'[Len(line) + 1] = t
        /\ \A i \in DOMAIN line' : line'[i] = t \/ (i \in DOMAIN line /\ line'[i] = line[i])
    BY DEF Grown
  <1>2. ASSUME NEW c, EmitComes(c) \/ (t.op = "emit" /\ t.cycle = c)
        PROVE  \E i \in DOMAIN line' : line'[i].op = "emit" /\ line'[i].cycle = c
    BY <1>1, <1>2 DEF EmitComes
  <1>3. ASSUME RevivalComes \/ Revives(t.op) PROVE RevivalComes'
    BY <1>1, <1>3 DEF RevivalComes, Revives, Cancels
  <1>5. ASSUME CancelComes \/ Cancels(t.op) PROVE CancelComes'
    BY <1>1, <1>5 DEF CancelComes, Cancels
  <1>4. ASSUME NEW i \in DOMAIN line', line'[i].op = "cancel"
        PROVE  t.op = "cancel" \/ \E j \in DOMAIN line : line[j].op = "cancel"
    BY <1>1, <1>4
  <1> QED
    BY <1>2, <1>3, <1>4, <1>5

\* What a record makes of the cycle: a sign of work or the end takes it away,
\* the end of a turn of a working agent begins one.
LEMMA RecordCycles ==
  ASSUME CoreTyped, RecordDecides
  PROVE  /\ Head(line).op \in Busy \cup {"end"} => draft'.cycle = 0
         /\ Head(line).op = "stop" => draft'.activity = "idle"
         /\ Head(line).op \in {"stop", "request"} =>
              \/ draft'.cycle = ledger.cycle
              \/ ledger.activity = "busy" /\ Head(line).op = "stop"
         /\ Head(line).op = "request" => draft'.activity = ledger.activity
         /\ Head(line).op \in Busy \cup {"end", "stop", "request"}
  <1> DEFINE op == Head(line).op
             m == Moved(ledger, op)
             k == Observed(ledger, op, Mine)
  <1>1. line # << >> /\ op \in Records /\ draft' = Prune(k, Fresh(ledger, k))
    BY DEF RecordDecides, Turn
  <1>2. ledger \in Ledger /\ cycles \in Nat
    BY DEF CoreTyped, LedgerTyped, TimerTyped
  <1>3. op \in {"ask", "seen", "request"} => Mine \in Questions
    BY <1>1, TurnFacts DEF CoreTyped, LineTyped, Addressed, Mine
  <1> HIDE DEF op
  <1>4. k \in Ledger /\ SameCycle(m, k)
    BY <1>1, <1>2, <1>3, Observing
  <1>5. /\ op \in Busy \cup {"end"} => m.cycle = 0
        /\ op = "stop" => m.activity = "idle"
        /\ op \in {"stop", "request"} =>
             m.cycle = ledger.cycle \/ (ledger.activity = "busy" /\ op = "stop")
        /\ op = "request" => m.activity = ledger.activity
    BY <1>1, <1>2, RecordNames DEF Moved, Cancels, Ledger
  <1> HIDE DEF m, k
  <1>6. SameCycle(k, draft')
    BY <1>1, <1>4, Pruning
  <1> QED
    BY <1>1, <1>4, <1>5, <1>6, RecordNames DEF SameCycle, op

\* The session stops for good, and its restoration is called for once.
LEMMA Staying ==
  ASSUME [Next]_vars
  PROVE  (active' => active) /\ (restored' = restored \/ Restart \/ Restore)
  <1> DEFINE Stays == (active' => active) /\ (restored' = restored \/ Restart \/ Restore)
  <1>a. ASSUME active' = active \/ active' = FALSE, restored' = restored \/ Restart \/ Restore
        PROVE  Stays
    BY <1>a
  <1> HIDE DEF Stays
  <1>1. ASSUME NEW op, Signal(op) PROVE Stays
    BY <1>1, <1>a DEF Signal, Record
  <1>2. ASSUME NEW q \in Questions, Ask(q) PROVE Stays
    BY <1>2, <1>a DEF Ask, Record
  <1>3. ASSUME NEW q \in Questions, NEW op, HookReports(op, q) \/ Command(op, q) PROVE Stays
    BY <1>3, <1>a DEF HookReports, Record, Command, idling
  <1>4. ASSUME NEW q \in Questions,
               \/ MailAnswer(q) \/ Poll(q) \/ Deadline(q) \/ Forgotten(q)
               \/ GivesUp(q) \/ Killed(q) \/ Closed(q)
        PROVE  Stays
    <2>1. UNCHANGED idling
      BY <1>4, Zenon DEF MailAnswer, Poll, Deadline, Forgotten, GivesUp, Killed, Closed
    <2> QED
      BY <2>1, <1>a DEF idling
  <1>5. ASSUME RecordDecides \/ RecordSaved \/ EmitStops \/ EmitSaved \/ NoticeMailed
                 \/ NoParent \/ CancelDecides \/ Restores
        PROVE  Stays
    <2>1. UNCHANGED <<active, restored>>
      BY <1>5, Zenon DEF RecordDecides, RecordSaved, EmitStops, EmitSaved, NoticeMailed,
                         NoParent, CancelDecides, Restores
    <2> QED
      BY <2>1, <1>a
  <1>6. ASSUME AnswerDecides \/ AnswerSaved \/ Refused \/ DismissDecides \/ DismissSaved
                 \/ ReadReturns \/ ReadParks \/ EmitProbes \/ EmitMarks \/ CancelSaved
                 \/ ReadFails
        PROVE  Stays
    <2>1. UNCHANGED idling
      BY <1>6, Zenon DEF AnswerDecides, AnswerSaved, Refused, DismissDecides, DismissSaved,
                         ReadReturns, ReadParks, EmitProbes, EmitMarks, CancelSaved, ReadFails
    <2> QED
      BY <2>1, <1>a DEF idling
  <1>7. ASSUME TaskFails \/ TimerFires \/ ShutsDown PROVE Stays
    <2>1. UNCHANGED <<active, restored>>
      BY <1>7, Zenon DEF TaskFails, TimerFires, ShutsDown
    <2> QED
      BY <2>1, <1>a
  <1>8. ASSUME SessionStops \/ Restore \/ Restart PROVE Stays
    BY <1>8, <1>a DEF SessionStops, Restore, Restart
  <1>9. ASSUME UNCHANGED vars PROVE Stays
    BY <1>9, <1>a DEF vars, idling
  <1>10. ASSUME \E q \in Questions :
                  \/ Ask(q) \/ \E op \in {"seen", "done"} : HookReports(op, q)
                  \/ \E op \in {"answer", "dismiss", "resolve"} : Command(op, q)
                  \/ MailAnswer(q) \/ Poll(q) \/ Deadline(q) \/ Forgotten(q)
                  \/ GivesUp(q) \/ Killed(q) \/ Closed(q)
         PROVE  Stays
    BY <1>10, <1>2, <1>3, <1>4
  <1>11. Stays
    BY <1>1, <1>5, <1>6, <1>7, <1>8, <1>9, <1>10 DEF Next, Tasks
  <1> QED
    BY <1>11 DEF Stays

\* Only an idle agent has a cycle, what is saved leaves an armed timer its
\* cycle, and a cancellation in line is of a session that was stopped.
LEMMA CycleStep ==
  CoreTyped /\ NoticeInv /\ AttInv /\ [Next]_vars
    => CycleIdle' /\ CancelStops' /\ DraftsCycle'
  <1> SUFFICES ASSUME CoreTyped, NoticeInv, AttInv, [Next]_vars
               PROVE  CycleIdle' /\ CancelStops' /\ DraftsCycle'
    OBVIOUS
  <1> DEFINE Goal == CycleIdle' /\ CancelStops' /\ DraftsCycle'
  <1> USE DEF Turn, clock, memory, idling
  <1>a. /\ LineTyped /\ ledger \in Ledger /\ draft \in Ledger /\ cycles \in Nat
        /\ ledger.cycle \in Nat /\ draft.cycle \in Nat /\ Empty.cycle = 0
    BY LedgerFields DEF CoreTyped, LedgerTyped, TimerTyped, Empty
  <1>b. CycleIdle /\ CancelStops /\ DraftsCycle /\ TimerRuns
    BY DEF AttInv
  <1>c. active' => active
    BY Staying
  <1>h. line # << >> => Head(line) = line[1] /\ 1 \in DOMAIN line
    BY <1>a, TurnFacts DEF LineTyped
  \* The head leaves with nothing saved, or with its draft.
  <1>p. ASSUME line # << >>, Popped, ledger' = ledger \/ (at = "saving" /\ ledger' = draft)
        PROVE  Goal
    <2>1. at' = "start"
      BY <1>p DEF Popped
    <2>2. CycleIdle'
      BY <1>p, <1>b, <2>1 DEF CycleIdle
    <2>3. CancelStops'
      BY <1>p, <1>a, <1>b, <1>c, AttendedPops DEF CancelStops
    <2> QED
      BY <2>1, <2>2, <2>3 DEF DraftsCycle
  \* A task joins.
  <1>g. ASSUME NEW t \in Task, Grown(t), t.op = "cancel" => ~active',
               ledger' = ledger, timer' \in {0, timer}
        PROVE  Goal
    <2>1. at' = at /\ draft' = draft
      BY <1>g DEF Grown
    <2>2. CycleIdle'
      BY <1>g, <1>b, <2>1 DEF CycleIdle
    <2>3. CancelStops'
      BY <1>g, <1>a, <1>b, <1>c, AttendedGrows DEF CancelStops
    <2>4. at = "saving" => line # << >> /\ line' # << >> /\ Head(line') = Head(line)
      BY <2>1, HeadStays
    <2>5. DraftsCycle'
      BY <1>g, <1>b, <2>1, <2>4 DEF DraftsCycle
    <2> QED
      BY <2>2, <2>3, <2>5
  \* The head goes on.
  <1>n. ASSUME line' = line, ledger' = ledger, at' # "saving" PROVE Goal
    BY <1>n, <1>b, <1>c DEF CycleIdle, CancelStops, DraftsCycle
  <1>s. ASSUME line' = line, ledger' = ledger,
               draft'.cycle # 0 => draft'.activity = "idle", DraftsCycle'
        PROVE  Goal
    BY <1>s, <1>b, <1>c DEF CycleIdle, CancelStops
  <1> SUFFICES Goal
    OBVIOUS
  <1> HIDE DEF Goal
  <1>1. CASE Aside
    <2>1. UNCHANGED <<line, at, ledger, draft, timer>>
      BY <1>1 DEF Aside
    <2> QED
      BY <2>1, <1>b, <1>n, <1>s DEF CycleIdle, DraftsCycle
  <1>2. CASE Joins
    BY <1>2, <1>g DEF Joins
  <1>3. CASE Reports
    <2>1. PICK t \in Task : Grown(t) /\ t.op \in Records /\ ledger' = ledger /\ timer' \in {0, timer}
      BY <1>3 DEF Reports, IdleCanceled, KeepTimer
    <2> QED
      BY <2>1, <1>g, RecordNames
  <1>4. CASE Leaves
    BY <1>4, <1>p DEF Leaves
  <1>5. CASE Files
    <2>1. /\ UNCHANGED <<line, ledger, timer>> /\ SameCycle(ledger, draft')
          /\ Head(line).op \in {"answer", "dismiss", "resolve"}
      BY <1>5 DEF Files
    <2>2. draft'.cycle # 0 => draft'.activity = "idle"
      BY <2>1, <1>b DEF SameCycle, CycleIdle
    <2>3. DraftsCycle'
      BY <2>1 DEF SameCycle, DraftsCycle
    <2> QED
      BY <2>1, <2>2, <2>3, <1>s
  <1>6. CASE Filed
    BY <1>6, <1>p DEF Filed
  <1>7. CASE RecordDecides
    <2>1. UNCHANGED <<line, ledger>> /\ line # << >>
      BY <1>7 DEF RecordDecides
    <2>2. timer' = timer \/ timer' = 0
      BY <1>7 DEF RecordDecides, IdleCanceled, KeepTimer
    <2>3. Head(line).op \in Busy \cup {"end"} => timer' = 0
      BY <1>7 DEF RecordDecides, IdleCanceled, Cancels
    <2>4. draft'.cycle # 0 => draft'.activity = "idle"
      <3>1. CASE Head(line).op = "request"
        BY <1>7, <1>a, <1>b, <3>1, RecordCycles DEF CycleIdle
      <3>2. CASE Head(line).op # "request"
        BY <1>7, <3>2, RecordCycles
      <3> QED
        BY <3>1, <3>2
    <2>5. ASSUME timer' # 0 PROVE draft'.cycle = ledger.cycle
      <3>1. timer # 0 /\ Head(line).op \in {"stop", "request"}
        BY <1>7, <2>2, <2>3, <2>5, RecordCycles
      <3>2. ledger.cycle # 0 /\ ledger.activity = "idle"
        BY <3>1, <1>b DEF TimerRuns, CycleIdle
      <3> QED
        BY <1>7, <3>1, <3>2, RecordCycles
    <2>6. DraftsCycle'
      BY <1>7, <2>1, <2>5, RecordCycles, RecordNames DEF DraftsCycle
    <2> QED
      BY <2>1, <2>4, <2>6, <1>s
  <1>8. CASE RecordSaved
    <2>1. Popped
      BY <1>8, <1>a, Woken DEF RecordSaved, Parked
    <2> QED
      BY <1>8, <2>1, <1>p DEF RecordSaved
  <1>9. CASE TimerFires
    <2> DEFINE t == [op |-> "emit", q |-> "none", cycle |-> timer]
    <2>1. t \in Task /\ t.op = "emit"
      BY DEF Task, CoreTyped, TimerTyped
    <2>2. Grown(t) /\ UNCHANGED <<ledger, timer>>
      BY <1>9, <1>a, <2>1, Grows DEF TimerFires
    <2> HIDE DEF t
    <2> QED
      BY <2>1, <2>2, <1>g
  <1>10. CASE EmitStops \/ NoticeMailed \/ NoParent \/ Restores \/ TaskFails
    <2>1. line # << >> /\ GiveWay /\ ledger' = ledger
      BY <1>10, Zenon DEF EmitStops, NoticeMailed, NoParent, Restores, TaskFails
    <2> QED
      BY <2>1, <1>a, <1>p, GivesWay
  <1>11. CASE EmitProbes
    BY <1>11, <1>n DEF EmitProbes
  <1>12. CASE EmitMarks
    <2>1. /\ UNCHANGED <<line, ledger, timer>> /\ line # << >> /\ Head(line).op = "emit"
          /\ \/ draft' = [ledger EXCEPT !.told = TRUE]
             \/ draft' = [ledger EXCEPT !.cycle = 0, !.told = FALSE]
      BY <1>12 DEF EmitMarks
    <2>2. /\ draft'.activity = ledger.activity
          /\ draft'.cycle = ledger.cycle \/ draft'.cycle = 0
      BY <2>1, <1>a DEF Ledger
    <2>3. draft'.cycle # 0 => draft'.activity = "idle"
      BY <2>2, <1>b DEF CycleIdle
    <2>4. DraftsCycle'
      BY <2>1, <2>2 DEF DraftsCycle
    <2> QED
      BY <2>1, <2>3, <2>4, <1>s
  <1>13. CASE EmitSaved
    <2>1. line # << >> /\ ledger' = draft /\ at = "saving"
      BY <1>13 DEF EmitSaved
    <2>2. CASE GiveWay
      BY <2>1, <2>2, <1>a, <1>p, GivesWay
    <2>3. CASE ~GiveWay
      <3>1. line' = line /\ at' = "calling"
        BY <1>13, <2>3 DEF EmitSaved
      <3> QED
        BY <2>1, <3>1, <1>b, <1>c DEF Goal, CycleIdle, CancelStops, DraftsCycle
    <2> QED
      BY <2>2, <2>3
  <1>14. CASE SessionStops
    <2>1. TaskOf("cancel", "none") \in Task /\ TaskOf("cancel", "none").op = "cancel"
      BY TaskTypes
    <2>2. Grown(TaskOf("cancel", "none")) /\ ledger' = ledger /\ timer' = 0 /\ ~active'
      BY <1>14, <1>a, <2>1, Grows DEF SessionStops, IdleCanceled
    <2> QED
      BY <2>1, <2>2, <1>g
  <1>15. CASE CancelDecides
    <2>1. CASE ledger.cycle # 0
      <3>1. /\ UNCHANGED <<line, ledger>> /\ line # << >> /\ Head(line).op = "cancel" /\ timer' = 0
            /\ draft' = [ledger EXCEPT !.cycle = 0, !.told = FALSE]
        BY <1>15, <2>1 DEF CancelDecides, IdleCanceled
      <3>2. draft'.cycle = 0
        BY <3>1, <1>a DEF Ledger
      <3>3. DraftsCycle'
        BY <3>1, <3>2 DEF DraftsCycle
      <3> QED
        BY <3>1, <3>2, <3>3, <1>s
    <2>2. CASE ledger.cycle = 0
      <3>1. line # << >> /\ GiveWay /\ ledger' = ledger
        BY <1>15, <2>2 DEF CancelDecides
      <3> QED
        BY <3>1, <1>a, <1>p, GivesWay
    <2> QED
      BY <2>1, <2>2
  <1>16. CASE ShutsDown
    <2>1. UNCHANGED <<line, at, ledger, draft>> /\ timer' = 0
      BY <1>16 DEF ShutsDown, IdleCanceled
    <2> QED
      BY <2>1, <1>b, <1>n, <1>s DEF CycleIdle, DraftsCycle
  <1>17. CASE Restart
    <2>1. ledger' = ledger \/ (at = "saving" /\ ledger' = draft)
      BY <1>17, RestartSaves
    <2>2. line' = << >> /\ at' = "start"
      BY <1>17 DEF Restart, Over
    <2> QED
      BY <2>1, <2>2, <1>b DEF Goal, CycleIdle, CancelStops, DraftsCycle
  <1> QED
    BY <1>1, <1>2, <1>3, <1>4, <1>5, <1>6, <1>7, <1>8, <1>9, <1>10, <1>11, <1>12, <1>13,
       <1>14, <1>15, <1>16, <1>17, StepKinds DEF CoreTyped

\* The timer runs for the cycle on record, and its firing is not lost.
LEMMA TimerStep ==
  CoreTyped /\ NoticeInv /\ AttInv /\ [Next]_vars => TimerRuns'
  <1> DEFINE Goal == TimerRuns'
  <1> SUFFICES ASSUME CoreTyped, NoticeInv, AttInv, [Next]_vars
               PROVE  Goal
    OBVIOUS
  <1> USE DEF Turn, clock, memory, idling, MyCycle, Current
  <1>a. /\ LineTyped /\ ledger \in Ledger /\ draft \in Ledger
        /\ ledger.cycle \in Nat /\ draft.cycle \in Nat /\ timer \in Nat
    BY LedgerFields DEF CoreTyped, LedgerTyped, TimerTyped
  <1>b. CycleIdle /\ CancelStops /\ DraftsCycle /\ TimerRuns
    BY DEF AttInv
  <1>e. Emitting /\ (ticking => timer # 0)
    BY DEF NoticeInv, CyclesKnown
  <1>z. ASSUME timer' = 0 PROVE Goal
    BY <1>z DEF TimerRuns
  \* The armed timer and its cycle stay, and so does the firing.
  <1>k. ASSUME timer # 0, timer' = timer, off' = off, ledger'.cycle = ledger.cycle,
               ticking /\ ~ticking' =>
                 \E i \in DOMAIN line' : line'[i].op = "emit" /\ line'[i].cycle = timer,
               EmitComes(timer) =>
                 \E i \in DOMAIN line' : line'[i].op = "emit" /\ line'[i].cycle = timer
        PROVE  Goal
    BY <1>k, <1>b DEF TimerRuns, EmitComes
  <1>l. ASSUME UNCHANGED <<line, timer, ticking, off>>, ledger'.cycle = ledger.cycle PROVE Goal
    BY <1>l, <1>k, <1>z DEF EmitComes
  <1>g. ASSUME NEW t \in Task, Grown(t), UNCHANGED <<ledger, off, timer>>,
               ticking' = ticking \/ (t.op = "emit" /\ t.cycle = timer)
        PROVE  Goal
    BY <1>g, <1>a, <1>k, <1>z, AttendedGrows
  <1>p. ASSUME line # << >>, Popped, UNCHANGED <<off, timer, ticking>>, timer # 0,
               Head(line).op = "emit" => Head(line).cycle # timer,
               ledger'.cycle = ledger.cycle
        PROVE  Goal
    BY <1>p, <1>a, <1>k, AttendedPops
  <1> HIDE DEF Goal
  <1>1. CASE Aside
    BY <1>1, <1>l DEF Aside
  <1>2. CASE Joins
    BY <1>2, <1>g DEF Joins
  <1>3. CASE Reports
    <2>1. PICK t \in Task :
            /\ Grown(t) /\ UNCHANGED <<ledger, off>>
            /\ timer' = 0 \/ UNCHANGED <<timer, ticking>>
      BY <1>3 DEF Reports, IdleCanceled, KeepTimer
    <2> QED
      BY <2>1, <1>g, <1>z
  <1>4. CASE Leaves
    <2>1. /\ line # << >> /\ Popped /\ Head(line).op # "emit"
          /\ UNCHANGED <<ledger, timer, ticking, off>>
      BY <1>4 DEF Leaves
    <2> QED
      BY <2>1, <1>p, <1>z
  <1>5. CASE Files
    BY <1>5, <1>l DEF Files
  <1>6. CASE Filed
    <2>1. /\ line # << >> /\ Popped /\ Head(line).op # "emit" /\ at = "saving"
          /\ ledger' = draft /\ UNCHANGED <<timer, ticking, off>>
      BY <1>6 DEF Filed
    <2>2. CASE timer # 0
      <3>1. ledger'.cycle = ledger.cycle
        BY <2>1, <2>2, <1>b DEF DraftsCycle
      <3> QED
        BY <2>1, <2>2, <3>1, <1>p
    <2> QED
      BY <2>1, <2>2, <1>z
  <1>7. CASE RecordDecides
    <2>1. UNCHANGED <<line, ledger, off>> /\ (timer' = 0 \/ UNCHANGED <<timer, ticking>>)
      BY <1>7 DEF RecordDecides, IdleCanceled, KeepTimer
    <2> QED
      BY <2>1, <1>l, <1>z
  <1>8. CASE RecordSaved
    <2>1. Popped
      BY <1>8, <1>a, Woken DEF RecordSaved, Parked
    <2>2. /\ line # << >> /\ Head(line).op \in Records /\ at = "saving"
          /\ ledger' = draft /\ off' = off
      BY <1>8 DEF RecordSaved
    <2>3. CASE Schedule(draft.cycle) /\ ~off
      BY <2>2, <2>3 DEF Schedule, Goal, TimerRuns
    <2>4. CASE KeepTimer /\ timer # 0
      <3>1. ledger'.cycle = ledger.cycle /\ Head(line).op # "emit"
        BY <2>2, <2>4, <1>b, RecordNames DEF DraftsCycle
      <3> QED
        BY <2>1, <2>2, <2>4, <3>1, <1>p DEF KeepTimer
    <2>5. CASE KeepTimer /\ timer = 0
      BY <2>5, <1>z DEF KeepTimer
    <2> QED
      BY <1>8, <2>3, <2>4, <2>5 DEF RecordSaved
  <1>9. CASE TimerFires
    <2> DEFINE t == [op |-> "emit", q |-> "none", cycle |-> timer]
    <2>1. t \in Task /\ t.op = "emit" /\ t.cycle = timer
      BY DEF Task, CoreTyped, TimerTyped
    <2>2. Grown(t) /\ UNCHANGED <<ledger, timer, off>>
      BY <1>9, <1>a, <2>1, Grows DEF TimerFires
    <2> HIDE DEF t
    <2> QED
      BY <2>1, <2>2, <1>g
  \* A firing that is not the timer's any more leaves the timer alone.
  <1>10. ASSUME Turn({"emit"}), GiveWay, UNCHANGED <<timer, ticking, off>>, timer # MyCycle,
                timer # 0 => ledger'.cycle = ledger.cycle
         PROVE  Goal
    <2>1. Popped
      BY <1>10, <1>a, GivesWay
    <2> QED
      BY <1>10, <2>1, <1>p, <1>z
  <1>11. CASE EmitStops
    <2>1. Turn({"emit"}) /\ GiveWay /\ UNCHANGED <<ledger, off>>
      BY <1>11 DEF EmitStops
    <2>2. timer' = 0 \/ (~Current(MyCycle) /\ UNCHANGED <<timer, ticking>>)
      BY <1>11 DEF EmitStops, IdleCanceled, KeepTimer
    <2>3. CASE timer # 0
      BY <2>1, <2>2, <2>3, <1>b, <1>10, <1>z DEF TimerRuns
    <2> QED
      BY <2>2, <2>3, <1>z
  <1>12. CASE EmitProbes \/ EmitMarks
    <2>1. UNCHANGED <<line, ledger, timer, ticking, off>>
      BY <1>12, Zenon DEF EmitProbes, EmitMarks
    <2> QED
      BY <2>1, <1>l
  <1>13. CASE EmitSaved
    <2>1. Turn({"emit"}) /\ at = "saving" /\ ledger' = draft /\ off' = off
      BY <1>13 DEF EmitSaved
    <2>2. CASE draft.cycle = 0
      BY <1>13, <2>2, <1>z DEF EmitSaved, IdleCanceled
    <2>3. CASE draft.cycle # 0
      <3>1. UNCHANGED <<timer, ticking>> /\ ((GiveWay /\ ~Current(MyCycle)) \/ line' = line)
        BY <1>13, <2>3 DEF EmitSaved, KeepTimer
      <3>2. timer # 0 => ledger'.cycle = ledger.cycle
        BY <2>1, <2>3, <1>b DEF DraftsCycle
      <3>3. CASE timer = 0
        BY <3>1, <3>3, <1>z
      <3>4. CASE timer # 0 /\ line' = line
        BY <2>1, <3>1, <3>2, <3>4, <1>l
      <3>5. CASE timer # 0 /\ GiveWay /\ ~Current(MyCycle)
        <4>1. timer # MyCycle
          BY <3>5, <1>b DEF TimerRuns
        <4> QED
          BY <2>1, <3>1, <3>2, <3>5, <4>1, <1>10
      <3> QED
        BY <3>1, <3>3, <3>4, <3>5
    <2> QED
      BY <2>2, <2>3
  <1>14. CASE NoticeMailed \/ SessionStops \/ CancelDecides \/ ShutsDown \/ Restart
    <2>1. timer' = 0
      BY <1>14, Zenon DEF NoticeMailed, SessionStops, CancelDecides, ShutsDown, Restart,
                          IdleCanceled
    <2> QED
      BY <2>1, <1>z
  <1>15. CASE NoParent
    <2>1. Turn({"emit"}) /\ GiveWay /\ UNCHANGED <<ledger, off>>
      BY <1>15 DEF NoParent
    <2>2. timer' = 0 \/ (timer # MyCycle /\ UNCHANGED <<timer, ticking>>)
      BY <1>15 DEF NoParent, IdleCanceled, KeepTimer
    <2> QED
      BY <2>1, <2>2, <1>10, <1>z
  <1>16. CASE Restores
    <2>1. line # << >> /\ Head(line).op = "restore" /\ Popped /\ UNCHANGED <<ledger, off>>
      BY <1>16, <1>a, GivesWay DEF Restores
    <2>2. CASE Schedule(ledger.cycle) /\ ~off
      BY <2>1, <2>2 DEF Schedule, Goal, TimerRuns
    <2>3. CASE KeepTimer
      <3>1. UNCHANGED <<timer, ticking>>
        BY <2>3 DEF KeepTimer
      <3> QED
        BY <2>1, <3>1, <1>p, <1>z
    <2> QED
      BY <1>16, <2>2, <2>3 DEF Restores
  <1>17. CASE TaskFails
    <2>1. line # << >> /\ GiveWay /\ Popped /\ UNCHANGED <<ledger, off>>
      BY <1>17, <1>a, GivesWay DEF TaskFails
    <2>2. \/ timer' = 0
          \/ UNCHANGED <<timer, ticking>> /\ ~(Turn({"emit"}) /\ timer = MyCycle)
      BY <1>17 DEF TaskFails, IdleCanceled, KeepTimer
    <2> QED
      BY <2>1, <2>2, <1>p, <1>z
  <1> QED
    BY <1>1, <1>2, <1>3, <1>4, <1>5, <1>6, <1>7, <1>8, <1>9, <1>11, <1>12, <1>13,
       <1>14, <1>15, <1>16, <1>17, StepKinds DEF CoreTyped

\* A cycle that lost its timer is not armed any more, or a restart took the
\* timer, or a sign of work that is still in line.
LEMMA ArmedStep ==
  CoreTyped /\ NoticeInv /\ AttInv /\ [Next]_vars => ArmedAttended'
  <1> DEFINE Goal == ArmedAttended'
  <1> SUFFICES ASSUME CoreTyped, NoticeInv, AttInv, [Next]_vars
               PROVE  Goal
    OBVIOUS
  <1> USE DEF Turn, clock, memory, idling, MyCycle, Current
  <1>a. /\ LineTyped /\ ledger \in Ledger /\ draft \in Ledger
        /\ ledger.cycle \in Nat /\ draft.cycle \in Nat /\ timer \in Nat
    BY LedgerFields DEF CoreTyped, LedgerTyped, TimerTyped
  <1>b. CycleIdle /\ CancelStops /\ DraftsCycle /\ TimerRuns /\ ArmedAttended
    BY DEF AttInv
  <1>e. /\ Emitting /\ (ticking => timer # 0)
        /\ \A i \in DOMAIN line : line[i].op = "emit" => line[i].cycle # 0
    BY DEF NoticeInv, CyclesKnown
  <1>h. line # << >> => Head(line) = line[1] /\ 1 \in DOMAIN line
    BY <1>a, TurnFacts DEF LineTyped
  <1>y. lapsed \subseteq lapsed' /\ (active' => active)
        /\ (restored' = restored \/ Restart \/ Restore)
    BY Lapsing, Staying
  <1>z. ASSUME ~Armed' \/ timer' # 0 \/ ~restored' \/ RevivalComes' PROVE Goal
    BY <1>z DEF ArmedAttended
  <1>r. CASE Restart
    BY <1>r, <1>z DEF Restart
  <1>s. CASE Restore
    <2>1. CASE active
      <3>1. TaskOf("restore", "none") \in Task /\ TaskOf("restore", "none").op = "restore"
        BY TaskTypes
      <3>2. Grown(TaskOf("restore", "none"))
        BY <1>s, <1>a, <2>1, <3>1, Grows DEF Restore
      <3>3. RevivalComes'
        BY <1>a, <3>1, <3>2, AttendedGrows DEF Revives
      <3> QED
        BY <3>3, <1>z
    <2>2. CASE ~active
      BY <1>y, <1>z, <2>2 DEF Armed
    <2> QED
      BY <2>1, <2>2
  \* The cycle and its timer are as they were, and what arms it still comes.
  <1>k. ASSUME ~Restart, ~Restore, off' = off, timer' = timer,
               ledger'.cycle = ledger.cycle, ledger'.told = ledger.told,
               RevivalComes => RevivalComes'
        PROVE  Goal
    <2>1. ASSUME Armed', timer' = 0, restored' PROVE RevivalComes'
      <3>1. Armed /\ timer = 0 /\ restored
        BY <1>k, <1>y, <2>1 DEF Armed
      <3> QED
        BY <1>k, <1>b, <3>1 DEF ArmedAttended
    <2> QED
      BY <2>1, <1>z
  <1>l. ASSUME ~Restart, ~Restore, UNCHANGED <<line, ledger, timer, off>> PROVE Goal
    BY <1>l, <1>k DEF RevivalComes
  <1>g. ASSUME ~Restart, ~Restore, NEW t \in Task, Grown(t), UNCHANGED <<ledger, off>>,
               timer' = timer \/ Revives(t.op)
        PROVE  Goal
    BY <1>g, <1>a, <1>k, <1>z, AttendedGrows
  <1>p. ASSUME ~Restart, ~Restore, line # << >>, Popped, UNCHANGED <<off, timer>>,
               ~Revives(Head(line).op),
               ledger'.cycle = ledger.cycle, ledger'.told = ledger.told
        PROVE  Goal
    BY <1>p, <1>a, <1>k, AttendedPops
  <1> HIDE DEF Goal
  <1>0. SUFFICES ASSUME ~Restart, ~Restore PROVE Goal
    BY <1>r, <1>s
  <1>1. CASE Aside
    BY <1>0, <1>1, <1>l DEF Aside
  <1>2. CASE Joins
    BY <1>0, <1>2, <1>g DEF Joins
  <1>3. CASE Reports
    <2>1. PICK t \in Task :
            /\ Grown(t) /\ UNCHANGED <<ledger, off>>
            /\ timer' = timer \/ Cancels(t.op)
      BY <1>3 DEF Reports, KeepTimer
    <2> QED
      BY <2>1, <1>0, <1>g DEF Revives
  <1>4. CASE Leaves
    <2>1. ~Revives(Head(line).op)
      BY <1>4, RecordNames DEF Leaves, Revives, Cancels
    <2> QED
      BY <1>4, <2>1, <1>0, <1>p DEF Leaves
  <1>5. CASE Files
    BY <1>0, <1>5, <1>l DEF Files
  <1>6. CASE Filed
    <2>1. /\ line # << >> /\ Popped /\ at = "saving" /\ ledger' = draft /\ UNCHANGED <<timer, off>>
          /\ Head(line).op \in {"answer", "dismiss", "resolve", "cancel"}
      BY <1>6 DEF Filed
    <2>2. CASE Head(line).op = "cancel"
      BY <2>1, <2>2, <1>b, <1>z DEF DraftsCycle, Armed
    <2>3. CASE Head(line).op # "cancel"
      <3>1. ledger'.cycle = ledger.cycle /\ ledger'.told = ledger.told
        BY <2>1, <2>3, <1>b DEF DraftsCycle
      <3>2. ~Revives(Head(line).op)
        BY <2>1, RecordNames DEF Revives, Cancels
      <3> QED
        BY <2>1, <3>1, <3>2, <1>0, <1>p
    <2> QED
      BY <2>2, <2>3
  <1>7. CASE RecordDecides
    <2>1. line # << >> /\ UNCHANGED <<line, ledger, off>> /\ (timer' = timer \/ Cancels(Head(line).op))
      BY <1>7 DEF RecordDecides, KeepTimer
    <2>2. CASE Cancels(Head(line).op)
      BY <2>1, <2>2, <1>h, <1>z DEF RevivalComes, Revives
    <2> QED
      BY <2>1, <2>2, <1>0, <1>l
  \* The cycle that is saved gets its timer.
  <1>8. CASE RecordSaved
    <2>1. at = "saving" /\ ledger' = draft /\ off' = off
      BY <1>8 DEF RecordSaved
    <2>2. CASE draft.activity = "idle" /\ draft.cycle # 0 /\ ~draft.told /\ timer = 0 /\ ~off
      BY <1>8, <2>2, <1>z DEF RecordSaved, Schedule
    <2>3. CASE ~(draft.activity = "idle" /\ draft.cycle # 0 /\ ~draft.told /\ timer = 0 /\ ~off)
      <3>1. timer' = timer
        BY <1>8, <2>3 DEF RecordSaved, KeepTimer
      <3> QED
        BY <2>1, <2>3, <3>1, <1>b, <1>z DEF CycleIdle, Armed
    <2> QED
      BY <2>2, <2>3
  <1>9. CASE TimerFires
    BY <1>9, <1>e, <1>z DEF TimerFires
  <1>10. CASE EmitStops
    <2>1. /\ line # << >> /\ Head(line).op = "emit" /\ UNCHANGED <<ledger, off>> /\ Popped
          /\ MyCycle # 0
      BY <1>10, <1>a, <1>e, <1>h, GivesWay DEF EmitStops
    <2>2. CASE KeepTimer
      <3>1. ~Revives(Head(line).op)
        BY <2>1, RecordNames DEF Revives, Cancels
      <3> QED
        BY <2>1, <2>2, <3>1, <1>0, <1>p DEF KeepTimer
    <2>3. CASE Current(MyCycle)
               /\ (ledger.cycle # MyCycle \/ ledger.told \/ ledger.activity # "idle")
      <3>1. ledger.cycle = MyCycle
        BY <2>1, <2>3, <1>b DEF TimerRuns
      <3> QED
        BY <2>1, <2>3, <3>1, <1>b, <1>z DEF CycleIdle, Armed
    <2> QED
      BY <1>10, <2>2, <2>3 DEF EmitStops
  <1>11. CASE EmitProbes \/ EmitMarks
    <2>1. UNCHANGED <<line, ledger, timer, off>>
      BY <1>11, Zenon DEF EmitProbes, EmitMarks
    <2> QED
      BY <2>1, <1>0, <1>l
  <1>12. CASE EmitSaved
    BY <1>12, <1>e, <1>z DEF EmitSaved, Emitting, Armed
  <1>13. CASE NoticeMailed \/ NoParent
    <2>1. Turn({"emit"}) /\ at = "calling" /\ ledger' = ledger
      BY <1>13 DEF NoticeMailed, NoParent
    <2> QED
      BY <2>1, <1>e, <1>z DEF Emitting, Armed
  <1>14. CASE SessionStops
    BY <1>14, <1>z DEF SessionStops, Armed
  <1>15. CASE CancelDecides
    <2>1. line # << >> /\ Head(line).op = "cancel"
      BY <1>15 DEF CancelDecides
    <2>2. ~active'
      BY <2>1, <1>b, <1>h, <1>y DEF CancelStops
    <2> QED
      BY <2>2, <1>z DEF Armed
  <1>16. CASE ShutsDown
    BY <1>16, <1>z DEF ShutsDown, Armed
  <1>17. CASE Restores
    <2>1. ledger' = ledger /\ off' = off
      BY <1>17 DEF Restores
    <2>2. CASE ledger.activity = "idle" /\ ledger.cycle # 0 /\ ~ledger.told /\ ~off
      BY <1>17, <2>2, <1>z DEF Restores, Schedule
    <2>3. CASE ~(ledger.activity = "idle" /\ ledger.cycle # 0 /\ ~ledger.told /\ ~off)
      BY <2>1, <2>3, <1>b, <1>z DEF CycleIdle, Armed
    <2> QED
      BY <2>2, <2>3
  <1>18. CASE TaskFails
    BY <1>18, <1>z DEF TaskFails, Fault, Lapse, Armed
  <1> QED
    BY <1>0, <1>1, <1>2, <1>3, <1>4, <1>5, <1>6, <1>7, <1>8, <1>9, <1>10, <1>11, <1>12, <1>13,
       <1>14, <1>15, <1>16, <1>17, <1>18, StepKinds DEF CoreTyped

\* Only giving up a notice, and a restart, add to what is forgone.
LEMMA Forgoing ==
  ASSUME [Next]_vars
  PROVE  forgone' = forgone \/ NoParent \/ Restart
  <1> DEFINE Kept == forgone' = forgone \/ NoParent \/ Restart
  <1>a. UNCHANGED counts \/ Event \/ (\E f : Fault(f)) => Kept
    BY DEF counts, Event, Fault
  <1> HIDE DEF Kept
  <1>1. ASSUME NEW op, Signal(op) PROVE Kept
    BY <1>1, <1>a DEF Signal
  <1>2. ASSUME NEW q \in Questions, Ask(q) PROVE Kept
    BY <1>2, <1>a DEF Ask
  <1>3. ASSUME NEW q \in Questions, NEW op, HookReports(op, q) \/ Command(op, q) PROVE Kept
    BY <1>3, <1>a DEF HookReports, Command
  <1>4. ASSUME NEW q \in Questions,
               \/ MailAnswer(q) \/ Poll(q) \/ Deadline(q) \/ Forgotten(q)
               \/ GivesUp(q) \/ Killed(q) \/ Closed(q)
        PROVE  Kept
    <2>1. UNCHANGED counts \/ \E f : Fault(f)
      BY <1>4, Zenon DEF MailAnswer, Poll, Deadline, Forgotten, GivesUp, Killed, Closed
    <2> QED
      BY <2>1, <1>a
  <1>5. ASSUME \/ RecordDecides \/ RecordSaved \/ EmitStops \/ EmitSaved \/ NoticeMailed
               \/ CancelDecides \/ Restores \/ TimerFires \/ SessionStops \/ Restore
        PROVE  Kept
    <2>1. UNCHANGED counts
      BY <1>5, Zenon DEF RecordDecides, RecordSaved, EmitStops, EmitSaved, NoticeMailed,
                         CancelDecides, Restores, TimerFires, SessionStops, Restore
    <2> QED
      BY <2>1, <1>a
  <1>6. ASSUME \/ AnswerDecides \/ AnswerSaved \/ Refused \/ DismissDecides \/ DismissSaved
               \/ ReadReturns \/ ReadParks \/ EmitProbes \/ EmitMarks \/ CancelSaved
        PROVE  Kept
    <2>1. UNCHANGED counts
      BY <1>6, Zenon DEF AnswerDecides, AnswerSaved, Refused, DismissDecides, DismissSaved,
                         ReadReturns, ReadParks, EmitProbes, EmitMarks, CancelSaved
    <2> QED
      BY <2>1, <1>a
  <1>7. ASSUME ReadFails \/ TaskFails \/ ShutsDown PROVE Kept
    <2>1. \E f : Fault(f)
      BY <1>7 DEF ReadFails, TaskFails, ShutsDown
    <2> QED
      BY <2>1, <1>a
  <1>8. ASSUME NoParent \/ Restart PROVE Kept
    BY <1>8 DEF Kept
  <1>9. ASSUME UNCHANGED vars PROVE Kept
    BY <1>9, <1>a DEF vars
  <1>10. ASSUME \E q \in Questions :
                  \/ Ask(q) \/ \E op \in {"seen", "done"} : HookReports(op, q)
                  \/ \E op \in {"answer", "dismiss", "resolve"} : Command(op, q)
                  \/ MailAnswer(q) \/ Poll(q) \/ Deadline(q) \/ Forgotten(q)
                  \/ GivesUp(q) \/ Killed(q) \/ Closed(q)
         PROVE  Kept
    BY <1>10, <1>2, <1>3, <1>4
  <1>11. Kept
    BY <1>1, <1>5, <1>6, <1>7, <1>8, <1>9, <1>10 DEF Next, Tasks
  <1> QED
    BY <1>11 DEF Kept

\* What is saved leaves a mark as it was, but for the firing's own.
LEMMA DraftStep ==
  CoreTyped /\ AttInv /\ [Next]_vars => DraftsMark'
  <1> SUFFICES ASSUME CoreTyped, AttInv, [Next]_vars PROVE DraftsMark'
    OBVIOUS
  <1> USE DEF Turn, clock, memory, idling
  <1>a. /\ LineTyped /\ ledger \in Ledger /\ draft \in Ledger /\ DraftsMark
    BY DEF AttInv, CoreTyped, LedgerTyped
  <1>n. at' # "saving" => DraftsMark'
    BY DEF DraftsMark
  <1>s. UNCHANGED <<line, at, draft, ledger>> => DraftsMark'
    BY <1>a DEF DraftsMark
  <1>g. ASSUME NEW t \in Task, Grown(t), ledger' = ledger PROVE DraftsMark'
    <2>1. at' = at /\ draft' = draft /\ line' # << >>
      BY <1>g DEF Grown
    <2>2. at = "saving" => line # << >> /\ Head(line') = Head(line)
      BY <2>1, HeadStays
    <2> QED
      BY <1>a, <1>g, <2>1, <2>2 DEF DraftsMark
  <1>1. CASE Aside \/ ShutsDown
    BY <1>1, <1>s DEF Aside, ShutsDown
  <1>2. CASE Joins \/ Reports
    BY <1>2, <1>g DEF Joins, Reports
  <1>3. CASE Leaves \/ Filed
    BY <1>3, <1>n DEF Leaves, Filed, Popped
  <1>4. CASE RecordSaved \/ EmitStops \/ EmitProbes \/ EmitSaved \/ NoticeMailed \/ NoParent
             \/ Restart \/ Restores \/ TaskFails
    <2>1. at' # "saving"
      BY <1>4 DEF RecordSaved, EmitStops, EmitProbes, EmitSaved, NoticeMailed, NoParent,
                  Restart, Restores, TaskFails, Wake, GiveWay, Over
    <2> QED
      BY <2>1, <1>n
  <1>5. CASE Files
    BY <1>5, RecordNames DEF Files, SameCycle, DraftsMark, Cancels
  <1>6. CASE RecordDecides
    <2>1. UNCHANGED <<line, ledger>>
      BY <1>6 DEF RecordDecides
    <2>2. draft'.told => draft'.cycle = ledger.cycle /\ ledger.told
      BY <1>6, RecordDrafts
    <2>3. Cancels(Head(line).op) => draft'.cycle = 0
      BY <1>6, RecordCycles DEF Cancels
    <2> QED
      BY <2>1, <2>2, <2>3 DEF DraftsMark
  <1>7. CASE TimerFires
    <2> DEFINE t == [op |-> "emit", q |-> "none", cycle |-> timer]
    <2>1. t \in Task
      BY DEF Task, CoreTyped, TimerTyped
    <2>2. Grown(t) /\ ledger' = ledger
      BY <1>7, <1>a, <2>1, Grows DEF TimerFires
    <2> QED
      BY <2>1, <2>2, <1>g
  <1>8. CASE EmitMarks
    BY <1>8, RecordNames DEF EmitMarks, DraftsMark, Cancels
  <1>9. CASE SessionStops
    <2>1. TaskOf("cancel", "none") \in Task
      BY TaskTypes
    <2>2. Grown(TaskOf("cancel", "none")) /\ ledger' = ledger
      BY <1>9, <1>a, <2>1, Grows DEF SessionStops
    <2> QED
      BY <2>1, <2>2, <1>g
  <1>10. CASE CancelDecides
    <2>1. CASE ledger.cycle # 0
      <3>1. /\ draft' = [ledger EXCEPT !.cycle = 0, !.told = FALSE]
            /\ line' = line /\ Head(line).op = "cancel"
        BY <1>10, <2>1 DEF CancelDecides
      <3>2. ~draft'.told
        BY <3>1, <1>a DEF Ledger
      <3> QED
        BY <3>1, <3>2, RecordNames DEF DraftsMark, Cancels
    <2>2. CASE ledger.cycle = 0
      BY <1>10, <2>2, <1>n DEF CancelDecides, GiveWay, Over
    <2> QED
      BY <2>1, <2>2
  <1> QED
    BY <1>a, <1>1, <1>2, <1>3, <1>4, <1>5, <1>6, <1>7, <1>8, <1>9, <1>10, StepKinds
       DEF CoreTyped

\* Between the mark and the mail only what ends the cycle, or the bridge, takes
\* the timer away from the firing; a bridge that ends forgoes the notice.
LEMMA MarkStep ==
  CoreTyped /\ NoticeInv /\ AttInv /\ [Next]_vars => MarkKept' /\ MarkAttended'
  <1> DEFINE Goal == MarkKept' /\ MarkAttended'
  <1> SUFFICES ASSUME CoreTyped, NoticeInv, AttInv, [Next]_vars
               PROVE  Goal
    OBVIOUS
  <1> USE DEF Turn, clock, memory, idling, MyCycle, Current
  <1>a. LineTyped /\ ledger \in Ledger /\ draft \in Ledger
    BY DEF CoreTyped, LedgerTyped
  <1>b. CancelStops /\ DraftsCycle /\ DraftsMark /\ MarkKept /\ MarkAttended
    BY DEF AttInv
  <1>e. Emitting
    BY DEF NoticeInv
  <1>h. line # << >> => Head(line) = line[1] /\ 1 \in DOMAIN line
    BY <1>a, TurnFacts DEF LineTyped
  <1>y. lapsed \subseteq lapsed' /\ (active' => active)
    BY Lapsing, Staying
  <1>f. ~Restart => forgone \subseteq forgone'
    BY Forgoing DEF NoParent
  <1>c. ASSUME CancelComes' PROVE Goal
    BY <1>c DEF MarkKept, MarkAttended
  <1>z. ASSUME ~Untold', MarkKept' PROVE Goal
    BY <1>z DEF MarkAttended
  <1>n. ASSUME at' \notin {"saving", "calling"} PROVE MarkKept'
    BY <1>n DEF MarkKept
  \* A notice that is owed was owed before.
  <1>u. ASSUME ~Restart, UNCHANGED <<off, notices>>, ledger'.cycle = ledger.cycle, Untold'
        PROVE  Untold
    BY <1>u, <1>y, <1>f DEF Untold, Noticed
  <1>r. CASE Restart
    <2>1. at' = "start" /\ notices' = notices
      BY <1>r DEF Restart, Over
    <2>2. ledger'.told /\ ~Noticed(ledger'.cycle) => ledger'.cycle \in forgone'
      BY <1>r, Zenon DEF Restart
    <2>3. MarkAttended'
      BY <2>1, <2>2 DEF MarkAttended, Untold, Noticed
    <2> QED
      BY <2>1, <2>3, <1>n
  \* The head leaves, and it was not the firing that mails.
  <1>p. ASSUME ~Restart, line # << >>, Popped, UNCHANGED <<off, notices>>,
               ~Cancels(Head(line).op), ~Mailing,
               ledger'.told => ledger.told /\ ledger'.cycle = ledger.cycle
        PROVE  Goal
    <2>1. MarkKept'
      BY <1>p, <1>n DEF Popped
    <2>2. ASSUME Untold', ledger'.told PROVE CancelComes'
      <3>1. Untold /\ ledger.told
        BY <1>p, <1>u, <2>2
      <3> QED
        BY <1>a, <1>b, <1>p, <3>1, AttendedPops DEF MarkAttended
    <2> QED
      BY <2>1, <2>2 DEF MarkAttended
  \* The head goes on, and it is not the firing that mails.
  <1>l. ASSUME ~Restart, UNCHANGED <<line, ledger, off, notices>>, ~Mailing, MarkKept'
        PROVE  Goal
    <2>1. ASSUME Untold', ledger'.told PROVE CancelComes'
      <3>1. Untold /\ ledger.told
        BY <1>l, <1>u, <2>1
      <3> QED
        BY <1>b, <1>l, <3>1 DEF MarkAttended, CancelComes
    <2> QED
      BY <1>l, <2>1 DEF MarkAttended
  \* A task joins.
  <1>g. ASSUME ~Restart, NEW t \in Task, Grown(t), UNCHANGED <<ledger, off, notices>>,
               timer' = timer \/ Cancels(t.op)
        PROVE  Goal
    <2>1. CASE Cancels(t.op) \/ CancelComes
      BY <1>a, <1>c, <1>g, <2>1, AttendedGrows
    <2>2. CASE timer' = timer /\ ~CancelComes
      <3>1. at' = at /\ draft' = draft /\ line' # << >>
        BY <1>g DEF Grown
      <3>2. line # << >> => Head(line') = Head(line)
        <4>1. line # << >> => line'[1] = line[1] /\ line' \in Seq(Task)
          BY <1>g, <1>h DEF Grown
        <4> QED
          BY <1>h, <3>1, <4>1, HeadTailProperties
      <3>3. line = << >> => at' = "start"
        BY <1>a, <3>1 DEF LineTyped
      <3>4. MarkKept'
        BY <1>b, <1>g, <1>y, <2>2, <3>1, <3>2, <3>3 DEF MarkKept
      <3>5. ASSUME Untold', ledger'.told PROVE Mailing'
        <4>1. Untold /\ ledger.told
          BY <1>g, <1>u, <3>5
        <4> QED
          BY <1>b, <1>g, <2>2, <3>1, <3>2, <4>1 DEF MarkAttended, Mailing
      <3> QED
        BY <3>4, <3>5 DEF MarkAttended
    <2> QED
      BY <1>g, <2>1, <2>2
  <1> HIDE DEF Goal
  <1>0. SUFFICES ASSUME ~Restart PROVE Goal
    BY <1>r
  <1>1. CASE Aside
    <2>1. UNCHANGED <<line, at, draft, ledger, timer, off, active, notices>>
      BY <1>1 DEF Aside
    <2>2. MarkKept'
      BY <1>b, <2>1 DEF MarkKept, CancelComes
    <2>3. ASSUME Untold', ledger'.told PROVE Mailing' \/ CancelComes'
      <3>1. Untold /\ ledger.told
        BY <1>0, <1>u, <2>1, <2>3
      <3> QED
        BY <1>b, <2>1, <3>1 DEF MarkAttended, Mailing, CancelComes
    <2> QED
      BY <2>2, <2>3 DEF Goal, MarkAttended
  <1>2. CASE Joins
    BY <1>0, <1>2, <1>g DEF Joins
  <1>3. CASE Reports
    <2>1. PICK t \in Task :
            /\ Grown(t) /\ UNCHANGED <<ledger, off, notices>>
            /\ timer' = timer \/ Cancels(t.op)
      BY <1>3 DEF Reports, KeepTimer
    <2> QED
      BY <2>1, <1>0, <1>g
  <1>4. CASE Leaves
    <2>1. ~Cancels(Head(line).op) /\ ~Mailing
      BY <1>4, RecordNames DEF Leaves, Cancels, Mailing
    <2> QED
      BY <1>4, <2>1, <1>0, <1>p DEF Leaves
  <1>5. CASE Files
    <2>1. UNCHANGED <<line, ledger, off, notices>> /\ Head(line).op # "emit"
      BY <1>5 DEF Files
    <2>2. MarkKept' /\ ~Mailing
      BY <2>1 DEF MarkKept, Mailing
    <2> QED
      BY <2>1, <2>2, <1>0, <1>l
  <1>6. CASE Filed \/ RecordSaved
    <2>1. /\ line # << >> /\ at = "saving" /\ ledger' = draft /\ UNCHANGED <<off, notices>>
          /\ Head(line).op # "emit"
      BY <1>6, RecordNames DEF Filed, RecordSaved
    <2>2. Popped
      BY <1>6, <1>a, <2>1, Woken DEF Filed, RecordSaved, Parked
    <2>3. CASE Cancels(Head(line).op)
      <3>1. ~Untold'
        BY <1>b, <2>1, <2>3 DEF DraftsMark, Untold
      <3> QED
        BY <1>n, <1>z, <2>2, <3>1 DEF Popped
    <2>4. CASE ~Cancels(Head(line).op)
      <3>1. ledger'.told => ledger.told /\ ledger'.cycle = ledger.cycle
        BY <1>b, <2>1 DEF DraftsMark
      <3>2. ~Mailing
        BY <2>1 DEF Mailing
      <3> QED
        BY <1>0, <1>p, <2>1, <2>2, <2>4, <3>1, <3>2
    <2> QED
      BY <2>3, <2>4
  <1>7. CASE RecordDecides
    <2>1. UNCHANGED <<line, ledger, off, notices>> /\ Head(line).op # "emit"
      BY <1>7, RecordNames DEF RecordDecides
    <2>2. MarkKept' /\ ~Mailing
      BY <2>1 DEF MarkKept, Mailing
    <2> QED
      BY <2>1, <2>2, <1>0, <1>l
  <1>9. CASE TimerFires
    <2> DEFINE t == [op |-> "emit", q |-> "none", cycle |-> timer]
    <2>1. t \in Task
      BY DEF Task, CoreTyped, TimerTyped
    <2>2. Grown(t) /\ UNCHANGED <<ledger, off, notices, timer>>
      BY <1>9, <1>a, <2>1, Grows DEF TimerFires
    <2> HIDE DEF t
    <2> QED
      BY <2>1, <2>2, <1>0, <1>g
  <1>10. CASE EmitStops
    <2>1. /\ line # << >> /\ Popped /\ UNCHANGED <<ledger, off, notices>>
          /\ ~Cancels(Head(line).op)
      BY <1>10, <1>a, GivesWay, RecordNames DEF EmitStops, Cancels
    <2>2. CASE ~Mailing
      BY <2>1, <2>2, <1>0, <1>p
    <2>3. CASE Mailing
      <3>1. off
        BY <1>10, <2>3 DEF EmitStops, Mailing
      <3>2. ~Untold'
        BY <2>1, <3>1 DEF Untold
      <3> QED
        BY <1>n, <1>z, <2>1, <3>2 DEF Popped
    <2> QED
      BY <2>2, <2>3
  <1>11. CASE EmitProbes
    <2>1. UNCHANGED <<line, ledger, off, notices>> /\ at' = "probing" /\ ~Mailing
      BY <1>11 DEF EmitProbes, Mailing
    <2> QED
      BY <2>1, <1>0, <1>l, <1>n
  <1>12. CASE EmitMarks
    <2>1. UNCHANGED <<line, ledger, off, notices>> /\ timer' = timer /\ timer = MyCycle /\ ~Mailing
      BY <1>12 DEF EmitMarks, Mailing
    <2>2. MarkKept'
      BY <2>1 DEF MarkKept
    <2> QED
      BY <2>1, <2>2, <1>0, <1>l
  \* Marked: the firing still has the timer, or what ends the cycle has come.
  <1>13. CASE EmitSaved
    <2>1. /\ line # << >> /\ Head(line).op = "emit" /\ at = "saving" /\ ledger' = draft
          /\ UNCHANGED <<off, active, notices>>
      BY <1>13 DEF EmitSaved
    <2>2. CASE draft.cycle = 0
      <3>1. at' = "start" /\ ~Untold'
        BY <1>13, <2>1, <2>2 DEF EmitSaved, GiveWay, Over, Untold
      <3> QED
        BY <1>n, <1>z, <3>1
    <2>3. CASE draft.cycle # 0 /\ CancelComes
      <3>1. CASE GiveWay
        <4>1. Popped
          BY <1>a, <2>1, <3>1, GivesWay
        <4>2. CancelComes'
          BY <1>a, <2>1, <2>3, <4>1, AttendedPops, RecordNames DEF Cancels
        <4> QED
          BY <1>c, <4>2
      <3>2. CASE line' = line
        BY <1>c, <2>3, <3>2 DEF CancelComes
      <3> QED
        BY <1>13, <2>3, <3>1, <3>2 DEF EmitSaved
    <2>4. CASE draft.cycle # 0 /\ ~CancelComes /\ timer = MyCycle /\ ~off
      <3>1. line' = line /\ at' = "calling" /\ timer' = timer
        BY <1>13, <2>4 DEF EmitSaved, KeepTimer
      <3>2. draft.cycle = MyCycle
        BY <1>e, <2>1, <2>4 DEF Emitting
      <3> QED
        BY <2>1, <2>4, <3>1, <3>2 DEF Goal, MarkKept, MarkAttended, Mailing
    <2>5. CASE draft.cycle # 0 /\ ~CancelComes /\ (off \/ ~active)
      <3>1. ~Untold'
        BY <2>1, <2>5 DEF Untold
      <3>2. MarkKept'
        BY <2>1, <2>5 DEF MarkKept
      <3> QED
        BY <1>z, <3>1, <3>2
    <2> QED
      BY <1>b, <2>1, <2>2, <2>3, <2>4, <2>5 DEF MarkKept
  <1>14. CASE NoticeMailed
    <2>1. /\ Popped /\ UNCHANGED ledger /\ ledger.cycle = MyCycle
          /\ notices' = Append(notices, MyCycle)
      BY <1>14, <1>a, <1>e, GivesWay DEF NoticeMailed, Emitting
    <2>2. Noticed(ledger.cycle)'
      <3>1. MyCycle \in Nat /\ notices \in Seq(Nat)
        BY <1>14, <1>h, TurnFacts
           DEF NoticeMailed, CoreTyped, LineTyped, TimerTyped, Task
      <3>2. /\ Len(notices) + 1 \in DOMAIN notices'
            /\ notices'[Len(notices) + 1] = MyCycle
        BY <2>1, <3>1, AppendProperties, LenProperties
      <3> QED
        BY <2>1, <3>2 DEF Noticed
    <2> QED
      BY <1>n, <1>z, <2>1, <2>2 DEF Popped, Untold
  <1>15. CASE NoParent
    <2>1. /\ line # << >> /\ Popped /\ UNCHANGED <<ledger, off, notices>>
          /\ ~Cancels(Head(line).op) /\ ledger.cycle = MyCycle
      BY <1>15, <1>a, <1>e, GivesWay, RecordNames DEF NoParent, Cancels, Emitting
    <2>2. CASE ~Mailing
      BY <2>1, <2>2, <1>0, <1>p
    <2>3. CASE Mailing
      <3>1. off \/ ledger.cycle \in forgone'
        BY <1>15, <2>1, <2>3 DEF NoParent, Mailing
      <3>2. ~Untold'
        BY <2>1, <3>1 DEF Untold
      <3> QED
        BY <1>n, <1>z, <2>1, <3>2 DEF Popped
    <2> QED
      BY <2>2, <2>3
  <1>16. CASE SessionStops
    <2>1. ~active'
      BY <1>16 DEF SessionStops
    <2> QED
      BY <1>z, <2>1 DEF MarkKept, Untold
  <1>17. CASE CancelDecides
    <2>1. line # << >> /\ Head(line).op = "cancel"
      BY <1>17 DEF CancelDecides
    <2>2. ~active'
      BY <2>1, <1>b, <1>h, <1>y DEF CancelStops
    <2> QED
      BY <1>z, <2>2 DEF MarkKept, Untold
  <1>18. CASE ShutsDown
    <2>1. off'
      BY <1>18 DEF ShutsDown
    <2> QED
      BY <1>z, <2>1 DEF MarkKept, Untold
  <1>19. CASE Restores
    <2>1. /\ line # << >> /\ Popped /\ UNCHANGED <<ledger, off, notices>>
          /\ ~Cancels(Head(line).op) /\ ~Mailing
      BY <1>19, <1>a, GivesWay, RecordNames DEF Restores, Cancels, Mailing
    <2> QED
      BY <2>1, <1>0, <1>p
  <1>20. CASE TaskFails
    <2>1. "io" \in lapsed' /\ at' = "start"
      BY <1>20 DEF TaskFails, Fault, Lapse, GiveWay, Over
    <2> QED
      BY <1>n, <1>z, <2>1 DEF Untold
  <1> QED
    BY <1>0, <1>1, <1>2, <1>3, <1>4, <1>5, <1>6, <1>7, <1>9, <1>10, <1>11, <1>12, <1>13,
       <1>14, <1>15, <1>16, <1>17, <1>18, <1>19, <1>20, <1>a, StepKinds DEF CoreTyped

\* A notice that is owed is attended to, before its mark and between the mark
\* and the mail, whatever the interleaving of the agent's signs, the timer, the
\* human and restarts: the part of IdleTold that is safety.  What is left to
\* fairness is that what is due happens.
THEOREM CyclesAttended == Spec => []CycleAttended
  <1> DEFINE Inv == CoreTyped /\ NoticeInv /\ AttInv
  <1>1. Init => Inv
    <2> SUFFICES ASSUME Init PROVE Inv
      OBVIOUS
    <2>1. CoreTyped /\ NoticeInv
      BY Beginning
    <2>2. PICK past \in {"unknown", "busy"} : ledger = [Empty EXCEPT !.activity = past]
      BY DEF Init
    <2>3. ledger.cycle = 0
      BY <2>2, LedgerFields DEF Ledger, Empty
    <2>4. line = << >> /\ at = "start" /\ timer = 0
      BY DEF Init
    <2>5. AttInv
      BY <2>3, <2>4
         DEF AttInv, CycleIdle, CancelStops, DraftsCycle, TimerRuns, ArmedAttended, Armed,
             DraftsMark, MarkKept, MarkAttended, Turn, Untold
    <2> QED
      BY <2>1, <2>5
  <1>2. Inv /\ [Next]_vars => Inv'
    <2>1. Inv /\ [Next]_vars => CoreTyped' /\ NoticeInv'
      BY CoreStep, NoticeStep
    <2>2. Inv /\ [Next]_vars => AttInv'
      BY CycleStep, TimerStep, ArmedStep, DraftStep, MarkStep DEF AttInv
    <2> QED
      BY <2>1, <2>2
  <1>3. Inv => CycleAttended
    <2> SUFFICES ASSUME Inv, Untold
                 PROVE  \/ ~ledger.told /\ timer = ledger.cycle
                           /\ (ticking \/ EmitComes(ledger.cycle))
                        \/ ledger.told /\ Mailing
                        \/ ~restored \/ RevivalComes
      BY DEF CycleAttended
    <2>1. CASE ~ledger.told
      BY <2>1 DEF AttInv, TimerRuns, ArmedAttended, Armed, Untold
    <2>2. CASE ledger.told
      BY <2>2 DEF AttInv, MarkAttended, CancelComes, RevivalComes, Revives
    <2> QED
      BY <2>1, <2>2
  <1> QED
    BY <1>1, <1>2, <1>3, PTL DEF Spec

-----------------------------------------------------------------------------
(* Type correctness. *)

CountsTyped ==
  /\ channel \in Channels /\ lapsed \subseteq Faults
  /\ events \in 0..MaxEvents /\ faults \in 0..MaxFaults
FlagsTyped ==
  /\ live \in BOOLEAN /\ due \subseteq Questions
  /\ ticking \in BOOLEAN /\ off \in BOOLEAN /\ restored \in BOOLEAN /\ active \in BOOLEAN
  /\ last \in LastSigns

\* What the lemmas above leave of the types.
LEMMA FlagsStep ==
  CoreTyped /\ CountsTyped /\ FlagsTyped /\ [Next]_vars => CountsTyped' /\ FlagsTyped'
  <1> SUFFICES ASSUME CoreTyped, CountsTyped, FlagsTyped, [Next]_vars
               PROVE  CountsTyped' /\ FlagsTyped'
    OBVIOUS
  <1> DEFINE Goal == CountsTyped' /\ FlagsTyped'
             Quiet == UNCHANGED <<channel, lapsed, events, faults>>
             Counted == \/ Quiet \/ UNCHANGED counts \/ Event
                        \/ \E f : Fault(f) \/ (Lapse(f) /\ UNCHANGED <<channel, events>>)
  <1>c. Counted => CountsTyped'
    <2>1. MaxEvents \in Nat /\ MaxFaults \in Nat
      BY AttentionAssumption
    <2>2. UNCHANGED counts => CountsTyped'
      BY DEF CountsTyped, counts
    <2>3. Event => CountsTyped'
      BY <2>1 DEF CountsTyped, Event
    <2>4. ASSUME NEW f, Fault(f) \/ (Lapse(f) /\ UNCHANGED <<channel, events>>)
          PROVE  CountsTyped'
      BY <2>1, <2>4 DEF CountsTyped, Fault, Lapse
    <2>5. Quiet => CountsTyped'
      BY DEF CountsTyped
    <2> QED
      BY <2>2, <2>3, <2>4, <2>5
  <1> HIDE DEF Goal, Counted
  <1>g. Counted /\ FlagsTyped' => Goal
    BY <1>c DEF Goal
  <1>q. UNCHANGED <<live, due, idling>> => FlagsTyped'
    BY DEF FlagsTyped, idling
  <1>1. ASSUME NEW op, Signal(op) PROVE Goal
    <2>1. Counted
      BY <1>1 DEF Signal, Counted
    <2>2. FlagsTyped'
      BY <1>1 DEF Signal, Record, Enqueue, IdleCanceled, KeepTimer, polls, FlagsTyped, LastSigns
    <2> QED
      BY <2>1, <2>2, <1>g
  <1>2. ASSUME NEW q \in Questions, Ask(q) PROVE Goal
    <2>1. Counted
      BY <1>2 DEF Ask, Counted
    <2>2. PICK op : Record(op, q)
      BY <1>2 DEF Ask
    <2>3. FlagsTyped'
      BY <1>2, <2>2 DEF Ask, Record, Enqueue, IdleCanceled, KeepTimer, polls, FlagsTyped, LastSigns
    <2> QED
      BY <2>1, <2>3, <1>g
  <1>3. ASSUME NEW q \in Questions, NEW op, HookReports(op, q) PROVE Goal
    <2>1. Counted
      BY <1>3 DEF HookReports, Counted
    <2>2. FlagsTyped'
      BY <1>3 DEF HookReports, Record, Enqueue, IdleCanceled, KeepTimer, polls, FlagsTyped,
                  LastSigns
    <2> QED
      BY <2>1, <2>2, <1>g
  <1>4. ASSUME NEW q \in Questions, NEW op, Command(op, q) PROVE Goal
    <2>1. Counted
      BY <1>4 DEF Command, Counted
    <2>2. FlagsTyped'
      BY <1>4, <1>q DEF Command, Enqueue, polls
    <2> QED
      BY <2>1, <2>2, <1>g
  <1>5. ASSUME NEW q \in Questions,
               MailAnswer(q) \/ Forgotten(q) \/ GivesUp(q) \/ Killed(q)
        PROVE  Goal
    <2>1. Counted
      BY <1>5 DEF MailAnswer, Forgotten, GivesUp, Killed, Counted
    <2>2. UNCHANGED <<live, due, idling>>
      BY <1>5 DEF MailAnswer, Forgotten, GivesUp, Killed, memory, polls
    <2> QED
      BY <2>1, <2>2, <1>g, <1>q
  <1>6. ASSUME NEW q \in Questions, Poll(q) \/ Closed(q) PROVE Goal
    <2>1. Counted
      BY <1>6 DEF Poll, Closed, Counted
    <2>2. UNCHANGED <<live, due, idling>>
      BY <1>6 DEF Poll, Closed, Enqueue, memory
    <2> QED
      BY <2>1, <2>2, <1>g, <1>q
  <1>7. ASSUME NEW q \in Questions, Deadline(q) PROVE Goal
    <2>1. Counted
      BY <1>7 DEF Deadline, Counted
    <2>2. FlagsTyped'
      BY <1>7 DEF Deadline, Enqueue, idling, FlagsTyped
    <2> QED
      BY <2>1, <2>2, <1>g
  <1>8. ASSUME RecordDecides PROVE Goal
    <2>1. Counted
      BY <1>8 DEF RecordDecides, Counted
    <2>2. UNCHANGED <<live, due, off, restored, active, last>> /\ ticking' \in {ticking, FALSE}
      BY <1>8 DEF RecordDecides, IdleCanceled, KeepTimer, polls
    <2>3. FlagsTyped'
      BY <2>2 DEF FlagsTyped
    <2> QED
      BY <2>1, <2>3, <1>g
  <1>9. ASSUME RecordSaved PROVE Goal
    <2>1. Counted
      BY <1>9 DEF RecordSaved, Counted
    <2>2. live' = FALSE /\ UNCHANGED <<due, off, restored, active>>
      BY <1>9 DEF RecordSaved, Wake, Over
    <2>3. ticking' \in {TRUE, ticking} /\ last' \in {last, "rearmed"}
      BY <1>9 DEF RecordSaved, Schedule, KeepTimer
    <2>4. FlagsTyped'
      BY <2>2, <2>3 DEF FlagsTyped, LastSigns
    <2> QED
      BY <2>1, <2>4, <1>g
  <1>10. ASSUME AnswerDecides PROVE Goal
    <2>1. Counted
      BY <1>10 DEF AnswerDecides, Counted
    <2>2. live' \in BOOLEAN
      BY <1>10 DEF AnswerDecides, WaiterLive, ActiveWait
    <2>3. UNCHANGED <<due, idling>>
      BY <1>10 DEF AnswerDecides, polls
    <2> QED
      BY <2>1, <2>2, <2>3, <1>g DEF FlagsTyped, idling
  <1>11. ASSUME AnswerSaved \/ DismissSaved PROVE Goal
    <2>1. Counted
      BY <1>11 DEF AnswerSaved, DismissSaved, Counted
    <2>2. live' = FALSE /\ UNCHANGED <<due, idling>>
      BY <1>11 DEF AnswerSaved, DismissSaved, Wake, Over
    <2> QED
      BY <2>1, <2>2, <1>g DEF FlagsTyped, idling
  <1>12. ASSUME Refused \/ CancelSaved PROVE Goal
    <2>1. Counted
      BY <1>12 DEF Refused, CancelSaved, Counted
    <2>2. live' = FALSE /\ UNCHANGED <<due, idling>>
      BY <1>12 DEF Refused, CancelSaved, GiveWay, Over, polls
    <2> QED
      BY <2>1, <2>2, <1>g DEF FlagsTyped, idling
  <1>13. ASSUME DismissDecides \/ EmitProbes \/ EmitMarks PROVE Goal
    <2>1. Counted
      BY <1>13 DEF DismissDecides, EmitProbes, EmitMarks, Counted
    <2>2. UNCHANGED <<live, due, idling>>
      BY <1>13, Zenon DEF DismissDecides, EmitProbes, EmitMarks, polls
    <2> QED
      BY <2>1, <2>2, <1>g, <1>q
  <1>14. ASSUME ReadReturns \/ ReadParks \/ ReadFails PROVE Goal
    <2>1. Counted
      BY <1>14 DEF ReadReturns, ReadParks, ReadFails, Counted
    <2>2. live' = FALSE /\ UNCHANGED idling /\ (due' = due \/ due' = due \ {Mine})
      BY <1>14, Zenon DEF ReadReturns, ReadParks, ReadFails, GiveWay, Over, PollEnds
    <2> QED
      BY <2>1, <2>2, <1>g DEF FlagsTyped, idling
  <1>15. ASSUME EmitStops \/ EmitSaved \/ NoticeMailed \/ NoParent \/ CancelDecides PROVE Goal
    <2>1. Counted
      BY <1>15 DEF EmitStops, EmitSaved, NoticeMailed, NoParent, CancelDecides, Counted
    <2>2. /\ live' \in {live, FALSE} /\ UNCHANGED <<due, off, restored, active, last>>
          /\ ticking' \in {ticking, FALSE}
      BY <1>15 DEF EmitStops, EmitSaved, NoticeMailed, NoParent, CancelDecides, GiveWay, Over,
                   IdleCanceled, KeepTimer, polls
    <2> QED
      BY <2>1, <2>2, <1>g DEF FlagsTyped
  <1>16. ASSUME TimerFires \/ SessionStops PROVE Goal
    <2>1. Counted
      BY <1>16 DEF TimerFires, SessionStops, Counted, counts
    <2>2. /\ UNCHANGED <<live, due, off, restored, last>> /\ ticking' = FALSE
          /\ active' \in {active, FALSE}
      BY <1>16 DEF TimerFires, SessionStops, Enqueue, IdleCanceled, polls
    <2> QED
      BY <2>1, <2>2, <1>g DEF FlagsTyped
  <1>17. ASSUME ShutsDown PROVE Goal
    <2>1. Counted
      BY <1>17 DEF ShutsDown, Counted
    <2>2. /\ UNCHANGED <<live, due, restored, active, last>> /\ ticking' = FALSE /\ off' = TRUE
      BY <1>17 DEF ShutsDown, IdleCanceled, memory, polls
    <2> QED
      BY <2>1, <2>2, <1>g DEF FlagsTyped
  <1>18. ASSUME Restart PROVE Goal
    <2>1. Counted
      BY <1>18, Zenon DEF Restart, Counted
    <2>2. /\ live' = FALSE /\ due' = {} /\ ticking' = FALSE /\ off' = FALSE /\ restored' = FALSE
          /\ active' = active
      BY <1>18 DEF Restart, Over, IdleCanceled
    <2>3. last' \in {last, "lost"}
      BY <1>18 DEF Restart
    <2> QED
      BY <2>1, <2>2, <2>3, <1>g DEF FlagsTyped, LastSigns
  <1>19. ASSUME Restore PROVE Goal
    <2>1. Counted
      BY <1>19 DEF Restore, Counted, counts
    <2>2. /\ UNCHANGED <<live, due, ticking, off, active, last>> /\ restored' = TRUE
      BY <1>19 DEF Restore, Enqueue, memory, polls
    <2> QED
      BY <2>1, <2>2, <1>g DEF FlagsTyped
  <1>20. ASSUME Restores PROVE Goal
    <2>1. Counted
      BY <1>20 DEF Restores, Counted
    <2>2. live' = FALSE /\ UNCHANGED <<due, off, restored, active>>
      BY <1>20 DEF Restores, GiveWay, Over, polls
    <2>3. ticking' \in {TRUE, ticking} /\ last' \in {last, "rearmed"}
      BY <1>20 DEF Restores, Schedule, KeepTimer
    <2> QED
      BY <2>1, <2>2, <2>3, <1>g DEF FlagsTyped, LastSigns
  <1>21. ASSUME TaskFails PROVE Goal
    <2>1. Counted
      BY <1>21 DEF TaskFails, Counted
    <2>2. /\ live' = FALSE /\ UNCHANGED <<due, off, restored, active>>
          /\ ticking' \in {ticking, FALSE} /\ last' \in {last, "lost"}
      BY <1>21 DEF TaskFails, GiveWay, Over, IdleCanceled, KeepTimer, polls
    <2> QED
      BY <2>1, <2>2, <1>g DEF FlagsTyped, LastSigns
  <1>22. ASSUME UNCHANGED vars PROVE Goal
    <2>1. Counted /\ UNCHANGED <<live, due, idling>>
      BY <1>22 DEF vars, Counted, memory, polls
    <2> QED
      BY <2>1, <1>g, <1>q
  <1>23. ASSUME \E q \in Questions :
                  \/ Ask(q) \/ \E op \in {"seen", "done"} : HookReports(op, q)
                  \/ \E op \in {"answer", "dismiss", "resolve"} : Command(op, q)
                  \/ MailAnswer(q) \/ Poll(q) \/ Deadline(q) \/ Forgotten(q)
                  \/ GivesUp(q) \/ Killed(q) \/ Closed(q)
         PROVE  Goal
    BY <1>23, <1>2, <1>3, <1>4, <1>5, <1>6, <1>7
  <1>24. Goal
    BY <1>1, <1>8, <1>9, <1>10, <1>11, <1>12, <1>13, <1>14, <1>15, <1>16, <1>17, <1>18,
       <1>19, <1>20, <1>21, <1>22, <1>23 DEF Next, Tasks
  <1> QED
    BY <1>24 DEF Goal

\* What is forgone are cycles.
LEMMA ForgoneStep ==
  CoreTyped /\ forgone \subseteq Nat /\ [Next]_vars => (forgone \subseteq Nat)'
  <1> SUFFICES ASSUME CoreTyped, forgone \subseteq Nat, [Next]_vars
               PROVE  forgone' \subseteq Nat
    OBVIOUS
  <1>1. CASE NoParent
    <2>1. MyCycle \in Nat
      BY <1>1, TurnFacts DEF NoParent, Turn, MyCycle, CoreTyped, LineTyped, Task
    <2>2. forgone' \subseteq forgone \cup {MyCycle}
      BY <1>1 DEF NoParent
    <2> QED
      BY <2>1, <2>2
  <1>2. CASE Restart
    <2>1. ledger' \in {ledger, draft}
      BY <1>2 DEF Restart
    <2>2. ledger'.cycle \in Nat
      BY <2>1, LedgerFields DEF CoreTyped, LedgerTyped
    <2>3. forgone' \subseteq forgone \cup {ledger'.cycle}
      BY <1>2, Zenon DEF Restart
    <2> QED
      BY <2>2, <2>3
  <1> QED
    BY <1>1, <1>2, Forgoing

\* Type correctness.
THEOREM TypesOK == Spec => []TypeOK
  <1> DEFINE Inv == CoreTyped /\ ToldInv /\ CountsTyped /\ FlagsTyped /\ forgone \subseteq Nat
  <1>1. Init => Inv
    <2> SUFFICES ASSUME Init PROVE CountsTyped /\ FlagsTyped /\ forgone = {}
      BY Beginning, ToldBegins
    <2>1. MaxEvents \in Nat /\ MaxFaults \in Nat
      BY AttentionAssumption
    <2>2. CountsTyped
      BY <2>1 DEF Init, CountsTyped
    <2>3. FlagsTyped
      BY DEF Init, FlagsTyped, LastSigns
    <2> QED
      BY <2>2, <2>3 DEF Init
  <1>2. Inv /\ [Next]_vars => Inv'
    BY CoreStep, ToldStep, FlagsStep, ForgoneStep
  <1>3. Inv => TypeOK
    <2> SUFFICES ASSUME Inv PROVE TypeOK
      OBVIOUS
    <2>1. ledger \in Ledger /\ draft \in Ledger /\ line \in Seq(Task)
          /\ at \in {"start", "saving", "probing", "calling"}
      BY DEF CoreTyped, LedgerTyped, LineTyped
    <2>2. timer \in Nat /\ cycles \in Nat /\ notices \in Seq(Nat)
      BY DEF CoreTyped, TimerTyped
    <2>3. /\ client \in [Questions -> ClientStates] /\ poll \in [Questions -> PollStates]
          /\ aborted \subseteq Questions /\ recent \subseteq Questions
          /\ delivery \in [Questions -> Deliveries]
      BY DEF ToldInv, OnceInv, AskersKnown, PollersKnown
    <2> QED
      BY <2>1, <2>2, <2>3
         DEF TypeOK, CountsTyped, FlagsTyped, ClientStates, PollStates, Deliveries
  <1> QED
    BY <1>1, <1>2, <1>3, PTL DEF Spec
=============================================================================
