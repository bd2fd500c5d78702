----------------------- MODULE PullRequestEventsProofs -----------------------
(***************************************************************************)
(* Proofs about the durable inbox and the pull-request watcher: what the   *)
(* inbox's filters keep, types, and that notices are news, are written for *)
(* the present link only and are not forgotten, and acknowledged mail is   *)
(* not dropped.                                                            *)
(***************************************************************************)
EXTENDS PullRequestEvents, FiniteSetTheorems, TLAPS

-----------------------------------------------------------------------------
(* What stands at some positions of a sequence, in order. *)

\* Positions of a sequence are finitely many, and each has a rank of its own.
LEMMA RankFacts ==
  ASSUME NEW n \in Nat, NEW P \in SUBSET (1..n)
  PROVE  /\ IsFiniteSet(P) /\ Cardinality(P) \in Nat
         /\ \A i \in P : Rank(P, i) \in 1..Cardinality(P)
         /\ \A i, j \in P : Rank(P, i) = Rank(P, j) => i = j
  <1>1. IsFiniteSet(P) /\ Cardinality(P) \in Nat
    <2>1. IsFiniteSet(1..n)
      BY FS_Interval
    <2> QED
      BY <2>1, FS_Subset, FS_CardinalityType
  <1>2. ASSUME NEW i \in P
        PROVE  Rank(P, i) \in 1..Cardinality(P)
    <2> DEFINE Q == {j \in P : j <= i}
    <2>1. Q \in SUBSET P /\ i \in Q
      OBVIOUS
    <2>2. IsFiniteSet(Q) /\ Cardinality(Q) <= Cardinality(P)
      BY <2>1, <1>1, FS_Subset
    <2>3. Cardinality(Q) \in Nat /\ Cardinality(Q) # 0
      BY <2>1, <2>2, FS_CardinalityType, FS_EmptySet
    <2>4. Rank(P, i) = Cardinality(Q)
      BY DEF Rank
    <2> QED
      BY <1>1, <2>2, <2>3, <2>4
  <1>3. ASSUME NEW i \in P, NEW j \in P, i < j
        PROVE  Rank(P, i) # Rank(P, j)
    <2> DEFINE Q == {k \in P : k <= i}
               R == {k \in P : k <= j}
    <2>1. Q \in SUBSET R /\ R \in SUBSET P /\ j \in R /\ j \notin Q
      <3>1. i \in Int /\ j \in Int /\ \A k \in P : k \in Int
        OBVIOUS
      <3>2. /\ \A k \in P : k <= i => k <= j
            /\ j <= j /\ ~(j <= i)
        BY <3>1, <1>3
      <3> QED
        BY <3>2, Zenon
    <2>2. IsFiniteSet(R)
      BY <2>1, <1>1, FS_Subset
    <2>3. Cardinality(Q) # Cardinality(R)
      BY <2>1, <2>2, FS_Subset
    <2> QED
      BY <2>3 DEF Rank
  <1>4. ASSUME NEW i \in P, NEW j \in P, Rank(P, i) = Rank(P, j)
        PROVE  i = j
    BY <1>3, <1>4
  <1> QED
    BY <1>1, <1>2, <1>4

\* Every rank is somebody's.
LEMMA RankOnto ==
  ASSUME NEW n \in Nat, NEW P \in SUBSET (1..n)
  PROVE  \A k \in 1..Cardinality(P) : \E i \in P : Rank(P, i) = k
  <1> DEFINE f == [i \in P |-> Rank(P, i)]
             T == 1..Cardinality(P)
  <1>1. IsFiniteSet(P) /\ Cardinality(P) \in Nat
    BY RankFacts
  <1>2. f \in Injection(P, T)
    BY RankFacts DEF Injection, IsInjective
  <1>3. IsFiniteSet(T) /\ Cardinality(T) = Cardinality(P)
    BY <1>1, FS_Interval
  <1>4. f \in Surjection(P, T)
    BY <1>2, <1>3, FS_Injection
  <1> QED
    BY <1>4 DEF Surjection

\* Filter keeps what stands at the positions, and nothing else.
LEMMA FilterFacts ==
  ASSUME NEW S, NEW ls \in Seq(S), NEW P \in SUBSET (DOMAIN ls)
  PROVE  /\ Filter(ls, P) \in Seq(S)
         /\ \A k \in DOMAIN Filter(ls, P) : \E i \in P : Filter(ls, P)[k] = ls[i]
         /\ \A i \in P : \E k \in DOMAIN Filter(ls, P) : Filter(ls, P)[k] = ls[i]
  <1>1. PICK n \in Nat : n = Len(ls) /\ DOMAIN ls = 1..n
    OBVIOUS
  <1> DEFINE At(k) == CHOOSE i \in P : Rank(P, i) = k
  <1>2. P \in SUBSET (1..n) /\ Cardinality(P) \in Nat
    BY <1>1, RankFacts
  <1>3. \A k \in 1..Cardinality(P) : At(k) \in P /\ Rank(P, At(k)) = k
    <2>1. \A k \in 1..Cardinality(P) : \E i \in P : Rank(P, i) = k
      BY <1>2, RankOnto
    <2> QED
      BY <2>1, Zenon
  <1>4. Filter(ls, P) = [k \in 1..Cardinality(P) |-> ls[At(k)]]
    BY DEF Filter
  <1> HIDE DEF At
  <1>5. /\ DOMAIN Filter(ls, P) = 1..Cardinality(P)
        /\ \A k \in 1..Cardinality(P) : Filter(ls, P)[k] = ls[At(k)]
    BY <1>4
  <1>6. \A k \in 1..Cardinality(P) : ls[At(k)] \in S
    BY <1>3
  <1>7. Filter(ls, P) \in Seq(S)
    BY <1>2, <1>4, <1>6
  <1>8. ASSUME NEW i \in P
        PROVE  \E k \in DOMAIN Filter(ls, P) : Filter(ls, P)[k] = ls[i]
    <2>1. Rank(P, i) \in 1..Cardinality(P)
      BY <1>2, RankFacts
    <2>2. At(Rank(P, i)) = i
      BY <2>1, <1>2, <1>3, RankFacts
    <2> QED
      BY <2>1, <2>2, <1>5
  <1> QED
    BY <1>3, <1>5, <1>7, <1>8

-----------------------------------------------------------------------------
(* The inbox's lines, and what its operations do to them. *)

USE StoreAssumption, IdsAssumption

Messages == [id : Ids, delivered : BOOLEAN]
LinesTyped == lines \in Seq(Messages \cup {Broken})

\* Where unread mail stands.
LEMMA UnreadAt ==
  \A u : u \in Unread <=> \E i \in DOMAIN lines :
           lines[i] # Broken /\ ~lines[i].delivered /\ lines[i].id = u
  BY DEF Unread, Readable

\* What is read is what is in the file, but for the lines that are broken.
LEMMA ParsedFacts ==
  ASSUME LinesTyped
  PROVE  /\ Parsed \in Seq(Messages)
         /\ \A k \in DOMAIN Parsed : \E i \in DOMAIN lines : Parsed[k] = lines[i]
         /\ \A i \in DOMAIN lines : lines[i] # Broken
              => \E k \in DOMAIN Parsed : Parsed[k] = lines[i]
  <1>1. Readable \in SUBSET (DOMAIN lines)
    BY DEF Readable
  <1>2. /\ Parsed \in Seq(Messages \cup {Broken})
        /\ \A k \in DOMAIN Parsed : \E i \in Readable : Parsed[k] = lines[i]
        /\ \A i \in Readable : \E k \in DOMAIN Parsed : Parsed[k] = lines[i]
    BY <1>1, FilterFacts DEF LinesTyped, Parsed
  <1>3. \A i \in Readable : i \in DOMAIN lines /\ lines[i] \in Messages
    BY DEF Readable, LinesTyped
  <1>4. \A k \in 1..Len(Parsed) : Parsed[k] \in Messages
    BY <1>2, <1>3
  <1>5. Parsed \in Seq(Messages)
    BY <1>2, <1>4
  <1> QED
    BY <1>2, <1>3, <1>5 DEF Readable

\* No message is a broken line.
LEMMA MessageWhole == \A l \in Messages : l # Broken
  <1>1. None \notin Ids
    BY DEF Ids, Notices, Checkpoints
  <1> QED
    BY <1>1 DEF Messages, Broken

\* A line of unread mail.
Waits(l) == l # Broken /\ ~l.delivered

\* The lines that are in the file and were not before; the others are not less
\* read than they were.
Adds(L) == \A i \in DOMAIN lines' :
             \/ lines'[i] \in L
             \/ \E j \in DOMAIN lines : /\ lines'[i].id = lines[j].id
                                        /\ Waits(lines'[i]) => Waits(lines[j])

\* What has the id of a line had one before, or has been added.
LEMMA AddedIds ==
  ASSUME NEW L, Adds(L), NEW i \in DOMAIN lines'
  PROVE  lines'[i] \in L \/ \E j \in DOMAIN lines : lines'[i].id = lines[j].id
  BY DEF Adds, Waits

\* What is unread afterwards was so before, or has been added.
LEMMA UnreadFrom ==
  ASSUME NEW L, Adds(L)
  PROVE  Unread' \subseteq Unread \cup {l.id : l \in L}
  <1>1. SUFFICES ASSUME NEW u \in Unread' PROVE u \in Unread \cup {l.id : l \in L}
    OBVIOUS
  <1>2. PICK i \in DOMAIN lines' : Waits(lines'[i]) /\ lines'[i].id = u
    BY <1>1 DEF Unread, Readable, Waits
  <1>3. CASE lines'[i] \in L
    BY <1>2, <1>3
  <1>4. CASE \E j \in DOMAIN lines : lines'[i].id = lines[j].id /\ Waits(lines[j])
    BY <1>2, <1>4, UnreadAt DEF Waits
  <1>5. \/ lines'[i] \in L
        \/ \E j \in DOMAIN lines : lines'[i].id = lines[j].id /\ Waits(lines[j])
    BY <1>2 DEF Adds, Waits
  <1> QED
    BY <1>3, <1>4, <1>5

\* An append adds its message, or spoils the line it is written onto.
LEMMA AppendStep ==
  ASSUME LinesTyped, open \in BOOLEAN, open => lines # << >>,
         NEW m \in Mail, Append1(m) \/ AppendTorn(m)
  PROVE  /\ LinesTyped' /\ (open' => lines' # << >>)
         /\ Adds({Broken, Line(m)})
         /\ Append1(m) /\ ~open => Unread \cup {m} \subseteq Unread'
  <1>1. Line(m) \in Messages /\ Line(m) # Broken
    <2>1. Line(m) \in Messages
      BY DEF Line, Messages, Ids
    <2> QED
      BY <2>1, MessageWhole
  <1>2. CASE open
    <2>1. lines' = [lines EXCEPT ![Len(lines)] = Broken]
      BY <1>2 DEF Append1, AppendTorn
    <2>2. Len(lines) \in Nat /\ DOMAIN lines = 1..Len(lines) /\ Len(lines) # 0
      BY <1>2 DEF LinesTyped
    <2>3. /\ lines' \in Seq(Messages \cup {Broken}) /\ DOMAIN lines' = DOMAIN lines
          /\ \A i \in DOMAIN lines' : lines'[i] = Broken \/ lines'[i] = lines[i]
      BY <2>1, <2>2 DEF LinesTyped
    <2> QED
      BY <1>2, <2>2, <2>3 DEF LinesTyped, Adds
  <1>3. CASE ~open
    <2>1. PICK l \in {Broken, Line(m)} : lines' = Append(lines, l) /\ (Append1(m) => l = Line(m))
      BY <1>3 DEF Append1, AppendTorn
    <2>2. PICK n \in Nat : n = Len(lines)
      BY DEF LinesTyped
    <2>3. /\ LinesTyped' /\ DOMAIN lines = 1..n /\ DOMAIN lines' = 1..(n + 1)
          /\ lines'[n + 1] = l /\ \A i \in 1..n : lines'[i] = lines[i]
      BY <1>1, <2>1, <2>2 DEF LinesTyped
    <2>4. \A i \in DOMAIN lines' : i = n + 1 \/ i \in 1..n
      BY <2>3
    <2>5. lines' # << >>
      BY <2>3
    <2>6. Adds({Broken, Line(m)})
      BY <2>1, <2>3, <2>4 DEF Adds
    <2>7. \A i \in 1..n : i \in DOMAIN lines'
      BY <2>3
    <2>8. n + 1 \in DOMAIN lines'
      BY <2>3
    <2>9. ASSUME Append1(m)
          PROVE  Unread \cup {m} \subseteq Unread'
      <3>1. Unread \subseteq Unread'
        BY <2>3, <2>7, UnreadAt DEF Unread, Readable
      <3>2. lines'[n + 1] # Broken /\ ~lines'[n + 1].delivered /\ lines'[n + 1].id = m
        BY <2>9, <2>1, <2>3, <1>1 DEF Line
      <3>3. m \in Unread'
        BY <3>2, <2>8 DEF Unread, Readable
      <3> QED
        BY <3>1, <3>3
    <2> QED
      BY <1>3, <2>3, <2>5, <2>6, <2>9
  <1> QED
    BY <1>2, <1>3

\* Marking adds no line and keeps unread what it does not stamp, at the cap
\* as well.
LEMMA MarkStep ==
  ASSUME LinesTyped, NEW S, MarkDelivered(S)
  PROVE  LinesTyped' /\ Adds({}) /\ Unread \ S \subseteq Unread'
  <1> DEFINE ls == [i \in 1..Len(Parsed) |->
                      [Parsed[i] EXCEPT !.delivered = @ \/ Parsed[i].id \in S]]
  <1>1. /\ Parsed \in Seq(Messages) /\ Len(Parsed) \in Nat /\ DOMAIN Parsed = 1..Len(Parsed)
        /\ \A k \in DOMAIN Parsed : \E i \in DOMAIN lines : Parsed[k] = lines[i]
        /\ \A i \in DOMAIN lines : lines[i] # Broken
             => \E k \in DOMAIN Parsed : Parsed[k] = lines[i]
    BY ParsedFacts
  <1>2. \A k \in DOMAIN Parsed :
          /\ Parsed[k] \in Messages /\ ls[k] \in Messages /\ ls[k].id = Parsed[k].id
          /\ ls[k].delivered = (Parsed[k].delivered \/ Parsed[k].id \in S)
    <2> TAKE k \in DOMAIN Parsed
    <2>1. Parsed[k] \in [id : Ids, delivered : BOOLEAN]
      <3>1. Parsed[k] \in Messages
        BY <1>1
      <3> QED
        BY <3>1 DEF Messages
    <2>2. ls[k] = [Parsed[k] EXCEPT !.delivered = @ \/ Parsed[k].id \in S]
      BY <1>1
    <2>3. PICK b \in BOOLEAN : b = (Parsed[k].delivered \/ Parsed[k].id \in S)
      OBVIOUS
    <2>4. ls[k] = [Parsed[k] EXCEPT !.delivered = b]
      BY <2>2, <2>3, Zenon
    <2>5. ls[k] \in [id : Ids, delivered : BOOLEAN] /\ ls[k].id = Parsed[k].id /\ ls[k].delivered = b
      BY <2>1, <2>4
    <2> QED
      BY <2>1, <2>3, <2>5 DEF Messages
  <1>3. ls \in Seq(Messages) /\ DOMAIN ls = DOMAIN Parsed
    <2>1. PICK n \in Nat : n = Len(Parsed)
      BY <1>1
    <2>2. \A k \in 1..n : ls[k] \in Messages
      BY <1>1, <1>2, <2>1
    <2>3. DOMAIN ls = 1..n /\ ls = [k \in 1..n |-> ls[k]]
      BY <2>1
    <2> HIDE DEF ls
    <2> QED
      BY <1>1, <2>1, <2>2, <2>3
  <1>4. lines' = Capped(ls)
    BY DEF MarkDelivered, Replace
  <1> HIDE DEF ls
  <1>5. PICK P \in SUBSET (DOMAIN ls) :
          /\ lines' = Filter(ls, P)
          /\ \A k \in DOMAIN ls : ~ls[k].delivered => k \in P
    BY <1>4 DEF Capped
  <1>6. /\ lines' \in Seq(Messages)
        /\ \A k \in DOMAIN lines' : \E i \in P : lines'[k] = ls[i]
        /\ \A i \in P : \E k \in DOMAIN lines' : lines'[k] = ls[i]
    BY <1>3, <1>5, FilterFacts
  <1>7. LinesTyped'
    BY <1>6 DEF LinesTyped
  <1>8. Adds({})
    <2>1. SUFFICES ASSUME NEW k \in DOMAIN lines'
                   PROVE  \E j \in DOMAIN lines : /\ lines'[k].id = lines[j].id
                                                  /\ Waits(lines'[k]) => Waits(lines[j])
      BY DEF Adds
    <2>2. PICK i \in DOMAIN Parsed : lines'[k] = ls[i]
      BY <1>3, <1>5, <1>6
    <2>3. PICK j \in DOMAIN lines : Parsed[i] = lines[j]
      BY <1>1
    <2>4. lines[j] # Broken /\ ls[i].id = lines[j].id /\ (~ls[i].delivered => ~lines[j].delivered)
      BY <1>2, <2>3, MessageWhole
    <2> QED
      BY <2>2, <2>4 DEF Waits
  <1>9. ASSUME NEW u \in Unread \ S
        PROVE  u \in Unread'
    <2>1. PICK i \in DOMAIN lines : lines[i] # Broken /\ ~lines[i].delivered /\ lines[i].id = u
      BY UnreadAt
    <2>2. PICK k \in DOMAIN Parsed : Parsed[k] = lines[i]
      BY <1>1, <2>1
    <2>3. ~ls[k].delivered /\ ls[k].id = u
      BY <1>2, <2>1, <2>2
    <2>4. PICK n \in DOMAIN lines' : lines'[n] = ls[k]
      BY <1>3, <1>5, <1>6, <2>3
    <2>5. lines'[n] # Broken
      BY <1>6, MessageWhole
    <2> QED
      BY <2>3, <2>4, <2>5 DEF Unread, Readable
  <1> QED
    BY <1>7, <1>8, <1>9

\* A commit adds its notice, if it makes one, and drops no mail.
LEMMA EnqueueStep ==
  ASSUME LinesTyped, NEW link, NEW obs0 \in Observations, Enqueue(link, obs0),
         Notice(link, obs0) \in Notices \/ obs0.state = "in_progress"
  PROVE  /\ LinesTyped' /\ Unread \subseteq Unread'
         /\ IF obs0.state = "in_progress" THEN Adds({})
            ELSE /\ Adds({Line(Notice(link, obs0))})
                 /\ Notice(link, obs0) \in Unread'
  <1>1. /\ Parsed \in Seq(Messages)
        /\ \A k \in DOMAIN Parsed : \E i \in DOMAIN lines : Parsed[k] = lines[i]
        /\ \A i \in DOMAIN lines : lines[i] # Broken
             => \E k \in DOMAIN Parsed : Parsed[k] = lines[i]
    BY ParsedFacts
  <1>2. ASSUME NEW ls \in Seq(Messages), \A k \in DOMAIN Parsed : k \in DOMAIN ls /\ ls[k] = Parsed[k],
               lines' = ls
        PROVE  LinesTyped' /\ Unread \subseteq Unread'
    <2>1. LinesTyped'
      BY <1>2 DEF LinesTyped
    <2>2. \A k \in DOMAIN lines' : lines'[k] # Broken
      BY <1>2, MessageWhole
    <2>3. ASSUME NEW u \in Unread
          PROVE  u \in Unread'
      <3>1. PICK i \in DOMAIN lines : lines[i] # Broken /\ ~lines[i].delivered /\ lines[i].id = u
        BY UnreadAt
      <3>2. PICK k \in DOMAIN Parsed : Parsed[k] = lines[i]
        BY <1>1, <3>1
      <3>3. k \in DOMAIN lines' /\ lines'[k] = lines[i]
        BY <1>2, <3>2
      <3> QED
        BY <3>1, <3>3, <2>2 DEF Unread, Readable
    <2> QED
      BY <2>1, <2>3
  <1>3. CASE obs0.state = "in_progress"
    <2>1. lines' = Parsed
      BY <1>3 DEF Enqueue, Replace
    <2> QED
      BY <1>1, <1>2, <1>3, <2>1 DEF Adds
  <1>4. CASE obs0.state # "in_progress"
    <2> DEFINE n == Notice(link, obs0)
    <2>1. lines' = Append(Parsed, Line(n))
      BY <1>4 DEF Enqueue, Replace
    <2>2. n \in Notices /\ Line(n) \in Messages
      BY <1>4 DEF Line, Messages, Ids
    <2> HIDE DEF n
    <2>3. PICK d \in Nat : d = Len(Parsed)
      BY <1>1
    <2>4. /\ lines' \in Seq(Messages) /\ DOMAIN Parsed = 1..d /\ DOMAIN lines' = 1..(d + 1)
          /\ lines'[d + 1] = Line(n) /\ \A k \in 1..d : lines'[k] = Parsed[k]
      BY <1>1, <2>1, <2>2, <2>3
    <2>5. /\ \A k \in 1..d : k \in DOMAIN lines' /\ lines'[k] = Parsed[k]
          /\ \A k \in DOMAIN lines' : k = d + 1 \/ k \in 1..d
          /\ d + 1 \in DOMAIN lines'
      BY <2>4
    <2>6. LinesTyped' /\ Unread \subseteq Unread'
      BY <1>2, <2>4, <2>5
    <2>7. Adds({Line(n)})
      BY <1>1, <2>4, <2>5 DEF Adds
    <2>8. lines'[d + 1] # Broken /\ ~lines'[d + 1].delivered /\ lines'[d + 1].id = n
      <3>1. lines'[d + 1] = [id |-> n, delivered |-> FALSE]
        BY <2>4 DEF Line
      <3>2. lines'[d + 1] # Broken
        BY <2>2, <2>4, MessageWhole
      <3> QED
        BY <3>1, <3>2
    <2>9. n \in Unread'
      BY <2>5, <2>8 DEF Unread, Readable
    <2> QED
      BY <1>4, <2>6, <2>7, <2>9 DEF n
  <1> QED
    BY <1>3, <1>4

-----------------------------------------------------------------------------
(* Types, and what a scan knows of its link. *)

InboxTyped ==
  /\ LinesTyped /\ open \in BOOLEAN /\ (open => lines # << >>)
  /\ checkpoint \in Checkpoints \cup {None}
  /\ posted \subseteq Mail /\ acked \subseteq Ids /\ taken \subseteq Ids
  /\ tears \in 0..MaxTears

ScanTyped ==
  /\ links \in 0..MaxLinks /\ linkId \in 0..MaxLinks
  /\ scanned \in 0..MaxLinks /\ pending \in 0..MaxLinks
  /\ phase \in {"idle", "wake", "observe", "commit", "notify"}
  /\ obs \in Observations \cup {NoObs}
  /\ ready \in BOOLEAN /\ announced \subseteq Ids

\* The present link is the last one given out, and only a link is observed.
LinksKnown ==
  /\ linkId \in {0, links}
  /\ checkpoint # None => checkpoint.link <= links
  /\ phase \in {"observe", "commit", "notify"} => scanned # 0
  /\ phase = "commit" => obs \in Observations

Typed == InboxTyped /\ ScanTyped /\ LinksKnown

\* An observation of the present link is recorded, with a notice if it says
\* more than that checks are running.
Records ==
  /\ linkId = scanned /\ scanned # 0 /\ obs \in Observations
  /\ Changed(scanned, obs) /\ Recordable(scanned) /\ Enqueue(scanned, obs)
  /\ \/ acked' = acked
     \/ obs.state # "in_progress" /\ acked' = acked \cup {Notice(scanned, obs)}

\* What steps do to the inbox.
LEMMA StoreSteps ==
  ASSUME Typed, [Next]_vars
  PROVE  \/ UNCHANGED store
         \/ \E m \in Mail : (Append1(m) \/ AppendTorn(m)) /\ UNCHANGED watch
         \/ \E S \in SUBSET Unread : MarkDelivered(S) /\ UNCHANGED watch
         \/ Records /\ UNCHANGED <<linkId, links, scanned>> /\ phase' # "commit"
  <1>1. CASE UNCHANGED vars
    BY <1>1 DEF vars
  <1>2. CASE Relink \/ ScanLinks \/ ScanWake \/ ScanObserve \/ ScanSkip \/ ScanNotify
             \/ Restart \/ SessionExits \/ SessionReady
    BY <1>2 DEF Relink, ScanLinks, ScanWake, ScanObserve, ScanSkip, ScanNotify,
                Restart, SessionExits, SessionReady
  <1>3. CASE Drain
    BY <1>3 DEF Drain
  <1>4. CASE \E m \in Mail : Send(m)
    BY <1>4 DEF Send
  <1>5. CASE ScanCommit
    <2>1. CASE Changed(scanned, obs)
      <3>1. /\ linkId = scanned /\ phase = "commit" /\ phase' = "notify"
            /\ UNCHANGED <<linkId, links, scanned>>
            /\ Recordable(scanned) /\ Enqueue(scanned, obs)
            /\ acked' = acked \cup
                 (IF obs.state = "in_progress" THEN {} ELSE {Notice(scanned, obs)})
        BY <1>5, <2>1 DEF ScanCommit, Commit
      <3>2. \/ acked' = acked
            \/ obs.state # "in_progress" /\ acked' = acked \cup {Notice(scanned, obs)}
        BY <3>1
      <3> QED
        BY <2>1, <3>1, <3>2 DEF Records, Typed, LinksKnown
    <2>2. CASE ~Changed(scanned, obs)
      BY <1>5, <2>2 DEF ScanCommit, Commit
    <2> QED
      BY <2>1, <2>2
  <1>6. CASE ScanCommitFails
    BY <1>6 DEF ScanCommitFails, Records, Typed, LinksKnown
  <1> QED
    BY <1>1, <1>2, <1>3, <1>4, <1>5, <1>6 DEF Next, Scan

\* The checkpoint that is recorded, and its notice.
LEMMA RecordTyped ==
  ASSUME Typed, Records
  PROVE  /\ Notice(scanned, obs) \in Checkpoints
         /\ Notice(scanned, obs) \in Notices \/ obs.state = "in_progress"
         /\ Ordinal(scanned) \in Nat
  <1>1. scanned \in 1..MaxLinks
    BY DEF Records, Typed, ScanTyped
  <1>2. Ordinal(scanned) \in 1..MaxOrdinal
    <2>1. Old(scanned) = None \/ Old(scanned) \in Checkpoints
      BY DEF Old, Typed, InboxTyped
    <2>2. Ordinal(scanned) \in Nat /\ Ordinal(scanned) >= 1
      <3>1. \A c \in Checkpoints : c.ordinal \in Nat /\ c.ordinal >= 1
        BY DEF Checkpoints
      <3> QED
        BY <2>1, <3>1 DEF Ordinal
    <2>3. Ordinal(scanned) + scanned <= MaxOrdinal + 1
      BY DEF Records, Recordable
    <2> QED
      BY <1>1, <2>2, <2>3
  <1>3. obs.state \in States /\ obs.head \in Heads \cup {NoHead}
    BY DEF Records, Observations, States
  <1> QED
    BY <1>1, <1>2, <1>3 DEF Notice, Checkpoints, Notices

\* What is unread has the id of a message.
LEMMA UnreadIds ==
  ASSUME LinesTyped
  PROVE  Unread \subseteq Ids
  <1>1. \A i \in DOMAIN lines : lines[i] \in Messages \/ lines[i] = Broken
    BY DEF LinesTyped
  <1> QED
    BY <1>1 DEF Unread, Readable, Messages

\* The variables keep their types, and links and checkpoint stay in step.
LEMMA TypedStep == Typed /\ [Next]_vars => Typed'
  <1> SUFFICES ASSUME Typed, [Next]_vars
               PROVE  Typed'
    OBVIOUS
  <1>0. Unread \subseteq Ids
    BY UnreadIds DEF Typed, InboxTyped
  <1>1. InboxTyped' /\ (checkpoint' # checkpoint => Records)
    <2>1. CASE UNCHANGED store
      BY <2>1 DEF store, Typed, InboxTyped, LinesTyped
    <2>2. ASSUME NEW m \in Mail, Append1(m) \/ AppendTorn(m)
          PROVE  InboxTyped' /\ checkpoint' = checkpoint
      <3>1. LinesTyped' /\ (open' => lines' # << >>)
        BY <2>2, AppendStep DEF Typed, InboxTyped
      <3>2. /\ open' \in BOOLEAN /\ checkpoint' = checkpoint /\ taken' = taken
            /\ posted' = posted \cup {m} /\ acked' \in {acked, acked \cup {m}}
        BY <2>2 DEF Append1, AppendTorn
      <3>3. tears' \in 0..MaxTears
        BY <2>2 DEF Append1, AppendTorn, Typed, InboxTyped
      <3> QED
        BY <3>1, <3>2, <3>3 DEF Typed, InboxTyped, Ids
    <2>3. ASSUME NEW S \in SUBSET Unread, MarkDelivered(S)
          PROVE  InboxTyped' /\ checkpoint' = checkpoint
      <3>1. LinesTyped'
        BY <2>3, MarkStep DEF Typed, InboxTyped
      <3> QED
        BY <2>3, <3>1, <1>0 DEF MarkDelivered, Replace, Typed, InboxTyped
    <2>4. CASE Records
      <3>1. /\ Notice(scanned, obs) \in Checkpoints
            /\ Notice(scanned, obs) \in Notices \/ obs.state = "in_progress"
        BY <2>4, RecordTyped
      <3>2. LinesTyped'
        BY <2>4, <3>1, EnqueueStep DEF Records, Typed, InboxTyped
      <3>3. acked' \subseteq Ids
        BY <2>4, <3>1 DEF Records, Ids, Typed, InboxTyped
      <3> QED
        BY <2>4, <3>1, <3>2, <3>3 DEF Records, Enqueue, Replace, Typed, InboxTyped
    <2> QED
      BY <2>1, <2>2, <2>3, <2>4, StoreSteps DEF store
  <1>2. ScanTyped'
    <2>1. CASE UNCHANGED vars
      BY <2>1 DEF vars, watch, Typed, ScanTyped
    <2>2. CASE Relink
      BY <2>2 DEF Relink, Typed, ScanTyped
    <2>3. CASE ScanLinks \/ ScanWake \/ ScanObserve \/ ScanSkip \/ ScanNotify
      BY <2>3, <1>0 DEF ScanLinks, ScanWake, ScanObserve, ScanSkip, ScanNotify, Announce,
                        Typed, ScanTyped
    <2>4. CASE ScanCommit \/ ScanCommitFails
      BY <2>4 DEF ScanCommit, ScanCommitFails, Typed, ScanTyped
    <2>5. CASE Drain \/ \E m \in Mail : Send(m)
      BY <2>5 DEF Drain, Send, watch, Typed, ScanTyped
    <2>6. CASE Restart \/ SessionExits \/ SessionReady
      <3>1. CASE Restart
        <4>1. 0 \in 0..MaxLinks
          OBVIOUS
        <4>2. /\ phase' = "idle" /\ pending' = 0 /\ obs' = NoObs /\ ready' = FALSE
              /\ UNCHANGED <<linkId, links, scanned, announced>>
          BY <3>1 DEF Restart
        <4> QED
          BY <4>1, <4>2 DEF Typed, ScanTyped
      <3>2. CASE SessionExits
        BY <3>2 DEF SessionExits, Typed, ScanTyped
      <3>3. CASE SessionReady
        BY <3>3, <1>0 DEF SessionReady, Typed, ScanTyped
      <3> QED
        BY <2>6, <3>1, <3>2, <3>3
    <2> QED
      BY <2>1, <2>2, <2>3, <2>4, <2>5, <2>6 DEF Next, Scan
  <1>3. /\ linkId' \in {0, links'} /\ links <= links'
        /\ phase' \in {"observe", "commit", "notify"} => scanned' # 0
        /\ phase' = "commit" => obs' \in Observations
    <2>1. CASE UNCHANGED vars
      BY <2>1 DEF vars, watch, Typed, ScanTyped, LinksKnown
    <2>2. CASE Relink
      BY <2>2 DEF Relink, Typed, ScanTyped, LinksKnown
    <2>3. CASE ScanLinks \/ ScanWake \/ ScanObserve \/ ScanSkip \/ ScanNotify
      BY <2>3 DEF ScanLinks, ScanWake, ScanObserve, ScanSkip, ScanNotify,
                  Typed, ScanTyped, LinksKnown
    <2>4. CASE ScanCommit \/ ScanCommitFails
      BY <2>4 DEF ScanCommit, ScanCommitFails, Typed, ScanTyped, LinksKnown
    <2>5. CASE Drain \/ \E m \in Mail : Send(m)
      BY <2>5 DEF Drain, Send, watch, Typed, ScanTyped, LinksKnown
    <2>6. CASE Restart \/ SessionExits \/ SessionReady
      BY <2>6 DEF Restart, SessionExits, SessionReady, Typed, ScanTyped, LinksKnown
    <2> QED
      BY <2>1, <2>2, <2>3, <2>4, <2>5, <2>6 DEF Next, Scan
  <1>4. checkpoint' # None => checkpoint'.link <= links'
    <2>1. CASE checkpoint' = checkpoint
      <3>1. \A c \in Checkpoints : c.link \in Nat
        BY DEF Checkpoints
      <3> QED
        BY <2>1, <3>1, <1>2, <1>3 DEF Typed, InboxTyped, ScanTyped, LinksKnown
    <2>2. CASE Records
      <3>1. checkpoint'.link = scanned
        BY <2>2 DEF Records, Enqueue, Notice
      <3> QED
        BY <2>2, <3>1, <1>2, <1>3 DEF Records, Typed, ScanTyped, LinksKnown
    <2> QED
      BY <2>1, <2>2, <1>1
  <1> QED
    BY <1>1, <1>2, <1>3, <1>4 DEF Typed, LinksKnown

\* A sequence over a set is one over a larger set.
LEMMA SeqWithin ==
  ASSUME NEW S, NEW T, S \subseteq T, NEW s \in Seq(S)
  PROVE  s \in Seq(T)
  <1>1. Len(s) \in Nat /\ \A i \in 1..Len(s) : s[i] \in T
    OBVIOUS
  <1>2. s = [i \in 1..Len(s) |-> s[i]]
    OBVIOUS
  <1> QED
    BY <1>1, <1>2

\* A new inbox is typed.
LEMMA TypedInit == Init => Typed
  <1> SUFFICES ASSUME Init PROVE Typed
    OBVIOUS
  <1>1. InboxTyped
    <2>1. LinesTyped
      BY DEF Init, StoreInit, LinesTyped
    <2>2. tears \in 0..MaxTears
      BY DEF Init, StoreInit
    <2> QED
      BY <2>1, <2>2, Zenon DEF Init, StoreInit, InboxTyped
  <1>2. ScanTyped /\ LinksKnown
    BY DEF Init, StoreInit, ScanTyped, LinksKnown
  <1> QED
    BY <1>1, <1>2 DEF Typed

\* Every variable keeps its type, for any mail, heads, verdicts and bounds
\* (mail-store.ts, pull-request-events.ts).
THEOREM TypesKept == Spec => []TypeOK
  <1>1. Typed => TypeOK
    <2>1. ASSUME LinesTyped
          PROVE  lines \in Seq([id : Ids \cup {None}, delivered : BOOLEAN])
      <3>1. Messages \cup {Broken} \subseteq [id : Ids \cup {None}, delivered : BOOLEAN]
        <4> DEFINE L == [id : Ids \cup {None}, delivered : BOOLEAN]
        <4>1. \A l \in Messages : l \in L
          BY DEF Messages
        <4>2. Broken \in L
          BY DEF Broken
        <4> QED
          BY <4>1, <4>2
      <3> QED
        BY <2>1, <3>1, SeqWithin DEF LinesTyped
    <2> QED
      BY <2>1 DEF Typed, InboxTyped, ScanTyped, TypeOK, StoreTypeOK
  <1> QED
    BY <1>1, TypedInit, TypedStep, PTL DEF Spec

-----------------------------------------------------------------------------
(* The properties. *)

\* A notice is only ever written for the pull request the session links at
\* that moment, however long the observation took (pull-request-events.ts:145).
THEOREM NoticesForLink == Spec => NoticeForCurrentLink
  <1>1. Typed /\ [Next]_vars => [checkpoint' # checkpoint => checkpoint'.link = linkId]_vars
    <2> SUFFICES ASSUME Typed, [Next]_vars, checkpoint' # checkpoint
                 PROVE  checkpoint'.link = linkId
      OBVIOUS
    <2>1. Records
      BY StoreSteps DEF store, Append1, AppendTorn, MarkDelivered
    <2> QED
      BY <2>1 DEF Records, Enqueue, Notice
  <1> QED
    BY <1>1, TypedInit, TypedStep, PTL DEF Spec, NoticeForCurrentLink

\* Only what a torn append leaves can swallow another append.
AckedInv == tears = 0 => ~open /\ AckedSurvives

\* No step loses what was acknowledged.
LEMMA AckedStep == Typed /\ AckedInv /\ [Next]_vars => AckedInv'
  <1> SUFFICES ASSUME Typed, AckedInv, [Next]_vars, tears' = 0
               PROVE  ~open' /\ AckedSurvives'
    BY DEF AckedInv
  <1>1. CASE UNCHANGED store
    BY <1>1 DEF store, AckedInv, AckedSurvives, Unread, Readable
  <1>2. ASSUME NEW m \in Mail, Append1(m) \/ AppendTorn(m)
        PROVE  ~open' /\ AckedSurvives'
    <2>1. Append1(m)
      BY <1>2 DEF AppendTorn, Typed, InboxTyped
    <2>2. tears = 0 /\ ~open' /\ acked' = acked \cup {m} /\ taken' = taken
      BY <2>1 DEF Append1
    <2>3. Unread \cup {m} \subseteq Unread'
      BY <2>1, <2>2, AppendStep DEF AckedInv, Typed, InboxTyped
    <2> QED
      BY <2>2, <2>3 DEF AckedInv, AckedSurvives
  <1>3. ASSUME NEW S \in SUBSET Unread, MarkDelivered(S)
        PROVE  ~open' /\ AckedSurvives'
    <2>1. Unread \ S \subseteq Unread'
      BY <1>3, MarkStep DEF Typed, InboxTyped
    <2>2. tears = 0 /\ ~open' /\ acked' = acked /\ taken' = taken \cup S
      BY <1>3 DEF MarkDelivered, Replace
    <2> QED
      BY <2>1, <2>2 DEF AckedInv, AckedSurvives
  <1>4. CASE Records
    <2>1. /\ Unread \subseteq Unread'
          /\ obs.state # "in_progress" => Notice(scanned, obs) \in Unread'
      BY <1>4, RecordTyped, EnqueueStep DEF Records, Typed, InboxTyped
    <2>2. tears = 0 /\ ~open' /\ taken' = taken
      BY <1>4 DEF Records, Enqueue, Replace
    <2> QED
      BY <1>4, <2>1, <2>2 DEF Records, AckedInv, AckedSurvives
  <1> QED
    BY <1>1, <1>2, <1>3, <1>4, StoreSteps

\* What the store acknowledged stays unread in the file until it is stamped,
\* at its cap and through every rewrite, unless an append was cut off
\* (mail-store.ts:173-182).
THEOREM AckedMailSurvives == Spec => []AckedSurvivesWhole
  <1>1. Init => AckedInv
    BY DEF Init, StoreInit, AckedInv, AckedSurvives
  <1>2. AckedInv => AckedSurvivesWhole
    BY DEF AckedInv, AckedSurvivesWhole
  <1> QED
    BY <1>1, <1>2, AckedStep, TypedInit, TypedStep, PTL DEF Spec

\* The notices in the file; that n is no newer than the checkpoint c; and
\* that n says something new after m.
Noted == {n \in Notices : \E i \in DOMAIN lines : lines[i].id = n}
Behind(n, c) ==
  \/ n.link < c.link
  \/ /\ n.link = c.link /\ n.ordinal <= c.ordinal
     /\ n.ordinal = c.ordinal => n.state = c.state /\ n.head = c.head
     /\ n.state = "merged" => n.ordinal = c.ordinal
NewsAfter(m, n) ==
  m.link = n.link /\ m.ordinal < n.ordinal =>
    /\ m.state # "merged"
    /\ n.ordinal = m.ordinal + 1 => <<m.state, m.head>> # <<n.state, n.head>>

\* The checkpoint is as new as the newest notice.
CheckpointAhead ==
  \A n \in Noted : checkpoint # None /\ Behind(n, checkpoint)
NewsInv == CheckpointAhead /\ \A m, n \in Noted : NewsAfter(m, n)

\* A step that records nothing leaves no new notice.
LEMMA NotedKept ==
  ASSUME Adds({}) \/ \E m \in Mail : Adds({Broken, Line(m)})
  PROVE  Noted' \subseteq Noted
  <1>1. \A m \in Mail : Line(m).id \notin Notices
    BY DEF Line
  <1>2. Broken.id \notin Notices
    BY DEF Broken, Notices, Checkpoints
  <1>3. ASSUME NEW L, Adds(L), \A l \in L : l.id \notin Notices PROVE Noted' \subseteq Noted
    BY <1>3, AddedIds DEF Noted
  <1>4. CASE Adds({})
    BY <1>3, <1>4
  <1>5. ASSUME NEW m \in Mail, Adds({Broken, Line(m)}) PROVE Noted' \subseteq Noted
    BY <1>1, <1>2, <1>3, <1>5
  <1> QED
    BY <1>4, <1>5

\* What is recorded is ahead of every notice, and is news after each.
LEMMA RecordAhead ==
  ASSUME Typed, NewsInv, Records, NEW n \in Noted
  PROVE  Behind(n, checkpoint') /\ NewsAfter(n, checkpoint')
         /\ NewsAfter(checkpoint', n)
  <1>1. checkpoint \in Checkpoints /\ Behind(n, checkpoint) /\ n \in Notices
    BY DEF NewsInv, CheckpointAhead, Typed, InboxTyped, Noted
  <1>2. /\ n.link \in Nat /\ n.ordinal \in Nat
        /\ checkpoint.link \in Nat /\ checkpoint.ordinal \in Nat
    BY <1>1 DEF Notices, Checkpoints
  <1>3. /\ checkpoint'.link = scanned /\ checkpoint'.ordinal = Ordinal(scanned)
        /\ checkpoint'.state = obs.state /\ checkpoint'.head = obs.head
    BY DEF Records, Enqueue, Notice
  <1>4. scanned \in Nat /\ checkpoint.link <= scanned /\ checkpoint # None
    BY <1>1 DEF Records, Typed, ScanTyped, LinksKnown
  <1>5. CASE checkpoint.link < scanned
    BY <1>1, <1>2, <1>3, <1>4, <1>5 DEF Behind, NewsAfter
  <1>6. CASE checkpoint.link = scanned
    <2>1. Old(scanned) = checkpoint
      BY <1>4, <1>6 DEF Old
    <2>2. Ordinal(scanned) = checkpoint.ordinal + 1
      BY <2>1, <1>4 DEF Ordinal
    <2>3. checkpoint.state # "merged" /\ <<checkpoint.state, checkpoint.head>> # <<obs.state, obs.head>>
      BY <2>1, <1>4 DEF Records, Changed
    <2>4. CASE n.link < scanned
      BY <2>4, <1>2, <1>3, <1>4 DEF Behind, NewsAfter
    <2>5. CASE n.link = scanned
      <3>1. /\ n.ordinal <= checkpoint.ordinal
            /\ n.ordinal = checkpoint.ordinal => n.state = checkpoint.state /\ n.head = checkpoint.head
            /\ n.state # "merged"
        BY <2>3, <2>5, <1>1, <1>2, <1>6 DEF Behind
      <3>2. n.ordinal < checkpoint'.ordinal
        BY <3>1, <2>2, <1>2, <1>3
      <3>3. Behind(n, checkpoint')
        BY <3>1, <3>2, <2>2, <2>5, <1>2, <1>3 DEF Behind
      <3>4. NewsAfter(n, checkpoint')
        BY <3>1, <2>2, <2>3, <1>2, <1>3 DEF NewsAfter
      <3>5. NewsAfter(checkpoint', n)
        BY <3>1, <2>2, <1>2, <1>3 DEF NewsAfter
      <3> QED
        BY <3>3, <3>4, <3>5
    <2> QED
      BY <2>4, <2>5, <1>1, <1>2, <1>6 DEF Behind
  <1> QED
    BY <1>4, <1>5, <1>6, <1>1, <1>2

\* The checkpoint stays ahead, and the notices stay news.
LEMMA NewsStep == Typed /\ NewsInv /\ [Next]_vars => NewsInv'
  <1> SUFFICES ASSUME Typed, NewsInv, [Next]_vars
               PROVE  NewsInv'
    OBVIOUS
  <1>1. ASSUME Noted' \subseteq Noted, checkpoint' = checkpoint
        PROVE  NewsInv'
    BY <1>1 DEF NewsInv, CheckpointAhead
  <1>2. CASE UNCHANGED store
    BY <1>1, <1>2 DEF store, Noted
  <1>3. ASSUME NEW m \in Mail, Append1(m) \/ AppendTorn(m)
        PROVE  NewsInv'
    <2>1. Adds({Broken, Line(m)})
      BY <1>3, AppendStep DEF Typed, InboxTyped
    <2>2. checkpoint' = checkpoint
      BY <1>3 DEF Append1, AppendTorn
    <2> QED
      BY <1>1, <2>1, <2>2, NotedKept
  <1>4. ASSUME NEW S \in SUBSET Unread, MarkDelivered(S)
        PROVE  NewsInv'
    <2>1. Adds({})
      BY <1>4, MarkStep DEF Typed, InboxTyped
    <2>2. checkpoint' = checkpoint
      BY <1>4 DEF MarkDelivered
    <2> QED
      BY <1>1, <2>1, <2>2, NotedKept
  <1>5. CASE Records
    <2> DEFINE c == checkpoint'
    <2>1. c = Notice(scanned, obs) /\ c \in Checkpoints
      BY <1>5, RecordTyped DEF Records, Enqueue
    <2>2. \A n \in Noted : /\ Behind(n, c) /\ NewsAfter(n, c) /\ NewsAfter(c, n)
      BY <1>5, RecordAhead
    <2>3. IF obs.state = "in_progress" THEN Adds({}) ELSE Adds({Line(c)})
      BY <1>5, <2>1, RecordTyped, EnqueueStep DEF Records, Typed, InboxTyped
    <2>4. Noted' \subseteq Noted \cup {c}
      <3>1. Line(c).id = c
        BY DEF Line
      <3> QED
        BY <2>3, <3>1, AddedIds DEF Noted
    <2>5. Behind(c, c) /\ NewsAfter(c, c) /\ c # None
      BY <2>1 DEF Behind, NewsAfter, Checkpoints
    <2>6. \A n \in Noted' : n = c \/ n \in Noted
      BY <2>4
    <2>7. CheckpointAhead'
      BY <2>2, <2>5, <2>6 DEF CheckpointAhead
    <2>8. \A m, n \in Noted' : NewsAfter(m, n)
      BY <2>2, <2>5, <2>6 DEF NewsInv
    <2> QED
      BY <2>7, <2>8 DEF NewsInv
  <1> QED
    BY <1>2, <1>3, <1>4, <1>5, StoreSteps

\* Two notices of one link with consecutive numbers differ and none follows a
\* merge, whichever commit failed after its rename and whenever the bridge
\* restarted (mail-store.ts:104-117).
THEOREM NoticesNew == Spec => []NoticesAreNews
  <1>1. Init => NewsInv
    BY DEF Init, StoreInit, NewsInv, CheckpointAhead, Noted
  <1>2. NewsInv => NoticesAreNews
    BY DEF NewsInv, NoticesAreNews, NewsAfter, Noted, ToSet
  <1> QED
    BY <1>1, <1>2, NewsStep, TypedInit, TypedStep, PTL DEF Spec

-----------------------------------------------------------------------------
(* No notice is forgotten: what the liveness property NoticesAnnounced     *)
(* rests on.  That the retries get through is left to fairness, and so to  *)
(* TLC.                                                                    *)

\* While the session runs, a notice for it that no wake has pointed at has its
\* wake owed, or its scan is about to give it (pull-request-events.ts:80, 150).
WakeOwed ==
  \A n \in Notices \cap Unread :
    ready /\ n.link = linkId /\ n \notin announced =>
      pending = linkId \/ (phase = "notify" /\ scanned = linkId)

\* A scan under way for another link finds nothing of the present one in the
\* file: it cannot overwrite the wake that is owed.
ScansOther ==
  \A n \in Noted : n.link = linkId => phase = "idle" \/ scanned = linkId

\* The notices in the file are of links that were given out.
LEMMA NotedLinks ==
  ASSUME Typed, NewsInv, NEW n \in Noted
  PROVE  n.link \in Nat /\ n.link # 0 /\ n.link <= links
  <1>1. n \in Notices /\ checkpoint \in Checkpoints /\ n.link <= checkpoint.link
    <2>1. n \in Notices /\ checkpoint \in Checkpoints /\ Behind(n, checkpoint)
      BY DEF Noted, NewsInv, CheckpointAhead, Typed, InboxTyped
    <2>2. n.link \in Nat /\ checkpoint.link \in Nat
      BY <2>1 DEF Notices, Checkpoints
    <2> QED
      BY <2>1, <2>2 DEF Behind
  <1>2. n.link \in Nat /\ n.link # 0 /\ checkpoint.link \in Nat
    BY <1>1 DEF Notices, Checkpoints
  <1>3. checkpoint.link <= links /\ links \in Nat
    BY DEF Typed, ScanTyped, LinksKnown, NewsInv, CheckpointAhead
  <1> QED
    BY <1>1, <1>2, <1>3

\* Unread notices are in the file.
LEMMA UnreadNoted == Notices \cap Unread \subseteq Noted
  BY UnreadAt DEF Noted

LEMMA OwedStep ==
  Typed /\ NewsInv /\ WakeOwed /\ ScansOther /\ [Next]_vars => WakeOwed' /\ ScansOther'
  <1> SUFFICES ASSUME Typed, NewsInv, WakeOwed, ScansOther, [Next]_vars
               PROVE  WakeOwed' /\ ScansOther'
    OBVIOUS
  <1>a. linkId \in Nat /\ links \in Nat /\ scanned \in Nat /\ pending \in Nat
    BY DEF Typed, ScanTyped
  <1>u. UNCHANGED store => Unread' = Unread /\ Noted' = Noted
    BY DEF store, Unread, Readable, Noted
  <1>n. \A n \in Notices \cap Unread : n \in Noted /\ n.link # 0
    BY UnreadNoted, NotedLinks
  \* Mail comes or is read while the watcher stands still.
  <1>m. ASSUME UNCHANGED watch, Noted' \subseteq Noted, Notices \cap Unread' \subseteq Unread
        PROVE  WakeOwed' /\ ScansOther'
    BY <1>m DEF watch, WakeOwed, ScansOther
  <1>1. CASE UNCHANGED vars
    BY <1>1, <1>m, <1>u DEF vars
  <1>2. CASE Drain
    <2>1. PICK S \in SUBSET Unread : MarkDelivered(S) /\ UNCHANGED watch
      BY <1>2 DEF Drain
    <2>2. Adds({})
      BY <2>1, MarkStep DEF Typed, InboxTyped
    <2>3. Unread' \subseteq Unread
      BY <2>2, UnreadFrom
    <2> QED
      BY <2>1, <2>2, <2>3, <1>m, NotedKept
  <1>3. ASSUME NEW m \in Mail, Send(m) PROVE WakeOwed' /\ ScansOther'
    <2>1. (Append1(m) \/ AppendTorn(m)) /\ UNCHANGED watch
      BY <1>3 DEF Send
    <2>2. Adds({Broken, Line(m)})
      BY <2>1, AppendStep DEF Typed, InboxTyped
    <2>3. Unread' \subseteq Unread \cup {l.id : l \in {Broken, Line(m)}}
      BY <2>2, UnreadFrom
    <2>4. Broken.id \notin Notices /\ Line(m).id \notin Notices
      <3>1. Broken.id = None /\ Line(m).id = m
        BY DEF Broken, Line
      <3> QED
        BY <3>1 DEF Notices, Checkpoints
    <2>5. Notices \cap Unread' \subseteq Unread
      BY <2>3, <2>4
    <2> QED
      BY <2>1, <2>2, <2>5, <1>m, NotedKept
  <1>4. CASE Relink
    <2>1. /\ linkId' \in {0, links + 1}
          /\ UNCHANGED <<store, phase, scanned, pending, ready, announced>>
      BY <1>4 DEF Relink
    <2>2. \A n \in Noted : n.link # linkId'
      BY <2>1, <1>a, NotedLinks
    <2> QED
      BY <2>1, <2>2, <1>u, <1>n DEF WakeOwed, ScansOther
  <1>5. CASE ScanLinks
    <2>1. /\ scanned' = linkId /\ phase = "idle"
          /\ UNCHANGED <<store, linkId, pending, ready, announced>>
      BY <1>5 DEF ScanLinks
    <2> QED
      BY <2>1, <1>u DEF WakeOwed, ScansOther
  <1>6. CASE ScanWake
    <2>1. phase = "wake" /\ UNCHANGED <<store, linkId, scanned, ready>>
      BY <1>6 DEF ScanWake
    <2>2. \/ ready /\ announced' = Unread
          \/ announced' = announced /\ (pending = linkId /\ linkId # 0 /\ ready => pending' = pending)
      BY <1>6 DEF ScanWake, Announce
    <2>3. WakeOwed'
      BY <2>1, <2>2, <1>u, <1>n DEF WakeOwed
    <2> QED
      BY <2>1, <2>3, <1>u DEF ScansOther
  <1>7. CASE ScanObserve \/ ScanSkip
    <2>1. /\ phase \in {"observe", "commit"}
          /\ UNCHANGED <<store, linkId, scanned, pending, ready, announced>>
      BY <1>7 DEF ScanObserve, ScanSkip
    <2> QED
      BY <2>1, <1>u DEF WakeOwed, ScansOther
  <1>8. CASE ScanCommit \/ ScanCommitFails
    <2>1. /\ scanned' = linkId' /\ (phase' = "notify" \/ pending' = linkId')
      BY <1>8 DEF ScanCommit, ScanCommitFails
    <2> QED
      BY <2>1 DEF WakeOwed, ScansOther
  <1>9. CASE ScanNotify
    <2>1. phase = "notify" /\ phase' = "idle" /\ UNCHANGED <<store, linkId, ready>>
      BY <1>9 DEF ScanNotify
    <2>2. \/ announced' = Unread \/ ~ready
          \/ announced' = announced /\ pending' = scanned
      BY <1>9 DEF ScanNotify, Announce
    <2>3. WakeOwed'
      BY <2>1, <2>2, <1>u, <1>n DEF WakeOwed, ScansOther
    <2> QED
      BY <2>1, <2>3 DEF ScansOther
  <1>10. CASE Restart \/ SessionExits
    <2>1. /\ ~ready' /\ UNCHANGED <<store, linkId, scanned>>
          /\ phase' = phase \/ phase' = "idle"
      BY <1>10 DEF Restart, SessionExits
    <2> QED
      BY <2>1, <1>u DEF WakeOwed, ScansOther
  <1>11. CASE SessionReady
    <2>1. announced' = Unread /\ UNCHANGED <<store, linkId, scanned, phase>>
      BY <1>11 DEF SessionReady
    <2> QED
      BY <2>1, <1>u DEF WakeOwed, ScansOther
  <1> QED
    BY <1>1, <1>2, <1>3, <1>4, <1>5, <1>6, <1>7, <1>8, <1>9, <1>10, <1>11 DEF Next, Scan

\* A notice for a running session has been pointed at, or its wake is owed,
\* whatever failed, restarted or was linked in between: the part of
\* NoticesAnnounced that is safety.
THEOREM NoticesOwed == Spec => []WakeOwed
  <1> DEFINE Inv == Typed /\ NewsInv /\ WakeOwed /\ ScansOther
  <1>1. Init => Inv
    <2>1. Init => NewsInv /\ WakeOwed /\ ScansOther
      BY DEF Init, StoreInit, NewsInv, CheckpointAhead, Noted, WakeOwed, ScansOther, Unread,
             Readable
    <2> QED
      BY <2>1, TypedInit
  <1>2. Inv /\ [Next]_vars => Inv'
    BY TypedStep, NewsStep, OwedStep
  <1>3. Inv => WakeOwed
    OBVIOUS
  <1> QED
    BY <1>1, <1>2, <1>3, PTL DEF Spec
=============================================================================
