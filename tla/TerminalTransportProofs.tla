---------------------- MODULE TerminalTransportProofs ----------------------
(***************************************************************************)
(* Proofs about TerminalTransport: types, what page and bridge agree on    *)
(* about the paths of the sessions, and what becomes of the keys.          *)
(*                                                                         *)
(* The invariant relates the fields of the transport to each other         *)
(* (ModesFit, LinkFits) and to the bridge (BridgeFits).  What the bridge   *)
(* has attached, or watches, lags behind the page by the frames, or        *)
(* commands, that are on their way, so BridgeFits speaks of what it will   *)
(* have once they have arrived (Reaches, Watching): of that, each effect   *)
(* of a frame sent is the effect of the frame handled.  Commands may come  *)
(* to nothing, so there BridgeFits speaks of the sessions W the bridge     *)
(* would watch if none had: they are those it watches, but for the unsure  *)
(* ones (Sure).                                                            *)
(*                                                                         *)
(* The methods are composed of a few operators, each of which is described *)
(* first as the fields it changes (GoDirectIs, CloseLinkIs, ...); the      *)
(* loops over sessions are described by what they keep turn by turn        *)
(* (EachGoDirect, ...); then each action keeps the invariant.              *)
(*                                                                         *)
(* The keys have an invariant of their own (KeysFit): each is housed in    *)
(* one kind of place of one session or lost (HomeIs), and in the places of *)
(* a session they lie in the order in which they will reach its process,   *)
(* but for those exposed by a change of path (SetsFit).  A change of the   *)
(* transport is told by the keys it moves (MovedAt), or by none (Aside).   *)
(***************************************************************************)
EXTENDS TerminalTransport, FiniteSetTheorems, SequenceTheorems,
        WellFoundedInduction, TLAPS


(* A nonempty set of naturals has a least member.                          *)
LEMMA LeastNatural ==
  ASSUME NEW S \in SUBSET Nat, S # {}
  PROVE  \E n \in S : \A m \in S : n <= m
  <1>1. \E n \in S : \A m \in S : <<m, n>> \notin OpToRel(<, Nat)
    BY NatLessThanWellFounded, WFMin
  <1>2. \A m, n \in Nat : m < n => <<m, n>> \in OpToRel(<, Nat)
    BY DEF OpToRel
  <1>3. PICK n \in S : \A m \in S : <<m, n>> \notin OpToRel(<, Nat)
    BY <1>1
  <1>4. ASSUME NEW m \in S PROVE n <= m
    <2>1. m \in Nat /\ n \in Nat
      OBVIOUS
    <2>2. ~(m < n)
      BY <1>2, <1>3, <2>1
    <2> QED
      BY <2>1, <2>2
  <1> QED
    BY <1>3, <1>4

(* A loop over a set of sessions gives every session exactly one turn.     *)
LEMMA TurnsAll ==
  ASSUME NEW S \in SUBSET Sessions
  PROVE  /\ Len(SetToSeq(S)) \in Nat
         /\ SetToSeq(S) \in [1 .. Len(SetToSeq(S)) -> S]
         /\ \A s \in S : \E i \in 1 .. Len(SetToSeq(S)) : SetToSeq(S)[i] = s
         /\ \A i, j \in 1 .. Len(SetToSeq(S)) : SetToSeq(S)[i] = SetToSeq(S)[j] => i = j
  <1>1. IsFiniteSet(S) /\ Cardinality(S) \in Nat /\ ExistsBijection(1 .. Cardinality(S), S)
    BY TransportAssumption, FS_Subset, FS_CardinalityType
  <1> DEFINE turn == SetToSeq(S) n == Cardinality(S)
  <1>2. turn \in [1 .. n -> S] /\ \A i, j \in 1 .. n : turn[i] = turn[j] => i = j
    <2>1. \E f : f \in Bijection(1 .. n, S)
      BY <1>1, Zenon DEF ExistsBijection
    <2>1a. \E f \in [1 .. n -> S] : \A i, j \in 1 .. n : f[i] = f[j] => i = j
      BY <2>1 DEF Bijection, Injection, IsInjective
    <2>2. \E f \in [1 .. n -> S] : IsInjective(f)
      BY <2>1a DEF IsInjective
    <2>3. turn \in [1 .. n -> S] /\ IsInjective(turn)
      BY <2>2 DEF SetToSeq
    <2> QED
      BY <2>3 DEF IsInjective
  <1>3. turn \in Seq(S) /\ Len(turn) = n
    BY <1>1, <1>2
  <1>4. turn \in Injection(1 .. n, S)
    BY <1>2 DEF Injection, IsInjective
  <1>5. Cardinality(1 .. n) = n
    BY <1>1, FS_Interval
  <1>6. turn \in Surjection(1 .. n, S)
    BY <1>1, <1>4, <1>5, FS_Injection
  <1>7. \A s \in S : \E i \in 1 .. n : turn[i] = s
    BY <1>6 DEF Surjection
  <1> QED
    BY <1>1, <1>2, <1>3, <1>7

-----------------------------------------------------------------------------
(* Queues of keys: what is in them and in which order.                     *)

Ascends(q) == \A i, j \in DOMAIN q : i < j => q[i] < q[j]
Once(q) == \A i, j \in DOMAIN q : q[i] = q[j] => i = j

(* Nothing is in an empty queue, in order and once.                        *)
LEMMA EmptyQueue ==
  ToSet(<<>>) = {} /\ Ascends(<<>>) /\ Once(<<>>)
  BY DEF ToSet, Ascends, Once

(* A queue without keys is empty.                                          *)
LEMMA NonEmptyQueue ==
  ASSUME NEW q \in Seq(Keys), ToSet(q) = {}
  PROVE  q = <<>>
  <1>1. Len(q) = 0
    <2>1. ASSUME Len(q) # 0 PROVE FALSE
      <3>1. 1 \in DOMAIN q
        BY <2>1
      <3> QED
        BY <3>1 DEF ToSet
    <2> QED
      BY <2>1
  <1> QED
    BY <1>1

(* What is in a queue of keys are keys.                                    *)
LEMMA QueueOfKeys ==
  ASSUME NEW q \in Seq(Keys)
  PROVE  ToSet(q) \subseteq Keys
  BY DEF ToSet

(* Two queues one after the other hold what both hold; the order and the   *)
(* uniqueness of each survive when the second holds only later, or other,  *)
(* keys.                                                                   *)
LEMMA ConcatQueue ==
  ASSUME NEW p \in Seq(Keys), NEW q \in Seq(Keys)
  PROVE  /\ p \o q \in Seq(Keys)
         /\ ToSet(p \o q) = ToSet(p) \union ToSet(q)
         /\ Ascends(p) /\ Ascends(q) /\ (\A x \in ToSet(p), y \in ToSet(q) : x < y)
              => Ascends(p \o q)
         /\ Once(p) /\ Once(q) /\ ToSet(p) \cap ToSet(q) = {} => Once(p \o q)
  <1> DEFINE r == p \o q
  <1>1. r \in Seq(Keys) /\ Len(r) = Len(p) + Len(q) /\ Len(p) \in Nat /\ Len(q) \in Nat
    OBVIOUS
  <1>2. \A i \in DOMAIN r : \/ i \in DOMAIN p /\ r[i] = p[i]
                            \/ i > Len(p) /\ i - Len(p) \in DOMAIN q /\ r[i] = q[i - Len(p)]
    OBVIOUS
  <1>3. \A i \in DOMAIN p : i \in DOMAIN r /\ r[i] = p[i] /\ i <= Len(p)
    OBVIOUS
  <1>4. \A i \in DOMAIN q : i + Len(p) \in DOMAIN r /\ r[i + Len(p)] = q[i]
    OBVIOUS
  <1> HIDE DEF r
  <1>5. ToSet(r) = ToSet(p) \union ToSet(q)
    BY <1>2, <1>3, <1>4 DEF ToSet
  <1>6. ASSUME Ascends(p), Ascends(q), \A x \in ToSet(p), y \in ToSet(q) : x < y
        PROVE  Ascends(r)
    <2> SUFFICES ASSUME NEW i \in DOMAIN r, NEW j \in DOMAIN r, i < j PROVE r[i] < r[j]
      BY DEF Ascends
    <2>1. i \in Nat /\ j \in Nat /\ DOMAIN p = 1 .. Len(p) /\ DOMAIN q = 1 .. Len(q)
      BY <1>1
    <2>2. CASE j \in DOMAIN p /\ r[j] = p[j]
      BY <1>1, <1>2, <1>6, <2>1, <2>2 DEF Ascends
    <2>3. CASE i > Len(p) /\ i - Len(p) \in DOMAIN q /\ r[i] = q[i - Len(p)]
      BY <1>1, <1>2, <1>6, <2>1, <2>3 DEF Ascends
    <2>4. CASE /\ i \in DOMAIN p /\ r[i] = p[i]
               /\ j > Len(p) /\ j - Len(p) \in DOMAIN q /\ r[j] = q[j - Len(p)]
      BY <1>6, <2>4 DEF ToSet
    <2> QED
      BY <1>2, <2>2, <2>3, <2>4
  <1>7. ASSUME Once(p), Once(q), ToSet(p) \cap ToSet(q) = {}
        PROVE  Once(r)
    <2> SUFFICES ASSUME NEW i \in DOMAIN r, NEW j \in DOMAIN r, r[i] = r[j] PROVE i = j
      BY DEF Once
    <2>1. i \in Nat /\ j \in Nat
      BY <1>1
    <2> DEFINE Left(k) == k \in DOMAIN p /\ r[k] = p[k]
               Right(k) == k > Len(p) /\ k - Len(p) \in DOMAIN q /\ r[k] = q[k - Len(p)]
    <2>2. CASE Left(i) /\ Left(j)
      BY <1>7, <2>2 DEF Once
    <2>3. CASE Right(i) /\ Right(j)
      <3>1. i - Len(p) = j - Len(p)
        BY <1>7, <2>3 DEF Once
      <3> QED
        BY <1>1, <2>1, <3>1
    <2>4. CASE Left(i) /\ Right(j)
      BY <1>7, <2>4 DEF ToSet
    <2>5. CASE Right(i) /\ Left(j)
      BY <1>7, <2>5 DEF ToSet
    <2> QED
      BY <1>2, <2>2, <2>3, <2>4, <2>5
  <1> QED
    BY <1>1, <1>5, <1>6, <1>7 DEF r

(* A queue of one key.                                                     *)
LEMMA OneKey ==
  ASSUME NEW k \in Keys
  PROVE  <<k>> \in Seq(Keys) /\ ToSet(<<k>>) = {k} /\ Ascends(<<k>>) /\ Once(<<k>>)
  BY DEF ToSet, Ascends, Once

(* Appending a key is appending a queue of one.                            *)
LEMMA AppendQueue ==
  ASSUME NEW p \in Seq(Keys), NEW k \in Keys
  PROVE  Append(p, k) = p \o <<k>>
  OBVIOUS

(* What is left of a queue when its head has been taken keeps its order    *)
(* and no longer holds the head.                                           *)
LEMMA TailQueue ==
  ASSUME NEW q \in Seq(Keys), q # <<>>
  PROVE  /\ Tail(q) \in Seq(Keys) /\ Head(q) \in Keys
         /\ ToSet(q) = {Head(q)} \union ToSet(Tail(q))
         /\ Ascends(q) => Ascends(Tail(q))
         /\ Once(q) => Once(Tail(q)) /\ Head(q) \notin ToSet(Tail(q))
  <1>1. /\ Tail(q) \in Seq(Keys) /\ Head(q) \in Keys /\ Head(q) = q[1] /\ 1 \in DOMAIN q
        /\ Len(q) \in Nat /\ DOMAIN q = 1 .. Len(q) /\ DOMAIN Tail(q) = 1 .. Len(q) - 1
        /\ \A i \in DOMAIN Tail(q) : i + 1 \in DOMAIN q /\ Tail(q)[i] = q[i + 1]
    OBVIOUS
  <1>2. \A i \in DOMAIN q : i = 1 \/ (i - 1 \in DOMAIN Tail(q) /\ Tail(q)[i - 1] = q[i])
    BY <1>1
  <1>3. ToSet(q) = {Head(q)} \union ToSet(Tail(q))
    <2>1. ASSUME NEW x \in ToSet(q) PROVE x \in {Head(q)} \union ToSet(Tail(q))
      <3>1. PICK i \in DOMAIN q : x = q[i]
        BY <2>1 DEF ToSet
      <3>2. CASE i = 1
        BY <1>1, <3>1, <3>2
      <3>3. CASE i - 1 \in DOMAIN Tail(q) /\ Tail(q)[i - 1] = q[i]
        BY <3>1, <3>3 DEF ToSet
      <3> QED
        BY <1>2, <3>2, <3>3
    <2>2. ASSUME NEW x \in ToSet(Tail(q)) PROVE x \in ToSet(q)
      <3>1. PICK i \in DOMAIN Tail(q) : x = Tail(q)[i]
        BY <2>2 DEF ToSet
      <3> QED
        BY <1>1, <3>1 DEF ToSet
    <2>3. Head(q) \in ToSet(q)
      BY <1>1 DEF ToSet
    <2> QED
      BY <2>1, <2>2, <2>3
  <1>4. Ascends(q) => Ascends(Tail(q))
    BY <1>1 DEF Ascends
  <1>5. Once(q) => Once(Tail(q)) /\ Head(q) \notin ToSet(Tail(q))
    BY <1>1 DEF Once, ToSet
  <1> QED
    BY <1>1, <1>3, <1>4, <1>5

(* In an ascending queue no key is there twice.                            *)
LEMMA AscendsOnce ==
  ASSUME NEW q \in Seq(Keys), Ascends(q)
  PROVE  Once(q)
  <1> SUFFICES ASSUME NEW i \in DOMAIN q, NEW j \in DOMAIN q, q[i] = q[j], i # j PROVE FALSE
    BY DEF Once
  <1>1. i \in Nat /\ j \in Nat /\ q[i] \in Nat
    <2>1. DOMAIN q \subseteq Nat /\ q[i] \in Keys
      OBVIOUS
    <2>2. Keys \subseteq Nat
      BY TransportAssumption DEF Keys
    <2> QED
      BY <2>1, <2>2
  <1>2. i < j \/ j < i
    BY <1>1
  <1> QED
    BY <1>1, <1>2 DEF Ascends

-----------------------------------------------------------------------------
(* Commands on their way: what they leave behind when they have arrived.   *)

(* A fact that the members of On bring about and those of Off undo, and    *)
(* that holds now if b: does it hold once the commands of q have arrived?  *)
Leaves(q, On, Off, b) ==
    \/ \E i \in DOMAIN q : q[i] \in On /\ \A j \in DOMAIN q : j > i => q[j] \notin Off
    \/ b /\ \A j \in DOMAIN q : q[j] \notin Off

(* Where the items of two sequences are when one follows the other.        *)
LEMMA SeqConcat ==
  ASSUME NEW X, NEW p \in Seq(X), NEW q \in Seq(X)
  PROVE  /\ p \o q \in Seq(X)
         /\ Len(p) \in Nat /\ DOMAIN p = 1 .. Len(p)
         /\ DOMAIN p \subseteq Nat /\ DOMAIN q \subseteq Nat /\ DOMAIN (p \o q) \subseteq Nat
         /\ \A i \in DOMAIN (p \o q) :
              \/ i <= Len(p) /\ i \in DOMAIN p /\ (p \o q)[i] = p[i]
              \/ i > Len(p) /\ i - Len(p) \in DOMAIN q /\ (p \o q)[i] = q[i - Len(p)]
         /\ \A i \in DOMAIN p : i \in DOMAIN (p \o q) /\ (p \o q)[i] = p[i] /\ i <= Len(p)
         /\ \A i \in DOMAIN q : i > 0 /\ i + Len(p) \in DOMAIN (p \o q)
                                /\ (p \o q)[i + Len(p)] = q[i]
  OBVIOUS

(* What two runs of commands leave behind is what the second leaves of     *)
(* what the first has left.                                                *)
LEMMA LeavesConcat ==
  ASSUME NEW X, NEW p \in Seq(X), NEW q \in Seq(X), NEW On, NEW Off, NEW b
  PROVE  Leaves(p \o q, On, Off, b) <=> Leaves(q, On, Off, Leaves(p, On, Off, b))
  <1> DEFINE r == p \o q
             c == Leaves(p, On, Off, b)
  <1> USE SeqConcat
  <1> HIDE DEF r, c
  <1>1. ASSUME Leaves(q, On, Off, c) PROVE Leaves(r, On, Off, b)
    <2>1. CASE \E i \in DOMAIN q : q[i] \in On /\ \A j \in DOMAIN q : j > i => q[j] \notin Off
      <3>1. PICK i \in DOMAIN q : q[i] \in On /\ \A j \in DOMAIN q : j > i => q[j] \notin Off
        BY <2>1
      <3>2. i + Len(p) \in DOMAIN r /\ r[i + Len(p)] = q[i]
        BY DEF r
      <3>3. ASSUME NEW j \in DOMAIN r, j > i + Len(p) PROVE r[j] \notin Off
        <4>1. j > Len(p) /\ j - Len(p) \in DOMAIN q /\ r[j] = q[j - Len(p)] /\ j - Len(p) > i
          BY <3>3 DEF r
        <4> QED
          BY <3>1, <4>1
      <3> QED
        BY <3>1, <3>2, <3>3 DEF Leaves
    <2>2. CASE c /\ \A j \in DOMAIN q : q[j] \notin Off
      <3>1. CASE \E i \in DOMAIN p : p[i] \in On /\ \A j \in DOMAIN p : j > i => p[j] \notin Off
        <4>1. PICK i \in DOMAIN p : p[i] \in On /\ \A j \in DOMAIN p : j > i => p[j] \notin Off
          BY <3>1
        <4>2. i \in DOMAIN r /\ r[i] = p[i]
          BY DEF r
        <4>3. \A j \in DOMAIN r : j > i => r[j] \notin Off
          BY <2>2, <4>1 DEF r
        <4> QED
          BY <4>1, <4>2, <4>3 DEF Leaves
      <3>2. CASE b /\ \A j \in DOMAIN p : p[j] \notin Off
        <4>1. \A j \in DOMAIN r : r[j] \notin Off
          BY <2>2, <3>2 DEF r
        <4> QED
          BY <3>2, <4>1 DEF Leaves
      <3> QED
        BY <2>2, <3>1, <3>2 DEF c, Leaves
    <2> QED
      BY <1>1, <2>1, <2>2 DEF Leaves
  <1>2. ASSUME Leaves(r, On, Off, b) PROVE Leaves(q, On, Off, c)
    <2>1. CASE \E i \in DOMAIN r : r[i] \in On /\ \A j \in DOMAIN r : j > i => r[j] \notin Off
      <3>1. PICK i \in DOMAIN r : r[i] \in On /\ \A j \in DOMAIN r : j > i => r[j] \notin Off
        BY <2>1
      <3>2. CASE i <= Len(p) /\ i \in DOMAIN p /\ r[i] = p[i]
        <4>1. ASSUME NEW j \in DOMAIN p, j > i PROVE p[j] \notin Off
          BY <3>1, <4>1 DEF r
        <4>2. c
          BY <3>1, <3>2, <4>1 DEF c, Leaves
        <4>3. ASSUME NEW j \in DOMAIN q PROVE q[j] \notin Off
          <5>1. j + Len(p) \in DOMAIN r /\ r[j + Len(p)] = q[j] /\ j + Len(p) > i
            BY <3>2 DEF r
          <5> QED
            BY <3>1, <5>1
        <4> QED
          BY <4>2, <4>3 DEF Leaves
      <3>3. CASE i > Len(p) /\ i - Len(p) \in DOMAIN q /\ r[i] = q[i - Len(p)]
        <4>1. ASSUME NEW j \in DOMAIN q, j > i - Len(p) PROVE q[j] \notin Off
          <5>1. j + Len(p) \in DOMAIN r /\ r[j + Len(p)] = q[j] /\ j + Len(p) > i
            BY <3>3, <4>1 DEF r
          <5> QED
            BY <3>1, <5>1
        <4> QED
          BY <3>1, <3>3, <4>1 DEF Leaves
      <3> QED
        BY <3>2, <3>3 DEF r
    <2>2. CASE b /\ \A j \in DOMAIN r : r[j] \notin Off
      <3>1. c
        BY <2>2 DEF r, c, Leaves
      <3>2. ASSUME NEW j \in DOMAIN q PROVE q[j] \notin Off
        <4>1. j + Len(p) \in DOMAIN r /\ r[j + Len(p)] = q[j]
          BY DEF r
        <4> QED
          BY <2>2, <4>1
      <3> QED
        BY <3>1, <3>2 DEF Leaves
    <2> QED
      BY <1>2, <2>1, <2>2 DEF Leaves
  <1> QED
    BY <1>1, <1>2 DEF r, c

(* No command changes nothing.                                             *)
LEMMA LeavesNone ==
  ASSUME NEW On, NEW Off, NEW b
  PROVE  Leaves(<<>>, On, Off, b) <=> b
  BY DEF Leaves

(* A sequence is its head followed by its tail.                            *)
LEMMA HeadAndTail ==
  ASSUME NEW X, NEW q \in Seq(X), q # <<>>
  PROVE  Head(q) \in X /\ Tail(q) \in Seq(X) /\ q = <<Head(q)>> \o Tail(q)
  OBVIOUS

(* The sessions the bridge will have attached, watched, when what is on    *)
(* its way has arrived.                                                    *)
Reaches(up, A, s) ==
    Leaves(up, {Frame("attach", s, 0)}, {Frame("detach", s, 0), Frame("close", 0, 0)}, s \in A)
Watching(cmds, W, s) ==
    Leaves(cmds, {[type |-> "watch", session |-> s]}, {[type |-> "unwatch", session |-> s]},
           s \in W)

(* Where the frames of two sequences are when one follows the other.       *)
LEMMA FramesConcat ==
  ASSUME NEW p \in Seq(Frames), NEW q \in Seq(Frames)
  PROVE  /\ p \o q \in Seq(Frames)
         /\ Len(p) \in Nat /\ DOMAIN p = 1 .. Len(p)
         /\ DOMAIN p \subseteq Nat /\ DOMAIN q \subseteq Nat /\ DOMAIN (p \o q) \subseteq Nat
         /\ \A i \in DOMAIN (p \o q) :
              \/ i <= Len(p) /\ i \in DOMAIN p /\ (p \o q)[i] = p[i]
              \/ i > Len(p) /\ i - Len(p) \in DOMAIN q /\ (p \o q)[i] = q[i - Len(p)]
         /\ \A i \in DOMAIN p : i \in DOMAIN (p \o q) /\ (p \o q)[i] = p[i] /\ i <= Len(p)
         /\ \A i \in DOMAIN q : i > 0 /\ i + Len(p) \in DOMAIN (p \o q)
                                /\ (p \o q)[i + Len(p)] = q[i]
  BY SeqConcat

(* The frames the page sends are frames.                                   *)
LEMMA FramesTyped ==
  ASSUME NEW s \in Sessions
  PROVE  /\ Frame("attach", s, 0) \in Frames /\ Frame("detach", s, 0) \in Frames
         /\ Frame("close", 0, 0) \in Frames
         /\ \A k \in Keys : Frame("input", s, k) \in Frames
  BY DEF Frames, Frame

(* One more frame at the end: attach adds its session to those that will   *)
(* be attached, detach takes it away, and after a close none will be.      *)
LEMMA ReachesMore ==
  ASSUME NEW up \in Seq(Frames), NEW A, NEW s \in Sessions
  PROVE  /\ \A r \in Sessions : Reaches(up \o <<Frame("attach", r, 0)>>, A, s)
                                  <=> (s = r \/ Reaches(up, A, s))
         /\ \A r \in Sessions : Reaches(up \o <<Frame("detach", r, 0)>>, A, s)
                                  <=> (s # r /\ Reaches(up, A, s))
         /\ ~Reaches(up \o <<Frame("close", 0, 0)>>, A, s)
  <1> DEFINE On == {Frame("attach", s, 0)}
             Off == {Frame("detach", s, 0), Frame("close", 0, 0)}
  <1>1. On \cap Off = {}
    BY DEF Frame
  <1>2. ASSUME NEW f \in Frames
        PROVE  Reaches(up \o <<f>>, A, s) <=> f \in On \/ (Reaches(up, A, s) /\ f \notin Off)
    <2>1. Leaves(up \o <<f>>, On, Off, s \in A)
            <=> Leaves(<<f>>, On, Off, Leaves(up, On, Off, s \in A))
      BY <1>2, LeavesConcat, <<f>> \in Seq(Frames)
    <2>2. Leaves(<<f>>, On, Off, Leaves(up, On, Off, s \in A))
            <=> f \in On \/ (Leaves(up, On, Off, s \in A) /\ f \notin Off)
      <3> DEFINE b == Leaves(up, On, Off, s \in A)
      <3> HIDE DEF b, On, Off
      <3>1. Leaves(<<f>>, On, Off, b) <=> f \in On \/ (b /\ f \notin Off)
        BY <1>1 DEF Leaves
      <3> QED
        BY <3>1 DEF b
    <2> QED
      BY <2>1, <2>2 DEF Reaches
  <1> QED
    BY <1>2, FramesTyped DEF Frame

(* Taking the head frame and doing what it says leaves what will be        *)
(* attached as it was.                                                     *)
LEMMA ReachesRest ==
  ASSUME NEW up \in Seq(Frames), up # <<>>, NEW A, NEW B, NEW s \in Sessions,
         LET f == Head(up)
         IN  s \in B <=> \/ f.kind = "attach" /\ f.session = s
                         \/ s \in A /\ f.kind # "close" /\ ~(f.kind = "detach" /\ f.session = s)
  PROVE  Reaches(Tail(up), B, s) <=> Reaches(up, A, s)
  <1> DEFINE f == Head(up)
             On == {Frame("attach", s, 0)}
             Off == {Frame("detach", s, 0), Frame("close", 0, 0)}
  <1>1. On \cap Off = {}
    BY DEF Frame
  <1>2. f \in Frames /\ Tail(up) \in Seq(Frames) /\ up = <<f>> \o Tail(up)
    BY HeadAndTail
  <1>3. f \in On \/ (s \in A /\ f \notin Off) <=> s \in B
    BY <1>2 DEF Frames, Frame
  <1>4. Leaves(<<f>>, On, Off, s \in A) <=> s \in B
    <2> HIDE DEF On, Off
    <2> QED
      BY <1>1, <1>3 DEF Leaves
  <1>5. Leaves(<<f>> \o Tail(up), On, Off, s \in A)
          <=> Leaves(Tail(up), On, Off, Leaves(<<f>>, On, Off, s \in A))
    BY <1>2, LeavesConcat, <<f>> \in Seq(Frames)
  <1>6. Leaves(Tail(up), On, Off, Leaves(<<f>>, On, Off, s \in A))
          <=> Leaves(Tail(up), On, Off, s \in B)
    BY <1>4 DEF Leaves
  <1> QED
    BY <1>2, <1>5, <1>6 DEF Reaches

Commands == [type : {"watch", "unwatch"}, session : Sessions]

(* One more command at the end: watch adds its session, unwatch takes it   *)
(* away.                                                                   *)
LEMMA WatchingMore ==
  ASSUME NEW cmds \in Seq(Commands), NEW W, NEW s \in Sessions, NEW r \in Sessions
  PROVE  /\ Watching(Append(cmds, [type |-> "watch", session |-> r]), W, s)
              <=> (s = r \/ Watching(cmds, W, s))
         /\ Watching(Append(cmds, [type |-> "unwatch", session |-> r]), W, s)
              <=> (s # r /\ Watching(cmds, W, s))
  <1> DEFINE On == {[type |-> "watch", session |-> s]}
             Off == {[type |-> "unwatch", session |-> s]}
  <1>1. On \cap Off = {}
    OBVIOUS
  <1>2. ASSUME NEW c \in Commands
        PROVE  Watching(Append(cmds, c), W, s) <=> c \in On \/ (Watching(cmds, W, s) /\ c \notin Off)
    <2>1. Leaves(cmds \o <<c>>, On, Off, s \in W)
            <=> Leaves(<<c>>, On, Off, Leaves(cmds, On, Off, s \in W))
      BY <1>2, LeavesConcat, <<c>> \in Seq(Commands)
    <2>2. Leaves(<<c>>, On, Off, Leaves(cmds, On, Off, s \in W))
            <=> c \in On \/ (Leaves(cmds, On, Off, s \in W) /\ c \notin Off)
      <3> DEFINE b == Leaves(cmds, On, Off, s \in W)
      <3> HIDE DEF b, On, Off
      <3>1. Leaves(<<c>>, On, Off, b) <=> c \in On \/ (b /\ c \notin Off)
        BY <1>1 DEF Leaves
      <3> QED
        BY <3>1 DEF b
    <2>3. Append(cmds, c) = cmds \o <<c>>
      OBVIOUS
    <2> QED
      BY <2>1, <2>2, <2>3 DEF Watching
  <1> QED
    BY <1>2 DEF Commands

(* Running the head command leaves what will be watched as it was.         *)
LEMMA WatchingRest ==
  ASSUME NEW cmds \in Seq(Commands), cmds # <<>>, NEW W, NEW X, NEW s \in Sessions,
         LET c == Head(cmds)
         IN  X = IF c.type = "watch" THEN W \union {c.session} ELSE W \ {c.session}
  PROVE  Watching(Tail(cmds), X, s) <=> Watching(cmds, W, s)
  <1> DEFINE c == Head(cmds)
             On == {[type |-> "watch", session |-> s]}
             Off == {[type |-> "unwatch", session |-> s]}
  <1>1. On \cap Off = {}
    OBVIOUS
  <1>2. c \in Commands /\ Tail(cmds) \in Seq(Commands) /\ cmds = <<c>> \o Tail(cmds)
    BY HeadAndTail
  <1>3. c \in On \/ (s \in W /\ c \notin Off) <=> s \in X
    BY <1>2 DEF Commands
  <1>4. Leaves(<<c>>, On, Off, s \in W) <=> s \in X
    <2> HIDE DEF On, Off
    <2> QED
      BY <1>1, <1>3 DEF Leaves
  <1>5. Leaves(<<c>> \o Tail(cmds), On, Off, s \in W)
          <=> Leaves(Tail(cmds), On, Off, Leaves(<<c>>, On, Off, s \in W))
    BY <1>2, LeavesConcat, <<c>> \in Seq(Commands)
  <1>6. Leaves(Tail(cmds), On, Off, Leaves(<<c>>, On, Off, s \in W))
          <=> Leaves(Tail(cmds), On, Off, s \in X)
    BY <1>4 DEF Leaves
  <1> QED
    BY <1>2, <1>5, <1>6 DEF Watching

-----------------------------------------------------------------------------
(* The keys on their way over the peer.                                    *)

IsInput(f, s) == f.kind = "input" /\ f.session = s
UpKeys(up, s) == {up[i].key : i \in {j \in DOMAIN up : IsInput(up[j], s)}}
UpAscends(up, E, s) ==
    \A i, j \in DOMAIN up : i < j /\ IsInput(up[i], s) /\ IsInput(up[j], s)
        => up[i].key < up[j].key \/ up[j].key \in E
UpOnce(up, s) ==
    \A i, j \in DOMAIN up : IsInput(up[i], s) /\ IsInput(up[j], s) /\ up[i].key = up[j].key
        => i = j

(* The keys on their way in two runs of frames are those of each.          *)
LEMMA UpKeysConcat ==
  ASSUME NEW p \in Seq(Frames), NEW q \in Seq(Frames), NEW s \in Sessions
  PROVE  UpKeys(p \o q, s) = UpKeys(p, s) \union UpKeys(q, s)
  <1> DEFINE r == p \o q
  <1> USE FramesConcat
  <1>1. \A i \in DOMAIN r : \/ i \in DOMAIN p /\ r[i] = p[i]
                            \/ i - Len(p) \in DOMAIN q /\ r[i] = q[i - Len(p)]
    OBVIOUS
  <1>2. \A i \in DOMAIN p : i \in DOMAIN r /\ r[i] = p[i]
    OBVIOUS
  <1>3. \A i \in DOMAIN q : i + Len(p) \in DOMAIN r /\ r[i + Len(p)] = q[i]
    OBVIOUS
  <1> HIDE DEF r
  <1>4. ASSUME NEW k \in UpKeys(r, s) PROVE k \in UpKeys(p, s) \union UpKeys(q, s)
    BY <1>1, <1>4 DEF UpKeys
  <1>5. ASSUME NEW k \in UpKeys(p, s) PROVE k \in UpKeys(r, s)
    BY <1>2, <1>5 DEF UpKeys
  <1>6. ASSUME NEW k \in UpKeys(q, s) PROVE k \in UpKeys(r, s)
    <2>1. PICK i \in DOMAIN q : IsInput(q[i], s) /\ k = q[i].key
      BY <1>6 DEF UpKeys
    <2> QED
      BY <1>3, <2>1 DEF UpKeys
  <1> QED
    BY <1>4, <1>5, <1>6 DEF r

(* Two runs of frames in order stay in order when the second holds only    *)
(* later keys, or exposed ones.                                            *)
LEMMA UpAscendsConcat ==
  ASSUME NEW p \in Seq(Frames), NEW q \in Seq(Frames), NEW s \in Sessions, NEW E,
         UpAscends(p, E, s), UpAscends(q, E, s),
         \A x \in UpKeys(p, s), y \in UpKeys(q, s) : x < y \/ y \in E
  PROVE  UpAscends(p \o q, E, s)
  <1> DEFINE r == p \o q
  <1> USE FramesConcat
  <1> HIDE DEF r
  <1> SUFFICES ASSUME NEW i \in DOMAIN r, NEW j \in DOMAIN r, i < j,
                      IsInput(r[i], s), IsInput(r[j], s)
               PROVE  r[i].key < r[j].key \/ r[j].key \in E
    BY DEF UpAscends, r
  <1>0. i \in Nat /\ j \in Nat
    BY DEF r
  <1>1. CASE j <= Len(p)
    <2>1. i \in DOMAIN p /\ j \in DOMAIN p /\ r[i] = p[i] /\ r[j] = p[j]
      BY <1>0, <1>1 DEF r
    <2> QED
      BY <2>1 DEF UpAscends
  <1>2. CASE i > Len(p)
    <2>1. i - Len(p) \in DOMAIN q /\ j - Len(p) \in DOMAIN q /\ i - Len(p) < j - Len(p)
          /\ r[i] = q[i - Len(p)] /\ r[j] = q[j - Len(p)]
      BY <1>0, <1>2 DEF r
    <2> QED
      BY <2>1 DEF UpAscends
  <1>3. CASE i <= Len(p) /\ j > Len(p)
    <2>1. i \in DOMAIN p /\ j - Len(p) \in DOMAIN q /\ r[i] = p[i] /\ r[j] = q[j - Len(p)]
      BY <1>0, <1>3 DEF r
    <2> QED
      BY <2>1 DEF UpKeys
  <1> QED
    BY <1>0, <1>1, <1>2, <1>3

(* Two runs of frames that share no key hold every key once.               *)
LEMMA UpOnceConcat ==
  ASSUME NEW p \in Seq(Frames), NEW q \in Seq(Frames), NEW s \in Sessions,
         UpOnce(p, s), UpOnce(q, s), UpKeys(p, s) \cap UpKeys(q, s) = {}
  PROVE  UpOnce(p \o q, s)
  <1> DEFINE r == p \o q
  <1> USE FramesConcat
  <1> HIDE DEF r
  <1> SUFFICES ASSUME NEW i \in DOMAIN r, NEW j \in DOMAIN r,
                      IsInput(r[i], s), IsInput(r[j], s), r[i].key = r[j].key
               PROVE  i = j
    BY DEF UpOnce, r
  <1> DEFINE L(k) == k \in DOMAIN p /\ r[k] = p[k]
             R(k) == k > Len(p) /\ k - Len(p) \in DOMAIN q /\ r[k] = q[k - Len(p)]
  <1>1. (L(i) \/ R(i)) /\ (L(j) \/ R(j)) /\ i \in Nat /\ j \in Nat
    BY DEF r
  <1>2. CASE L(i) /\ L(j)
    BY <1>2 DEF UpOnce
  <1>3. CASE R(i) /\ R(j)
    <2>1. i - Len(p) = j - Len(p)
      BY <1>3 DEF UpOnce
    <2> QED
      BY <1>1, <2>1
  <1>4. CASE L(i) /\ R(j)
    <2>1. r[i].key \in UpKeys(p, s) /\ r[j].key \in UpKeys(q, s)
      BY <1>4 DEF UpKeys
    <2> QED
      BY <2>1
  <1>5. CASE R(i) /\ L(j)
    <2>1. r[i].key \in UpKeys(q, s) /\ r[j].key \in UpKeys(p, s)
      BY <1>5 DEF UpKeys
    <2> QED
      BY <2>1
  <1> QED
    BY <1>1, <1>2, <1>3, <1>4, <1>5

(* A frame that is no input carries no key.                                *)
LEMMA NoInput ==
  ASSUME NEW f \in Frames, f.kind # "input", NEW s \in Sessions, NEW E
  PROVE  <<f>> \in Seq(Frames) /\ UpKeys(<<f>>, s) = {} /\ UpAscends(<<f>>, E, s) /\ UpOnce(<<f>>, s)
  <1>1. <<f>> \in Seq(Frames) /\ \A i \in DOMAIN <<f>> : ~IsInput(<<f>>[i], s)
    BY DEF IsInput
  <1> QED
    BY <1>1 DEF UpKeys, UpAscends, UpOnce

(* Nothing on the way carries no key.                                      *)
LEMMA NoFrames ==
  ASSUME NEW s \in Sessions, NEW E
  PROVE  UpKeys(<<>>, s) = {} /\ UpAscends(<<>>, E, s) /\ UpOnce(<<>>, s)
  <1>1. DOMAIN <<>> = {}
    OBVIOUS
  <1> QED
    BY <1>1 DEF UpKeys, UpAscends, UpOnce

(* An input frame carries its key for its session and no other.            *)
LEMMA OneInput ==
  ASSUME NEW f \in Frames, f.kind = "input", NEW s \in Sessions, NEW E
  PROVE  /\ f.session \in Sessions /\ f.key \in Keys /\ <<f>> \in Seq(Frames)
         /\ UpKeys(<<f>>, s) = IF s = f.session THEN {f.key} ELSE {}
         /\ UpAscends(<<f>>, E, s) /\ UpOnce(<<f>>, s)
  <1>1. f.session \in Sessions /\ f.key \in Keys /\ <<f>> \in Seq(Frames)
    BY DEF Frames, Frame
  <1> QED
    BY <1>1 DEF UpKeys, UpAscends, UpOnce, IsInput

(* A queue sent as input frames keeps its keys and their order, and        *)
(* attaches or detaches nothing.                                           *)
LEMMA KeysAsFrames ==
  ASSUME NEW r \in Sessions, NEW keys \in Seq(Keys), NEW s \in Sessions, NEW E, NEW A
  PROVE  /\ KeyFrames(r, keys) \in Seq(Frames)
         /\ UpKeys(KeyFrames(r, keys), s) = IF s = r THEN ToSet(keys) ELSE {}
         /\ Ascends(keys) => UpAscends(KeyFrames(r, keys), E, s)
         /\ Once(keys) => UpOnce(KeyFrames(r, keys), s)
         /\ \A up \in Seq(Frames) : Reaches(up \o KeyFrames(r, keys), A, s) <=> Reaches(up, A, s)
  <1> DEFINE q == KeyFrames(r, keys)
  <1>1. /\ q \in Seq(Frames) /\ DOMAIN q = DOMAIN keys
        /\ \A i \in DOMAIN q : q[i] = Frame("input", r, keys[i]) /\ q[i] \in Frames
    <2>1. DOMAIN keys = 1 .. Len(keys) /\ Len(keys) \in Nat /\ \A i \in DOMAIN keys : keys[i] \in Keys
      OBVIOUS
    <2>2. \A i \in DOMAIN keys : Frame("input", r, keys[i]) \in Frames
      BY <2>1, FramesTyped
    <2> QED
      BY <2>1, <2>2 DEF KeyFrames
  <1>2. \A i \in DOMAIN q : q[i].kind = "input" /\ q[i].session = r /\ q[i].key = keys[i]
    BY <1>1 DEF Frame
  <1> HIDE DEF q
  <1>3. UpKeys(q, s) = IF s = r THEN ToSet(keys) ELSE {}
    BY <1>1, <1>2 DEF UpKeys, IsInput, ToSet
  <1>4. Ascends(keys) => UpAscends(q, E, s)
    BY <1>1, <1>2 DEF UpAscends, Ascends, IsInput
  <1>5. Once(keys) => UpOnce(q, s)
    BY <1>1, <1>2 DEF UpOnce, Once, IsInput
  <1>6. ASSUME NEW up \in Seq(Frames)
        PROVE  Reaches(up \o q, A, s) <=> Reaches(up, A, s)
    <2> DEFINE On == {Frame("attach", s, 0)}
               Off == {Frame("detach", s, 0), Frame("close", 0, 0)}
    <2>1. \A i \in DOMAIN q : q[i] \notin On /\ q[i] \notin Off
      BY <1>2 DEF Frame
    <2>2. Leaves(up \o q, On, Off, s \in A)
            <=> Leaves(q, On, Off, Leaves(up, On, Off, s \in A))
      BY <1>1, <1>6, LeavesConcat
    <2>3. Leaves(q, On, Off, Leaves(up, On, Off, s \in A)) <=> Leaves(up, On, Off, s \in A)
      BY <2>1 DEF Leaves
    <2> QED
      BY <2>2, <2>3 DEF Reaches
  <1> QED
    BY <1>1, <1>3, <1>4, <1>5, <1>6 DEF q

(* The keys on their way are the one at the head and those behind it, in   *)
(* order and once.                                                         *)
LEMMA UpRest ==
  ASSUME NEW up \in Seq(Frames), up # <<>>, NEW s \in Sessions, NEW E
  PROVE  /\ UpKeys(up, s) = UpKeys(<<Head(up)>>, s) \union UpKeys(Tail(up), s)
         /\ UpAscends(up, E, s) =>
              /\ UpAscends(Tail(up), E, s)
              /\ \A x \in UpKeys(<<Head(up)>>, s), y \in UpKeys(Tail(up), s) : x < y \/ y \in E
         /\ UpOnce(up, s) =>
              /\ UpOnce(Tail(up), s)
              /\ UpKeys(<<Head(up)>>, s) \cap UpKeys(Tail(up), s) = {}
  <1>1. /\ Head(up) \in Frames /\ Tail(up) \in Seq(Frames) /\ up = <<Head(up)>> \o Tail(up)
        /\ <<Head(up)>> \in Seq(Frames)
    BY HeadAndTail
  <1>2. /\ 1 \in DOMAIN up /\ up[1] = Head(up) /\ DOMAIN Tail(up) \subseteq Nat \ {0}
        /\ \A i \in DOMAIN Tail(up) : i + 1 \in DOMAIN up /\ up[i + 1] = Tail(up)[i]
    OBVIOUS
  <1>3. UpKeys(up, s) = UpKeys(<<Head(up)>>, s) \union UpKeys(Tail(up), s)
    <2> DEFINE h == <<Head(up)>> d == Tail(up)
    <2> HIDE DEF h, d
    <2>1. h \in Seq(Frames) /\ d \in Seq(Frames) /\ up = h \o d
      BY <1>1 DEF h, d
    <2>2. UpKeys(h \o d, s) = UpKeys(h, s) \union UpKeys(d, s)
      BY <2>1, UpKeysConcat
    <2> QED
      BY <2>1, <2>2 DEF h, d
  <1>4. UpAscends(up, E, s) => UpAscends(Tail(up), E, s)
    BY <1>2 DEF UpAscends
  <1>5. UpOnce(up, s) => UpOnce(Tail(up), s)
    <2> SUFFICES ASSUME UpOnce(up, s), NEW i \in DOMAIN Tail(up), NEW j \in DOMAIN Tail(up),
                        IsInput(Tail(up)[i], s), IsInput(Tail(up)[j], s),
                        Tail(up)[i].key = Tail(up)[j].key
                 PROVE  i = j
      BY DEF UpOnce
    <2>1. i + 1 = j + 1
      BY <1>2 DEF UpOnce
    <2> QED
      BY <1>2, <2>1
  <1>6. \A x \in UpKeys(<<Head(up)>>, s) : IsInput(up[1], s) /\ x = up[1].key
    BY <1>2 DEF UpKeys
  <1>7. \A y \in UpKeys(Tail(up), s) : \E j \in DOMAIN Tail(up) :
            IsInput(up[j + 1], s) /\ y = up[j + 1].key /\ j + 1 \in DOMAIN up /\ 1 < j + 1
    BY <1>2 DEF UpKeys
  <1>8. UpAscends(up, E, s) =>
          \A x \in UpKeys(<<Head(up)>>, s), y \in UpKeys(Tail(up), s) : x < y \/ y \in E
    BY <1>2, <1>6, <1>7, ZenonT(60) DEF UpAscends
  <1>9. UpOnce(up, s) => UpKeys(<<Head(up)>>, s) \cap UpKeys(Tail(up), s) = {}
    BY <1>2, <1>6, <1>7 DEF UpOnce
  <1> QED
    BY <1>3, <1>4, <1>5, <1>8, <1>9


(* With nothing on its way, what will be attached or watched is what is.   *)
LEMMA NothingOnTheWay ==
  ASSUME NEW A, NEW s
  PROVE  /\ Reaches(<<>>, A, s) <=> s \in A
         /\ Watching(<<>>, A, s) <=> s \in A
  BY DEF Reaches, Watching, Leaves

-----------------------------------------------------------------------------
(* What the methods of the transport do, field by field.                   *)

SamePaths(u, v) == /\ v.mode = u.mode /\ v.sub = u.sub /\ v.switching = u.switching
                   /\ v.switched = u.switched /\ v.stranded = u.stranded
SameLink(u, v) == /\ v.status = u.status /\ v.link = u.link /\ v.served = u.served
                  /\ v.up = u.up /\ v.down = u.down
SameLoop(u, v) == v.ladder = u.ladder /\ v.timer = u.timer /\ v.disposed = u.disposed
SameKeys(u, v) == /\ v.held = u.held /\ v.out = u.out /\ v.flying = u.flying
                  /\ v.cloud = u.cloud /\ v.lost = u.lost /\ v.exposed = u.exposed

(* The types of the queues of a transport.                                 *)
LEMMA SomeTypes ==
  ASSUME NEW u \in Transports, NEW s \in Sessions
  PROVE  /\ u.held[s] \in Seq(Keys) /\ u.out[s] \in Seq(Keys) /\ u.flying[s] \in Seq(Keys)
         /\ u.cloud[s] \in Seq(Keys) /\ u.up \in Seq(Frames) /\ u.cmds \in Seq(Commands)
         /\ <<>> \in Seq(Keys) /\ <<>> \in Seq(Frames)
  BY DEF Transports, KeyQueues, Commands

(* There is an empty sequence of any set.                                  *)
LEMMA EmptySeqOf ==
  ASSUME NEW S
  PROVE  \E q \in Seq(S) : q = <<>>
  <1> <<>> \in Seq(S)
    OBVIOUS
  <1> WITNESS <<>> \in Seq(S)
  <1> QED
    OBVIOUS

(* A transport is typed field by field.                                    *)
IsRecord(v) ==
    v = [mode |-> v.mode, sub |-> v.sub, held |-> v.held, out |-> v.out,
         flying |-> v.flying, cloud |-> v.cloud, switching |-> v.switching,
         switched |-> v.switched, status |-> v.status, link |-> v.link,
         served |-> v.served, ladder |-> v.ladder, timer |-> v.timer, up |-> v.up,
         down |-> v.down, cmds |-> v.cmds, disposed |-> v.disposed, lost |-> v.lost,
         exposed |-> v.exposed, stranded |-> v.stranded]

(* A record with the fields of a transport, each kept or typed, is a       *)
(* transport.                                                              *)
LEMMA TypedByField ==
  ASSUME NEW u \in Transports, NEW v, IsRecord(v),
         v.mode = u.mode \/ v.mode \in [Sessions -> {"none", "connecting", "cloud", "direct"}],
         v.sub = u.sub \/ v.sub \in [Sessions -> {"none", "subscribing", "subscribed"}],
         v.held = u.held \/ v.held \in KeyQueues, v.out = u.out \/ v.out \in KeyQueues,
         v.flying = u.flying \/ v.flying \in KeyQueues, v.cloud = u.cloud \/ v.cloud \in KeyQueues,
         v.switching = u.switching \/ v.switching \in SUBSET Sessions,
         v.switched = u.switched \/ v.switched \in BOOLEAN,
         v.status = u.status, v.link = u.link,
         v.served = u.served, v.ladder = u.ladder, v.timer = u.timer,
         v.up = u.up \/ v.up \in Seq(Frames), v.down = u.down,
         v.cmds = u.cmds \/ v.cmds \in Seq([type : {"watch", "unwatch"}, session : Sessions]),
         v.disposed = u.disposed,
         v.lost = u.lost \/ v.lost \in SUBSET Keys,
         v.exposed = u.exposed \/ v.exposed \in SUBSET Keys,
         v.stranded = u.stranded \/ v.stranded \in SUBSET Sessions
  PROVE  v \in Transports
  BY DEF IsRecord, Transports

(* A queue is left as it is, or goes out as one publication.               *)
Pumped(u, v, s) ==
    /\ v \in Transports
    /\ SamePaths(u, v) /\ SameLink(u, v) /\ SameLoop(u, v) /\ v.cmds = u.cmds
    /\ v.held = u.held /\ v.cloud = u.cloud /\ v.lost = u.lost /\ v.exposed = u.exposed
    /\ \/ v.out = u.out /\ v.flying = u.flying
       \/ /\ u.flying[s] = <<>> /\ u.sub[s] # "none"
          /\ v.out = [u.out EXCEPT ![s] = <<>>]
          /\ v.flying = [u.flying EXCEPT ![s] = u.out[s]]

(* pumpOutQueue keeps everything, or makes the whole queue the publication *)
(* under way.                                                              *)
LEMMA PumpIs ==
  ASSUME NEW u \in Transports, NEW s \in Sessions, NEW v, v = PumpOutQueue(u, s)
  PROVE  Pumped(u, v, s)
  BY SomeTypes
     DEF Pumped, PumpOutQueue, Transports, KeyQueues, SamePaths, SameLink, SameLoop

(* ensureUpgradeLoop touches the timer alone, and sets it when the page    *)
(* may upgrade and no climb is under way.                                  *)
LEMMA EnsureIs ==
  ASSUME NEW u \in Transports, NEW reset \in BOOLEAN, NEW v, v = EnsureUpgradeLoop(u, reset)
  PROVE  /\ v \in Transports
         /\ SamePaths(u, v) /\ SameLink(u, v) /\ SameKeys(u, v) /\ v.cmds = u.cmds
         /\ v.ladder = u.ladder /\ v.disposed = u.disposed
         /\ v.timer = u.timer \/ v.timer = "armed"
         /\ CanUpgrade(u) /\ u.ladder = "idle" => v.timer \in {"armed", "stale"}
  BY DEF EnsureUpgradeLoop, Transports, SamePaths, SameLink, SameKeys

(* A transport whose peer has been closed is a transport.                  *)
LEMMA ClosedTyped ==
  ASSUME NEW u \in Transports, NEW d \in Seq(Sessions), NEW up \in Seq(Frames),
         NEW exposed \in SUBSET Keys
  PROVE  [u EXCEPT !.link = "none", !.served = {}, !.down = d, !.up = up, !.exposed = exposed]
           \in Transports
  BY DEF Transports

(* Closing the peer keeps every path and queue; what the page has sent may *)
(* still arrive, before the close.                                         *)
LEMMA CloseLinkIs ==
  ASSUME NEW u \in Transports, NEW v, v = CloseLink(u)
  PROVE  /\ v \in Transports
         /\ SamePaths(u, v) /\ SameLoop(u, v) /\ v.status = u.status /\ v.cmds = u.cmds
         /\ v.link = "none" /\ v.served = {} /\ v.down = <<>>
         /\ v.up = IF u.link = "none" THEN u.up ELSE u.up \o <<Frame("close", 0, 0)>>
         /\ v.held = u.held /\ v.out = u.out /\ v.flying = u.flying
         /\ v.cloud = u.cloud /\ v.lost = u.lost
         /\ v.exposed = u.exposed \union KeysOf(u.up)
  <1>1. KeysOf(u.up) \subseteq Keys
    BY DEF KeysOf, Transports, Frames, Frame, ToSet
  <1>2. /\ Frame("close", 0, 0) \in Frames
        /\ Append(u.up, Frame("close", 0, 0)) = u.up \o <<Frame("close", 0, 0)>>
        /\ Append(u.up, Frame("close", 0, 0)) \in Seq(Frames)
    BY SomeTypes DEF Frames, Transports
  <1> DEFINE up == IF u.link = "none" THEN u.up ELSE u.up \o <<Frame("close", 0, 0)>>
  <1>3. up \in Seq(Frames)
    BY <1>2, SomeTypes
  <1>4. v = [u EXCEPT !.link = "none", !.served = {}, !.down = <<>>, !.up = up,
                      !.exposed = @ \union KeysOf(u.up)]
    BY <1>2 DEF CloseLink, Transports
  <1> HIDE DEF up
  <1>5. v \in Transports
    <2>1. PICK d \in Seq(Sessions) : d = <<>>
      BY EmptySeqOf
    <2>2. u.exposed \union KeysOf(u.up) \in SUBSET Keys
      BY <1>1 DEF Transports
    <2>3. PICK exposed \in SUBSET Keys : exposed = u.exposed \union KeysOf(u.up)
      BY <2>2
    <2>4. [u EXCEPT !.link = "none", !.served = {}, !.down = d, !.up = up,
                    !.exposed = exposed] \in Transports
      BY <2>1, <1>3, <2>3, ClosedTyped
    <2>5. v = [u EXCEPT !.link = "none", !.served = {}, !.down = d, !.up = up,
                        !.exposed = exposed]
      BY <1>4, <2>1, <2>3 DEF Transports
    <2> QED
      BY <2>4, <2>5
  <1>6. v.up = up
    BY <1>4 DEF Transports
  <1> QED
    BY <1>4, <1>5, <1>6 DEF Transports, SamePaths, SameLoop, up

(* The session has gone to the peer and what it held is on its way.        *)
WentDirect(u, v, s) ==
    /\ v \in Transports
    /\ v.mode = [u.mode EXCEPT ![s] = "direct"] /\ v.sub = u.sub
    /\ v.switching = u.switching /\ v.switched = u.switched /\ v.stranded = u.stranded
    /\ v.status = u.status /\ v.link = u.link /\ v.down = u.down
    /\ v.served = u.served \union {s}
    /\ v.up = (u.up \o <<Frame("attach", s, 0)>>) \o KeyFrames(s, u.held[s])
    /\ SameLoop(u, v) /\ v.cmds = u.cmds
    /\ v.held = [u.held EXCEPT ![s] = <<>>]
    /\ v.out = u.out /\ v.flying = u.flying /\ v.cloud = u.cloud
    /\ v.lost = u.lost /\ v.exposed = u.exposed

(* GoDirect takes the session to the attached peer and sends what it held. *)
LEMMA GoDirectIs ==
  ASSUME NEW u \in Transports, NEW s \in Sessions, u.link # "none", NEW v, v = GoDirect(u, s)
  PROVE  WentDirect(u, v, s)
  <1>1. KeyFrames(s, u.held[s]) \in Seq(Frames) /\ <<Frame("attach", s, 0)>> \in Seq(Frames)
    <2>1. <<Frame("attach", s, 0)>> \in Seq(Frames)
      BY FramesTyped
    <2>2. u.held[s] \in Seq(Keys)
      BY SomeTypes
    <2> QED
      BY <2>1, <2>2, KeysAsFrames
  <1>2. (u.up \o <<Frame("attach", s, 0)>>) \o KeyFrames(s, u.held[s]) \in Seq(Frames)
    BY <1>1, SomeTypes
  <1> DEFINE up == (u.up \o <<Frame("attach", s, 0)>>) \o KeyFrames(s, u.held[s])
             mode == [u.mode EXCEPT ![s] = "direct"]
             held == [u.held EXCEPT ![s] = <<>>]
  <1>3. v = [u EXCEPT !.mode = mode, !.served = @ \union {s}, !.held = held, !.up = up]
    BY ZenonT(60) DEF GoDirect, AttachOver, Send, FlushPending, DispatchInput, Transports, KeyQueues
  <1>4. /\ mode \in [Sessions -> {"none", "connecting", "cloud", "direct"}]
        /\ held \in KeyQueues
        /\ up \in Seq(Frames)
        /\ u.served \union {s} \in SUBSET Sessions
    BY <1>2, SomeTypes DEF Transports, KeyQueues
  <1> HIDE DEF up, mode, held
  <1>5. v \in Transports
    BY <1>3, <1>4, ZenonT(60) DEF Transports
  <1>6. v.up = up /\ v.mode = mode /\ v.held = held
    BY <1>3 DEF Transports
  <1> QED
    BY <1>3, <1>5, <1>6, SMTT(30) DEF WentDirect, Transports, SameLoop, up, mode, held

(* AttachOver asks the bridge for the session over the attached peer.      *)
LEMMA AttachOverIs ==
  ASSUME NEW u \in Transports, NEW s \in Sessions, u.link # "none", NEW v, v = AttachOver(u, s)
  PROVE  /\ v \in Transports
         /\ SamePaths(u, v) /\ SameLoop(u, v) /\ SameKeys(u, v) /\ v.cmds = u.cmds
         /\ v.status = u.status /\ v.link = u.link /\ v.down = u.down
         /\ v.served = u.served \union {s}
         /\ v.up = u.up \o <<Frame("attach", s, 0)>>
  <1>1. u.up \o <<Frame("attach", s, 0)>> \in Seq(Frames)
    BY FramesTyped, SomeTypes
  <1> QED
    BY <1>1, ZenonT(60) DEF AttachOver, Send, Transports, SamePaths, SameLoop, SameKeys

(* DetachFrom gives the session up at the peer, when there is one.         *)
LEMMA DetachFromIs ==
  ASSUME NEW u \in Transports, NEW s \in Sessions, NEW v, v = DetachFrom(u, s)
  PROVE  /\ v \in Transports
         /\ SamePaths(u, v) /\ SameLoop(u, v) /\ SameKeys(u, v) /\ v.cmds = u.cmds
         /\ v.status = u.status /\ v.link = u.link /\ v.down = u.down
         /\ v.served = u.served \ {s}
         /\ v.up = IF u.link = "none" THEN u.up ELSE u.up \o <<Frame("detach", s, 0)>>
  <1>1. u.up \o <<Frame("detach", s, 0)>> \in Seq(Frames)
    BY FramesTyped, SomeTypes
  <1> QED
    BY <1>1 DEF DetachFrom, Send, Transports, SamePaths, SameLoop, SameKeys

(* The session has gone to the cloud, or was there, with what it held      *)
(* queued.                                                                 *)
WentCloud(u, v, s) ==
    /\ v \in Transports
    /\ v.mode = [u.mode EXCEPT ![s] = "cloud"] /\ v.sub = [u.sub EXCEPT ![s] = "subscribing"]
    /\ v.switching = u.switching \ {s} /\ v.stranded = u.stranded \ {s}
    /\ v.switched = u.switched
    /\ SameLink(u, v) /\ SameLoop(u, v) /\ v.cmds = u.cmds
    /\ v.held = [u.held EXCEPT ![s] = <<>>]
    /\ v.cloud = u.cloud /\ v.lost = u.lost /\ v.exposed = u.exposed
    /\ \/ /\ v.out = [u.out EXCEPT ![s] = u.out[s] \o u.held[s]]
          /\ v.flying = u.flying
       \/ /\ u.flying[s] = <<>>
          /\ v.out = [u.out EXCEPT ![s] = <<>>]
          /\ v.flying = [u.flying EXCEPT ![s] = u.out[s] \o u.held[s]]

(* GoCentrifugo takes a session to the cloud when the account may use it.  *)
LEMMA GoCloudIs ==
  ASSUME NEW u \in Transports, NEW s \in Sessions, ~localOnly, u.mode[s] # "cloud",
         NEW v, v = GoCentrifugo(u, s)
  PROVE  WentCloud(u, v, s)
  <1>1. PICK empty \in Seq(Keys) : empty = <<>>
    BY EmptySeqOf
  <1>2. u.out[s] \o u.held[s] \in Seq(Keys)
    BY SomeTypes
  <1> DEFINE w == [u EXCEPT !.switching = @ \ {s}, !.mode[s] = "cloud", !.stranded = @ \ {s},
                            !.sub[s] = "subscribing", !.held[s] = empty,
                            !.out[s] = u.out[s] \o u.held[s]]
  <1>3. v = PumpOutQueue(w, s)
    BY <1>1 DEF GoCentrifugo, FlushPending, DispatchInput, Transports, KeyQueues
  <1>4. w \in Transports
    BY <1>1, <1>2, ZenonT(60) DEF Transports, KeyQueues
  <1>5. /\ w.mode = [u.mode EXCEPT ![s] = "cloud"] /\ w.sub = [u.sub EXCEPT ![s] = "subscribing"]
        /\ w.switching = u.switching \ {s} /\ w.stranded = u.stranded \ {s}
        /\ w.switched = u.switched
        /\ SameLink(u, w) /\ SameLoop(u, w) /\ w.cmds = u.cmds
        /\ w.held = [u.held EXCEPT ![s] = empty]
        /\ w.out = [u.out EXCEPT ![s] = u.out[s] \o u.held[s]]
        /\ w.flying = u.flying /\ w.cloud = u.cloud /\ w.lost = u.lost /\ w.exposed = u.exposed
    BY DEF Transports, SameLink, SameLoop
  <1> HIDE DEF w
  <1>6. /\ v \in Transports
        /\ SamePaths(w, v) /\ SameLink(w, v) /\ SameLoop(w, v) /\ v.cmds = w.cmds
        /\ v.held = w.held /\ v.cloud = w.cloud /\ v.lost = w.lost /\ v.exposed = w.exposed
        /\ \/ v.out = w.out /\ v.flying = w.flying
           \/ /\ w.flying[s] = <<>>
              /\ v.out = [w.out EXCEPT ![s] = <<>>]
              /\ v.flying = [w.flying EXCEPT ![s] = w.out[s]]
    <2>1. Pumped(w, v, s)
      BY <1>3, <1>4, PumpIs
    <2> QED
      BY <2>1 DEF Pumped
  <1>7. w.out[s] = u.out[s] \o u.held[s] /\ u.out \in KeyQueues
    BY <1>5 DEF Transports, KeyQueues
  <1>8. \/ /\ v.out = [u.out EXCEPT ![s] = u.out[s] \o u.held[s]]
           /\ v.flying = u.flying
        \/ /\ u.flying[s] = <<>>
           /\ v.out = [u.out EXCEPT ![s] = <<>>]
           /\ v.flying = [u.flying EXCEPT ![s] = u.out[s] \o u.held[s]]
    <2>1. CASE v.out = w.out /\ v.flying = w.flying
      BY <1>5, <2>1
    <2>2. CASE /\ w.flying[s] = <<>>
               /\ v.out = [w.out EXCEPT ![s] = <<>>]
               /\ v.flying = [w.flying EXCEPT ![s] = w.out[s]]
      <3>1. v.out = [u.out EXCEPT ![s] = <<>>]
        BY <1>5, <1>7, <2>2 DEF KeyQueues
      <3> QED
        BY <1>5, <1>7, <2>2, <3>1
    <2> QED
      BY <1>6, <2>1, <2>2
  <1> QED
    BY <1>1, <1>5, <1>6, <1>8 DEF WentCloud, SamePaths, SameLink, SameLoop

(* A local-only session waits for a peer; what it held is lost.            *)
WentWaiting(u, v, s) ==
    /\ v \in Transports
    /\ v.mode = [u.mode EXCEPT ![s] = "connecting"] /\ v.sub = u.sub
    /\ v.switching = u.switching /\ v.stranded = u.stranded \ {s}
    /\ v.switched = u.switched
    /\ SameLink(u, v) /\ SameLoop(u, v) /\ v.cmds = u.cmds
    /\ v.held = [u.held EXCEPT ![s] = <<>>] /\ v.out = u.out /\ v.flying = u.flying
    /\ v.cloud = u.cloud /\ v.lost = u.lost \union ToSet(u.held[s])
    /\ v.exposed = u.exposed

(* GoCentrifugo leaves a local-only session waiting, and drops what it     *)
(* held.                                                                   *)
LEMMA GoWaitIs ==
  ASSUME NEW u \in Transports, NEW s \in Sessions, localOnly, NEW v, v = GoCentrifugo(u, s)
  PROVE  WentWaiting(u, v, s)
  <1>1. PICK empty \in Seq(Keys) : empty = <<>>
    BY EmptySeqOf
  <1>2. u.lost \union ToSet(u.held[s]) \in SUBSET Keys
    BY SomeTypes, QueueOfKeys DEF Transports
  <1>3. v = [u EXCEPT !.mode[s] = "connecting", !.held[s] = empty, !.stranded = @ \ {s},
                      !.lost = u.lost \union ToSet(u.held[s])]
    BY <1>1 DEF GoCentrifugo, Transports
  <1>4. v \in Transports
    <2>1. IsRecord(v)
      BY <1>3 DEF IsRecord, Transports
    <2>2. /\ v.mode \in [Sessions -> {"none", "connecting", "cloud", "direct"}]
          /\ v.held \in KeyQueues
      BY <1>3 DEF Transports, KeyQueues
    <2>3. /\ v.sub = u.sub /\ v.out = u.out /\ v.flying = u.flying /\ v.cloud = u.cloud
          /\ v.switching = u.switching /\ v.switched = u.switched
          /\ SameLink(u, v) /\ SameLoop(u, v) /\ v.cmds = u.cmds
          /\ v.lost \in SUBSET Keys /\ v.exposed = u.exposed /\ v.stranded \in SUBSET Sessions
      BY <1>2, <1>3 DEF Transports, SameLink, SameLoop
    <2> QED
      BY <2>1, <2>2, <2>3, TypedByField DEF SameLink, SameLoop
  <1> QED
    BY <1>1, <1>3, <1>4, ZenonT(60) DEF WentWaiting, Transports, KeyQueues, SameLink, SameLoop

(* GoCentrifugo on a session that is on the cloud only ends its switch.    *)
LEMMA StaysOnCloud ==
  ASSUME NEW u \in Transports, NEW s \in Sessions, ~localOnly, u.mode[s] = "cloud",
         NEW v, v = GoCentrifugo(u, s)
  PROVE  /\ v \in Transports
         /\ v.mode = u.mode /\ v.sub = u.sub /\ v.stranded = u.stranded
         /\ v.switching = u.switching \ {s} /\ v.switched = u.switched
         /\ SameLink(u, v) /\ SameLoop(u, v) /\ SameKeys(u, v) /\ v.cmds = u.cmds
  BY DEF GoCentrifugo, Transports, SameLink, SameLoop, SameKeys

Reverts(u) == u.switching = {} /\ ~u.switched

(* maybeRevertUpgrade keeps the peer while a switch is open or has         *)
(* succeeded; else it closes it and strands the sessions that took it.     *)
LEMMA RevertIs ==
  ASSUME NEW u \in Transports, NEW v, v = MaybeRevertUpgrade(u)
  PROVE  /\ v \in Transports
         /\ ~Reverts(u) => v = u
         /\ v.mode = u.mode /\ v.sub = u.sub
         /\ v.switching = u.switching /\ v.switched = u.switched
         /\ v.cmds = u.cmds /\ v.ladder = u.ladder /\ v.disposed = u.disposed
         /\ v.held = u.held /\ v.out = u.out /\ v.flying = u.flying
         /\ v.cloud = u.cloud /\ v.lost = u.lost
         /\ Reverts(u) =>
              /\ v.stranded = {s \in Sessions : u.mode[s] = "direct"}
              /\ v.status = "failed" /\ v.link = "none" /\ v.served = {} /\ v.down = <<>>
              /\ v.up = IF u.link = "none" THEN u.up ELSE u.up \o <<Frame("close", 0, 0)>>
              /\ v.exposed = u.exposed \union KeysOf(u.up)
              /\ v.timer = u.timer \/ v.timer = "armed"
              /\ CanUpgrade(v) /\ v.ladder = "idle" => v.timer \in {"armed", "stale"}
  <1>1. CASE ~Reverts(u)
    BY <1>1 DEF MaybeRevertUpgrade, Reverts
  <1>2. CASE Reverts(u)
    <2> DEFINE c == CloseLink(u)
               w == [c EXCEPT !.status = "failed",
                              !.stranded = {s \in Sessions : u.mode[s] = "direct"}]
    <2>1. v = EnsureUpgradeLoop(w, FALSE)
      BY <1>2 DEF MaybeRevertUpgrade, Reverts
    <2>2. /\ c \in Transports
          /\ SamePaths(u, c) /\ SameLoop(u, c) /\ c.cmds = u.cmds
          /\ c.link = "none" /\ c.served = {} /\ c.down = <<>>
          /\ c.up = IF u.link = "none" THEN u.up ELSE u.up \o <<Frame("close", 0, 0)>>
          /\ c.held = u.held /\ c.out = u.out /\ c.flying = u.flying
          /\ c.cloud = u.cloud /\ c.lost = u.lost
          /\ c.exposed = u.exposed \union KeysOf(u.up)
      BY CloseLinkIs
    <2> HIDE DEF c
    <2>3. w \in Transports
      BY <2>2 DEF Transports
    <2>4. /\ w.mode = c.mode /\ w.sub = c.sub /\ w.switching = c.switching
          /\ w.switched = c.switched /\ w.stranded = {s \in Sessions : u.mode[s] = "direct"}
          /\ w.status = "failed" /\ w.link = c.link /\ w.served = c.served /\ w.up = c.up
          /\ w.down = c.down /\ SameLoop(c, w) /\ SameKeys(c, w) /\ w.cmds = c.cmds
      BY <2>2 DEF Transports, SameLoop, SameKeys
    <2> HIDE DEF w
    <2>5. /\ v \in Transports
          /\ SamePaths(w, v) /\ SameLink(w, v) /\ SameKeys(w, v) /\ v.cmds = w.cmds
          /\ v.ladder = w.ladder /\ v.disposed = w.disposed
          /\ v.timer = w.timer \/ v.timer = "armed"
          /\ CanUpgrade(w) /\ w.ladder = "idle" => v.timer \in {"armed", "stale"}
      BY <2>1, <2>3, EnsureIs
    <2>6. CanUpgrade(v) => CanUpgrade(w)
      BY <2>5 DEF CanUpgrade, HasCentrifugoSessions, SamePaths, SameLink
    <2> QED
      BY <1>2, <2>2, <2>4, <2>5, <2>6 DEF SamePaths, SameLink, SameLoop, SameKeys
  <1> QED
    BY <1>1, <1>2

Emptied(u, s) ==
    [u EXCEPT !.held[s] = <<>>, !.out[s] = <<>>, !.flying[s] = <<>>,
              !.exposed = @ \union ToSet(u.flying[s]), !.cloud[s] = @ \o u.flying[s],
              !.lost = @ \union ToSet(u.held[s] \o u.out[s]),
              !.stranded = @ \ {s}, !.mode[s] = "none", !.sub[s] = "none"]

(* What is left of an entry that has been emptied.                         *)
GotEmptied(u, v, s) ==
    /\ v \in Transports
    /\ v.mode = [u.mode EXCEPT ![s] = "none"] /\ v.sub = [u.sub EXCEPT ![s] = "none"]
    /\ v.switching = u.switching /\ v.switched = u.switched
    /\ v.stranded = u.stranded \ {s}
    /\ SameLink(u, v) /\ SameLoop(u, v) /\ v.cmds = u.cmds
    /\ v.held = [u.held EXCEPT ![s] = <<>>] /\ v.out = [u.out EXCEPT ![s] = <<>>]
    /\ v.flying = [u.flying EXCEPT ![s] = <<>>]
    /\ v.cloud = [u.cloud EXCEPT ![s] = u.cloud[s] \o u.flying[s]]
    /\ v.lost = u.lost \union ToSet(u.held[s]) \union ToSet(u.out[s])
    /\ v.exposed = u.exposed \union ToSet(u.flying[s])

(* Emptying an entry: its publication under way may still land, what it    *)
(* held or queued is lost.                                                 *)
LEMMA EmptiedIs ==
  ASSUME NEW u \in Transports, NEW s \in Sessions, NEW v, v = Emptied(u, s)
  PROVE  GotEmptied(u, v, s)
  <1>1. PICK empty \in Seq(Keys) : empty = <<>>
    BY EmptySeqOf
  <1> DEFINE lost == u.lost \union ToSet(u.held[s]) \union ToSet(u.out[s])
             exposed == u.exposed \union ToSet(u.flying[s])
             cloud == u.cloud[s] \o u.flying[s]
  <1>2. /\ u.held[s] \in Seq(Keys) /\ u.out[s] \in Seq(Keys)
        /\ u.flying[s] \in Seq(Keys) /\ u.cloud[s] \in Seq(Keys)
    BY SomeTypes
  <1>3. lost \in SUBSET Keys /\ exposed \in SUBSET Keys /\ cloud \in Seq(Keys)
    BY <1>2, QueueOfKeys DEF Transports
  <1>4. u.lost \union ToSet(u.held[s] \o u.out[s]) = lost
    BY <1>2, ConcatQueue
  <1>5. v = [u EXCEPT !.held[s] = empty, !.out[s] = empty, !.flying[s] = empty,
                      !.exposed = exposed, !.cloud[s] = cloud, !.lost = lost,
                      !.stranded = @ \ {s}, !.mode[s] = "none", !.sub[s] = "none"]
    BY <1>1, <1>4 DEF Emptied, Transports
  <1> HIDE DEF lost, exposed, cloud
  <1>6. v \in Transports
    <2>1. IsRecord(v)
      BY <1>5 DEF IsRecord, Transports
    <2>2. /\ v.mode \in [Sessions -> {"none", "connecting", "cloud", "direct"}]
          /\ v.sub \in [Sessions -> {"none", "subscribing", "subscribed"}]
          /\ v.held \in KeyQueues /\ v.out \in KeyQueues
          /\ v.flying \in KeyQueues /\ v.cloud \in KeyQueues
      BY <1>3, <1>5 DEF Transports, KeyQueues
    <2>3. /\ v.switching = u.switching /\ v.switched = u.switched
          /\ SameLink(u, v) /\ SameLoop(u, v) /\ v.cmds = u.cmds
          /\ v.lost = lost /\ v.exposed = exposed /\ v.stranded \in SUBSET Sessions
      BY <1>5 DEF Transports, SameLink, SameLoop
    <2> QED
      BY <1>3, <2>1, <2>2, <2>3, TypedByField DEF SameLink, SameLoop
  <1>7. v.lost = lost /\ v.exposed = exposed /\ v.cloud = [u.cloud EXCEPT ![s] = cloud]
    BY <1>5 DEF Transports
  <1>8. /\ v.mode = [u.mode EXCEPT ![s] = "none"] /\ v.sub = [u.sub EXCEPT ![s] = "none"]
        /\ v.switching = u.switching /\ v.switched = u.switched
        /\ v.stranded = u.stranded \ {s}
        /\ SameLink(u, v) /\ SameLoop(u, v) /\ v.cmds = u.cmds
        /\ v.held = [u.held EXCEPT ![s] = empty] /\ v.out = [u.out EXCEPT ![s] = empty]
        /\ v.flying = [u.flying EXCEPT ![s] = empty]
    BY <1>5 DEF Transports, SameLink, SameLoop
  <1> QED
    BY <1>1, <1>6, <1>7, <1>8 DEF GotEmptied, lost, exposed, cloud

(* A watch or unwatch command joins those on their way, unless the page is *)
(* going.                                                                  *)
LEMMA SendWatchIs ==
  ASSUME NEW u \in Transports, NEW s \in Sessions, NEW type \in {"watch", "unwatch"},
         NEW v, v = SendWatch(u, type, s)
  PROVE  /\ v \in Transports
         /\ SamePaths(u, v) /\ SameLink(u, v) /\ SameLoop(u, v) /\ SameKeys(u, v)
         /\ v.cmds = IF u.disposed THEN u.cmds
                     ELSE Append(u.cmds, [type |-> type, session |-> s])
  <1>1. Append(u.cmds, [type |-> type, session |-> s])
          \in Seq([type : {"watch", "unwatch"}, session : Sessions])
    BY DEF Transports
  <1>2. CASE u.disposed
    BY <1>2 DEF SendWatch, SamePaths, SameLink, SameLoop, SameKeys
  <1>3. CASE ~u.disposed
    BY <1>1, <1>3 DEF SendWatch, Transports, SamePaths, SameLink, SameLoop, SameKeys
  <1> QED
    BY <1>2, <1>3

(* The entry is emptied and, when a switch was under way, has left it.      *)
Departed(u, s) ==
    IF s \notin u.switching THEN Emptied(u, s)
    ELSE DetachFrom([Emptied(u, s) EXCEPT !.switching = @ \ {s}], s)

GotDeparted(u, v, s) ==
    /\ v \in Transports
    /\ v.mode = [u.mode EXCEPT ![s] = "none"] /\ v.sub = [u.sub EXCEPT ![s] = "none"]
    /\ v.switching = u.switching \ {s} /\ v.switched = u.switched
    /\ v.stranded = u.stranded \ {s}
    /\ v.status = u.status /\ v.link = u.link /\ v.down = u.down
    /\ v.served = IF s \in u.switching THEN u.served \ {s} ELSE u.served
    /\ v.up = IF s \in u.switching /\ u.link # "none"
              THEN u.up \o <<Frame("detach", s, 0)>> ELSE u.up
    /\ SameLoop(u, v) /\ v.cmds = u.cmds
    /\ v.held = [u.held EXCEPT ![s] = <<>>] /\ v.out = [u.out EXCEPT ![s] = <<>>]
    /\ v.flying = [u.flying EXCEPT ![s] = <<>>]
    /\ v.cloud = [u.cloud EXCEPT ![s] = u.cloud[s] \o u.flying[s]]
    /\ v.lost = u.lost \union ToSet(u.held[s]) \union ToSet(u.out[s])
    /\ v.exposed = u.exposed \union ToSet(u.flying[s])

(* What the first half of a teardown does, field by field.                 *)
LEMMA DepartedIs ==
  ASSUME NEW u \in Transports, NEW s \in Sessions, NEW v, v = Departed(u, s)
  PROVE  GotDeparted(u, v, s)
  <1> DEFINE e == Emptied(u, s)
             w == [e EXCEPT !.switching = @ \ {s}]
  <1>1. GotEmptied(u, e, s)
    BY EmptiedIs
  <1>2. /\ s \notin u.switching => v = e
        /\ s \in u.switching => v = DetachFrom(w, s)
    BY DEF Departed
  <1> HIDE DEF e
  <1>3. e \in Transports
    BY <1>1 DEF GotEmptied
  <1>4. CASE s \notin u.switching
    BY <1>1, <1>2, <1>4 DEF GotEmptied, GotDeparted, SameLink
  <1>5. CASE s \in u.switching
    <2>1. w \in Transports
      BY <1>3 DEF Transports
    <2>2. /\ w.mode = e.mode /\ w.sub = e.sub /\ w.switching = e.switching \ {s}
          /\ w.switched = e.switched /\ w.stranded = e.stranded
          /\ SameLink(e, w) /\ SameLoop(e, w) /\ SameKeys(e, w) /\ w.cmds = e.cmds
      BY <1>3 DEF Transports, SameLink, SameLoop, SameKeys
    <2> HIDE DEF w
    <2>3. /\ v \in Transports
          /\ SamePaths(w, v) /\ SameLoop(w, v) /\ SameKeys(w, v) /\ v.cmds = w.cmds
          /\ v.status = w.status /\ v.link = w.link /\ v.down = w.down
          /\ v.served = w.served \ {s}
          /\ v.up = IF w.link = "none" THEN w.up ELSE w.up \o <<Frame("detach", s, 0)>>
      BY <1>2, <1>5, <2>1, DetachFromIs
    <2> QED
      BY <1>1, <1>5, <2>2, <2>3
         DEF GotEmptied, GotDeparted, SamePaths, SameLink, SameLoop, SameKeys
  <1> QED
    BY <1>4, <1>5

(* The end of a teardown: the bridge is told on the path the entry had.     *)
Told(u, v, mode, s) ==
    /\ v \in Transports
    /\ SamePaths(u, v) /\ SameLoop(u, v) /\ SameKeys(u, v)
    /\ v.status = u.status /\ v.link = u.link /\ v.down = u.down
    /\ v.served = IF mode = "direct" THEN u.served \ {s} ELSE u.served
    /\ v.up = IF mode = "direct" /\ u.link # "none"
              THEN u.up \o <<Frame("detach", s, 0)>> ELSE u.up
    /\ v.cmds = IF mode = "cloud" /\ ~u.disposed
                THEN Append(u.cmds, [type |-> "unwatch", session |-> s]) ELSE u.cmds

(* A teardown empties the entry, gives up a peer this leaves without a     *)
(* use, and tells the bridge on the path the entry had.                    *)
LEMMA TeardownIs ==
  ASSUME NEW u \in Transports, NEW s \in Sessions, NEW v, v = TeardownSession(u, s)
  PROVE  /\ s \notin u.switching \/ u.disposed => Told(Departed(u, s), v, u.mode[s], s)
         /\ s \in u.switching /\ ~u.disposed =>
              Told(MaybeRevertUpgrade(Departed(u, s)), v, u.mode[s], s)
  <1>1. PICK d : d = Departed(u, s)
    OBVIOUS
  <1>2. PICK x : x = IF s \notin u.switching \/ u.disposed THEN d ELSE MaybeRevertUpgrade(d)
    OBVIOUS
  <1>3. /\ u.mode[s] = "direct" => v = DetachFrom(x, s)
        /\ u.mode[s] = "cloud" => v = SendWatch(x, "unwatch", s)
        /\ u.mode[s] \notin {"direct", "cloud"} => v = x
    BY <1>1, <1>2 DEF TeardownSession, Departed, Emptied, Transports
  <1>4. x \in Transports
    <2>1. d \in Transports
      BY <1>1, DepartedIs DEF GotDeparted
    <2>2. MaybeRevertUpgrade(d) \in Transports
      BY <2>1, RevertIs
    <2> QED
      BY <1>2, <2>1, <2>2
  <1>5. Told(x, v, u.mode[s], s)
    <2>1. CASE u.mode[s] = "direct"
      <3>1. v = DetachFrom(x, s)
        BY <1>3, <2>1
      <3>2. /\ v \in Transports
            /\ SamePaths(x, v) /\ SameLoop(x, v) /\ SameKeys(x, v) /\ v.cmds = x.cmds
            /\ v.status = x.status /\ v.link = x.link /\ v.down = x.down
            /\ v.served = x.served \ {s}
            /\ v.up = IF x.link = "none" THEN x.up ELSE x.up \o <<Frame("detach", s, 0)>>
        BY <1>4, <3>1, DetachFromIs
      <3> QED
        BY <2>1, <3>2 DEF Told
    <2>2. CASE u.mode[s] = "cloud"
      <3>1. v = SendWatch(x, "unwatch", s)
        BY <1>3, <2>2
      <3>2. /\ v \in Transports
            /\ SamePaths(x, v) /\ SameLink(x, v) /\ SameLoop(x, v) /\ SameKeys(x, v)
            /\ v.cmds = IF x.disposed THEN x.cmds
                        ELSE Append(x.cmds, [type |-> "unwatch", session |-> s])
        BY <1>4, <3>1, SendWatchIs
      <3> QED
        BY <2>2, <3>2 DEF Told, SameLink
    <2>3. CASE u.mode[s] \notin {"direct", "cloud"}
      BY <1>3, <1>4, <2>3 DEF Told, SamePaths, SameLoop, SameKeys
    <2> QED
      BY <2>1, <2>2, <2>3
  <1> QED
    BY <1>1, <1>2, <1>5

(* A switch has succeeded: what was queued follows over the peer.          *)
Switched(u, v, s) ==
    /\ v \in Transports
    /\ v.mode = [u.mode EXCEPT ![s] = "direct"] /\ v.sub = [u.sub EXCEPT ![s] = "none"]
    /\ v.switching = u.switching \ {s} /\ v.switched = TRUE /\ v.stranded = u.stranded
    /\ v.status = u.status /\ v.link = u.link /\ v.served = u.served /\ v.down = u.down
    /\ v.up = u.up \o KeyFrames(s, u.out[s])
    /\ SameLoop(u, v) /\ v.cmds = Append(u.cmds, [type |-> "unwatch", session |-> s])
    /\ v.held = u.held /\ v.out = [u.out EXCEPT ![s] = <<>>]
    /\ v.flying = u.flying /\ v.cloud = u.cloud /\ v.lost = u.lost
    /\ v.exposed = u.exposed \union ToSet(u.flying[s]) \union ToSet(u.cloud[s])

(* performSwitch moves a session from the cloud to the peer, with what was *)
(* queued.                                                                 *)
LEMMA PerformSwitchIs ==
  ASSUME NEW u \in Transports, NEW s \in Sessions, u.link # "none", ~u.disposed,
         NEW v, v = PerformSwitch(u, s)
  PROVE  Switched(u, v, s)
  <1>1. PICK empty \in Seq(Keys) : empty = <<>>
    BY EmptySeqOf
  <1>2. u.out[s] \in Seq(Keys) /\ u.flying[s] \in Seq(Keys) /\ u.cloud[s] \in Seq(Keys)
    BY SomeTypes
  <1> DEFINE exposed == u.exposed \union ToSet(u.flying[s]) \union ToSet(u.cloud[s])
             up == u.up \o KeyFrames(s, u.out[s])
             cmds == Append(u.cmds, [type |-> "unwatch", session |-> s])
  <1>3. /\ exposed \in SUBSET Keys /\ up \in Seq(Frames)
        /\ cmds \in Seq([type : {"watch", "unwatch"}, session : Sessions])
    <2>1. KeyFrames(s, u.out[s]) \in Seq(Frames)
      BY <1>2, KeysAsFrames
    <2> QED
      BY <1>2, <2>1, QueueOfKeys DEF Transports
  <1>4. u.exposed \union ToSet(u.flying[s] \o u.cloud[s]) = exposed
    BY <1>2, ConcatQueue
  <1>5. v = [u EXCEPT !.mode[s] = "direct", !.switching = @ \ {s}, !.switched = TRUE,
                      !.exposed = exposed, !.cmds = cmds, !.sub[s] = "none",
                      !.out[s] = empty, !.up = up]
    BY <1>1, <1>4, ZenonT(60) DEF PerformSwitch, DetachCentrifugo, SendWatch, DispatchInput, Send, Transports
  <1> HIDE DEF exposed, up, cmds
  <1>6. v \in Transports
    <2>1. IsRecord(v)
      BY <1>5 DEF IsRecord, Transports
    <2>2. /\ v.mode \in [Sessions -> {"none", "connecting", "cloud", "direct"}]
          /\ v.sub \in [Sessions -> {"none", "subscribing", "subscribed"}]
          /\ v.out \in KeyQueues
      BY <1>5 DEF Transports, KeyQueues
    <2>3. /\ v.held = u.held /\ v.flying = u.flying /\ v.cloud = u.cloud
          /\ v.switching \in SUBSET Sessions /\ v.switched \in BOOLEAN
          /\ v.status = u.status /\ v.link = u.link /\ v.served = u.served /\ v.down = u.down
          /\ SameLoop(u, v) /\ v.up = up /\ v.cmds = cmds
          /\ v.lost = u.lost /\ v.exposed = exposed /\ v.stranded = u.stranded
      BY <1>5 DEF Transports, SameLoop
    <2> QED
      BY <1>3, <2>1, <2>2, <2>3, TypedByField DEF SameLoop
  <1>7. v.exposed = exposed /\ v.up = up /\ v.cmds = cmds
    BY <1>5 DEF Transports
  <1>8. /\ v.mode = [u.mode EXCEPT ![s] = "direct"] /\ v.sub = [u.sub EXCEPT ![s] = "none"]
        /\ v.switching = u.switching \ {s} /\ v.switched = TRUE /\ v.stranded = u.stranded
        /\ v.status = u.status /\ v.link = u.link /\ v.served = u.served /\ v.down = u.down
        /\ SameLoop(u, v) /\ v.held = u.held /\ v.out = [u.out EXCEPT ![s] = empty]
        /\ v.flying = u.flying /\ v.cloud = u.cloud /\ v.lost = u.lost
    BY <1>5 DEF Transports, SameLoop
  <1> QED
    BY <1>1, <1>6, <1>7, <1>8 DEF Switched, exposed, up, cmds


-----------------------------------------------------------------------------
(* Where the keys are.                                                     *)

Kinds == {"held", "out", "flying", "cloud", "pty", "up"}

Lies(u, p, kind, s) ==
    IF kind = "held" THEN ToSet(u.held[s])
    ELSE IF kind = "out" THEN ToSet(u.out[s])
    ELSE IF kind = "flying" THEN ToSet(u.flying[s])
    ELSE IF kind = "cloud" THEN ToSet(u.cloud[s])
    ELSE IF kind = "pty" THEN ToSet(p[s])
    ELSE UpKeys(u.up, s)

(* Every key that was typed is in one kind of place of one session, or     *)
(* lost; nothing else is anywhere.                                         *)
HomeIs(u, p, n, home, owner) ==
    /\ home \in [1 .. n -> Kinds \union {"lost"}] /\ owner \in [1 .. n -> Sessions]
    /\ \A kind \in Kinds, s \in Sessions, k \in Keys :
          k \in Lies(u, p, kind, s) <=> k \in 1 .. n /\ home[k] = kind /\ owner[k] = s
    /\ \A k \in Keys : k \in u.lost <=> k \in 1 .. n /\ home[k] = "lost"

Housed(u, p, n) == \E home, owner : HomeIs(u, p, n, home, owner)

(* The same, told of the state before and after: the keys M of the session *)
(* s now lie in b, the keys N of it are lost.                              *)
MovedAt(u, p, v, q, s, b, M, N) ==
    /\ b \in Kinds /\ M \cap N = {} /\ v.lost = u.lost \union N
    /\ \A k \in M \union N : \E kind \in Kinds : k \in Lies(u, p, kind, s)
    /\ \A kind \in Kinds : Lies(v, q, kind, s) =
          IF kind = b THEN (Lies(u, p, kind, s) \ N) \union M
                      ELSE Lies(u, p, kind, s) \ (M \union N)
Moved(u, p, v, q, s, b, M, N) ==
    /\ MovedAt(u, p, v, q, s, b, M, N)
    /\ \A r \in Sessions \ {s}, kind \in Kinds : Lies(v, q, kind, r) = Lies(u, p, kind, r)

(* What lies anywhere are keys.                                            *)
LEMMA LiesInKeys ==
  ASSUME NEW u \in Transports, NEW p \in KeyQueues, NEW kind \in Kinds, NEW s \in Sessions
  PROVE  Lies(u, p, kind, s) \subseteq Keys
  <1>1. /\ ToSet(u.held[s]) \subseteq Keys /\ ToSet(u.out[s]) \subseteq Keys
        /\ ToSet(u.flying[s]) \subseteq Keys /\ ToSet(u.cloud[s]) \subseteq Keys
    BY SomeTypes, QueueOfKeys
  <1>2. ToSet(p[s]) \subseteq Keys
    <2>1. p[s] \in Seq(Keys)
      BY DEF KeyQueues
    <2> QED
      BY <2>1, QueueOfKeys
  <1>3. UpKeys(u.up, s) \subseteq Keys
    <2>1. u.up \in Seq(Frames)
      BY SomeTypes
    <2>2. ASSUME NEW f \in Frames, f.kind = "input" PROVE f.key \in Keys
      BY <2>2 DEF Frames, Frame
    <2>3. \A i \in DOMAIN u.up : u.up[i] \in Frames
      BY <2>1
    <2> QED
      BY <2>2, <2>3 DEF UpKeys, IsInput
  <1> QED
    BY <1>1, <1>2, <1>3 DEF Lies, Kinds

(* Keys of one session that move stay housed.                              *)
LEMMA Rehoused ==
  ASSUME NEW u \in Transports, NEW p \in KeyQueues, NEW v, NEW q, NEW n \in Nat,
         NEW s \in Sessions, NEW b, NEW M, NEW N,
         Housed(u, p, n), Moved(u, p, v, q, s, b, M, N)
  PROVE  Housed(v, q, n)
  <1>1. PICK home, owner : HomeIs(u, p, n, home, owner)
    BY DEF Housed
  <1> DEFINE next == [k \in 1 .. n |-> IF k \in M THEN b ELSE IF k \in N THEN "lost" ELSE home[k]]
  <1>2. \A k \in M \union N : k \in Keys /\ k \in 1 .. n /\ owner[k] = s /\ home[k] \in Kinds
    BY <1>1, LiesInKeys DEF Moved, MovedAt, HomeIs
  <1>3. "lost" \notin Kinds
    BY DEF Kinds
  <1>4. next \in [1 .. n -> Kinds \union {"lost"}]
    BY <1>1 DEF HomeIs, Moved, MovedAt
  <1>5. ASSUME NEW kind \in Kinds, NEW r \in Sessions, NEW k \in Keys
        PROVE  k \in Lies(v, q, kind, r) <=> k \in 1 .. n /\ next[k] = kind /\ owner[k] = r
    <2>1. k \in Lies(u, p, kind, r) <=> k \in 1 .. n /\ home[k] = kind /\ owner[k] = r
      BY <1>1 DEF HomeIs
    <2>2. CASE r # s
      <3>1. Lies(v, q, kind, r) = Lies(u, p, kind, r)
        BY <2>2 DEF Moved
      <3>2. k \in M \union N => owner[k] # r
        BY <1>2, <2>2
      <3> QED
        BY <2>1, <3>1, <3>2
    <2>3. CASE r = s
      <3>1. Lies(v, q, kind, s) = IF kind = b THEN (Lies(u, p, kind, s) \ N) \union M
                                              ELSE Lies(u, p, kind, s) \ (M \union N)
        BY DEF Moved, MovedAt
      <3>2. M \cap N = {}
        BY DEF Moved, MovedAt
      <3> QED
        BY <1>2, <1>3, <2>1, <2>3, <3>1, <3>2
    <2> QED
      BY <2>2, <2>3
  <1>6. ASSUME NEW k \in Keys
        PROVE  k \in v.lost <=> k \in 1 .. n /\ next[k] = "lost"
    <2>1. k \in u.lost <=> k \in 1 .. n /\ home[k] = "lost"
      BY <1>1 DEF HomeIs
    <2>2. v.lost = u.lost \union N /\ M \cap N = {} /\ b \in Kinds
      BY DEF Moved, MovedAt
    <2> QED
      BY <1>2, <1>3, <2>1, <2>2
  <1> HIDE DEF next
  <1>7. HomeIs(v, q, n, next, owner)
    BY <1>1, <1>4, <1>5, <1>6 DEF HomeIs
  <1> QED
    BY <1>7 DEF Housed

(* Keys that are given up, of whatever sessions, are housed as lost.       *)
LEMMA GivenUp ==
  ASSUME NEW u \in Transports, NEW p \in KeyQueues, NEW v, NEW n \in Nat,
         NEW N, Housed(u, p, n), v.lost = u.lost \union N,
         \A k \in N : \E kind \in Kinds, s \in Sessions : k \in Lies(u, p, kind, s),
         \A kind \in Kinds, s \in Sessions : Lies(v, p, kind, s) = Lies(u, p, kind, s) \ N
  PROVE  Housed(v, p, n)
  <1>1. PICK home, owner : HomeIs(u, p, n, home, owner)
    BY DEF Housed
  <1> DEFINE next == [k \in 1 .. n |-> IF k \in N THEN "lost" ELSE home[k]]
  <1>2. \A k \in N : k \in Keys /\ k \in 1 .. n /\ home[k] \in Kinds
    BY <1>1, LiesInKeys DEF HomeIs
  <1>3. "lost" \notin Kinds
    BY DEF Kinds
  <1>4. next \in [1 .. n -> Kinds \union {"lost"}]
    BY <1>1 DEF HomeIs
  <1>5. ASSUME NEW kind \in Kinds, NEW r \in Sessions, NEW k \in Keys
        PROVE  k \in Lies(v, p, kind, r) <=> k \in 1 .. n /\ next[k] = kind /\ owner[k] = r
    <2>1. k \in Lies(u, p, kind, r) <=> k \in 1 .. n /\ home[k] = kind /\ owner[k] = r
      BY <1>1 DEF HomeIs
    <2>2. Lies(v, p, kind, r) = Lies(u, p, kind, r) \ N
      OBVIOUS
    <2> QED
      BY <1>2, <1>3, <2>1, <2>2
  <1>6. ASSUME NEW k \in Keys
        PROVE  k \in v.lost <=> k \in 1 .. n /\ next[k] = "lost"
    <2>1. k \in u.lost <=> k \in 1 .. n /\ home[k] = "lost"
      BY <1>1 DEF HomeIs
    <2> QED
      BY <1>2, <1>3, <2>1
  <1> HIDE DEF next
  <1>7. HomeIs(v, p, n, next, owner)
    BY <1>1, <1>4, <1>5, <1>6 DEF HomeIs
  <1> QED
    BY <1>7 DEF Housed

(* The next key, typed at a session, gets a home there; the kind "lost"    *)
(* says that nothing takes it.                                             *)
NewHome(u, p, v, s, b, k) ==
    /\ b \in Kinds \union {"lost"}
    /\ v.lost = IF b = "lost" THEN u.lost \union {k} ELSE u.lost
    /\ \A kind \in Kinds, r \in Sessions : Lies(v, p, kind, r) =
          IF kind = b /\ r = s THEN Lies(u, p, kind, r) \union {k} ELSE Lies(u, p, kind, r)

(* With the next key housed, every key is.                                 *)
LEMMA NewHoused ==
  ASSUME NEW u \in Transports, NEW p \in KeyQueues, NEW v, NEW n \in Nat, n + 1 \in Keys,
         NEW s \in Sessions, NEW b, Housed(u, p, n), NewHome(u, p, v, s, b, n + 1)
  PROVE  Housed(v, p, n + 1)
  <1>1. PICK home, owner : HomeIs(u, p, n, home, owner)
    BY DEF Housed
  <1> DEFINE next == [k \in 1 .. n + 1 |-> IF k = n + 1 THEN b ELSE home[k]]
             hers == [k \in 1 .. n + 1 |-> IF k = n + 1 THEN s ELSE owner[k]]
  <1>2. "lost" \notin Kinds
    BY DEF Kinds
  <1>3. next \in [1 .. n + 1 -> Kinds \union {"lost"}] /\ hers \in [1 .. n + 1 -> Sessions]
    BY <1>1 DEF HomeIs, NewHome
  <1>4. \A k \in 1 .. n + 1 : k # n + 1 => k \in 1 .. n
    OBVIOUS
  <1>5. \A k \in 1 .. n : k \in 1 .. n + 1 /\ k # n + 1
    OBVIOUS
  <1>6. n + 1 \in 1 .. n + 1 /\ n + 1 \notin 1 .. n
    OBVIOUS
  <1>7. ASSUME NEW kind \in Kinds, NEW r \in Sessions, NEW k \in Keys
        PROVE  k \in Lies(v, p, kind, r) <=> k \in 1 .. n + 1 /\ next[k] = kind /\ hers[k] = r
    <2>1. k \in Lies(u, p, kind, r) <=> k \in 1 .. n /\ home[k] = kind /\ owner[k] = r
      BY <1>1 DEF HomeIs
    <2>2. Lies(v, p, kind, r) =
            IF kind = b /\ r = s THEN Lies(u, p, kind, r) \union {n + 1} ELSE Lies(u, p, kind, r)
      BY DEF NewHome
    <2>3. CASE k = n + 1
      BY <1>6, <2>1, <2>2, <2>3
    <2>4. CASE k # n + 1
      <3>1. k \in Lies(v, p, kind, r) <=> k \in Lies(u, p, kind, r)
        BY <2>2, <2>4
      <3> QED
        BY <1>4, <1>5, <2>1, <2>4, <3>1
    <2> QED
      BY <2>3, <2>4
  <1>8. ASSUME NEW k \in Keys
        PROVE  k \in v.lost <=> k \in 1 .. n + 1 /\ next[k] = "lost"
    <2>1. k \in u.lost <=> k \in 1 .. n /\ home[k] = "lost"
      BY <1>1 DEF HomeIs
    <2>2. v.lost = IF b = "lost" THEN u.lost \union {n + 1} ELSE u.lost
      BY DEF NewHome
    <2>3. CASE k = n + 1
      BY <1>2, <1>6, <2>1, <2>2, <2>3
    <2>4. CASE k # n + 1
      BY <1>4, <1>5, <2>1, <2>2, <2>4
    <2> QED
      BY <2>3, <2>4
  <1> HIDE DEF next, hers
  <1>9. HomeIs(v, p, n + 1, next, hers)
    BY <1>3, <1>7, <1>8 DEF HomeIs
  <1> QED
    BY <1>9 DEF Housed

(* No key is in two kinds of places, and none in a place and lost.         *)
LEMMA Apart ==
  ASSUME NEW u \in Transports, NEW p \in KeyQueues, NEW n \in Nat, Housed(u, p, n),
         NEW s \in Sessions
  PROVE  /\ \A a, b \in Kinds : a # b => Lies(u, p, a, s) \cap Lies(u, p, b, s) = {}
         /\ \A a \in Kinds : Lies(u, p, a, s) \subseteq 1 .. n /\ Lies(u, p, a, s) \cap u.lost = {}
  <1>1. PICK home, owner : HomeIs(u, p, n, home, owner)
    BY DEF Housed
  <1>2. \A a \in Kinds : \A k \in Lies(u, p, a, s) : k \in Keys /\ k \in 1 .. n /\ home[k] = a
    BY <1>1, LiesInKeys DEF HomeIs
  <1>3. \A k \in u.lost : k \in Keys /\ home[k] = "lost"
    BY <1>1 DEF HomeIs, Transports
  <1>4. "lost" \notin Kinds
    BY DEF Kinds
  <1> QED
    BY <1>2, <1>3, <1>4

-----------------------------------------------------------------------------
(* The order of the keys.                                                  *)

(* The keys of one session by where they are: held H, queued O, in flight  *)
(* F, left behind in the cloud C, on their way over the peer U, and at the *)
(* process D.  A key that is not exposed is later than all that are ahead  *)
(* of it on every way.                                                     *)
SetsFit(H, O, F, C, D, U, E, mode, link) ==
    /\ \A y \in O, x \in F : x < y
    /\ \A y \in H, x \in F \union O : x < y
    /\ \A y \in (H \union O \union F) \ E, x \in D \union C \union U : x < y
    /\ \A y \in U \ E, x \in D \union C \union F : x < y
    /\ C \subseteq E
    /\ mode # "cloud" => F \subseteq E /\ O = {}
    /\ mode # "connecting" => H = {}
    /\ mode = "cloud" \/ link = "none" => U \subseteq E

(* The order within each.                                                  *)
PtyAscends(d, E) == \A i, j \in DOMAIN d : i < j => d[i] < d[j] \/ d[j] \in E
QueuesFit(h, o, f, c, d, E) ==
    Ascends(h) /\ Ascends(o) /\ Ascends(f) /\ Once(c) /\ Once(d) /\ PtyAscends(d, E)
UpFits(up, E, s) == UpAscends(up, E, s) /\ UpOnce(up, s)

LaneFits(u, p, s) ==
    /\ SetsFit(ToSet(u.held[s]), ToSet(u.out[s]), ToSet(u.flying[s]), ToSet(u.cloud[s]),
               ToSet(p[s]), UpKeys(u.up, s), u.exposed, u.mode[s], u.link)
    /\ QueuesFit(u.held[s], u.out[s], u.flying[s], u.cloud[s], p[s], u.exposed)
    /\ UpFits(u.up, u.exposed, s)
LanesFit(u, p) == \A s \in Sessions : LaneFits(u, p, s)
KeyFits(u, p, n) == LanesFit(u, p) /\ Housed(u, p, n)

(* What is on its way for s is what it was.                                *)
UpSame(a, b, s) ==
    /\ UpKeys(b, s) = UpKeys(a, s)
    /\ UpOnce(a, s) => UpOnce(b, s)
    /\ \A E : UpAscends(a, E, s) => UpAscends(b, E, s)
(* No key of s moves; more may be exposed.                                 *)
Aside(u, p, v, q, s) ==
    /\ v.held[s] = u.held[s] /\ v.out[s] = u.out[s] /\ v.flying[s] = u.flying[s]
    /\ v.cloud[s] = u.cloud[s] /\ q[s] = p[s] /\ UpSame(u.up, v.up, s)
    /\ u.exposed \subseteq v.exposed
    /\ v.mode[s] = u.mode[s] \/ (u.mode[s] = "none" /\ v.mode[s] = "connecting")
    /\ v.link = "none" => u.link = "none" \/ UpKeys(u.up, s) \subseteq v.exposed

(* Exposing more keeps the order; so does a peer that opens, or closes with *)
(* its keys exposed.                                                       *)
LEMMA AsideFits ==
  ASSUME NEW u, NEW v, NEW p, NEW q, NEW s, LaneFits(u, p, s), Aside(u, p, v, q, s)
  PROVE  LaneFits(v, q, s)
  <1> DEFINE H == ToSet(u.held[s]) O == ToSet(u.out[s]) F == ToSet(u.flying[s])
             C == ToSet(u.cloud[s]) D == ToSet(p[s]) U == UpKeys(u.up, s)
  <1>1. SetsFit(H, O, F, C, D, U, v.exposed, v.mode[s], v.link)
    <2> HIDE DEF H, O, F, C, D, U
    <2>1. SetsFit(H, O, F, C, D, U, u.exposed, u.mode[s], u.link)
      BY DEF LaneFits, H, O, F, C, D, U
    <2>2. /\ u.exposed \subseteq v.exposed
          /\ v.mode[s] = u.mode[s] \/ (u.mode[s] = "none" /\ v.mode[s] = "connecting")
          /\ v.link = "none" => u.link = "none" \/ U \subseteq v.exposed
      BY DEF Aside, U
    <2> QED
      BY <2>1, <2>2 DEF SetsFit
  <1>2. QueuesFit(u.held[s], u.out[s], u.flying[s], u.cloud[s], p[s], v.exposed)
    <2>1. QueuesFit(u.held[s], u.out[s], u.flying[s], u.cloud[s], p[s], u.exposed)
      BY DEF LaneFits
    <2>2. u.exposed \subseteq v.exposed
      BY DEF Aside
    <2> QED
      BY <2>1, <2>2 DEF QueuesFit, PtyAscends
  <1>3. UpFits(v.up, v.exposed, s)
    <2>1. UpAscends(u.up, u.exposed, s) /\ UpOnce(u.up, s)
      BY DEF LaneFits, UpFits
    <2>2. u.exposed \subseteq v.exposed /\ UpSame(u.up, v.up, s)
      BY DEF Aside
    <2>3. UpAscends(u.up, v.exposed, s)
      BY <2>1, <2>2 DEF UpAscends
    <2> QED
      BY <2>1, <2>2, <2>3 DEF UpSame, UpFits
  <1>4. /\ v.held[s] = u.held[s] /\ v.out[s] = u.out[s] /\ v.flying[s] = u.flying[s]
        /\ v.cloud[s] = u.cloud[s] /\ q[s] = p[s] /\ UpKeys(v.up, s) = UpKeys(u.up, s)
    BY DEF Aside, UpSame
  <1> QED
    BY <1>1, <1>2, <1>3, <1>4 DEF LaneFits

(* Keys that stay aside are where they were.                               *)
LEMMA AsideLies ==
  ASSUME NEW u, NEW v, NEW p, NEW q, NEW s, Aside(u, p, v, q, s)
  PROVE  \A kind \in Kinds : Lies(v, q, kind, s) = Lies(u, p, kind, s)
  BY DEF Aside, UpSame, Lies

(* No key moves at all.                                                    *)
Still(u, p, v) == v.lost = u.lost /\ \A s \in Sessions : Aside(u, p, v, p, s)

(* Where no key moves, the keys stay in order.                             *)
LEMMA StillFits ==
  ASSUME NEW u, NEW v, NEW p, NEW n, KeyFits(u, p, n), Still(u, p, v)
  PROVE  KeyFits(v, p, n)
  <1>1. LanesFit(v, p)
    BY AsideFits DEF KeyFits, LanesFit, Still
  <1>2. \A kind \in Kinds, s \in Sessions : Lies(v, p, kind, s) = Lies(u, p, kind, s)
    BY AsideLies DEF Still
  <1>3. PICK home, owner : HomeIs(u, p, n, home, owner)
    BY DEF KeyFits, Housed
  <1>4. HomeIs(v, p, n, home, owner)
    BY <1>2, <1>3 DEF HomeIs, Still
  <1> QED
    BY <1>1, <1>4 DEF KeyFits, Housed

(* Keys of s alone move.                                                   *)
LEMMA OneLane ==
  ASSUME NEW u \in Transports, NEW p \in KeyQueues, NEW v, NEW q, NEW n \in Nat,
         NEW s \in Sessions, NEW b, NEW M, NEW N, KeyFits(u, p, n),
         \A r \in Sessions \ {s} : Aside(u, p, v, q, r),
         LaneFits(v, q, s), MovedAt(u, p, v, q, s, b, M, N)
  PROVE  KeyFits(v, q, n)
  <1>1. LanesFit(v, q)
    BY AsideFits DEF KeyFits, LanesFit
  <1>2. \A r \in Sessions \ {s} : \A kind \in Kinds : Lies(v, q, kind, r) = Lies(u, p, kind, r)
    BY AsideLies
  <1>3. Moved(u, p, v, q, s, b, M, N)
    BY <1>2 DEF Moved, MovedAt
  <1>4. Housed(v, q, n)
    BY <1>3, Rehoused DEF KeyFits
  <1> QED
    BY <1>1, <1>4 DEF KeyFits


(* Frames that carry no key of s change nothing for it.                    *)
LEMMA UpWith ==
  ASSUME NEW up \in Seq(Frames), NEW q \in Seq(Frames), NEW s \in Sessions,
         \A i \in DOMAIN q : ~IsInput(q[i], s)
  PROVE  UpSame(up, up \o q, s)
  <1>1. UpKeys(q, s) = {}
    BY DEF UpKeys
  <1>2. UpOnce(q, s) /\ \A E : UpAscends(q, E, s)
    BY DEF UpOnce, UpAscends
  <1>3. UpKeys(up \o q, s) = UpKeys(up, s)
    <2>1. UpKeys(up \o q, s) = UpKeys(up, s) \union UpKeys(q, s)
      BY UpKeysConcat
    <2> QED
      BY <1>1, <2>1
  <1>4. ASSUME UpOnce(up, s) PROVE UpOnce(up \o q, s)
    BY <1>1, <1>2, <1>4, UpOnceConcat
  <1>5. ASSUME NEW E, UpAscends(up, E, s) PROVE UpAscends(up \o q, E, s)
    <2>1. \A x \in UpKeys(up, s), y \in UpKeys(q, s) : x < y \/ y \in E
      BY <1>1
    <2>2. UpAscends(q, E, s)
      BY <1>2
    <2> QED
      BY <1>5, <2>1, <2>2, UpAscendsConcat
  <1> QED
    BY <1>3, <1>4, <1>5 DEF UpSame

(* An attach, detach or close changes the keys of no session.              *)
LEMMA UpPlain ==
  ASSUME NEW up \in Seq(Frames), NEW f \in Frames, f.kind # "input", NEW s \in Sessions
  PROVE  UpSame(up, up \o <<f>>, s)
  <1>1. <<f>> \in Seq(Frames) /\ \A i \in DOMAIN <<f>> : ~IsInput(<<f>>[i], s)
    BY DEF IsInput
  <1> QED
    BY <1>1, UpWith

(* The input of one session is none of another.                            *)
LEMMA UpOthers ==
  ASSUME NEW up \in Seq(Frames), NEW r \in Sessions, NEW keys \in Seq(Keys),
         NEW s \in Sessions \ {r}
  PROVE  UpSame(up, up \o KeyFrames(r, keys), s)
  <1>1. KeyFrames(r, keys) \in Seq(Frames)
    BY KeysAsFrames
  <1>2. \A i \in DOMAIN KeyFrames(r, keys) : ~IsInput(KeyFrames(r, keys)[i], s)
    BY DEF KeyFrames, IsInput, Frame
  <1> QED
    BY <1>1, <1>2, UpWith

(* What has not changed is what it was.                                    *)
LEMMA UpStays ==
  ASSUME NEW up, NEW s
  PROVE  UpSame(up, up, s)
  BY DEF UpSame

(* Two changes that leave the keys of s alone.                             *)
LEMMA UpSameTwice ==
  ASSUME NEW a, NEW b, NEW c, NEW s, UpSame(a, b, s), UpSame(b, c, s)
  PROVE  UpSame(a, c, s)
  BY DEF UpSame

(* Taking a frame that carries no key of s changes nothing for it.         *)
LEMMA UpTaken ==
  ASSUME NEW up \in Seq(Frames), up # <<>>, NEW s \in Sessions, ~IsInput(Head(up), s)
  PROVE  UpSame(up, Tail(up), s)
  <1>1. UpKeys(<<Head(up)>>, s) = {}
    BY DEF UpKeys
  <1>2. UpKeys(up, s) = UpKeys(<<Head(up)>>, s) \union UpKeys(Tail(up), s)
    BY UpRest
  <1>3. UpOnce(up, s) => UpOnce(Tail(up), s)
    BY UpRest
  <1>4. \A E : UpAscends(up, E, s) => UpAscends(Tail(up), E, s)
    BY UpRest
  <1> QED
    BY <1>1, <1>2, <1>3, <1>4 DEF UpSame

(* What is on its way for a session are keys on their way.                 *)
LEMMA UpKeysOf ==
  ASSUME NEW u \in Transports, NEW s \in Sessions
  PROVE  UpKeys(u.up, s) \subseteq KeysOf(u.up)
  <1>1. u.up \in Seq(Frames)
    BY SomeTypes
  <1> QED
    BY <1>1 DEF UpKeys, KeysOf, IsInput, ToSet

(* A peer that is closed takes its keys nowhere: they are exposed.         *)
LEMMA ClosedKeys ==
  ASSUME NEW u \in Transports, NEW v, NEW p, NEW n, KeyFits(u, p, n), v.mode = u.mode,
         v.held = u.held, v.out = u.out, v.flying = u.flying, v.cloud = u.cloud,
         v.lost = u.lost, v.exposed = u.exposed \union KeysOf(u.up),
         v.up = u.up \/ v.up = u.up \o <<Frame("close", 0, 0)>>
  PROVE  KeyFits(v, p, n)
  <1>1. ASSUME NEW s \in Sessions PROVE Aside(u, p, v, p, s)
    <2>1. UpSame(u.up, v.up, s)
      <3>1. u.up \in Seq(Frames) /\ Frame("close", 0, 0) \in Frames
            /\ Frame("close", 0, 0).kind # "input"
        BY SomeTypes, FramesTyped DEF Frame
      <3>2. UpSame(u.up, u.up \o <<Frame("close", 0, 0)>>, s)
        BY <3>1, UpPlain
      <3> QED
        BY <3>2, UpStays
    <2>2. UpKeys(u.up, s) \subseteq v.exposed
      BY UpKeysOf
    <2> QED
      BY <2>1, <2>2 DEF Aside
  <1> QED
    BY <1>1, StillFits DEF Still

(* The keys stay where they are when paths, queues and frames do, as long  *)
(* as the peer does not vanish.                                            *)
LEMMA QuietKeys ==
  ASSUME NEW u \in Transports, NEW v, NEW p, NEW n, KeyFits(u, p, n), SameKeys(u, v),
         v.link = "none" => u.link = "none",
         \A s \in Sessions : v.mode[s] = u.mode[s] \/ (u.mode[s] = "none" /\ v.mode[s] = "connecting"),
         \A s \in Sessions : UpSame(u.up, v.up, s)
  PROVE  KeyFits(v, p, n)
  <1>1. ASSUME NEW s \in Sessions PROVE Aside(u, p, v, p, s)
    BY DEF Aside, SameKeys
  <1> QED
    BY <1>1, StillFits DEF Still, SameKeys

(* A frame without a key joins those on their way.                         *)
LEMMA PlainKeys ==
  ASSUME NEW u \in Transports, NEW v, NEW p, NEW n, KeyFits(u, p, n), SameKeys(u, v),
         v.mode = u.mode, v.link = u.link, NEW f \in Frames, f.kind # "input",
         v.up = u.up \/ v.up = u.up \o <<f>>
  PROVE  KeyFits(v, p, n)
  <1>1. \A s \in Sessions : UpSame(u.up, v.up, s)
    BY UpPlain, UpStays, SomeTypes
  <1> QED
    BY <1>1, QuietKeys


-----------------------------------------------------------------------------
(* Each way a key moves keeps the order.                                   *)

Parted(H, O, F, C, D, U) ==
    /\ H \cap O = {} /\ H \cap F = {} /\ H \cap C = {} /\ H \cap D = {} /\ H \cap U = {}
    /\ O \cap F = {} /\ O \cap C = {} /\ O \cap D = {} /\ O \cap U = {}
    /\ F \cap C = {} /\ F \cap D = {} /\ F \cap U = {}
    /\ C \cap D = {} /\ C \cap U = {} /\ D \cap U = {}

(* The places of a session share no key.                                   *)
LEMMA PartedAt ==
  ASSUME NEW u \in Transports, NEW p \in KeyQueues, NEW n \in Nat, KeyFits(u, p, n),
         NEW s \in Sessions
  PROVE  Parted(ToSet(u.held[s]), ToSet(u.out[s]), ToSet(u.flying[s]), ToSet(u.cloud[s]),
                ToSet(p[s]), UpKeys(u.up, s))
  <1>1. \A a, b \in Kinds : a # b => Lies(u, p, a, s) \cap Lies(u, p, b, s) = {}
    BY Apart DEF KeyFits
  <1>2. /\ Lies(u, p, "held", s) = ToSet(u.held[s]) /\ Lies(u, p, "out", s) = ToSet(u.out[s])
        /\ Lies(u, p, "flying", s) = ToSet(u.flying[s])
        /\ Lies(u, p, "cloud", s) = ToSet(u.cloud[s])
        /\ Lies(u, p, "pty", s) = ToSet(p[s]) /\ Lies(u, p, "up", s) = UpKeys(u.up, s)
    BY DEF Lies
  <1>3. Kinds = {"held", "out", "flying", "cloud", "pty", "up"}
    BY DEF Kinds
  <1> QED
    BY <1>1, <1>2, <1>3 DEF Parted

(* What of the session s the proofs speak of, in one line each.            *)
LaneIs(u, p, s, H, O, F, C, D, U) ==
    /\ H = ToSet(u.held[s]) /\ O = ToSet(u.out[s]) /\ F = ToSet(u.flying[s])
    /\ C = ToSet(u.cloud[s]) /\ D = ToSet(p[s]) /\ U = UpKeys(u.up, s)

(* Where the keys of one session are, and that they have moved, told of    *)
(* the sets.                                                               *)
LEMMA LaneMoves ==
  ASSUME NEW u, NEW v, NEW p, NEW q, NEW s, NEW b \in Kinds, NEW M, NEW N,
         NEW H, NEW O, NEW F, NEW C, NEW D, NEW U, LaneIs(u, p, s, H, O, F, C, D, U),
         NEW H2, NEW O2, NEW F2, NEW C2, NEW D2, NEW U2, LaneIs(v, q, s, H2, O2, F2, C2, D2, U2),
         M \cap N = {}, v.lost = u.lost \union N,
         M \union N \subseteq H \union O \union F \union C \union D \union U,
         H2 = IF b = "held"   THEN (H \ N) \union M ELSE H \ (M \union N),
         O2 = IF b = "out"    THEN (O \ N) \union M ELSE O \ (M \union N),
         F2 = IF b = "flying" THEN (F \ N) \union M ELSE F \ (M \union N),
         C2 = IF b = "cloud"  THEN (C \ N) \union M ELSE C \ (M \union N),
         D2 = IF b = "pty"    THEN (D \ N) \union M ELSE D \ (M \union N),
         U2 = IF b = "up"     THEN (U \ N) \union M ELSE U \ (M \union N)
  PROVE  MovedAt(u, p, v, q, s, b, M, N)
  <1>1. /\ Lies(u, p, "held", s) = H /\ Lies(u, p, "out", s) = O /\ Lies(u, p, "flying", s) = F
        /\ Lies(u, p, "cloud", s) = C /\ Lies(u, p, "pty", s) = D /\ Lies(u, p, "up", s) = U
    BY DEF Lies, LaneIs
  <1>2. /\ Lies(v, q, "held", s) = H2 /\ Lies(v, q, "out", s) = O2
        /\ Lies(v, q, "flying", s) = F2 /\ Lies(v, q, "cloud", s) = C2
        /\ Lies(v, q, "pty", s) = D2 /\ Lies(v, q, "up", s) = U2
    BY DEF Lies, LaneIs
  <1>3. \A k \in M \union N : \E kind \in Kinds : k \in Lies(u, p, kind, s)
    BY <1>1 DEF Kinds
  <1>4. \A kind \in Kinds : Lies(v, q, kind, s) =
          IF kind = b THEN (Lies(u, p, kind, s) \ N) \union M
                      ELSE Lies(u, p, kind, s) \ (M \union N)
    <2> SUFFICES ASSUME NEW kind \in Kinds
                 PROVE  Lies(v, q, kind, s) = IF kind = b THEN (Lies(u, p, kind, s) \ N) \union M
                                              ELSE Lies(u, p, kind, s) \ (M \union N)
      OBVIOUS
    <2>1. CASE kind = "held"   BY <1>1, <1>2, <2>1
    <2>2. CASE kind = "out"    BY <1>1, <1>2, <2>2
    <2>3. CASE kind = "flying" BY <1>1, <1>2, <2>3
    <2>4. CASE kind = "cloud"  BY <1>1, <1>2, <2>4
    <2>5. CASE kind = "pty"    BY <1>1, <1>2, <2>5
    <2>6. CASE kind = "up"     BY <1>1, <1>2, <2>6
    <2> QED
      BY <2>1, <2>2, <2>3, <2>4, <2>5, <2>6 DEF Kinds
  <1> QED
    BY <1>3, <1>4 DEF MovedAt

(* Keys that follow over the peer are on their way in order.               *)
LEMMA UpGrown ==
  ASSUME NEW up \in Seq(Frames), NEW s \in Sessions, NEW keys \in Seq(Keys), NEW E,
         UpFits(up, E, s), Ascends(keys), UpKeys(up, s) \cap ToSet(keys) = {},
         \A x \in UpKeys(up, s), y \in ToSet(keys) : x < y \/ y \in E
  PROVE  /\ UpFits(up \o KeyFrames(s, keys), E, s)
         /\ UpKeys(up \o KeyFrames(s, keys), s) = UpKeys(up, s) \union ToSet(keys)
  <1>1. PICK q \in Seq(Frames) : q = KeyFrames(s, keys)
    BY KeysAsFrames
  <1>2. /\ UpKeys(q, s) = ToSet(keys) /\ UpAscends(q, E, s) /\ UpOnce(q, s)
    BY <1>1, KeysAsFrames, AscendsOnce
  <1>3. UpKeys(up \o q, s) = UpKeys(up, s) \union UpKeys(q, s)
    BY UpKeysConcat
  <1>4. UpAscends(up \o q, E, s)
    BY <1>2, UpAscendsConcat DEF UpFits
  <1>5. UpOnce(up \o q, s)
    BY <1>2, UpOnceConcat DEF UpFits
  <1> QED
    BY <1>1, <1>2, <1>3, <1>4, <1>5 DEF UpFits


(* A waiting session that takes the peer sends what it held after all that *)
(* is on its way.                                                          *)
LEMMA DirectKeys ==
  ASSUME NEW u \in Transports, NEW p \in KeyQueues, NEW n \in Nat, KeyFits(u, p, n),
         NEW s \in Sessions, u.mode[s] = "connecting", u.link # "none",
         NEW v, WentDirect(u, v, s)
  PROVE  KeyFits(v, p, n)
  <1> DEFINE H == ToSet(u.held[s]) O == ToSet(u.out[s]) F == ToSet(u.flying[s])
             C == ToSet(u.cloud[s]) D == ToSet(p[s]) U == UpKeys(u.up, s)
  <1>1. /\ v.held = [u.held EXCEPT ![s] = <<>>] /\ v.out = u.out /\ v.flying = u.flying
        /\ v.cloud = u.cloud /\ v.lost = u.lost /\ v.exposed = u.exposed
        /\ v.mode = [u.mode EXCEPT ![s] = "direct"] /\ v.link = u.link
        /\ v.up = (u.up \o <<Frame("attach", s, 0)>>) \o KeyFrames(s, u.held[s])
    BY DEF WentDirect
  <1>2. /\ v.held[s] = <<>> /\ v.mode[s] = "direct" /\ v.link # "none"
        /\ \A r \in Sessions \ {s} : v.held[r] = u.held[r] /\ v.mode[r] = u.mode[r]
    BY <1>1 DEF Transports, KeyQueues
  <1>3. PICK a \in Seq(Frames) : a = u.up \o <<Frame("attach", s, 0)>>
    <2>1. u.up \o <<Frame("attach", s, 0)>> \in Seq(Frames)
      BY FramesTyped, SomeTypes
    <2> QED
      BY <2>1
  <1>4. \A r \in Sessions : UpSame(u.up, a, r)
    <2>1. u.up \in Seq(Frames) /\ Frame("attach", s, 0) \in Frames
          /\ Frame("attach", s, 0).kind # "input"
      BY SomeTypes, FramesTyped DEF Frame
    <2> QED
      BY <1>3, <2>1, UpPlain
  <1>5. u.held[s] \in Seq(Keys)
    BY SomeTypes
  <1>6. /\ SetsFit(H, O, F, C, D, U, u.exposed, "connecting", u.link)
        /\ QueuesFit(u.held[s], u.out[s], u.flying[s], u.cloud[s], p[s], u.exposed)
        /\ UpFits(u.up, u.exposed, s)
    BY DEF KeyFits, LanesFit, LaneFits
  <1>7. Parted(H, O, F, C, D, U)
    BY PartedAt
  <1>8. UpFits(v.up, u.exposed, s) /\ UpKeys(v.up, s) = U \union H
    <2>1. UpFits(a, u.exposed, s) /\ UpKeys(a, s) = U
      BY <1>4, <1>6 DEF UpSame, UpFits
    <2>2. U \cap H = {} /\ \A x \in U, y \in H : x < y \/ y \in u.exposed
      BY <1>6, <1>7 DEF SetsFit, Parted
    <2>3. Ascends(u.held[s])
      BY <1>6 DEF QueuesFit
    <2> HIDE DEF U
    <2>4. /\ UpFits(a \o KeyFrames(s, u.held[s]), u.exposed, s)
          /\ UpKeys(a \o KeyFrames(s, u.held[s]), s) = UpKeys(a, s) \union H
      BY <1>3, <1>5, <2>1, <2>2, <2>3, UpGrown, ZenonT(60)
    <2> QED
      BY <1>1, <1>3, <2>1, <2>4
  <1>9. ASSUME NEW r \in Sessions \ {s} PROVE Aside(u, p, v, p, r)
    <2>1. UpSame(a, a \o KeyFrames(s, u.held[s]), r)
      BY <1>5, UpOthers
    <2>2. UpSame(u.up, v.up, r)
      BY <1>1, <1>3, <1>4, <2>1, UpSameTwice
    <2> QED
      BY <1>1, <1>2, <2>2 DEF Aside
  <1>10. LaneIs(u, p, s, H, O, F, C, D, U) /\ LaneIs(v, p, s, {}, O, F, C, D, U \union H)
    BY <1>1, <1>2, <1>8, EmptyQueue DEF LaneIs
  <1> HIDE DEF H, O, F, C, D, U
  <1>11. SetsFit({}, O, F, C, D, U \union H, u.exposed, "direct", v.link)
    BY <1>2, <1>6 DEF SetsFit
  <1>12. QueuesFit(<<>>, u.out[s], u.flying[s], u.cloud[s], p[s], u.exposed)
    BY <1>6, EmptyQueue DEF QueuesFit
  <1>13. LaneFits(v, p, s)
    BY <1>1, <1>2, <1>8, <1>10, <1>11, <1>12 DEF LaneFits, LaneIs
  <1>14. MovedAt(u, p, v, p, s, "up", H, {})
    <2>1. /\ H \cap {} = {} /\ v.lost = u.lost \union {}
          /\ H \union {} \subseteq H \union O \union F \union C \union D \union U
          /\ {} = H \ (H \union {}) /\ O = O \ (H \union {}) /\ F = F \ (H \union {})
          /\ C = C \ (H \union {}) /\ D = D \ (H \union {}) /\ U \union H = (U \ {}) \union H
      BY <1>1, <1>7 DEF Parted
    <2>2. "up" \in Kinds
      BY DEF Kinds
    <2> QED
      BY <1>10, <2>1, <2>2, LaneMoves
  <1> QED
    BY <1>9, <1>13, <1>14, OneLane


(* A session that takes the cloud queues what it held; nothing it sent     *)
(* over the peer can still be overtaken unnoticed.                         *)
LEMMA CloudKeys ==
  ASSUME NEW u \in Transports, NEW p \in KeyQueues, NEW n \in Nat, KeyFits(u, p, n),
         NEW s \in Sessions, u.mode[s] # "cloud", u.link = "none",
         NEW v, WentCloud(u, v, s)
  PROVE  KeyFits(v, p, n)
  <1> DEFINE H == ToSet(u.held[s]) O == ToSet(u.out[s]) F == ToSet(u.flying[s])
             C == ToSet(u.cloud[s]) D == ToSet(p[s]) U == UpKeys(u.up, s)
  <1>1. /\ v.held = [u.held EXCEPT ![s] = <<>>] /\ v.cloud = u.cloud /\ v.lost = u.lost
        /\ v.exposed = u.exposed /\ v.mode = [u.mode EXCEPT ![s] = "cloud"]
        /\ v.link = u.link /\ v.up = u.up
    BY DEF WentCloud, SameLink
  <1>2. /\ v.held[s] = <<>> /\ v.mode[s] = "cloud"
        /\ \A r \in Sessions \ {s} : v.held[r] = u.held[r] /\ v.mode[r] = u.mode[r]
    BY <1>1 DEF Transports, KeyQueues
  <1>3. /\ u.held[s] \in Seq(Keys) /\ u.out[s] \in Seq(Keys)
        /\ u.flying[s] \in Seq(Keys)
    BY SomeTypes
  <1>4. /\ SetsFit(H, O, F, C, D, U, u.exposed, u.mode[s], u.link)
        /\ QueuesFit(u.held[s], u.out[s], u.flying[s], u.cloud[s], p[s], u.exposed)
        /\ UpFits(u.up, u.exposed, s)
    BY DEF KeyFits, LanesFit, LaneFits
  <1>5. Parted(H, O, F, C, D, U)
    BY PartedAt
  <1>6. O = {}
    BY <1>4 DEF SetsFit
  <1>7. u.out[s] \o u.held[s] = u.held[s] /\ Ascends(u.held[s])
    <2>1. u.out[s] = <<>>
      BY <1>3, <1>6, NonEmptyQueue
    <2> QED
      BY <1>3, <1>4, <2>1 DEF QueuesFit
  <1>8. \/ v.out = [u.out EXCEPT ![s] = u.held[s]] /\ v.flying = u.flying
        \/ /\ u.flying[s] = <<>> /\ v.out = [u.out EXCEPT ![s] = <<>>]
           /\ v.flying = [u.flying EXCEPT ![s] = u.held[s]]
    BY <1>7 DEF WentCloud
  <1>8a. \A r \in Sessions \ {s} : v.out[r] = u.out[r] /\ v.flying[r] = u.flying[r]
    <2>1. CASE v.out = [u.out EXCEPT ![s] = u.held[s]] /\ v.flying = u.flying
      BY <2>1 DEF Transports, KeyQueues
    <2>2. CASE /\ v.out = [u.out EXCEPT ![s] = <<>>]
               /\ v.flying = [u.flying EXCEPT ![s] = u.held[s]]
      BY <2>2 DEF Transports, KeyQueues
    <2> QED
      BY <1>8, <2>1, <2>2
  <1>8b. \/ v.out[s] = u.held[s] /\ v.flying[s] = u.flying[s]
         \/ u.flying[s] = <<>> /\ v.out[s] = <<>> /\ v.flying[s] = u.held[s]
    <2>1. CASE v.out = [u.out EXCEPT ![s] = u.held[s]] /\ v.flying = u.flying
      BY <2>1 DEF Transports, KeyQueues
    <2>2. CASE /\ u.flying[s] = <<>> /\ v.out = [u.out EXCEPT ![s] = <<>>]
               /\ v.flying = [u.flying EXCEPT ![s] = u.held[s]]
      BY <2>2 DEF Transports, KeyQueues
    <2> QED
      BY <1>8, <2>1, <2>2
  <1>9. ASSUME NEW r \in Sessions \ {s} PROVE Aside(u, p, v, p, r)
    BY <1>1, <1>2, <1>8a, UpStays DEF Aside
  <1>10. LaneIs(u, p, s, H, O, F, C, D, U)
    BY DEF LaneIs
  <1> HIDE DEF H, O, F, C, D, U
  <1>11. CASE v.out[s] = u.held[s] /\ v.flying[s] = u.flying[s]
    <2>1. LaneIs(v, p, s, {}, H, F, C, D, U)
      BY <1>1, <1>2, <1>7, <1>10, <1>11, EmptyQueue DEF LaneIs
    <2>2. SetsFit({}, H, F, C, D, U, u.exposed, "cloud", v.link)
      BY <1>1, <1>4, <1>6 DEF SetsFit
    <2>3. QueuesFit(<<>>, u.held[s], u.flying[s], u.cloud[s], p[s], u.exposed)
      BY <1>4, <1>7, EmptyQueue DEF QueuesFit
    <2>4. LaneFits(v, p, s)
      BY <1>1, <1>2, <1>4, <1>11, <2>1, <2>2, <2>3 DEF LaneFits, LaneIs
    <2>5. MovedAt(u, p, v, p, s, "out", H, {})
      <3>1. /\ H \cap {} = {} /\ v.lost = u.lost \union {}
            /\ H \union {} \subseteq H \union O \union F \union C \union D \union U
            /\ {} = H \ (H \union {}) /\ H = (O \ {}) \union H /\ F = F \ (H \union {})
            /\ C = C \ (H \union {}) /\ D = D \ (H \union {}) /\ U = U \ (H \union {})
        BY <1>1, <1>5, <1>6 DEF Parted
      <3>2. "out" \in Kinds
        BY DEF Kinds
      <3> QED
        BY <1>10, <2>1, <3>1, <3>2, LaneMoves
    <2> QED
      BY <1>9, <2>4, <2>5, OneLane
  <1>12. CASE u.flying[s] = <<>> /\ v.out[s] = <<>> /\ v.flying[s] = u.held[s]
    <2>1. LaneIs(v, p, s, {}, {}, H, C, D, U) /\ F = {}
      BY <1>1, <1>2, <1>7, <1>10, <1>12, EmptyQueue DEF LaneIs
    <2>2. SetsFit({}, {}, H, C, D, U, u.exposed, "cloud", v.link)
      BY <1>1, <1>4, <1>6 DEF SetsFit
    <2>3. QueuesFit(<<>>, <<>>, u.held[s], u.cloud[s], p[s], u.exposed)
      BY <1>4, <1>7, EmptyQueue DEF QueuesFit
    <2>4. LaneFits(v, p, s)
      BY <1>1, <1>2, <1>4, <1>12, <2>1, <2>2, <2>3 DEF LaneFits, LaneIs
    <2>5. MovedAt(u, p, v, p, s, "flying", H, {})
      <3>1. /\ H \cap {} = {} /\ v.lost = u.lost \union {}
            /\ H \union {} \subseteq H \union O \union F \union C \union D \union U
            /\ {} = H \ (H \union {}) /\ {} = O \ (H \union {}) /\ H = (F \ {}) \union H
            /\ C = C \ (H \union {}) /\ D = D \ (H \union {}) /\ U = U \ (H \union {})
        BY <1>1, <1>5, <1>6, <2>1 DEF Parted
      <3>2. "flying" \in Kinds
        BY DEF Kinds
      <3> QED
        BY <1>10, <2>1, <3>1, <3>2, LaneMoves
    <2> QED
      BY <1>9, <2>4, <2>5, OneLane
  <1> QED
    BY <1>8b, <1>11, <1>12


(* Of a session that waits again, only what it held is lost.               *)
LEMMA WaitKeys ==
  ASSUME NEW u \in Transports, NEW p \in KeyQueues, NEW n \in Nat, KeyFits(u, p, n),
         NEW s \in Sessions, u.mode[s] # "cloud", NEW v, WentWaiting(u, v, s)
  PROVE  KeyFits(v, p, n)
  <1> DEFINE H == ToSet(u.held[s]) O == ToSet(u.out[s]) F == ToSet(u.flying[s])
             C == ToSet(u.cloud[s]) D == ToSet(p[s]) U == UpKeys(u.up, s)
  <1>1. /\ v.held = [u.held EXCEPT ![s] = <<>>] /\ v.out = u.out /\ v.flying = u.flying
        /\ v.cloud = u.cloud /\ v.lost = u.lost \union H /\ v.exposed = u.exposed
        /\ v.mode = [u.mode EXCEPT ![s] = "connecting"] /\ v.link = u.link /\ v.up = u.up
    BY DEF WentWaiting, SameLink
  <1>2. /\ v.held[s] = <<>> /\ v.mode[s] = "connecting"
        /\ \A r \in Sessions \ {s} : v.held[r] = u.held[r] /\ v.mode[r] = u.mode[r]
    BY <1>1 DEF Transports, KeyQueues
  <1>3. /\ SetsFit(H, O, F, C, D, U, u.exposed, u.mode[s], u.link)
        /\ QueuesFit(u.held[s], u.out[s], u.flying[s], u.cloud[s], p[s], u.exposed)
        /\ UpFits(u.up, u.exposed, s)
    BY DEF KeyFits, LanesFit, LaneFits
  <1>4. Parted(H, O, F, C, D, U)
    BY PartedAt
  <1>5. ASSUME NEW r \in Sessions \ {s} PROVE Aside(u, p, v, p, r)
    BY <1>1, <1>2, UpStays DEF Aside
  <1>6. LaneIs(u, p, s, H, O, F, C, D, U) /\ LaneIs(v, p, s, {}, O, F, C, D, U)
    BY <1>1, <1>2, EmptyQueue DEF LaneIs
  <1> HIDE DEF H, O, F, C, D, U
  <1>7. SetsFit({}, O, F, C, D, U, u.exposed, "connecting", v.link)
    BY <1>1, <1>3 DEF SetsFit
  <1>8. QueuesFit(<<>>, u.out[s], u.flying[s], u.cloud[s], p[s], u.exposed)
    BY <1>3, EmptyQueue DEF QueuesFit
  <1>9. LaneFits(v, p, s)
    BY <1>1, <1>2, <1>3, <1>6, <1>7, <1>8 DEF LaneFits, LaneIs
  <1>10. MovedAt(u, p, v, p, s, "up", {}, H)
    <2>1. /\ {} \cap H = {} /\ v.lost = u.lost \union H
          /\ {} \union H \subseteq H \union O \union F \union C \union D \union U
          /\ {} = H \ ({} \union H) /\ O = O \ ({} \union H) /\ F = F \ ({} \union H)
          /\ C = C \ ({} \union H) /\ D = D \ ({} \union H) /\ U = (U \ H) \union {}
      BY <1>1, <1>4 DEF Parted
    <2>2. "up" \in Kinds
      BY DEF Kinds
    <2> QED
      BY <1>6, <2>1, <2>2, LaneMoves
  <1> QED
    BY <1>5, <1>9, <1>10, OneLane

(* Emptying an entry loses what it held and queued; its publication under  *)
(* way is exposed.                                                         *)
LEMMA EmptiedKeys ==
  ASSUME NEW u \in Transports, NEW p \in KeyQueues, NEW n \in Nat, KeyFits(u, p, n),
         NEW s \in Sessions, NEW v, v.mode = [u.mode EXCEPT ![s] = "none"], v.link = u.link,
         UpSame(u.up, v.up, s), \A r \in Sessions : UpSame(u.up, v.up, r),
         v.held = [u.held EXCEPT ![s] = <<>>], v.out = [u.out EXCEPT ![s] = <<>>],
         v.flying = [u.flying EXCEPT ![s] = <<>>],
         v.cloud = [u.cloud EXCEPT ![s] = u.cloud[s] \o u.flying[s]],
         v.lost = u.lost \union ToSet(u.held[s]) \union ToSet(u.out[s]),
         v.exposed = u.exposed \union ToSet(u.flying[s])
  PROVE  KeyFits(v, p, n)
  <1> DEFINE H == ToSet(u.held[s]) O == ToSet(u.out[s]) F == ToSet(u.flying[s])
             C == ToSet(u.cloud[s]) D == ToSet(p[s]) U == UpKeys(u.up, s)
  <1>1. /\ v.held[s] = <<>> /\ v.out[s] = <<>> /\ v.flying[s] = <<>> /\ v.mode[s] = "none"
        /\ v.cloud[s] = u.cloud[s] \o u.flying[s]
    BY DEF Transports, KeyQueues
  <1>2. \A r \in Sessions \ {s} : /\ v.held[r] = u.held[r] /\ v.mode[r] = u.mode[r]
                                  /\ v.out[r] = u.out[r] /\ v.flying[r] = u.flying[r]
                                  /\ v.cloud[r] = u.cloud[r]
    BY DEF Transports, KeyQueues
  <1>3. /\ SetsFit(H, O, F, C, D, U, u.exposed, u.mode[s], u.link)
        /\ QueuesFit(u.held[s], u.out[s], u.flying[s], u.cloud[s], p[s], u.exposed)
        /\ UpAscends(u.up, u.exposed, s) /\ UpOnce(u.up, s)
    BY DEF KeyFits, LanesFit, LaneFits, UpFits
  <1>4. Parted(H, O, F, C, D, U)
    BY PartedAt
  <1>5. ASSUME NEW r \in Sessions \ {s} PROVE Aside(u, p, v, p, r)
    BY <1>2 DEF Aside
  <1>6. ToSet(u.cloud[s] \o u.flying[s]) = C \union F /\ Once(u.cloud[s] \o u.flying[s])
    <2>1. u.cloud[s] \in Seq(Keys) /\ u.flying[s] \in Seq(Keys)
      BY SomeTypes
    <2>2. Once(u.cloud[s]) /\ Once(u.flying[s])
      BY <1>3, <2>1, AscendsOnce DEF QueuesFit
    <2>3. C \cap F = {}
      BY <1>4 DEF Parted
    <2> QED
      BY <2>1, <2>2, <2>3, ConcatQueue
  <1>7. LaneIs(u, p, s, H, O, F, C, D, U) /\ LaneIs(v, p, s, {}, {}, {}, C \union F, D, U)
    BY <1>1, <1>6, EmptyQueue DEF LaneIs, UpSame
  <1>8. UpFits(v.up, v.exposed, s)
    <2>1. u.exposed \subseteq v.exposed
      OBVIOUS
    <2>2. UpAscends(u.up, v.exposed, s)
      BY <1>3, <2>1 DEF UpAscends
    <2> QED
      BY <1>3, <2>2 DEF UpSame, UpFits
  <1>9. v.exposed = u.exposed \union F /\ v.lost = u.lost \union (H \union O)
    OBVIOUS
  <1> HIDE DEF H, O, F, C, D, U
  <1>10. SetsFit({}, {}, {}, C \union F, D, U, v.exposed, "none", v.link)
    BY <1>3, <1>9 DEF SetsFit
  <1>11. QueuesFit(<<>>, <<>>, <<>>, u.cloud[s] \o u.flying[s], p[s], v.exposed)
    BY <1>3, <1>6, <1>9, EmptyQueue DEF QueuesFit, PtyAscends
  <1>12. LaneFits(v, p, s)
    BY <1>1, <1>7, <1>8, <1>10, <1>11 DEF LaneFits, LaneIs
  <1>13. MovedAt(u, p, v, p, s, "cloud", F, H \union O)
    <2>1. /\ F \cap (H \union O) = {} /\ v.lost = u.lost \union (H \union O)
          /\ F \union (H \union O) \subseteq H \union O \union F \union C \union D \union U
          /\ {} = H \ (F \union (H \union O)) /\ {} = O \ (F \union (H \union O))
          /\ {} = F \ (F \union (H \union O)) /\ C \union F = (C \ (H \union O)) \union F
          /\ D = D \ (F \union (H \union O)) /\ U = U \ (F \union (H \union O))
      BY <1>4, <1>9 DEF Parted
    <2>2. "cloud" \in Kinds
      BY DEF Kinds
    <2> QED
      BY <1>7, <2>1, <2>2, LaneMoves
  <1> QED
    BY <1>5, <1>12, <1>13, OneLane

(* A switch that succeeds sends the queue after all that is on its way;    *)
(* what is still on the cloud is exposed.                                  *)
LEMMA SwitchedKeys ==
  ASSUME NEW u \in Transports, NEW p \in KeyQueues, NEW n \in Nat, KeyFits(u, p, n),
         NEW s \in Sessions, u.mode[s] = "cloud", u.link # "none",
         NEW v, Switched(u, v, s)
  PROVE  KeyFits(v, p, n)
  <1> DEFINE H == ToSet(u.held[s]) O == ToSet(u.out[s]) F == ToSet(u.flying[s])
             C == ToSet(u.cloud[s]) D == ToSet(p[s]) U == UpKeys(u.up, s)
  <1>1. /\ v.held = u.held /\ v.out = [u.out EXCEPT ![s] = <<>>] /\ v.flying = u.flying
        /\ v.cloud = u.cloud /\ v.lost = u.lost
        /\ v.exposed = u.exposed \union F \union C
        /\ v.mode = [u.mode EXCEPT ![s] = "direct"] /\ v.link = u.link
        /\ v.up = u.up \o KeyFrames(s, u.out[s])
    BY DEF Switched
  <1>2. /\ v.out[s] = <<>> /\ v.mode[s] = "direct"
        /\ \A r \in Sessions \ {s} : v.out[r] = u.out[r] /\ v.mode[r] = u.mode[r]
    BY <1>1 DEF Transports, KeyQueues
  <1>3. u.up \in Seq(Frames) /\ u.out[s] \in Seq(Keys)
    BY SomeTypes
  <1>4. /\ SetsFit(H, O, F, C, D, U, u.exposed, "cloud", u.link)
        /\ QueuesFit(u.held[s], u.out[s], u.flying[s], u.cloud[s], p[s], u.exposed)
        /\ UpAscends(u.up, u.exposed, s) /\ UpOnce(u.up, s)
    BY DEF KeyFits, LanesFit, LaneFits, UpFits
  <1>5. Parted(H, O, F, C, D, U)
    BY PartedAt
  <1>6. UpFits(v.up, v.exposed, s) /\ UpKeys(v.up, s) = U \union O
    <2>1. U \cap O = {} /\ \A x \in U, y \in O : x < y \/ y \in v.exposed
      BY <1>1, <1>4, <1>5 DEF SetsFit, Parted
    <2>2. Ascends(u.out[s])
      BY <1>4 DEF QueuesFit
    <2>3. u.exposed \subseteq v.exposed
      BY <1>1
    <2>4. UpFits(u.up, v.exposed, s)
      BY <1>4, <2>3 DEF UpAscends, UpFits
    <2> QED
      BY <1>1, <1>3, <2>1, <2>2, <2>4, UpGrown
  <1>7. ASSUME NEW r \in Sessions \ {s} PROVE Aside(u, p, v, p, r)
    <2>1. UpSame(u.up, u.up \o KeyFrames(s, u.out[s]), r)
      BY <1>3, UpOthers
    <2> QED
      BY <1>1, <1>2, <2>1 DEF Aside
  <1>8. LaneIs(u, p, s, H, O, F, C, D, U) /\ LaneIs(v, p, s, H, {}, F, C, D, U \union O)
    BY <1>1, <1>2, <1>6, EmptyQueue DEF LaneIs
  <1> HIDE DEF H, O, F, C, D, U
  <1>9. SetsFit(H, {}, F, C, D, U \union O, v.exposed, "direct", v.link)
    BY <1>1, <1>4 DEF SetsFit
  <1>10. QueuesFit(u.held[s], <<>>, u.flying[s], u.cloud[s], p[s], v.exposed)
    BY <1>1, <1>4, EmptyQueue DEF QueuesFit, PtyAscends
  <1>11. LaneFits(v, p, s)
    BY <1>1, <1>2, <1>6, <1>8, <1>9, <1>10 DEF LaneFits, LaneIs
  <1>12. MovedAt(u, p, v, p, s, "up", O, {})
    <2>1. /\ O \cap {} = {} /\ v.lost = u.lost \union {}
          /\ O \union {} \subseteq H \union O \union F \union C \union D \union U
          /\ H = H \ (O \union {}) /\ {} = O \ (O \union {}) /\ F = F \ (O \union {})
          /\ C = C \ (O \union {}) /\ D = D \ (O \union {}) /\ U \union O = (U \ {}) \union O
      BY <1>1, <1>5 DEF Parted
    <2>2. "up" \in Kinds
      BY DEF Kinds
    <2> QED
      BY <1>8, <2>1, <2>2, LaneMoves
  <1> QED
    BY <1>7, <1>11, <1>12, OneLane

(* What is queued goes out when nothing is in flight.                      *)
LEMMA PumpedKeys ==
  ASSUME NEW u \in Transports, NEW p \in KeyQueues, NEW n \in Nat, KeyFits(u, p, n),
         NEW s \in Sessions, u.sub[s] # "none" => u.mode[s] = "cloud",
         NEW v, Pumped(u, v, s)
  PROVE  KeyFits(v, p, n)
  <1> DEFINE H == ToSet(u.held[s]) O == ToSet(u.out[s]) F == ToSet(u.flying[s])
             C == ToSet(u.cloud[s]) D == ToSet(p[s]) U == UpKeys(u.up, s)
  <1>1. /\ v.held = u.held /\ v.cloud = u.cloud /\ v.lost = u.lost /\ v.exposed = u.exposed
        /\ v.mode = u.mode /\ v.link = u.link /\ v.up = u.up
    BY DEF Pumped, SamePaths, SameLink
  <1>2. CASE v.out = u.out /\ v.flying = u.flying
    BY <1>1, <1>2, QuietKeys, UpStays DEF SameKeys
  <1>3. CASE /\ u.flying[s] = <<>> /\ u.mode[s] = "cloud"
             /\ v.out = [u.out EXCEPT ![s] = <<>>]
             /\ v.flying = [u.flying EXCEPT ![s] = u.out[s]]
    <2>1. /\ v.out[s] = <<>> /\ v.flying[s] = u.out[s]
          /\ \A r \in Sessions \ {s} : v.out[r] = u.out[r] /\ v.flying[r] = u.flying[r]
      BY <1>3 DEF Transports, KeyQueues
    <2>2. /\ SetsFit(H, O, F, C, D, U, u.exposed, "cloud", u.link)
          /\ QueuesFit(u.held[s], u.out[s], u.flying[s], u.cloud[s], p[s], u.exposed)
          /\ UpFits(u.up, u.exposed, s)
      BY <1>3 DEF KeyFits, LanesFit, LaneFits
    <2>3. Parted(H, O, F, C, D, U)
      BY PartedAt
    <2>4. ASSUME NEW r \in Sessions \ {s} PROVE Aside(u, p, v, p, r)
      BY <1>1, <2>1, UpStays DEF Aside
    <2>5. /\ LaneIs(u, p, s, H, O, F, C, D, U) /\ LaneIs(v, p, s, H, {}, O, C, D, U)
          /\ F = {}
      BY <1>1, <1>3, <2>1, EmptyQueue DEF LaneIs
    <2> HIDE DEF H, O, F, C, D, U
    <2>6. SetsFit(H, {}, O, C, D, U, v.exposed, "cloud", v.link)
      BY <1>1, <2>2 DEF SetsFit
    <2>7. QueuesFit(u.held[s], <<>>, u.out[s], u.cloud[s], p[s], v.exposed)
      BY <1>1, <2>2, EmptyQueue DEF QueuesFit
    <2>8. LaneFits(v, p, s)
      BY <1>1, <1>3, <2>1, <2>2, <2>5, <2>6, <2>7 DEF LaneFits, LaneIs
    <2>9. MovedAt(u, p, v, p, s, "flying", O, {})
      <3>1. /\ O \cap {} = {} /\ v.lost = u.lost \union {}
            /\ O \union {} \subseteq H \union O \union F \union C \union D \union U
            /\ H = H \ (O \union {}) /\ {} = O \ (O \union {}) /\ O = (F \ {}) \union O
            /\ C = C \ (O \union {}) /\ D = D \ (O \union {}) /\ U = U \ (O \union {})
        BY <1>1, <2>3, <2>5 DEF Parted
      <3>2. "flying" \in Kinds
        BY DEF Kinds
      <3> QED
        BY <2>5, <3>1, <3>2, LaneMoves
    <2> QED
      BY <2>4, <2>8, <2>9, OneLane
  <1> QED
    BY <1>2, <1>3 DEF Pumped


(* One key enters.                                                         *)

(* The next key is typed at s: it comes after all others, in b or lost.    *)
NewAt(u, p, v, s, b, k) ==
    /\ b \in Kinds \union {"lost"}
    /\ v.lost = IF b = "lost" THEN u.lost \union {k} ELSE u.lost
    /\ \A kind \in Kinds : Lies(v, p, kind, s) =
          IF kind = b THEN Lies(u, p, kind, s) \union {k} ELSE Lies(u, p, kind, s)

(* When the next key enters at one session, that session alone has to be   *)
(* looked at.                                                              *)
LEMMA OneEnters ==
  ASSUME NEW u \in Transports, NEW p \in KeyQueues, NEW v, NEW n \in Nat, n + 1 \in Keys,
         NEW s \in Sessions, NEW b, KeyFits(u, p, n),
         \A r \in Sessions \ {s} : Aside(u, p, v, p, r),
         LaneFits(v, p, s), NewAt(u, p, v, s, b, n + 1)
  PROVE  KeyFits(v, p, n + 1)
  <1>1. LanesFit(v, p)
    BY AsideFits DEF KeyFits, LanesFit
  <1>2. \A r \in Sessions \ {s} : \A kind \in Kinds : Lies(v, p, kind, r) = Lies(u, p, kind, r)
    BY AsideLies
  <1>3. \A kind \in Kinds, r \in Sessions : Lies(v, p, kind, r) =
            IF kind = b /\ r = s THEN Lies(u, p, kind, r) \union {n + 1} ELSE Lies(u, p, kind, r)
    BY <1>2 DEF NewAt
  <1>4. Housed(u, p, n)
    BY DEF KeyFits
  <1>5. Housed(v, p, n + 1)
    <2>1. NewHome(u, p, v, s, b, n + 1)
      BY <1>3 DEF NewAt, NewHome
    <2> QED
      BY <1>4, <2>1, NewHoused
  <1> QED
    BY <1>1, <1>5 DEF KeyFits

(* The key that is typed next is later than all there are.                 *)
LEMMA Latest ==
  ASSUME NEW u \in Transports, NEW p \in KeyQueues, NEW n \in Nat, KeyFits(u, p, n),
         NEW s \in Sessions
  PROVE  \A x \in ToSet(u.held[s]) \union ToSet(u.out[s]) \union ToSet(u.flying[s])
                  \union ToSet(u.cloud[s]) \union ToSet(p[s]) \union UpKeys(u.up, s) :
            x < n + 1
  <1>1. \A a \in Kinds : Lies(u, p, a, s) \subseteq 1 .. n
    BY Apart DEF KeyFits
  <1>2. \A a \in Kinds : \A x \in Lies(u, p, a, s) : x < n + 1
    BY <1>1
  <1>3. /\ Lies(u, p, "held", s) = ToSet(u.held[s]) /\ Lies(u, p, "out", s) = ToSet(u.out[s])
        /\ Lies(u, p, "flying", s) = ToSet(u.flying[s])
        /\ Lies(u, p, "cloud", s) = ToSet(u.cloud[s])
        /\ Lies(u, p, "pty", s) = ToSet(p[s]) /\ Lies(u, p, "up", s) = UpKeys(u.up, s)
    BY DEF Lies
  <1>4. {"held", "out", "flying", "cloud", "pty", "up"} \subseteq Kinds
    BY DEF Kinds
  <1> HIDE DEF Lies
  <1> QED
    BY <1>2, <1>3, <1>4

(* A key that comes last keeps a queue in order.                           *)
LEMMA QueueGrows ==
  ASSUME NEW q \in Seq(Keys), NEW k \in Keys, Ascends(q), \A x \in ToSet(q) : x < k
  PROVE  q \o <<k>> \in Seq(Keys) /\ ToSet(q \o <<k>>) = ToSet(q) \union {k} /\ Ascends(q \o <<k>>)
  <1>1. <<k>> \in Seq(Keys) /\ ToSet(<<k>>) = {k} /\ Ascends(<<k>>)
    BY OneKey
  <1>2. PICK one \in Seq(Keys) : one = <<k>>
    BY <1>1
  <1>3. \A x \in ToSet(q), y \in ToSet(one) : x < y
    BY <1>1, <1>2
  <1>4. q \o one \in Seq(Keys) /\ ToSet(q \o one) = ToSet(q) \union ToSet(one) /\ Ascends(q \o one)
    BY <1>1, <1>2, <1>3, ConcatQueue
  <1> QED
    BY <1>1, <1>2, <1>4

(* The sets of a session, told as the kinds.                               *)
LEMMA LaneEnters ==
  ASSUME NEW u, NEW v, NEW p, NEW s, NEW b \in Kinds, NEW k,
         NEW H, NEW O, NEW F, NEW C, NEW D, NEW U, LaneIs(u, p, s, H, O, F, C, D, U),
         LaneIs(v, p, s, IF b = "held" THEN H \union {k} ELSE H,
                IF b = "out" THEN O \union {k} ELSE O, F, C, D,
                IF b = "up" THEN U \union {k} ELSE U),
         b \in {"held", "out", "up"}, v.lost = u.lost
  PROVE  NewAt(u, p, v, s, b, k)
  <1>1. /\ Lies(u, p, "held", s) = H /\ Lies(u, p, "out", s) = O /\ Lies(u, p, "flying", s) = F
        /\ Lies(u, p, "cloud", s) = C /\ Lies(u, p, "pty", s) = D /\ Lies(u, p, "up", s) = U
    BY DEF Lies, LaneIs
  <1>2. /\ Lies(v, p, "held", s) = IF b = "held" THEN H \union {k} ELSE H
        /\ Lies(v, p, "out", s) = IF b = "out" THEN O \union {k} ELSE O
        /\ Lies(v, p, "flying", s) = F
        /\ Lies(v, p, "cloud", s) = C /\ Lies(v, p, "pty", s) = D
        /\ Lies(v, p, "up", s) = IF b = "up" THEN U \union {k} ELSE U
    BY DEF Lies, LaneIs
  <1>3. b # "lost"
    OBVIOUS
  <1>4. \A kind \in Kinds : Lies(v, p, kind, s) =
          IF kind = b THEN Lies(u, p, kind, s) \union {k} ELSE Lies(u, p, kind, s)
    BY <1>1, <1>2 DEF Kinds
  <1> QED
    BY <1>3, <1>4 DEF NewAt

(* A key that is dropped as it is typed is lost and moves nothing.         *)
LEMMA DroppedKeys ==
  ASSUME NEW u \in Transports, NEW p \in KeyQueues, NEW n \in Nat, n + 1 \in Keys,
         KeyFits(u, p, n), NEW s \in Sessions,
         NEW v, v = [u EXCEPT !.lost = @ \union {n + 1}]
  PROVE  KeyFits(v, p, n + 1)
  <1>1. /\ v.held = u.held /\ v.out = u.out /\ v.flying = u.flying /\ v.cloud = u.cloud
        /\ v.exposed = u.exposed /\ v.mode = u.mode /\ v.link = u.link /\ v.up = u.up
        /\ v.lost = u.lost \union {n + 1}
    BY DEF Transports
  <1>2. \A r \in Sessions : Aside(u, p, v, p, r)
    BY <1>1, UpStays DEF Aside
  <1>3. LaneFits(v, p, s)
    BY <1>2, AsideFits DEF KeyFits, LanesFit
  <1>4. NewAt(u, p, v, s, "lost", n + 1)
    <2>1. \A kind \in Kinds : Lies(v, p, kind, s) = Lies(u, p, kind, s)
      BY <1>2, AsideLies
    <2>2. "lost" \notin Kinds
      BY DEF Kinds
    <2> QED
      BY <1>1, <2>1, <2>2 DEF NewAt
  <1> QED
    BY <1>2, <1>3, <1>4, OneEnters

(* A key held back by a waiting session comes after those it holds.        *)
LEMMA HeldKeys ==
  ASSUME NEW u \in Transports, NEW p \in KeyQueues, NEW n \in Nat, n + 1 \in Keys,
         KeyFits(u, p, n), NEW s \in Sessions, u.mode[s] = "connecting",
         NEW v, v = [u EXCEPT !.held[s] = u.held[s] \o <<n + 1>>]
  PROVE  KeyFits(v, p, n + 1)
  <1> DEFINE H == ToSet(u.held[s]) O == ToSet(u.out[s]) F == ToSet(u.flying[s])
             C == ToSet(u.cloud[s]) D == ToSet(p[s]) U == UpKeys(u.up, s) k == n + 1
  <1>1. /\ v.out = u.out /\ v.flying = u.flying /\ v.cloud = u.cloud /\ v.lost = u.lost
        /\ v.exposed = u.exposed /\ v.mode = u.mode /\ v.link = u.link /\ v.up = u.up
        /\ v.held[s] = u.held[s] \o <<k>> /\ \A r \in Sessions \ {s} : v.held[r] = u.held[r]
    BY DEF Transports, KeyQueues
  <1>2. /\ SetsFit(H, O, F, C, D, U, u.exposed, "connecting", u.link)
        /\ QueuesFit(u.held[s], u.out[s], u.flying[s], u.cloud[s], p[s], u.exposed)
        /\ UpFits(u.up, u.exposed, s)
    BY DEF KeyFits, LanesFit, LaneFits
  <1>3. \A x \in H \union O \union F \union C \union D \union U : x < k
    BY Latest
  <1>4. ToSet(u.held[s] \o <<k>>) = H \union {k} /\ Ascends(u.held[s] \o <<k>>)
    <2>1. u.held[s] \in Seq(Keys)
      BY SomeTypes
    <2>2. Ascends(u.held[s])
      BY <1>2 DEF QueuesFit
    <2> QED
      BY <1>3, <2>1, <2>2, QueueGrows
  <1>5. ASSUME NEW r \in Sessions \ {s} PROVE Aside(u, p, v, p, r)
    BY <1>1, UpStays DEF Aside
  <1>6. LaneIs(u, p, s, H, O, F, C, D, U) /\ LaneIs(v, p, s, H \union {k}, O, F, C, D, U)
    BY <1>1, <1>4 DEF LaneIs
  <1> HIDE DEF H, O, F, C, D, U
  <1>7. SetsFit(H \union {k}, O, F, C, D, U, v.exposed, "connecting", v.link)
    BY <1>1, <1>2, <1>3 DEF SetsFit
  <1>8. QueuesFit(u.held[s] \o <<k>>, u.out[s], u.flying[s], u.cloud[s], p[s], v.exposed)
    BY <1>1, <1>2, <1>4 DEF QueuesFit
  <1>9. LaneFits(v, p, s)
    BY <1>1, <1>2, <1>6, <1>7, <1>8 DEF LaneFits, LaneIs
  <1>10. NewAt(u, p, v, s, "held", k)
    <2>1. "held" \in Kinds
      BY DEF Kinds
    <2> QED
      BY <1>1, <1>6, <2>1, LaneEnters
  <1> QED
    BY <1>5, <1>9, <1>10, OneEnters

(* A key queued for the cloud comes after those that are queued.           *)
LEMMA QueuedKeys ==
  ASSUME NEW u \in Transports, NEW p \in KeyQueues, NEW n \in Nat, n + 1 \in Keys,
         KeyFits(u, p, n), NEW s \in Sessions, u.mode[s] = "cloud",
         NEW v, v = [u EXCEPT !.out[s] = u.out[s] \o <<n + 1>>]
  PROVE  KeyFits(v, p, n + 1)
  <1> DEFINE H == ToSet(u.held[s]) O == ToSet(u.out[s]) F == ToSet(u.flying[s])
             C == ToSet(u.cloud[s]) D == ToSet(p[s]) U == UpKeys(u.up, s) k == n + 1
  <1>1. /\ v.held = u.held /\ v.flying = u.flying /\ v.cloud = u.cloud /\ v.lost = u.lost
        /\ v.exposed = u.exposed /\ v.mode = u.mode /\ v.link = u.link /\ v.up = u.up
        /\ v.out[s] = u.out[s] \o <<k>> /\ \A r \in Sessions \ {s} : v.out[r] = u.out[r]
    BY DEF Transports, KeyQueues
  <1>2. /\ SetsFit(H, O, F, C, D, U, u.exposed, "cloud", u.link)
        /\ QueuesFit(u.held[s], u.out[s], u.flying[s], u.cloud[s], p[s], u.exposed)
        /\ UpFits(u.up, u.exposed, s)
    BY DEF KeyFits, LanesFit, LaneFits
  <1>3. \A x \in H \union O \union F \union C \union D \union U : x < k
    BY Latest
  <1>4. ToSet(u.out[s] \o <<k>>) = O \union {k} /\ Ascends(u.out[s] \o <<k>>)
    <2>1. u.out[s] \in Seq(Keys)
      BY SomeTypes
    <2>2. Ascends(u.out[s])
      BY <1>2 DEF QueuesFit
    <2> QED
      BY <1>3, <2>1, <2>2, QueueGrows
  <1>5. ASSUME NEW r \in Sessions \ {s} PROVE Aside(u, p, v, p, r)
    BY <1>1, UpStays DEF Aside
  <1>6. LaneIs(u, p, s, H, O, F, C, D, U) /\ LaneIs(v, p, s, H, O \union {k}, F, C, D, U)
    BY <1>1, <1>4 DEF LaneIs
  <1> HIDE DEF H, O, F, C, D, U
  <1>7. H = {}
    BY <1>2 DEF SetsFit
  <1>8. SetsFit(H, O \union {k}, F, C, D, U, v.exposed, "cloud", v.link)
    BY <1>1, <1>2, <1>3, <1>7 DEF SetsFit
  <1>9. QueuesFit(u.held[s], u.out[s] \o <<k>>, u.flying[s], u.cloud[s], p[s], v.exposed)
    BY <1>1, <1>2, <1>4 DEF QueuesFit
  <1>10. LaneFits(v, p, s)
    BY <1>1, <1>2, <1>6, <1>8, <1>9 DEF LaneFits, LaneIs
  <1>11. NewAt(u, p, v, s, "out", k)
    <2>1. "out" \in Kinds
      BY DEF Kinds
    <2> QED
      BY <1>1, <1>6, <2>1, LaneEnters
  <1> QED
    BY <1>5, <1>10, <1>11, OneEnters

(* A key sent over the peer comes after those on their way.                *)
LEMMA SentKeys ==
  ASSUME NEW u \in Transports, NEW p \in KeyQueues, NEW n \in Nat, n + 1 \in Keys,
         KeyFits(u, p, n), NEW s \in Sessions, u.mode[s] = "direct", u.link # "none",
         NEW v, v = [u EXCEPT !.up = u.up \o KeyFrames(s, <<n + 1>>)]
  PROVE  KeyFits(v, p, n + 1)
  <1> DEFINE H == ToSet(u.held[s]) O == ToSet(u.out[s]) F == ToSet(u.flying[s])
             C == ToSet(u.cloud[s]) D == ToSet(p[s]) U == UpKeys(u.up, s) k == n + 1
  <1>1. /\ v.held = u.held /\ v.out = u.out /\ v.flying = u.flying /\ v.cloud = u.cloud
        /\ v.lost = u.lost /\ v.exposed = u.exposed /\ v.mode = u.mode /\ v.link = u.link
        /\ v.up = u.up \o KeyFrames(s, <<k>>)
    BY DEF Transports
  <1>2. /\ SetsFit(H, O, F, C, D, U, u.exposed, "direct", u.link)
        /\ QueuesFit(u.held[s], u.out[s], u.flying[s], u.cloud[s], p[s], u.exposed)
        /\ UpFits(u.up, u.exposed, s)
    BY DEF KeyFits, LanesFit, LaneFits
  <1>3. \A x \in H \union O \union F \union C \union D \union U : x < k
    BY Latest
  <1>4. PICK one \in Seq(Keys) : one = <<k>> /\ ToSet(one) = {k} /\ Ascends(one)
    BY OneKey
  <1>5. u.up \in Seq(Frames)
    BY SomeTypes
  <1>6. UpFits(v.up, v.exposed, s) /\ UpKeys(v.up, s) = U \union {k}
    <2>1. U \cap ToSet(one) = {} /\ \A x \in U, y \in ToSet(one) : x < y \/ y \in u.exposed
      BY <1>3, <1>4
    <2> HIDE DEF k
    <2>2. /\ UpFits(u.up \o KeyFrames(s, one), u.exposed, s)
          /\ UpKeys(u.up \o KeyFrames(s, one), s) = U \union ToSet(one)
      BY <1>2, <1>4, <1>5, <2>1, UpGrown
    <2> QED
      BY <1>1, <1>4, <2>2
  <1>7. ASSUME NEW r \in Sessions \ {s} PROVE Aside(u, p, v, p, r)
    <2>1. UpSame(u.up, u.up \o KeyFrames(s, one), r)
      BY <1>5, UpOthers
    <2> QED
      BY <1>1, <1>4, <2>1 DEF Aside
  <1>8. LaneIs(u, p, s, H, O, F, C, D, U) /\ LaneIs(v, p, s, H, O, F, C, D, U \union {k})
    BY <1>1, <1>6 DEF LaneIs
  <1> HIDE DEF H, O, F, C, D, U
  <1>9. SetsFit(H, O, F, C, D, U \union {k}, v.exposed, "direct", v.link)
    <2>1. H = {} /\ O = {} /\ F \subseteq u.exposed
      BY <1>2 DEF SetsFit
    <2> QED
      BY <1>1, <1>2, <1>3, <2>1 DEF SetsFit
  <1>10. LaneFits(v, p, s)
    BY <1>1, <1>2, <1>6, <1>8, <1>9 DEF LaneFits, LaneIs
  <1>11. NewAt(u, p, v, s, "up", k)
    <2>1. "up" \in Kinds
      BY DEF Kinds
    <2> QED
      BY <1>1, <1>8, <2>1, LaneEnters
  <1> QED
    BY <1>7, <1>10, <1>11, OneEnters

-----------------------------------------------------------------------------
(* Keys arrive, or are lost.                                               *)

(* What reaches the process in order, and after what is there unless it is *)
(* exposed, keeps the order there.                                         *)
LEMMA PtyGrows ==
  ASSUME NEW d \in Seq(Keys), NEW f \in Seq(Keys), NEW E, Once(d), Once(f),
         PtyAscends(d, E), PtyAscends(f, E), ToSet(d) \cap ToSet(f) = {},
         \A x \in ToSet(d), y \in ToSet(f) : x < y \/ y \in E
  PROVE  /\ d \o f \in Seq(Keys) /\ ToSet(d \o f) = ToSet(d) \union ToSet(f)
         /\ Once(d \o f) /\ PtyAscends(d \o f, E)
  <1>1. /\ d \o f \in Seq(Keys) /\ ToSet(d \o f) = ToSet(d) \union ToSet(f) /\ Once(d \o f)
    BY ConcatQueue
  <1>2. /\ Len(d) \in Nat /\ DOMAIN d \subseteq Nat /\ DOMAIN f \subseteq Nat
        /\ DOMAIN (d \o f) \subseteq Nat
        /\ \A i \in DOMAIN (d \o f) :
             \/ i <= Len(d) /\ i \in DOMAIN d /\ (d \o f)[i] = d[i]
             \/ i > Len(d) /\ i - Len(d) \in DOMAIN f /\ (d \o f)[i] = f[i - Len(d)]
    BY SeqConcat
  <1>3. ASSUME NEW i \in DOMAIN (d \o f), NEW j \in DOMAIN (d \o f), i < j
        PROVE  (d \o f)[i] < (d \o f)[j] \/ (d \o f)[j] \in E
    <2>1. CASE j <= Len(d)
      <3>1. /\ i \in DOMAIN d /\ j \in DOMAIN d
            /\ (d \o f)[i] = d[i] /\ (d \o f)[j] = d[j]
        BY <1>2, <1>3, <2>1
      <3> QED
        BY <1>3, <3>1 DEF PtyAscends
    <2>2. CASE i > Len(d)
      <3>1. /\ i - Len(d) \in DOMAIN f /\ j - Len(d) \in DOMAIN f
            /\ (d \o f)[i] = f[i - Len(d)] /\ (d \o f)[j] = f[j - Len(d)]
        BY <1>2, <1>3, <2>2
      <3>2. i - Len(d) < j - Len(d)
        BY <1>2, <1>3
      <3> QED
        BY <3>1, <3>2 DEF PtyAscends
    <2>3. CASE i <= Len(d) /\ j > Len(d)
      <3>1. /\ i \in DOMAIN d /\ (d \o f)[i] = d[i]
            /\ j - Len(d) \in DOMAIN f /\ (d \o f)[j] = f[j - Len(d)]
        BY <1>2, <2>3
      <3>2. (d \o f)[i] \in ToSet(d) /\ (d \o f)[j] \in ToSet(f)
        BY <3>1 DEF ToSet
      <3> QED
        BY <3>2
    <2> QED
      BY <1>2, <2>1, <2>2, <2>3
  <1> QED
    BY <1>1, <1>3 DEF PtyAscends

(* Of what s has somewhere only the publication under way is gone, and the *)
(* keys L of it are lost.                                                  *)
FlownAway(u, v, s, L) ==
    /\ v.held = u.held /\ v.out = u.out /\ v.cloud = u.cloud /\ v.lost = u.lost \union L
    /\ v.exposed = u.exposed /\ v.mode = u.mode /\ v.link = u.link /\ v.up = u.up
    /\ v.flying[s] = <<>> /\ \A r \in Sessions \ {s} : v.flying[r] = u.flying[r]
GotMore(p, q, s, keys) == q[s] = p[s] \o keys /\ \A r \in Sessions \ {s} : q[r] = p[r]

(* A publication that settles has arrived.                                 *)
LEMMA LandedKeys ==
  ASSUME NEW u \in Transports, NEW p \in KeyQueues, NEW n \in Nat, KeyFits(u, p, n),
         NEW s \in Sessions, NEW v, FlownAway(u, v, s, {}),
         NEW q, GotMore(p, q, s, u.flying[s])
  PROVE  KeyFits(v, q, n)
  <1> DEFINE H == ToSet(u.held[s]) O == ToSet(u.out[s]) F == ToSet(u.flying[s])
             C == ToSet(u.cloud[s]) D == ToSet(p[s]) U == UpKeys(u.up, s)
  <1>1. /\ v.held = u.held /\ v.out = u.out /\ v.cloud = u.cloud /\ v.lost = u.lost
        /\ v.exposed = u.exposed /\ v.mode = u.mode /\ v.link = u.link /\ v.up = u.up
        /\ v.flying[s] = <<>> /\ \A r \in Sessions \ {s} : v.flying[r] = u.flying[r]
    BY DEF FlownAway
  <1>2. q[s] = p[s] \o u.flying[s] /\ \A r \in Sessions \ {s} : q[r] = p[r]
    BY DEF GotMore
  <1>3. /\ SetsFit(H, O, F, C, D, U, u.exposed, u.mode[s], u.link)
        /\ QueuesFit(u.held[s], u.out[s], u.flying[s], u.cloud[s], p[s], u.exposed)
        /\ UpFits(u.up, u.exposed, s)
    BY DEF KeyFits, LanesFit, LaneFits
  <1>4. Parted(H, O, F, C, D, U)
    BY PartedAt
  <1>5. /\ p[s] \o u.flying[s] \in Seq(Keys) /\ ToSet(p[s] \o u.flying[s]) = D \union F
        /\ Once(p[s] \o u.flying[s]) /\ PtyAscends(p[s] \o u.flying[s], u.exposed)
    <2>1. p[s] \in Seq(Keys) /\ u.flying[s] \in Seq(Keys)
      BY SomeTypes DEF KeyQueues
    <2>2. /\ Once(p[s]) /\ Ascends(u.flying[s]) /\ PtyAscends(p[s], u.exposed)
      BY <1>3 DEF QueuesFit
    <2>3. Once(u.flying[s])
      BY <2>1, <2>2, AscendsOnce
    <2>4. PtyAscends(u.flying[s], u.exposed)
      BY <2>2 DEF PtyAscends, Ascends
    <2>5. D \cap F = {} /\ \A x \in D, y \in F : x < y \/ y \in u.exposed
      BY <1>3, <1>4 DEF Parted, SetsFit
    <2> QED
      BY <2>1, <2>2, <2>3, <2>4, <2>5, PtyGrows
  <1>6. ASSUME NEW r \in Sessions \ {s} PROVE Aside(u, p, v, q, r)
    BY <1>1, <1>2, UpStays DEF Aside
  <1>7. LaneIs(u, p, s, H, O, F, C, D, U) /\ LaneIs(v, q, s, H, O, {}, C, D \union F, U)
    BY <1>1, <1>2, <1>5, EmptyQueue DEF LaneIs
  <1> HIDE DEF H, O, F, C, D, U
  <1>8. SetsFit(H, O, {}, C, D \union F, U, v.exposed, v.mode[s], v.link)
    BY <1>1, <1>3 DEF SetsFit
  <1>9. QueuesFit(u.held[s], u.out[s], <<>>, u.cloud[s], q[s], v.exposed)
    BY <1>1, <1>2, <1>3, <1>5, EmptyQueue DEF QueuesFit
  <1>10. LaneFits(v, q, s)
    BY <1>1, <1>3, <1>7, <1>8, <1>9 DEF LaneFits, LaneIs
  <1>11. MovedAt(u, p, v, q, s, "pty", F, {})
    <2>1. /\ F \cap {} = {} /\ v.lost = u.lost \union {}
          /\ F \union {} \subseteq H \union O \union F \union C \union D \union U
          /\ H = H \ (F \union {}) /\ O = O \ (F \union {}) /\ {} = F \ (F \union {})
          /\ C = C \ (F \union {}) /\ D \union F = (D \ {}) \union F /\ U = U \ (F \union {})
      BY <1>1, <1>4 DEF Parted
    <2>2. "pty" \in Kinds
      BY DEF Kinds
    <2> QED
      BY <1>7, <2>1, <2>2, LaneMoves
  <1> QED
    BY <1>6, <1>10, <1>11, OneLane

(* A publication that is refused is lost.                                  *)
LEMMA RefusedKeys ==
  ASSUME NEW u \in Transports, NEW p \in KeyQueues, NEW n \in Nat, KeyFits(u, p, n),
         NEW s \in Sessions, NEW v, FlownAway(u, v, s, ToSet(u.flying[s]))
  PROVE  KeyFits(v, p, n)
  <1> DEFINE H == ToSet(u.held[s]) O == ToSet(u.out[s]) F == ToSet(u.flying[s])
             C == ToSet(u.cloud[s]) D == ToSet(p[s]) U == UpKeys(u.up, s)
  <1>1. /\ v.held = u.held /\ v.out = u.out /\ v.cloud = u.cloud /\ v.lost = u.lost \union F
        /\ v.exposed = u.exposed /\ v.mode = u.mode /\ v.link = u.link /\ v.up = u.up
        /\ v.flying[s] = <<>> /\ \A r \in Sessions \ {s} : v.flying[r] = u.flying[r]
    BY DEF FlownAway
  <1>2. /\ SetsFit(H, O, F, C, D, U, u.exposed, u.mode[s], u.link)
        /\ QueuesFit(u.held[s], u.out[s], u.flying[s], u.cloud[s], p[s], u.exposed)
        /\ UpFits(u.up, u.exposed, s)
    BY DEF KeyFits, LanesFit, LaneFits
  <1>3. Parted(H, O, F, C, D, U)
    BY PartedAt
  <1>4. ASSUME NEW r \in Sessions \ {s} PROVE Aside(u, p, v, p, r)
    BY <1>1, UpStays DEF Aside
  <1>5. LaneIs(u, p, s, H, O, F, C, D, U) /\ LaneIs(v, p, s, H, O, {}, C, D, U)
    BY <1>1, EmptyQueue DEF LaneIs
  <1> HIDE DEF H, O, F, C, D, U
  <1>6. SetsFit(H, O, {}, C, D, U, v.exposed, v.mode[s], v.link)
    BY <1>1, <1>2 DEF SetsFit
  <1>7. QueuesFit(u.held[s], u.out[s], <<>>, u.cloud[s], p[s], v.exposed)
    BY <1>1, <1>2, EmptyQueue DEF QueuesFit
  <1>8. LaneFits(v, p, s)
    BY <1>1, <1>2, <1>5, <1>6, <1>7 DEF LaneFits, LaneIs
  <1>9. MovedAt(u, p, v, p, s, "flying", {}, F)
    <2>1. /\ {} \cap F = {}
          /\ {} \union F \subseteq H \union O \union F \union C \union D \union U
          /\ H = H \ ({} \union F) /\ O = O \ ({} \union F) /\ {} = (F \ F) \union {}
          /\ C = C \ ({} \union F) /\ D = D \ ({} \union F) /\ U = U \ ({} \union F)
      BY <1>3 DEF Parted
    <2>2. "flying" \in Kinds
      BY DEF Kinds
    <2> QED
      BY <1>1, <1>5, <2>1, <2>2, LaneMoves
  <1> QED
    BY <1>4, <1>8, <1>9, OneLane

LateAway(u, v, s) ==
    /\ v.held = u.held /\ v.out = u.out /\ v.flying = u.flying /\ v.lost = u.lost
    /\ v.exposed = u.exposed /\ v.mode = u.mode /\ v.link = u.link /\ v.up = u.up
    /\ v.cloud[s] = <<>> /\ \A r \in Sessions \ {s} : v.cloud[r] = u.cloud[r]

(* The publication of an entry that is gone arrives late: it is exposed.   *)
LEMMA LateKeys ==
  ASSUME NEW u \in Transports, NEW p \in KeyQueues, NEW n \in Nat, KeyFits(u, p, n),
         NEW s \in Sessions, NEW v, LateAway(u, v, s),
         NEW q, GotMore(p, q, s, u.cloud[s])
  PROVE  KeyFits(v, q, n)
  <1> DEFINE H == ToSet(u.held[s]) O == ToSet(u.out[s]) F == ToSet(u.flying[s])
             C == ToSet(u.cloud[s]) D == ToSet(p[s]) U == UpKeys(u.up, s)
  <1>1. /\ v.held = u.held /\ v.out = u.out /\ v.flying = u.flying /\ v.lost = u.lost
        /\ v.exposed = u.exposed /\ v.mode = u.mode /\ v.link = u.link /\ v.up = u.up
        /\ v.cloud[s] = <<>> /\ \A r \in Sessions \ {s} : v.cloud[r] = u.cloud[r]
    BY DEF LateAway
  <1>2. q[s] = p[s] \o u.cloud[s] /\ \A r \in Sessions \ {s} : q[r] = p[r]
    BY DEF GotMore
  <1>3. /\ SetsFit(H, O, F, C, D, U, u.exposed, u.mode[s], u.link)
        /\ QueuesFit(u.held[s], u.out[s], u.flying[s], u.cloud[s], p[s], u.exposed)
        /\ UpFits(u.up, u.exposed, s)
    BY DEF KeyFits, LanesFit, LaneFits
  <1>4. Parted(H, O, F, C, D, U)
    BY PartedAt
  <1>5. /\ p[s] \o u.cloud[s] \in Seq(Keys) /\ ToSet(p[s] \o u.cloud[s]) = D \union C
        /\ Once(p[s] \o u.cloud[s]) /\ PtyAscends(p[s] \o u.cloud[s], u.exposed)
    <2>1. p[s] \in Seq(Keys) /\ u.cloud[s] \in Seq(Keys)
      BY SomeTypes DEF KeyQueues
    <2>2. Once(p[s]) /\ Once(u.cloud[s]) /\ PtyAscends(p[s], u.exposed)
      BY <1>3 DEF QueuesFit
    <2>3. C \subseteq u.exposed
      BY <1>3 DEF SetsFit
    <2>4. PtyAscends(u.cloud[s], u.exposed)
      BY <2>3 DEF PtyAscends, ToSet
    <2>5. D \cap C = {} /\ \A x \in D, y \in C : x < y \/ y \in u.exposed
      BY <1>4, <2>3 DEF Parted
    <2> QED
      BY <2>1, <2>2, <2>4, <2>5, PtyGrows
  <1>6. ASSUME NEW r \in Sessions \ {s} PROVE Aside(u, p, v, q, r)
    BY <1>1, <1>2, UpStays DEF Aside
  <1>7. LaneIs(u, p, s, H, O, F, C, D, U) /\ LaneIs(v, q, s, H, O, F, {}, D \union C, U)
    BY <1>1, <1>2, <1>5, EmptyQueue DEF LaneIs
  <1> HIDE DEF H, O, F, C, D, U
  <1>8. SetsFit(H, O, F, {}, D \union C, U, v.exposed, v.mode[s], v.link)
    BY <1>1, <1>3 DEF SetsFit
  <1>9. QueuesFit(u.held[s], u.out[s], u.flying[s], <<>>, q[s], v.exposed)
    BY <1>1, <1>2, <1>3, <1>5, EmptyQueue DEF QueuesFit
  <1>10. LaneFits(v, q, s)
    BY <1>1, <1>3, <1>7, <1>8, <1>9 DEF LaneFits, LaneIs
  <1>11. MovedAt(u, p, v, q, s, "pty", C, {})
    <2>1. /\ C \cap {} = {} /\ v.lost = u.lost \union {}
          /\ C \union {} \subseteq H \union O \union F \union C \union D \union U
          /\ H = H \ (C \union {}) /\ O = O \ (C \union {}) /\ F = F \ (C \union {})
          /\ {} = C \ (C \union {}) /\ D \union C = (D \ {}) \union C /\ U = U \ (C \union {})
      BY <1>1, <1>4 DEF Parted
    <2>2. "pty" \in Kinds
      BY DEF Kinds
    <2> QED
      BY <1>7, <2>1, <2>2, LaneMoves
  <1> QED
    BY <1>6, <1>10, <1>11, OneLane

(* What leaves the peer with its first frame, and what stays.               *)
LEMMA FirstInput ==
  ASSUME NEW up \in Seq(Frames), up # <<>>, Head(up).kind = "input", NEW E,
         UpFits(up, E, Head(up).session)
  PROVE  LET k == Head(up).key  s == Head(up).session
         IN  /\ s \in Sessions /\ k \in Keys
             /\ UpKeys(up, s) = {k} \union UpKeys(Tail(up), s)
             /\ k \notin UpKeys(Tail(up), s)
             /\ UpFits(Tail(up), E, s)
             /\ \A y \in UpKeys(Tail(up), s) : k < y \/ y \in E
  <1> DEFINE k == Head(up).key s == Head(up).session
  <1>1. Head(up) \in Frames
    BY HeadAndTail
  <1>2. s \in Sessions /\ k \in Keys
    BY <1>1 DEF Frames, Frame
  <1>3. UpKeys(<<Head(up)>>, s) = {k}
    BY <1>1, <1>2, OneInput
  <1>4. /\ UpKeys(up, s) = UpKeys(<<Head(up)>>, s) \union UpKeys(Tail(up), s)
        /\ UpAscends(Tail(up), E, s)
        /\ \A x \in UpKeys(<<Head(up)>>, s), y \in UpKeys(Tail(up), s) : x < y \/ y \in E
        /\ UpOnce(Tail(up), s)
        /\ UpKeys(<<Head(up)>>, s) \cap UpKeys(Tail(up), s) = {}
    BY <1>2, UpRest DEF UpFits
  <1> HIDE DEF k, s
  <1>5. /\ UpKeys(up, s) = {k} \union UpKeys(Tail(up), s) /\ k \notin UpKeys(Tail(up), s)
        /\ UpFits(Tail(up), E, s) /\ \A y \in UpKeys(Tail(up), s) : k < y \/ y \in E
    BY <1>3, <1>4 DEF UpFits
  <1> QED
    BY <1>2, <1>5 DEF k, s

(* The first frame is off its way, and the keys L are lost.                *)
Unqueued(u, v, L) ==
    /\ v.held = u.held /\ v.out = u.out /\ v.flying = u.flying /\ v.cloud = u.cloud
    /\ v.lost = u.lost \union L /\ v.exposed = u.exposed /\ v.mode = u.mode
    /\ v.link = u.link /\ v.up = Tail(u.up)

(* Input that the peer delivers has arrived.                               *)
LEMMA ReadKeys ==
  ASSUME NEW u \in Transports, NEW p \in KeyQueues, NEW n \in Nat, KeyFits(u, p, n),
         u.up # <<>>, NEW f, f = Head(u.up), f.kind = "input",
         NEW v, Unqueued(u, v, {}), NEW q, GotMore(p, q, f.session, <<f.key>>)
  PROVE  KeyFits(v, q, n)
  <1>1. PICK s \in Sessions : s = f.session
    <2>1. u.up \in Seq(Frames)
      BY DEF Transports
    <2>2. f \in Frames
      BY <2>1, HeadAndTail
    <2> QED
      BY <2>2 DEF Frames, Frame
  <1> DEFINE H == ToSet(u.held[s]) O == ToSet(u.out[s]) F == ToSet(u.flying[s])
             C == ToSet(u.cloud[s]) D == ToSet(p[s]) U == UpKeys(u.up, s) k == f.key
             T == UpKeys(Tail(u.up), s)
  <1>2. /\ v.held = u.held /\ v.out = u.out /\ v.flying = u.flying /\ v.cloud = u.cloud
        /\ v.lost = u.lost /\ v.exposed = u.exposed /\ v.mode = u.mode /\ v.link = u.link
        /\ v.up = Tail(u.up)
    BY DEF Unqueued
  <1>3. q[s] = p[s] \o <<k>> /\ \A r \in Sessions \ {s} : q[r] = p[r]
    BY <1>1 DEF GotMore
  <1>4. /\ SetsFit(H, O, F, C, D, U, u.exposed, u.mode[s], u.link)
        /\ QueuesFit(u.held[s], u.out[s], u.flying[s], u.cloud[s], p[s], u.exposed)
        /\ UpFits(u.up, u.exposed, s)
    BY DEF KeyFits, LanesFit, LaneFits
  <1>5. Parted(H, O, F, C, D, U)
    BY PartedAt
  <1>6. u.up \in Seq(Frames) /\ p[s] \in Seq(Keys)
    BY SomeTypes DEF KeyQueues
  <1>7. /\ k \in Keys /\ U = {k} \union T /\ k \notin T
        /\ UpFits(Tail(u.up), u.exposed, s) /\ \A y \in T : k < y \/ y \in u.exposed
    BY <1>1, <1>4, <1>6, FirstInput
  <1>8. PICK one \in Seq(Keys) : /\ one = <<k>> /\ ToSet(one) = {k}
                                 /\ Ascends(one) /\ Once(one)
    BY <1>7, OneKey
  <1>9. ToSet(q[s]) = D \union {k} /\ Once(q[s]) /\ PtyAscends(q[s], u.exposed)
    <2>1. q[s] = p[s] \o one
      BY <1>3, <1>8
    <2>2. Once(p[s]) /\ PtyAscends(p[s], u.exposed)
      BY <1>4 DEF QueuesFit
    <2>3. PtyAscends(one, u.exposed)
      BY <1>8 DEF PtyAscends, Ascends
    <2>4. D \cap ToSet(one) = {} /\ \A x \in D, y \in ToSet(one) : x < y \/ y \in u.exposed
      BY <1>4, <1>5, <1>7, <1>8 DEF Parted, SetsFit
    <2>5. /\ ToSet(p[s] \o one) = D \union ToSet(one)
          /\ Once(p[s] \o one) /\ PtyAscends(p[s] \o one, u.exposed)
      BY <1>6, <1>8, <2>2, <2>3, <2>4, PtyGrows
    <2> QED
      BY <1>8, <2>1, <2>5
  <1>10. ASSUME NEW r \in Sessions \ {s} PROVE Aside(u, p, v, q, r)
    <2>1. ~IsInput(Head(u.up), r)
      BY <1>1 DEF IsInput
    <2>2. UpSame(u.up, Tail(u.up), r)
      BY <1>6, <2>1, UpTaken
    <2> QED
      BY <1>2, <1>3, <2>2 DEF Aside
  <1>11. LaneIs(u, p, s, H, O, F, C, D, U) /\ LaneIs(v, q, s, H, O, F, C, D \union {k}, T)
    BY <1>2, <1>3, <1>9 DEF LaneIs
  <1> HIDE DEF H, O, F, C, D, U, T, k
  <1>12. SetsFit(H, O, F, C, D \union {k}, T, v.exposed, v.mode[s], v.link)
    BY <1>2, <1>4, <1>7 DEF SetsFit
  <1>13. QueuesFit(u.held[s], u.out[s], u.flying[s], u.cloud[s], q[s], v.exposed)
    BY <1>2, <1>4, <1>9 DEF QueuesFit
  <1>14. LaneFits(v, q, s)
    BY <1>2, <1>7, <1>11, <1>12, <1>13 DEF LaneFits, LaneIs
  <1>15. MovedAt(u, p, v, q, s, "pty", {k}, {})
    <2>1. /\ {k} \cap {} = {} /\ v.lost = u.lost \union {}
          /\ {k} \union {} \subseteq H \union O \union F \union C \union D \union U
          /\ H = H \ ({k} \union {}) /\ O = O \ ({k} \union {}) /\ F = F \ ({k} \union {})
          /\ C = C \ ({k} \union {}) /\ D \union {k} = (D \ {}) \union {k}
          /\ T = U \ ({k} \union {})
      BY <1>2, <1>5, <1>7 DEF Parted
    <2>2. "pty" \in Kinds
      BY DEF Kinds
    <2> QED
      BY <1>11, <2>1, <2>2, LaneMoves
  <1> QED
    BY <1>10, <1>14, <1>15, OneLane

(* Input that a closed peer does not deliver is lost.                      *)
LEMMA UnreadKeys ==
  ASSUME NEW u \in Transports, NEW p \in KeyQueues, NEW n \in Nat, KeyFits(u, p, n),
         u.up # <<>>, Head(u.up).kind = "input",
         NEW v, Unqueued(u, v, {Head(u.up).key})
  PROVE  KeyFits(v, p, n)
  <1> DEFINE f == Head(u.up) k == Head(u.up).key
  <1>1. PICK s \in Sessions : s = f.session
    <2>1. u.up \in Seq(Frames)
      BY DEF Transports
    <2>2. f \in Frames
      BY <2>1, HeadAndTail
    <2> QED
      BY <2>2 DEF Frames, Frame
  <1> DEFINE H == ToSet(u.held[s]) O == ToSet(u.out[s]) F == ToSet(u.flying[s])
             C == ToSet(u.cloud[s]) D == ToSet(p[s]) U == UpKeys(u.up, s)
             T == UpKeys(Tail(u.up), s)
  <1>2. /\ v.held = u.held /\ v.out = u.out /\ v.flying = u.flying /\ v.cloud = u.cloud
        /\ v.lost = u.lost \union {k} /\ v.exposed = u.exposed /\ v.mode = u.mode
        /\ v.link = u.link /\ v.up = Tail(u.up)
    BY DEF Unqueued
  <1>3. /\ SetsFit(H, O, F, C, D, U, u.exposed, u.mode[s], u.link)
        /\ QueuesFit(u.held[s], u.out[s], u.flying[s], u.cloud[s], p[s], u.exposed)
        /\ UpFits(u.up, u.exposed, s)
    BY DEF KeyFits, LanesFit, LaneFits
  <1>4. Parted(H, O, F, C, D, U)
    BY PartedAt
  <1>5. u.up \in Seq(Frames)
    BY SomeTypes
  <1>6. U = {k} \union T /\ k \notin T /\ UpFits(Tail(u.up), u.exposed, s)
    BY <1>1, <1>3, <1>5, FirstInput
  <1>7. ASSUME NEW r \in Sessions \ {s} PROVE Aside(u, p, v, p, r)
    <2>1. ~IsInput(Head(u.up), r)
      BY <1>1 DEF IsInput
    <2>2. UpSame(u.up, Tail(u.up), r)
      BY <1>5, <2>1, UpTaken
    <2> QED
      BY <1>2, <2>2 DEF Aside
  <1>8. LaneIs(u, p, s, H, O, F, C, D, U) /\ LaneIs(v, p, s, H, O, F, C, D, T)
    BY <1>2 DEF LaneIs
  <1> HIDE DEF H, O, F, C, D, U, T, k
  <1>9. SetsFit(H, O, F, C, D, T, v.exposed, v.mode[s], v.link)
    BY <1>2, <1>3, <1>6 DEF SetsFit
  <1>10. LaneFits(v, p, s)
    BY <1>2, <1>3, <1>6, <1>8, <1>9 DEF LaneFits, LaneIs
  <1>11. MovedAt(u, p, v, p, s, "up", {}, {k})
    <2>1. /\ {} \cap {k} = {}
          /\ {} \union {k} \subseteq H \union O \union F \union C \union D \union U
          /\ H = H \ ({} \union {k}) /\ O = O \ ({} \union {k}) /\ F = F \ ({} \union {k})
          /\ C = C \ ({} \union {k}) /\ D = D \ ({} \union {k}) /\ T = (U \ {k}) \union {}
      BY <1>4, <1>6 DEF Parted
    <2>2. "up" \in Kinds
      BY DEF Kinds
    <2> QED
      BY <1>2, <1>8, <2>1, <2>2, LaneMoves
  <1> QED
    BY <1>7, <1>10, <1>11, OneLane

OldestGone(u, v, s) ==
    /\ v.out = u.out /\ v.flying = u.flying /\ v.cloud = u.cloud
    /\ v.lost = u.lost \union {Head(u.held[s])}
    /\ v.exposed = u.exposed /\ v.mode = u.mode /\ v.link = u.link /\ v.up = u.up
    /\ v.held[s] = Tail(u.held[s]) /\ \A r \in Sessions \ {s} : v.held[r] = u.held[r]

(* When the window of held keys is full, the oldest goes.                   *)
LEMMA OldestGoes ==
  ASSUME NEW u \in Transports, NEW p \in KeyQueues, NEW n \in Nat, KeyFits(u, p, n),
         NEW s \in Sessions, u.held[s] # <<>>, NEW v, OldestGone(u, v, s)
  PROVE  KeyFits(v, p, n)
  <1> DEFINE H == ToSet(u.held[s]) O == ToSet(u.out[s]) F == ToSet(u.flying[s])
             C == ToSet(u.cloud[s]) D == ToSet(p[s]) U == UpKeys(u.up, s)
             k == Head(u.held[s]) T == ToSet(Tail(u.held[s]))
  <1>1. /\ v.out = u.out /\ v.flying = u.flying /\ v.cloud = u.cloud
        /\ v.lost = u.lost \union {k}
        /\ v.exposed = u.exposed /\ v.mode = u.mode /\ v.link = u.link /\ v.up = u.up
        /\ v.held[s] = Tail(u.held[s]) /\ \A r \in Sessions \ {s} : v.held[r] = u.held[r]
    BY DEF OldestGone
  <1>2. /\ SetsFit(H, O, F, C, D, U, u.exposed, u.mode[s], u.link)
        /\ QueuesFit(u.held[s], u.out[s], u.flying[s], u.cloud[s], p[s], u.exposed)
        /\ UpFits(u.up, u.exposed, s)
    BY DEF KeyFits, LanesFit, LaneFits
  <1>3. Parted(H, O, F, C, D, U)
    BY PartedAt
  <1>4. H = {k} \union T /\ k \notin T /\ Ascends(Tail(u.held[s]))
    <2>1. u.held[s] \in Seq(Keys)
      BY SomeTypes
    <2>2. Ascends(u.held[s])
      BY <1>2 DEF QueuesFit
    <2>3. Once(u.held[s])
      BY <2>1, <2>2, AscendsOnce
    <2> QED
      BY <2>1, <2>2, <2>3, TailQueue
  <1>5. ASSUME NEW r \in Sessions \ {s} PROVE Aside(u, p, v, p, r)
    BY <1>1, UpStays DEF Aside
  <1>6. LaneIs(u, p, s, H, O, F, C, D, U) /\ LaneIs(v, p, s, T, O, F, C, D, U)
    BY <1>1 DEF LaneIs
  <1> HIDE DEF H, O, F, C, D, U, T, k
  <1>7. SetsFit(T, O, F, C, D, U, v.exposed, v.mode[s], v.link)
    BY <1>1, <1>2, <1>4 DEF SetsFit
  <1>8. QueuesFit(Tail(u.held[s]), u.out[s], u.flying[s], u.cloud[s], p[s], v.exposed)
    BY <1>1, <1>2, <1>4 DEF QueuesFit
  <1>9. LaneFits(v, p, s)
    BY <1>1, <1>2, <1>6, <1>7, <1>8 DEF LaneFits, LaneIs
  <1>10. MovedAt(u, p, v, p, s, "held", {}, {k})
    <2>1. /\ {} \cap {k} = {}
          /\ {} \union {k} \subseteq H \union O \union F \union C \union D \union U
          /\ T = (H \ {k}) \union {} /\ O = O \ ({} \union {k}) /\ F = F \ ({} \union {k})
          /\ C = C \ ({} \union {k}) /\ D = D \ ({} \union {k}) /\ U = U \ ({} \union {k})
      BY <1>3, <1>4 DEF Parted
    <2>2. "held" \in Kinds
      BY DEF Kinds
    <2> QED
      BY <1>1, <1>6, <2>1, <2>2, LaneMoves
  <1> QED
    BY <1>5, <1>9, <1>10, OneLane

(* A key is in one kind of place of one session.                           *)
LEMMA ApartAll ==
  ASSUME NEW u \in Transports, NEW p \in KeyQueues, NEW n \in Nat, Housed(u, p, n),
         NEW a \in Kinds, NEW b \in Kinds, NEW r \in Sessions, NEW s \in Sessions,
         a # b \/ r # s
  PROVE  Lies(u, p, a, r) \cap Lies(u, p, b, s) = {}
  <1>1. PICK home, owner : HomeIs(u, p, n, home, owner)
    BY DEF Housed
  <1>2. \A k \in Lies(u, p, a, r) : k \in Keys /\ home[k] = a /\ owner[k] = r
    BY <1>1, LiesInKeys DEF HomeIs
  <1>3. \A k \in Lies(u, p, b, s) : k \in Keys /\ home[k] = b /\ owner[k] = s
    BY <1>1, LiesInKeys DEF HomeIs
  <1> QED
    BY <1>2, <1>3

(* All that lies in the kinds K is given up.                               *)
AllOf(u, p, K) == UNION {Lies(u, p, kind, s) : kind \in K, s \in Sessions}
Cleared(u, p, v, K) ==
    /\ v.lost = u.lost \union AllOf(u, p, K)
    /\ \A kind \in Kinds, s \in Sessions :
          Lies(v, p, kind, s) = IF kind \in K THEN {} ELSE Lies(u, p, kind, s)

(* What was in the cleared places is lost, the rest stays housed.          *)
LEMMA ClearedHoused ==
  ASSUME NEW u \in Transports, NEW p \in KeyQueues, NEW v, NEW n \in Nat, Housed(u, p, n),
         NEW K \in SUBSET Kinds, Cleared(u, p, v, K)
  PROVE  Housed(v, p, n)
  <1> DEFINE N == AllOf(u, p, K)
  <1>1. \A k : k \in N <=> \E kind \in K, s \in Sessions : k \in Lies(u, p, kind, s)
    BY DEF AllOf
  <1>2. v.lost = u.lost \union N
    BY DEF Cleared
  <1> HIDE DEF N
  <1>3. \A k \in N : \E kind \in Kinds, s \in Sessions : k \in Lies(u, p, kind, s)
    BY <1>1
  <1>4. ASSUME NEW kind \in Kinds, NEW s \in Sessions
        PROVE  Lies(v, p, kind, s) = Lies(u, p, kind, s) \ N
    <2>1. Lies(v, p, kind, s) = IF kind \in K THEN {} ELSE Lies(u, p, kind, s)
      BY DEF Cleared
    <2>2. CASE kind \in K
      <3>1. \A k \in Lies(u, p, kind, s) : k \in N
        BY <1>1, <2>2
      <3> QED
        BY <2>1, <2>2, <3>1
    <2>3. CASE kind \notin K
      <3>1. ASSUME NEW k \in Lies(u, p, kind, s), k \in N PROVE FALSE
        <4>1. PICK b \in K, r \in Sessions : k \in Lies(u, p, b, r)
          BY <1>1, <3>1
        <4>2. b \in Kinds /\ b # kind
          BY <2>3
        <4>3. Lies(u, p, b, r) \cap Lies(u, p, kind, s) = {}
          BY <4>2, ApartAll
        <4> QED
          BY <3>1, <4>1, <4>3
      <3> QED
        BY <2>1, <2>3, <3>1
    <2> QED
      BY <2>2, <2>3
  <1> QED
    BY <1>2, <1>3, <1>4, GivenUp

(* What is neither sent nor in flight is dropped.                          *)
Dropped(u, v) ==
    /\ v.flying = u.flying /\ v.cloud = u.cloud /\ v.exposed = u.exposed
    /\ v.mode = u.mode /\ v.link = u.link /\ v.up = u.up
    /\ \A s \in Sessions : v.held[s] = <<>> /\ v.out[s] = <<>>
    /\ v.lost = u.lost \union UNION {ToSet(u.held[s]) \union ToSet(u.out[s]) : s \in Sessions}

(* Dropping all that is held and queued keeps the order of the rest.       *)
LEMMA RevokedKeys ==
  ASSUME NEW u \in Transports, NEW p \in KeyQueues, NEW n \in Nat, KeyFits(u, p, n),
         NEW v, Dropped(u, v)
  PROVE  KeyFits(v, p, n)
  <1>1. ASSUME NEW s \in Sessions PROVE LaneFits(v, p, s)
    <2> DEFINE H == ToSet(u.held[s]) O == ToSet(u.out[s]) F == ToSet(u.flying[s])
               C == ToSet(u.cloud[s]) D == ToSet(p[s]) U == UpKeys(u.up, s)
    <2>1. /\ v.flying = u.flying /\ v.cloud = u.cloud /\ v.exposed = u.exposed
          /\ v.mode = u.mode /\ v.link = u.link /\ v.up = u.up
          /\ v.held[s] = <<>> /\ v.out[s] = <<>>
      BY DEF Dropped
    <2>2. /\ SetsFit(H, O, F, C, D, U, u.exposed, u.mode[s], u.link)
          /\ QueuesFit(u.held[s], u.out[s], u.flying[s], u.cloud[s], p[s], u.exposed)
          /\ UpFits(u.up, u.exposed, s)
      BY DEF KeyFits, LanesFit, LaneFits
    <2>3. LaneIs(v, p, s, {}, {}, F, C, D, U)
      BY <2>1, EmptyQueue DEF LaneIs
    <2> HIDE DEF H, O, F, C, D, U
    <2>4. SetsFit({}, {}, F, C, D, U, v.exposed, v.mode[s], v.link)
      BY <2>1, <2>2 DEF SetsFit
    <2>5. QueuesFit(<<>>, <<>>, u.flying[s], u.cloud[s], p[s], v.exposed)
      BY <2>1, <2>2, EmptyQueue DEF QueuesFit
    <2> QED
      BY <2>1, <2>2, <2>3, <2>4, <2>5 DEF LaneFits, LaneIs
  <1>2. Cleared(u, p, v, {"held", "out"})
    <2>1. \A s \in Sessions : /\ Lies(u, p, "held", s) = ToSet(u.held[s])
                              /\ Lies(u, p, "out", s) = ToSet(u.out[s])
                              /\ Lies(v, p, "held", s) = {} /\ Lies(v, p, "out", s) = {}
                              /\ Lies(v, p, "flying", s) = Lies(u, p, "flying", s)
                              /\ Lies(v, p, "cloud", s) = Lies(u, p, "cloud", s)
                              /\ Lies(v, p, "pty", s) = Lies(u, p, "pty", s)
                              /\ Lies(v, p, "up", s) = Lies(u, p, "up", s)
      BY EmptyQueue DEF Lies, Dropped
    <2>2. AllOf(u, p, {"held", "out"})
            = UNION {ToSet(u.held[s]) \union ToSet(u.out[s]) : s \in Sessions}
      BY <2>1 DEF AllOf
    <2>3. v.lost = u.lost \union AllOf(u, p, {"held", "out"})
      BY <2>2 DEF Dropped
    <2>4. \A kind \in Kinds, s \in Sessions : Lies(v, p, kind, s) =
             IF kind \in {"held", "out"} THEN {} ELSE Lies(u, p, kind, s)
      BY <2>1 DEF Kinds
    <2> QED
      BY <2>3, <2>4 DEF Cleared
  <1>3. Housed(v, p, n)
    <2>1. {"held", "out"} \in SUBSET Kinds
      BY DEF Kinds
    <2> QED
      BY <1>2, <2>1, ClearedHoused DEF KeyFits
  <1> QED
    BY <1>1, <1>3 DEF KeyFits, LanesFit

(* What is on its way over the peer is given up.                           *)
Unsent(u, v) ==
    /\ v.held = u.held /\ v.out = u.out /\ v.flying = u.flying /\ v.cloud = u.cloud
    /\ v.exposed = u.exposed /\ v.mode = u.mode /\ v.link = u.link /\ v.up = <<>>
    /\ v.lost = u.lost \union UNION {UpKeys(u.up, s) : s \in Sessions}

(* Giving up what is on its way keeps the order of the rest.               *)
LEMMA UnsentKeys ==
  ASSUME NEW u \in Transports, NEW p \in KeyQueues, NEW n \in Nat, KeyFits(u, p, n),
         NEW v, Unsent(u, v)
  PROVE  KeyFits(v, p, n)
  <1>1. ASSUME NEW s \in Sessions PROVE LaneFits(v, p, s)
    <2> DEFINE H == ToSet(u.held[s]) O == ToSet(u.out[s]) F == ToSet(u.flying[s])
               C == ToSet(u.cloud[s]) D == ToSet(p[s]) U == UpKeys(u.up, s)
    <2>1. /\ v.held = u.held /\ v.out = u.out /\ v.flying = u.flying /\ v.cloud = u.cloud
          /\ v.exposed = u.exposed /\ v.mode = u.mode /\ v.link = u.link /\ v.up = <<>>
      BY DEF Unsent
    <2>2. /\ SetsFit(H, O, F, C, D, U, u.exposed, u.mode[s], u.link)
          /\ QueuesFit(u.held[s], u.out[s], u.flying[s], u.cloud[s], p[s], u.exposed)
      BY DEF KeyFits, LanesFit, LaneFits
    <2>3. UpKeys(<<>>, s) = {} /\ UpAscends(<<>>, u.exposed, s) /\ UpOnce(<<>>, s)
      BY NoFrames
    <2>4. LaneIs(v, p, s, H, O, F, C, D, {}) /\ UpFits(v.up, v.exposed, s)
      BY <2>1, <2>3 DEF LaneIs, UpFits
    <2> HIDE DEF H, O, F, C, D, U
    <2>5. SetsFit(H, O, F, C, D, {}, v.exposed, v.mode[s], v.link)
      BY <2>1, <2>2 DEF SetsFit
    <2> QED
      BY <2>1, <2>2, <2>4, <2>5 DEF LaneFits, LaneIs
  <1>2. Cleared(u, p, v, {"up"})
    <2>1. \A s \in Sessions : /\ Lies(u, p, "up", s) = UpKeys(u.up, s)
                              /\ Lies(v, p, "up", s) = {}
                              /\ Lies(v, p, "held", s) = Lies(u, p, "held", s)
                              /\ Lies(v, p, "out", s) = Lies(u, p, "out", s)
                              /\ Lies(v, p, "flying", s) = Lies(u, p, "flying", s)
                              /\ Lies(v, p, "cloud", s) = Lies(u, p, "cloud", s)
                              /\ Lies(v, p, "pty", s) = Lies(u, p, "pty", s)
      BY NoFrames DEF Lies, Unsent
    <2>2. AllOf(u, p, {"up"}) = UNION {UpKeys(u.up, s) : s \in Sessions}
      BY <2>1 DEF AllOf
    <2>3. v.lost = u.lost \union AllOf(u, p, {"up"})
      BY <2>2 DEF Unsent
    <2>4. \A kind \in Kinds, s \in Sessions : Lies(v, p, kind, s) =
             IF kind \in {"up"} THEN {} ELSE Lies(u, p, kind, s)
      BY <2>1 DEF Kinds
    <2> QED
      BY <2>3, <2>4 DEF Cleared
  <1>3. Housed(v, p, n)
    <2>1. {"up"} \in SUBSET Kinds
      BY DEF Kinds
    <2> QED
      BY <1>2, <2>1, ClearedHoused DEF KeyFits
  <1> QED
    BY <1>1, <1>3 DEF KeyFits, LanesFit

(* The keys on their way are those of the sessions.                        *)
LEMMA KeysOfAll ==
  ASSUME NEW up \in Seq(Frames)
  PROVE  KeysOf(up) = UNION {UpKeys(up, s) : s \in Sessions}
  <1>1. \A i \in DOMAIN up : up[i] \in Frames
    OBVIOUS
  <1>2. \A f \in Frames : f.kind = "input" => f.session \in Sessions
    BY DEF Frames, Frame
  <1>3. ASSUME NEW k
        PROVE  k \in KeysOf(up) <=> \E i \in DOMAIN up : up[i].kind = "input" /\ up[i].key = k
    BY DEF KeysOf, ToSet
  <1>4. ASSUME NEW k
        PROVE  k \in UNION {UpKeys(up, s) : s \in Sessions} <=>
                 \E i \in DOMAIN up : up[i].kind = "input" /\ up[i].key = k
    <2>1. ASSUME NEW s \in Sessions
          PROVE  k \in UpKeys(up, s) <=>
                   \E i \in DOMAIN up : IsInput(up[i], s) /\ up[i].key = k
      BY DEF UpKeys
    <2>2. k \in UNION {UpKeys(up, s) : s \in Sessions} <=>
            \E s \in Sessions : \E i \in DOMAIN up : IsInput(up[i], s) /\ up[i].key = k
      BY <2>1
    <2> QED
      BY <1>1, <1>2, <2>2 DEF IsInput
  <1> QED
    BY <1>3, <1>4


-----------------------------------------------------------------------------
(* Loops: what holds before the first turn and is kept by every turn holds *)
(* of the sessions done, and in the end of all.                            *)

(* What holds of 0 and passes from each number to the next, up to n, holds *)
(* of all of them.                                                         *)
LEMMA Upwards ==
  ASSUME NEW n \in Nat, NEW Good, 0 \in Good,
         \A m \in 0 .. n - 1 : m \in Good => m + 1 \in Good
  PROVE  \A m \in 0 .. n : m \in Good
  <1> DEFINE Bad == {m \in 0 .. n : m \notin Good}
  <1> SUFFICES ASSUME Bad # {} PROVE FALSE
    OBVIOUS
  <1>1. Bad \in SUBSET Nat
    OBVIOUS
  <1>2. PICK m \in Bad : \A k \in Bad : m <= k
    BY <1>1, LeastNatural
  <1>3. m \in 0 .. n /\ m \notin Good
    OBVIOUS
  <1>4. m - 1 \in 0 .. n - 1 /\ m - 1 \notin Bad
    BY <1>2, <1>3
  <1>5. m - 1 \in Good
    BY <1>4
  <1> QED
    BY <1>3, <1>4, <1>5

(* The states of a loop of n turns from u, when G[<<w, k>>] is what turn k *)
(* makes of w.                                                             *)
Course(a, G, u, n) == a = [k \in 0 .. n |-> IF k = 0 THEN u ELSE G[<<a[k - 1], k>>]]

(* Every loop has a course, however many turns it takes.                   *)
LEMMA CourseExists ==
  ASSUME NEW n \in Nat, NEW G, NEW u
  PROVE  \E a : Course(a, G, u, n)
  <1> DEFINE Runs == {m \in Nat : \E a : Course(a, G, u, m)}
  <1>1. 0 \in Runs
    <2> DEFINE a == [k \in 0 .. 0 |-> u]
    <2>1. Course(a, G, u, 0)
      BY DEF Course
    <2> QED
      BY <2>1
  <1>2. ASSUME NEW m \in 0 .. n - 1, m \in Runs PROVE m + 1 \in Runs
    <2>1. PICK a : Course(a, G, u, m)
      BY <1>2
    <2> DEFINE b == [k \in 0 .. m + 1 |-> IF k = m + 1 THEN G[<<a[m], m + 1>>] ELSE a[k]]
    <2>2. m \in Nat /\ DOMAIN a = 0 .. m
      BY <2>1 DEF Course
    <2>3. ASSUME NEW k \in 0 .. m + 1
          PROVE  b[k] = IF k = 0 THEN u ELSE G[<<b[k - 1], k>>]
      <3>1. CASE k = m + 1
        <4>1. b[k - 1] = a[m] /\ k # 0
          BY <2>2, <3>1
        <4> QED
          BY <3>1, <4>1
      <3>2. CASE k = 0
        BY <2>1, <2>2, <3>2 DEF Course
      <3>3. CASE k # m + 1 /\ k # 0
        <4>1. k \in 0 .. m /\ k - 1 \in 0 .. m /\ b[k - 1] = a[k - 1] /\ b[k] = a[k]
          BY <2>2, <3>3
        <4> QED
          BY <2>1, <3>3, <4>1 DEF Course
      <3> QED
        BY <3>1, <3>2, <3>3
    <2>4. b = [k \in 0 .. m + 1 |-> IF k = 0 THEN u ELSE G[<<b[k - 1], k>>]]
      BY <2>3
    <2> HIDE DEF b
    <2>5. Course(b, G, u, m + 1)
      BY <2>4 DEF Course
    <2> QED
      BY <2>2, <2>5
  <1> HIDE DEF Runs
  <1>3. n \in Runs
    BY <1>1, <1>2, Upwards
  <1> QED
    BY <1>3 DEF Runs


(* A course starts at u and takes one turn after another.                  *)
LEMMA CourseRuns ==
  ASSUME NEW n \in Nat, NEW G, NEW u, NEW a, Course(a, G, u, n)
  PROVE  /\ a = [k \in 0 .. n |-> a[k]] /\ a[0] = u
         /\ \A m \in 0 .. n - 1 : a[m + 1] = G[<<a[m], m + 1>>]
  BY DEF Course

(* The sessions whose turn has come after k turns.                         *)
Served(S, k) == {SetToSeq(S)[i] : i \in 1 .. k}

(* Each turn of a loop over S adds a session to those served: none before  *)
(* the first, all after the last.                                          *)
LEMMA TurnByTurn ==
  ASSUME NEW S \in SUBSET Sessions
  PROVE  /\ Len(SetToSeq(S)) \in Nat
         /\ Served(S, 0) = {} /\ Served(S, Len(SetToSeq(S))) = S
         /\ \A m \in 0 .. Len(SetToSeq(S)) - 1 :
              /\ Served(S, m) \in SUBSET S
              /\ SetToSeq(S)[m + 1] \in S \ Served(S, m)
              /\ Served(S, m + 1) = Served(S, m) \union {SetToSeq(S)[m + 1]}
  <1> DEFINE turn == SetToSeq(S) n == Len(turn)
  <1>1. /\ n \in Nat /\ turn \in [1 .. n -> S]
        /\ \A s \in S : \E i \in 1 .. n : turn[i] = s
        /\ \A i, j \in 1 .. n : turn[i] = turn[j] => i = j
    BY TurnsAll
  <1> HIDE DEF turn, n
  <1>2. \A k : Served(S, k) = {turn[i] : i \in 1 .. k}
    BY DEF Served, turn
  <1>3. Served(S, 0) = {} /\ Served(S, n) = S
    <2>1. 1 .. 0 = {}
      OBVIOUS
    <2>2. {turn[i] : i \in 1 .. n} = S
      BY <1>1
    <2> QED
      BY <1>2, <2>1, <2>2
  <1>4. ASSUME NEW m \in 0 .. n - 1
        PROVE  /\ Served(S, m) \in SUBSET S
               /\ turn[m + 1] \in S \ Served(S, m)
               /\ Served(S, m + 1) = Served(S, m) \union {turn[m + 1]}
    <2>1. m \in Nat /\ 1 .. m \subseteq 1 .. n /\ m + 1 \in 1 .. n /\ m + 1 \notin 1 .. m
          /\ 1 .. m + 1 = (1 .. m) \union {m + 1}
      BY <1>1
    <2> QED
      BY <1>1, <1>2, <2>1
  <1> QED
    BY <1>1, <1>3, <1>4 DEF turn, n

(* What a loop keeps from turn to turn it has kept at its end: Good[D] are *)
(* the states it may be in when the sessions of D have had their turn.     *)
LEMMA KeptTurnByTurn ==
  ASSUME NEW S \in SUBSET Sessions, NEW Good, NEW b, b[0] \in Good[{}],
         \A m \in 0 .. Len(SetToSeq(S)) - 1 :
            b[m] \in Good[Served(S, m)] =>
               b[m + 1] \in Good[Served(S, m) \union {SetToSeq(S)[m + 1]}]
  PROVE  \A m \in 0 .. Len(SetToSeq(S)) : b[m] \in Good[Served(S, m)]
  <1> DEFINE n == Len(SetToSeq(S))
             Kept == {k \in 0 .. n : b[k] \in Good[Served(S, k)]}
  <1>1. /\ n \in Nat /\ Served(S, 0) = {}
        /\ \A m \in 0 .. n - 1 : Served(S, m + 1) = Served(S, m) \union {SetToSeq(S)[m + 1]}
    BY TurnByTurn
  <1> HIDE DEF n
  <1>2. 0 \in 0 .. n /\ \A m \in 0 .. n - 1 : m + 1 \in 0 .. n
    BY <1>1
  <1>3. 0 \in Kept
    BY <1>1, <1>2
  <1>4. ASSUME NEW m \in 0 .. n - 1, m \in Kept PROVE m + 1 \in Kept
    <2>1. b[m + 1] \in Good[Served(S, m) \union {SetToSeq(S)[m + 1]}]
      BY <1>4 DEF n
    <2> QED
      BY <1>1, <1>2, <2>1
  <1>5. \A m \in 0 .. n : m \in Kept
    <2> HIDE DEF Kept
    <2> QED
      BY <1>1, <1>3, <1>4, Upwards
  <1> QED
    BY <1>5 DEF n


(* A loop of GoDirect keeps what every turn keeps.                         *)
LEMMA EachGoDirect ==
  ASSUME NEW S \in SUBSET Sessions, NEW Good, NEW u \in Good[{}],
         \A D \in SUBSET S : \A s \in S \ D : \A w \in Good[D] :
            GoDirect(w, s) \in Good[D \union {s}]
  PROVE  Each(GoDirect, u, S) \in Good[S]
  <1> DEFINE turn == SetToSeq(S) n == Len(turn)
             Turns(b) == b = [k \in 0 .. n |-> IF k = 0 THEN u ELSE GoDirect(b[k - 1], turn[k])]
             X == UNION {Good[D] : D \in SUBSET S}
             G == [w \in X \X (1 .. n) |-> GoDirect(w[1], turn[w[2]])]
  <1>1. /\ n \in Nat /\ Served(S, n) = S
        /\ \A m \in 0 .. n - 1 : Served(S, m) \in SUBSET S /\ turn[m + 1] \in S \ Served(S, m)
    BY TurnByTurn
  <1>2. \A m \in 0 .. n - 1 : \A w \in Good[Served(S, m)] :
           GoDirect(w, turn[m + 1]) \in Good[Served(S, m) \union {turn[m + 1]}]
    BY <1>1
  <1>3. \A m \in 0 .. n - 1 : \A w \in Good[Served(S, m)] :
           G[<<w, m + 1>>] = GoDirect(w, turn[m + 1])
    <2> SUFFICES ASSUME NEW m \in 0 .. n - 1, NEW w \in Good[Served(S, m)]
                 PROVE  <<w, m + 1>> \in X \X (1 .. n)
      OBVIOUS
    <2> HIDE DEF n
    <2> QED
      BY <1>1
  <1> HIDE DEF X, G
  <1>4. PICK a : Course(a, G, u, n)
    BY <1>1, CourseExists
  <1>5. /\ a = [k \in 0 .. n |-> a[k]] /\ a[0] = u
        /\ \A m \in 0 .. n - 1 : a[m + 1] = G[<<a[m], m + 1>>]
    BY <1>1, <1>4, CourseRuns
  <1>6. \A m \in 0 .. n : a[m] \in Good[Served(S, m)]
    <2>1. ASSUME NEW m \in 0 .. n - 1, a[m] \in Good[Served(S, m)]
          PROVE  a[m + 1] \in Good[Served(S, m) \union {turn[m + 1]}]
      <3>1. GoDirect(a[m], turn[m + 1]) \in Good[Served(S, m) \union {turn[m + 1]}]
        BY <1>2, <2>1
      <3>2. a[m + 1] = GoDirect(a[m], turn[m + 1])
        BY <1>3, <1>5, <2>1
      <3> QED
        BY <3>1, <3>2
    <2> QED
      BY <1>5, <2>1, KeptTurnByTurn
  <1>7. \A m \in 0 .. n - 1 : a[m + 1] = GoDirect(a[m], turn[m + 1])
    <2> SUFFICES ASSUME NEW m \in 0 .. n - 1 PROVE m \in 0 .. n
      BY <1>3, <1>5, <1>6
    <2> QED
      BY <1>1
  <1> HIDE DEF turn, n
  <1>8. Turns(a)
    <2>1. ASSUME NEW k \in 0 .. n
          PROVE  a[k] = IF k = 0 THEN u ELSE GoDirect(a[k - 1], turn[k])
      <3>1. CASE k = 0
        BY <1>5, <3>1
      <3>2. CASE k # 0
        <4>1. k - 1 \in 0 .. n - 1 /\ (k - 1) + 1 = k
          BY <1>1, <3>2
        <4> QED
          BY <1>7, <3>2, <4>1
      <3> QED
        BY <3>1, <3>2
    <2> QED
      BY <1>5, <2>1
  <1> DEFINE b == CHOOSE c : Turns(c)
  <1>9. Turns(b)
    BY <1>8
  <1>10. Each(GoDirect, u, S) = b[n]
    BY DEF Each, turn, n
  <1> HIDE DEF b
  <1>11. b[0] = u /\ \A m \in 0 .. n - 1 : b[m + 1] = GoDirect(b[m], turn[m + 1])
    BY <1>1, <1>9
  <1>12. \A m \in 0 .. n : b[m] \in Good[Served(S, m)]
    <2>1. \A m \in 0 .. n - 1 : b[m] \in Good[Served(S, m)] =>
             b[m + 1] \in Good[Served(S, m) \union {turn[m + 1]}]
      BY <1>2, <1>11
    <2> QED
      BY <1>11, <2>1, KeptTurnByTurn DEF turn, n
  <1>13. b[n] \in Good[Served(S, n)]
    BY <1>1, <1>12
  <1> QED
    BY <1>1, <1>10, <1>13

(* A loop of AttachOver keeps what every turn keeps.                       *)
LEMMA EachAttachOver ==
  ASSUME NEW S \in SUBSET Sessions, NEW Good, NEW u \in Good[{}],
         \A D \in SUBSET S : \A s \in S \ D : \A w \in Good[D] :
            AttachOver(w, s) \in Good[D \union {s}]
  PROVE  Each(AttachOver, u, S) \in Good[S]
  <1> DEFINE turn == SetToSeq(S) n == Len(turn)
             Turns(b) == b = [k \in 0 .. n |-> IF k = 0 THEN u ELSE AttachOver(b[k - 1], turn[k])]
             X == UNION {Good[D] : D \in SUBSET S}
             G == [w \in X \X (1 .. n) |-> AttachOver(w[1], turn[w[2]])]
  <1>1. /\ n \in Nat /\ Served(S, n) = S
        /\ \A m \in 0 .. n - 1 : Served(S, m) \in SUBSET S /\ turn[m + 1] \in S \ Served(S, m)
    BY TurnByTurn
  <1>2. \A m \in 0 .. n - 1 : \A w \in Good[Served(S, m)] :
           AttachOver(w, turn[m + 1]) \in Good[Served(S, m) \union {turn[m + 1]}]
    BY <1>1
  <1>3. \A m \in 0 .. n - 1 : \A w \in Good[Served(S, m)] :
           G[<<w, m + 1>>] = AttachOver(w, turn[m + 1])
    <2> SUFFICES ASSUME NEW m \in 0 .. n - 1, NEW w \in Good[Served(S, m)]
                 PROVE  <<w, m + 1>> \in X \X (1 .. n)
      OBVIOUS
    <2> HIDE DEF n
    <2> QED
      BY <1>1
  <1> HIDE DEF X, G
  <1>4. PICK a : Course(a, G, u, n)
    BY <1>1, CourseExists
  <1>5. /\ a = [k \in 0 .. n |-> a[k]] /\ a[0] = u
        /\ \A m \in 0 .. n - 1 : a[m + 1] = G[<<a[m], m + 1>>]
    BY <1>1, <1>4, CourseRuns
  <1>6. \A m \in 0 .. n : a[m] \in Good[Served(S, m)]
    <2>1. ASSUME NEW m \in 0 .. n - 1, a[m] \in Good[Served(S, m)]
          PROVE  a[m + 1] \in Good[Served(S, m) \union {turn[m + 1]}]
      <3>1. AttachOver(a[m], turn[m + 1]) \in Good[Served(S, m) \union {turn[m + 1]}]
        BY <1>2, <2>1
      <3>2. a[m + 1] = AttachOver(a[m], turn[m + 1])
        BY <1>3, <1>5, <2>1
      <3> QED
        BY <3>1, <3>2
    <2> QED
      BY <1>5, <2>1, KeptTurnByTurn
  <1>7. \A m \in 0 .. n - 1 : a[m + 1] = AttachOver(a[m], turn[m + 1])
    <2> SUFFICES ASSUME NEW m \in 0 .. n - 1 PROVE m \in 0 .. n
      BY <1>3, <1>5, <1>6
    <2> QED
      BY <1>1
  <1> HIDE DEF turn, n
  <1>8. Turns(a)
    <2>1. ASSUME NEW k \in 0 .. n
          PROVE  a[k] = IF k = 0 THEN u ELSE AttachOver(a[k - 1], turn[k])
      <3>1. CASE k = 0
        BY <1>5, <3>1
      <3>2. CASE k # 0
        <4>1. k - 1 \in 0 .. n - 1 /\ (k - 1) + 1 = k
          BY <1>1, <3>2
        <4> QED
          BY <1>7, <3>2, <4>1
      <3> QED
        BY <3>1, <3>2
    <2> QED
      BY <1>5, <2>1
  <1> DEFINE b == CHOOSE c : Turns(c)
  <1>9. Turns(b)
    BY <1>8
  <1>10. Each(AttachOver, u, S) = b[n]
    BY DEF Each, turn, n
  <1> HIDE DEF b
  <1>11. b[0] = u /\ \A m \in 0 .. n - 1 : b[m + 1] = AttachOver(b[m], turn[m + 1])
    BY <1>1, <1>9
  <1>12. \A m \in 0 .. n : b[m] \in Good[Served(S, m)]
    <2>1. \A m \in 0 .. n - 1 : b[m] \in Good[Served(S, m)] =>
             b[m + 1] \in Good[Served(S, m) \union {turn[m + 1]}]
      BY <1>2, <1>11
    <2> QED
      BY <1>11, <2>1, KeptTurnByTurn DEF turn, n
  <1>13. b[n] \in Good[Served(S, n)]
    BY <1>1, <1>12
  <1> QED
    BY <1>1, <1>10, <1>13

(* A loop of GoCentrifugo keeps what every turn keeps.                     *)
LEMMA EachGoCentrifugo ==
  ASSUME NEW S \in SUBSET Sessions, NEW Good, NEW u \in Good[{}],
         \A D \in SUBSET S : \A s \in S \ D : \A w \in Good[D] :
            GoCentrifugo(w, s) \in Good[D \union {s}]
  PROVE  Each(GoCentrifugo, u, S) \in Good[S]
  <1> DEFINE turn == SetToSeq(S) n == Len(turn)
             Turns(b) == b = [k \in 0 .. n |-> IF k = 0 THEN u ELSE GoCentrifugo(b[k - 1], turn[k])]
             X == UNION {Good[D] : D \in SUBSET S}
             G == [w \in X \X (1 .. n) |-> GoCentrifugo(w[1], turn[w[2]])]
  <1>1. /\ n \in Nat /\ Served(S, n) = S
        /\ \A m \in 0 .. n - 1 : Served(S, m) \in SUBSET S /\ turn[m + 1] \in S \ Served(S, m)
    BY TurnByTurn
  <1>2. \A m \in 0 .. n - 1 : \A w \in Good[Served(S, m)] :
           GoCentrifugo(w, turn[m + 1]) \in Good[Served(S, m) \union {turn[m + 1]}]
    BY <1>1
  <1>3. \A m \in 0 .. n - 1 : \A w \in Good[Served(S, m)] :
           G[<<w, m + 1>>] = GoCentrifugo(w, turn[m + 1])
    <2> SUFFICES ASSUME NEW m \in 0 .. n - 1, NEW w \in Good[Served(S, m)]
                 PROVE  <<w, m + 1>> \in X \X (1 .. n)
      OBVIOUS
    <2> HIDE DEF n
    <2> QED
      BY <1>1
  <1> HIDE DEF X, G
  <1>4. PICK a : Course(a, G, u, n)
    BY <1>1, CourseExists
  <1>5. /\ a = [k \in 0 .. n |-> a[k]] /\ a[0] = u
        /\ \A m \in 0 .. n - 1 : a[m + 1] = G[<<a[m], m + 1>>]
    BY <1>1, <1>4, CourseRuns
  <1>6. \A m \in 0 .. n : a[m] \in Good[Served(S, m)]
    <2>1. ASSUME NEW m \in 0 .. n - 1, a[m] \in Good[Served(S, m)]
          PROVE  a[m + 1] \in Good[Served(S, m) \union {turn[m + 1]}]
      <3>1. GoCentrifugo(a[m], turn[m + 1]) \in Good[Served(S, m) \union {turn[m + 1]}]
        BY <1>2, <2>1
      <3>2. a[m + 1] = GoCentrifugo(a[m], turn[m + 1])
        BY <1>3, <1>5, <2>1
      <3> QED
        BY <3>1, <3>2
    <2> QED
      BY <1>5, <2>1, KeptTurnByTurn
  <1>7. \A m \in 0 .. n - 1 : a[m + 1] = GoCentrifugo(a[m], turn[m + 1])
    <2> SUFFICES ASSUME NEW m \in 0 .. n - 1 PROVE m \in 0 .. n
      BY <1>3, <1>5, <1>6
    <2> QED
      BY <1>1
  <1> HIDE DEF turn, n
  <1>8. Turns(a)
    <2>1. ASSUME NEW k \in 0 .. n
          PROVE  a[k] = IF k = 0 THEN u ELSE GoCentrifugo(a[k - 1], turn[k])
      <3>1. CASE k = 0
        BY <1>5, <3>1
      <3>2. CASE k # 0
        <4>1. k - 1 \in 0 .. n - 1 /\ (k - 1) + 1 = k
          BY <1>1, <3>2
        <4> QED
          BY <1>7, <3>2, <4>1
      <3> QED
        BY <3>1, <3>2
    <2> QED
      BY <1>5, <2>1
  <1> DEFINE b == CHOOSE c : Turns(c)
  <1>9. Turns(b)
    BY <1>8
  <1>10. Each(GoCentrifugo, u, S) = b[n]
    BY DEF Each, turn, n
  <1> HIDE DEF b
  <1>11. b[0] = u /\ \A m \in 0 .. n - 1 : b[m + 1] = GoCentrifugo(b[m], turn[m + 1])
    BY <1>1, <1>9
  <1>12. \A m \in 0 .. n : b[m] \in Good[Served(S, m)]
    <2>1. \A m \in 0 .. n - 1 : b[m] \in Good[Served(S, m)] =>
             b[m + 1] \in Good[Served(S, m) \union {turn[m + 1]}]
      BY <1>2, <1>11
    <2> QED
      BY <1>11, <2>1, KeptTurnByTurn DEF turn, n
  <1>13. b[n] \in Good[Served(S, n)]
    BY <1>1, <1>12
  <1> QED
    BY <1>1, <1>10, <1>13

(* A loop of TeardownSession keeps what every turn keeps.                  *)
LEMMA EachTeardownSession ==
  ASSUME NEW S \in SUBSET Sessions, NEW Good, NEW u \in Good[{}],
         \A D \in SUBSET S : \A s \in S \ D : \A w \in Good[D] :
            TeardownSession(w, s) \in Good[D \union {s}]
  PROVE  Each(TeardownSession, u, S) \in Good[S]
  <1> DEFINE turn == SetToSeq(S) n == Len(turn)
             Turns(b) == b = [k \in 0 .. n |-> IF k = 0 THEN u ELSE TeardownSession(b[k - 1], turn[k])]
             X == UNION {Good[D] : D \in SUBSET S}
             G == [w \in X \X (1 .. n) |-> TeardownSession(w[1], turn[w[2]])]
  <1>1. /\ n \in Nat /\ Served(S, n) = S
        /\ \A m \in 0 .. n - 1 : Served(S, m) \in SUBSET S /\ turn[m + 1] \in S \ Served(S, m)
    BY TurnByTurn
  <1>2. \A m \in 0 .. n - 1 : \A w \in Good[Served(S, m)] :
           TeardownSession(w, turn[m + 1]) \in Good[Served(S, m) \union {turn[m + 1]}]
    BY <1>1
  <1>3. \A m \in 0 .. n - 1 : \A w \in Good[Served(S, m)] :
           G[<<w, m + 1>>] = TeardownSession(w, turn[m + 1])
    <2> SUFFICES ASSUME NEW m \in 0 .. n - 1, NEW w \in Good[Served(S, m)]
                 PROVE  <<w, m + 1>> \in X \X (1 .. n)
      OBVIOUS
    <2> HIDE DEF n
    <2> QED
      BY <1>1
  <1> HIDE DEF X, G
  <1>4. PICK a : Course(a, G, u, n)
    BY <1>1, CourseExists
  <1>5. /\ a = [k \in 0 .. n |-> a[k]] /\ a[0] = u
        /\ \A m \in 0 .. n - 1 : a[m + 1] = G[<<a[m], m + 1>>]
    BY <1>1, <1>4, CourseRuns
  <1>6. \A m \in 0 .. n : a[m] \in Good[Served(S, m)]
    <2>1. ASSUME NEW m \in 0 .. n - 1, a[m] \in Good[Served(S, m)]
          PROVE  a[m + 1] \in Good[Served(S, m) \union {turn[m + 1]}]
      <3>1. TeardownSession(a[m], turn[m + 1]) \in Good[Served(S, m) \union {turn[m + 1]}]
        BY <1>2, <2>1
      <3>2. a[m + 1] = TeardownSession(a[m], turn[m + 1])
        BY <1>3, <1>5, <2>1
      <3> QED
        BY <3>1, <3>2
    <2> QED
      BY <1>5, <2>1, KeptTurnByTurn
  <1>7. \A m \in 0 .. n - 1 : a[m + 1] = TeardownSession(a[m], turn[m + 1])
    <2> SUFFICES ASSUME NEW m \in 0 .. n - 1 PROVE m \in 0 .. n
      BY <1>3, <1>5, <1>6
    <2> QED
      BY <1>1
  <1> HIDE DEF turn, n
  <1>8. Turns(a)
    <2>1. ASSUME NEW k \in 0 .. n
          PROVE  a[k] = IF k = 0 THEN u ELSE TeardownSession(a[k - 1], turn[k])
      <3>1. CASE k = 0
        BY <1>5, <3>1
      <3>2. CASE k # 0
        <4>1. k - 1 \in 0 .. n - 1 /\ (k - 1) + 1 = k
          BY <1>1, <3>2
        <4> QED
          BY <1>7, <3>2, <4>1
      <3> QED
        BY <3>1, <3>2
    <2> QED
      BY <1>5, <2>1
  <1> DEFINE b == CHOOSE c : Turns(c)
  <1>9. Turns(b)
    BY <1>8
  <1>10. Each(TeardownSession, u, S) = b[n]
    BY DEF Each, turn, n
  <1> HIDE DEF b
  <1>11. b[0] = u /\ \A m \in 0 .. n - 1 : b[m + 1] = TeardownSession(b[m], turn[m + 1])
    BY <1>1, <1>9
  <1>12. \A m \in 0 .. n : b[m] \in Good[Served(S, m)]
    <2>1. \A m \in 0 .. n - 1 : b[m] \in Good[Served(S, m)] =>
             b[m + 1] \in Good[Served(S, m) \union {turn[m + 1]}]
      BY <1>2, <1>11
    <2> QED
      BY <1>11, <2>1, KeptTurnByTurn DEF turn, n
  <1>13. b[n] \in Good[Served(S, n)]
    BY <1>1, <1>12
  <1> QED
    BY <1>1, <1>10, <1>13


-----------------------------------------------------------------------------
(* What the loops do to the paths, when the sessions of D have had their   *)
(* turn.                                                                   *)

DirectOver(u, v, A, D) ==
    /\ v \in Transports
    /\ v.mode = [r \in Sessions |-> IF r \in D THEN "direct" ELSE u.mode[r]]
    /\ v.sub = u.sub /\ v.switching = u.switching /\ v.switched = u.switched
    /\ v.stranded = u.stranded /\ v.status = u.status /\ v.link = u.link
    /\ v.served = u.served \union D /\ SameLoop(u, v) /\ v.cmds = u.cmds
    /\ \A r \in Sessions : Reaches(v.up, A, r) <=> r \in D \/ Reaches(u.up, A, r)

(* One turn of the loop that takes sessions to the peer.                   *)
LEMMA DirectTurn ==
  ASSUME NEW u \in Transports, u.link # "none", NEW A, NEW D \in SUBSET Sessions,
         NEW s \in Sessions \ D, NEW w, DirectOver(u, w, A, D),
         NEW v, v = GoDirect(w, s)
  PROVE  DirectOver(u, v, A, D \union {s})
  <1> DEFINE a == w.up \o <<Frame("attach", s, 0)>>
  <1>1. w \in Transports /\ w.link # "none" /\ s \in Sessions
    BY DEF DirectOver
  <1>2. WentDirect(w, v, s)
    BY <1>1, GoDirectIs
  <1>3. \A r \in Sessions : Reaches(v.up, A, r) <=> r \in D \union {s} \/ Reaches(u.up, A, r)
    <2>1. w.up \in Seq(Frames) /\ w.held[s] \in Seq(Keys) /\ a \in Seq(Frames)
      BY <1>1, SomeTypes, FramesTyped
    <2>2. ASSUME NEW r \in Sessions PROVE Reaches(a, A, r) <=> r = s \/ Reaches(w.up, A, r)
      BY <2>1, ReachesMore
    <2> HIDE DEF a
    <2>3. ASSUME NEW r \in Sessions PROVE Reaches(v.up, A, r) <=> Reaches(a, A, r)
      <3>1. Reaches(a \o KeyFrames(s, w.held[s]), A, r) <=> Reaches(a, A, r)
        BY <1>1, <2>1, KeysAsFrames
      <3> QED
        BY <1>2, <3>1 DEF WentDirect, a
    <2> QED
      BY <2>2, <2>3 DEF DirectOver
  <1> HIDE DEF a
  <1>4. v.mode = [r \in Sessions |-> IF r \in D \union {s} THEN "direct" ELSE u.mode[r]]
    BY <1>2 DEF DirectOver, WentDirect, Transports
  <1> QED
    BY <1>2, <1>3, <1>4 DEF DirectOver, WentDirect, SameLoop

(* The whole loop that takes sessions to the peer.                         *)
LEMMA DirectLoop ==
  ASSUME NEW u \in Transports, u.link # "none", NEW A, NEW S \in SUBSET Sessions
  PROVE  DirectOver(u, Each(GoDirect, u, S), A, S)
  <1> DEFINE Good == [D \in SUBSET S |-> {v \in Transports : DirectOver(u, v, A, D)}]
  <1>1. u \in Good[{}]
    <2>1. u.mode = [r \in Sessions |-> IF r \in {} THEN "direct" ELSE u.mode[r]]
      BY DEF Transports
    <2> QED
      BY <2>1 DEF DirectOver, SameLoop
  <1>2. ASSUME NEW D \in SUBSET S, NEW s \in S \ D, NEW w \in Good[D]
        PROVE  GoDirect(w, s) \in Good[D \union {s}]
    <2>1. DirectOver(u, GoDirect(w, s), A, D \union {s})
      BY DirectTurn
    <2> QED
      BY <2>1 DEF DirectOver
  <1> HIDE DEF Good
  <1>3. Each(GoDirect, u, S) \in Good[S]
    BY <1>1, <1>2, EachGoDirect
  <1> QED
    BY <1>3 DEF Good

AttachedOver(u, v, A, D) ==
    /\ v \in Transports
    /\ SamePaths(u, v) /\ SameLoop(u, v) /\ SameKeys(u, v) /\ v.cmds = u.cmds
    /\ v.status = u.status /\ v.link = u.link
    /\ v.served = u.served \union D
    /\ \A r \in Sessions : Reaches(v.up, A, r) <=> r \in D \/ Reaches(u.up, A, r)

(* One turn of the loop that asks for sessions over the peer.              *)
LEMMA AttachedTurn ==
  ASSUME NEW u \in Transports, u.link # "none", NEW A, NEW D \in SUBSET Sessions,
         NEW s \in Sessions \ D, NEW w, AttachedOver(u, w, A, D)
  PROVE  AttachedOver(u, AttachOver(w, s), A, D \union {s})
  <1> DEFINE v == AttachOver(w, s)
  <1>1. w \in Transports /\ w.link # "none"
    BY DEF AttachedOver
  <1>2. /\ v \in Transports
        /\ SamePaths(w, v) /\ SameLoop(w, v) /\ SameKeys(w, v) /\ v.cmds = w.cmds
        /\ v.status = w.status /\ v.link = w.link
        /\ v.served = w.served \union {s}
        /\ v.up = w.up \o <<Frame("attach", s, 0)>>
    BY <1>1, AttachOverIs
  <1> HIDE DEF v
  <1>3. ASSUME NEW r \in Sessions PROVE Reaches(v.up, A, r) <=> r = s \/ Reaches(w.up, A, r)
    BY <1>1, <1>2, SomeTypes, ReachesMore
  <1>4. AttachedOver(u, v, A, D \union {s})
    BY <1>2, <1>3 DEF AttachedOver, SamePaths, SameLoop, SameKeys
  <1> QED
    BY <1>4 DEF v

(* The whole loop that asks for sessions over the peer.                    *)
LEMMA AttachedLoop ==
  ASSUME NEW u \in Transports, u.link # "none", NEW A, NEW S \in SUBSET Sessions
  PROVE  AttachedOver(u, Each(AttachOver, u, S), A, S)
  <1> DEFINE Good == [D \in SUBSET S |-> {v \in Transports : AttachedOver(u, v, A, D)}]
  <1>1. u \in Good[{}]
    BY DEF AttachedOver, SamePaths, SameLoop, SameKeys
  <1>2. ASSUME NEW D \in SUBSET S, NEW s \in S \ D, NEW w \in Good[D]
        PROVE  AttachOver(w, s) \in Good[D \union {s}]
    <2>1. AttachedOver(u, AttachOver(w, s), A, D \union {s})
      BY AttachedTurn
    <2> QED
      BY <2>1 DEF AttachedOver
  <1> HIDE DEF Good
  <1>3. Each(AttachOver, u, S) \in Good[S]
    BY <1>1, <1>2, EachAttachOver
  <1> QED
    BY <1>3 DEF Good

FallenBack(u, v, D) ==
    /\ v \in Transports
    /\ v.mode = [r \in Sessions |-> IF r \notin D THEN u.mode[r]
                                    ELSE IF localOnly THEN "connecting" ELSE "cloud"]
    /\ v.sub = [r \in Sessions |-> IF r \in D /\ ~localOnly /\ u.mode[r] # "cloud"
                                   THEN "subscribing" ELSE u.sub[r]]
    /\ v.switching = {} /\ v.switched = u.switched /\ v.stranded = u.stranded \ D
    /\ SameLink(u, v) /\ SameLoop(u, v) /\ v.cmds = u.cmds

(* One turn of the fall-back to the cloud.                                 *)
LEMMA FallBackTurn ==
  ASSUME NEW u \in Transports, u.switching = {}, \A r \in u.stranded : u.mode[r] # "cloud",
         NEW D \in SUBSET Sessions, NEW s \in Sessions \ D, NEW w, FallenBack(u, w, D),
         NEW v, v = GoCentrifugo(w, s)
  PROVE  FallenBack(u, v, D \union {s})
  <1>1. w \in Transports /\ w.mode[s] = u.mode[s] /\ s \in Sessions
    BY DEF FallenBack
  <1>2. w.mode \in [Sessions -> {"none", "connecting", "cloud", "direct"}]
        /\ w.sub \in [Sessions -> {"none", "subscribing", "subscribed"}]
    BY <1>1 DEF Transports
  <1>3. CASE localOnly
    <2>1. WentWaiting(w, v, s)
      BY <1>1, <1>3, GoWaitIs
    <2> QED
      BY <1>2, <1>3, <2>1 DEF WentWaiting, FallenBack, SameLink, SameLoop
  <1>4. CASE ~localOnly /\ u.mode[s] = "cloud"
    <2>1. /\ v \in Transports
          /\ v.mode = w.mode /\ v.sub = w.sub /\ v.stranded = w.stranded
          /\ v.switching = w.switching \ {s} /\ v.switched = w.switched
          /\ SameLink(w, v) /\ SameLoop(w, v) /\ v.cmds = w.cmds
      BY <1>1, <1>4, StaysOnCloud
    <2>2. s \notin u.stranded
      BY <1>4
    <2> QED
      BY <1>2, <1>4, <2>1, <2>2 DEF FallenBack, SameLink, SameLoop
  <1>5. CASE ~localOnly /\ u.mode[s] # "cloud"
    <2>1. WentCloud(w, v, s)
      BY <1>1, <1>5, GoCloudIs
    <2>2. v.mode = [w.mode EXCEPT ![s] = "cloud"] /\ v.sub = [w.sub EXCEPT ![s] = "subscribing"]
      BY <2>1 DEF WentCloud
    <2>3. /\ w.mode = [r \in Sessions |-> IF r \notin D THEN u.mode[r]
                                          ELSE IF localOnly THEN "connecting" ELSE "cloud"]
          /\ w.sub = [r \in Sessions |-> IF r \in D /\ ~localOnly /\ u.mode[r] # "cloud"
                                         THEN "subscribing" ELSE u.sub[r]]
      BY DEF FallenBack
    <2>4. v.mode = [r \in Sessions |-> IF r \notin D \union {s} THEN u.mode[r]
                                      ELSE IF localOnly THEN "connecting" ELSE "cloud"]
      <3>1. w.mode = [r \in Sessions |-> IF r \notin D THEN u.mode[r] ELSE "cloud"]
        BY <1>5, <2>3
      <3>2. v.mode = [r \in Sessions |-> IF r \notin D \union {s} THEN u.mode[r] ELSE "cloud"]
        BY <2>2, <3>1
      <3> QED
        BY <1>5, <3>2
    <2>5. v.sub = [r \in Sessions |-> IF r \in D \union {s} /\ ~localOnly /\ u.mode[r] # "cloud"
                                     THEN "subscribing" ELSE u.sub[r]]
      BY <1>5, <2>2, <2>3
    <2> QED
      BY <1>5, <2>1, <2>4, <2>5 DEF WentCloud, FallenBack, SameLink, SameLoop
  <1> QED
    BY <1>3, <1>4, <1>5

(* The whole fall-back to the cloud.                                       *)
LEMMA FallBackLoop ==
  ASSUME NEW u \in Transports, u.switching = {}, \A r \in u.stranded : u.mode[r] # "cloud",
         NEW S \in SUBSET Sessions
  PROVE  FallenBack(u, Each(GoCentrifugo, u, S), S)
  <1> DEFINE Good == [D \in SUBSET S |-> {v \in Transports : FallenBack(u, v, D)}]
  <1>1. u \in Good[{}]
    <2>1. /\ u.mode = [r \in Sessions |-> IF r \notin {} THEN u.mode[r]
                                          ELSE IF localOnly THEN "connecting" ELSE "cloud"]
          /\ u.sub = [r \in Sessions |-> IF r \in {} /\ ~localOnly /\ u.mode[r] # "cloud"
                                         THEN "subscribing" ELSE u.sub[r]]
      BY DEF Transports
    <2> QED
      BY <2>1 DEF FallenBack, SameLink, SameLoop
  <1>2. ASSUME NEW D \in SUBSET S, NEW s \in S \ D, NEW w \in Good[D]
        PROVE  GoCentrifugo(w, s) \in Good[D \union {s}]
    <2>1. FallenBack(u, GoCentrifugo(w, s), D \union {s})
      BY FallBackTurn
    <2> QED
      BY <2>1 DEF FallenBack
  <1> HIDE DEF Good
  <1>3. Each(GoCentrifugo, u, S) \in Good[S]
    BY <1>1, <1>2, EachGoCentrifugo
  <1> QED
    BY <1>3 DEF Good


TornDown(u, v, D) ==
    /\ v \in Transports
    /\ v.mode = [r \in Sessions |-> IF r \in D THEN "none" ELSE u.mode[r]]
    /\ v.sub = [r \in Sessions |-> IF r \in D THEN "none" ELSE u.sub[r]]
    /\ v.switching = u.switching \ D /\ v.switched = u.switched
    /\ v.stranded = u.stranded \ D
    /\ v.status = u.status /\ v.link = u.link
    /\ SameLoop(u, v)

(* One turn of the teardown of every session.                              *)
LEMMA TeardownTurn ==
  ASSUME NEW u \in Transports, u.disposed,
         NEW D \in SUBSET Sessions, NEW s \in Sessions \ D, NEW w, TornDown(u, w, D),
         NEW v, v = TeardownSession(w, s)
  PROVE  TornDown(u, v, D \union {s})
  <1>1. /\ w \in Transports /\ w.disposed /\ w.mode[s] = u.mode[s] /\ s \in Sessions
    BY DEF TornDown, SameLoop
  <1>2. PICK m : m = Departed(w, s)
    OBVIOUS
  <1>3. GotDeparted(w, m, s)
    BY <1>1, <1>2, DepartedIs
  <1>4. Told(m, v, w.mode[s], s)
    BY <1>1, <1>2, TeardownIs
  <1>6. /\ w.mode = [r \in Sessions |-> IF r \in D THEN "none" ELSE u.mode[r]]
        /\ w.sub = [r \in Sessions |-> IF r \in D THEN "none" ELSE u.sub[r]]
    BY DEF TornDown
  <1>7. v.mode = [w.mode EXCEPT ![s] = "none"] /\ v.sub = [w.sub EXCEPT ![s] = "none"]
    BY <1>3, <1>4 DEF GotDeparted, Told, SamePaths
  <1>8. /\ v.mode = [r \in Sessions |-> IF r \in D \union {s} THEN "none" ELSE u.mode[r]]
        /\ v.sub = [r \in Sessions |-> IF r \in D \union {s} THEN "none" ELSE u.sub[r]]
    <2>1. v.mode = [r \in Sessions |-> IF r \in D \union {s} THEN "none" ELSE u.mode[r]]
      <3>1. v.mode = [w.mode EXCEPT ![s] = "none"]
        BY <1>7
      <3>2. w.mode = [r \in Sessions |-> IF r \in D THEN "none" ELSE u.mode[r]]
        BY <1>6
      <3> QED
        BY <3>1, <3>2
    <2>2. v.sub = [r \in Sessions |-> IF r \in D \union {s} THEN "none" ELSE u.sub[r]]
      BY <1>6, <1>7, ZenonT(60)
    <2> QED
      BY <2>1, <2>2
  <1>9. /\ v \in Transports
        /\ v.switching = u.switching \ (D \union {s}) /\ v.switched = u.switched
        /\ v.stranded = u.stranded \ (D \union {s})
        /\ v.status = u.status /\ v.link = u.link /\ SameLoop(u, v)
    <2>1. /\ m.switching = w.switching \ {s} /\ m.switched = w.switched
          /\ m.stranded = w.stranded \ {s} /\ m.status = w.status /\ m.link = w.link
          /\ SameLoop(w, m)
      BY <1>3 DEF GotDeparted
    <2>2. /\ v \in Transports /\ SamePaths(m, v) /\ SameLoop(m, v)
          /\ v.status = m.status /\ v.link = m.link
      BY <1>4 DEF Told
    <2> QED
      BY <2>1, <2>2 DEF TornDown, SamePaths, SameLoop
  <1> QED
    BY <1>8, <1>9 DEF TornDown

(* The whole teardown of every session.                                    *)
LEMMA TeardownLoop ==
  ASSUME NEW u \in Transports, u.disposed, NEW S \in SUBSET Sessions
  PROVE  TornDown(u, Each(TeardownSession, u, S), S)
  <1> DEFINE Good == [D \in SUBSET S |-> {v \in Transports : TornDown(u, v, D)}]
  <1>1. u \in Good[{}]
    <2>1. /\ u.mode = [r \in Sessions |-> IF r \in {} THEN "none" ELSE u.mode[r]]
          /\ u.sub = [r \in Sessions |-> IF r \in {} THEN "none" ELSE u.sub[r]]
      BY DEF Transports
    <2> QED
      BY <2>1 DEF TornDown, SameLoop
  <1>2. ASSUME NEW D \in SUBSET S, NEW s \in S \ D, NEW w \in Good[D]
        PROVE  TeardownSession(w, s) \in Good[D \union {s}]
    <2>1. TornDown(u, TeardownSession(w, s), D \union {s})
      BY TeardownTurn
    <2> QED
      BY <2>1 DEF TornDown
  <1> HIDE DEF Good
  <1>3. Each(TeardownSession, u, S) \in Good[S]
    BY <1>1, <1>2, EachTeardownSession
  <1> QED
    BY <1>3 DEF Good

-----------------------------------------------------------------------------
(* The ends of a climb.                                                    *)

FellBack(u, v) ==
    /\ v \in Transports
    /\ v.mode = [r \in Sessions |-> IF u.mode[r] = "none" THEN "none"
                                    ELSE IF localOnly THEN "connecting" ELSE "cloud"]
    /\ v.sub = [r \in Sessions |-> IF ~localOnly /\ u.mode[r] \notin {"none", "cloud"}
                                   THEN "subscribing" ELSE u.sub[r]]
    /\ v.switching = {} /\ v.switched = u.switched
    /\ v.stranded = {r \in u.stranded : u.mode[r] = "none"}
    /\ v.status = "failed" /\ v.link = "none" /\ v.served = {} /\ v.down = <<>>
    /\ v.up = IF u.link = "none" THEN u.up ELSE u.up \o <<Frame("close", 0, 0)>>
    /\ v.ladder = u.ladder /\ v.disposed = u.disposed /\ v.cmds = u.cmds
    /\ CanUpgrade(v) /\ v.ladder = "idle" => v.timer \in {"armed", "stale"}

(* finalizeFailed closes the peer, takes every session off it and sets the *)
(* retry timer.                                                            *)
LEMMA FinalizeFailedIs ==
  ASSUME NEW u \in Transports, \A r \in u.stranded : u.mode[r] # "cloud",
         NEW v, v = FinalizeFailed(u)
  PROVE  FellBack(u, v)
  <1> DEFINE c == CloseLink(u)
             w == [c EXCEPT !.status = "failed", !.switching = {}]
             shown == {s \in Sessions : u.mode[s] # "none"}
             x == Each(GoCentrifugo, w, shown)
  <1>1. v = EnsureUpgradeLoop(x, FALSE)
    BY DEF FinalizeFailed
  <1>2. /\ c \in Transports
        /\ SamePaths(u, c) /\ SameLoop(u, c) /\ c.status = u.status /\ c.cmds = u.cmds
        /\ c.link = "none" /\ c.served = {} /\ c.down = <<>>
        /\ c.up = IF u.link = "none" THEN u.up ELSE u.up \o <<Frame("close", 0, 0)>>
    BY CloseLinkIs
  <1> HIDE DEF c
  <1>3. w \in Transports
    BY <1>2 DEF Transports
  <1>4. /\ w.mode = u.mode /\ w.sub = u.sub /\ w.switching = {} /\ w.switched = u.switched
        /\ w.stranded = u.stranded /\ w.status = "failed" /\ w.link = "none" /\ w.served = {}
        /\ w.down = <<>>
        /\ w.up = IF u.link = "none" THEN u.up ELSE u.up \o <<Frame("close", 0, 0)>>
        /\ SameLoop(u, w) /\ w.cmds = u.cmds
    BY <1>2 DEF Transports, SamePaths, SameLoop
  <1> HIDE DEF w, x
  <1>5. FallenBack(w, x, shown)
    <2>1. shown \in SUBSET Sessions
      OBVIOUS
    <2>2. \A r \in w.stranded : w.mode[r] # "cloud"
      BY <1>4
    <2> QED
      BY <1>3, <1>4, <2>1, <2>2, FallBackLoop DEF x
  <1>6. x \in Transports
    BY <1>5 DEF FallenBack
  <1>7. /\ v \in Transports
        /\ SamePaths(x, v) /\ SameLink(x, v) /\ SameKeys(x, v) /\ v.cmds = x.cmds
        /\ v.ladder = x.ladder /\ v.disposed = x.disposed
        /\ v.timer = x.timer \/ v.timer = "armed"
        /\ CanUpgrade(x) /\ x.ladder = "idle" => v.timer \in {"armed", "stale"}
    BY <1>1, <1>6, EnsureIs
  <1>8. CanUpgrade(v) => CanUpgrade(x)
    BY <1>7 DEF CanUpgrade, HasCentrifugoSessions, SamePaths, SameLink
  <1>9. /\ v.mode = [r \in Sessions |-> IF u.mode[r] = "none" THEN "none"
                                        ELSE IF localOnly THEN "connecting" ELSE "cloud"]
        /\ v.sub = [r \in Sessions |-> IF ~localOnly /\ u.mode[r] \notin {"none", "cloud"}
                                       THEN "subscribing" ELSE u.sub[r]]
    <2>1. /\ v.mode = [r \in Sessions |-> IF r \notin shown THEN u.mode[r]
                                          ELSE IF localOnly THEN "connecting" ELSE "cloud"]
          /\ v.sub = [r \in Sessions |-> IF r \in shown /\ ~localOnly /\ u.mode[r] # "cloud"
                                         THEN "subscribing" ELSE u.sub[r]]
      BY <1>4, <1>5, <1>7 DEF FallenBack, SamePaths
    <2>2. \A r \in Sessions : r \in shown <=> u.mode[r] # "none"
      OBVIOUS
    <2> QED
      BY <2>1, <2>2
  <1>10. v.stranded = {r \in u.stranded : u.mode[r] = "none"}
    <2>1. u.stranded \subseteq Sessions
      BY DEF Transports
    <2> QED
      BY <1>4, <1>5, <1>7, <2>1 DEF FallenBack, SamePaths
  <1> QED
    BY <1>4, <1>5, <1>7, <1>8, <1>9, <1>10
       DEF FellBack, FallenBack, SamePaths, SameLink, SameLoop

Committed(u, v, rung) ==
    /\ v \in Transports
    /\ v.mode = [r \in Sessions |-> IF u.mode[r] = "connecting" THEN "direct" ELSE u.mode[r]]
    /\ v.sub = u.sub /\ v.stranded = u.stranded
    /\ v.status = "attached" /\ v.link = rung
    /\ v.ladder = u.ladder /\ v.disposed = u.disposed /\ v.cmds = u.cmds

(* attachPeer takes every waiting session to the new peer.                 *)
LEMMA AttachPeerIs ==
  ASSUME NEW u \in Transports, NEW rung \in Rungs, NEW A,
         NEW v, v = AttachPeer(u, rung)
  PROVE  /\ Committed(u, v, rung)
         /\ v.switching = u.switching /\ v.switched = u.switched
         /\ v.served = u.served \union {r \in Sessions : u.mode[r] = "connecting"}
         /\ \A r \in Sessions : Reaches(v.up, A, r)
                                  <=> u.mode[r] = "connecting" \/ Reaches(u.up, A, r)
  <1> DEFINE w == [u EXCEPT !.status = "attached", !.link = rung]
             fresh == {s \in Sessions : u.mode[s] = "connecting"}
  <1>1. v = Each(GoDirect, w, fresh)
    BY DEF AttachPeer
  <1>2. w \in Transports
    BY DEF Transports
  <1>3. /\ w.mode = u.mode /\ w.sub = u.sub /\ w.switching = u.switching
        /\ w.switched = u.switched /\ w.stranded = u.stranded /\ w.status = "attached"
        /\ w.link = rung /\ w.served = u.served /\ w.up = u.up
        /\ SameLoop(u, w) /\ w.cmds = u.cmds
    BY DEF Transports, SameLoop
  <1> HIDE DEF w
  <1>4. DirectOver(w, v, A, fresh)
    <2>1. w.link # "none" /\ fresh \in SUBSET Sessions
      BY <1>3 DEF Rungs
    <2> QED
      BY <1>1, <1>2, <2>1, DirectLoop
  <1>5. v.mode = [r \in Sessions |-> IF u.mode[r] = "connecting" THEN "direct" ELSE u.mode[r]]
    <2>1. v.mode = [r \in Sessions |-> IF r \in fresh THEN "direct" ELSE u.mode[r]]
      BY <1>3, <1>4 DEF DirectOver
    <2>2. \A r \in Sessions : r \in fresh <=> u.mode[r] = "connecting"
      OBVIOUS
    <2> QED
      BY <2>1, <2>2
  <1> QED
    BY <1>3, <1>4, <1>5 DEF DirectOver, Committed, SameLoop

(* commitUpgrade takes every waiting session to the new peer and opens a   *)
(* switch for every session on the cloud.                                  *)
LEMMA CommitUpgradeIs ==
  ASSUME NEW u \in Transports, NEW rung \in Rungs, NEW A,
         NEW v, v = CommitUpgrade(u, rung)
  PROVE  /\ Committed(u, v, rung)
         /\ v.switching = {r \in Sessions : u.mode[r] = "cloud"} /\ v.switched = FALSE
         /\ v.served = u.served \union {r \in Sessions : u.mode[r] \in {"connecting", "cloud"}}
         /\ \A r \in Sessions : Reaches(v.up, A, r)
                                  <=> u.mode[r] \in {"connecting", "cloud"} \/ Reaches(u.up, A, r)
  <1> DEFINE cohort == {s \in Sessions : u.mode[s] = "cloud"}
             fresh == {s \in Sessions : u.mode[s] = "connecting"}
             w == [u EXCEPT !.status = "attached", !.link = rung, !.switching = cohort,
                            !.switched = FALSE, !.timer = "off"]
             x == Each(GoDirect, w, fresh)
  <1>1. v = Each(AttachOver, x, cohort)
    <2>1. StopUpgradeLoop([u EXCEPT !.status = "attached", !.link = rung,
                                    !.switching = cohort, !.switched = FALSE]) = w
      BY DEF StopUpgradeLoop, Transports
    <2> QED
      BY <2>1 DEF CommitUpgrade
  <1>2. w \in Transports
    BY DEF Transports
  <1>3. /\ w.mode = u.mode /\ w.sub = u.sub /\ w.switching = cohort
        /\ w.switched = FALSE /\ w.stranded = u.stranded /\ w.status = "attached"
        /\ w.link = rung /\ w.served = u.served /\ w.up = u.up
        /\ w.ladder = u.ladder /\ w.disposed = u.disposed /\ w.cmds = u.cmds
    BY DEF Transports
  <1> HIDE DEF w, x
  <1>4. DirectOver(w, x, A, fresh)
    <2>1. w.link # "none" /\ fresh \in SUBSET Sessions
      BY <1>3 DEF Rungs
    <2> QED
      BY <1>2, <2>1, DirectLoop DEF x
  <1>5. AttachedOver(x, v, A, cohort)
    <2>1. x \in Transports /\ x.link # "none" /\ cohort \in SUBSET Sessions
      BY <1>3, <1>4 DEF Rungs, DirectOver
    <2> QED
      BY <1>1, <2>1, AttachedLoop
  <1>6. v.mode = [r \in Sessions |-> IF u.mode[r] = "connecting" THEN "direct" ELSE u.mode[r]]
    <2>1. v.mode = [r \in Sessions |-> IF r \in fresh THEN "direct" ELSE u.mode[r]]
      BY <1>3, <1>4, <1>5 DEF DirectOver, AttachedOver, SamePaths
    <2>2. \A r \in Sessions : r \in fresh <=> u.mode[r] = "connecting"
      OBVIOUS
    <2> QED
      BY <2>1, <2>2
  <1>7. \A r \in Sessions : Reaches(v.up, A, r)
                              <=> u.mode[r] \in {"connecting", "cloud"} \/ Reaches(u.up, A, r)
    BY <1>3, <1>4, <1>5 DEF DirectOver, AttachedOver
  <1>8. v.served = u.served \union {r \in Sessions : u.mode[r] \in {"connecting", "cloud"}}
    BY <1>3, <1>4, <1>5 DEF DirectOver, AttachedOver
  <1> QED
    BY <1>3, <1>4, <1>5, <1>6, <1>7, <1>8
       DEF DirectOver, AttachedOver, Committed, SamePaths, SameLoop


(* Only the timer of the loop is changed.                                  *)
Retimed(c, v, timer) ==
    /\ v \in Transports /\ SamePaths(c, v) /\ SameLink(c, v) /\ SameKeys(c, v)
    /\ v.disposed = c.disposed /\ v.cmds = c.cmds /\ v.ladder = c.ladder
    /\ v.timer = timer

(* Setting the timer changes nothing else.                                 *)
LEMMA RetimedIs ==
  ASSUME NEW c \in Transports, NEW timer \in {"off", "armed", "stale"}
  PROVE  Retimed(c, [c EXCEPT !.timer = timer], timer)
  BY DEF Retimed, Transports, SamePaths, SameLink, SameKeys

(* The three ends of a failed climb.                                       *)
LEMMA ClimbFailedCases ==
  ASSUME NEW u \in Transports
  PROVE  LET ended == [u EXCEPT !.ladder = "idle"]
         IN  /\ Aborted(u) => ClimbFailed(u) = [ended EXCEPT !.timer = "off"]
             /\ ~Aborted(u) /\ u.status = "connecting" => ClimbFailed(u) = FinalizeFailed(ended)
             /\ ~Aborted(u) /\ u.status # "connecting"
                  => ClimbFailed(u) = [ended EXCEPT !.timer = "armed"]
  BY Zenon DEF ClimbFailed, StopUpgradeLoop


-----------------------------------------------------------------------------
(* What is held: only typing lengthens it.                                 *)

HeldLess(u, v) == \A r \in Sessions : v.held[r] = u.held[r] \/ v.held[r] = <<>>

(* A queue of held keys is kept or emptied.                                *)
LEMMA HeldStep ==
  ASSUME NEW u \in Transports, NEW s \in Sessions, NEW v,
         v.held = u.held \/ v.held = [u.held EXCEPT ![s] = <<>>]
  PROVE  HeldLess(u, v)
  <1>1. u.held \in [Sessions -> Seq(Keys)]
    BY DEF Transports, KeyQueues
  <1> QED
    BY <1>1 DEF HeldLess

(* Keeping or emptying what is held composes.                              *)
LEMMA HeldOnward ==
  ASSUME NEW u, NEW v, NEW w, HeldLess(u, v), HeldLess(v, w)
  PROVE  HeldLess(u, w)
  BY DEF HeldLess

(* GoDirect keeps or empties what is held.                                 *)
LEMMA GoDirectHeld ==
  ASSUME NEW u \in Transports, NEW s \in Sessions, u.link # "none", NEW v, v = GoDirect(u, s)
  PROVE  v \in Transports /\ v.link = u.link /\ HeldLess(u, v)
  <1>1. WentDirect(u, v, s)
    BY GoDirectIs
  <1>2. v \in Transports /\ v.link = u.link /\ v.held = [u.held EXCEPT ![s] = <<>>]
    BY <1>1 DEF WentDirect
  <1> QED
    BY <1>2, HeldStep

(* AttachOver keeps what is held.                                          *)
LEMMA AttachOverHeld ==
  ASSUME NEW u \in Transports, NEW s \in Sessions, u.link # "none", NEW v, v = AttachOver(u, s)
  PROVE  v \in Transports /\ v.link = u.link /\ HeldLess(u, v)
  <1>1. v \in Transports /\ v.link = u.link /\ SameKeys(u, v)
    BY AttachOverIs, ZenonT(60)
  <1>2. v.held = u.held
    BY <1>1 DEF SameKeys
  <1> QED
    BY <1>1, <1>2, HeldStep

(* GoCentrifugo keeps or empties what is held.                             *)
LEMMA GoCentrifugoHeld ==
  ASSUME NEW u \in Transports, NEW s \in Sessions, NEW v, v = GoCentrifugo(u, s)
  PROVE  v \in Transports /\ HeldLess(u, v)
  <1>1. v \in Transports /\ (v.held = u.held \/ v.held = [u.held EXCEPT ![s] = <<>>])
    <2>1. CASE localOnly
      <3>1. WentWaiting(u, v, s)
        BY <2>1, GoWaitIs
      <3> QED
        BY <3>1 DEF WentWaiting
    <2>2. CASE ~localOnly /\ u.mode[s] = "cloud"
      BY <2>2, StaysOnCloud DEF SameKeys
    <2>3. CASE ~localOnly /\ u.mode[s] # "cloud"
      <3>1. WentCloud(u, v, s)
        BY <2>3, GoCloudIs
      <3> QED
        BY <3>1 DEF WentCloud
    <2> QED
      BY <2>1, <2>2, <2>3
  <1> QED
    BY <1>1, HeldStep

(* A teardown keeps or empties what is held.                               *)
LEMMA TeardownHeld ==
  ASSUME NEW u \in Transports, NEW s \in Sessions, NEW v, v = TeardownSession(u, s)
  PROVE  v \in Transports /\ HeldLess(u, v)
  <1>1. GotDeparted(u, Departed(u, s), s)
    BY DepartedIs
  <1>2. PICK d : d = Departed(u, s)
    OBVIOUS
  <1>3. d \in Transports /\ d.held = [u.held EXCEPT ![s] = <<>>]
    BY <1>1, <1>2 DEF GotDeparted
  <1>4. MaybeRevertUpgrade(d).held = d.held
    BY <1>3, RevertIs
  <1>5. Told(d, v, u.mode[s], s) \/ Told(MaybeRevertUpgrade(d), v, u.mode[s], s)
    BY <1>2, TeardownIs
  <1>6. v \in Transports /\ v.held = d.held
    BY <1>4, <1>5 DEF Told, SameKeys
  <1> QED
    BY <1>3, <1>6, HeldStep

(* A loop of GoDirect keeps or empties what is held.                       *)
LEMMA DirectLoopHeld ==
  ASSUME NEW u \in Transports, u.link # "none", NEW S \in SUBSET Sessions
  PROVE  HeldLess(u, Each(GoDirect, u, S)) /\ Each(GoDirect, u, S) \in Transports
  <1> DEFINE Good == [D \in SUBSET S |-> {v \in Transports : v.link = u.link /\ HeldLess(u, v)}]
  <1>1. u \in Good[{}]
    BY DEF HeldLess
  <1>2. ASSUME NEW D \in SUBSET S, NEW s \in S \ D, NEW w \in Good[D]
        PROVE  GoDirect(w, s) \in Good[D \union {s}]
    <2>1. GoDirect(w, s) \in Transports /\ GoDirect(w, s).link = w.link
          /\ HeldLess(w, GoDirect(w, s))
      BY GoDirectHeld
    <2> QED
      BY <2>1, HeldOnward
  <1> HIDE DEF Good
  <1>3. Each(GoDirect, u, S) \in Good[S]
    BY <1>1, <1>2, EachGoDirect
  <1> QED
    BY <1>3 DEF Good

(* A loop of AttachOver keeps what is held.                                *)
LEMMA AttachedLoopHeld ==
  ASSUME NEW u \in Transports, u.link # "none", NEW S \in SUBSET Sessions
  PROVE  HeldLess(u, Each(AttachOver, u, S))
  <1> DEFINE Good == [D \in SUBSET S |-> {v \in Transports : v.link = u.link /\ HeldLess(u, v)}]
  <1>1. u \in Good[{}]
    BY DEF HeldLess
  <1>2. ASSUME NEW D \in SUBSET S, NEW s \in S \ D, NEW w \in Good[D]
        PROVE  AttachOver(w, s) \in Good[D \union {s}]
    <2>1. AttachOver(w, s) \in Transports /\ AttachOver(w, s).link = w.link
          /\ HeldLess(w, AttachOver(w, s))
      BY AttachOverHeld
    <2> QED
      BY <2>1, HeldOnward
  <1> HIDE DEF Good
  <1>3. Each(AttachOver, u, S) \in Good[S]
    BY <1>1, <1>2, EachAttachOver
  <1> QED
    BY <1>3 DEF Good

(* A loop of GoCentrifugo keeps or empties what is held.                   *)
LEMMA FallBackLoopHeld ==
  ASSUME NEW u \in Transports, NEW S \in SUBSET Sessions
  PROVE  HeldLess(u, Each(GoCentrifugo, u, S)) /\ Each(GoCentrifugo, u, S) \in Transports
  <1> DEFINE Good == [D \in SUBSET S |-> {v \in Transports : HeldLess(u, v)}]
  <1>1. u \in Good[{}]
    BY DEF HeldLess
  <1>2. ASSUME NEW D \in SUBSET S, NEW s \in S \ D, NEW w \in Good[D]
        PROVE  GoCentrifugo(w, s) \in Good[D \union {s}]
    <2>1. GoCentrifugo(w, s) \in Transports /\ HeldLess(w, GoCentrifugo(w, s))
      BY GoCentrifugoHeld
    <2> QED
      BY <2>1, HeldOnward
  <1> HIDE DEF Good
  <1>3. Each(GoCentrifugo, u, S) \in Good[S]
    BY <1>1, <1>2, EachGoCentrifugo
  <1> QED
    BY <1>3 DEF Good

(* A loop of TeardownSession keeps or empties what is held.                *)
LEMMA TeardownLoopHeld ==
  ASSUME NEW u \in Transports, NEW S \in SUBSET Sessions
  PROVE  HeldLess(u, Each(TeardownSession, u, S)) /\ Each(TeardownSession, u, S) \in Transports
  <1> DEFINE Good == [D \in SUBSET S |-> {v \in Transports : HeldLess(u, v)}]
  <1>1. u \in Good[{}]
    BY DEF HeldLess
  <1>2. ASSUME NEW D \in SUBSET S, NEW s \in S \ D, NEW w \in Good[D]
        PROVE  TeardownSession(w, s) \in Good[D \union {s}]
    <2>1. TeardownSession(w, s) \in Transports /\ HeldLess(w, TeardownSession(w, s))
      BY TeardownHeld
    <2> QED
      BY <2>1, HeldOnward
  <1> HIDE DEF Good
  <1>3. Each(TeardownSession, u, S) \in Good[S]
    BY <1>1, <1>2, EachTeardownSession
  <1> QED
    BY <1>3 DEF Good

(* finalizeFailed keeps or empties what is held.                           *)
LEMMA FinalizeFailedHeld ==
  ASSUME NEW u \in Transports, NEW v, v = FinalizeFailed(u)
  PROVE  HeldLess(u, v)
  <1> DEFINE c == CloseLink(u)
             w == [c EXCEPT !.status = "failed", !.switching = {}]
             shown == {s \in Sessions : u.mode[s] # "none"}
             x == Each(GoCentrifugo, w, shown)
  <1>1. v = EnsureUpgradeLoop(x, FALSE)
    BY DEF FinalizeFailed
  <1>2. c \in Transports /\ c.held = u.held
    BY CloseLinkIs
  <1> HIDE DEF c
  <1>3. w \in Transports /\ w.held = u.held
    BY <1>2, ZenonT(60) DEF Transports
  <1> HIDE DEF w
  <1>4. x \in Transports /\ HeldLess(w, x)
    BY <1>3, FallBackLoopHeld
  <1> HIDE DEF x
  <1>5. v.held = x.held
    BY <1>1, <1>4, EnsureIs DEF SameKeys
  <1> QED
    BY <1>3, <1>4, <1>5 DEF HeldLess

(* A failed climb keeps or empties what is held.                           *)
LEMMA ClimbFailedHeld ==
  ASSUME NEW u \in Transports, NEW v, v = ClimbFailed(u)
  PROVE  HeldLess(u, v)
  <1> DEFINE ended == [u EXCEPT !.ladder = "idle"]
  <1>1. ended \in Transports /\ ended.held = u.held
    BY DEF Transports
  <1>2. \/ v = [ended EXCEPT !.timer = "off"]
        \/ v = FinalizeFailed(ended)
        \/ v = [ended EXCEPT !.timer = "armed"]
    BY ClimbFailedCases
  <1> HIDE DEF ended
  <1>3. CASE v = FinalizeFailed(ended)
    BY <1>1, <1>3, FinalizeFailedHeld DEF HeldLess
  <1>4. ASSUME NEW timer \in {"off", "armed", "stale"}, v = [ended EXCEPT !.timer = timer]
        PROVE  HeldLess(u, v)
    <2>1. v.held = u.held
      BY <1>1, <1>4, RetimedIs DEF Retimed, SameKeys
    <2> QED
      BY <2>1 DEF HeldLess
  <1> QED
    BY <1>2, <1>3, <1>4

(* attachPeer keeps or empties what is held.                               *)
LEMMA AttachPeerHeld ==
  ASSUME NEW u \in Transports, NEW rung \in Rungs, NEW v, v = AttachPeer(u, rung)
  PROVE  HeldLess(u, v)
  <1> DEFINE w == [u EXCEPT !.status = "attached", !.link = rung]
             fresh == {s \in Sessions : u.mode[s] = "connecting"}
  <1>1. v = Each(GoDirect, w, fresh)
    BY DEF AttachPeer
  <1>2. w \in Transports /\ w.held = u.held /\ w.link # "none"
    BY DEF Transports, Rungs
  <1> HIDE DEF w
  <1>3. HeldLess(w, v)
    BY <1>1, <1>2, DirectLoopHeld
  <1> QED
    BY <1>2, <1>3 DEF HeldLess

(* commitUpgrade keeps or empties what is held.                            *)
LEMMA CommitUpgradeHeld ==
  ASSUME NEW u \in Transports, NEW rung \in Rungs, NEW v, v = CommitUpgrade(u, rung)
  PROVE  HeldLess(u, v)
  <1> DEFINE cohort == {s \in Sessions : u.mode[s] = "cloud"}
             fresh == {s \in Sessions : u.mode[s] = "connecting"}
             w == StopUpgradeLoop([u EXCEPT !.status = "attached", !.link = rung,
                                            !.switching = cohort, !.switched = FALSE])
             x == Each(GoDirect, w, fresh)
  <1>1. v = Each(AttachOver, x, cohort)
    BY DEF CommitUpgrade
  <1>2. w \in Transports /\ w.held = u.held /\ w.link # "none"
    BY DEF StopUpgradeLoop, Transports, Rungs
  <1> HIDE DEF w
  <1>3. HeldLess(w, x) /\ x \in Transports
    BY <1>2, DirectLoopHeld
  <1>4. x.link = w.link
    BY <1>2, DirectLoop DEF DirectOver
  <1> HIDE DEF x
  <1>5. HeldLess(x, v)
    BY <1>1, <1>2, <1>3, <1>4, AttachedLoopHeld
  <1> QED
    BY <1>2, <1>3, <1>5 DEF HeldLess

-----------------------------------------------------------------------------
(* What the methods do to the keys: each is kept where it was, has moved   *)
(* in order, or is lost.                                                   *)
KeysStay(u, v) ==
    \A p \in KeyQueues, n \in Nat : KeyFits(u, p, n) => KeyFits(v, p, n)

(* Two changes that keep the keys in order, one after the other.           *)
LEMMA KeysOnward ==
  ASSUME NEW u, NEW v, NEW w, KeysStay(u, v), KeysStay(v, w)
  PROVE  KeysStay(u, w)
  BY DEF KeysStay

(* Nothing of what the keys depend on is changed.                          *)
SameWay(u, v) == SameKeys(u, v) /\ v.mode = u.mode /\ v.link = u.link /\ v.up = u.up

(* A change that touches no queue, path or link keeps the keys.            *)
LEMMA SameWayKeys ==
  ASSUME NEW u \in Transports, NEW v, SameWay(u, v)
  PROVE  KeysStay(u, v)
  <1>1. SameKeys(u, v) /\ v.mode = u.mode /\ v.link = u.link /\ v.up = u.up
    BY DEF SameWay
  <1>2. \A s \in Sessions : UpSame(u.up, v.up, s)
    BY <1>1, UpStays
  <1>3. ASSUME NEW p \in KeyQueues, NEW n \in Nat, KeyFits(u, p, n)
        PROVE  KeyFits(v, p, n)
    BY <1>1, <1>2, <1>3, QuietKeys
  <1> QED
    BY <1>3 DEF KeysStay

(* At most one frame without a key has joined those on their way.          *)
LEMMA PlainWayKeys ==
  ASSUME NEW u \in Transports, NEW v, SameKeys(u, v), v.mode = u.mode, v.link = u.link,
         NEW f \in Frames, f.kind # "input", v.up = u.up \/ v.up = u.up \o <<f>>
  PROVE  KeysStay(u, v)
  <1>1. ASSUME NEW p \in KeyQueues, NEW n \in Nat, KeyFits(u, p, n)
        PROVE  KeyFits(v, p, n)
    BY <1>1, PlainKeys
  <1> QED
    BY <1>1 DEF KeysStay

(* ensureUpgradeLoop keeps the keys: it touches the timer alone.           *)
LEMMA EnsureKeys ==
  ASSUME NEW u \in Transports, NEW reset \in BOOLEAN, NEW v, v = EnsureUpgradeLoop(u, reset)
  PROVE  KeysStay(u, v)
  <1>1. SamePaths(u, v) /\ SameLink(u, v) /\ SameKeys(u, v)
    BY EnsureIs
  <1>2. SameWay(u, v)
    BY <1>1 DEF SameWay, SamePaths, SameLink
  <1> QED
    BY <1>2, SameWayKeys

(* GoDirect keeps the keys: what the session held is sent in order.        *)
LEMMA GoDirectKeys ==
  ASSUME NEW u \in Transports, NEW s \in Sessions, u.mode[s] = "connecting", u.link # "none",
         NEW v, v = GoDirect(u, s)
  PROVE  KeysStay(u, v)
  <1>1. WentDirect(u, v, s)
    BY GoDirectIs
  <1>2. ASSUME NEW p \in KeyQueues, NEW n \in Nat, KeyFits(u, p, n)
        PROVE  KeyFits(v, p, n)
    BY <1>1, <1>2, DirectKeys
  <1> QED
    BY <1>2 DEF KeysStay

(* AttachOver keeps the keys.                                              *)
LEMMA AttachOverKeys ==
  ASSUME NEW u \in Transports, NEW s \in Sessions, u.link # "none", NEW v, v = AttachOver(u, s)
  PROVE  KeysStay(u, v)
  <1>1. /\ SamePaths(u, v) /\ SameKeys(u, v) /\ v.link = u.link
        /\ v.up = u.up \o <<Frame("attach", s, 0)>>
    BY AttachOverIs
  <1>2. Frame("attach", s, 0) \in Frames /\ Frame("attach", s, 0).kind # "input"
    BY FramesTyped DEF Frame
  <1>3. v.mode = u.mode
    BY <1>1 DEF SamePaths
  <1> QED
    BY <1>1, <1>2, <1>3, PlainWayKeys

(* DetachFrom keeps the keys.                                              *)
LEMMA DetachFromKeys ==
  ASSUME NEW u \in Transports, NEW s \in Sessions, NEW v, v = DetachFrom(u, s)
  PROVE  KeysStay(u, v)
  <1>4. /\ SamePaths(u, v) /\ SameKeys(u, v) /\ v.link = u.link
        /\ v.up = IF u.link = "none" THEN u.up ELSE u.up \o <<Frame("detach", s, 0)>>
    BY DetachFromIs
  <1>1. /\ SamePaths(u, v) /\ SameKeys(u, v) /\ v.link = u.link
        /\ v.up = u.up \/ v.up = u.up \o <<Frame("detach", s, 0)>>
    BY <1>4
  <1>2. Frame("detach", s, 0) \in Frames /\ Frame("detach", s, 0).kind # "input"
    BY FramesTyped DEF Frame
  <1>3. v.mode = u.mode
    BY <1>1 DEF SamePaths
  <1> QED
    BY <1>1, <1>2, <1>3, PlainWayKeys

(* A session falls back when there is no peer any more.                    *)
LEMMA GoCentrifugoKeys ==
  ASSUME NEW u \in Transports, NEW s \in Sessions, u.link = "none",
         localOnly => u.mode[s] # "cloud", NEW v, v = GoCentrifugo(u, s)
  PROVE  KeysStay(u, v)
  <1>1. ASSUME NEW p \in KeyQueues, NEW n \in Nat, KeyFits(u, p, n)
        PROVE  KeyFits(v, p, n)
    <2>1. CASE localOnly
      <3>1. WentWaiting(u, v, s)
        BY <2>1, GoWaitIs
      <3> QED
        BY <1>1, <2>1, <3>1, WaitKeys
    <2>2. CASE ~localOnly /\ u.mode[s] = "cloud"
      <3>1. SameKeys(u, v) /\ v.mode = u.mode /\ SameLink(u, v)
        BY <2>2, StaysOnCloud
      <3>2. SameWay(u, v)
        BY <3>1 DEF SameWay, SameLink
      <3> QED
        BY <1>1, <3>2, SameWayKeys DEF KeysStay
    <2>3. CASE ~localOnly /\ u.mode[s] # "cloud"
      <3>1. WentCloud(u, v, s)
        BY <2>3, GoCloudIs
      <3> QED
        BY <1>1, <2>3, <3>1, CloudKeys
    <2> QED
      BY <2>1, <2>2, <2>3
  <1> QED
    BY <1>1 DEF KeysStay

(* maybeRevertUpgrade keeps the keys: those on their way over a peer that  *)
(* is given up are exposed.                                                *)
LEMMA RevertKeys ==
  ASSUME NEW u \in Transports, NEW v, v = MaybeRevertUpgrade(u)
  PROVE  KeysStay(u, v)
  <1>1. CASE ~Reverts(u)
    <2>1. v = u
      BY <1>1, RevertIs
    <2> QED
      BY <2>1 DEF KeysStay
  <1>2. CASE Reverts(u)
    <2>1. /\ v.mode = u.mode /\ v.held = u.held /\ v.out = u.out /\ v.flying = u.flying
          /\ v.cloud = u.cloud /\ v.lost = u.lost /\ v.exposed = u.exposed \union KeysOf(u.up)
          /\ v.up = u.up \/ v.up = u.up \o <<Frame("close", 0, 0)>>
      BY <1>2, RevertIs, ZenonT(60)
    <2>2. ASSUME NEW p \in KeyQueues, NEW n \in Nat, KeyFits(u, p, n)
          PROVE  KeyFits(v, p, n)
      BY <2>1, <2>2, ClosedKeys
    <2> QED
      BY <2>2 DEF KeysStay
  <1> QED
    BY <1>1, <1>2

(* Closing the peer keeps the keys: those on their way are exposed.        *)
LEMMA CloseLinkKeys ==
  ASSUME NEW u \in Transports, NEW v, v = CloseLink(u)
  PROVE  KeysStay(u, v)
  <1>1. /\ SamePaths(u, v) /\ v.held = u.held /\ v.out = u.out /\ v.flying = u.flying
        /\ v.cloud = u.cloud /\ v.lost = u.lost /\ v.exposed = u.exposed \union KeysOf(u.up)
        /\ v.up = u.up \/ v.up = u.up \o <<Frame("close", 0, 0)>>
    BY CloseLinkIs
  <1>2. v.mode = u.mode
    BY <1>1 DEF SamePaths
  <1>3. ASSUME NEW p \in KeyQueues, NEW n \in Nat, KeyFits(u, p, n)
        PROVE  KeyFits(v, p, n)
    BY <1>1, <1>2, <1>3, ClosedKeys
  <1> QED
    BY <1>3 DEF KeysStay

(* The first half of a teardown keeps the keys.                            *)
LEMMA DepartedKeys ==
  ASSUME NEW u \in Transports, NEW s \in Sessions, NEW v, GotDeparted(u, v, s)
  PROVE  KeysStay(u, v)
  <1>1. /\ v.mode = [u.mode EXCEPT ![s] = "none"] /\ v.link = u.link
        /\ v.held = [u.held EXCEPT ![s] = <<>>] /\ v.out = [u.out EXCEPT ![s] = <<>>]
        /\ v.flying = [u.flying EXCEPT ![s] = <<>>]
        /\ v.cloud = [u.cloud EXCEPT ![s] = u.cloud[s] \o u.flying[s]]
        /\ v.lost = u.lost \union ToSet(u.held[s]) \union ToSet(u.out[s])
        /\ v.exposed = u.exposed \union ToSet(u.flying[s])
    BY DEF GotDeparted
  <1>2. v.up = u.up \/ v.up = u.up \o <<Frame("detach", s, 0)>>
    BY DEF GotDeparted
  <1>3. /\ u.up \in Seq(Frames) /\ Frame("detach", s, 0) \in Frames
        /\ Frame("detach", s, 0).kind # "input"
    BY SomeTypes, FramesTyped DEF Frame
  <1>4. \A r \in Sessions : UpSame(u.up, v.up, r)
    BY <1>2, <1>3, UpStays, UpPlain
  <1>5. ASSUME NEW p \in KeyQueues, NEW n \in Nat, KeyFits(u, p, n)
        PROVE  KeyFits(v, p, n)
    BY <1>1, <1>4, <1>5, EmptiedKeys
  <1> QED
    BY <1>5 DEF KeysStay

(* The second half of a teardown keeps the keys: it carries none.          *)
LEMMA ToldKeys ==
  ASSUME NEW u \in Transports, NEW s \in Sessions, NEW mode, NEW v, Told(u, v, mode, s)
  PROVE  KeysStay(u, v)
  <1>1. /\ SameKeys(u, v) /\ v.mode = u.mode /\ v.link = u.link
        /\ v.up = u.up \/ v.up = u.up \o <<Frame("detach", s, 0)>>
    BY DEF Told, SamePaths
  <1>2. Frame("detach", s, 0) \in Frames /\ Frame("detach", s, 0).kind # "input"
    BY FramesTyped DEF Frame
  <1> QED
    BY <1>1, <1>2, PlainWayKeys

(* A teardown keeps the keys: what the entry held or queued is lost, its   *)
(* publication may still arrive and is exposed.                            *)
LEMMA TeardownKeys ==
  ASSUME NEW u \in Transports, NEW s \in Sessions, NEW v, v = TeardownSession(u, s)
  PROVE  v \in Transports /\ KeysStay(u, v)
  <1>1. PICK d : d = Departed(u, s)
    OBVIOUS
  <1>2. GotDeparted(u, d, s)
    BY <1>1, DepartedIs
  <1>3. d \in Transports /\ KeysStay(u, d)
    BY <1>2, DepartedKeys DEF GotDeparted
  <1>4. PICK m : m = MaybeRevertUpgrade(d)
    OBVIOUS
  <1>5. m \in Transports /\ KeysStay(u, m)
    BY <1>3, <1>4, RevertIs, RevertKeys, KeysOnward
  <1>6. Told(d, v, u.mode[s], s) \/ Told(m, v, u.mode[s], s)
    BY <1>1, <1>4, TeardownIs
  <1>7. v \in Transports
    BY <1>6 DEF Told
  <1>8. CASE Told(d, v, u.mode[s], s)
    <2>1. KeysStay(d, v)
      BY <1>3, <1>8, ToldKeys
    <2> QED
      BY <1>3, <1>7, <2>1, KeysOnward
  <1>9. CASE Told(m, v, u.mode[s], s)
    <2>1. KeysStay(m, v)
      BY <1>5, <1>9, ToldKeys
    <2> QED
      BY <1>5, <1>7, <2>1, KeysOnward
  <1> QED
    BY <1>6, <1>8, <1>9

(* The loop that takes sessions to the peer keeps the keys.                *)
LEMMA DirectLoopKeys ==
  ASSUME NEW u \in Transports, u.link # "none", NEW S \in SUBSET Sessions,
         \A s \in S : u.mode[s] = "connecting"
  PROVE  KeysStay(u, Each(GoDirect, u, S)) /\ Each(GoDirect, u, S) \in Transports
  <1> DEFINE Good == [D \in SUBSET S |->
                {v \in Transports : /\ v.link = u.link /\ KeysStay(u, v)
                                    /\ \A s \in S \ D : v.mode[s] = "connecting"}]
  <1>1. u \in Good[{}]
    BY DEF KeysStay
  <1>2. ASSUME NEW D \in SUBSET S, NEW s \in S \ D, NEW w \in Good[D]
        PROVE  GoDirect(w, s) \in Good[D \union {s}]
    <2>1. /\ w \in Transports /\ w.link = u.link /\ KeysStay(u, w)
          /\ \A r \in S \ D : w.mode[r] = "connecting"
      OBVIOUS
    <2> HIDE DEF Good
    <2>2. PICK v : v = GoDirect(w, s)
      OBVIOUS
    <2>3. WentDirect(w, v, s)
      BY <2>1, <2>2, GoDirectIs
    <2>4. v \in Transports /\ v.link = u.link /\ v.mode = [w.mode EXCEPT ![s] = "direct"]
      BY <2>1, <2>3 DEF WentDirect
    <2>5. \A r \in S \ (D \union {s}) : v.mode[r] = "connecting"
      BY <2>1, <2>4 DEF Transports
    <2>6. KeysStay(w, v)
      BY <2>1, <2>2, GoDirectKeys
    <2>7. KeysStay(u, v)
      BY <2>1, <2>6, KeysOnward
    <2> QED
      BY <2>2, <2>4, <2>5, <2>7 DEF Good
  <1> HIDE DEF Good
  <1>3. Each(GoDirect, u, S) \in Good[S]
    BY <1>1, <1>2, EachGoDirect
  <1> QED
    BY <1>3 DEF Good

(* The loop that asks for sessions over a new peer keeps the keys.         *)
LEMMA AttachedLoopKeys ==
  ASSUME NEW u \in Transports, u.link # "none", NEW S \in SUBSET Sessions
  PROVE  KeysStay(u, Each(AttachOver, u, S))
  <1> DEFINE Good == [D \in SUBSET S |-> {v \in Transports : v.link = u.link /\ KeysStay(u, v)}]
  <1>1. u \in Good[{}]
    BY DEF KeysStay
  <1>2. ASSUME NEW D \in SUBSET S, NEW s \in S \ D, NEW w \in Good[D]
        PROVE  AttachOver(w, s) \in Good[D \union {s}]
    <2>1. w \in Transports /\ w.link = u.link /\ KeysStay(u, w)
      OBVIOUS
    <2> HIDE DEF Good
    <2>2. PICK v : v = AttachOver(w, s)
      OBVIOUS
    <2>3. v \in Transports /\ v.link = u.link
      <3>1. w \in Transports /\ w.link # "none"
        BY <2>1
      <3>2. v \in Transports /\ v.link = w.link
        BY <2>2, <3>1, AttachOverHeld
      <3> QED
        BY <2>1, <3>2
    <2>4. KeysStay(u, v)
      BY <2>1, <2>2, AttachOverKeys, KeysOnward
    <2> QED
      BY <2>2, <2>3, <2>4 DEF Good
  <1> HIDE DEF Good
  <1>3. Each(AttachOver, u, S) \in Good[S]
    BY <1>1, <1>2, EachAttachOver
  <1> QED
    BY <1>3 DEF Good

(* In local pairing no session is ever on the cloud.                       *)
OffCloud(u) == localOnly => \A s \in Sessions : u.mode[s] # "cloud"

(* The loop that takes sessions to the cloud keeps the keys.               *)
LEMMA FallBackLoopKeys ==
  ASSUME NEW u \in Transports, u.link = "none", OffCloud(u), NEW S \in SUBSET Sessions
  PROVE  KeysStay(u, Each(GoCentrifugo, u, S)) /\ Each(GoCentrifugo, u, S) \in Transports
  <1> DEFINE Good == [D \in SUBSET S |->
                {v \in Transports : v.link = "none" /\ KeysStay(u, v) /\ OffCloud(v)}]
  <1>1. u \in Good[{}]
    BY DEF KeysStay
  <1>2. ASSUME NEW D \in SUBSET S, NEW s \in S \ D, NEW w \in Good[D]
        PROVE  GoCentrifugo(w, s) \in Good[D \union {s}]
    <2>1. w \in Transports /\ w.link = "none" /\ KeysStay(u, w) /\ OffCloud(w)
      OBVIOUS
    <2> HIDE DEF Good
    <2>2. PICK v : v = GoCentrifugo(w, s)
      OBVIOUS
    <2>3. localOnly => w.mode[s] # "cloud"
      BY <2>1 DEF OffCloud
    <2>4. KeysStay(u, v)
      BY <2>1, <2>2, <2>3, GoCentrifugoKeys, KeysOnward
    <2>5. v \in Transports /\ v.link = "none" /\ OffCloud(v)
      <3>1. CASE localOnly
        <4>1. WentWaiting(w, v, s)
          BY <2>1, <2>2, <3>1, GoWaitIs
        <4>2. v \in Transports /\ v.mode = [w.mode EXCEPT ![s] = "connecting"] /\ v.link = w.link
          BY <4>1 DEF WentWaiting, SameLink
        <4> QED
          BY <2>1, <4>2 DEF OffCloud, Transports
      <3>2. CASE ~localOnly /\ w.mode[s] = "cloud"
        BY <2>1, <2>2, <3>2, StaysOnCloud DEF SameLink, OffCloud
      <3>3. CASE ~localOnly /\ w.mode[s] # "cloud"
        <4>1. WentCloud(w, v, s)
          BY <2>1, <2>2, <3>3, GoCloudIs
        <4> QED
          BY <2>1, <3>3, <4>1 DEF WentCloud, SameLink, OffCloud
      <3> QED
        BY <3>1, <3>2, <3>3
    <2> QED
      BY <2>2, <2>4, <2>5 DEF Good
  <1> HIDE DEF Good
  <1>3. Each(GoCentrifugo, u, S) \in Good[S]
    BY <1>1, <1>2, EachGoCentrifugo
  <1> QED
    BY <1>3 DEF Good

(* The loop that tears all entries down keeps the keys.                    *)
LEMMA TeardownLoopKeys ==
  ASSUME NEW u \in Transports, NEW S \in SUBSET Sessions
  PROVE  KeysStay(u, Each(TeardownSession, u, S)) /\ Each(TeardownSession, u, S) \in Transports
  <1> DEFINE Good == [D \in SUBSET S |-> {v \in Transports : KeysStay(u, v)}]
  <1>1. u \in Good[{}]
    BY DEF KeysStay
  <1>2. ASSUME NEW D \in SUBSET S, NEW s \in S \ D, NEW w \in Good[D]
        PROVE  TeardownSession(w, s) \in Good[D \union {s}]
    <2>1. w \in Transports /\ KeysStay(u, w)
      OBVIOUS
    <2>2. TeardownSession(w, s) \in Transports /\ KeysStay(w, TeardownSession(w, s))
      BY <2>1, TeardownKeys
    <2> QED
      BY <2>1, <2>2, KeysOnward
  <1> HIDE DEF Good
  <1>3. Each(TeardownSession, u, S) \in Good[S]
    BY <1>1, <1>2, EachTeardownSession
  <1> QED
    BY <1>3 DEF Good

(* finalizeFailed keeps the keys.                                          *)
LEMMA FinalizeFailedKeys ==
  ASSUME NEW u \in Transports, OffCloud(u), NEW v, v = FinalizeFailed(u)
  PROVE  KeysStay(u, v)
  <1> DEFINE c == CloseLink(u)
             w == [c EXCEPT !.status = "failed", !.switching = {}]
             shown == {s \in Sessions : u.mode[s] # "none"}
             x == Each(GoCentrifugo, w, shown)
  <1>1. v = EnsureUpgradeLoop(x, FALSE)
    BY DEF FinalizeFailed
  <1>2. c \in Transports /\ c.mode = u.mode /\ c.link = "none" /\ KeysStay(u, c)
    BY CloseLinkIs, CloseLinkKeys DEF SamePaths
  <1> HIDE DEF c
  <1>3. w \in Transports /\ w.mode = c.mode /\ w.link = c.link /\ SameWay(c, w)
    BY <1>2, ZenonT(60) DEF Transports, SameWay, SameKeys
  <1> HIDE DEF w
  <1>4. OffCloud(w) /\ w.link = "none"
    BY <1>2, <1>3 DEF OffCloud
  <1>5. KeysStay(u, w)
    BY <1>2, <1>3, SameWayKeys, KeysOnward
  <1>6. x \in Transports /\ KeysStay(w, x)
    BY <1>3, <1>4, FallBackLoopKeys
  <1> HIDE DEF x
  <1>7. KeysStay(x, v)
    BY <1>1, <1>6, EnsureKeys
  <1> QED
    BY <1>5, <1>6, <1>7, KeysOnward

(* A climb that has failed keeps the keys.                                 *)
LEMMA ClimbFailedKeys ==
  ASSUME NEW u \in Transports, OffCloud(u), NEW v, v = ClimbFailed(u)
  PROVE  KeysStay(u, v)
  <1> DEFINE ended == [u EXCEPT !.ladder = "idle"]
  <1>1. ended \in Transports /\ ended.mode = u.mode /\ SameWay(u, ended)
    BY DEF Transports, SameWay, SameKeys
  <1>2. \/ v = [ended EXCEPT !.timer = "off"]
        \/ v = FinalizeFailed(ended)
        \/ v = [ended EXCEPT !.timer = "armed"]
    BY ClimbFailedCases
  <1> HIDE DEF ended
  <1>3. KeysStay(u, ended)
    BY <1>1, SameWayKeys
  <1>4. CASE v = FinalizeFailed(ended)
    <2>1. OffCloud(ended)
      BY <1>1 DEF OffCloud
    <2> QED
      BY <1>1, <1>3, <1>4, <2>1, FinalizeFailedKeys, KeysOnward
  <1>5. ASSUME NEW timer \in {"off", "armed", "stale"}, v = [ended EXCEPT !.timer = timer]
        PROVE  KeysStay(u, v)
    <2>1. Retimed(ended, v, timer)
      BY <1>1, <1>5, RetimedIs
    <2>2. SameWay(ended, v)
      BY <2>1 DEF Retimed, SameWay, SamePaths, SameLink
    <2> QED
      BY <1>1, <1>3, <2>2, SameWayKeys, KeysOnward
  <1> QED
    BY <1>2, <1>4, <1>5

(* A new peer takes the frames that wait for it.                           *)
LEMMA OpenedKeys ==
  ASSUME NEW u \in Transports, NEW v, SameKeys(u, v), v.mode = u.mode, v.up = u.up,
         v.link # "none"
  PROVE  KeysStay(u, v)
  <1>1. \A s \in Sessions : UpSame(u.up, v.up, s)
    BY UpStays
  <1>2. ASSUME NEW p \in KeyQueues, NEW n \in Nat, KeyFits(u, p, n)
        PROVE  KeyFits(v, p, n)
    BY <1>1, <1>2, QuietKeys
  <1> QED
    BY <1>2 DEF KeysStay

(* A first peer that attaches keeps the keys.                              *)
LEMMA AttachPeerKeys ==
  ASSUME NEW u \in Transports, NEW rung \in Rungs, NEW v, v = AttachPeer(u, rung)
  PROVE  KeysStay(u, v)
  <1> DEFINE w == [u EXCEPT !.status = "attached", !.link = rung]
             fresh == {s \in Sessions : u.mode[s] = "connecting"}
  <1>1. v = Each(GoDirect, w, fresh)
    BY DEF AttachPeer
  <1>2. /\ w \in Transports /\ w.mode = u.mode /\ w.link # "none" /\ w.up = u.up
        /\ SameKeys(u, w)
    BY DEF Transports, Rungs, SameKeys
  <1> HIDE DEF w
  <1>3. KeysStay(u, w)
    BY <1>2, OpenedKeys
  <1>4. KeysStay(w, v)
    BY <1>1, <1>2, DirectLoopKeys
  <1> QED
    BY <1>3, <1>4, KeysOnward

(* A peer that is committed to keeps the keys.                             *)
LEMMA CommitUpgradeKeys ==
  ASSUME NEW u \in Transports, NEW rung \in Rungs, NEW v, v = CommitUpgrade(u, rung)
  PROVE  KeysStay(u, v)
  <1> DEFINE cohort == {s \in Sessions : u.mode[s] = "cloud"}
             fresh == {s \in Sessions : u.mode[s] = "connecting"}
             w == StopUpgradeLoop([u EXCEPT !.status = "attached", !.link = rung,
                                            !.switching = cohort, !.switched = FALSE])
             x == Each(GoDirect, w, fresh)
  <1>1. v = Each(AttachOver, x, cohort)
    BY DEF CommitUpgrade
  <1>2. /\ w \in Transports /\ w.mode = u.mode /\ w.link # "none" /\ w.up = u.up
        /\ SameKeys(u, w)
    BY DEF StopUpgradeLoop, Transports, Rungs, SameKeys
  <1> HIDE DEF w
  <1>3. KeysStay(u, w)
    BY <1>2, OpenedKeys
  <1>4. KeysStay(w, x) /\ x \in Transports
    BY <1>2, DirectLoopKeys
  <1>5. x.link = w.link
    BY <1>2, DirectLoop DEF DirectOver
  <1> HIDE DEF x
  <1>6. KeysStay(x, v)
    BY <1>1, <1>2, <1>4, <1>5, AttachedLoopKeys
  <1> QED
    BY <1>3, <1>4, <1>6, KeysOnward


-----------------------------------------------------------------------------
(* The invariant of the paths.                                             *)

ModesFit(u) ==
    /\ \A s \in Sessions : u.sub[s] # "none" <=> u.mode[s] = "cloud"
    /\ localOnly => \A s \in Sessions : u.mode[s] # "cloud"
    /\ u.status \in {"none", "connecting"} =>
         \A s \in Sessions : u.mode[s] \in {"none", "connecting"}
    /\ u.status = "attached" => \A s \in Sessions : u.mode[s] # "connecting"
    /\ u.disposed => \A s \in Sessions : u.mode[s] = "none"
    /\ u.ladder # "idle" => u.status \in {"connecting", "failed"}

LinkFits(u) ==
    /\ \A s \in u.switching : u.mode[s] = "cloud"
    /\ \A s \in u.stranded : u.mode[s] = "direct"
    /\ u.link # "none" => u.status = "attached"
    /\ ~u.disposed /\ u.status = "attached" => u.link # "none"
    /\ ~u.disposed => u.served = {s \in Sessions : u.mode[s] = "direct" /\ s \notin u.stranded}
                                 \union u.switching
    /\ u.served # {} => u.link # "none"
    /\ u.disposed => u.up = <<>> /\ u.link = "none" /\ u.served = {}

BridgeFits(u, A, W) ==
    /\ \A s \in Sessions : s \in u.served <=> Reaches(u.up, A, s)
    /\ ~u.disposed =>
         \A s \in Sessions : u.sub[s] = "subscribed" <=> Watching(u.cmds, W, s)

NotPinned(u) ==
    u.status = "attached" /\ (\E s \in Sessions : u.mode[s] = "cloud")
        => u.switched \/ u.switching # {}

Fits(u, A, W) == ModesFit(u) /\ LinkFits(u) /\ BridgeFits(u, A, W) /\ NotPinned(u)

Alive(u) == CanUpgrade(u) => u.ladder # "idle" \/ u.timer \in {"armed", "stale"}

(* A step that keeps paths and link keeps the invariant of the paths.      *)
LEMMA CalmFits ==
  ASSUME NEW u \in Transports, NEW v, NEW A, NEW W, Fits(u, A, W),
         SamePaths(u, v), SameLink(u, v), v.disposed = u.disposed, v.cmds = u.cmds,
         v.ladder = u.ladder \/ v.ladder = "idle" \/ v.status \in {"connecting", "failed"}
  PROVE  Fits(v, A, W)
  BY DEF Fits, ModesFit, LinkFits, BridgeFits, NotPinned, SamePaths, SameLink

(* After a close nothing will be attached, whether or not there was a      *)
(* peer.                                                                   *)
LEMMA ClosedReaches ==
  ASSUME NEW u \in Transports, NEW A, NEW W, Fits(u, A, W), NEW up,
         up = IF u.link = "none" THEN u.up ELSE u.up \o <<Frame("close", 0, 0)>>
  PROVE  \A s \in Sessions : ~Reaches(up, A, s)
  <1> TAKE s \in Sessions
  <1>1. CASE u.link = "none"
    BY <1>1 DEF Fits, LinkFits, BridgeFits
  <1>2. CASE u.link # "none"
    <2>1. ~Reaches(u.up \o <<Frame("close", 0, 0)>>, A, s)
      BY SomeTypes, ReachesMore
    <2> QED
      BY <1>2, <2>1
  <1> QED
    BY <1>1, <1>2

(* finalizeFailed leaves the paths in order and the loop alive.            *)
LEMMA FinalizeFailedFits ==
  ASSUME NEW u \in Transports, NEW A, NEW W, Fits(u, A, W),
         u.status \in {"connecting", "attached"} \/ u.ladder # "idle", localOnly \in BOOLEAN,
         NEW v, FellBack(u, v)
  PROVE  Fits(v, A, W) /\ Alive(v)
  <1>1. /\ v.mode \in [Sessions -> {"none", "connecting", "cloud", "direct"}]
        /\ v.sub \in [Sessions -> {"none", "subscribing", "subscribed"}]
        /\ u.mode \in [Sessions -> {"none", "connecting", "cloud", "direct"}]
        /\ u.sub \in [Sessions -> {"none", "subscribing", "subscribed"}]
    BY DEF FellBack, Transports
  <1>2. \A s \in Sessions : v.mode[s] = IF u.mode[s] = "none" THEN "none"
                                        ELSE IF localOnly THEN "connecting" ELSE "cloud"
    BY DEF FellBack
  <1>3. \A s \in Sessions : v.sub[s] = IF ~localOnly /\ u.mode[s] \notin {"none", "cloud"}
                                       THEN "subscribing" ELSE u.sub[s]
    BY DEF FellBack
  <1>4. ModesFit(v)
    BY <1>1, <1>2, <1>3 DEF FellBack, Fits, ModesFit
  <1>5. v.stranded = {}
    BY DEF FellBack, Fits, LinkFits
  <1>6. LinkFits(v)
    <2>1. \A s \in Sessions : v.mode[s] # "direct"
      BY <1>2
    <2> QED
      BY <1>5, <2>1 DEF FellBack, Fits, LinkFits
  <1>7. BridgeFits(v, A, W)
    <2>1. \A s \in Sessions : ~Reaches(v.up, A, s)
      BY ClosedReaches DEF FellBack
    <2>2. \A s \in Sessions : v.sub[s] = "subscribed" <=> u.sub[s] = "subscribed"
      BY <1>1, <1>3 DEF Fits, ModesFit
    <2> QED
      BY <2>1, <2>2 DEF FellBack, Fits, BridgeFits
  <1>8. NotPinned(v)
    BY DEF FellBack, NotPinned
  <1> QED
    BY <1>4, <1>6, <1>7, <1>8 DEF Fits, Alive, FellBack


(* The session is gone from the page and from what reaches the bridge.     *)
Removed(u, v, s, A, W) ==
    /\ v \in Transports
    /\ v.mode = [u.mode EXCEPT ![s] = "none"] /\ v.sub = [u.sub EXCEPT ![s] = "none"]
    /\ v.switching = u.switching \ {s} /\ v.switched = u.switched
    /\ v.stranded = u.stranded \ {s}
    /\ v.status = u.status /\ v.link = u.link
    /\ v.served = u.served \ {s}
    /\ SameLoop(u, v)
    /\ \A r \in Sessions : Reaches(v.up, A, r) <=> r # s /\ Reaches(u.up, A, r)
    /\ \A r \in Sessions : Watching(v.cmds, W, r) <=> r # s /\ Watching(u.cmds, W, r)

(* Taking one session away leaves the paths in order, unless it should     *)
(* have given up the peer.                                                 *)
LEMMA RemovedFits ==
  ASSUME NEW u \in Transports, NEW A, NEW W, Fits(u, A, W), Alive(u), ~u.disposed,
         NEW s \in Sessions, NEW v, Removed(u, v, s, A, W), ~Reverts(v) \/ s \notin u.switching
  PROVE  Fits(v, A, W) /\ Alive(v)
  <1>1. /\ u.mode \in [Sessions -> {"none", "connecting", "cloud", "direct"}]
        /\ u.sub \in [Sessions -> {"none", "subscribing", "subscribed"}]
    BY DEF Transports
  <1>2. /\ \A r \in Sessions : v.mode[r] = IF r = s THEN "none" ELSE u.mode[r]
        /\ \A r \in Sessions : v.sub[r] = IF r = s THEN "none" ELSE u.sub[r]
    BY <1>1 DEF Removed
  <1>3. ModesFit(v)
    BY <1>2 DEF Removed, Fits, ModesFit, SameLoop
  <1>4. LinkFits(v)
    BY <1>2 DEF Removed, Fits, LinkFits, SameLoop
  <1>5. BridgeFits(v, A, W)
    BY <1>2 DEF Removed, Fits, BridgeFits
  <1>6. NotPinned(v)
    BY <1>2 DEF Removed, Fits, NotPinned, Reverts
  <1>7. Alive(v)
    BY <1>2 DEF Removed, Alive, CanUpgrade, HasCentrifugoSessions, SameLoop
  <1> QED
    BY <1>3, <1>4, <1>5, <1>6, <1>7 DEF Fits

(* Nothing of the peer is left; the sessions that took it directly do not  *)
(* know it yet.                                                            *)
LostPeer(u, v, s, A, W) ==
    /\ v \in Transports
    /\ v.mode = u.mode \/ v.mode = [u.mode EXCEPT ![s] = "none"]
    /\ \A r \in Sessions : v.sub[r] = IF v.mode[r] = "none" THEN "none" ELSE u.sub[r]
    /\ v.switching = {} /\ v.stranded = {r \in Sessions : v.mode[r] = "direct"}
    /\ v.status = "failed" /\ v.link = "none" /\ v.served = {}
    /\ v.ladder = u.ladder /\ v.disposed = u.disposed
    /\ CanUpgrade(v) /\ v.ladder = "idle" => v.timer \in {"armed", "stale"}
    /\ \A r \in Sessions : ~Reaches(v.up, A, r)
    /\ \A r \in Sessions : Watching(v.cmds, W, r) <=> v.mode[r] # "none" /\ Watching(u.cmds, W, r)

(* Losing the peer leaves the paths in order, with the sessions on it      *)
(* stranded.                                                               *)
LEMMA LostPeerFits ==
  ASSUME NEW u \in Transports, NEW A, NEW W, Fits(u, A, W), ~u.disposed,
         NEW s \in Sessions, NEW v, LostPeer(u, v, s, A, W)
  PROVE  Fits(v, A, W) /\ Alive(v)
  <1>1. /\ u.mode \in [Sessions -> {"none", "connecting", "cloud", "direct"}]
        /\ u.sub \in [Sessions -> {"none", "subscribing", "subscribed"}]
    BY DEF Transports
  <1>2. \A r \in Sessions : v.mode[r] \in {u.mode[r], "none"}
    BY <1>1 DEF LostPeer
  <1>3. ModesFit(v)
    BY <1>1, <1>2 DEF LostPeer, Fits, ModesFit
  <1>4. LinkFits(v)
    BY <1>2 DEF LostPeer, Fits, LinkFits
  <1>5. BridgeFits(v, A, W)
    BY <1>2 DEF LostPeer, Fits, BridgeFits
  <1> QED
    BY <1>3, <1>4, <1>5 DEF LostPeer, Fits, NotPinned, Alive

(* A teardown leaves the paths in order.                                   *)
LEMMA TeardownFits ==
  ASSUME NEW u \in Transports, NEW A, NEW W, Fits(u, A, W), Alive(u), ~u.disposed,
         NEW s \in Sessions, NEW v, v = TeardownSession(u, s)
  PROVE  /\ v \in Transports /\ Fits(v, A, W) /\ Alive(v)
         /\ v.mode[s] = "none" /\ ~v.disposed /\ v.ladder = u.ladder
  <1>1. PICK m : m = Departed(u, s)
    OBVIOUS
  <1>2. GotDeparted(u, m, s)
    BY <1>1, DepartedIs
  <1>3. m \in Transports /\ u.up \in Seq(Frames) /\ u.cmds \in Seq(Commands)
    BY <1>2, SomeTypes DEF GotDeparted
  <1>9. ~m.disposed /\ m.cmds = u.cmds
    BY <1>2 DEF GotDeparted, SameLoop
  <1>4. /\ s \in u.served <=> (u.mode[s] = "direct" /\ s \notin u.stranded) \/ s \in u.switching
        /\ s \in u.switching => u.mode[s] = "cloud" /\ u.link # "none"
        /\ u.sub[s] = "none" <=> u.mode[s] # "cloud"
    BY DEF Fits, LinkFits, ModesFit
  <1>5. \A r \in Sessions :
           /\ Reaches(u.up \o <<Frame("detach", s, 0)>>, A, r) <=> r # s /\ Reaches(u.up, A, r)
           /\ Watching(Append(u.cmds, [type |-> "unwatch", session |-> s]), W, r)
                <=> r # s /\ Watching(u.cmds, W, r)
    BY <1>3, ReachesMore, WatchingMore
  <1>6. /\ s \notin u.served => ~Reaches(u.up, A, s)
        /\ u.mode[s] # "cloud" => ~Watching(u.cmds, W, s)
    BY <1>4 DEF Fits, BridgeFits
  <1>7. CASE s \notin u.switching
    <2>1. Told(m, v, u.mode[s], s)
      BY <1>1, <1>7, TeardownIs
    <2>2. Removed(u, v, s, A, W)
      <3>1. v.served = u.served \ {s}
        BY <1>2, <1>4, <1>7, <2>1 DEF GotDeparted, Told
      <3>2. \A r \in Sessions : Reaches(v.up, A, r) <=> r # s /\ Reaches(u.up, A, r)
        <4>1. v.up = u.up \o <<Frame("detach", s, 0)>> \/ (v.up = u.up /\ s \notin u.served)
          <5>1. s \in u.served => u.mode[s] = "direct" /\ u.link # "none"
            BY <1>4, <1>7 DEF Fits, LinkFits
          <5> QED
            BY <1>2, <1>7, <2>1, <5>1 DEF GotDeparted, Told
        <4> QED
          BY <1>5, <1>6, <4>1
      <3>3. \A r \in Sessions : Watching(v.cmds, W, r) <=> r # s /\ Watching(u.cmds, W, r)
        BY <1>5, <1>6, <1>9, <2>1 DEF Told
      <3> QED
        BY <1>2, <2>1, <3>1, <3>2, <3>3 DEF Removed, GotDeparted, Told, SamePaths, SameLoop
    <2>3. Fits(v, A, W) /\ Alive(v)
      BY <1>7, <2>2, RemovedFits
    <2>4. v.mode[s] = "none"
      BY <2>2 DEF Removed, Transports
    <2> QED
      BY <2>2, <2>3, <2>4 DEF Removed, SameLoop
  <1>8. CASE s \in u.switching
    <2>1. PICK x : x = MaybeRevertUpgrade(m)
      OBVIOUS
    <2>2. Told(x, v, "cloud", s)
      BY <1>1, <1>4, <1>8, <2>1, TeardownIs
    <2>3. /\ x.mode = m.mode /\ x.sub = m.sub /\ x.switching = m.switching
          /\ x.switched = m.switched /\ x.cmds = m.cmds /\ x.ladder = m.ladder
          /\ x.disposed = m.disposed
      BY <1>3, <2>1, RevertIs
    <2>4. \A r \in Sessions : Watching(v.cmds, W, r) <=> r # s /\ Watching(u.cmds, W, r)
      <3>1. v.cmds = Append(u.cmds, [type |-> "unwatch", session |-> s])
        BY <1>9, <2>2, <2>3 DEF Told
      <3> QED
        BY <1>5, <3>1
    <2>5. CASE ~Reverts(m)
      <3>1. x = m
        BY <1>3, <2>1, <2>5, RevertIs
      <3>2. Removed(u, v, s, A, W)
        <4>1. v.up = u.up \o <<Frame("detach", s, 0)>> /\ v.served = u.served \ {s}
          BY <1>2, <1>4, <1>8, <2>2, <3>1 DEF GotDeparted, Told
        <4> QED
          BY <1>2, <1>5, <2>2, <2>4, <3>1, <4>1
             DEF Removed, GotDeparted, Told, SamePaths, SameLoop
      <3>3. ~Reverts(v)
        BY <2>2, <2>5, <3>1 DEF Told, SamePaths, Reverts
      <3>4. Fits(v, A, W) /\ Alive(v)
        BY <3>2, <3>3, RemovedFits
      <3>5. v.mode[s] = "none"
        BY <3>2 DEF Removed, Transports
      <3> QED
        BY <3>2, <3>4, <3>5 DEF Removed, SameLoop
    <2>6. CASE Reverts(m)
      <3>1. /\ x.stranded = {r \in Sessions : m.mode[r] = "direct"}
            /\ x.status = "failed" /\ x.link = "none" /\ x.served = {} /\ x.down = <<>>
            /\ x.up = IF m.link = "none" THEN m.up ELSE m.up \o <<Frame("close", 0, 0)>>
            /\ CanUpgrade(x) /\ x.ladder = "idle" => x.timer \in {"armed", "stale"}
        BY <1>3, <2>1, <2>6, RevertIs
      <3>2. v \in Transports /\ SamePaths(x, v) /\ SameLoop(x, v) /\ v.status = x.status
            /\ v.link = x.link /\ v.served = x.served /\ v.up = x.up
        BY <2>2 DEF Told
      <3>3. m.switching = {}
        BY <2>6 DEF Reverts
      <3>4. \A r \in Sessions : ~Reaches(v.up, A, r)
        <4>1. m.link # "none" /\ m.up \in Seq(Frames)
          BY <1>2, <1>3, <1>4, <1>8, SomeTypes DEF GotDeparted
        <4>2. v.up = m.up \o <<Frame("close", 0, 0)>>
          BY <3>1, <3>2, <4>1
        <4> QED
          BY <4>1, <4>2, ReachesMore
      <3>5. /\ v.mode = [u.mode EXCEPT ![s] = "none"] /\ v.sub = [u.sub EXCEPT ![s] = "none"]
        BY <1>2, <2>3, <3>2 DEF GotDeparted, SamePaths
      <3>6. \A r \in Sessions : /\ v.mode[r] = IF r = s THEN "none" ELSE u.mode[r]
                                /\ v.sub[r] = IF r = s THEN "none" ELSE u.sub[r]
        BY <3>5 DEF Transports
      <3>7. \A r \in Sessions : u.mode[r] = "none" =>
                u.sub[r] = "none" /\ ~Watching(u.cmds, W, r)
        BY DEF Fits, ModesFit, BridgeFits, Transports
      <3>8. CanUpgrade(v) /\ v.ladder = "idle" => v.timer \in {"armed", "stale"}
        <4>1. CanUpgrade(v) => CanUpgrade(x)
          BY <3>2 DEF CanUpgrade, HasCentrifugoSessions, SamePaths, SameLoop
        <4> QED
          BY <3>1, <3>2, <4>1 DEF SameLoop
      <3>9. LostPeer(u, v, s, A, W)
        <4>1. v.stranded = {r \in Sessions : v.mode[r] = "direct"} /\ v.switching = {}
          BY <2>3, <3>1, <3>2, <3>3 DEF SamePaths
        <4>2. v.ladder = u.ladder /\ v.disposed = u.disposed
          BY <1>2, <2>3, <3>2 DEF GotDeparted, SameLoop
        <4>3. /\ \A r \in Sessions : v.sub[r] = IF v.mode[r] = "none" THEN "none" ELSE u.sub[r]
              /\ \A r \in Sessions : Watching(v.cmds, W, r)
                                       <=> v.mode[r] # "none" /\ Watching(u.cmds, W, r)
          BY <2>4, <3>6, <3>7
        <4> QED
          BY <3>1, <3>2, <3>4, <3>5, <3>8, <4>1, <4>2, <4>3 DEF LostPeer
      <3> QED
        BY <3>6, <3>9, LostPeerFits DEF LostPeer
    <2> QED
      BY <2>5, <2>6
  <1> QED
    BY <1>7, <1>8


(* A switch given up leaves the paths in order: with the last one,         *)
(* unsuccessful, the peer goes too.                                        *)
LEMMA AbortFits ==
  ASSUME NEW u \in Transports, NEW A, NEW W, Fits(u, A, W), Alive(u),
         NEW s \in u.switching, NEW v, v = AbortSessionSwitch(u, s)
  PROVE  v \in Transports /\ Fits(v, A, W) /\ Alive(v)
  <1>0. s \in Sessions /\ u.mode[s] = "cloud" /\ ~u.disposed /\ u.link # "none"
    BY DEF Fits, ModesFit, LinkFits, Transports
  <1> DEFINE w == [u EXCEPT !.switching = @ \ {s}]
  <1>1. w \in Transports
    BY DEF Transports
  <1>2. /\ w.mode = u.mode /\ w.sub = u.sub /\ w.switching = u.switching \ {s}
        /\ w.switched = u.switched /\ w.stranded = u.stranded
        /\ SameLink(u, w) /\ SameLoop(u, w) /\ w.cmds = u.cmds
    BY DEF Transports, SameLink, SameLoop
  <1>3. PICK d : d = DetachFrom(w, s)
    OBVIOUS
  <1>4. v = MaybeRevertUpgrade(d)
    BY <1>3 DEF AbortSessionSwitch
  <1> HIDE DEF w
  <1>5. /\ d \in Transports
        /\ SamePaths(w, d) /\ SameLoop(w, d) /\ d.cmds = w.cmds
        /\ d.status = w.status /\ d.link = w.link
        /\ d.served = w.served \ {s}
        /\ d.up = IF w.link = "none" THEN w.up ELSE w.up \o <<Frame("detach", s, 0)>>
    BY <1>0, <1>1, <1>3, DetachFromIs
  <1>6. d.up = u.up \o <<Frame("detach", s, 0)>> /\ d.up \in Seq(Frames) /\ d.link # "none"
    BY <1>0, <1>2, <1>5, SomeTypes DEF SameLink
  <1>7. \A r \in Sessions : Reaches(d.up, A, r) <=> r # s /\ Reaches(u.up, A, r)
    BY <1>0, <1>6, SomeTypes, ReachesMore
  <1>8. CASE ~Reverts(d)
    <2>1. v = d
      BY <1>4, <1>5, <1>8, RevertIs
    <2>2. /\ v.mode = u.mode /\ v.sub = u.sub /\ v.switching = u.switching \ {s}
          /\ v.switched = u.switched /\ v.stranded = u.stranded
          /\ v.status = u.status /\ v.link = u.link /\ v.served = u.served \ {s}
          /\ SameLoop(u, v) /\ v.cmds = u.cmds
      BY <1>2, <1>5, <2>1 DEF SamePaths, SameLink, SameLoop
    <2>3. ModesFit(v)
      BY <2>2 DEF Fits, ModesFit, SameLoop
    <2>4. LinkFits(v)
      BY <1>0, <2>2 DEF Fits, LinkFits, SameLoop
    <2>5. BridgeFits(v, A, W)
      BY <1>7, <2>1, <2>2 DEF Fits, BridgeFits, SameLoop
    <2>6. NotPinned(v) /\ Alive(v)
      BY <1>8, <2>1, <2>2 DEF Fits, NotPinned, Reverts, Alive, CanUpgrade, HasCentrifugoSessions,
                              SameLoop
    <2> QED
      BY <1>5, <2>1, <2>3, <2>4, <2>5, <2>6 DEF Fits
  <1>9. CASE Reverts(d)
    <2>1. /\ v \in Transports /\ v.mode = d.mode /\ v.sub = d.sub
          /\ v.switching = d.switching /\ v.cmds = d.cmds /\ v.ladder = d.ladder
          /\ v.disposed = d.disposed
          /\ v.stranded = {r \in Sessions : d.mode[r] = "direct"}
          /\ v.status = "failed" /\ v.link = "none" /\ v.served = {}
          /\ v.up = IF d.link = "none" THEN d.up ELSE d.up \o <<Frame("close", 0, 0)>>
          /\ CanUpgrade(v) /\ v.ladder = "idle" => v.timer \in {"armed", "stale"}
      BY <1>4, <1>5, <1>9, RevertIs
    <2>2. \A r \in Sessions : ~Reaches(v.up, A, r)
      <3>1. v.up = d.up \o <<Frame("close", 0, 0)>>
        BY <1>6, <2>1
      <3>2. ASSUME NEW r \in Sessions
            PROVE  ~Reaches(d.up \o <<Frame("close", 0, 0)>>, A, r)
        BY <1>6, ReachesMore
      <3> QED
        BY <3>1, <3>2
    <2>3. \A r \in Sessions : u.mode[r] = "none" => u.sub[r] = "none" /\ ~Watching(u.cmds, W, r)
      BY <1>0 DEF Fits, ModesFit, BridgeFits, Transports
    <2>4. LostPeer(u, v, s, A, W)
      BY <1>2, <1>5, <1>9, <2>1, <2>2, <2>3
         DEF LostPeer, SamePaths, SameLoop, Reverts
    <2> QED
      BY <1>0, <2>1, <2>4, LostPeerFits
  <1> QED
    BY <1>8, <1>9

(* A session that is not on the page gets an entry; it takes the attached  *)
(* peer, the cloud, or waits.                                              *)
Entered(u, e, s) ==
    /\ e \in Transports
    /\ e.mode = [u.mode EXCEPT ![s] = "connecting"] /\ e.sub = u.sub
    /\ e.switching = u.switching /\ e.switched = u.switched /\ e.stranded = u.stranded
    /\ e.link = u.link /\ e.served = u.served /\ e.up = u.up /\ e.cmds = u.cmds
    /\ e.disposed = u.disposed /\ e.timer = u.timer /\ SameKeys(u, e)
    /\ IF u.status = "none" THEN e.status = "connecting" /\ e.ladder = "local"
                            ELSE e.status = u.status /\ e.ladder = u.ladder

(* A new entry waits, and the first of a bridge starts the climb.          *)
LEMMA EntryIs ==
  ASSUME NEW u \in Transports, NEW s \in Sessions,
         NEW e, e = EnsurePeer([u EXCEPT !.mode[s] = "connecting"])
  PROVE  Entered(u, e, s)
  <1> DEFINE w == [u EXCEPT !.mode[s] = "connecting"]
  <1>1. w \in Transports
    BY DEF Transports
  <1>2. /\ w.mode = [u.mode EXCEPT ![s] = "connecting"] /\ w.sub = u.sub
        /\ w.switching = u.switching /\ w.switched = u.switched /\ w.stranded = u.stranded
        /\ SameLink(u, w) /\ SameLoop(u, w) /\ w.cmds = u.cmds /\ SameKeys(u, w)
    BY DEF Transports, SameLink, SameLoop, SameKeys
  <1>3. e = EnsurePeer(w)
    OBVIOUS
  <1> HIDE DEF w
  <1>4. CASE w.status = "none"
    <2>1. e = [w EXCEPT !.status = "connecting", !.ladder = "local"]
      BY <1>3, <1>4 DEF EnsurePeer
    <2>2. e \in Transports
      BY <1>1, <2>1, ZenonT(60) DEF Transports, Rungs
    <2>3. /\ SamePaths(w, e) /\ e.link = w.link /\ e.served = w.served
          /\ e.up = w.up /\ e.cmds = w.cmds /\ e.disposed = w.disposed /\ e.timer = w.timer
          /\ e.status = "connecting" /\ e.ladder = "local" /\ SameKeys(w, e)
      BY <1>1, <2>1, ZenonT(60) DEF Transports, SamePaths, SameKeys
    <2> QED
      BY <1>2, <1>4, <2>2, <2>3 DEF Entered, SamePaths, SameLink, SameLoop, SameKeys
  <1>5. CASE w.status # "none"
    <2>1. e = w
      BY <1>3, <1>5 DEF EnsurePeer
    <2> QED
      BY <1>1, <1>2, <1>5, <2>1 DEF Entered, SameLink, SameLoop
  <1> QED
    BY <1>4, <1>5

(* Nothing of a session that is not on the page is known to the peer or    *)
(* the bridge.                                                             *)
LEMMA EntryFacts ==
  ASSUME NEW u \in Transports, NEW A, NEW W, Fits(u, A, W), Alive(u), ~u.disposed,
         NEW s \in Sessions, u.mode[s] = "none", NEW e, Entered(u, e, s)
  PROVE  /\ \A r \in Sessions : e.mode[r] = IF r = s THEN "connecting" ELSE u.mode[r]
         /\ e.mode \in [Sessions -> {"none", "connecting", "cloud", "direct"}]
         /\ e.sub \in [Sessions -> {"none", "subscribing", "subscribed"}]
         /\ u.sub[s] = "none" /\ s \notin u.switching /\ s \notin u.stranded /\ s \notin u.served
         /\ ~Reaches(u.up, A, s) /\ ~Watching(u.cmds, W, s)
  <1>1. /\ \A r \in Sessions : e.mode[r] = IF r = s THEN "connecting" ELSE u.mode[r]
        /\ e.mode \in [Sessions -> {"none", "connecting", "cloud", "direct"}]
        /\ e.sub \in [Sessions -> {"none", "subscribing", "subscribed"}]
    BY DEF Entered, Transports
  <1>2. /\ u.sub[s] = "none" /\ s \notin u.switching /\ s \notin u.stranded /\ s \notin u.served
    BY DEF Fits, ModesFit, LinkFits
  <1>3. ~Reaches(u.up, A, s) /\ ~Watching(u.cmds, W, s)
    BY <1>2 DEF Fits, BridgeFits
  <1> QED
    BY <1>1, <1>2, <1>3

(* A session that enters on an attached peer leaves the paths in order.    *)
LEMMA EntryDirectFits ==
  ASSUME NEW u \in Transports, NEW A, NEW W, Fits(u, A, W), Alive(u), ~u.disposed,
         NEW s \in Sessions, u.mode[s] = "none", NEW e, Entered(u, e, s),
         e.status = "attached", NEW v, v = GoDirect(e, s)
  PROVE  v \in Transports /\ Fits(v, A, W) /\ Alive(v)
  <1>1. /\ e \in Transports
        /\ e.mode = [u.mode EXCEPT ![s] = "connecting"] /\ e.sub = u.sub
        /\ e.switching = u.switching /\ e.switched = u.switched /\ e.stranded = u.stranded
        /\ e.link = u.link /\ e.served = u.served /\ e.up = u.up /\ e.cmds = u.cmds
        /\ e.disposed = u.disposed
        /\ IF u.status = "none" THEN e.status = "connecting" /\ e.ladder = "local"
                                ELSE e.status = u.status /\ e.ladder = u.ladder
    BY DEF Entered
  <1>2. /\ \A r \in Sessions : e.mode[r] = IF r = s THEN "connecting" ELSE u.mode[r]
        /\ e.mode \in [Sessions -> {"none", "connecting", "cloud", "direct"}]
        /\ e.sub \in [Sessions -> {"none", "subscribing", "subscribed"}]
    BY EntryFacts
  <1>3. /\ u.sub[s] = "none" /\ s \notin u.switching /\ s \notin u.stranded /\ s \notin u.served
        /\ ~Reaches(u.up, A, s) /\ ~Watching(u.cmds, W, s)
    BY EntryFacts
  <1>4. e.link # "none" /\ u.status = "attached"
    BY <1>1 DEF Fits, LinkFits
  <1>5. WentDirect(e, v, s)
    BY <1>1, <1>4, GoDirectIs
  <1>6. \A r \in Sessions : Reaches(v.up, A, r) <=> r = s \/ Reaches(u.up, A, r)
    <2> DEFINE a == u.up \o <<Frame("attach", s, 0)>>
    <2>1. a \in Seq(Frames) /\ e.held[s] \in Seq(Keys) /\ u.up \in Seq(Frames)
      BY <1>1, SomeTypes, FramesTyped
    <2>2. ASSUME NEW r \in Sessions PROVE Reaches(a, A, r) <=> r = s \/ Reaches(u.up, A, r)
      BY <2>1, ReachesMore
    <2>3. v.up = a \o KeyFrames(s, e.held[s])
      BY <1>1, <1>5 DEF WentDirect
    <2> HIDE DEF a
    <2>4. ASSUME NEW r \in Sessions PROVE Reaches(v.up, A, r) <=> Reaches(a, A, r)
      <3>1. Reaches(a \o KeyFrames(s, e.held[s]), A, r) <=> Reaches(a, A, r)
        BY <2>1, KeysAsFrames
      <3> QED
        BY <2>3, <3>1
    <2> QED
      BY <2>2, <2>4
  <1>7. \A r \in Sessions : v.mode[r] = IF r = s THEN "direct" ELSE u.mode[r]
    <2>1. v.mode = [e.mode EXCEPT ![s] = "direct"]
      BY <1>5 DEF WentDirect
    <2> QED
      BY <1>2, <2>1
  <1>8. /\ v \in Transports /\ v.sub = u.sub /\ v.switching = u.switching
        /\ v.switched = u.switched /\ v.stranded = u.stranded /\ v.status = "attached"
        /\ u.status = "attached" /\ v.link = u.link /\ v.served = u.served \union {s}
        /\ v.ladder = u.ladder /\ v.disposed = u.disposed /\ v.cmds = u.cmds
    BY <1>1, <1>5 DEF WentDirect, SameLoop
  <1>9. ModesFit(v)
    BY <1>3, <1>7, <1>8 DEF Fits, ModesFit
  <1>10. LinkFits(v)
    <2>1. u.switching \subseteq Sessions /\ u.stranded \subseteq Sessions
      BY DEF Transports
    <2>2. u.served = {r \in Sessions : u.mode[r] = "direct" /\ r \notin u.stranded} \union u.switching
      BY DEF Fits, LinkFits
    <2>3. v.served = {r \in Sessions : v.mode[r] = "direct" /\ r \notin v.stranded} \union v.switching
      BY <1>3, <1>7, <1>8, <2>2
    <2>4. /\ \A r \in v.switching : v.mode[r] = "cloud"
          /\ \A r \in v.stranded : v.mode[r] = "direct"
      BY <1>3, <1>7, <1>8, <2>1 DEF Fits, LinkFits
    <2> QED
      BY <1>1, <1>4, <1>8, <2>3, <2>4 DEF Fits, LinkFits
  <1>11. BridgeFits(v, A, W)
    BY <1>3, <1>6, <1>8 DEF Fits, BridgeFits
  <1>12. NotPinned(v) /\ Alive(v)
    BY <1>7, <1>8 DEF Fits, NotPinned, Alive, CanUpgrade
  <1> QED
    BY <1>8, <1>9, <1>10, <1>11, <1>12 DEF Fits

(* A session that enters after the climb has failed leaves the paths in    *)
(* order and the loop alive.                                               *)
LEMMA EntryCloudFits ==
  ASSUME NEW u \in Transports, NEW A, NEW W, Fits(u, A, W), Alive(u), ~u.disposed,
         NEW s \in Sessions, u.mode[s] = "none", NEW e, Entered(u, e, s),
         e.status = "failed", localOnly \in BOOLEAN,
         NEW w, w = GoCentrifugo(e, s), NEW v, v = EnsureUpgradeLoop(w, TRUE)
  PROVE  v \in Transports /\ Fits(v, A, W) /\ Alive(v)
  <1>1. /\ e \in Transports
        /\ e.mode = [u.mode EXCEPT ![s] = "connecting"] /\ e.sub = u.sub
        /\ e.switching = u.switching /\ e.switched = u.switched /\ e.stranded = u.stranded
        /\ e.link = u.link /\ e.served = u.served /\ e.up = u.up /\ e.cmds = u.cmds
        /\ e.disposed = u.disposed
        /\ IF u.status = "none" THEN e.status = "connecting" /\ e.ladder = "local"
                                ELSE e.status = u.status /\ e.ladder = u.ladder
    BY DEF Entered
  <1>2. /\ \A r \in Sessions : e.mode[r] = IF r = s THEN "connecting" ELSE u.mode[r]
        /\ e.mode \in [Sessions -> {"none", "connecting", "cloud", "direct"}]
        /\ e.sub \in [Sessions -> {"none", "subscribing", "subscribed"}]
    BY EntryFacts
  <1>3. /\ u.sub[s] = "none" /\ s \notin u.switching /\ s \notin u.stranded /\ s \notin u.served
        /\ ~Reaches(u.up, A, s) /\ ~Watching(u.cmds, W, s)
    BY EntryFacts
  <1>4. w = GoCentrifugo(e, s)
    OBVIOUS
  <1>5. v = EnsureUpgradeLoop(w, TRUE) /\ u.status = "failed"
    BY <1>1
  <1>6. /\ w \in Transports
        /\ w.sub = IF localOnly THEN u.sub ELSE [u.sub EXCEPT ![s] = "subscribing"]
        /\ \A r \in Sessions : w.mode[r] = IF r # s THEN u.mode[r]
                                           ELSE IF localOnly THEN "connecting" ELSE "cloud"
        /\ w.switching = u.switching /\ w.switched = u.switched /\ w.stranded = u.stranded
        /\ SameLink(e, w) /\ SameLoop(e, w) /\ w.cmds = u.cmds
    <2>1. CASE localOnly
      <3>1. WentWaiting(e, w, s)
        BY <1>1, <1>4, <2>1, GoWaitIs
      <3>2. w.mode = [e.mode EXCEPT ![s] = "connecting"]
        BY <3>1 DEF WentWaiting
      <3> QED
        BY <1>1, <1>2, <1>3, <2>1, <3>1, <3>2 DEF WentWaiting
    <2>2. CASE ~localOnly
      <3>1. e.mode[s] # "cloud"
        BY <1>2
      <3>2. WentCloud(e, w, s)
        BY <1>1, <1>4, <2>2, <3>1, GoCloudIs
      <3>3. w.mode = [e.mode EXCEPT ![s] = "cloud"]
        BY <3>2 DEF WentCloud
      <3> QED
        BY <1>1, <1>2, <1>3, <2>2, <3>2, <3>3 DEF WentCloud
    <2> QED
      BY <2>1, <2>2
  <1>7. \A r \in Sessions : w.sub[r] = IF r = s /\ ~localOnly THEN "subscribing" ELSE u.sub[r]
    BY <1>6 DEF Transports
  <1>8. /\ w.status = "failed" /\ w.link = u.link /\ w.served = u.served /\ w.up = u.up
        /\ w.ladder = u.ladder /\ w.disposed = u.disposed
    BY <1>1, <1>5, <1>6 DEF SameLink, SameLoop
  <1>9. ModesFit(w)
    BY <1>3, <1>5, <1>6, <1>7, <1>8 DEF Fits, ModesFit
  <1>10. LinkFits(w)
    <2>1. u.switching \subseteq Sessions /\ u.stranded \subseteq Sessions
      BY DEF Transports
    <2>2. u.served = {r \in Sessions : u.mode[r] = "direct" /\ r \notin u.stranded} \union u.switching
      BY DEF Fits, LinkFits
    <2>3. \A r \in Sessions : w.mode[r] = "direct" <=> u.mode[r] = "direct"
      BY <1>6
    <2>4. w.served = {r \in Sessions : w.mode[r] = "direct" /\ r \notin w.stranded} \union w.switching
      BY <1>6, <1>8, <2>2, <2>3
    <2>5. /\ \A r \in w.switching : w.mode[r] = "cloud"
          /\ \A r \in w.stranded : w.mode[r] = "direct"
      BY <1>3, <1>6, <2>1 DEF Fits, LinkFits
    <2> QED
      BY <1>5, <1>8, <2>4, <2>5 DEF Fits, LinkFits
  <1>11. BridgeFits(w, A, W)
    BY <1>3, <1>6, <1>7, <1>8 DEF Fits, BridgeFits
  <1>12. Fits(w, A, W)
    BY <1>8, <1>9, <1>10, <1>11 DEF Fits, NotPinned
  <1>13. /\ v \in Transports
         /\ SamePaths(w, v) /\ SameLink(w, v) /\ v.cmds = w.cmds
         /\ v.ladder = w.ladder /\ v.disposed = w.disposed
         /\ CanUpgrade(w) /\ w.ladder = "idle" => v.timer \in {"armed", "stale"}
    BY <1>5, <1>6, EnsureIs, ZenonT(60)
  <1>14. Fits(v, A, W)
    BY <1>6, <1>12, <1>13, CalmFits
  <1>15. Alive(v)
    BY <1>13, ZenonT(60) DEF Alive, CanUpgrade, HasCentrifugoSessions, SamePaths, SameLink
  <1> QED
    BY <1>13, <1>14, <1>15

(* A session that enters during the climb leaves the paths in order.       *)
LEMMA EntryWaitsFits ==
  ASSUME NEW u \in Transports, NEW A, NEW W, Fits(u, A, W), Alive(u), ~u.disposed,
         NEW s \in Sessions, u.mode[s] = "none", NEW e, Entered(u, e, s),
         e.status \notin {"attached", "failed"}, NEW v, v = e
  PROVE  v \in Transports /\ Fits(v, A, W) /\ Alive(v)
  <1>1. /\ e \in Transports
        /\ e.mode = [u.mode EXCEPT ![s] = "connecting"] /\ e.sub = u.sub
        /\ e.switching = u.switching /\ e.switched = u.switched /\ e.stranded = u.stranded
        /\ e.link = u.link /\ e.served = u.served /\ e.up = u.up /\ e.cmds = u.cmds
        /\ e.disposed = u.disposed
        /\ IF u.status = "none" THEN e.status = "connecting" /\ e.ladder = "local"
                                ELSE e.status = u.status /\ e.ladder = u.ladder
    BY DEF Entered
  <1>2. /\ \A r \in Sessions : e.mode[r] = IF r = s THEN "connecting" ELSE u.mode[r]
        /\ e.mode \in [Sessions -> {"none", "connecting", "cloud", "direct"}]
        /\ e.sub \in [Sessions -> {"none", "subscribing", "subscribed"}]
    BY EntryFacts
  <1>3. /\ u.sub[s] = "none" /\ s \notin u.switching /\ s \notin u.stranded /\ s \notin u.served
        /\ ~Reaches(u.up, A, s) /\ ~Watching(u.cmds, W, s)
    BY EntryFacts
  <1>4. v = e /\ e.status = "connecting"
    BY <1>1 DEF Transports
  <1>5. u.status \in {"none", "connecting"} /\ u.link = "none"
    BY <1>1, <1>4 DEF Fits, LinkFits
  <1>6. ModesFit(v)
    BY <1>1, <1>2, <1>3, <1>4, <1>5 DEF Fits, ModesFit
  <1>7. LinkFits(v)
    BY <1>1, <1>2, <1>3, <1>4, <1>5 DEF Fits, LinkFits
  <1>8. BridgeFits(v, A, W)
    BY <1>1, <1>2, <1>4 DEF Fits, BridgeFits
  <1> QED
    BY <1>1, <1>4, <1>6, <1>7, <1>8 DEF Fits, NotPinned, Alive, CanUpgrade


(* A failed climb leaves the paths in order.                               *)
LEMMA ClimbFailedFits ==
  ASSUME NEW u \in Transports, NEW A, NEW W, Fits(u, A, W), u.ladder # "idle",
         localOnly \in BOOLEAN, NEW v, v = ClimbFailed(u)
  PROVE  v \in Transports /\ Fits(v, A, W) /\ Alive(v)
  <1> DEFINE ended == [u EXCEPT !.ladder = "idle"]
  <1>1. ended \in Transports
    BY DEF Transports
  <1>2. /\ SamePaths(u, ended) /\ SameLink(u, ended) /\ ended.disposed = u.disposed
        /\ ended.cmds = u.cmds /\ ended.ladder = "idle"
    BY DEF Transports, SamePaths, SameLink
  <1>3. /\ Aborted(u) => v = [ended EXCEPT !.timer = "off"]
        /\ ~Aborted(u) /\ u.status = "connecting" => v = FinalizeFailed(ended)
        /\ ~Aborted(u) /\ u.status # "connecting" => v = [ended EXCEPT !.timer = "armed"]
    BY ClimbFailedCases
  <1> HIDE DEF ended
  <1>4. Fits(ended, A, W)
    BY <1>2, CalmFits
  <1>5. ASSUME NEW timer \in {"off", "armed", "stale"}, Retimed(ended, v, timer),
               ~Aborted(u) => timer = "armed"
        PROVE  v \in Transports /\ Fits(v, A, W) /\ Alive(v)
    <2>1. /\ v \in Transports /\ SamePaths(ended, v) /\ SameLink(ended, v)
          /\ v.disposed = ended.disposed /\ v.cmds = ended.cmds /\ v.ladder = "idle"
          /\ ~Aborted(u) => v.timer = "armed"
      BY <1>2, <1>5 DEF Retimed
    <2>2. Fits(v, A, W)
      BY <1>1, <1>4, <2>1, CalmFits
    <2>3. Aborted(u) => ~CanUpgrade(v)
      BY <1>2, <2>1 DEF Aborted, CanUpgrade, HasCentrifugoSessions, SamePaths, SameLink
    <2> QED
      BY <2>1, <2>2, <2>3 DEF Alive
  <1>6. ASSUME ~Aborted(u), u.status = "connecting"
        PROVE  v \in Transports /\ Fits(v, A, W) /\ Alive(v)
    <2>1. v = FinalizeFailed(ended) /\ ended.status = "connecting"
      BY <1>2, <1>3, <1>6 DEF SameLink
    <2>2. \A r \in ended.stranded : ended.mode[r] # "cloud"
      BY <1>4 DEF Fits, LinkFits
    <2>3. FellBack(ended, v)
      BY <1>1, <2>1, <2>2, FinalizeFailedIs
    <2>4. Fits(v, A, W) /\ Alive(v)
      BY <1>1, <1>4, <2>1, <2>3, FinalizeFailedFits
    <2> QED
      BY <2>3, <2>4 DEF FellBack
  <1>7. CASE Aborted(u)
    <2>1. Retimed(ended, v, "off")
      BY <1>1, <1>3, <1>7, RetimedIs
    <2> QED
      BY <1>5, <1>7, <2>1
  <1>8. CASE ~Aborted(u) /\ u.status # "connecting"
    <2>1. Retimed(ended, v, "armed")
      BY <1>1, <1>3, <1>8, RetimedIs
    <2> QED
      BY <1>5, <2>1
  <1> QED
    BY <1>6, <1>7, <1>8

(* A peer that is lost leaves the paths in order.                          *)
LEMMA PeerLostFits ==
  ASSUME NEW u \in Transports, NEW A, NEW W, Fits(u, A, W), u.status = "attached",
         localOnly \in BOOLEAN, NEW v, v = FinalizeFailed(u)
  PROVE  FellBack(u, v) /\ Fits(v, A, W) /\ Alive(v)
  <1>1. \A r \in u.stranded : u.mode[r] # "cloud"
    BY DEF Fits, LinkFits
  <1>2. FellBack(u, v)
    BY <1>1, FinalizeFailedIs
  <1> QED
    BY <1>2, FinalizeFailedFits

(* A rung that connects leaves the paths in order.                         *)
LEMMA CommittedFits ==
  ASSUME NEW u \in Transports, NEW A, NEW W, Fits(u, A, W), ~u.disposed, u.ladder = "idle",
         u.status \in {"connecting", "failed"}, NEW rung \in Rungs,
         NEW v, \/ u.status = "connecting" /\ v = AttachPeer(u, rung)
                \/ u.status = "failed" /\ v = CommitUpgrade(u, rung)
  PROVE  v \in Transports /\ Fits(v, A, W) /\ Alive(v)
  <1> DEFINE cohort == {r \in Sessions : u.mode[r] = "cloud"}
             fresh == {r \in Sessions : u.mode[r] = "connecting"}
  <1>1. /\ u.link = "none" /\ u.served = {} /\ u.switching = {}
        /\ u.switching \subseteq Sessions /\ u.stranded \subseteq Sessions
        /\ \A r \in Sessions : u.mode[r] = "direct" <=> r \in u.stranded
        /\ \A r \in Sessions : ~Reaches(u.up, A, r)
    <2>1. u.link = "none" /\ u.served = {}
      BY DEF Fits, LinkFits
    <2>2. {r \in Sessions : u.mode[r] = "direct" /\ r \notin u.stranded} \union u.switching = {}
      BY <2>1 DEF Fits, LinkFits
    <2>3. u.stranded \subseteq Sessions
      BY DEF Transports
    <2>4. \A r \in Sessions : u.mode[r] = "direct" <=> r \in u.stranded
      BY <2>2, <2>3 DEF Fits, LinkFits
    <2> QED
      BY <2>1, <2>2, <2>3, <2>4 DEF Fits, BridgeFits
  <1>2. u.status = "connecting" => cohort = {}
    BY DEF Fits, ModesFit
  <1>3. /\ Committed(u, v, rung)
        /\ v.switching = cohort
        /\ v.served = cohort \union fresh
        /\ \A r \in Sessions : Reaches(v.up, A, r) <=> r \in cohort \union fresh
    <2>1. CASE u.status = "connecting" /\ v = AttachPeer(u, rung)
      <3>1. /\ Committed(u, v, rung)
            /\ v.switching = u.switching
            /\ v.served = u.served \union {r \in Sessions : u.mode[r] = "connecting"}
            /\ \A r \in Sessions : Reaches(v.up, A, r)
                                     <=> u.mode[r] = "connecting" \/ Reaches(u.up, A, r)
        BY <2>1, AttachPeerIs
      <3> QED
        BY <1>1, <1>2, <2>1, <3>1
    <2>2. CASE u.status = "failed" /\ v = CommitUpgrade(u, rung)
      <3>1. /\ Committed(u, v, rung)
            /\ v.switching = cohort
            /\ v.served = u.served \union {r \in Sessions : u.mode[r] \in {"connecting", "cloud"}}
            /\ \A r \in Sessions : Reaches(v.up, A, r)
                 <=> u.mode[r] \in {"connecting", "cloud"} \/ Reaches(u.up, A, r)
        BY <2>2, CommitUpgradeIs
      <3> QED
        BY <1>1, <3>1
    <2> QED
      BY <2>1, <2>2
  <1>4. /\ v \in Transports /\ v.sub = u.sub /\ v.stranded = u.stranded
        /\ v.status = "attached" /\ v.link = rung /\ rung # "none"
        /\ v.ladder = "idle" /\ v.disposed = u.disposed /\ v.cmds = u.cmds
        /\ \A r \in Sessions : v.mode[r] = IF u.mode[r] = "connecting" THEN "direct" ELSE u.mode[r]
    BY <1>3 DEF Committed, Rungs
  <1>5. ModesFit(v)
    BY <1>4 DEF Fits, ModesFit
  <1>6. LinkFits(v)
    <2>1. v.served = {r \in Sessions : v.mode[r] = "direct" /\ r \notin v.stranded} \union v.switching
      BY <1>1, <1>3, <1>4
    <2>2. /\ \A r \in v.switching : v.mode[r] = "cloud"
          /\ \A r \in v.stranded : v.mode[r] = "direct"
      BY <1>1, <1>3, <1>4
    <2> QED
      BY <1>4, <2>1, <2>2 DEF LinkFits
  <1>7. BridgeFits(v, A, W)
    BY <1>3, <1>4 DEF Fits, BridgeFits
  <1>8. NotPinned(v)
    BY <1>3, <1>4 DEF NotPinned
  <1> QED
    BY <1>4, <1>5, <1>6, <1>7, <1>8 DEF Fits, Alive, CanUpgrade

(* A switch that succeeds leaves the paths in order.                       *)
LEMMA SwitchFits ==
  ASSUME NEW u \in Transports, NEW A, NEW W, Fits(u, A, W), Alive(u),
         NEW s \in u.switching, NEW v, Switched(u, v, s)
  PROVE  v \in Transports /\ Fits(v, A, W) /\ Alive(v)
  <1>1. /\ s \in Sessions /\ u.mode[s] = "cloud" /\ ~u.disposed /\ u.link # "none"
        /\ s \in u.served /\ s \notin u.stranded /\ u.switching \subseteq Sessions
        /\ u.stranded \subseteq Sessions /\ u.out[s] \in Seq(Keys)
        /\ u.up \in Seq(Frames) /\ u.cmds \in Seq(Commands)
    <2>1. s \in Sessions /\ u.switching \subseteq Sessions /\ u.stranded \subseteq Sessions
      BY DEF Transports
    <2> QED
      BY <2>1, SomeTypes DEF Fits, ModesFit, LinkFits
  <1>2. /\ v \in Transports
        /\ v.mode = [u.mode EXCEPT ![s] = "direct"] /\ v.sub = [u.sub EXCEPT ![s] = "none"]
        /\ v.switching = u.switching \ {s} /\ v.switched = TRUE /\ v.stranded = u.stranded
        /\ v.status = u.status /\ v.link = u.link /\ v.served = u.served
        /\ v.up = u.up \o KeyFrames(s, u.out[s])
        /\ SameLoop(u, v) /\ v.cmds = Append(u.cmds, [type |-> "unwatch", session |-> s])
    BY DEF Switched
  <1>3. \A r \in Sessions : /\ v.mode[r] = IF r = s THEN "direct" ELSE u.mode[r]
                            /\ v.sub[r] = IF r = s THEN "none" ELSE u.sub[r]
    BY <1>2 DEF Transports
  <1>4. ASSUME NEW r \in Sessions PROVE Reaches(v.up, A, r) <=> Reaches(u.up, A, r)
    <2>1. Reaches(u.up \o KeyFrames(s, u.out[s]), A, r) <=> Reaches(u.up, A, r)
      BY <1>1, KeysAsFrames
    <2> QED
      BY <1>2, <2>1
  <1>5. ASSUME NEW r \in Sessions
        PROVE  Watching(v.cmds, W, r) <=> r # s /\ Watching(u.cmds, W, r)
    <2>1. Watching(Append(u.cmds, [type |-> "unwatch", session |-> s]), W, r)
            <=> r # s /\ Watching(u.cmds, W, r)
      BY <1>1, WatchingMore
    <2> QED
      BY <1>2, <2>1
  <1>6. ModesFit(v)
    BY <1>1, <1>2, <1>3 DEF Fits, ModesFit, SameLoop
  <1>7. LinkFits(v)
    <2>1. u.served = {r \in Sessions : u.mode[r] = "direct" /\ r \notin u.stranded} \union u.switching
      BY <1>1 DEF Fits, LinkFits
    <2>2. v.served = {r \in Sessions : v.mode[r] = "direct" /\ r \notin v.stranded} \union v.switching
      BY <1>1, <1>2, <1>3, <2>1
    <2>3. /\ \A r \in v.switching : v.mode[r] = "cloud"
          /\ \A r \in v.stranded : v.mode[r] = "direct"
      BY <1>1, <1>2, <1>3 DEF Fits, LinkFits
    <2> QED
      BY <1>1, <1>2, <2>2, <2>3 DEF Fits, LinkFits, SameLoop
  <1>8. BridgeFits(v, A, W)
    BY <1>1, <1>2, <1>3, <1>4, <1>5 DEF Fits, BridgeFits
  <1>9. NotPinned(v) /\ Alive(v)
    BY <1>2, <1>3 DEF NotPinned, Alive, CanUpgrade, HasCentrifugoSessions, SameLoop
  <1> QED
    BY <1>2, <1>6, <1>7, <1>8, <1>9 DEF Fits

(* The keys on their way are keys.                                         *)
LEMMA KeysOnTheWay ==
  ASSUME NEW u \in Transports
  PROVE  KeysOf(u.up) \subseteq Keys
  BY DEF KeysOf, Transports, Frames, Frame, ToSet

(* The page is gone.                                                       *)
Gone(c, v, keys) ==
    /\ v \in Transports /\ SamePaths(c, v) /\ v.status = c.status /\ v.cmds = c.cmds
    /\ v.link = "none" /\ v.served = {} /\ v.up = <<>> /\ v.ladder = c.ladder
    /\ v.disposed = c.disposed /\ v.held = c.held /\ v.out = c.out /\ v.flying = c.flying
    /\ v.cloud = c.cloud /\ v.lost = c.lost \union keys /\ c.exposed \subseteq v.exposed

(* Dropping what was on its way changes no path.                           *)
LEMMA LetGo ==
  ASSUME NEW c \in Transports, c.link = "none", c.served = {}, NEW keys \in SUBSET Keys,
         NEW v, v = [[c EXCEPT !.timer = "off"] EXCEPT !.up = <<>>, !.lost = @ \union keys]
  PROVE  Gone(c, v, keys)
  <1>1. PICK empty \in Seq(Frames) : empty = <<>>
    BY EmptySeqOf
  <1>2. PICK lost \in SUBSET Keys : lost = c.lost \union keys
    BY DEF Transports
  <1>3. v = [c EXCEPT !.timer = "off", !.up = empty, !.lost = lost]
    BY <1>1, <1>2 DEF Transports
  <1>4. v \in Transports
    BY <1>3, ZenonT(60) DEF Transports
  <1>5. SamePaths(c, v) /\ v.status = c.status /\ v.cmds = c.cmds
    BY <1>3 DEF Transports, SamePaths
  <1>6. v.link = c.link /\ v.served = c.served /\ v.up = <<>> /\ v.ladder = c.ladder
    BY <1>1, <1>3 DEF Transports
  <1>7. /\ v.disposed = c.disposed /\ v.held = c.held /\ v.out = c.out /\ v.flying = c.flying
        /\ v.cloud = c.cloud /\ v.lost = lost /\ v.exposed = c.exposed
    BY <1>3 DEF Transports
  <1> QED
    BY <1>2, <1>4, <1>5, <1>6, <1>7 DEF Gone

(* Dispose ends with no peer, no timer and nothing on its way.             *)
LEMMA GoneIs ==
  ASSUME NEW gone \in Transports,
         NEW v, v = [StopUpgradeLoop(CloseLink(gone)) EXCEPT
                       !.up = <<>>, !.lost = @ \union KeysOf(gone.up)]
  PROVE  Gone(gone, v, KeysOf(gone.up))
  <1>1. PICK c : c = CloseLink(gone)
    OBVIOUS
  <1>2. /\ c \in Transports /\ SamePaths(gone, c) /\ SameLoop(gone, c)
        /\ c.status = gone.status /\ c.cmds = gone.cmds /\ c.link = "none" /\ c.served = {}
        /\ c.held = gone.held /\ c.out = gone.out /\ c.flying = gone.flying
        /\ c.cloud = gone.cloud /\ c.lost = gone.lost
        /\ c.exposed = gone.exposed \union KeysOf(gone.up)
    BY <1>1, CloseLinkIs
  <1>3. v = [[c EXCEPT !.timer = "off"] EXCEPT !.up = <<>>, !.lost = @ \union KeysOf(gone.up)]
    BY <1>1, Zenon DEF StopUpgradeLoop
  <1>4. Gone(c, v, KeysOf(gone.up))
    BY <1>2, <1>3, KeysOnTheWay, LetGo
  <1> QED
    BY <1>2, <1>4 DEF Gone, SamePaths, SameLoop

(* The page has been told to go; nothing else has changed yet.             *)
Leaving(u, w) ==
    /\ w \in Transports /\ SamePaths(u, w) /\ w.status = u.status /\ w.ladder = u.ladder
    /\ w.link = u.link /\ w.up = u.up /\ w.disposed /\ SameKeys(u, w)

(* Marking the page as gone changes nothing else.                          *)
LEMMA LeavingIs ==
  ASSUME NEW u \in Transports
  PROVE  Leaving(u, [u EXCEPT !.disposed = TRUE])
  <1>1. PICK w : w = [u EXCEPT !.disposed = TRUE]
    OBVIOUS
  <1>2. w \in Transports
    BY <1>1, ZenonT(60) DEF Transports
  <1>3. /\ SamePaths(u, w) /\ w.status = u.status /\ w.ladder = u.ladder
        /\ w.link = u.link /\ w.up = u.up
    BY <1>1 DEF Transports, SamePaths
  <1>4. w.disposed /\ SameKeys(u, w)
    BY <1>1 DEF Transports, SameKeys
  <1> QED
    BY <1>1, <1>2, <1>3, <1>4 DEF Leaving

(* Dispose leaves the paths in order.                                      *)
LEMMA DisposeFits ==
  ASSUME NEW u \in Transports, NEW A, NEW W, Fits(u, A, W), NEW w, Leaving(u, w),
         NEW gone, gone = Each(TeardownSession, w, {s \in Sessions : u.mode[s] # "none"}),
         NEW v, Gone(gone, v, KeysOf(gone.up))
  PROVE  v \in Transports /\ Fits(v, {}, W) /\ Alive(v)
  <1> DEFINE shown == {s \in Sessions : u.mode[s] # "none"}
  <1>1. w \in Transports /\ w.disposed
    BY DEF Leaving
  <1>2. /\ w.mode = u.mode /\ w.sub = u.sub /\ w.switching = u.switching
        /\ w.stranded = u.stranded /\ w.status = u.status /\ w.ladder = u.ladder
    BY DEF Leaving, SamePaths
  <1>4. TornDown(w, gone, shown)
    <2>1. shown \in SUBSET Sessions
      OBVIOUS
    <2> QED
      BY <1>1, <2>1, TeardownLoop
  <1>5. /\ gone.mode = [r \in Sessions |-> IF r \in shown THEN "none" ELSE w.mode[r]]
        /\ gone.sub = [r \in Sessions |-> IF r \in shown THEN "none" ELSE w.sub[r]]
        /\ gone.switching = w.switching \ shown /\ gone.stranded = w.stranded \ shown
        /\ gone.status = w.status /\ gone.ladder = w.ladder /\ gone.disposed = w.disposed
    BY <1>4 DEF TornDown, SameLoop
  <1>7. /\ v.mode = gone.mode /\ v.sub = gone.sub /\ v.switching = gone.switching
        /\ v.stranded = gone.stranded
    BY DEF Gone, SamePaths
  <1>10. /\ v.status = gone.status
         /\ v.link = "none" /\ v.served = {} /\ v.up = <<>> /\ v.ladder = gone.ladder
         /\ v.disposed = gone.disposed /\ v \in Transports
    BY DEF Gone
  <1>11. /\ v.disposed /\ v.status = u.status /\ v.ladder = u.ladder
         /\ v.switching = u.switching \ shown /\ v.stranded = u.stranded \ shown
    BY <1>1, <1>2, <1>5, <1>7, <1>10
  <1>12. ASSUME NEW r \in Sessions
         PROVE  v.mode[r] = "none" /\ v.sub[r] = "none"
    <2>1. CASE r \in shown
      BY <1>5, <1>7, <1>10, <2>1
    <2>2. CASE r \notin shown
      <3>1. u.mode[r] = "none" /\ u.sub[r] = "none"
        BY <2>2 DEF Fits, ModesFit
      <3>2. v.mode[r] = u.mode[r] /\ v.sub[r] = u.sub[r]
        BY <1>2, <1>5, <1>7, <2>2
      <3> QED
        BY <3>1, <3>2
    <2> QED
      BY <2>1, <2>2
  <1>13. ModesFit(v)
    <2>1. u.ladder # "idle" => u.status \in {"connecting", "failed"}
      BY DEF Fits, ModesFit
    <2> QED
      BY <1>11, <1>12, <2>1 DEF ModesFit
  <1>14. LinkFits(v)
    <2>1. v.switching = {} /\ v.stranded = {}
      <3>1. u.switching \subseteq Sessions /\ u.stranded \subseteq Sessions
        BY DEF Transports
      <3>2. u.switching \subseteq shown /\ u.stranded \subseteq shown
        BY <3>1 DEF Fits, LinkFits
      <3> QED
        BY <1>11, <3>2
    <2> QED
      BY <1>10, <1>11, <2>1 DEF LinkFits
  <1>15. BridgeFits(v, {}, W)
    <2>1. \A r \in Sessions : ~Reaches(v.up, {}, r)
      <3>1. ASSUME NEW r \in Sessions PROVE ~Reaches(<<>>, {}, r)
        BY NothingOnTheWay
      <3> QED
        BY <1>10, <3>1
    <2> QED
      BY <1>10, <1>11, <2>1 DEF BridgeFits
  <1>16. NotPinned(v) /\ Alive(v)
    BY <1>11, <1>12 DEF NotPinned, Alive, CanUpgrade
  <1> QED
    BY <1>10, <1>13, <1>14, <1>15, <1>16 DEF Fits


(* What arrives at, or leaves for, the bridge without changing the paths.  *)
Steady(u, v) ==
    /\ v \in Transports /\ SamePaths(u, v) /\ SameLoop(u, v)
    /\ v.status = u.status /\ v.link = u.link /\ v.served = u.served

(* What reaches, or leaves for, the bridge keeps the paths in order when   *)
(* it will end where it would have ended.                                  *)
LEMMA SteadyFits ==
  ASSUME NEW u \in Transports, NEW v, NEW A, NEW B, NEW W, NEW X,
         Fits(u, A, W), Alive(u), Steady(u, v),
         u.disposed => v.up = <<>>,
         \A r \in Sessions : Reaches(v.up, B, r) <=> Reaches(u.up, A, r),
         u.disposed \/ \A r \in Sessions : Watching(v.cmds, X, r) <=> Watching(u.cmds, W, r)
  PROVE  v \in Transports /\ Fits(v, B, X) /\ Alive(v)
  <1>1. /\ v.mode = u.mode /\ v.sub = u.sub /\ v.switching = u.switching
        /\ v.switched = u.switched /\ v.stranded = u.stranded
        /\ v.status = u.status /\ v.link = u.link /\ v.served = u.served
        /\ v.ladder = u.ladder /\ v.timer = u.timer /\ v.disposed = u.disposed
    BY DEF Steady, SamePaths, SameLoop
  <1>2. ModesFit(v) /\ NotPinned(v)
    BY <1>1 DEF Fits, ModesFit, NotPinned
  <1>3. LinkFits(v)
    BY <1>1 DEF Fits, LinkFits
  <1>4. BridgeFits(v, B, X)
    BY <1>1 DEF Fits, BridgeFits
  <1>5. Alive(v)
    BY <1>1 DEF Alive, CanUpgrade, HasCentrifugoSessions
  <1> QED
    BY <1>2, <1>3, <1>4, <1>5 DEF Fits, Steady

(* pumpOutQueue changes no path.                                           *)
LEMMA PumpSteady ==
  ASSUME NEW u \in Transports, NEW s \in Sessions, NEW v, v = PumpOutQueue(u, s)
  PROVE  Steady(u, v) /\ v.up = u.up /\ v.cmds = u.cmds /\ v.held = u.held
  <1>1. Pumped(u, v, s)
    BY PumpIs
  <1> QED
    BY <1>1 DEF Pumped, Steady, SameLink

(* One key enters the transport: it is lost, held, or goes its way.        *)
KeyEnters(u, v, A, s) ==
    /\ Steady(u, v) /\ v.cmds = u.cmds /\ (u.disposed => v.up = u.up)
    /\ \A r \in Sessions : Reaches(v.up, A, r) <=> Reaches(u.up, A, r)
    /\ \A r \in Sessions : \/ v.held[r] = u.held[r]
                           \/ Len(v.held[r]) <= MaxHeld
                           \/ Len(v.held[r]) <= Len(u.held[r])

(* A key dropped on entry changes no path.                                 *)
LEMMA LostEnters ==
  ASSUME NEW u \in Transports, NEW A, NEW s \in Sessions, NEW k \in Keys,
         NEW v, v = [u EXCEPT !.lost = @ \union {k}]
  PROVE  KeyEnters(u, v, A, s)
  BY DEF KeyEnters, Transports, Steady, SamePaths, SameLoop

(* A key held back changes no path.                                        *)
LEMMA Held ==
  ASSUME NEW u \in Transports, NEW A, NEW s \in Sessions, NEW q \in Seq(Keys),
         NEW lost \in SUBSET Keys, Len(q) <= MaxHeld \/ Len(q) <= Len(u.held[s]),
         NEW v, v = [u EXCEPT !.held[s] = q, !.lost = lost]
  PROVE  KeyEnters(u, v, A, s)
  <1>1. /\ v \in Transports /\ v.held = [u.held EXCEPT ![s] = q]
        /\ Steady(u, v) /\ v.cmds = u.cmds /\ v.up = u.up
    BY ZenonT(60) DEF Transports, KeyQueues, Steady, SamePaths, SameLoop
  <1>2. u.held \in [Sessions -> Seq(Keys)]
    BY ZenonT(60) DEF Transports, KeyQueues
  <1>3. \A r \in Sessions : v.held[r] = IF r = s THEN q ELSE u.held[r]
    BY <1>1, <1>2, Zenon
  <1>4. ASSUME NEW r \in Sessions
        PROVE  \/ v.held[r] = u.held[r]
               \/ Len(v.held[r]) <= MaxHeld
               \/ Len(v.held[r]) <= Len(u.held[r])
    BY <1>3, <1>4, Zenon
  <1>5. \A r \in Sessions : Reaches(v.up, A, r) <=> Reaches(u.up, A, r)
    BY <1>1, Zenon
  <1> QED
    BY <1>1, <1>4, <1>5, Zenon DEF KeyEnters

(* bufferInput changes no path, and never holds more than its limit.       *)
LEMMA BufferEnters ==
  ASSUME NEW u \in Transports, NEW A, NEW s \in Sessions, NEW k \in Keys,
         NEW v, v = BufferInput(u, s, k)
  PROVE  KeyEnters(u, v, A, s)
  <1> DEFINE all == Append(u.held[s], k)
  <1>1. u.held[s] \in Seq(Keys) /\ Len(u.held[s]) \in Nat
    BY SomeTypes
  <1>2. all \in Seq(Keys) /\ Len(all) = Len(u.held[s]) + 1 /\ all # <<>>
    BY <1>1
  <1>3. Tail(all) \in Seq(Keys) /\ Head(all) \in Keys /\ Len(Tail(all)) = Len(u.held[s])
    BY <1>1, <1>2
  <1>4. /\ u.lost \in SUBSET Keys /\ u.lost \union {Head(all)} \in SUBSET Keys
        /\ [u EXCEPT !.held[s] = all, !.lost = u.lost] = [u EXCEPT !.held[s] = all]
    BY <1>3 DEF Transports
  <1>5. v = IF Len(all) <= MaxHeld THEN [u EXCEPT !.held[s] = all]
            ELSE [u EXCEPT !.held[s] = Tail(all), !.lost = u.lost \union {Head(all)}]
    BY DEF BufferInput
  <1> HIDE DEF all
  <1>6. CASE Len(all) <= MaxHeld
    <2>1. v = [u EXCEPT !.held[s] = all, !.lost = u.lost]
      BY <1>4, <1>5, <1>6
    <2> QED
      BY <1>2, <1>4, <1>6, <2>1, Held
  <1>7. CASE ~(Len(all) <= MaxHeld)
    <2>1. v = [u EXCEPT !.held[s] = Tail(all), !.lost = u.lost \union {Head(all)}]
      BY <1>5, <1>7
    <2>2. Len(Tail(all)) <= Len(u.held[s])
      BY <1>1, <1>3
    <2> QED
      BY <1>3, <1>4, <2>1, <2>2, Held
  <1> QED
    BY <1>6, <1>7

(* A key queued for the cloud changes no path.                             *)
LEMMA Queued ==
  ASSUME NEW u \in Transports, NEW s \in Sessions, NEW q \in Seq(Keys),
         NEW w, w = [u EXCEPT !.out[s] = q]
  PROVE  Steady(u, w) /\ w.cmds = u.cmds /\ w.up = u.up /\ w.held = u.held
  <1>1. w \in Transports
    BY DEF Transports, KeyQueues
  <1> QED
    BY <1>1 DEF Transports, Steady, SamePaths, SameLoop

(* A key sent over the peer changes no path.                               *)
LEMMA Sent ==
  ASSUME NEW u \in Transports, NEW up \in Seq(Frames), NEW v, v = [u EXCEPT !.up = up]
  PROVE  Steady(u, v) /\ v.cmds = u.cmds /\ v.up = up /\ v.held = u.held
  BY DEF Transports, Steady, SamePaths, SameLoop

(* dispatchInput changes no path.                                          *)
LEMMA DispatchEnters ==
  ASSUME NEW u \in Transports, NEW A, NEW s \in Sessions, NEW k \in Keys, ~u.disposed,
         NEW v, v = DispatchInput(u, s, <<k>>)
  PROVE  KeyEnters(u, v, A, s)
  <1>1. /\ <<k>> \in Seq(Keys) /\ ToSet(<<k>>) = {k} /\ u.out[s] \in Seq(Keys)
        /\ u.up \in Seq(Frames)
    BY OneKey, SomeTypes
  <1>2. CASE u.mode[s] = "direct" /\ u.link = "none"
    <2>1. v = [u EXCEPT !.lost = @ \union {k}]
      BY <1>1, <1>2 DEF DispatchInput
    <2> QED
      BY <2>1, LostEnters
  <1>3. CASE u.mode[s] = "direct" /\ u.link # "none"
    <2>1. PICK up : up = u.up \o KeyFrames(s, <<k>>)
      OBVIOUS
    <2>2. KeyFrames(s, <<k>>) \in Seq(Frames)
      BY <1>1, KeysAsFrames
    <2>3. ASSUME NEW r \in Sessions PROVE Reaches(up, A, r) <=> Reaches(u.up, A, r)
      <3>1. Reaches(u.up \o KeyFrames(s, <<k>>), A, r) <=> Reaches(u.up, A, r)
        BY <1>1, KeysAsFrames
      <3> QED
        BY <2>1, <3>1
    <2>4. v = [u EXCEPT !.up = up]
      BY <1>3, <2>1 DEF DispatchInput, Send, Transports
    <2>5. up \in Seq(Frames)
      BY <1>1, <2>1, <2>2
    <2>6. Steady(u, v) /\ v.cmds = u.cmds /\ v.up = up /\ v.held = u.held
      BY <2>4, <2>5, Sent
    <2> QED
      BY <2>3, <2>6 DEF KeyEnters
  <1>4. CASE u.mode[s] # "direct"
    <2>1. PICK q : q = u.out[s] \o <<k>>
      OBVIOUS
    <2>2. q \in Seq(Keys)
      BY <1>1, <2>1
    <2>3. PICK w : w = [u EXCEPT !.out[s] = q]
      OBVIOUS
    <2>4. v = PumpOutQueue(w, s)
      BY <1>4, <2>1, <2>3 DEF DispatchInput, Transports
    <2>5. Steady(u, w) /\ w.cmds = u.cmds /\ w.up = u.up /\ w.held = u.held
      BY <2>2, <2>3, Queued
    <2>6. Steady(w, v) /\ v.cmds = w.cmds /\ v.up = w.up /\ v.held = w.held
      BY <2>4, <2>5, PumpSteady DEF Steady
    <2>7. Steady(u, v)
      BY <2>5, <2>6 DEF Steady, SamePaths, SameLoop
    <2> QED
      BY <2>5, <2>6, <2>7 DEF KeyEnters
  <1> QED
    BY <1>2, <1>3, <1>4

(* A subscription that is up sends the watch that makes the bridge agree.  *)
LEMMA SubscribedFits ==
  ASSUME NEW u \in Transports, NEW A, NEW W, Fits(u, A, W), Alive(u), NEW s \in Sessions,
         u.sub[s] = "subscribing",
         NEW v, v = SendWatch([u EXCEPT !.sub[s] = "subscribed"], "watch", s)
  PROVE  v \in Transports /\ Fits(v, A, W) /\ Alive(v) /\ v.held = u.held
  <1>0. ~u.disposed
    BY DEF Fits, ModesFit
  <1>1. PICK w : w = [u EXCEPT !.sub[s] = "subscribed"]
    OBVIOUS
  <1>2. w \in Transports
    BY <1>1 DEF Transports
  <1>3. /\ w.mode = u.mode /\ w.sub = [u.sub EXCEPT ![s] = "subscribed"]
        /\ w.switching = u.switching /\ w.switched = u.switched /\ w.stranded = u.stranded
        /\ SameLink(u, w) /\ SameLoop(u, w) /\ w.cmds = u.cmds /\ w.held = u.held
    BY <1>1 DEF Transports, SameLink, SameLoop
  <1>4. /\ v \in Transports
        /\ SamePaths(w, v) /\ SameLink(w, v) /\ SameLoop(w, v) /\ SameKeys(w, v)
        /\ v.cmds = Append(w.cmds, [type |-> "watch", session |-> s])
    <2>1. ~w.disposed
      BY <1>0, <1>3 DEF SameLoop
    <2>2. v = SendWatch(w, "watch", s)
      BY <1>1
    <2> QED
      BY <1>2, <2>1, <2>2, SendWatchIs
  <1>5. /\ v.mode = u.mode /\ v.sub = [u.sub EXCEPT ![s] = "subscribed"]
        /\ v.switching = u.switching /\ v.switched = u.switched /\ v.stranded = u.stranded
        /\ v.status = u.status /\ v.link = u.link /\ v.served = u.served /\ v.up = u.up
        /\ v.ladder = u.ladder /\ v.timer = u.timer /\ v.disposed = u.disposed
        /\ v.held = u.held
    BY <1>3, <1>4 DEF SamePaths, SameLink, SameLoop, SameKeys
  <1>6. \A r \in Sessions : v.sub[r] = IF r = s THEN "subscribed" ELSE u.sub[r]
    BY <1>5 DEF Transports
  <1>7. ASSUME NEW r \in Sessions
        PROVE  Watching(v.cmds, W, r) <=> r = s \/ Watching(u.cmds, W, r)
    <2>1. u.cmds \in Seq(Commands)
      BY SomeTypes
    <2>2. Watching(Append(u.cmds, [type |-> "watch", session |-> s]), W, r)
            <=> r = s \/ Watching(u.cmds, W, r)
      BY <2>1, WatchingMore
    <2> QED
      BY <1>3, <1>4, <2>2
  <1>8. ModesFit(v) /\ NotPinned(v)
    BY <1>5, <1>6 DEF Fits, ModesFit, NotPinned
  <1>9. LinkFits(v)
    BY <1>5 DEF Fits, LinkFits
  <1>10. BridgeFits(v, A, W)
    BY <1>0, <1>5, <1>6, <1>7 DEF Fits, BridgeFits
  <1>11. Alive(v)
    BY <1>5 DEF Alive, CanUpgrade, HasCentrifugoSessions
  <1> QED
    BY <1>4, <1>5, <1>8, <1>9, <1>10, <1>11 DEF Fits


-----------------------------------------------------------------------------
(* Every step keeps the invariant.                                         *)

HeldFits(u) == \A r \in Sessions : Len(u.held[r]) <= MaxHeld

Sound(u, A, W) == u \in Transports /\ Fits(u, A, W) /\ Alive(u) /\ HeldFits(u)

(* The counters, and what is known of the page's user.                     *)
CountsOK ==
    /\ typed \in 0 .. MaxKeys /\ subs \in 0 .. MaxSubs /\ faults \in 0 .. MaxFaults

(* W: the sessions the bridge would watch if every command had taken       *)
(* effect, and no watch run out while it was wanted.                       *)
Sure(W) == \A s \in Sessions \ unsure : s \in W <=> s \in watchers

IInvAt(W) == TypeOK /\ Fits(t, attached, W) /\ Alive(t) /\ Sure(W)

IInv == \E W \in SUBSET Sessions : IInvAt(W)

(* The parts of the invariant, in one state.                               *)
LEMMA SoundNow ==
  ASSUME NEW W \in SUBSET Sessions, IInvAt(W)
  PROVE  /\ Sound(t, attached, W) /\ localOnly \in BOOLEAN
         /\ attached \subseteq Sessions /\ watchers \subseteq Sessions
         /\ unsure \subseteq Sessions /\ Sure(W)
         /\ pty \in KeyQueues /\ CountsOK
  BY DEF IInvAt, TypeOK, Sound, HeldFits, CountsOK

(* The parts of the invariant make it up again in the next state.          *)
LEMMA SoundNext ==
  ASSUME NEW W \in SUBSET Sessions, IInvAt(W), localOnly' = localOnly,
         NEW X \in SUBSET Sessions, Sound(t', attached', X),
         attached' \subseteq Sessions, watchers' \subseteq Sessions,
         unsure' \subseteq Sessions, Sure(X)', pty' \in KeyQueues, CountsOK'
  PROVE  IInvAt(X)'
  <1>1. TypeOK'
    BY DEF IInvAt, TypeOK, Sound, HeldFits, CountsOK
  <1>2. Fits(t, attached, X)'
    BY DEF Sound, Fits, ModesFit, LinkFits, BridgeFits, NotPinned
  <1>3. Alive(t)'
    BY DEF Sound, Alive, CanUpgrade, HasCentrifugoSessions
  <1> QED
    BY <1>1, <1>2, <1>3 DEF IInvAt

(* A step that no watch takes part in.                                     *)
LEMMA SoundTurn ==
  ASSUME NEW W \in SUBSET Sessions, IInvAt(W), localOnly' = localOnly,
         Sound(t', attached', W), attached' \subseteq Sessions, Registry' = Registry,
         pty' \in KeyQueues, CountsOK'
  PROVE  IInvAt(W)'
  <1>1. watchers' = watchers /\ unsure' = unsure
    BY DEF Registry
  <1>2. watchers' \subseteq Sessions /\ unsure' \subseteq Sessions /\ Sure(W)'
    BY <1>1, SoundNow DEF Sure
  <1> QED
    BY <1>2, SoundNext

(* A step of the page alone.                                               *)
LEMMA SoundStep ==
  ASSUME NEW W \in SUBSET Sessions, IInvAt(W), localOnly' = localOnly, Bridge' = Bridge,
         CountsOK', Sound(t', attached, W)
  PROVE  IInvAt(W)'
  <1>1. attached' = attached /\ Registry' = Registry /\ pty' = pty
    BY DEF Bridge
  <1>2. Sound(t', attached', W)
    BY <1>1
  <1> QED
    BY <1>1, <1>2, SoundNow, SoundTurn

(* Keeping or emptying what is held keeps it below its limit.              *)
LEMMA HeldKept ==
  ASSUME NEW u, NEW v, HeldFits(u), HeldLess(u, v)
  PROVE  HeldFits(v)
  <1>1. Len(<<>>) <= MaxHeld
    BY TransportAssumption
  <1> QED
    BY <1>1 DEF HeldFits, HeldLess

(* Counters that do not change stay in bounds.                             *)
LEMMA CountsKept ==
  ASSUME CountsOK, UNCHANGED <<typed, subs, faults>>
  PROVE  CountsOK'
  BY DEF CountsOK

(* subscribeTerminal keeps the invariant.                                  *)
LEMMA SubscribeTerminalKeeps ==
  ASSUME NEW W \in SUBSET Sessions, IInvAt(W), NEW s \in Sessions, SubscribeTerminal(s)
  PROVE  IInvAt(W)'
  <1>1. Sound(t, attached, W) /\ localOnly \in BOOLEAN /\ CountsOK /\ ~t.disposed
    BY SoundNow DEF SubscribeTerminal
  <1> DEFINE prior == IF t.mode[s] = "none" THEN t ELSE TeardownSession(t, s)
             entry == EnsurePeer([prior EXCEPT !.mode[s] = "connecting"])
  <1>2. /\ prior \in Transports /\ Fits(prior, attached, W) /\ Alive(prior)
        /\ prior.mode[s] = "none" /\ ~prior.disposed /\ HeldLess(t, prior)
    <2>1. CASE t.mode[s] = "none"
      BY <1>1, <2>1 DEF Sound, HeldLess
    <2>2. CASE t.mode[s] # "none"
      <3>1. prior = TeardownSession(t, s)
        BY <2>2
      <3> QED
        BY <1>1, <3>1, TeardownFits, TeardownHeld DEF Sound
    <2> QED
      BY <2>1, <2>2
  <1> HIDE DEF prior
  <1>3. Entered(prior, entry, s)
    BY <1>2, EntryIs
  <1>4. /\ subs < MaxSubs /\ subs' = subs + 1
        /\ t' = CASE entry.status = "attached" -> GoDirect(entry, s)
                  [] entry.status = "failed" ->
                        EnsureUpgradeLoop(GoCentrifugo(entry, s), TRUE)
                  [] OTHER -> entry
        /\ UNCHANGED <<localOnly, Bridge, typed, faults>>
    BY DEF SubscribeTerminal, prior
  <1> HIDE DEF entry
  <1>5. entry \in Transports /\ entry.held = prior.held
    BY <1>3 DEF Entered, SameKeys
  <1>6. t' \in Transports /\ Fits(t', attached, W) /\ Alive(t') /\ HeldLess(entry, t')
    <2>1. CASE entry.status = "attached"
      <3>1. t' = GoDirect(entry, s)
        BY <1>4, <2>1
      <3>2. entry.link # "none"
        BY <1>2, <1>3, <2>1 DEF Entered, Fits, LinkFits
      <3> QED
        BY <1>2, <1>3, <1>5, <2>1, <3>1, <3>2, EntryDirectFits, GoDirectHeld
    <2>2. CASE entry.status = "failed"
      <3>1. t' = EnsureUpgradeLoop(GoCentrifugo(entry, s), TRUE)
        BY <1>4, <2>2
      <3>2. PICK w : w = GoCentrifugo(entry, s)
        OBVIOUS
      <3>3. w \in Transports /\ HeldLess(entry, w)
        BY <1>5, <3>2, GoCentrifugoHeld
      <3>4. SameKeys(w, t')
        BY <3>1, <3>2, <3>3, EnsureIs
      <3>5. HeldLess(entry, t')
        BY <3>3, <3>4 DEF HeldLess, SameKeys
      <3> QED
        BY <1>1, <1>2, <1>3, <2>2, <3>1, <3>2, <3>5, EntryCloudFits
    <2>3. CASE entry.status \notin {"attached", "failed"}
      <3>1. t' = entry
        BY <1>4, <2>3
      <3> QED
        BY <1>2, <1>3, <2>3, <3>1, EntryWaitsFits DEF HeldLess
    <2> QED
      BY <2>1, <2>2, <2>3
  <1>7. HeldFits(t')
    BY <1>1, <1>2, <1>5, <1>6, HeldKept DEF Sound, HeldLess
  <1>8. CountsOK'
    BY <1>1, <1>4, TransportAssumption DEF CountsOK
  <1> QED
    BY <1>4, <1>6, <1>7, <1>8, SoundStep DEF Sound

(* The timer may be cleared when there is nothing to upgrade or a climb is *)
(* under way.                                                              *)
LEMMA TimerOff ==
  ASSUME NEW u \in Transports, NEW A, NEW W, Sound(u, A, W),
         NEW v, v = StopUpgradeLoop(u), ~CanUpgrade(u) \/ u.ladder # "idle"
  PROVE  Sound(v, A, W) /\ Retimed(u, v, "off")
  <1>1. Retimed(u, v, "off")
    BY RetimedIs DEF StopUpgradeLoop
  <1>2. Fits(v, A, W) /\ HeldFits(v)
    BY <1>1, CalmFits DEF Retimed, Sound, SameKeys, HeldFits
  <1>3. Alive(v)
    BY <1>1 DEF Retimed, Alive, CanUpgrade, HasCentrifugoSessions, SamePaths, SameLink
  <1> QED
    BY <1>1, <1>2, <1>3 DEF Sound, Retimed

(* unsubscribe keeps the invariant.                                        *)
LEMMA UnsubscribeKeeps ==
  ASSUME NEW W \in SUBSET Sessions, IInvAt(W), NEW s \in Sessions, Unsubscribe(s)
  PROVE  IInvAt(W)'
  <1>1. Sound(t, attached, W) /\ CountsOK /\ ~t.disposed
    BY SoundNow DEF Unsubscribe
  <1>2. PICK left : left = TeardownSession(t, s)
    OBVIOUS
  <1>3. t' = IF HasCentrifugoSessions(left) THEN left ELSE StopUpgradeLoop(left)
    BY <1>2 DEF Unsubscribe
  <1>4. left \in Transports /\ Fits(left, attached, W) /\ Alive(left) /\ HeldLess(t, left)
    BY <1>1, <1>2, TeardownFits, TeardownHeld DEF Sound
  <1>5. Sound(left, attached, W)
    BY <1>1, <1>4, HeldKept DEF Sound
  <1>6. Sound(t', attached, W)
    <2>1. CASE HasCentrifugoSessions(left)
      BY <1>3, <1>5, <2>1
    <2>2. CASE ~HasCentrifugoSessions(left)
      BY <1>3, <1>4, <1>5, <2>2, TimerOff DEF CanUpgrade
    <2> QED
      BY <2>1, <2>2
  <1>7. UNCHANGED <<localOnly, Bridge, typed, subs, faults>>
    BY DEF Unsubscribe
  <1> QED
    BY <1>1, <1>6, <1>7, CountsKept, SoundStep

(* A key that enters leaves a sound transport sound.                       *)
LEMMA EntersSound ==
  ASSUME NEW u \in Transports, NEW A, NEW W, Sound(u, A, W), NEW s \in Sessions,
         NEW v, KeyEnters(u, v, A, s)
  PROVE  Sound(v, A, W)
  <1>1. /\ Steady(u, v) /\ v.cmds = u.cmds /\ (u.disposed => v.up = u.up)
        /\ \A r \in Sessions : Reaches(v.up, A, r) <=> Reaches(u.up, A, r)
        /\ \A r \in Sessions : \/ v.held[r] = u.held[r]
                               \/ Len(v.held[r]) <= MaxHeld
                               \/ Len(v.held[r]) <= Len(u.held[r])
    BY DEF KeyEnters
  <1>2. u.disposed => v.up = <<>>
    BY <1>1 DEF Sound, Fits, LinkFits
  <1>3. v \in Transports /\ Fits(v, A, W) /\ Alive(v)
    BY <1>1, <1>2, SteadyFits DEF Sound
  <1>4. HeldFits(v)
    <2>1. ASSUME NEW r \in Sessions PROVE Len(v.held[r]) <= MaxHeld
      <3>1. Len(u.held[r]) \in Nat /\ Len(v.held[r]) \in Nat /\ MaxHeld \in Nat
        BY <1>3, SomeTypes, TransportAssumption
      <3>2. Len(u.held[r]) <= MaxHeld
        BY DEF Sound, HeldFits
      <3> QED
        BY <1>1, <3>1, <3>2
    <2> QED
      BY <2>1 DEF HeldFits
  <1> QED
    BY <1>3, <1>4 DEF Sound

(* sendInput keeps the invariant.                                          *)
LEMMA SendInputKeeps ==
  ASSUME NEW W \in SUBSET Sessions, IInvAt(W), NEW s \in Sessions, SendInput(s)
  PROVE  IInvAt(W)'
  <1>1. /\ Sound(t, attached, W) /\ CountsOK /\ t \in Transports
        /\ t.mode[s] # "none"
    BY SoundNow DEF SendInput, Sound
  <1>2. ~t.disposed
    BY <1>1 DEF Sound, Fits, ModesFit
  <1> DEFINE key == typed + 1
  <1>3. key \in Keys
    BY <1>1, TransportAssumption DEF SendInput, CountsOK, Keys
  <1>4. t' = CASE t.mode[s] = "direct" \/ t.sub[s] # "none" -> DispatchInput(t, s, <<key>>)
               [] t.mode[s] = "connecting" /\ ~localOnly    -> BufferInput(t, s, key)
               [] OTHER                                     -> [t EXCEPT !.lost = @ \union {key}]
    BY DEF SendInput
  <1>5. /\ UNCHANGED <<localOnly, Bridge, subs, faults>> /\ typed' = key /\ typed < MaxKeys
    BY DEF SendInput
  <1>6. CountsOK'
    BY <1>1, <1>5, TransportAssumption DEF CountsOK
  <1> HIDE DEF key
  <1>7. KeyEnters(t, t', attached, s)
    <2>1. \/ t' = DispatchInput(t, s, <<key>>)
          \/ t' = BufferInput(t, s, key)
          \/ t' = [t EXCEPT !.lost = @ \union {key}]
      BY <1>4
    <2>2. CASE t' = DispatchInput(t, s, <<key>>)
      BY <1>1, <1>2, <1>3, <2>2, DispatchEnters
    <2>3. CASE t' = BufferInput(t, s, key)
      BY <1>1, <1>3, <2>3, BufferEnters
    <2>4. CASE t' = [t EXCEPT !.lost = @ \union {key}]
      BY <1>1, <1>3, <2>4, LostEnters
    <2> QED
      BY <2>1, <2>2, <2>3, <2>4
  <1>8. Sound(t', attached, W)
    BY <1>1, <1>7, EntersSound
  <1> QED
    BY <1>5, <1>6, <1>8, SoundStep

(* The watchdog of a switch keeps the invariant.                           *)
LEMMA WatchdogFiresKeeps ==
  ASSUME NEW W \in SUBSET Sessions, IInvAt(W), NEW s \in Sessions, WatchdogFires(s)
  PROVE  IInvAt(W)'
  <1>1. Sound(t, attached, W) /\ CountsOK /\ s \in t.switching /\ t \in Transports
    BY SoundNow DEF WatchdogFires, Sound
  <1>2. t' = AbortSessionSwitch(t, s) /\ UNCHANGED <<localOnly, Bridge, typed, subs, faults>>
    BY DEF WatchdogFires
  <1>3. t' \in Transports /\ Fits(t', attached, W) /\ Alive(t')
    BY <1>1, <1>2, AbortFits DEF Sound
  <1>4. t'.held = t.held
    <2>1. PICK w : w = [t EXCEPT !.switching = @ \ {s}]
      OBVIOUS
    <2>2. w \in Transports /\ w.held = t.held
      BY <1>1, <2>1 DEF Transports
    <2>3. PICK d : d = DetachFrom(w, s)
      OBVIOUS
    <2>4. d \in Transports /\ SameKeys(w, d)
      BY <2>2, <2>3, DetachFromIs
    <2>5. t' = MaybeRevertUpgrade(d)
      BY <1>2, <2>1, <2>3 DEF AbortSessionSwitch
    <2>6. t'.held = d.held
      BY <2>4, <2>5, RevertIs
    <2> QED
      BY <2>2, <2>4, <2>6 DEF SameKeys
  <1>5. Sound(t', attached, W)
    BY <1>1, <1>3, <1>4 DEF Sound, HeldFits
  <1> QED
    BY <1>1, <1>2, <1>5, CountsKept, SoundStep

(* A subscription that is up keeps the invariant.                          *)
LEMMA SubscribedKeeps ==
  ASSUME NEW W \in SUBSET Sessions, IInvAt(W), NEW s \in Sessions, Subscribed(s)
  PROVE  IInvAt(W)'
  <1>1. /\ Sound(t, attached, W) /\ CountsOK /\ t.sub[s] = "subscribing"
        /\ t \in Transports
    BY SoundNow DEF Subscribed, Sound
  <1>2. /\ t' = SendWatch([t EXCEPT !.sub[s] = "subscribed"], "watch", s)
        /\ UNCHANGED <<localOnly, Bridge, typed, subs, faults>>
    BY DEF Subscribed
  <1>3. /\ t' \in Transports /\ Fits(t', attached, W) /\ Alive(t')
        /\ t'.held = t.held
    BY <1>1, <1>2, SubscribedFits DEF Sound
  <1>4. Sound(t', attached, W)
    BY <1>1, <1>3 DEF Sound, HeldFits
  <1> QED
    BY <1>1, <1>2, <1>4, CountsKept, SoundStep

(* One key enters the transport.                                           *)
LEMMA DispatchKeys ==
  ASSUME NEW u \in Transports, NEW p \in KeyQueues, NEW n \in Nat, n + 1 \in Keys,
         KeyFits(u, p, n), NEW s \in Sessions,
         u.mode[s] = "direct" \/ u.sub[s] # "none", u.sub[s] # "none" => u.mode[s] = "cloud",
         NEW v, v = DispatchInput(u, s, <<n + 1>>)
  PROVE  KeyFits(v, p, n + 1)
  <1> DEFINE k == n + 1
  <1>1. /\ k \in Keys /\ <<k>> \in Seq(Keys) /\ ToSet(<<k>>) = {k} /\ u.out[s] \in Seq(Keys)
        /\ u.up \in Seq(Frames) /\ k \in Nat
    BY OneKey, SomeTypes
  <1>2. CASE u.mode[s] = "direct" /\ u.link = "none"
    <2>1. v = [u EXCEPT !.lost = @ \union {k}]
      BY <1>1, <1>2 DEF DispatchInput
    <2> QED
      BY <2>1, DroppedKeys
  <1>3. CASE u.mode[s] = "direct" /\ u.link # "none"
    <2>1. v = [u EXCEPT !.up = u.up \o KeyFrames(s, <<k>>)]
      BY <1>3 DEF DispatchInput, Send, Transports
    <2> QED
      BY <1>3, <2>1, SentKeys
  <1>4. CASE u.mode[s] = "cloud"
    <2>1. PICK q : q = u.out[s] \o <<k>>
      OBVIOUS
    <2>2. q \in Seq(Keys)
      BY <1>1, <2>1
    <2>3. PICK w : w = [u EXCEPT !.out[s] = q]
      OBVIOUS
    <2>4. v = PumpOutQueue(w, s)
      BY <1>4, <2>1, <2>3 DEF DispatchInput, Transports
    <2>5. Steady(u, w)
      BY <2>2, <2>3, Queued
    <2>6. w \in Transports /\ w.sub = u.sub /\ w.mode = u.mode
      BY <2>5 DEF Steady, SamePaths
    <2>7. KeyFits(w, p, k)
      BY <1>4, <2>1, <2>3, QueuedKeys
    <2>8. Pumped(w, v, s)
      BY <2>4, <2>6, PumpIs
    <2> HIDE DEF k
    <2>9. KeyFits(v, p, k)
      BY <1>1, <1>4, <2>6, <2>7, <2>8, PumpedKeys
    <2> QED
      BY <2>9 DEF k
  <1> QED
    BY <1>2, <1>3, <1>4

(* bufferInput houses the next key: it is held, and when the window is     *)
(* full the oldest is lost.                                                *)
LEMMA BufferKeys ==
  ASSUME NEW u \in Transports, NEW p \in KeyQueues, NEW n \in Nat, n + 1 \in Keys,
         KeyFits(u, p, n), NEW s \in Sessions, u.mode[s] = "connecting",
         NEW v, v = BufferInput(u, s, n + 1)
  PROVE  KeyFits(v, p, n + 1)
  <1> DEFINE k == n + 1
  <1>1. u.held[s] \in Seq(Keys) /\ k \in Keys /\ k \in Nat
    BY SomeTypes
  <1>2. PICK all \in Seq(Keys) : all = Append(u.held[s], k) /\ all = u.held[s] \o <<k>> /\ all # <<>>
    <2>1. Append(u.held[s], k) = u.held[s] \o <<k>>
      BY <1>1, AppendQueue
    <2>2. Append(u.held[s], k) \in Seq(Keys) /\ Append(u.held[s], k) # <<>>
      BY <1>1
    <2> QED
      BY <2>1, <2>2
  <1>3. v = IF Len(all) <= MaxHeld THEN [u EXCEPT !.held[s] = all]
            ELSE [u EXCEPT !.held[s] = Tail(all), !.lost = u.lost \union {Head(all)}]
    BY <1>2 DEF BufferInput
  <1>4. PICK w : w = [u EXCEPT !.held[s] = all]
    OBVIOUS
  <1>5. w \in Transports
    BY <1>4 DEF Transports, KeyQueues
  <1>6. KeyFits(w, p, k)
    BY <1>2, <1>4, HeldKeys
  <1>7. CASE ~(Len(all) <= MaxHeld)
    <2>1. v = [u EXCEPT !.held[s] = Tail(all), !.lost = u.lost \union {Head(all)}]
      BY <1>3, <1>7
    <2>2. /\ v.out = u.out /\ v.flying = u.flying /\ v.cloud = u.cloud
          /\ v.lost = u.lost \union {Head(all)}
          /\ v.exposed = u.exposed /\ v.mode = u.mode /\ v.link = u.link /\ v.up = u.up
          /\ v.held[s] = Tail(all) /\ \A r \in Sessions \ {s} : v.held[r] = u.held[r]
      BY <2>1, ZenonT(60) DEF Transports, KeyQueues
    <2>3. /\ w.out = u.out /\ w.flying = u.flying /\ w.cloud = u.cloud /\ w.lost = u.lost
          /\ w.exposed = u.exposed /\ w.mode = u.mode /\ w.link = u.link /\ w.up = u.up
          /\ w.held[s] = all /\ \A r \in Sessions \ {s} : w.held[r] = u.held[r]
      BY <1>4 DEF Transports, KeyQueues
    <2>4. OldestGone(w, v, s)
      BY <2>2, <2>3 DEF OldestGone
    <2> HIDE DEF k
    <2>5. KeyFits(v, p, k)
      BY <1>1, <1>2, <1>5, <1>6, <2>3, <2>4, OldestGoes
    <2> QED
      BY <2>5 DEF k
  <1>8. CASE Len(all) <= MaxHeld
    BY <1>3, <1>4, <1>6, <1>8
  <1> QED
    BY <1>7, <1>8

-----------------------------------------------------------------------------
(* Every step keeps the keys.                                              *)

KeysFit == KeyFits(t, pty, typed)

(* A step that types nothing, delivers nothing and keeps the keys in order *)
(* keeps the invariant of the keys.                                        *)
LEMMA StayedKeys ==
  ASSUME NEW W \in SUBSET Sessions, IInvAt(W), KeysFit, KeysStay(t, t'), pty' = pty, typed' = typed
  PROVE  KeyFits(t', pty', typed')
  <1>1. pty \in KeyQueues /\ typed \in Nat
    BY DEF IInvAt, TypeOK
  <1> QED
    BY <1>1 DEF KeysFit, KeysStay

(* A new subscription keeps the keys: those of a prior entry are lost with *)
(* it, or exposed.                                                         *)
LEMMA SubscribeTerminalKeys ==
  ASSUME NEW W \in SUBSET Sessions, IInvAt(W), KeysFit, NEW s \in Sessions, SubscribeTerminal(s)
  PROVE  KeyFits(t', pty', typed')
  <1>1. Sound(t, attached, W) /\ ~t.disposed
    BY SoundNow DEF SubscribeTerminal
  <1> DEFINE prior == IF t.mode[s] = "none" THEN t ELSE TeardownSession(t, s)
             entry == EnsurePeer([prior EXCEPT !.mode[s] = "connecting"])
  <1>2. /\ prior \in Transports /\ Fits(prior, attached, W)
        /\ prior.mode[s] = "none" /\ ~prior.disposed /\ KeysStay(t, prior)
    <2>1. CASE t.mode[s] = "none"
      BY <1>1, <2>1 DEF Sound, KeysStay
    <2>2. CASE t.mode[s] # "none"
      <3>1. prior = TeardownSession(t, s)
        BY <2>2
      <3> HIDE DEF prior
      <3>2. /\ prior \in Transports /\ Fits(prior, attached, W)
            /\ prior.mode[s] = "none" /\ ~prior.disposed
        BY <1>1, <3>1, TeardownFits DEF Sound
      <3>3. KeysStay(t, prior)
        BY <1>1, <3>1, TeardownKeys DEF Sound
      <3> QED
        BY <3>2, <3>3
    <2> QED
      BY <2>1, <2>2
  <1> HIDE DEF prior
  <1>3. Entered(prior, entry, s)
    BY <1>2, EntryIs
  <1>4. /\ t' = CASE entry.status = "attached" -> GoDirect(entry, s)
                  [] entry.status = "failed" ->
                        EnsureUpgradeLoop(GoCentrifugo(entry, s), TRUE)
                  [] OTHER -> entry
        /\ UNCHANGED <<localOnly, Bridge, typed, faults>>
    BY DEF SubscribeTerminal, prior
  <1> HIDE DEF entry
  <1>5. /\ entry \in Transports /\ entry.link = prior.link /\ entry.mode[s] = "connecting"
        /\ entry.status \in {"attached", "failed"} => entry.status = prior.status
    BY <1>2, <1>3 DEF Entered, Transports
  <1>6. KeysStay(prior, entry)
    <2>1. /\ SameKeys(prior, entry) /\ entry.link = prior.link /\ entry.up = prior.up
          /\ entry.mode = [prior.mode EXCEPT ![s] = "connecting"]
      BY <1>3 DEF Entered
    <2>2. \A r \in Sessions : \/ entry.mode[r] = prior.mode[r]
                              \/ prior.mode[r] = "none" /\ entry.mode[r] = "connecting"
      BY <1>2, <2>1 DEF Transports
    <2>3. \A r \in Sessions : UpSame(prior.up, entry.up, r)
      BY <2>1, UpStays
    <2>4. ASSUME NEW p \in KeyQueues, NEW n \in Nat, KeyFits(prior, p, n)
          PROVE  KeyFits(entry, p, n)
      BY <1>2, <2>1, <2>2, <2>3, <2>4, QuietKeys
    <2> QED
      BY <2>4 DEF KeysStay
  <1>7. KeysStay(entry, t')
    <2>1. CASE entry.status = "attached"
      <3>1. t' = GoDirect(entry, s)
        BY <1>4, <2>1
      <3>2. entry.link # "none"
        BY <1>2, <1>3, <2>1 DEF Entered, Fits, LinkFits
      <3> QED
        BY <1>5, <3>1, <3>2, GoDirectKeys
    <2>2. CASE entry.status = "failed"
      <3>1. t' = EnsureUpgradeLoop(GoCentrifugo(entry, s), TRUE)
        BY <1>4, <2>2
      <3>2. PICK w : w = GoCentrifugo(entry, s)
        OBVIOUS
      <3>3. entry.link = "none"
        BY <1>2, <1>5, <2>2 DEF Fits, LinkFits
      <3>4. KeysStay(entry, w)
        BY <1>5, <3>2, <3>3, GoCentrifugoKeys
      <3>5. w \in Transports
        BY <1>5, <3>2, GoCentrifugoHeld
      <3>6. KeysStay(w, t')
        BY <3>1, <3>2, <3>5, EnsureKeys
      <3> QED
        BY <3>4, <3>6, KeysOnward
    <2>3. CASE entry.status \notin {"attached", "failed"}
      <3>1. t' = entry
        BY <1>4, <2>3
      <3> QED
        BY <3>1 DEF KeysStay
    <2> QED
      BY <2>1, <2>2, <2>3
  <1>8. KeysStay(t, t')
    BY <1>2, <1>6, <1>7, KeysOnward
  <1> QED
    BY <1>4, <1>8, StayedKeys DEF Bridge

(* unsubscribe keeps the keys.                                             *)
LEMMA UnsubscribeKeys ==
  ASSUME NEW W \in SUBSET Sessions, IInvAt(W), KeysFit, NEW s \in Sessions, Unsubscribe(s)
  PROVE  KeyFits(t', pty', typed')
  <1>1. t \in Transports
    BY SoundNow DEF Sound
  <1>2. PICK left : left = TeardownSession(t, s)
    OBVIOUS
  <1>3. /\ t' = IF HasCentrifugoSessions(left) THEN left ELSE StopUpgradeLoop(left)
        /\ UNCHANGED <<Bridge, typed>>
    BY <1>2 DEF Unsubscribe
  <1>4. left \in Transports /\ KeysStay(t, left)
    BY <1>1, <1>2, TeardownKeys
  <1>5. CASE t' = left
    BY <1>3, <1>4, <1>5, StayedKeys DEF Bridge
  <1>6. CASE t' = StopUpgradeLoop(left)
    <2>1. Retimed(left, t', "off")
      BY <1>4, <1>6, RetimedIs DEF StopUpgradeLoop
    <2>2. SameWay(left, t')
      BY <2>1 DEF Retimed, SameWay, SamePaths, SameLink
    <2>3. KeysStay(t, t')
      BY <1>4, <2>2, SameWayKeys, KeysOnward
    <2> QED
      BY <1>3, <2>3, StayedKeys DEF Bridge
  <1> QED
    BY <1>3, <1>5, <1>6

(* A key that is typed is housed: sent, queued, held, or dropped and       *)
(* counted lost.                                                           *)
LEMMA SendInputKeys ==
  ASSUME NEW W \in SUBSET Sessions, IInvAt(W), KeysFit, NEW s \in Sessions, SendInput(s)
  PROVE  KeyFits(t', pty', typed')
  <1>1. /\ Sound(t, attached, W) /\ CountsOK /\ t \in Transports /\ pty \in KeyQueues
    BY SoundNow DEF Sound
  <1> DEFINE key == typed + 1
  <1>2. key \in Keys /\ typed \in Nat
    BY <1>1, TransportAssumption DEF SendInput, CountsOK, Keys
  <1>3. /\ t' = CASE t.mode[s] = "direct" \/ t.sub[s] # "none" -> DispatchInput(t, s, <<key>>)
                  [] t.mode[s] = "connecting" /\ ~localOnly    -> BufferInput(t, s, key)
                  [] OTHER                                     -> [t EXCEPT !.lost = @ \union {key}]
        /\ pty' = pty /\ typed' = key
    BY DEF SendInput, Bridge
  <1>4. t.sub[s] # "none" => t.mode[s] = "cloud"
    BY <1>1 DEF Sound, Fits, ModesFit
  <1>5. KeyFits(t, pty, typed)
    BY DEF KeysFit
  <1>6. KeyFits(t', pty, key)
    <2> HIDE DEF key
    <2>1. \/ t' = DispatchInput(t, s, <<key>>) /\ (t.mode[s] = "direct" \/ t.sub[s] # "none")
          \/ t' = BufferInput(t, s, key) /\ t.mode[s] = "connecting"
          \/ t' = [t EXCEPT !.lost = @ \union {key}]
      BY <1>3
    <2>2. CASE t' = DispatchInput(t, s, <<key>>) /\ (t.mode[s] = "direct" \/ t.sub[s] # "none")
      BY <1>1, <1>2, <1>4, <1>5, <2>2, DispatchKeys DEF key
    <2>3. CASE t' = BufferInput(t, s, key) /\ t.mode[s] = "connecting"
      BY <1>1, <1>2, <1>5, <2>3, BufferKeys DEF key
    <2>4. CASE t' = [t EXCEPT !.lost = @ \union {key}]
      BY <1>1, <1>2, <1>5, <2>4, DroppedKeys DEF key
    <2> QED
      BY <2>1, <2>2, <2>3, <2>4
  <1> QED
    BY <1>3, <1>6

(* A switch that times out keeps the keys.                                 *)
LEMMA WatchdogFiresKeys ==
  ASSUME NEW W \in SUBSET Sessions, IInvAt(W), KeysFit, NEW s \in Sessions, WatchdogFires(s)
  PROVE  KeyFits(t', pty', typed')
  <1>1. t \in Transports
    BY SoundNow DEF Sound
  <1>2. t' = AbortSessionSwitch(t, s) /\ UNCHANGED <<Bridge, typed>>
    BY DEF WatchdogFires
  <1>3. PICK w : w = [t EXCEPT !.switching = @ \ {s}]
    OBVIOUS
  <1>4. w \in Transports /\ SameWay(t, w)
    BY <1>1, <1>3 DEF Transports, SameWay, SameKeys
  <1>5. PICK d : d = DetachFrom(w, s)
    OBVIOUS
  <1>6. d \in Transports /\ KeysStay(w, d)
    BY <1>4, <1>5, DetachFromIs, DetachFromKeys
  <1>7. t' = MaybeRevertUpgrade(d)
    BY <1>2, <1>3, <1>5 DEF AbortSessionSwitch
  <1>8. KeysStay(t, t')
    BY <1>1, <1>4, <1>6, <1>7, SameWayKeys, RevertKeys, KeysOnward
  <1> QED
    BY <1>2, <1>8, StayedKeys DEF Bridge

(* A cloud subscription that is confirmed keeps the keys.                  *)
LEMMA SubscribedKeys ==
  ASSUME NEW W \in SUBSET Sessions, IInvAt(W), KeysFit, NEW s \in Sessions, Subscribed(s)
  PROVE  KeyFits(t', pty', typed')
  <1>1. t \in Transports
    BY SoundNow DEF Sound
  <1>2. /\ t' = SendWatch([t EXCEPT !.sub[s] = "subscribed"], "watch", s)
        /\ UNCHANGED <<Bridge, typed>>
    BY DEF Subscribed
  <1>3. PICK w : w = [t EXCEPT !.sub[s] = "subscribed"]
    OBVIOUS
  <1>4. w \in Transports /\ SameWay(t, w)
    BY <1>1, <1>3 DEF Transports, SameWay, SameKeys
  <1>5. SamePaths(w, t') /\ SameLink(w, t') /\ SameKeys(w, t')
    BY <1>2, <1>3, <1>4, SendWatchIs
  <1>6. SameWay(w, t')
    BY <1>5 DEF SameWay, SamePaths, SameLink
  <1>7. KeysStay(t, t')
    BY <1>1, <1>4, <1>6, SameWayKeys, KeysOnward
  <1> QED
    BY <1>2, <1>7, StayedKeys DEF Bridge

(* A publication that ends keeps the keys: they have arrived, or are lost, *)
(* and the next queue goes out.                                            *)
LEMMA PublishSettlesKeys ==
  ASSUME NEW W \in SUBSET Sessions, IInvAt(W), KeysFit, NEW s \in Sessions, PublishSettles(s)
  PROVE  KeyFits(t', pty', typed')
  <1>1. /\ Sound(t, attached, W) /\ t \in Transports /\ pty \in KeyQueues
        /\ typed \in Nat /\ typed' = typed
    BY SoundNow DEF Sound, CountsOK, PublishSettles
  <1>2. t.flying[s] \in Seq(Keys) /\ ToSet(t.flying[s]) \subseteq Keys
    BY <1>1, SomeTypes, QueueOfKeys
  <1>3. t.sub[s] # "none" => t.mode[s] = "cloud"
    BY <1>1 DEF Sound, Fits, ModesFit
  <1>4. KeyFits(t, pty, typed)
    BY DEF KeysFit
  <1>5. PICK empty \in Seq(Keys) : empty = <<>>
    BY EmptySeqOf
  <1>6. ASSUME NEW w \in Transports, NEW q \in KeyQueues, KeyFits(w, q, typed),
               w.sub = t.sub, w.mode = t.mode, t' = PumpOutQueue(w, s)
        PROVE  KeyFits(t', q, typed)
    <2>1. Pumped(w, t', s)
      BY <1>6, PumpIs
    <2> QED
      BY <1>1, <1>3, <1>6, <2>1, PumpedKeys
  <1>7. CASE /\ pty' = [pty EXCEPT ![s] = @ \o t.flying[s]]
             /\ t' = PumpOutQueue([t EXCEPT !.flying[s] = <<>>], s)
    <2>1. PICK w : w = [t EXCEPT !.flying[s] = empty]
      OBVIOUS
    <2>2. w \in Transports /\ w.sub = t.sub /\ w.mode = t.mode
      BY <1>1, <2>1 DEF Transports, KeyQueues
    <2>3. FlownAway(t, w, s, {})
      BY <1>1, <1>5, <2>1 DEF FlownAway, Transports, KeyQueues
    <2>4. pty[s] \o t.flying[s] \in Seq(Keys)
      BY <1>1, <1>2 DEF KeyQueues
    <2>5. pty' \in KeyQueues /\ GotMore(pty, pty', s, t.flying[s])
      BY <1>1, <1>7, <2>4 DEF KeyQueues, GotMore
    <2>6. KeyFits(w, pty', typed)
      BY <1>1, <1>4, <2>3, <2>5, LandedKeys
    <2>7. t' = PumpOutQueue(w, s)
      BY <1>5, <1>7, <2>1
    <2>8. KeyFits(t', pty', typed)
      BY <1>6, <2>2, <2>5, <2>6, <2>7
    <2> QED
      BY <1>1, <2>8
  <1>8. CASE /\ pty' = pty
             /\ t' = PumpOutQueue([[t EXCEPT !.flying[s] = <<>>] EXCEPT
                                      !.lost = @ \union ToSet(t.flying[s])], s)
    <2>1. PICK lost \in SUBSET Keys : lost = t.lost \union ToSet(t.flying[s])
      BY <1>1, <1>2 DEF Transports
    <2>2. PICK w : w = [t EXCEPT !.flying[s] = empty, !.lost = lost]
      OBVIOUS
    <2>3. w \in Transports /\ w.sub = t.sub /\ w.mode = t.mode
      BY <1>1, <2>2 DEF Transports, KeyQueues
    <2>4. FlownAway(t, w, s, ToSet(t.flying[s]))
      BY <1>1, <1>5, <2>1, <2>2 DEF FlownAway, Transports, KeyQueues
    <2>5. KeyFits(w, pty, typed)
      BY <1>1, <1>4, <2>4, RefusedKeys
    <2>6. [[t EXCEPT !.flying[s] = <<>>] EXCEPT !.lost = @ \union ToSet(t.flying[s])]
            = [t EXCEPT !.flying[s] = <<>>, !.lost = lost]
      BY <1>1, <2>1 DEF Transports
    <2>7. t' = PumpOutQueue(w, s)
      BY <1>5, <1>8, <2>2, <2>6
    <2>8. KeyFits(t', pty, typed)
      BY <1>1, <1>6, <2>3, <2>5, <2>7
    <2> QED
      BY <1>1, <1>8, <2>8
  <1> QED
    BY <1>7, <1>8 DEF PublishSettles

(* Input that reaches the bridge late through the cloud keeps the keys:    *)
(* all of it is exposed.                                                   *)
LEMMA CloudInputKeys ==
  ASSUME NEW W \in SUBSET Sessions, IInvAt(W), KeysFit, NEW s \in Sessions, CloudInput(s)
  PROVE  KeyFits(t', pty', typed')
  <1>1. t \in Transports /\ pty \in KeyQueues /\ typed \in Nat /\ typed' = typed
    BY SoundNow DEF Sound, CountsOK, CloudInput
  <1>2. t' = [t EXCEPT !.cloud[s] = <<>>] /\ pty' = [pty EXCEPT ![s] = @ \o t.cloud[s]]
    BY DEF CloudInput
  <1>3. LateAway(t, t', s)
    BY <1>1, <1>2 DEF LateAway, Transports, KeyQueues
  <1>4. GotMore(pty, pty', s, t.cloud[s])
    BY <1>1, <1>2 DEF KeyQueues, GotMore
  <1>5. KeyFits(t', pty', typed)
    BY <1>1, <1>3, <1>4, LateKeys DEF KeysFit
  <1> QED
    BY <1>1, <1>5

(* A screen that completes a switch keeps the keys: what was queued        *)
(* follows over the peer, what is in flight is exposed.                    *)
LEMMA ScreenArrivesKeys ==
  ASSUME NEW W \in SUBSET Sessions, IInvAt(W), KeysFit, ScreenArrives
  PROVE  KeyFits(t', pty', typed')
  <1>1. Sound(t, attached, W) /\ t \in Transports
    BY SoundNow DEF Sound
  <1> DEFINE s == Head(t.down)
  <1>2. PICK rest : rest = [t EXCEPT !.down = Tail(@)]
    OBVIOUS
  <1>3. /\ t.down # <<>>
        /\ t' = IF s \in t.served /\ s \in t.switching THEN PerformSwitch(rest, s) ELSE rest
        /\ UNCHANGED <<Bridge, typed>>
    BY <1>2 DEF ScreenArrives
  <1>4. PICK down \in Seq(Sessions) : down = Tail(t.down)
    <2>1. t.down \in Seq(Sessions)
      BY <1>1 DEF Transports
    <2>2. Tail(t.down) \in Seq(Sessions)
      BY <1>3, <2>1
    <2> QED
      BY <2>2
  <1>5. rest = [t EXCEPT !.down = down]
    BY <1>1, <1>2, <1>4 DEF Transports
  <1>6. rest \in Transports
    BY <1>1, <1>5 DEF Transports
  <1>7. SameWay(t, rest)
    BY <1>1, <1>5 DEF Transports, SameWay, SameKeys
  <1>8. KeysStay(t, rest)
    BY <1>1, <1>7, SameWayKeys
  <1> HIDE DEF s
  <1>9. CASE ~(s \in t.served /\ s \in t.switching)
    BY <1>3, <1>8, <1>9, StayedKeys DEF Bridge
  <1>10. CASE s \in t.served /\ s \in t.switching
    <2>1. t' = PerformSwitch(rest, s)
      BY <1>3, <1>10
    <2>2. s \in Sessions /\ rest.link # "none" /\ rest.mode[s] = "cloud" /\ ~rest.disposed
      <3>1. s \in Sessions
        BY <1>1, <1>10 DEF Transports
      <3>2. rest.mode = t.mode /\ rest.link = t.link /\ rest.disposed = t.disposed
        BY <1>1, <1>5, <1>7 DEF SameWay, Transports
      <3> QED
        BY <1>1, <1>10, <3>1, <3>2 DEF Sound, Fits, LinkFits
    <2>3. Switched(rest, t', s)
      BY <1>6, <2>1, <2>2, PerformSwitchIs
    <2>4. ASSUME NEW p \in KeyQueues, NEW n \in Nat, KeyFits(rest, p, n)
          PROVE  KeyFits(t', p, n)
      BY <1>6, <2>2, <2>3, <2>4, SwitchedKeys
    <2>5. KeysStay(rest, t')
      BY <2>4 DEF KeysStay
    <2>6. KeysStay(t, t')
      BY <1>8, <2>5, KeysOnward
    <2> QED
      BY <1>3, <2>6, StayedKeys DEF Bridge
  <1> QED
    BY <1>9, <1>10


-----------------------------------------------------------------------------
(* The ladder, the bridge's end, and the ends of a page.                   *)

(* A climb that has failed leaves the paths in order.                      *)
LEMMA ClimbFailedSound ==
  ASSUME NEW u, NEW A, NEW W, Sound(u, A, W), u.ladder # "idle", localOnly \in BOOLEAN,
         NEW v, v = ClimbFailed(u)
  PROVE  Sound(v, A, W)
  <1>1. u \in Transports
    BY DEF Sound
  <1>2. v \in Transports /\ Fits(v, A, W) /\ Alive(v)
    BY ClimbFailedFits DEF Sound
  <1>3. HeldLess(u, v)
    BY <1>1, ClimbFailedHeld
  <1> QED
    BY <1>2, <1>3, HeldKept DEF Sound

(* The ladder moves to another rung.                                       *)
LEMMA ClimbSound ==
  ASSUME NEW u, NEW A, NEW W, Sound(u, A, W), u.status \in {"connecting", "failed"},
         NEW rung \in {"online", "local", "webrtc"}, NEW v, v = [u EXCEPT !.ladder = rung]
  PROVE  Sound(v, A, W)
  <1>1. u \in Transports
    BY DEF Sound
  <1>2. /\ v \in Transports /\ SamePaths(u, v) /\ SameLink(u, v) /\ SameKeys(u, v)
        /\ v.disposed = u.disposed /\ v.cmds = u.cmds /\ v.ladder = rung
    BY <1>1 DEF Transports, Rungs, SamePaths, SameLink, SameKeys
  <1>3. Fits(v, A, W)
    BY <1>1, <1>2, CalmFits DEF Sound, SameLink
  <1> QED
    BY <1>2, <1>3 DEF Sound, Alive, HeldFits, SameKeys

(* While a climb is under way the bridge is connecting or has failed.      *)
LEMMA Climbing ==
  ASSUME NEW W \in SUBSET Sessions, IInvAt(W), t.ladder # "idle"
  PROVE  t.status \in {"connecting", "failed"}
  BY DEF IInvAt, Fits, ModesFit

(* runUpgradeAttempt keeps the invariant.                                  *)
LEMMA RunUpgradeAttemptKeeps ==
  ASSUME NEW W \in SUBSET Sessions, IInvAt(W), RunUpgradeAttempt
  PROVE  IInvAt(W)'
  <1>1. Sound(t, attached, W) /\ CountsOK /\ t \in Transports
    BY SoundNow DEF Sound
  <1>2. PICK fired : fired = StopUpgradeLoop(t)
    OBVIOUS
  <1>3. /\ t' = IF CanUpgrade(t) THEN [fired EXCEPT !.ladder = "online"] ELSE fired
        /\ UNCHANGED <<localOnly, Bridge, typed, subs, faults>>
    BY <1>2 DEF RunUpgradeAttempt
  <1>4. Retimed(t, fired, "off")
    BY <1>1, <1>2, RetimedIs DEF StopUpgradeLoop
  <1>5. fired \in Transports /\ Fits(fired, attached, W) /\ HeldFits(fired)
    BY <1>1, <1>4, CalmFits DEF Retimed, Sound, SameKeys, HeldFits
  <1>6. CASE ~CanUpgrade(t)
    <2>1. Sound(t', attached, W)
      BY <1>1, <1>2, <1>3, <1>6, TimerOff
    <2> QED
      BY <1>1, <1>3, <2>1, CountsKept, SoundStep
  <1>7. CASE CanUpgrade(t)
    <2>1. t' = [fired EXCEPT !.ladder = "online"]
      BY <1>3, <1>7
    <2>2. /\ t' \in Transports /\ SamePaths(fired, t') /\ SameLink(fired, t')
          /\ SameKeys(fired, t') /\ t'.disposed = fired.disposed /\ t'.cmds = fired.cmds
          /\ t'.ladder = "online"
      BY <1>5, <2>1 DEF Transports, SamePaths, SameLink, SameKeys
    <2>3. t'.status = "failed"
      BY <1>4, <1>7, <2>2 DEF CanUpgrade, Retimed, SameLink
    <2>4. Fits(t', attached, W)
      BY <1>5, <2>2, <2>3, CalmFits
    <2>5. Sound(t', attached, W)
      BY <1>5, <2>2, <2>4 DEF Sound, Alive, HeldFits, SameKeys
    <2> QED
      BY <1>1, <1>3, <2>5, CountsKept, SoundStep
  <1> QED
    BY <1>6, <1>7

(* The answer whether the bridge is online keeps the invariant.            *)
LEMMA OnlineKnownKeeps ==
  ASSUME NEW W \in SUBSET Sessions, IInvAt(W), NEW online \in BOOLEAN, OnlineKnown(online)
  PROVE  IInvAt(W)'
  <1>1. /\ Sound(t, attached, W) /\ CountsOK /\ localOnly \in BOOLEAN
        /\ t.ladder # "idle"
    BY SoundNow DEF OnlineKnown
  <1>2. /\ t' = IF online /\ ~Aborted(t) THEN [t EXCEPT !.ladder = "local"] ELSE ClimbFailed(t)
        /\ UNCHANGED <<localOnly, Bridge, typed, subs, faults>>
    BY DEF OnlineKnown
  <1>3. Sound(t', attached, W)
    <2>1. CASE online /\ ~Aborted(t)
      BY <1>1, <1>2, <2>1, Climbing, ClimbSound
    <2>2. CASE ~(online /\ ~Aborted(t))
      BY <1>1, <1>2, <2>2, ClimbFailedSound
    <2> QED
      BY <2>1, <2>2
  <1> QED
    BY <1>1, <1>2, <1>3, CountsKept, SoundStep

(* A rung that fails keeps the invariant.                                  *)
LEMMA RungFailsKeeps ==
  ASSUME NEW W \in SUBSET Sessions, IInvAt(W), RungFails
  PROVE  IInvAt(W)'
  <1>1. /\ Sound(t, attached, W) /\ CountsOK /\ localOnly \in BOOLEAN
        /\ t.ladder # "idle"
    BY SoundNow DEF RungFails, Rungs
  <1>2. /\ t' = ClimbFailed(t) \/ t' = [t EXCEPT !.ladder = "webrtc"]
        /\ UNCHANGED <<localOnly, Bridge, typed, subs, faults>>
    BY DEF RungFails, NextRung
  <1>3. Sound(t', attached, W)
    <2>1. CASE t' = ClimbFailed(t)
      BY <1>1, <2>1, ClimbFailedSound
    <2>2. CASE t' = [t EXCEPT !.ladder = "webrtc"]
      BY <1>1, <2>2, Climbing, ClimbSound
    <2> QED
      BY <1>2, <2>1, <2>2
  <1> QED
    BY <1>1, <1>2, <1>3, CountsKept, SoundStep

(* A rung that connects keeps the invariant.                               *)
LEMMA RungConnectsKeeps ==
  ASSUME NEW W \in SUBSET Sessions, IInvAt(W), RungConnects
  PROVE  IInvAt(W)'
  <1>1. /\ Sound(t, attached, W) /\ CountsOK /\ localOnly \in BOOLEAN
        /\ t.ladder # "idle" /\ t.ladder \in Rungs /\ t \in Transports
    BY SoundNow DEF RungConnects, Rungs, Sound
  <1>2. PICK ended : ended = [t EXCEPT !.ladder = "idle"]
    OBVIOUS
  <1>3. /\ t' = IF Aborted(t) THEN ClimbFailed(t)
                ELSE IF t.status = "connecting" THEN AttachPeer(ended, t.ladder)
                ELSE CommitUpgrade(ended, t.ladder)
        /\ UNCHANGED <<localOnly, Bridge, typed, subs, faults>>
    BY <1>2 DEF RungConnects
  <1>4. CASE Aborted(t)
    <2>1. Sound(t', attached, W)
      BY <1>1, <1>3, <1>4, ClimbFailedSound
    <2> QED
      BY <1>1, <1>3, <2>1, CountsKept, SoundStep
  <1>5. CASE ~Aborted(t)
    <2>1. /\ ended \in Transports /\ SamePaths(t, ended) /\ SameLink(t, ended)
          /\ SameKeys(t, ended) /\ ended.disposed = t.disposed /\ ended.cmds = t.cmds
          /\ ended.ladder = "idle"
      BY <1>1, <1>2 DEF Transports, SamePaths, SameLink, SameKeys
    <2>2. Fits(ended, attached, W) /\ HeldFits(ended)
      BY <1>1, <2>1, CalmFits DEF Sound, SameKeys, HeldFits
    <2>3. ~ended.disposed /\ ended.status \in {"connecting", "failed"}
      BY <1>1, <1>5, <2>1, Climbing DEF Aborted, SameLink
    <2>4. PICK rung \in Rungs : rung = t.ladder
      BY <1>1
    <2>5. \/ ended.status = "connecting" /\ t' = AttachPeer(ended, rung)
          \/ ended.status = "failed" /\ t' = CommitUpgrade(ended, rung)
      BY <1>3, <1>5, <2>1, <2>3, <2>4 DEF SameLink
    <2>6. t' \in Transports /\ Fits(t', attached, W) /\ Alive(t')
      BY <2>1, <2>2, <2>3, <2>5, CommittedFits
    <2>7. HeldLess(ended, t')
      BY <2>1, <2>5, AttachPeerHeld, CommitUpgradeHeld
    <2>8. Sound(t', attached, W)
      BY <2>2, <2>6, <2>7, HeldKept DEF Sound
    <2> QED
      BY <1>1, <1>3, <2>8, CountsKept, SoundStep
  <1> QED
    BY <1>4, <1>5

(* A trigger of the window keeps the invariant.                            *)
LEMMA GlobalTriggerKeeps ==
  ASSUME NEW W \in SUBSET Sessions, IInvAt(W), GlobalTrigger
  PROVE  IInvAt(W)'
  <1>1. Sound(t, attached, W) /\ CountsOK /\ t \in Transports
    BY SoundNow DEF Sound
  <1>2. /\ t' = EnsureUpgradeLoop(t, TRUE)
        /\ UNCHANGED <<localOnly, Bridge, typed, subs, faults>>
    BY DEF GlobalTrigger
  <1>3. /\ t' \in Transports
        /\ SamePaths(t, t') /\ SameLink(t, t') /\ SameKeys(t, t') /\ t'.cmds = t.cmds
        /\ t'.ladder = t.ladder /\ t'.disposed = t.disposed
        /\ t'.timer = t.timer \/ t'.timer = "armed"
    BY <1>1, <1>2, EnsureIs
  <1>4. Fits(t', attached, W)
    BY <1>1, <1>3, CalmFits DEF Sound
  <1>5. Alive(t')
    BY <1>1, <1>3 DEF Sound, Alive, CanUpgrade, HasCentrifugoSessions, SamePaths, SameLink
  <1>6. Sound(t', attached, W)
    BY <1>1, <1>3, <1>4, <1>5 DEF Sound, HeldFits, SameKeys
  <1> QED
    BY <1>1, <1>2, <1>6, CountsKept, SoundStep

(* A peer that is lost leaves a sound transport sound.                     *)
LEMMA PeerLostSound ==
  ASSUME NEW u, NEW A, NEW W, Sound(u, A, W), u.status = "attached", localOnly \in BOOLEAN,
         NEW v, v = FinalizeFailed(u)
  PROVE  Sound(v, A, W)
  <1>1. u \in Transports
    BY DEF Sound
  <1>2. FellBack(u, v) /\ Fits(v, A, W) /\ Alive(v)
    BY <1>1, PeerLostFits DEF Sound
  <1>3. HeldLess(u, v)
    BY <1>1, FinalizeFailedHeld
  <1> QED
    BY <1>2, <1>3, HeldKept DEF Sound, FellBack

(* A peer that goes down keeps the invariant.                              *)
LEMMA OnPeerDownKeeps ==
  ASSUME NEW W \in SUBSET Sessions, IInvAt(W), OnPeerDown
  PROVE  IInvAt(W)'
  <1>1. /\ Sound(t, attached, W) /\ CountsOK /\ localOnly \in BOOLEAN
        /\ t.status = "attached" /\ t' = FinalizeFailed(t)
        /\ faults < MaxFaults /\ faults' = faults + 1
        /\ UNCHANGED <<localOnly, Bridge, typed, subs>>
    BY SoundNow DEF OnPeerDown
  <1>2. Sound(t', attached, W)
    BY <1>1, PeerLostSound
  <1>3. CountsOK'
    BY <1>1, TransportAssumption DEF CountsOK
  <1> QED
    BY <1>1, <1>2, <1>3, SoundStep

(* Commands that are taken keep the paths in order when the bridge will    *)
(* watch the same sessions.                                                *)
WatchedAlike(u, v, W, X) ==
  \A r \in Sessions : Watching(v.cmds, X, r) <=> Watching(u.cmds, W, r)
LEMMA CommandsSteady ==
  ASSUME NEW u \in Transports, NEW v, NEW A, NEW W, NEW X,
         Fits(u, A, W), Alive(u), Steady(u, v), v.up = u.up, WatchedAlike(u, v, W, X),
         u.disposed => v.up = <<>>
  PROVE  v \in Transports /\ Fits(v, A, X) /\ Alive(v)
  <1>1. \A r \in Sessions : Reaches(v.up, A, r) <=> Reaches(u.up, A, r)
    OBVIOUS
  <1>2. u.disposed \/ \A r \in Sessions : Watching(v.cmds, X, r) <=> Watching(u.cmds, W, r)
    BY DEF WatchedAlike
  <1> QED
    BY <1>1, <1>2, SteadyFits

(* With the next command taken, what will be watched is what would have    *)
(* been, if the command counts.                                            *)
LEMMA CommandTaken ==
  ASSUME NEW W \in SUBSET Sessions, IInvAt(W), NextCommand,
         NEW X, X = IF Head(t.cmds).type = "watch" THEN W \union {Head(t.cmds).session}
                                                   ELSE W \ {Head(t.cmds).session}
  PROVE  /\ Sound(t', attached, X) /\ Head(t.cmds).session \in Sessions
         /\ Head(t.cmds).type \in {"watch", "unwatch"} /\ SameWay(t, t')
  <1>1. Sound(t, attached, W) /\ t \in Transports
    BY SoundNow DEF Sound
  <1>2. t.cmds # <<>> /\ t' = [t EXCEPT !.cmds = Tail(@)]
    BY DEF NextCommand
  <1>3. /\ t.cmds \in Seq(Commands) /\ Tail(t.cmds) \in Seq(Commands)
        /\ Head(t.cmds).session \in Sessions /\ Head(t.cmds).type \in {"watch", "unwatch"}
    <2>1. t.cmds \in Seq(Commands)
      BY <1>1 DEF Transports, Commands
    <2>2. Head(t.cmds) \in Commands /\ Tail(t.cmds) \in Seq(Commands)
      BY <1>2, <2>1, HeadAndTail
    <2> QED
      BY <2>1, <2>2 DEF Commands
  <1>4. PICK cmds \in Seq(Commands) : cmds = Tail(t.cmds)
    BY <1>3
  <1>5. t' = [t EXCEPT !.cmds = cmds]
    BY <1>1, <1>2, <1>4 DEF Transports
  <1>6. t' \in Transports /\ t'.cmds = cmds
    BY <1>1, <1>5 DEF Transports, Commands
  <1>7. Steady(t, t') /\ t'.up = t.up /\ t'.held = t.held
    BY <1>1, <1>5, <1>6 DEF Transports, Steady, SamePaths, SameLoop
  <1>8. ASSUME NEW r \in Sessions
        PROVE  Watching(t'.cmds, X, r) <=> Watching(t.cmds, W, r)
    <2>1. Watching(Tail(t.cmds), X, r) <=> Watching(t.cmds, W, r)
      BY <1>2, <1>3, WatchingRest
    <2> QED
      BY <1>4, <1>6, <2>1
  <1>9. t.disposed => t'.up = <<>>
    BY <1>1, <1>7 DEF Sound, Fits, LinkFits
  <1>10. t' \in Transports /\ Fits(t', attached, X) /\ Alive(t')
    <2>1. Fits(t, attached, W) /\ Alive(t)
      BY <1>1 DEF Sound
    <2>2. WatchedAlike(t, t', W, X)
      BY <1>8 DEF WatchedAlike
    <2> QED
      BY <1>1, <1>7, <1>9, <2>1, <2>2, CommandsSteady
  <1>11. SameWay(t, t')
    BY <1>1, <1>5 DEF Transports, SameWay, SameKeys
  <1> QED
    BY <1>1, <1>3, <1>7, <1>10, <1>11 DEF Sound, HeldFits

(* A command at the bridge keeps the invariant: one that is dropped leaves *)
(* its session unsure.                                                     *)
LEMMA HandleCommandKeeps ==
  ASSUME NEW W \in SUBSET Sessions, IInvAt(W), HandleCommand
  PROVE  IInv'
  <1> DEFINE c == Head(t.cmds)
  <1>0. PICK X : X = IF c.type = "watch" THEN W \union {c.session} ELSE W \ {c.session}
    OBVIOUS
  <1>1. /\ CountsOK /\ attached \subseteq Sessions /\ watchers \subseteq Sessions
        /\ unsure \subseteq Sessions /\ Sure(W) /\ pty \in KeyQueues
    BY SoundNow
  <1>2. /\ Sound(t', attached, X) /\ c.session \in Sessions /\ c.type \in {"watch", "unwatch"}
    BY <1>0, CommandTaken DEF HandleCommand
  <1>3. /\ \/ /\ watchers' = IF c.type = "watch" THEN watchers \union {c.session}
                                                ELSE watchers \ {c.session}
              /\ unsure' = unsure \ {c.session} /\ faults' = faults
           \/ /\ c.type = "watch" /\ faults < MaxFaults /\ faults' = faults + 1
              /\ unsure' = unsure \union {c.session} /\ watchers' = watchers
        /\ UNCHANGED <<localOnly, attached, pty, typed, subs>>
    BY DEF HandleCommand
  <1>4. watchers' \subseteq Sessions /\ unsure' \subseteq Sessions /\ X \in SUBSET Sessions
    BY <1>0, <1>1, <1>2, <1>3
  <1>5. Sure(X)'
    BY <1>0, <1>1, <1>2, <1>3 DEF Sure
  <1>6. CountsOK'
    BY <1>1, <1>3, TransportAssumption DEF CountsOK
  <1>7. IInvAt(X)'
    <2>1. Sound(t', attached', X) /\ localOnly' = localOnly
      BY <1>2, <1>3
    <2>2. attached' \subseteq Sessions /\ pty' \in KeyQueues
      BY <1>1, <1>3
    <2> QED
      BY <1>4, <1>5, <1>6, <2>1, <2>2, SoundNext
  <1> QED
    BY <1>4, <1>7 DEF IInv

(* A command that is lost keeps the invariant: its session is unsure.      *)
LEMMA CommandLostKeeps ==
  ASSUME NEW W \in SUBSET Sessions, IInvAt(W), CommandLost
  PROVE  IInv'
  <1> DEFINE c == Head(t.cmds)
  <1>0. PICK X : X = IF c.type = "watch" THEN W \union {c.session} ELSE W \ {c.session}
    OBVIOUS
  <1>1. /\ CountsOK /\ attached \subseteq Sessions /\ watchers \subseteq Sessions
        /\ unsure \subseteq Sessions /\ Sure(W) /\ pty \in KeyQueues
    BY SoundNow
  <1>2. Sound(t', attached, X) /\ c.session \in Sessions
    BY <1>0, CommandTaken DEF CommandLost
  <1>3. /\ faults < MaxFaults /\ faults' = faults + 1
        /\ unsure' = unsure \union {c.session} /\ watchers' = watchers
        /\ UNCHANGED <<localOnly, attached, pty, typed, subs>>
    BY DEF CommandLost
  <1>4. watchers' \subseteq Sessions /\ unsure' \subseteq Sessions /\ X \in SUBSET Sessions
    BY <1>0, <1>1, <1>2, <1>3
  <1>5. Sure(X)'
    BY <1>0, <1>1, <1>2, <1>3 DEF Sure
  <1>6. CountsOK'
    BY <1>1, <1>3, TransportAssumption DEF CountsOK
  <1>7. IInvAt(X)'
    <2>1. Sound(t', attached', X) /\ localOnly' = localOnly
      BY <1>2, <1>3
    <2>2. attached' \subseteq Sessions /\ pty' \in KeyQueues
      BY <1>1, <1>3
    <2> QED
      BY <1>4, <1>5, <1>6, <2>1, <2>2, SoundNext
  <1> QED
    BY <1>4, <1>7 DEF IInv

(* Asking again for what is asked for already changes nothing.             *)
LEMMA HeartbeatKeeps ==
  ASSUME NEW W \in SUBSET Sessions, IInvAt(W), NEW s \in Sessions, Heartbeat(s)
  PROVE  IInvAt(W)'
  <1>1. /\ Sound(t, attached, W) /\ CountsOK /\ t \in Transports
        /\ t.sub[s] = "subscribed"
    BY SoundNow DEF Heartbeat, Sound
  <1>2. t' = SendWatch(t, "watch", s) /\ UNCHANGED <<localOnly, Bridge, typed, subs, faults>>
    BY DEF Heartbeat
  <1>3. ~t.disposed /\ Watching(t.cmds, W, s)
    BY <1>1 DEF Sound, Fits, ModesFit, BridgeFits
  <1>4. /\ t' \in Transports
        /\ SamePaths(t, t') /\ SameLink(t, t') /\ SameLoop(t, t') /\ SameKeys(t, t')
        /\ t'.cmds = Append(t.cmds, [type |-> "watch", session |-> s])
    BY <1>1, <1>2, <1>3, SendWatchIs
  <1>5. ASSUME NEW r \in Sessions
        PROVE  Watching(t'.cmds, W, r) <=> Watching(t.cmds, W, r)
    <2>1. Watching(Append(t.cmds, [type |-> "watch", session |-> s]), W, r)
            <=> r = s \/ Watching(t.cmds, W, r)
      BY <1>1, SomeTypes, WatchingMore
    <2> QED
      BY <1>3, <1>4, <2>1
  <1>6. Steady(t, t') /\ t'.up = t.up /\ t'.held = t.held
    BY <1>4 DEF Steady, SameLink, SameKeys
  <1>7. Fits(t', attached, W) /\ Alive(t')
    BY <1>1, <1>3, <1>5, <1>6, SteadyFits DEF Sound
  <1>8. Sound(t', attached, W)
    BY <1>1, <1>4, <1>6, <1>7 DEF Sound, HeldFits
  <1> QED
    BY <1>1, <1>2, <1>8, CountsKept, SoundStep

(* Refusing the commands of a page that has gone changes nothing else.     *)
LEMMA RefusedIs ==
  ASSUME NEW u \in Transports, NEW v, v = [u EXCEPT !.cmds = <<>>]
  PROVE  /\ v \in Transports /\ Steady(u, v) /\ v.up = u.up /\ v.held = u.held
         /\ SameWay(u, v)
  <1>1. PICK none \in Seq(Commands) : none = <<>>
    BY EmptySeqOf
  <1>2. v = [u EXCEPT !.cmds = none]
    BY <1>1, Zenon
  <1>3. v \in Transports
    BY <1>2, ZenonT(60) DEF Transports, Commands
  <1>4. Steady(u, v) /\ v.up = u.up /\ v.held = u.held
    BY <1>2, <1>3 DEF Transports, Steady, SamePaths, SameLoop
  <1>5. SameWay(u, v)
    BY <1>2 DEF Transports, SameWay, SameKeys
  <1> QED
    BY <1>3, <1>4, <1>5

(* Of a page that has gone nothing is asked of the watches: refusing its   *)
(* commands keeps the invariant.                                           *)
LEMMA CommandsRefusedKeeps ==
  ASSUME NEW W \in SUBSET Sessions, IInvAt(W), CommandsRefused
  PROVE  IInvAt(W)'
  <1>1. Sound(t, attached, W) /\ CountsOK /\ t \in Transports /\ t.disposed
    BY SoundNow DEF Sound, CommandsRefused
  <1>2. t' = [t EXCEPT !.cmds = <<>>] /\ UNCHANGED <<localOnly, Bridge, typed, subs, faults>>
    BY DEF CommandsRefused
  <1>3. t' \in Transports /\ Steady(t, t') /\ t'.up = t.up /\ t'.held = t.held
    BY <1>1, <1>2, RefusedIs
  <1>4. t'.up = <<>>
    BY <1>1, <1>3 DEF Sound, Fits, LinkFits
  <1>5. Fits(t', attached, W) /\ Alive(t')
    <2>1. \A r \in Sessions : Reaches(t'.up, attached, r) <=> Reaches(t.up, attached, r)
      BY <1>3
    <2>2. Fits(t, attached, W) /\ Alive(t)
      BY <1>1 DEF Sound
    <2> QED
      BY <1>1, <1>3, <1>4, <2>1, <2>2, SteadyFits
  <1>6. Sound(t', attached, W)
    BY <1>1, <1>3, <1>5 DEF Sound, HeldFits
  <1> QED
    BY <1>1, <1>2, <1>6, CountsKept, SoundStep

(* One session fewer that is not going to be watched anyway.               *)
LEMMA WatchingLess ==
  ASSUME NEW cmds, NEW W, NEW s \in Sessions, ~Watching(cmds, W, s), NEW r \in Sessions
  PROVE  Watching(cmds, W \ {s}, r) <=> Watching(cmds, W, r)
  BY DEF Watching, Leaves

(* A watch that runs out keeps the invariant: it was left over, or its     *)
(* session is unsure.                                                      *)
LEMMA WatchExpiresKeeps ==
  ASSUME NEW W \in SUBSET Sessions, IInvAt(W), NEW s \in Sessions, WatchExpires(s)
  PROVE  IInv'
  <1>1. /\ Sound(t, attached, W) /\ CountsOK /\ t \in Transports /\ attached \subseteq Sessions
        /\ watchers \subseteq Sessions /\ unsure \subseteq Sessions /\ Sure(W)
        /\ pty \in KeyQueues
    BY SoundNow DEF Sound
  <1>2. watchers' = watchers \ {s} /\ UNCHANGED <<t, localOnly, attached, pty, typed, subs>>
    BY DEF WatchExpires
  <1>3. CASE t.sub[s] # "subscribed" /\ unsure' = unsure \ {s} /\ faults' = faults
    <2> DEFINE X == W \ {s}
    <2>1. /\ watchers' \subseteq Sessions /\ unsure' \subseteq Sessions
          /\ X \in SUBSET Sessions /\ Sure(X)'
      BY <1>1, <1>2, <1>3 DEF Sure
    <2>2. t.disposed \/ \A r \in Sessions : Watching(t.cmds, X, r) <=> Watching(t.cmds, W, r)
      <3>1. t.disposed \/ ~Watching(t.cmds, W, s)
        BY <1>1, <1>3 DEF Sound, Fits, BridgeFits
      <3> QED
        BY <3>1, WatchingLess
    <2> HIDE DEF X
    <2>3. Steady(t, t) /\ (t.disposed => t.up = <<>>)
      BY <1>1 DEF Sound, Fits, LinkFits, Steady, SamePaths, SameLoop
    <2>4. Fits(t, attached, X)
      BY <1>1, <2>2, <2>3, SteadyFits DEF Sound
    <2>5. Sound(t', attached', X)
      BY <1>1, <1>2, <2>4 DEF Sound
    <2>6. CountsOK'
      BY <1>1, <1>2, <1>3 DEF CountsOK
    <2>7. IInvAt(X)'
      BY <1>1, <1>2, <2>1, <2>5, <2>6, SoundNext
    <2> QED
      BY <2>1, <2>7 DEF IInv
  <1>4. CASE faults < MaxFaults /\ faults' = faults + 1 /\ unsure' = unsure \union {s}
    <2>1. watchers' \subseteq Sessions /\ unsure' \subseteq Sessions /\ Sure(W)'
      BY <1>1, <1>2, <1>4 DEF Sure
    <2>2. CountsOK'
      BY <1>1, <1>2, <1>4, TransportAssumption DEF CountsOK
    <2>3. IInvAt(W)'
      BY <1>1, <1>2, <2>1, <2>2, SoundNext
    <2> QED
      BY <2>3 DEF IInv
  <1> QED
    BY <1>3, <1>4 DEF WatchExpires


(* The publication has landed, or has been refused.                        *)
Calm(u, w) == Steady(u, w) /\ w.up = u.up /\ w.cmds = u.cmds /\ w.held = u.held

(* The end of a publication changes no path.                               *)
LEMMA Landed ==
  ASSUME NEW u \in Transports, NEW s \in Sessions, NEW q \in Seq(Keys), NEW lost \in SUBSET Keys
  PROVE  Calm(u, [u EXCEPT !.flying[s] = q, !.lost = lost])
  <1> DEFINE w == [u EXCEPT !.flying[s] = q, !.lost = lost]
  <1>1. w \in Transports
    BY DEF Transports, KeyQueues
  <1> QED
    BY <1>1 DEF Transports, Calm, Steady, SamePaths, SameLoop

(* A transport that is steady and holds what it held stays sound.          *)
LEMMA SteadySound ==
  ASSUME NEW u, NEW v, NEW A, NEW W, Sound(u, A, W), Steady(u, v),
         v.up = u.up, v.cmds = u.cmds, v.held = u.held
  PROVE  Sound(v, A, W)
  <1>1. u.disposed => v.up = <<>>
    BY DEF Sound, Fits, LinkFits
  <1>2. v \in Transports /\ Fits(v, A, W) /\ Alive(v)
    BY <1>1, SteadyFits DEF Sound
  <1> QED
    BY <1>2 DEF Sound, HeldFits

(* The end of a publication keeps the invariant.                           *)
LEMMA PublishSettlesKeeps ==
  ASSUME NEW W \in SUBSET Sessions, IInvAt(W), NEW s \in Sessions, PublishSettles(s)
  PROVE  IInvAt(W)'
  <1>1. /\ Sound(t, attached, W) /\ CountsOK /\ t \in Transports
        /\ attached \subseteq Sessions /\ pty \in KeyQueues
    BY SoundNow DEF Sound
  <1>2. t.flying[s] \in Seq(Keys) /\ ToSet(t.flying[s]) \subseteq Keys
        /\ t.lost \in SUBSET Keys
    BY <1>1, SomeTypes, QueueOfKeys DEF Transports
  <1>3. PICK lost \in SUBSET Keys :
           t' = PumpOutQueue([t EXCEPT !.flying[s] = <<>>, !.lost = lost], s)
    <2>1. CASE t' = PumpOutQueue([t EXCEPT !.flying[s] = <<>>], s)
      <3>1. [t EXCEPT !.flying[s] = <<>>] = [t EXCEPT !.flying[s] = <<>>, !.lost = t.lost]
        BY <1>1 DEF Transports
      <3> QED
        BY <1>2, <2>1, <3>1
    <2>2. CASE t' = PumpOutQueue([[t EXCEPT !.flying[s] = <<>>] EXCEPT
                                     !.lost = @ \union ToSet(t.flying[s])], s)
      <3>1. PICK lost \in SUBSET Keys : lost = t.lost \union ToSet(t.flying[s])
        BY <1>2
      <3>2. [[t EXCEPT !.flying[s] = <<>>] EXCEPT !.lost = @ \union ToSet(t.flying[s])]
              = [t EXCEPT !.flying[s] = <<>>, !.lost = lost]
        BY <1>1, <3>1 DEF Transports
      <3> QED
        BY <2>2, <3>2
    <2> QED
      BY <2>1, <2>2 DEF PublishSettles
  <1>4. PICK w : w = [t EXCEPT !.flying[s] = <<>>, !.lost = lost]
    OBVIOUS
  <1>5. Steady(t, w) /\ w.up = t.up /\ w.cmds = t.cmds /\ w.held = t.held
    <2>1. PICK empty \in Seq(Keys) : empty = <<>>
      BY EmptySeqOf
    <2>2. Calm(t, [t EXCEPT !.flying[s] = empty, !.lost = lost])
      BY <1>1, Landed
    <2>3. Calm(t, w)
      BY <1>4, <2>1, <2>2
    <2> QED
      BY <2>3 DEF Calm
  <1>6. Steady(w, t') /\ t'.up = w.up /\ t'.cmds = w.cmds /\ t'.held = w.held
    <2>1. t' = PumpOutQueue(w, s) /\ w \in Transports
      BY <1>3, <1>4, <1>5 DEF Steady
    <2> QED
      BY <2>1, PumpSteady
  <1>7. Sound(t', attached, W)
    <2>1. Sound(w, attached, W)
      BY <1>1, <1>5, SteadySound
    <2> QED
      BY <1>6, <2>1, SteadySound
  <1>8. /\ pty' = [pty EXCEPT ![s] = @ \o t.flying[s]] \/ pty' = pty
        /\ faults' = faults \/ (faults < MaxFaults /\ faults' = faults + 1)
        /\ UNCHANGED <<localOnly, attached, Registry, typed, subs>>
    BY DEF PublishSettles
  <1>9. pty' \in KeyQueues
    <2>1. CASE pty' = [pty EXCEPT ![s] = @ \o t.flying[s]]
      <3>1. pty[s] \o t.flying[s] \in Seq(Keys)
        BY <1>1, <1>2 DEF KeyQueues
      <3> QED
        BY <1>1, <2>1, <3>1 DEF KeyQueues
    <2>2. CASE pty' = pty
      BY <1>1, <2>2
    <2> QED
      BY <1>8, <2>1, <2>2
  <1>10. CountsOK'
    BY <1>1, <1>8, TransportAssumption DEF CountsOK
  <1>11. Sound(t', attached', W)
    BY <1>7, <1>8
  <1> QED
    BY <1>1, <1>8, <1>9, <1>10, <1>11, SoundTurn

(* Input that reaches the bridge through the cloud keeps the invariant.    *)
LEMMA CloudInputKeeps ==
  ASSUME NEW W \in SUBSET Sessions, IInvAt(W), NEW s \in Sessions, CloudInput(s)
  PROVE  IInvAt(W)'
  <1>1. /\ Sound(t, attached, W) /\ CountsOK /\ t \in Transports
        /\ attached \subseteq Sessions /\ pty \in KeyQueues
    BY SoundNow DEF Sound
  <1>2. /\ t' = [t EXCEPT !.cloud[s] = <<>>] /\ pty' = [pty EXCEPT ![s] = @ \o t.cloud[s]]
        /\ UNCHANGED <<localOnly, attached, Registry, typed, subs, faults>>
    BY DEF CloudInput
  <1>3. t.cloud[s] \in Seq(Keys)
    BY <1>1, SomeTypes
  <1>4. PICK empty \in Seq(Keys) : empty = <<>>
    BY EmptySeqOf
  <1>5. t' \in Transports
    BY <1>1, <1>2, <1>4 DEF Transports, KeyQueues
  <1>6. Steady(t, t') /\ t'.up = t.up /\ t'.cmds = t.cmds /\ t'.held = t.held
    BY <1>1, <1>2, <1>5 DEF Transports, Steady, SamePaths, SameLoop
  <1>7. Sound(t', attached', W)
    <2>1. Sound(t', attached, W)
      BY <1>1, <1>6, SteadySound
    <2> QED
      BY <1>2, <2>1
  <1>8. pty' \in KeyQueues
    BY <1>1, <1>2, <1>3 DEF KeyQueues
  <1> QED
    BY <1>1, <1>2, <1>7, <1>8, CountsKept, SoundTurn

(* A screen that reaches the page keeps the invariant.                     *)
LEMMA ScreenArrivesKeeps ==
  ASSUME NEW W \in SUBSET Sessions, IInvAt(W), ScreenArrives
  PROVE  IInvAt(W)'
  <1>1. Sound(t, attached, W) /\ CountsOK /\ t \in Transports
    BY SoundNow DEF Sound
  <1> DEFINE s == Head(t.down)
  <1>2. PICK rest : rest = [t EXCEPT !.down = Tail(@)]
    OBVIOUS
  <1>3. /\ t.down # <<>>
        /\ t' = IF s \in t.served /\ s \in t.switching THEN PerformSwitch(rest, s) ELSE rest
        /\ UNCHANGED <<localOnly, Bridge, typed, subs, faults>>
    BY <1>2 DEF ScreenArrives
  <1>4. PICK down \in Seq(Sessions) : down = Tail(t.down)
    <2>1. t.down \in Seq(Sessions)
      BY <1>1 DEF Transports
    <2>2. Tail(t.down) \in Seq(Sessions)
      BY <1>3, <2>1
    <2> QED
      BY <2>2
  <1>5. rest = [t EXCEPT !.down = down]
    BY <1>1, <1>2, <1>4 DEF Transports
  <1>6. rest \in Transports
    BY <1>1, <1>5 DEF Transports
  <1>7. Steady(t, rest) /\ rest.up = t.up /\ rest.cmds = t.cmds /\ rest.held = t.held
    BY <1>1, <1>5, <1>6 DEF Transports, Steady, SamePaths, SameLoop
  <1>8. Sound(rest, attached, W)
    BY <1>1, <1>7, SteadySound
  <1> HIDE DEF s
  <1>9. CASE ~(s \in t.served /\ s \in t.switching)
    BY <1>1, <1>3, <1>8, <1>9, CountsKept, SoundStep
  <1>10. CASE s \in t.served /\ s \in t.switching
    <2>1. t' = PerformSwitch(rest, s)
      BY <1>3, <1>10
    <2>2. s \in rest.switching /\ s \in Sessions /\ rest.link # "none" /\ ~rest.disposed
      <3>1. s \in Sessions
        BY <1>1, <1>10 DEF Transports
      <3>2. rest.switching = t.switching /\ rest.served = t.served
        BY <1>7 DEF Steady, SamePaths
      <3> QED
        BY <1>8, <1>10, <3>1, <3>2 DEF Sound, Fits, LinkFits
    <2>3. Switched(rest, t', s)
      BY <1>6, <2>1, <2>2, PerformSwitchIs
    <2>4. t' \in Transports /\ Fits(t', attached, W) /\ Alive(t')
      BY <1>6, <1>8, <2>2, <2>3, SwitchFits DEF Sound
    <2>5. t'.held = rest.held
      BY <2>3 DEF Switched
    <2>6. Sound(t', attached, W)
      BY <1>8, <2>4, <2>5 DEF Sound, HeldFits
    <2> QED
      BY <1>1, <1>3, <2>6, CountsKept, SoundStep
  <1> QED
    BY <1>9, <1>10

(* The bridge takes the head of what is on its way, with or without an     *)
(* answer that will come back as a screen.                                 *)
LEMMA Taken ==
  ASSUME NEW u \in Transports, u.up # <<>>, NEW down \in Seq(Sessions),
         NEW v, v = [u EXCEPT !.up = Tail(@), !.down = down]
  PROVE  Steady(u, v) /\ v.up = Tail(u.up) /\ v.cmds = u.cmds /\ v.held = u.held
  <1>1. PICK up \in Seq(Frames) : up = Tail(u.up)
    <2>1. u.up \in Seq(Frames)
      BY DEF Transports
    <2>2. Tail(u.up) \in Seq(Frames)
      BY <2>1
    <2> QED
      BY <2>2
  <1>2. v = [u EXCEPT !.up = up, !.down = down]
    BY <1>1 DEF Transports
  <1>3. v \in Transports
    BY <1>2, ZenonT(60) DEF Transports
  <1> QED
    BY <1>1, <1>2, <1>3, SMTT(30) DEF Transports, Steady, SamePaths, SameLoop

(* What the head of what is on its way may be.                             *)
LEMMA FrameFacts ==
  ASSUME NEW u \in Transports, u.up # <<>>
  PROVE  /\ Head(u.up).kind \in {"attach", "detach", "input", "close"}
         /\ Head(u.up).kind # "close" => Head(u.up).session \in Sessions
         /\ Head(u.up).kind = "input" => Head(u.up).key \in Keys
         /\ u.up \in Seq(Frames)
  <1>1. u.up \in Seq(Frames) /\ Head(u.up) \in Frames
    BY DEF Transports
  <1> QED
    BY <1>1 DEF Frames, Frame

(* A frame at the bridge keeps the invariant.                              *)
LEMMA HandleFrameKeeps ==
  ASSUME NEW W \in SUBSET Sessions, IInvAt(W), HandleFrame
  PROVE  IInvAt(W)'
  <1> DEFINE f == Head(t.up)
  <1>1. /\ Sound(t, attached, W) /\ CountsOK /\ t \in Transports
        /\ attached \subseteq Sessions /\ pty \in KeyQueues
        /\ t.up # <<>>
    BY SoundNow DEF Sound, HandleFrame
  <1>2. /\ f.kind \in {"attach", "detach", "input", "close"}
        /\ f.kind # "close" => f.session \in Sessions
        /\ f.kind = "input" => f.key \in Keys
        /\ t.up \in Seq(Frames)
    BY <1>1, FrameFacts
  <1>3. /\ attached' = IF f.kind = "attach" THEN attached \union {f.session}
                       ELSE IF f.kind = "detach" THEN attached \ {f.session}
                       ELSE IF f.kind = "close" THEN {} ELSE attached
        /\ pty' = IF f.kind = "input" THEN [pty EXCEPT ![f.session] = Append(@, f.key)] ELSE pty
        /\ UNCHANGED <<localOnly, Registry, typed, subs, faults>>
    BY <1>2 DEF HandleFrame
  <1>4. PICK down \in Seq(Sessions) : t' = [t EXCEPT !.up = Tail(@), !.down = down]
    <2>1. t.down \in Seq(Sessions)
      BY <1>1 DEF Transports
    <2>2. \/ t' = [t EXCEPT !.up = Tail(@)]
          \/ f.kind = "attach" /\ t' = [[t EXCEPT !.up = Tail(@)] EXCEPT !.down = Append(@, f.session)]
      BY DEF HandleFrame
    <2>3. CASE t' = [t EXCEPT !.up = Tail(@)]
      <3>1. t' = [t EXCEPT !.up = Tail(@), !.down = t.down]
        BY <1>1, <2>3 DEF Transports
      <3> QED
        BY <2>1, <3>1
    <2>4. CASE f.kind = "attach" /\ t' = [[t EXCEPT !.up = Tail(@)] EXCEPT !.down = Append(@, f.session)]
      <3>1. Append(t.down, f.session) \in Seq(Sessions)
        BY <1>2, <2>1, <2>4
      <3>2. t' = [t EXCEPT !.up = Tail(@), !.down = Append(t.down, f.session)]
        BY <1>1, <2>4 DEF Transports
      <3> QED
        BY <3>1, <3>2
    <2> QED
      BY <2>2, <2>3, <2>4
  <1>5. Steady(t, t') /\ t'.up = Tail(t.up) /\ t'.cmds = t.cmds /\ t'.held = t.held
    BY <1>1, <1>4, Taken
  <1>6. ASSUME NEW r \in Sessions PROVE Reaches(t'.up, attached', r) <=> Reaches(t.up, attached, r)
    <2>1. r \in attached' <=> \/ f.kind = "attach" /\ f.session = r
                              \/ /\ r \in attached /\ f.kind # "close"
                                 /\ ~(f.kind = "detach" /\ f.session = r)
      BY <1>2, <1>3
    <2>2. Reaches(Tail(t.up), attached', r) <=> Reaches(t.up, attached, r)
      BY <1>1, <1>2, <2>1, ReachesRest
    <2> QED
      BY <1>5, <2>2
  <1>7. t.disposed => t'.up = <<>>
    BY <1>1 DEF Sound, Fits, LinkFits
  <1>8. t' \in Transports /\ Fits(t', attached', W) /\ Alive(t')
    BY <1>1, <1>5, <1>6, <1>7, SteadyFits DEF Sound
  <1>9. Sound(t', attached', W)
    BY <1>1, <1>3, <1>5, <1>8 DEF Sound, HeldFits
  <1>10. attached' \subseteq Sessions
    BY <1>1, <1>2, <1>3
  <1>11. pty' \in KeyQueues
    <2>1. CASE f.kind = "input"
      <3>1. f.session \in Sessions /\ f.key \in Keys
        BY <1>2, <2>1
      <3>2. Append(pty[f.session], f.key) \in Seq(Keys)
        BY <1>1, <3>1 DEF KeyQueues
      <3> QED
        BY <1>1, <1>3, <2>1, <3>1, <3>2 DEF KeyQueues
    <2>2. CASE f.kind # "input"
      BY <1>1, <1>3, <2>2
    <2> QED
      BY <2>1, <2>2
  <1> QED
    BY <1>1, <1>3, <1>9, <1>10, <1>11, CountsKept, SoundTurn

(* A frame that is lost keeps the invariant.                               *)
LEMMA FrameLostKeeps ==
  ASSUME NEW W \in SUBSET Sessions, IInvAt(W), FrameLost
  PROVE  IInvAt(W)'
  <1>1. /\ Sound(t, attached, W) /\ CountsOK /\ t \in Transports
        /\ t.up # <<>> /\ t.link = "none" /\ Head(t.up).kind = "input"
    BY SoundNow DEF Sound, FrameLost
  <1>2. /\ t' = [t EXCEPT !.up = Tail(@), !.lost = @ \union {Head(t.up).key}]
        /\ UNCHANGED <<localOnly, Bridge, typed, subs, faults>>
    BY DEF FrameLost
  <1>3. t.up \in Seq(Frames) /\ Head(t.up).session \in Sessions /\ Head(t.up).key \in Keys
    BY <1>1, FrameFacts
  <1>4. PICK lost \in SUBSET Keys : lost = t.lost \union {Head(t.up).key}
    BY <1>1, <1>3 DEF Transports
  <1>5. PICK up \in Seq(Frames) : up = Tail(t.up)
    <2>1. Tail(t.up) \in Seq(Frames)
      BY <1>1, <1>3
    <2> QED
      BY <2>1
  <1>6. t' = [t EXCEPT !.up = up, !.lost = lost]
    BY <1>1, <1>2, <1>4, <1>5 DEF Transports
  <1>7. t' \in Transports
    BY <1>1, <1>6 DEF Transports
  <1>8. Steady(t, t') /\ t'.up = up /\ t'.cmds = t.cmds /\ t'.held = t.held
    BY <1>1, <1>6, <1>7 DEF Transports, Steady, SamePaths, SameLoop
  <1>9. ASSUME NEW r \in Sessions PROVE Reaches(t'.up, attached, r) <=> Reaches(t.up, attached, r)
    <2>1. Reaches(Tail(t.up), attached, r) <=> Reaches(t.up, attached, r)
      BY <1>1, <1>3, ReachesRest
    <2> QED
      BY <1>5, <1>8, <2>1
  <1>10. t.disposed => t'.up = <<>>
    BY <1>1 DEF Sound, Fits, LinkFits
  <1>11. t' \in Transports /\ Fits(t', attached, W) /\ Alive(t')
    BY <1>1, <1>8, <1>9, <1>10, SteadyFits DEF Sound
  <1>12. Sound(t', attached, W)
    BY <1>1, <1>8, <1>11 DEF Sound, HeldFits
  <1> QED
    BY <1>1, <1>2, <1>12, CountsKept, SoundStep


(* What revocation does once the peer is lost: buffers are emptied and     *)
(* the timer that was armed keeps its handle.                              *)
Withdrawn(u, v) ==
    /\ v \in Transports /\ SamePaths(u, v) /\ SameLink(u, v)
    /\ v.disposed = u.disposed /\ v.cmds = u.cmds /\ v.ladder = u.ladder
    /\ v.timer = IF u.timer = "armed" THEN "stale" ELSE u.timer
    /\ HeldFits(v)

(* What revocation withdraws, field by field.                              *)
LEMMA WithdrawnIs ==
  ASSUME NEW u \in Transports, NEW none \in KeyQueues, NEW lost \in SUBSET Keys,
         \A r \in Sessions : Len(none[r]) <= MaxHeld,
         NEW timer \in {"off", "armed", "stale"},
         timer = IF u.timer = "armed" THEN "stale" ELSE u.timer
  PROVE  Withdrawn(u, [u EXCEPT !.timer = timer, !.held = none, !.out = none, !.lost = lost])
  <1> DEFINE v == [u EXCEPT !.timer = timer, !.held = none, !.out = none, !.lost = lost]
  <1>1. v \in Transports /\ v.held = none
    BY DEF Transports
  <1>2. /\ SamePaths(u, v) /\ SameLink(u, v)
        /\ v.disposed = u.disposed /\ v.cmds = u.cmds /\ v.ladder = u.ladder
        /\ v.timer = timer
    BY DEF Transports, SamePaths, SameLink
  <1> HIDE DEF v
  <1>3. Withdrawn(u, v)
    BY <1>1, <1>2 DEF Withdrawn, HeldFits
  <1> QED
    BY <1>3 DEF v

(* Revocation keeps the invariant.                                         *)
LEMMA RevokedKeeps ==
  ASSUME NEW W \in SUBSET Sessions, IInvAt(W), Revoked
  PROVE  IInvAt(W)'
  <1>1. Sound(t, attached, W) /\ CountsOK /\ localOnly \in BOOLEAN /\ t \in Transports
    BY SoundNow DEF Sound
  <1>2. PICK down : down = IF t.status = "attached" THEN FinalizeFailed(t) ELSE t
    OBVIOUS
  <1>3. Sound(down, attached, W) /\ down \in Transports
    <2>1. CASE t.status = "attached"
      BY <1>1, <1>2, <2>1, PeerLostSound DEF Sound
    <2>2. CASE t.status # "attached"
      BY <1>1, <1>2, <2>2
    <2> QED
      BY <2>1, <2>2
  <1>4. /\ faults < MaxFaults /\ faults' = faults + 1
        /\ t' = [down EXCEPT !.timer = IF @ = "armed" THEN "stale" ELSE @,
                   !.held = EachSession(<<>>), !.out = EachSession(<<>>),
                   !.lost = @ \union UNION {ToSet(down.held[s] \o down.out[s]) : s \in Sessions}]
        /\ UNCHANGED <<localOnly, Bridge, typed, subs>>
    BY <1>2 DEF Revoked
  <1>5. PICK none \in KeyQueues :
           none = EachSession(<<>>) /\ \A r \in Sessions : Len(none[r]) <= MaxHeld
    <2>1. EachSession(<<>>) \in KeyQueues
      BY DEF EachSession, KeyQueues
    <2>2. \A r \in Sessions : Len(EachSession(<<>>)[r]) <= MaxHeld
      BY TransportAssumption DEF EachSession
    <2> QED
      BY <2>1, <2>2
  <1>6. PICK lost \in SUBSET Keys :
           lost = down.lost \union UNION {ToSet(down.held[s] \o down.out[s]) : s \in Sessions}
    <2>1. ASSUME NEW s \in Sessions PROVE ToSet(down.held[s] \o down.out[s]) \subseteq Keys
      <3>1. down.held[s] \in Seq(Keys) /\ down.out[s] \in Seq(Keys)
        BY <1>3, SomeTypes
      <3>2. down.held[s] \o down.out[s] \in Seq(Keys)
        BY <3>1
      <3> QED
        BY <3>2, QueueOfKeys
    <2>2. down.lost \subseteq Keys
      BY <1>3 DEF Transports
    <2> QED
      BY <2>1, <2>2
  <1>7. PICK timer \in {"off", "armed", "stale"} :
           timer = IF down.timer = "armed" THEN "stale" ELSE down.timer
    BY <1>3 DEF Transports
  <1>8. t' = [down EXCEPT !.timer = timer, !.held = none, !.out = none, !.lost = lost]
    BY <1>4, <1>5, <1>6, <1>7
  <1>9. Withdrawn(down, t')
    <2>1. Withdrawn(down, [down EXCEPT !.timer = timer, !.held = none, !.out = none, !.lost = lost])
      BY <1>3, <1>5, <1>7, WithdrawnIs
    <2> QED
      BY <1>8, <2>1
  <1>10. Fits(t', attached, W)
    BY <1>3, <1>9, CalmFits DEF Withdrawn, Sound
  <1>11. Alive(t')
    BY <1>3, <1>9 DEF Withdrawn, Sound, Alive, CanUpgrade, HasCentrifugoSessions, SamePaths, SameLink
  <1>12. Sound(t', attached, W)
    BY <1>9, <1>10, <1>11 DEF Sound, Withdrawn
  <1>13. CountsOK'
    BY <1>1, <1>4, TransportAssumption DEF CountsOK
  <1> QED
    BY <1>4, <1>12, <1>13, SoundStep

(* dispose keeps the invariant.                                            *)
LEMMA DisposeKeeps ==
  ASSUME NEW W \in SUBSET Sessions, IInvAt(W), Dispose
  PROVE  IInvAt(W)'
  <1>1. /\ Sound(t, attached, W) /\ CountsOK /\ t \in Transports
        /\ pty \in KeyQueues
    BY SoundNow DEF Sound
  <1>2. PICK w : w = [t EXCEPT !.disposed = TRUE]
    OBVIOUS
  <1>3. PICK gone : gone = Each(TeardownSession, w, {s \in Sessions : t.mode[s] # "none"})
    OBVIOUS
  <1>4. /\ t' = [StopUpgradeLoop(CloseLink(gone)) EXCEPT
                   !.up = <<>>, !.lost = @ \union KeysOf(gone.up)]
        /\ attached' = {} /\ UNCHANGED <<localOnly, Registry, pty, typed, subs, faults>>
    BY <1>2, <1>3 DEF Dispose
  <1>5. Leaving(t, w)
    BY <1>1, <1>2, LeavingIs
  <1>6. gone \in Transports /\ HeldLess(w, gone) /\ w.held = t.held
    BY <1>3, <1>5, TeardownLoopHeld DEF Leaving, SameKeys
  <1>7. Gone(gone, t', KeysOf(gone.up))
    BY <1>4, <1>6, GoneIs
  <1>8. t' \in Transports /\ Fits(t', {}, W) /\ Alive(t')
    BY <1>1, <1>3, <1>5, <1>7, DisposeFits DEF Sound
  <1>9. HeldFits(t')
    <2>1. t'.held = gone.held
      BY <1>7 DEF Gone
    <2>2. HeldLess(t, t')
      BY <1>6, <2>1 DEF HeldLess
    <2> QED
      BY <1>1, <2>2, HeldKept DEF Sound
  <1>10. Sound(t', attached', W)
    BY <1>4, <1>8, <1>9 DEF Sound
  <1> QED
    BY <1>1, <1>4, <1>10, CountsKept, SoundTurn

(* The invariant holds of a page just opened.                              *)
LEMMA InitSound ==
  ASSUME Init
  PROVE  IInv
  <1>1. PICK none \in KeyQueues : none = EachSession(<<>>) /\ \A s \in Sessions : none[s] = <<>>
    <2>1. EachSession(<<>>) \in KeyQueues /\ \A s \in Sessions : EachSession(<<>>)[s] = <<>>
      BY DEF EachSession, KeyQueues
    <2> QED
      BY <2>1
  <1>2. PICK mode \in [Sessions -> {"none"}] : mode = EachSession("none")
    BY DEF EachSession
  <1>3. PICK up \in Seq(Frames) : up = <<>>
    BY EmptySeqOf
  <1>4. PICK down \in Seq(Sessions) : down = <<>>
    BY EmptySeqOf
  <1>5. PICK cmds \in Seq([type : {"watch", "unwatch"}, session : Sessions]) : cmds = <<>>
    BY EmptySeqOf
  <1>6. t = [mode |-> mode, sub |-> mode, held |-> none, out |-> none, flying |-> none,
             cloud |-> none, switching |-> {}, switched |-> FALSE, status |-> "none",
             link |-> "none", served |-> {}, ladder |-> "idle", timer |-> "off",
             up |-> up, down |-> down, cmds |-> cmds, disposed |-> FALSE, lost |-> {},
             exposed |-> {}, stranded |-> {}]
    BY <1>1, <1>2, <1>3, <1>4, <1>5 DEF Init, Fresh
  <1>7. t \in Transports
    BY <1>6 DEF Transports
  <1>8. /\ \A s \in Sessions : t.mode[s] = "none" /\ t.sub[s] = "none" /\ t.held[s] = <<>>
        /\ t.status = "none" /\ t.link = "none" /\ t.served = {} /\ t.ladder = "idle"
        /\ t.switching = {} /\ t.stranded = {} /\ ~t.disposed
        /\ t.up = <<>> /\ t.cmds = <<>>
    BY <1>1, <1>2, <1>3, <1>5, <1>6
  <1>9. attached = {} /\ watchers = {} /\ unsure = {} /\ localOnly \in BOOLEAN
        /\ typed = 0 /\ subs = 0 /\ faults = 0
    BY DEF Init
  <1>10. pty \in KeyQueues
    BY <1>1 DEF Init
  <1>11. TypeOK
    BY <1>7, <1>8, <1>9, <1>10, TransportAssumption DEF TypeOK
  <1>12. ModesFit(t) /\ LinkFits(t) /\ NotPinned(t)
    BY <1>8 DEF ModesFit, LinkFits, NotPinned
  <1>13. BridgeFits(t, attached, {})
    BY <1>8, <1>9, NothingOnTheWay DEF BridgeFits
  <1>14. Alive(t)
    BY <1>8 DEF Alive, CanUpgrade
  <1>15. IInvAt({})
    BY <1>9, <1>11, <1>12, <1>13, <1>14 DEF IInvAt, Fits, Sure
  <1> QED
    BY <1>15 DEF IInv

(* A step that changes nothing keeps the invariant.                        *)
LEMMA IdleKeeps ==
  ASSUME NEW W \in SUBSET Sessions, IInvAt(W), UNCHANGED vars
  PROVE  IInvAt(W)'
  <1>1. /\ t' = t /\ localOnly' = localOnly /\ attached' = attached /\ watchers' = watchers
        /\ pty' = pty /\ typed' = typed /\ subs' = subs /\ faults' = faults
        /\ unsure' = unsure
    BY DEF vars
  <1>2. Bridge' = Bridge
    BY <1>1 DEF Bridge, Registry
  <1> QED
    BY <1>1, <1>2, SoundNow, CountsKept, SoundStep

(* Every step keeps the invariant.                                         *)
LEMMA NextKeeps ==
  ASSUME NEW W \in SUBSET Sessions, IInvAt(W), [Next]_vars
  PROVE  IInv'
  <1>0. ASSUME IInvAt(W)' PROVE IInv'
    BY <1>0 DEF IInv
  <1>1. ASSUME NEW s \in Sessions,
               \/ SubscribeTerminal(s) \/ Unsubscribe(s) \/ SendInput(s)
               \/ WatchdogFires(s) \/ Subscribed(s) \/ PublishSettles(s) \/ CloudInput(s)
               \/ Heartbeat(s)
        PROVE  IInv'
    <2>1. IInvAt(W)'
      BY <1>1, SubscribeTerminalKeeps, UnsubscribeKeeps, SendInputKeeps, WatchdogFiresKeeps,
         SubscribedKeeps, PublishSettlesKeeps, CloudInputKeeps, HeartbeatKeeps
    <2> QED
      BY <1>0, <2>1
  <1>2. ASSUME NEW s \in Sessions, WatchExpires(s)
        PROVE  IInv'
    BY <1>2, WatchExpiresKeeps
  <1>3. ASSUME NEW online \in BOOLEAN, OnlineKnown(online)
        PROVE  IInv'
    BY <1>0, <1>3, OnlineKnownKeeps
  <1>4. CASE RunUpgradeAttempt \/ RungFails \/ RungConnects
    BY <1>0, <1>4, RunUpgradeAttemptKeeps, RungFailsKeeps, RungConnectsKeeps
  <1>5. CASE ScreenArrives \/ HandleFrame \/ FrameLost
    BY <1>0, <1>5, ScreenArrivesKeeps, HandleFrameKeeps, FrameLostKeeps
  <1>6. CASE HandleCommand \/ CommandLost
    BY <1>6, HandleCommandKeeps, CommandLostKeeps
  <1>7. CASE CommandsRefused \/ GlobalTrigger \/ OnPeerDown \/ Revoked \/ Dispose
    BY <1>0, <1>7, CommandsRefusedKeeps, GlobalTriggerKeeps, OnPeerDownKeeps, RevokedKeeps,
       DisposeKeeps
  <1>8. CASE UNCHANGED vars
    BY <1>0, <1>8, IdleKeeps
  <1> QED
    BY <1>1, <1>2, <1>3, <1>4, <1>5, <1>6, <1>7, <1>8 DEF Next

(* Paths, links, the bridge's side and the loop stay in order, whatever    *)
(* the page, the network and the bridge do.                                *)
THEOREM PathsInOrder == Spec => []IInv
  <1>1. Init => IInv
    BY InitSound
  <1>2. IInv /\ [Next]_vars => IInv'
    BY NextKeeps DEF IInv
  <1> QED
    BY <1>1, <1>2, PTL DEF Spec

(* In every state a page can reach its entries, links, queues and counters *)
(* have their types, and no entry holds more than its limit.               *)
THEOREM TransportTyped == Spec => []TypeOK
  <1>1. IInv => TypeOK
    BY DEF IInv, IInvAt
  <1> QED
    BY <1>1, PathsInOrder, PTL

(* In every state a page can reach, the peer serves exactly the sessions   *)
(* shown over it and those switching to it, it serves none without a link, *)
(* and once nothing is on its way the bridge has attached exactly those.   *)
THEOREM PathsAgreed == Spec => []PathsAgree
  <1>1. IInv => PathsAgree
    <2> SUFFICES ASSUME NEW W \in SUBSET Sessions, IInvAt(W) PROVE PathsAgree
      BY DEF IInv
    <2>1. t \in Transports /\ attached \subseteq Sessions /\ LinkFits(t)
          /\ BridgeFits(t, attached, W)
      BY DEF IInvAt, TypeOK, Fits
    <2>2. ~t.disposed => t.served = (Direct \ t.stranded) \union t.switching
      BY <2>1 DEF LinkFits, Direct
    <2>3. t.served # {} => t.link # "none" /\ t.status = "attached"
      BY <2>1 DEF LinkFits
    <2>4. t.up = <<>> => attached = t.served
      <3> SUFFICES ASSUME t.up = <<>> PROVE attached = t.served
        OBVIOUS
      <3>1. \A s \in Sessions : s \in t.served <=> s \in attached
        BY <2>1, NothingOnTheWay DEF BridgeFits
      <3>2. t.served \subseteq Sessions
        BY <2>1 DEF Transports
      <3> QED
        BY <2>1, <3>1, <3>2
    <2> QED
      BY <2>2, <2>3, <2>4 DEF PathsAgree
  <1> QED
    BY <1>1, PathsInOrder, PTL

(* A page never stays on the cloud next to an attached peer that no switch *)
(* is going to use.                                                        *)
THEOREM PinsNothing == Spec => []NeverPinned
  <1>1. IInv => NeverPinned
    BY DEF IInv, IInvAt, Fits, NotPinned, NeverPinned
  <1> QED
    BY <1>1, PathsInOrder, PTL

(* Whatever changes of path, lost or dropped commands and watches that ran *)
(* out came before: when no command of a session is under way, and the     *)
(* last one came to its effect, the bridge publishes a session for a page  *)
(* that is there exactly if the page takes it from the cloud.              *)
THEOREM WatchesAgreed == Spec => []WatchesAgree
  <1>1. IInv => WatchesAgree
    <2> SUFFICES ASSUME NEW W \in SUBSET Sessions, IInvAt(W), ~t.disposed,
                        NEW s \in Sessions, ~UnderWay(s), s \notin unsure
                 PROVE  s \in watchers <=> t.sub[s] = "subscribed"
      BY DEF IInv, WatchesAgree
    <2>1. t.sub[s] = "subscribed" <=> Watching(t.cmds, W, s)
      BY DEF IInvAt, Fits, BridgeFits
    <2>2. Watching(t.cmds, W, s) <=> s \in W
      <3>1. \A i \in DOMAIN t.cmds : /\ t.cmds[i] # [type |-> "watch", session |-> s]
                                     /\ t.cmds[i] # [type |-> "unwatch", session |-> s]
        BY DEF UnderWay
      <3> QED
        BY <3>1 DEF Watching, Leaves
    <2>3. s \in W <=> s \in watchers
      BY DEF IInvAt, Sure
    <2> QED
      BY <2>1, <2>2, <2>3
  <1> QED
    BY <1>1, PathsInOrder, PTL

(* A page that may upgrade always has a climb under way or a timer that    *)
(* will start one.                                                         *)
THEOREM LoopStaysAlive == Spec => []LoopAlive
  <1>1. IInv => LoopAlive
    BY DEF IInv, IInvAt, Alive, LoopAlive
  <1> QED
    BY <1>1, PathsInOrder, PTL

(* A local-only page has no session on the cloud.                          *)
LEMMA CloudIsKnown ==
  ASSUME NEW W \in SUBSET Sessions, IInvAt(W)
  PROVE  t \in Transports /\ OffCloud(t)
  <1>1. t \in Transports
    BY SoundNow DEF Sound
  <1> QED
    BY <1>1 DEF IInvAt, Fits, ModesFit, OffCloud

(* Moving along the ladder keeps the keys.                                 *)
LEMMA ClimbKeys ==
  ASSUME NEW u \in Transports, NEW rung, NEW v, v = [u EXCEPT !.ladder = rung]
  PROVE  KeysStay(u, v)
  <1>1. SameWay(u, v)
    BY DEF Transports, SameWay, SameKeys
  <1> QED
    BY <1>1, SameWayKeys

(* An attempt that starts keeps the keys.                                  *)
LEMMA RunUpgradeAttemptKeys ==
  ASSUME NEW W \in SUBSET Sessions, IInvAt(W), KeysFit, RunUpgradeAttempt
  PROVE  KeyFits(t', pty', typed')
  <1>1. t \in Transports
    BY SoundNow DEF Sound
  <1>2. PICK fired : fired = StopUpgradeLoop(t)
    OBVIOUS
  <1>3. /\ t' = fired \/ t' = [fired EXCEPT !.ladder = "online"]
        /\ UNCHANGED <<Bridge, typed>>
    BY <1>2 DEF RunUpgradeAttempt
  <1>4. fired \in Transports /\ SameWay(t, fired)
    BY <1>1, <1>2, RetimedIs DEF StopUpgradeLoop, Retimed, SameWay, SamePaths, SameLink
  <1>5. KeysStay(t, t')
    BY <1>1, <1>3, <1>4, SameWayKeys, ClimbKeys, KeysOnward
  <1> QED
    BY <1>3, <1>5, StayedKeys DEF Bridge

(* The answer about the bridge keeps the keys.                             *)
LEMMA OnlineKnownKeys ==
  ASSUME NEW W \in SUBSET Sessions, IInvAt(W), KeysFit, NEW online \in BOOLEAN, OnlineKnown(online)
  PROVE  KeyFits(t', pty', typed')
  <1>1. /\ t' = [t EXCEPT !.ladder = "local"] \/ t' = ClimbFailed(t)
        /\ UNCHANGED <<Bridge, typed>>
    BY DEF OnlineKnown
  <1>2. KeysStay(t, t')
    BY <1>1, CloudIsKnown, ClimbKeys, ClimbFailedKeys
  <1> QED
    BY <1>1, <1>2, StayedKeys DEF Bridge

(* A rung that fails keeps the keys.                                       *)
LEMMA RungFailsKeys ==
  ASSUME NEW W \in SUBSET Sessions, IInvAt(W), KeysFit, RungFails
  PROVE  KeyFits(t', pty', typed')
  <1>1. /\ t' = [t EXCEPT !.ladder = "webrtc"] \/ t' = ClimbFailed(t)
        /\ UNCHANGED <<Bridge, typed>>
    BY DEF RungFails, NextRung
  <1>2. KeysStay(t, t')
    BY <1>1, CloudIsKnown, ClimbKeys, ClimbFailedKeys
  <1> QED
    BY <1>1, <1>2, StayedKeys DEF Bridge

(* A rung that connects keeps the keys.                                    *)
LEMMA RungConnectsKeys ==
  ASSUME NEW W \in SUBSET Sessions, IInvAt(W), KeysFit, RungConnects
  PROVE  KeyFits(t', pty', typed')
  <1>1. PICK ended : ended = [t EXCEPT !.ladder = "idle"]
    OBVIOUS
  <1>2. t.ladder \in Rungs
    BY DEF RungConnects
  <1>3. PICK rung \in Rungs : rung = t.ladder
    BY <1>2
  <1>4. /\ \/ t' = ClimbFailed(t) \/ t' = AttachPeer(ended, rung)
           \/ t' = CommitUpgrade(ended, rung)
        /\ UNCHANGED <<Bridge, typed>>
    BY <1>1, <1>3 DEF RungConnects
  <1>5. t \in Transports /\ OffCloud(t)
    BY CloudIsKnown
  <1>6. ended \in Transports
    BY <1>1, <1>5 DEF Transports
  <1>7. KeysStay(t, ended)
    BY <1>1, <1>5, ClimbKeys
  <1>8. KeysStay(t, t')
    BY <1>4, <1>5, <1>6, <1>7, ClimbFailedKeys, AttachPeerKeys, CommitUpgradeKeys, KeysOnward
  <1> QED
    BY <1>4, <1>8, StayedKeys DEF Bridge

(* A trigger keeps the keys.                                               *)
LEMMA GlobalTriggerKeys ==
  ASSUME NEW W \in SUBSET Sessions, IInvAt(W), KeysFit, GlobalTrigger
  PROVE  KeyFits(t', pty', typed')
  <1>1. t' = EnsureUpgradeLoop(t, TRUE) /\ UNCHANGED <<Bridge, typed>>
    BY DEF GlobalTrigger
  <1>2. KeysStay(t, t')
    BY <1>1, CloudIsKnown, EnsureKeys
  <1> QED
    BY <1>1, <1>2, StayedKeys DEF Bridge

(* A peer that goes down keeps the keys.                                   *)
LEMMA OnPeerDownKeys ==
  ASSUME NEW W \in SUBSET Sessions, IInvAt(W), KeysFit, OnPeerDown
  PROVE  KeyFits(t', pty', typed')
  <1>1. t' = FinalizeFailed(t) /\ UNCHANGED <<Bridge, typed>>
    BY DEF OnPeerDown
  <1>2. KeysStay(t, t')
    BY <1>1, CloudIsKnown, FinalizeFailedKeys
  <1> QED
    BY <1>1, <1>2, StayedKeys DEF Bridge

(* A command that arrives, or is lost, keeps the keys.                     *)
LEMMA CommandKeys ==
  ASSUME NEW W \in SUBSET Sessions, IInvAt(W), KeysFit, HandleCommand \/ CommandLost
  PROVE  KeyFits(t', pty', typed')
  <1>1. t \in Transports
    BY CloudIsKnown
  <1>2. NextCommand /\ pty' = pty /\ typed' = typed
    BY DEF HandleCommand, CommandLost
  <1>3. SameWay(t, t')
    BY <1>2, CommandTaken
  <1>4. KeysStay(t, t')
    BY <1>1, <1>3, SameWayKeys
  <1> QED
    BY <1>2, <1>4, StayedKeys

(* Commands that are refused keep the keys.                                *)
LEMMA CommandsRefusedKeys ==
  ASSUME NEW W \in SUBSET Sessions, IInvAt(W), KeysFit, CommandsRefused
  PROVE  KeyFits(t', pty', typed')
  <1>1. t \in Transports
    BY CloudIsKnown
  <1>2. t' = [t EXCEPT !.cmds = <<>>] /\ UNCHANGED <<Bridge, typed>>
    BY DEF CommandsRefused
  <1>3. KeysStay(t, t')
    BY <1>1, <1>2, RefusedIs, SameWayKeys
  <1> QED
    BY <1>2, <1>3, StayedKeys DEF Bridge

(* A heartbeat keeps the keys.                                             *)
LEMMA HeartbeatKeys ==
  ASSUME NEW W \in SUBSET Sessions, IInvAt(W), KeysFit, NEW s \in Sessions, Heartbeat(s)
  PROVE  KeyFits(t', pty', typed')
  <1>1. t \in Transports
    BY CloudIsKnown
  <1>2. t' = SendWatch(t, "watch", s) /\ UNCHANGED <<Bridge, typed>>
    BY DEF Heartbeat
  <1>3. SameWay(t, t')
    <2>1. SamePaths(t, t') /\ SameLink(t, t') /\ SameKeys(t, t')
      BY <1>1, <1>2, SendWatchIs
    <2> QED
      BY <2>1 DEF SameWay, SamePaths, SameLink
  <1>4. KeysStay(t, t')
    BY <1>1, <1>3, SameWayKeys
  <1> QED
    BY <1>2, <1>4, StayedKeys DEF Bridge

(* The bridge reads a frame: a key reaches the process, anything else      *)
(* leaves the keys where they are.                                         *)
LEMMA HandleFrameKeys ==
  ASSUME NEW W \in SUBSET Sessions, IInvAt(W), KeysFit, HandleFrame
  PROVE  KeyFits(t', pty', typed')
  <1> DEFINE f == Head(t.up)
  <1>1. /\ t \in Transports /\ pty \in KeyQueues /\ typed \in Nat /\ typed' = typed
        /\ t.up # <<>> /\ t.up \in Seq(Frames)
    <2>1. t \in Transports /\ pty \in KeyQueues /\ typed \in Nat
      BY SoundNow DEF Sound, CountsOK
    <2>2. typed' = typed /\ t.up # <<>>
      BY DEF HandleFrame
    <2> QED
      BY <2>1, <2>2 DEF Transports
  <1>2. /\ t'.held = t.held /\ t'.out = t.out /\ t'.flying = t.flying /\ t'.cloud = t.cloud
        /\ t'.lost = t.lost /\ t'.exposed = t.exposed /\ t'.mode = t.mode
        /\ t'.link = t.link /\ t'.up = Tail(t.up)
    <2>1. \/ t' = [t EXCEPT !.up = Tail(@)]
          \/ t' = [[t EXCEPT !.up = Tail(@)] EXCEPT !.down = Append(@, f.session)]
      BY DEF HandleFrame
    <2>2. CASE t' = [t EXCEPT !.up = Tail(@)]
      BY <1>1, <2>2 DEF Transports
    <2>3. CASE t' = [[t EXCEPT !.up = Tail(@)] EXCEPT !.down = Append(@, f.session)]
      BY <1>1, <2>3 DEF Transports
    <2> QED
      BY <2>1, <2>2, <2>3
  <1>3. KeyFits(t, pty, typed)
    BY DEF KeysFit
  <1>4. CASE f.kind = "input"
    <2>1. f.session \in Sessions /\ f.key \in Keys
      BY <1>1, <1>4, FrameFacts
    <2>2. pty' = [pty EXCEPT ![f.session] = Append(@, f.key)]
      BY <1>4 DEF HandleFrame
    <2>3. Append(pty[f.session], f.key) = pty[f.session] \o <<f.key>>
      BY <1>1, <2>1, AppendQueue DEF KeyQueues
    <2>4. GotMore(pty, pty', f.session, <<f.key>>)
      BY <1>1, <2>1, <2>2, <2>3 DEF KeyQueues, GotMore
    <2>5. Unqueued(t, t', {})
      BY <1>2 DEF Unqueued
    <2> QED
      BY <1>1, <1>3, <1>4, <2>4, <2>5, ReadKeys
  <1>5. CASE f.kind # "input"
    <2>1. pty' = pty
      BY <1>5 DEF HandleFrame
    <2>2. \A s \in Sessions : ~IsInput(f, s)
      BY <1>5 DEF IsInput
    <2>3. \A s \in Sessions : UpSame(t.up, t'.up, s)
      BY <1>1, <1>2, <2>2, UpTaken
    <2>4. SameKeys(t, t')
      BY <1>2 DEF SameKeys
    <2>5. KeyFits(t', pty, typed)
      BY <1>1, <1>2, <1>3, <2>3, <2>4, QuietKeys
    <2> QED
      BY <1>1, <2>1, <2>5
  <1> QED
    BY <1>4, <1>5

(* A frame that is lost keeps the keys: its key is counted lost.           *)
LEMMA FrameLostKeys ==
  ASSUME NEW W \in SUBSET Sessions, IInvAt(W), KeysFit, FrameLost
  PROVE  KeyFits(t', pty', typed')
  <1>1. /\ t \in Transports /\ pty \in KeyQueues /\ typed \in Nat
        /\ t.up # <<>> /\ Head(t.up).kind = "input"
        /\ t' = [t EXCEPT !.up = Tail(@), !.lost = @ \union {Head(t.up).key}]
        /\ pty' = pty /\ typed' = typed
    BY SoundNow DEF Sound, CountsOK, FrameLost, Bridge
  <1>2. Unqueued(t, t', {Head(t.up).key})
    BY <1>1 DEF Unqueued, Transports
  <1>3. KeyFits(t', pty, typed)
    BY <1>1, <1>2, UnreadKeys DEF KeysFit
  <1> QED
    BY <1>1, <1>3

(* Revocation keeps the keys: what is held or queued is lost.              *)
LEMMA RevokedStepKeys ==
  ASSUME NEW W \in SUBSET Sessions, IInvAt(W), KeysFit, Revoked
  PROVE  KeyFits(t', pty', typed')
  <1>1. t \in Transports /\ OffCloud(t) /\ Sound(t, attached, W) /\ localOnly \in BOOLEAN
        /\ pty \in KeyQueues /\ typed \in Nat
    BY CloudIsKnown, SoundNow DEF CountsOK
  <1>2. PICK down : down = IF t.status = "attached" THEN FinalizeFailed(t) ELSE t
    OBVIOUS
  <1>3. down \in Transports /\ KeysStay(t, down)
    <2>1. CASE t.status = "attached"
      <3>1. down = FinalizeFailed(t)
        BY <1>2, <2>1
      <3>2. Sound(down, attached, W)
        BY <1>1, <2>1, <3>1, PeerLostSound
      <3> QED
        BY <1>1, <3>1, <3>2, FinalizeFailedKeys DEF Sound
    <2>2. CASE t.status # "attached"
      BY <1>1, <1>2, <2>2 DEF KeysStay
    <2> QED
      BY <2>1, <2>2
  <1>4. /\ t' = [down EXCEPT !.timer = IF @ = "armed" THEN "stale" ELSE @,
                   !.held = EachSession(<<>>), !.out = EachSession(<<>>),
                   !.lost = @ \union UNION {ToSet(down.held[s] \o down.out[s]) : s \in Sessions}]
        /\ pty' = pty /\ typed' = typed
    BY <1>2 DEF Revoked, Bridge
  <1>5. /\ t'.flying = down.flying /\ t'.cloud = down.cloud /\ t'.exposed = down.exposed
        /\ t'.mode = down.mode /\ t'.link = down.link /\ t'.up = down.up
        /\ t'.held = EachSession(<<>>) /\ t'.out = EachSession(<<>>)
        /\ t'.lost = down.lost \union UNION {ToSet(down.held[s] \o down.out[s]) : s \in Sessions}
    BY <1>3, <1>4 DEF Transports
  <1>6. \A s \in Sessions :
           ToSet(down.held[s] \o down.out[s]) = ToSet(down.held[s]) \union ToSet(down.out[s])
    BY <1>3, SomeTypes, ConcatQueue
  <1>7. UNION {ToSet(down.held[s] \o down.out[s]) : s \in Sessions}
          = UNION {ToSet(down.held[s]) \union ToSet(down.out[s]) : s \in Sessions}
    BY <1>6
  <1>8. \A s \in Sessions : EachSession(<<>>)[s] = <<>>
    BY DEF EachSession
  <1>9. Dropped(down, t')
    BY <1>5, <1>7, <1>8 DEF Dropped
  <1>10. KeyFits(down, pty, typed)
    BY <1>1, <1>3 DEF KeysFit, KeysStay
  <1>11. KeyFits(t', pty, typed)
    BY <1>1, <1>3, <1>9, <1>10, RevokedKeys
  <1> QED
    BY <1>4, <1>11

(* dispose keeps the keys: entries are emptied and what was on its way is  *)
(* lost.                                                                   *)
LEMMA DisposeKeys ==
  ASSUME NEW W \in SUBSET Sessions, IInvAt(W), KeysFit, Dispose
  PROVE  KeyFits(t', pty', typed')
  <1>1. t \in Transports /\ pty \in KeyQueues /\ typed \in Nat
    BY SoundNow DEF Sound, CountsOK
  <1>2. PICK w : w = [t EXCEPT !.disposed = TRUE]
    OBVIOUS
  <1>3. PICK gone : gone = Each(TeardownSession, w, {s \in Sessions : t.mode[s] # "none"})
    OBVIOUS
  <1>4. /\ t' = [StopUpgradeLoop(CloseLink(gone)) EXCEPT
                   !.up = <<>>, !.lost = @ \union KeysOf(gone.up)]
        /\ pty' = pty /\ typed' = typed
    BY <1>2, <1>3 DEF Dispose
  <1>5. w \in Transports /\ SameWay(t, w)
    BY <1>1, <1>2, LeavingIs DEF Leaving, SameWay, SamePaths
  <1>6. gone \in Transports /\ KeysStay(t, gone)
    <2>1. PICK S \in SUBSET Sessions : S = {s \in Sessions : t.mode[s] # "none"}
      OBVIOUS
    <2>2. gone = Each(TeardownSession, w, S)
      BY <1>3, <2>1
    <2>3. KeysStay(w, gone) /\ gone \in Transports
      BY <1>5, <2>2, TeardownLoopKeys
    <2> QED
      BY <1>1, <1>5, <2>3, SameWayKeys, KeysOnward
  <1>7. PICK c : c = CloseLink(gone)
    OBVIOUS
  <1>8. /\ c \in Transports /\ SamePaths(gone, c) /\ SameLoop(gone, c) /\ c.link = "none"
        /\ c.up = IF gone.link = "none" THEN gone.up ELSE gone.up \o <<Frame("close", 0, 0)>>
    BY <1>6, <1>7, CloseLinkIs
  <1>9. KeysStay(gone, c)
    BY <1>6, <1>7, CloseLinkKeys
  <1>10. t' = [[c EXCEPT !.timer = "off"] EXCEPT !.up = <<>>, !.lost = @ \union KeysOf(gone.up)]
    BY <1>4, <1>7, Zenon DEF StopUpgradeLoop
  <1>11. /\ t'.held = c.held /\ t'.out = c.out /\ t'.flying = c.flying /\ t'.cloud = c.cloud
         /\ t'.exposed = c.exposed /\ t'.mode = c.mode /\ t'.link = c.link /\ t'.up = <<>>
         /\ t'.lost = c.lost \union KeysOf(gone.up)
    BY <1>8, <1>10 DEF Transports
  <1>12. \A s \in Sessions : UpKeys(c.up, s) = UpKeys(gone.up, s)
    <2>1. gone.up \in Seq(Frames)
      BY <1>6 DEF Transports
    <2>2. PICK f \in Frames : f = Frame("close", 0, 0) /\ f.kind # "input"
      <3>1. Frame("close", 0, 0) \in Frames
        BY DEF Frames
      <3>2. Frame("close", 0, 0).kind # "input"
        BY DEF Frame
      <3> QED
        BY <3>1, <3>2
    <2>3. \A s \in Sessions : UpSame(gone.up, gone.up \o <<f>>, s)
      BY <2>1, <2>2, UpPlain
    <2>4. \A s \in Sessions : UpKeys(gone.up \o <<f>>, s) = UpKeys(gone.up, s)
      BY <2>3 DEF UpSame
    <2>5. c.up = gone.up \/ c.up = gone.up \o <<f>>
      BY <1>8, <2>2
    <2> QED
      BY <2>4, <2>5
  <1>13. KeysOf(gone.up) = UNION {UpKeys(c.up, s) : s \in Sessions}
    <2>1. KeysOf(gone.up) = UNION {UpKeys(gone.up, s) : s \in Sessions}
      BY <1>6, KeysOfAll DEF Transports
    <2>2. UNION {UpKeys(gone.up, s) : s \in Sessions} = UNION {UpKeys(c.up, s) : s \in Sessions}
      BY <1>12
    <2> QED
      BY <2>1, <2>2
  <1>14. Unsent(c, t')
    BY <1>11, <1>13 DEF Unsent
  <1>15. KeyFits(c, pty, typed)
    <2>1. KeysStay(t, c)
      BY <1>6, <1>9, KeysOnward
    <2> QED
      BY <1>1, <2>1 DEF KeysFit, KeysStay
  <1>16. KeyFits(t', pty, typed)
    BY <1>1, <1>8, <1>14, <1>15, UnsentKeys
  <1> QED
    BY <1>4, <1>16

(* Every step keeps the keys.                                              *)
LEMMA NextKeys ==
  ASSUME NEW W \in SUBSET Sessions, IInvAt(W), KeysFit, [Next]_vars
  PROVE  KeyFits(t', pty', typed')
  <1>1. ASSUME NEW s \in Sessions,
               \/ SubscribeTerminal(s) \/ Unsubscribe(s) \/ SendInput(s)
               \/ WatchdogFires(s) \/ Subscribed(s) \/ PublishSettles(s) \/ CloudInput(s)
               \/ Heartbeat(s)
        PROVE  KeyFits(t', pty', typed')
    BY <1>1, SubscribeTerminalKeys, UnsubscribeKeys, SendInputKeys, WatchdogFiresKeys,
       SubscribedKeys, PublishSettlesKeys, CloudInputKeys, HeartbeatKeys
  <1>2. ASSUME NEW online \in BOOLEAN, OnlineKnown(online)
        PROVE  KeyFits(t', pty', typed')
    BY <1>2, OnlineKnownKeys
  <1>3. CASE RunUpgradeAttempt \/ RungFails \/ RungConnects
    BY <1>3, RunUpgradeAttemptKeys, RungFailsKeys, RungConnectsKeys
  <1>4. CASE ScreenArrives \/ HandleFrame \/ FrameLost \/ HandleCommand \/ CommandLost
    BY <1>4, ScreenArrivesKeys, HandleFrameKeys, FrameLostKeys, CommandKeys
  <1>5. CASE CommandsRefused \/ GlobalTrigger \/ OnPeerDown \/ Revoked \/ Dispose
    BY <1>5, CommandsRefusedKeys, GlobalTriggerKeys, OnPeerDownKeys, RevokedStepKeys, DisposeKeys
  <1>6. CASE UNCHANGED vars \/ \E s \in Sessions : WatchExpires(s)
    <2>1. t' = t /\ pty' = pty /\ typed' = typed
      BY <1>6 DEF vars, WatchExpires
    <2> QED
      BY <2>1 DEF KeysFit
  <1> QED
    BY <1>1, <1>2, <1>3, <1>4, <1>5, <1>6 DEF Next

(* On a page just opened there are no keys.                                *)
LEMMA InitKeys ==
  ASSUME Init
  PROVE  KeysFit
  <1>1. /\ \A s \in Sessions : /\ t.held[s] = <<>> /\ t.out[s] = <<>> /\ t.flying[s] = <<>>
                               /\ t.cloud[s] = <<>> /\ pty[s] = <<>> /\ t.mode[s] = "none"
        /\ t.up = <<>> /\ t.lost = {} /\ typed = 0
    BY DEF Init, Fresh, EachSession
  <1>2. ASSUME NEW s \in Sessions PROVE LaneFits(t, pty, s)
    <2>1. LaneIs(t, pty, s, {}, {}, {}, {}, {}, {})
      BY <1>1, EmptyQueue, NoFrames DEF LaneIs
    <2>2. SetsFit({}, {}, {}, {}, {}, {}, t.exposed, t.mode[s], t.link)
      BY DEF SetsFit
    <2>3. QueuesFit(<<>>, <<>>, <<>>, <<>>, <<>>, t.exposed)
      BY EmptyQueue DEF QueuesFit, PtyAscends
    <2>4. UpFits(<<>>, t.exposed, s)
      BY NoFrames DEF UpFits
    <2> QED
      BY <1>1, <2>1, <2>2, <2>3, <2>4 DEF LaneFits, LaneIs
  <1>3. Housed(t, pty, 0)
    <2>1. PICK home \in [1 .. 0 -> Kinds \union {"lost"}] : TRUE
      <3>1. [k \in 1 .. 0 |-> "lost"] \in [1 .. 0 -> Kinds \union {"lost"}]
        OBVIOUS
      <3> QED
        BY <3>1
    <2>2. PICK owner \in [1 .. 0 -> Sessions] : TRUE
      <3>1. 1 .. 0 = {}
        OBVIOUS
      <3>2. [k \in 1 .. 0 |-> 0] \in [1 .. 0 -> Sessions]
        BY <3>1
      <3> QED
        BY <3>2
    <2>3. \A kind \in Kinds, s \in Sessions : Lies(t, pty, kind, s) = {}
      BY <1>1, EmptyQueue, NoFrames DEF Lies
    <2>4. HomeIs(t, pty, 0, home, owner)
      BY <1>1, <2>1, <2>2, <2>3 DEF HomeIs
    <2> QED
      BY <2>4 DEF Housed
  <1> QED
    BY <1>1, <1>2, <1>3 DEF KeysFit, KeyFits, LanesFit

(* Where each key is, and in which order the keys of a place lie.          *)
THEOREM KeysInOrder == Spec => [](IInv /\ KeysFit)
  <1>1. Init => IInv /\ KeysFit
    BY InitSound, InitKeys
  <1>2. IInv /\ KeysFit /\ [Next]_vars => IInv' /\ KeysFit'
    <2> SUFFICES ASSUME NEW W \in SUBSET Sessions, IInvAt(W), KeysFit, [Next]_vars
                 PROVE  IInv' /\ KeysFit'
      BY DEF IInv
    <2>1. IInv'
      BY NextKeeps
    <2>2. KeyFits(t', pty', typed')
      BY NextKeys
    <2>3. KeysFit'
      BY <2>2 DEF KeysFit
    <2> QED
      BY <2>1, <2>3
  <1> QED
    BY <1>1, <1>2, PTL DEF Spec

(* The queue of a kind of place, and what it takes for x to be a place of  *)
(* key k.                                                                  *)
Queue(u, p, kind, s) ==
    IF kind = "held" THEN u.held[s]
    ELSE IF kind = "out" THEN u.out[s]
    ELSE IF kind = "flying" THEN u.flying[s]
    ELSE IF kind = "cloud" THEN u.cloud[s] ELSE p[s]
InQueue(x, k, kind, s) ==
    \E i \in DOMAIN Queue(t, pty, kind, s) : Queue(t, pty, kind, s)[i] = k /\ x = <<kind, s, i>>
OnTheWay(x, k) ==
    \E i \in DOMAIN t.up : t.up[i].kind = "input" /\ t.up[i].key = k /\ x = <<"up", i>>

(* A place of a key is an index of a queue or of the frames on their way.  *)
LEMMA PlacesAre ==
  ASSUME NEW k, NEW x
  PROVE  x \in Places(k) <=>
           \/ \E kind \in Kinds \ {"up"}, s \in Sessions : InQueue(x, k, kind, s)
           \/ OnTheWay(x, k)
  <1> DEFINE In(name, s, q) == {<<name, s, i>> : i \in {j \in DOMAIN q : q[j] = k}}
  <1>1. \A name, s, q : x \in In(name, s, q) <=> \E i \in DOMAIN q : q[i] = k /\ x = <<name, s, i>>
    OBVIOUS
  <1>2. x \in Places(k) <=>
          \/ \E s \in Sessions : \/ x \in In("held", s, t.held[s]) \/ x \in In("out", s, t.out[s])
                                 \/ x \in In("flying", s, t.flying[s])
                                 \/ x \in In("cloud", s, t.cloud[s]) \/ x \in In("pty", s, pty[s])
          \/ OnTheWay(x, k)
    BY DEF Places, OnTheWay
  <1> HIDE DEF In
  <1>3. ASSUME NEW s \in Sessions
        PROVE  /\ InQueue(x, k, "held", s) <=> x \in In("held", s, t.held[s])
               /\ InQueue(x, k, "out", s) <=> x \in In("out", s, t.out[s])
               /\ InQueue(x, k, "flying", s) <=> x \in In("flying", s, t.flying[s])
               /\ InQueue(x, k, "cloud", s) <=> x \in In("cloud", s, t.cloud[s])
               /\ InQueue(x, k, "pty", s) <=> x \in In("pty", s, pty[s])
    BY <1>1 DEF InQueue, Queue
  <1>4. Kinds \ {"up"} = {"held", "out", "flying", "cloud", "pty"}
    BY DEF Kinds
  <1> QED
    BY <1>2, <1>3, <1>4

(* What lies in a queue lies there once.                                   *)
LEMMA QueuesOnce ==
  ASSUME NEW u \in Transports, NEW p \in KeyQueues, NEW n, KeyFits(u, p, n),
         NEW kind \in Kinds \ {"up"}, NEW s \in Sessions
  PROVE  /\ Lies(u, p, kind, s) = ToSet(Queue(u, p, kind, s))
         /\ Once(Queue(u, p, kind, s))
  <1>1. /\ Ascends(u.held[s]) /\ Ascends(u.out[s]) /\ Ascends(u.flying[s])
        /\ Once(u.cloud[s]) /\ Once(p[s])
    BY DEF KeyFits, LanesFit, LaneFits, QueuesFit
  <1>2. Once(u.held[s]) /\ Once(u.out[s]) /\ Once(u.flying[s])
    BY <1>1, SomeTypes, AscendsOnce
  <1>3. kind \in {"held", "out", "flying", "cloud", "pty"}
    BY DEF Kinds
  <1> QED
    BY <1>1, <1>2, <1>3 DEF Lies, Queue

(* A key that was typed is in exactly one place, or in none and lost.      *)
LEMMA OnePlace ==
  ASSUME NEW W \in SUBSET Sessions, IInvAt(W), KeysFit, NEW k \in 1 .. typed
  PROVE  Cardinality(Places(k)) = IF k \in t.lost THEN 0 ELSE 1
  <1>1. /\ t \in Transports /\ pty \in KeyQueues /\ typed \in Nat /\ k \in Keys
        /\ t.up \in Seq(Frames)
    <2>1. t \in Transports /\ pty \in KeyQueues /\ CountsOK
      BY SoundNow DEF Sound
    <2>2. typed \in Nat /\ k \in Keys
      BY <2>1, TransportAssumption DEF CountsOK, Keys
    <2> QED
      BY <2>1, <2>2 DEF Transports
  <1>2. PICK home, owner : HomeIs(t, pty, typed, home, owner)
    BY DEF KeysFit, KeyFits, Housed
  <1>3. KeyFits(t, pty, typed)
    BY DEF KeysFit
  <1>4. ASSUME NEW x, NEW kind \in Kinds \ {"up"}, NEW s \in Sessions, InQueue(x, k, kind, s)
        PROVE  home[k] = kind /\ owner[k] = s /\ k \notin t.lost
    <2>1. k \in ToSet(Queue(t, pty, kind, s))
      BY <1>4 DEF InQueue, ToSet
    <2>2. k \in Lies(t, pty, kind, s)
      BY <1>1, <1>3, <2>1, QueuesOnce
    <2> QED
      BY <1>1, <1>2, <2>2 DEF HomeIs, Kinds
  <1>5. ASSUME NEW i \in DOMAIN t.up, t.up[i].kind = "input", t.up[i].key = k
        PROVE  home[k] = "up" /\ owner[k] = t.up[i].session /\ k \notin t.lost
               /\ t.up[i].session \in Sessions
    <2>1. t.up[i] \in Frames
      BY <1>1
    <2>2. t.up[i].session \in Sessions
      BY <1>5, <2>1 DEF Frames, Frame
    <2>3. k \in Lies(t, pty, "up", t.up[i].session)
      BY <1>5 DEF Lies, UpKeys, IsInput
    <2> QED
      BY <1>1, <1>2, <2>2, <2>3 DEF HomeIs, Kinds
  <1>6. CASE k \in t.lost
    <2>1. Places(k) = {}
      BY <1>4, <1>5, <1>6, PlacesAre DEF OnTheWay
    <2> QED
      BY <1>6, <2>1, FS_EmptySet
  <1>7. CASE k \notin t.lost
    <2>1. home[k] \in Kinds /\ owner[k] \in Sessions
      BY <1>1, <1>2, <1>7 DEF HomeIs
    <2>2. k \in Lies(t, pty, home[k], owner[k])
      BY <1>1, <1>2, <2>1 DEF HomeIs
    <2>3. \E x : Places(k) = {x}
      <3>1. CASE home[k] = "up"
        <4>1. PICK i \in DOMAIN t.up : IsInput(t.up[i], owner[k]) /\ t.up[i].key = k
          BY <2>2, <3>1 DEF Lies, UpKeys
        <4>2. UpOnce(t.up, owner[k])
          BY <1>3, <2>1 DEF KeyFits, LanesFit, LaneFits, UpFits
        <4>3. <<"up", i>> \in Places(k)
          BY <4>1, PlacesAre DEF OnTheWay, IsInput
        <4>4. ASSUME NEW x \in Places(k) PROVE x = <<"up", i>>
          <5>1. OnTheWay(x, k)
            BY <1>4, <3>1, PlacesAre
          <5>2. PICK j \in DOMAIN t.up : t.up[j].kind = "input" /\ t.up[j].key = k /\ x = <<"up", j>>
            BY <5>1 DEF OnTheWay
          <5>3. IsInput(t.up[j], owner[k])
            BY <1>5, <5>2 DEF IsInput
          <5>4. j = i
            BY <4>1, <4>2, <5>2, <5>3 DEF UpOnce
          <5> QED
            BY <5>2, <5>4
        <4> QED
          BY <4>3, <4>4
      <3>2. CASE home[k] # "up"
        <4> DEFINE q == Queue(t, pty, home[k], owner[k])
        <4>1. home[k] \in Kinds \ {"up"}
          BY <2>1, <3>2
        <4>2. k \in ToSet(q) /\ Once(q)
          BY <1>1, <1>3, <2>1, <2>2, <4>1, QueuesOnce
        <4>3. PICK i \in DOMAIN q : q[i] = k
          BY <4>2 DEF ToSet
        <4>4. <<home[k], owner[k], i>> \in Places(k)
          BY <2>1, <4>1, <4>3, PlacesAre DEF InQueue
        <4>5. ASSUME NEW x \in Places(k) PROVE x = <<home[k], owner[k], i>>
          <5>1. ~OnTheWay(x, k)
            BY <1>5, <3>2 DEF OnTheWay
          <5>2. PICK kind \in Kinds \ {"up"}, s \in Sessions : InQueue(x, k, kind, s)
            BY <5>1, PlacesAre
          <5>3. kind = home[k] /\ s = owner[k]
            BY <1>4, <5>2
          <5>4. PICK j \in DOMAIN q : q[j] = k /\ x = <<home[k], owner[k], j>>
            BY <5>2, <5>3 DEF InQueue
          <5>5. j = i
            BY <4>2, <4>3, <5>4 DEF Once
          <5> QED
            BY <5>4, <5>5
        <4> QED
          BY <4>4, <4>5
      <3> QED
        BY <3>1, <3>2
    <2> QED
      BY <1>7, <2>3, FS_Singleton
  <1> QED
    BY <1>6, <1>7

(* Whatever path a session takes and changes to, no key is lost unnoticed, *)
(* typed twice or overtaken by a later one that had the same way: from the *)
(* browser's buffers to the process, through every switch and fallback.    *)
THEOREM KeysAreKept == Spec => []KeysKept
  <1>1. IInv /\ KeysFit => KeysKept
    <2> SUFFICES ASSUME NEW W \in SUBSET Sessions, IInvAt(W), KeysFit PROVE KeysKept
      BY DEF IInv
    <2>1. KeysAccounted
      BY OnePlace DEF KeysAccounted
    <2>2. InOrder
      <3> SUFFICES ASSUME NEW s \in Sessions, NEW i \in DOMAIN pty[s], NEW j \in DOMAIN pty[s],
                          i < j, pty[s][i] > pty[s][j]
                   PROVE  pty[s][j] \in t.exposed
        BY DEF InOrder
      <3>1. PtyAscends(pty[s], t.exposed)
        BY DEF KeysFit, KeyFits, LanesFit, LaneFits, QueuesFit
      <3>2. pty[s][i] \in Keys /\ pty[s][j] \in Keys
        <4>1. pty[s] \in Seq(Keys)
          BY SoundNow DEF KeyQueues
        <4> QED
          BY <4>1
      <3>3. pty[s][i] \in Nat /\ pty[s][j] \in Nat
        BY <3>2 DEF Keys
      <3> QED
        BY <3>1, <3>3 DEF PtyAscends
    <2> QED
      BY <2>1, <2>2 DEF KeysKept
  <1> QED
    BY <1>1, KeysInOrder, PTL
=============================================================================
