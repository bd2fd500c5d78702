------------------------------ MODULE MailStore ------------------------------
(***************************************************************************)
(* The durable inbox of one session (src/bridge/src/mail-store.ts): a file *)
(* of JSON lines that senders append to and that marking and pull-request  *)
(* commits rewrite as a whole (tmp + rename).  withLock runs the file      *)
(* operations one at a time, so each is one step; an append is the only    *)
(* write that is not atomic on disk.                                       *)
(***************************************************************************)
EXTENDS Integers, Sequences, FiniteSets, SequencesExt

CONSTANTS
    Mail,       \* ids of the messages senders append
    Heads,      \* pull-request head commits
    NoHead,     \* a merged observation has none
    None,       \* no checkpoint
    MaxStored,  \* MAX_STORED_MESSAGES
    Verdicts,   \* outcomes of finished checks: failed, passed
    MaxOrdinal, \* bound on the observations that are committed
    MaxLinks,   \* bound on the links a session gets
    MaxTears    \* bound on appends that leave part of their line

ASSUME StoreAssumption ==
    /\ NoHead \notin Heads
    /\ Verdicts \cap {"in_progress", "merged"} = {}
    /\ MaxStored \in Nat \ {0} /\ MaxOrdinal \in Nat /\ MaxLinks \in Nat
    /\ MaxTears \in Nat

VARIABLES
    lines,      \* the file's message lines
    open,       \* the last line has no line feed
    checkpoint, \* the pull-request checkpoint line
    posted,     \* messages senders have appended or tried to
    acked,      \* messages whose append or commit reported success
    taken,      \* messages that were stamped deliveredAt
    tears       \* appends that were cut off

store == <<lines, open, checkpoint, posted, acked, taken, tears>>

States == Verdicts \cup {"in_progress", "merged"}
\* What the status service observes of a pull request.
Observations == [state : States \ {"merged"}, head : Heads]
                  \cup {[state |-> "merged", head |-> NoHead]}
\* A notice's id is the hash of exactly these fields.
Notices == [link : 1..MaxLinks, ordinal : 1..MaxOrdinal,
            state : States \ {"in_progress"}, head : Heads \cup {NoHead}]
Ids == Mail \cup Notices
Checkpoints == [link : 1..MaxLinks, ordinal : 1..MaxOrdinal, state : States,
                head : Heads \cup {NoHead}]

\* An id is a hash or random: no message has the id of a notice.
ASSUME IdsAssumption ==
    /\ Mail \cap Notices = {}
    /\ None \notin Mail \cup Checkpoints

\* A line JSON.parse rejects.
Broken == [id |-> None, delivered |-> FALSE]
Line(m) == [id |-> m, delivered |-> FALSE]

\* What stands at the positions P, in order.
Rank(P, i) == Cardinality({j \in P : j <= i})
Filter(ls, P) == [k \in 1..Cardinality(P) |-> ls[CHOOSE i \in P : Rank(P, i) = k]]

\* readInbox skips the lines it cannot parse.
Readable == {i \in DOMAIN lines : lines[i] # Broken}
Parsed == Filter(lines, Readable)
Unread == {lines[i].id : i \in {j \in Readable : ~lines[j].delivered}}

\* Mutant: the cap drops the oldest messages, read or not.
CappedAll(ls) == IF Len(ls) > MaxStored
                 THEN SubSeq(ls, Len(ls) - MaxStored + 1, Len(ls)) ELSE ls
\* The cap drops the oldest delivered messages only.
Capped(ls) ==
    LET excess == Len(ls) - MaxStored
        delivered == {i \in DOMAIN ls : ls[i].delivered}
    IN  Filter(ls, {i \in DOMAIN ls : i \in delivered => Rank(delivered, i) > excess})

\* replaceInbox: what was not parsed is gone, the last line is complete.
Replace(ls) == lines' = ls /\ open' = FALSE

-----------------------------------------------------------------------------
\* appendFile: an incomplete last line swallows what is appended to it.
Append1(m) ==
    /\ m \notin posted
    /\ lines' = IF open THEN [lines EXCEPT ![Len(lines)] = Broken]
                        ELSE Append(lines, Line(m))
    /\ open' = FALSE
    /\ posted' = posted \cup {m} /\ acked' = acked \cup {m}
    /\ UNCHANGED <<checkpoint, taken, tears>>

\* The bridge dies, or the disk fills, in the middle of an append: part of
\* the line is written, or all of it but the line feed.
AppendTorn(m) ==
    /\ tears < MaxTears /\ tears' = tears + 1
    /\ m \notin posted
    /\ IF open THEN lines' = [lines EXCEPT ![Len(lines)] = Broken]
               ELSE \E l \in {Broken, Line(m)} : lines' = Append(lines, l)
    /\ open' = TRUE
    /\ posted' = posted \cup {m}
    /\ UNCHANGED <<checkpoint, acked, taken>>

\* markDelivered stamps what is still undelivered, if anything is.
MarkDelivered(S) ==
    /\ S \cap Unread # {}
    /\ Replace(Capped([i \in 1..Len(Parsed) |->
                  [Parsed[i] EXCEPT !.delivered = @ \/ Parsed[i].id \in S]]))
    /\ taken' = taken \cup (S \cap Unread)
    /\ UNCHANGED <<checkpoint, posted, acked, tears>>

\* What the checkpoint remembers of this link.
Old(link) == IF checkpoint # None /\ checkpoint.link = link
             THEN checkpoint ELSE None

\* An observation is news unless merged was seen or nothing changed.
Changed(link, obs) ==
    LET old == Old(link)
    IN  old # None => /\ old.state # "merged"
                      /\ <<old.state, old.head>> # <<obs.state, obs.head>>

Ordinal(link) == IF Old(link) = None THEN 1 ELSE Old(link).ordinal + 1
Notice(link, obs) == [link |-> link, ordinal |-> Ordinal(link),
                      state |-> obs.state, head |-> obs.head]

\* Bound: MaxOrdinal observations of the first link, one fewer of each later.
Recordable(link) == Ordinal(link) + link <= MaxOrdinal + 1

\* Mutant: the notice is written before the checkpoint, and a failure comes
\* between the two.
EnqueueTwice(link, obs) ==
    /\ checkpoint' \in {checkpoint, Notice(link, obs)}
    /\ Replace(IF obs.state = "in_progress" THEN Parsed
               ELSE Append(Parsed, Line(Notice(link, obs))))
    /\ UNCHANGED <<posted, taken, tears>>
\* The checkpoint and the notice are written by one rename.
Enqueue(link, obs) ==
    /\ checkpoint' = Notice(link, obs)
    /\ Replace(IF obs.state = "in_progress" THEN Parsed
               ELSE Append(Parsed, Line(Notice(link, obs))))
    /\ UNCHANGED <<posted, taken, tears>>

\* commitPullRequestObservation.
Commit(link, obs) ==
    IF Changed(link, obs)
    THEN /\ Recordable(link)
         /\ Enqueue(link, obs)
         /\ acked' = acked \cup
              (IF obs.state = "in_progress" THEN {} ELSE {Notice(link, obs)})
    ELSE UNCHANGED store

StoreInit ==
    /\ lines = <<>> /\ open = FALSE /\ checkpoint = None
    /\ posted = {} /\ acked = {} /\ taken = {}
    /\ tears = 0

-----------------------------------------------------------------------------
\* Every variable of the store has its type.
StoreTypeOK ==
    /\ lines \in Seq([id : Ids \cup {None}, delivered : BOOLEAN])
    /\ open \in BOOLEAN /\ (open => lines # <<>>)
    /\ checkpoint \in Checkpoints \cup {None}
    /\ posted \subseteq Mail
    /\ acked \subseteq Ids /\ taken \subseteq Ids
    /\ tears \in 0..MaxTears

\* A message whose append or commit reported success stays unread in the file
\* until it is stamped: neither the cap nor a rewrite may drop it.
AckedSurvives == acked \subseteq Unread \cup taken

\* The same as long as no append was cut off.
AckedSurvivesWhole == tears = 0 => AckedSurvives

\* A reader is never told the same thing twice running: two notices of one
\* link with consecutive ordinals differ, and none follows a merge.
NoticesAreNews ==
    \A k, l \in {n \in ToSet(lines) : n.id \in Notices} :
       k.id.link = l.id.link /\ k.id.ordinal < l.id.ordinal =>
         /\ k.id.state # "merged"
         /\ l.id.ordinal = k.id.ordinal + 1
              => <<k.id.state, k.id.head>> # <<l.id.state, l.id.head>>
=============================================================================
