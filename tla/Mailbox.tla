------------------------------- MODULE Mailbox -------------------------------
(***************************************************************************)
(* What the mail engine promises (the contract in the comments of          *)
(* src/bridge/src/mail-store.ts and mail-delivery.ts): mail is posted once, *)
(* taken once, and after that handed to at most one inbox request; a       *)
(* request is answered once.  A wake or a crash between taking and handing *)
(* may lose mail, never duplicate it.                                      *)
(***************************************************************************)
CONSTANTS Messages, Readers

VARIABLES
    unread, \* mail that has been posted and not taken
    taken,  \* mail that has been taken out
    got     \* what each request was answered with

Init == unread = {} /\ taken = {} /\ got = [r \in Readers |-> {}]

Post(m) ==
    /\ m \notin unread \cup taken
    /\ unread' = unread \cup {m}
    /\ UNCHANGED <<taken, got>>

Take(S) ==
    /\ unread' = unread \ S
    /\ taken' = taken \cup S
    /\ UNCHANGED got

Hand(r, S) ==
    /\ got[r] = {}
    /\ \A s \in Readers : got[s] \cap S = {}
    /\ got' = [got EXCEPT ![r] = S]
    /\ UNCHANGED <<unread, taken>>

Next == \/ \E m \in Messages : Post(m)
        \/ \E S \in SUBSET unread : Take(S)
        \/ \E r \in Readers, S \in SUBSET taken : Hand(r, S)

Spec == Init /\ [][Next]_<<unread, taken, got>>
=============================================================================
