--------------------------- MODULE MCMailDelivery ---------------------------
(* Instances of MailDelivery for TLC. *)
EXTENDS MailDelivery, TLC
CONSTANTS m1, m2, r1, r2

ReaderSymmetry == Permutations(Readers)
=============================================================================
