--------------------------- MODULE MCDirectoryLock ---------------------------
(* Instances of DirectoryLock for TLC. *)
EXTENDS DirectoryLock
CONSTANTS p1, p2, p3

\* A process may be killed anywhere.
Anywhere == Labels
\* One process comes again and again.
OneReturns == [p \in Procs |-> IF p = p3 THEN 3 ELSE 1]
=============================================================================
