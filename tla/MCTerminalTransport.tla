------------------------ MODULE MCTerminalTransport ------------------------
(* The browser's transport with a few terminals and keys.                 *)
EXTENDS TerminalTransport, TLC

CONSTANTS s1, s2

Terminals == {s1, s2}
AnyFault == Hazards
TerminalSymmetry == Permutations(Terminals)
=============================================================================
