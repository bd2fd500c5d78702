------------------------- MODULE MCPullRequestEvents -------------------------
(* Instances of PullRequestEvents for TLC. *)
EXTENDS PullRequestEvents, TLC
CONSTANTS m1, m2, h1, h2

HeadSymmetry == Permutations(Heads)
=============================================================================
