------------------------------ MODULE MCChatHub ------------------------------
(* Instances of ChatHub for TLC: who opens which connection.               *)
EXTENDS ChatHub, TLC

CONSTANTS u1, u2, c1, c2

\* One connection per user.
MCOneEach == (c1 :> u1) @@ (c2 :> u2)

\* A user who connects twice.
MCTwice == (c1 :> u1) @@ (c2 :> u1)

\* The connections of one user may be swapped.
MCSymmetry == Permutations({c1, c2})
==============================================================================
