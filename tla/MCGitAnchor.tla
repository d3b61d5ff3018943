---------------------------- MODULE MCGitAnchor ----------------------------
(* GitAnchor for TLC: two calls for one root and one for another.          *)
EXTENDS GitAnchor, TLC

CONSTANTS h1, h2, h3, r1, r2

Roots == (h1 :> r1) @@ (h2 :> r1) @@ (h3 :> r2)
=============================================================================
