---------------------------- MODULE MCAnchoring ----------------------------
(* Anchoring for TLC: which implementation is behind each instance.        *)
EXTENDS Anchoring, TLC

CONSTANTS i1, i2

OneKind  == (i1 :> "opentimestamps")
TwoKinds == (i1 :> "opentimestamps") @@ (i2 :> "git")

Symmetry == Permutations(Handlers)
=============================================================================
