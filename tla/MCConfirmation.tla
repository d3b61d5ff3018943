--------------------------- MODULE MCConfirmation ---------------------------
(* Confirmation for TLC: the rows' providers and the instances' names.     *)
EXTENDS Confirmation, TLC

CONSTANTS a1, a2, a3, a4

EveryKind == (a1 :> "opentimestamps") @@ (a2 :> "opentimestamps")
             @@ (a3 :> "git") @@ (a4 :> "sigstore")
OneRow    == (a1 :> "opentimestamps")

\* Instances named after their implementation, and as in the README's quick start.
NamedByKind == [k \in Kinds |-> k]
NamedMyOts  == ("my-ots" :> "opentimestamps")
=============================================================================
