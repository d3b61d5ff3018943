----------------------------- MODULE MCRegistry -----------------------------
(* Registry for TLC: two ledger modules of one name, two provider modules  *)
(* of one name, and good and bad configurations of each type.              *)
EXTENDS Registry, TLC

CONSTANTS m1, m2, p1, p2

TwoOfEach == (m1 :> "ledger") @@ (m2 :> "ledger") @@ (p1 :> "provider") @@ (p2 :> "provider")

Config(type, set, bad) == [type |-> type, decodes |-> TRUE, set |-> set, bad |-> bad]

EveryType ==
    { Config("audit.ledger", {"name", "dsn"}, {}),
      Config("audit.ledger", {"name", "dsn"}, {"dsn"}),
      Config("audit.ledger", {"name"}, {}),
      Config("audit.anchor_provider.opentimestamps", {"calendar_servers"}, {}),
      Config("audit.anchor_provider.git", {"remote", "ssh_key_path"}, {"ssh_key_path"}),
      Config("audit.anchor_provider.sigstore", {}, {}),
      [Config("audit.anchor_provider.sigstore", {}, {}) EXCEPT !.decodes = FALSE],
      Config("audit.anchor_provider.ethereum", {}, {}) }

Symmetry == Permutations(Steps) \cup Permutations({m1, m2}) \cup Permutations({p1, p2})
=============================================================================
