------------------------------ MODULE MCConfig ------------------------------
(* Instances of ConfigWatch for TLC. *)
EXTENDS ConfigWatch

Toml(uri, ttl) == [kind |-> "toml", uri |-> uri, ttl |-> ttl]

MCSettingsFiles == {Toml("set", 0), Toml("set", 1), Toml("set", 3),
                    Toml("none", 1), Toml("blank", 3),
                    [kind |-> "broken", uri |-> "none", ttl |-> 0],
                    [kind |-> "absent", uri |-> "none", ttl |-> 0]}

MCKeyFiles == {Empty, [kind |-> "toml", keys |-> {"k1"}],
               [kind |-> "toml", keys |-> {"k2"}]}
              \union {[kind |-> k, keys |-> {}] : k \in {"broken", "binary", "absent"}}
=============================================================================
