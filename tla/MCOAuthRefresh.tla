--------------------------- MODULE MCOAuthRefresh ---------------------------
(* Two instances: a background cycle in each, and a request in the first.     *)
EXTENDS OAuthRefresh

MCInstanceOf == [w \in Workers |-> IF w \in {"cycle1", "request"} THEN 1 ELSE 2]
MCFaultSets == {{"lost", "db", "refuse"}, {"redis", "slow", "reauth"}, {"crash", "reauth", "lost"},
                {"manual", "redis"}, {"edit"}}
=============================================================================
