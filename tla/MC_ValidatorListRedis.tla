------------------------- MODULE MC_ValidatorListRedis -------------------------
EXTENDS ValidatorListRedis, TLC

CONSTANTS v1, v2, c1

MCValidators == {v1, v2}
MCClients == {c1}
MCSnapshots ==
    { (v1 :> "active" @@ v2 :> "inactive"),
      (v1 :> "inactive" @@ v2 :> "absent") }
=============================================================================
