----------------------- MODULE MC_ValidatorDetailsServer -----------------------
EXTENDS ValidatorDetailsServer

CONSTANTS c1, c2, v1, d1, d2

MCClients == {c1, c2}
MCValidators == {v1}
MCDetails == {d1, d2}
=============================================================================
