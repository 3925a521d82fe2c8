---------------------- MODULE MC_LiveNetworkStatusServer ----------------------
EXTENDS LiveNetworkStatusServer, TLC

CONSTANTS s1, s2

MCSubscribers == {s1, s2}
MCOtherFields == {"era"}
MCValues == {0, 1}
=============================================================================
