------------------------ MODULE MC_UnclaimedPayouts ------------------------
\* Model-checking instance of UnclaimedPayouts: three validators, two with
\* unclaimed eras, two eras, one failing call and one restart.
EXTENDS UnclaimedPayouts
=============================================================================
