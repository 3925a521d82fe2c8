------------------------ MODULE MC_ValidatorListUpdater ------------------------
EXTENDS ValidatorListUpdater, TLC

CONSTANTS v1, v2

MCValidators == {v1, v2}

\* Both validators switch status between the first two lists, and v2
\* leaves in the third.
MCSnapshots ==
    { (v1 :> "active" @@ v2 :> "inactive"),
      (v1 :> "inactive" @@ v2 :> "active"),
      (v1 :> "active" @@ v2 :> "absent") }
\* Two lists, for the runs about the busy flag rather than the data.
MCSnapshotsSmall ==
    { (v1 :> "active" @@ v2 :> "inactive"),
      (v1 :> "inactive" @@ v2 :> "absent") }
=============================================================================
