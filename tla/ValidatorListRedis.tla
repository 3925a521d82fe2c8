--------------------------- MODULE ValidatorListRedis ---------------------------
(***************************************************************************)
\* The validator list updater (C7) and the validator details server (C9b)
\* composed over the Redis key space.
\*
\* The updater writes a validator's details under
\*   subvt:<chain>:validators:<status>:validator:<id>
\* (subvt-validator-list-updater/src/lib.rs), while the details server
\* reads
\*   subvt:<chain>:validators:<N>:<status>:validator:<id>
\* with N its LAST_FINALIZED_BLOCK_NUMBER
\* (subvt-validator-details-server/src/lib.rs), the layout of spec 4.4.
\* Key names are sequences of their ':'-separated segments after the
\* chain; the updater's side is ValidatorListUpdater, the server's side
\* its intake loop and the fetch of a new subscription.
(***************************************************************************)
EXTENDS Naturals, Sequences

CONSTANTS
    Validators, Snapshots, MaxBlock, MaxGeneration, MaxFailures, MaxDrops,
    Clients

VARIABLES
    head, chain, subscribed, generation, busy, task, db, failures, drops,
    seen,   \* publications the details server has received
    last,   \* LAST_FINALIZED_BLOCK_NUMBER
    sub     \* [Clients -> record]: a subscription's fetch and the block
            \* numbers its two loads saw

Updater == INSTANCE ValidatorListUpdater

updaterVars == <<head, chain, subscribed, generation, busy, task, db,
                 failures, drops>>
serverVars == <<seen, last, sub>>

-----------------------------------------------------------------------------
(* Key names.                                                             *)

\* The name under which update_redis writes the details of v.
UpdaterKeyName(s, v) == <<"validators", s, "validator", v>>

\* The name under which fetch_validator_details reads them at block n.
ServerKeyName(n, s, v) == <<"validators", n, s, "validator", v>>

\* The per-validator names present in Redis.
StoredKeyNames ==
    {UpdaterKeyName(k[1], k[2]) : k \in {k \in Updater!Keys : db.keys[k] # 0}}

-----------------------------------------------------------------------------
(* The details server.                                                    *)

\* The intake loop takes the next published number and, unless it is a
\* duplicate, makes it LAST_FINALIZED_BLOCK_NUMBER (the broadcast to the
\* workers is left to ValidatorDetailsServer).
ReceivePublished ==
    /\ seen < Len(db.pub)
    /\ seen' = seen + 1
    /\ last' = db.pub[seen + 1]
    /\ UNCHANGED <<updaterVars, sub>>

\* A subscription to v GETs the active key of v at the loaded block number.
FetchActive(c) ==
    /\ sub[c].pc = "off"
    /\ \E v \in Validators :
          sub' = [sub EXCEPT ![c] =
                    [pc |-> IF ServerKeyName(last, "active", v) \in StoredKeyNames
                            THEN "served" ELSE "fetchInactive",
                     val |-> v, blk |-> last, blk2 |-> last]]
    /\ UNCHANGED <<updaterVars, seen, last>>

\* Then the inactive key, at a number loaded again; none: rejected.
FetchInactive(c) ==
    /\ sub[c].pc = "fetchInactive"
    /\ sub' = [sub EXCEPT ![c] =
                 [@ EXCEPT !.pc = IF ServerKeyName(last, "inactive", sub[c].val)
                                     \in StoredKeyNames
                                  THEN "served" ELSE "rejected",
                           !.blk2 = last]]
    /\ UNCHANGED <<updaterVars, seen, last>>

-----------------------------------------------------------------------------
Init ==
    /\ Updater!Init
    /\ seen = 0
    /\ last = 0
    /\ sub = [c \in Clients |->
                [pc |-> "off", val |-> CHOOSE v \in Validators : TRUE,
                 blk |-> 0, blk2 |-> 0]]

Next ==
    \/ Updater!Next /\ UNCHANGED serverVars
    \/ ReceivePublished
    \/ \E c \in Clients : FetchActive(c) \/ FetchInactive(c)

Spec == Init /\ [][Next]_<<updaterVars, serverVars>>

-----------------------------------------------------------------------------
(* Properties.                                                            *)

\* Spec 2 (S2) and 6: a client subscribing to a validator of the finalized
\* snapshot the server knows gets its details; a subscription whose loads
\* of the block number agree is rejected only for an account that is no
\* validator at that block.
KnownValidatorServed ==
    \A c \in Clients :
        sub[c].pc = "rejected" /\ sub[c].blk = sub[c].blk2 /\ sub[c].blk # 0 =>
            chain[sub[c].blk][sub[c].val] = "absent"

=============================================================================
