----------------------------- MODULE SnapshotStore -----------------------------
(***************************************************************************)
\* The key/value store contract of spec 4.4 (C4): for a finalized block N
\* the block number, both address sets and the per-validator keys are
\* replaced by the snapshot at N, prior per-validator keys cleared, and N
\* published, all in one atomic batch.
(***************************************************************************)
EXTENDS Naturals, Sequences

CONSTANTS Validators, MaxBlock

Statuses == {"active", "inactive"}
Snapshot == [Validators -> Statuses \cup {"absent"}]
Keys == Statuses \X Validators

VARIABLES store, pub

\* The store holding exactly the snapshot snap of block n.
Materialised(n, snap) ==
    [num |-> n,
     addr |-> [s \in Statuses |-> {v \in Validators : snap[v] = s}],
     keys |-> [k \in Keys |-> IF snap[k[2]] = k[1] THEN n ELSE 0]]

Init ==
    /\ store = [num |-> 0, addr |-> [s \in Statuses |-> {}],
                keys |-> [k \in Keys |-> 0]]
    /\ pub = <<>>

WriteBatch ==
    \E n \in 1..MaxBlock, snap \in Snapshot :
        /\ store' = Materialised(n, snap)
        /\ pub' = Append(pub, n)

Spec == Init /\ [][WriteBatch]_<<store, pub>>

=============================================================================
