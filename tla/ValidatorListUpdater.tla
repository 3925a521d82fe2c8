-------------------------- MODULE ValidatorListUpdater --------------------------
(***************************************************************************)
\* The validator list updater (C7, subvt-validator-list-updater/src/lib.rs)
\* and the Redis keys it writes.
\*
\* For every finalized head the subscription callback checks the busy flag:
\* a busy updater drops the head, an idle one sets the flag and spawns a
\* task.  The task fetches the validator list at that block and sends one
\* Redis pipeline (no MULTI): set the block number, delete and refill the
\* active and inactive address sets, DEL two glob patterns, MSET every
\* validator's keys, PUBLISH the block number.  Redis runs the commands
\* one by one.  The task then clears the busy flag, also after an error.
\* When the head subscription ends the service starts over with a fresh
\* busy flag; tasks of the earlier run are not cancelled.
\*
\* A validator's details are abstracted to the block whose snapshot wrote
\* them, so a key holding block m has the content (and hash) of block m.
(***************************************************************************)
EXTENDS Naturals, Sequences, FiniteSets

CONSTANTS
    Validators,     \* account ids
    Snapshots,      \* the validator lists a finalized block may carry
    MaxBlock,       \* finalized heads 1..MaxBlock arrive
    MaxGeneration,  \* bound on runs of the service loop
    MaxFailures,    \* bound on failing fetches (RPC or Postgres)
    MaxDrops        \* bound on connections lost part way through a pipeline

ASSUME /\ MaxBlock \in Nat \ {0}
       /\ MaxGeneration \in Nat \ {0}
       /\ MaxFailures \in Nat
       /\ MaxDrops \in Nat

Blocks == 1..MaxBlock
Generations == 1..MaxGeneration
Statuses == {"active", "inactive"}
\* A validator at a block: active, inactive, or not a validator.
Snapshot == [Validators -> Statuses \cup {"absent"}]
\* The per-validator keys subvt:<chain>:validators:<status>:validator:<id>.
Keys == Statuses \X Validators

ASSUME Snapshots \subseteq Snapshot

VARIABLES
    head,        \* the last finalized head announced
    chain,       \* [Blocks -> Snapshot]: the validator list at each block
    subscribed,  \* the finalized-head subscription is running
    generation,  \* which run of the service loop is live
    busy,        \* [Generations -> BOOLEAN]: each run's is_busy flag
    task,        \* [Blocks -> record]: the update task of each block
    db,          \* the Redis keys and the channel (see RedisState)
    failures,    \* fetches that have failed
    drops        \* pipelines cut short

vars == <<head, chain, subscribed, generation, busy, task, db, failures,
          drops>>

RedisState == [num: 0..MaxBlock,                 \* finalized_block_number
               addr: [Statuses -> SUBSET Validators], \* address sets
               keys: [Keys -> 0..MaxBlock],      \* 0: the key is absent
               pub: Seq(Blocks)]                 \* published block numbers

TaskRecord == [pc: {"idle", "fetch", "pipeline", "done"},
               gen: Generations, cmd: Nat]
IdleTask == [pc |-> "idle", gen |-> 1, cmd |-> 1]

-----------------------------------------------------------------------------
(* update_redis: the pipeline and what each command does in Redis.        *)

AddressSet(snap, s) == {v \in Validators : snap[v] = s}

Cmd(op, st, blk, ids) == [op |-> op, st |-> st, blk |-> blk, ids |-> ids]

\* Mutant of Pipeline: the address sets are filled before they are
\* deleted.
PipelineAddBeforeDel(n) ==
    LET snap == chain[n] IN
    << Cmd("MSET_NUM", "active", n, {}),
       Cmd("SADD", "active", n, AddressSet(snap, "active")),
       Cmd("SADD", "inactive", n, AddressSet(snap, "inactive")),
       Cmd("DEL_ADDR", "active", n, {}),
       Cmd("DEL_ADDR", "inactive", n, {}),
       Cmd("DEL_GLOB", "active", n, {}),
       Cmd("DEL_GLOB", "inactive", n, {}),
       Cmd("MSET_VALIDATORS", "active", n, {}),
       Cmd("PUBLISH", "active", n, {}) >>

\* The commands of the pipeline for block n, in the order they are sent.
Pipeline(n) ==
    LET snap == chain[n] IN
    << Cmd("MSET_NUM", "active", n, {}),
       Cmd("DEL_ADDR", "active", n, {}),
       Cmd("DEL_ADDR", "inactive", n, {}),
       Cmd("SADD", "active", n, AddressSet(snap, "active")),
       Cmd("SADD", "inactive", n, AddressSet(snap, "inactive")),
       Cmd("DEL_GLOB", "active", n, {}),
       Cmd("DEL_GLOB", "inactive", n, {}),
       Cmd("MSET_VALIDATORS", "active", n, {}),
       Cmd("PUBLISH", "active", n, {}) >>

PipelineLength == 9

\* One command run by Redis.  SADD with no member is rejected by Redis and
\* changes nothing.  DEL does not expand a glob: it deletes the key whose
\* name ends in a literal "*", which does not exist.
RedisApply(d, c) ==
    CASE c.op = "MSET_NUM" -> [d EXCEPT !.num = c.blk]
      [] c.op = "DEL_ADDR" -> [d EXCEPT !.addr[c.st] = {}]
      [] c.op = "SADD" -> [d EXCEPT !.addr[c.st] = @ \cup c.ids]
      [] c.op = "DEL_GLOB" -> d
      [] c.op = "MSET_VALIDATORS" ->
            [d EXCEPT !.keys = [k \in Keys |->
                                  IF chain[c.blk][k[2]] = k[1] THEN c.blk
                                  ELSE @[k]]]
      [] c.op = "PUBLISH" -> [d EXCEPT !.pub = Append(@, c.blk)]

\* The task of block n ends and clears its run's busy flag.
Release(n) ==
    /\ task' = [task EXCEPT ![n].pc = "done"]
    /\ busy' = [busy EXCEPT ![task[n].gen] = FALSE]

Running == {n \in Blocks : task[n].pc \in {"fetch", "pipeline"}}

-----------------------------------------------------------------------------
(* Actions.                                                               *)

\* Mutant of HeadCallback: the callback does not look at the busy flag.
HeadCallbackIgnoresBusy(n) ==
    /\ busy' = [busy EXCEPT ![generation] = TRUE]
    /\ task' = [task EXCEPT ![n] = [pc |-> "fetch", gen |-> generation, cmd |-> 1]]

\* The closure given to subscribe_to_finalized_blocks, for the header of
\* block n: a busy updater drops the head, an idle one sets the flag and
\* spawns the update task.
HeadCallback(n) ==
    IF ~busy[generation]
    THEN /\ busy' = [busy EXCEPT ![generation] = TRUE]
         /\ task' = [task EXCEPT ![n] =
                        [pc |-> "fetch", gen |-> generation, cmd |-> 1]]
    ELSE UNCHANGED <<busy, task>>

\* A new finalized head with its validator list.  subscribe_to_blocks
\* hands the header to the callback while the subscription runs; a head
\* finalized while it does not is never delivered.
FinalizedHead ==
    /\ head < MaxBlock
    /\ head' = head + 1
    /\ \E snap \in Snapshots : chain' = [chain EXCEPT ![head + 1] = snap]
    /\ IF subscribed THEN HeadCallback(head + 1) ELSE UNCHANGED <<busy, task>>
    /\ UNCHANGED <<subscribed, generation, db, failures, drops>>

\* subscription.next() yields None (the loop breaks) or an error (the ?
\* returns it): either way subscribe_to_blocks returns and the run loop,
\* or the supervisor it returns to, starts over.
SubscriptionEnds ==
    /\ subscribed
    /\ generation < MaxGeneration
    /\ subscribed' = FALSE
    /\ UNCHANGED <<head, chain, generation, busy, task, db, failures, drops>>

\* The service loop sleeps and subscribes again with a fresh busy flag.
Restart ==
    /\ ~subscribed
    /\ generation' = generation + 1
    /\ busy' = [busy EXCEPT ![generation + 1] = FALSE]
    /\ subscribed' = TRUE
    /\ UNCHANGED <<head, chain, task, db, failures, drops>>

\* fetch_and_update_validator_list reads the chain and Postgres; the
\* pipeline is built from what it read.
FetchValidators(n) ==
    /\ task[n].pc = "fetch"
    /\ task' = [task EXCEPT ![n].pc = "pipeline"]
    /\ UNCHANGED <<head, chain, subscribed, generation, busy, db, failures,
                   drops>>

\* Mutant of FetchFails: the error returns early, before the flag is
\* cleared.
FetchFailsKeepsBusy(n) ==
    /\ task[n].pc = "fetch"
    /\ failures < MaxFailures
    /\ failures' = failures + 1
    /\ task' = [task EXCEPT ![n].pc = "done"]
    /\ UNCHANGED <<head, chain, subscribed, generation, busy, db, drops>>

\* A fetch fails: the error is logged and the flag cleared.
FetchFails(n) ==
    /\ task[n].pc = "fetch"
    /\ failures < MaxFailures
    /\ failures' = failures + 1
    /\ Release(n)
    /\ UNCHANGED <<head, chain, subscribed, generation, db, drops>>

\* Mutant of RunCommand: the end of the pipeline is detected one command
\* late.
RunCommandPastEnd(n) ==
    /\ task[n].pc = "pipeline"
    /\ db' = RedisApply(db, Pipeline(n)[task[n].cmd])
    /\ IF task[n].cmd > PipelineLength
       THEN Release(n)
       ELSE /\ task' = [task EXCEPT ![n].cmd = @ + 1]
            /\ UNCHANGED busy
    /\ UNCHANGED <<head, chain, subscribed, generation, failures, drops>>

\* Redis runs the next command of the pipeline; after the last the task
\* clears the flag.
RunCommand(n) ==
    /\ task[n].pc = "pipeline"
    /\ db' = RedisApply(db, Pipeline(n)[task[n].cmd])
    /\ IF task[n].cmd = PipelineLength
       THEN Release(n)
       ELSE /\ task' = [task EXCEPT ![n].cmd = @ + 1]
            /\ UNCHANGED busy
    /\ UNCHANGED <<head, chain, subscribed, generation, failures, drops>>

\* The connection is lost part way: the commands Redis has run stay, the
\* rest are lost, the error is logged and the flag cleared.
PipelineDrops(n) ==
    /\ task[n].pc = "pipeline"
    /\ drops < MaxDrops
    /\ drops' = drops + 1
    /\ Release(n)
    /\ UNCHANGED <<head, chain, subscribed, generation, db, failures>>

-----------------------------------------------------------------------------
Init ==
    /\ head = 0
    /\ chain = [b \in Blocks |-> [v \in Validators |-> "absent"]]
    /\ subscribed = TRUE
    /\ generation = 1
    /\ busy = [g \in Generations |-> FALSE]
    /\ task = [n \in Blocks |-> IdleTask]
    /\ db = [num |-> 0, addr |-> [s \in Statuses |-> {}],
             keys |-> [k \in Keys |-> 0], pub |-> <<>>]
    /\ failures = 0
    /\ drops = 0

Next ==
    \/ FinalizedHead
    \/ SubscriptionEnds
    \/ Restart
    \/ \E n \in Blocks :
          \/ FetchValidators(n)
          \/ FetchFails(n)
          \/ RunCommand(n)
          \/ PipelineDrops(n)

Spec == Init /\ [][Next]_vars

\* Tokio keeps polling every spawned update task.
Fairness ==
    \A n \in Blocks : WF_vars(FetchValidators(n) \/ FetchFails(n)
                              \/ RunCommand(n) \/ PipelineDrops(n))

FairSpec == Spec /\ Fairness

-----------------------------------------------------------------------------
(* Properties.                                                            *)

TypeOK ==
    /\ head \in 0..MaxBlock
    /\ chain \in [Blocks -> Snapshot]
    /\ subscribed \in BOOLEAN
    /\ generation \in Generations
    /\ busy \in [Generations -> BOOLEAN]
    /\ task \in [Blocks -> TaskRecord]
    /\ \A n \in Blocks : task[n].cmd \in 1..PipelineLength
    /\ db \in RedisState
    /\ failures \in 0..MaxFailures
    /\ drops \in 0..MaxDrops

\* Spec 5: the updater is strictly serial; within one run of the service
\* loop (one busy flag) at most one update task fetches or writes at a time,
\* whatever the failures, restarts and lost connections.
AtMostOneUpdate ==
    \A g \in Generations : Cardinality({n \in Running : task[n].gen = g}) <= 1

\* When no update is in flight, the block number, the address sets and the
\* last publication all describe the same block: the one whose snapshot
\* the address sets hold.
QuiescentConsistent ==
    Running = {} /\ db.num # 0 =>
        /\ \A s \in Statuses : db.addr[s] = AddressSet(chain[db.num], s)
        /\ db.pub # <<>>
        /\ db.pub[Len(db.pub)] = db.num

\* Spec 4.4 (c): prior per-validator keys are cleared, so once no update is
\* in flight a validator has a key only under its status at the current
\* block; the details server, which reads the active key first, would
\* otherwise serve details of a validator that is no longer active.
NoStaleValidatorKey ==
    Running = {} /\ db.num # 0 =>
        \A k \in Keys : db.keys[k] # 0 => chain[db.num][k[2]] = k[1]

\* Subscribers of the channel see finalized block numbers in increasing
\* order.
PublishedMonotone ==
    \A i, j \in 1..Len(db.pub) : i < j => db.pub[i] < db.pub[j]

\* Every run's busy flag, once set, is cleared again: the updater never
\* stops processing heads for good, whatever fails.
BusyReleased == \A g \in Generations : busy[g] ~> ~busy[g]

\* Spec 4.4: the store moves from one complete snapshot to the next in one
\* atomic batch and publishes it.
Store == INSTANCE SnapshotStore WITH store <- [num |-> db.num,
                                               addr |-> db.addr,
                                               keys |-> db.keys],
                                     pub <- db.pub
AtomicSnapshots == Store!Spec

=============================================================================
