------------------------- MODULE NotificationGenerator -------------------------
(***************************************************************************)
\* The block inspection loop of the notification generator (C8).
\*
\* The block processor persists block n and sends a "block processed"
\* notification for it.  For every notification the subscription callback
\* spawns a task; tasks serialise on one async mutex holding the in-memory
\* cursor (the last inspected block).  A task inspects the blocks
\* cursor+1 .. n, one inspector after another, each inspector inserting
\* notification rows, and saves the generator state in the database after
\* each block.
\*
\* Two versions of the loop are in the repository:
\*   PropagateErrors = TRUE : inspect/block/mod.rs.  A failure abandons
\*     the rest of the range and sets the error cell; the next
\*     notification then ends the subscription and the service restarts
\*     with a fresh mutex loaded from the saved state.
\*   PropagateErrors = FALSE: processor/block_processor.rs.  A failure is
\*     logged and the loop goes on with the next block.
\*
\* A block's content is abstracted to one notification row per inspector;
\* every database call of an inspector, and the state save, may fail.  A
\* block of MissingBlocks is not in the network database when it is
\* inspected: inspect_block logs it and returns Ok, and the loop moves the
\* cursor past it without saving the state.
(***************************************************************************)
EXTENDS Naturals, FiniteSets

CONSTANTS
    MaxBlock,         \* the block processor notifies blocks 1..MaxBlock
    Inspectors,       \* the inspectors run on a block, in order 1..N
    MaxFailures,      \* bound on failing database calls
    MaxGeneration,    \* bound on restarts of the subscription loop
    InitialState,     \* the saved generator state at start: a block or None
    PropagateErrors,  \* which version of the loop runs (see above)
    MissingBlocks,    \* blocks get_block_by_number does not find
    None              \* model value: no block inspected yet

ASSUME /\ MaxBlock \in Nat \ {0}
       /\ Inspectors = 1..Cardinality(Inspectors)
       /\ MaxFailures \in Nat
       /\ MaxGeneration \in Nat \ {0}
       /\ InitialState \in {None} \cup (0..MaxBlock)
       /\ PropagateErrors \in BOOLEAN
       /\ MissingBlocks \subseteq 1..MaxBlock

Blocks == 1..MaxBlock
Tasks == Blocks             \* the task spawned for the notification of block t
Generations == 1..MaxGeneration
NoTask == 0
LastInspector == Cardinality(Inspectors)
SaveStep == LastInspector + 1   \* the step after the inspectors: save state

VARIABLES
    notified,     \* highest block the block processor has notified
    subscribed,   \* the processed-block subscription is listening
    generation,   \* which run of the start_block_inspection loop is live
    cursor,       \* [Generations -> block or None]: each run's mutex value
    holder,       \* [Generations -> task or NoTask]: who holds each mutex
    errorCell,    \* [Generations -> BOOLEAN]: each run's error cell is set
    task,         \* [Tasks -> record]: the spawned on_new_block tasks
    dbState,      \* the saved generator state (last block number)
    rows,         \* [Blocks -> [Inspectors -> Nat]]: notification rows
    failures,     \* database calls that have failed so far
    origin        \* history: first block the generator ever inspected

vars == <<notified, subscribed, generation, cursor, holder, errorCell, task,
          dbState, rows, failures, origin>>

TaskStates == {"idle", "waiting", "running", "done"}
TaskRecord == [state: TaskStates, gen: Generations, blk: 0..MaxBlock,
               step: 1..SaveStep]
IdleTask == [state |-> "idle", gen |-> 1, blk |-> 0, step |-> 1]

-----------------------------------------------------------------------------
\* Helpers.

\* The first block of the range a task inspects once it holds the mutex.
StartBlock(c, t) == IF c = None THEN t ELSE c + 1

\* The task t releases the mutex of its run and terminates.
Finish(t) ==
    /\ task' = [task EXCEPT ![t].state = "done"]
    /\ holder' = [holder EXCEPT ![task[t].gen] = NoTask]

\* A block is inspected when every inspector has written its rows.
Inspected(b) == \A i \in Inspectors : rows[b][i] > 0

-----------------------------------------------------------------------------
\* Actions.

\* The block processor persists the next block and notifies it.  The
\* subscription callback (a) drops it when nobody listens, (b) returns an
\* error, ending the subscription, when a task has set the error cell, or
\* (c) spawns a task for it.
ProcessedBlockNotification ==
    /\ notified < MaxBlock
    /\ notified' = notified + 1
    /\ \/ /\ ~subscribed
          /\ UNCHANGED <<subscribed, task>>
       \/ /\ subscribed
          /\ errorCell[generation]
          /\ subscribed' = FALSE
          /\ UNCHANGED task
       \/ /\ subscribed
          /\ ~errorCell[generation]
          /\ task' = [task EXCEPT ![notified + 1] =
                        [state |-> "waiting", gen |-> generation,
                         blk |-> 0, step |-> 1]]
          /\ UNCHANGED subscribed
    /\ UNCHANGED <<generation, cursor, holder, errorCell, dbState, rows,
                   failures, origin>>

\* After the subscription has exited the service sleeps and starts over:
\* a new mutex loaded from the saved state and a new error cell.  Tasks of
\* the earlier run are not cancelled.
Restart ==
    /\ ~subscribed
    /\ generation < MaxGeneration
    /\ generation' = generation + 1
    /\ cursor' = [cursor EXCEPT ![generation + 1] = dbState]
    /\ errorCell' = [errorCell EXCEPT ![generation + 1] = FALSE]
    /\ subscribed' = TRUE
    /\ UNCHANGED <<notified, holder, task, dbState, rows, failures, origin>>

\* on_new_block: take the mutex and compute the range start..t.  An empty
\* range returns at once.
AcquireCursor(t) ==
    LET g == task[t].gen
        s == StartBlock(cursor[g], t)
    IN
    /\ task[t].state = "waiting"
    /\ holder[g] = NoTask
    /\ origin' = IF origin = None THEN s ELSE origin
    /\ IF s > t
       THEN /\ task' = [task EXCEPT ![t].state = "done"]
            /\ UNCHANGED holder
       ELSE /\ task' = [task EXCEPT ![t] = [@ EXCEPT !.state = "running",
                                                   !.blk = s, !.step = 1]]
            /\ holder' = [holder EXCEPT ![g] = t]
    /\ UNCHANGED <<notified, subscribed, generation, cursor, errorCell,
                   dbState, rows, failures>>

\* The block is found; one inspector of it reads its rows, looks up the rules
\* and saves a notification row per rule and channel.
InspectorSucceeds(t) ==
    LET b == task[t].blk
        i == task[t].step
    IN
    /\ task[t].state = "running"
    /\ b \notin MissingBlocks
    /\ i \in Inspectors
    /\ rows' = [rows EXCEPT ![b][i] = @ + 1]
    /\ task' = [task EXCEPT ![t].step = i + 1]
    /\ UNCHANGED <<notified, subscribed, generation, cursor, holder,
                   errorCell, dbState, failures, origin>>

\* Mutant of SaveState: the state is saved but the in-memory cursor is not
\* advanced.
SaveStateKeepsCursor(t) ==
    LET b == task[t].blk IN
    /\ task[t].state = "running"
    /\ task[t].step = SaveStep
    /\ dbState' = b
    /\ IF b = t
       THEN Finish(t)
       ELSE /\ task' = [task EXCEPT ![t].blk = b + 1, ![t].step = 1]
            /\ UNCHANGED holder
    /\ UNCHANGED <<notified, subscribed, generation, cursor, errorCell, rows,
                   failures, origin>>

\* After the last inspector the state is saved; on success the cursor
\* moves to the block, and the task goes on with the next block or ends.
SaveState(t) ==
    LET b == task[t].blk
        g == task[t].gen
    IN
    /\ task[t].state = "running"
    /\ task[t].step = SaveStep
    /\ dbState' = b
    /\ cursor' = [cursor EXCEPT ![g] = b]
    /\ IF b = t
       THEN Finish(t)
       ELSE /\ task' = [task EXCEPT ![t].blk = b + 1, ![t].step = 1]
            /\ UNCHANGED holder
    /\ UNCHANGED <<notified, subscribed, generation, errorCell, rows,
                   failures, origin>>

\* get_block_by_number finds no block: inspect_block returns Ok(()) at
\* once, no inspector runs and nothing is saved, and the loop sets the
\* cursor to the block and goes on.
BlockNotFound(t) ==
    LET b == task[t].blk
        g == task[t].gen
    IN
    /\ task[t].state = "running"
    /\ task[t].step = 1
    /\ b \in MissingBlocks
    /\ cursor' = [cursor EXCEPT ![g] = b]
    /\ IF b = t
       THEN Finish(t)
       ELSE /\ task' = [task EXCEPT ![t].blk = b + 1, ![t].step = 1]
            /\ UNCHANGED holder
    /\ UNCHANGED <<notified, subscribed, generation, errorCell, dbState, rows,
                   failures, origin>>

\* Mutant of InspectFailsAbandon: the error is swallowed and the loop goes
\* on with the next block.
InspectFailsSwallowed(t) ==
    LET b == task[t].blk IN
    /\ PropagateErrors
    /\ task[t].state = "running"
    /\ failures < MaxFailures
    /\ failures' = failures + 1
    /\ IF b = t
       THEN Finish(t)
       ELSE /\ task' = [task EXCEPT ![t].blk = b + 1, ![t].step = 1]
            /\ UNCHANGED holder
    /\ UNCHANGED <<notified, subscribed, generation, cursor, errorCell,
                   dbState, rows, origin>>

\* inspect/block/mod.rs: a failing call (an inspector or the state save)
\* abandons the rest of the range, and the task sets its run's error cell.
InspectFailsAbandon(t) ==
    /\ PropagateErrors
    /\ task[t].state = "running"
    /\ failures < MaxFailures
    /\ failures' = failures + 1
    /\ errorCell' = [errorCell EXCEPT ![task[t].gen] = TRUE]
    /\ Finish(t)
    /\ UNCHANGED <<notified, subscribed, generation, cursor, dbState, rows,
                   origin>>

\* Mutant of InspectFailsContinue: the loop does not stop at the notified
\* block after a failure.
InspectFailsPastEnd(t) ==
    /\ ~PropagateErrors
    /\ task[t].state = "running"
    /\ failures < MaxFailures
    /\ failures' = failures + 1
    /\ task' = [task EXCEPT ![t].blk = @ + 1, ![t].step = 1]
    /\ UNCHANGED <<notified, subscribed, generation, cursor, holder,
                   errorCell, dbState, rows, origin>>

\* processor/block_processor.rs: a failing call is logged and the loop
\* goes on with the next block, leaving the cursor where it is.
InspectFailsContinue(t) ==
    LET b == task[t].blk IN
    /\ ~PropagateErrors
    /\ task[t].state = "running"
    /\ failures < MaxFailures
    /\ failures' = failures + 1
    /\ IF b = t
       THEN Finish(t)
       ELSE /\ task' = [task EXCEPT ![t].blk = b + 1, ![t].step = 1]
            /\ UNCHANGED holder
    /\ UNCHANGED <<notified, subscribed, generation, cursor, errorCell,
                   dbState, rows, origin>>

-----------------------------------------------------------------------------
Init ==
    /\ notified = 0
    /\ subscribed = TRUE
    /\ generation = 1
    /\ cursor = [g \in Generations |-> IF g = 1 THEN InitialState ELSE None]
    /\ holder = [g \in Generations |-> NoTask]
    /\ errorCell = [g \in Generations |-> FALSE]
    /\ task = [t \in Tasks |-> IdleTask]
    /\ dbState = InitialState
    /\ rows = [b \in Blocks |-> [i \in Inspectors |-> 0]]
    /\ failures = 0
    /\ origin = IF InitialState = None THEN None ELSE InitialState + 1

Next ==
    \/ ProcessedBlockNotification
    \/ Restart
    \/ \E t \in Tasks :
          \/ AcquireCursor(t)
          \/ InspectorSucceeds(t)
          \/ SaveState(t)
          \/ BlockNotFound(t)
          \/ InspectFailsAbandon(t)
          \/ InspectFailsContinue(t)

Spec == Init /\ [][Next]_vars

-----------------------------------------------------------------------------
\* Properties.

TypeOK ==
    /\ notified \in 0..MaxBlock
    /\ subscribed \in BOOLEAN
    /\ generation \in Generations
    /\ cursor \in [Generations -> {None} \cup (0..MaxBlock)]
    /\ holder \in [Generations -> {NoTask} \cup Tasks]
    /\ errorCell \in [Generations -> BOOLEAN]
    /\ task \in [Tasks -> TaskRecord]
    /\ dbState \in {None} \cup (0..MaxBlock)
    /\ rows \in [Blocks -> [Inspectors -> Nat]]
    /\ failures \in 0..MaxFailures
    /\ origin \in {None} \cup (0..MaxBlock + 1)

\* A block the loop may pass: every inspector ran, or it was not found.
Passed(b) == Inspected(b) \/ b \in MissingBlocks

\* Spec 4.8 and 8.8 (scenario S5): the cursor, in memory and saved, only
\* passes a block after every inspector of that block has run, or after
\* the block was found missing.  No block from the first one inspected up
\* to any run's cursor or the saved state is skipped, whatever fails and
\* however often the loop restarts.
NoSkippedBlock ==
  origin # None =>
    /\ \A g \in Generations :
          cursor[g] # None =>
             \A b \in Blocks : origin <= b /\ b <= cursor[g] => Passed(b)
    /\ dbState # None =>
             \A b \in Blocks : origin <= b /\ b <= dbState => Passed(b)

\* Spec 8.9: an Immediate rule yields one notification per matching event:
\* no inspector writes the rows of a block twice, also when the block is
\* inspected again after a failure.
NoDuplicateNotification ==
    \A b \in Blocks, i \in Inspectors : rows[b][i] <= 1

\* The saved generator state never moves back to an earlier block, which
\* would make the next run inspect (and notify) those blocks again.
DbStateMonotone ==
    [][dbState # None /\ dbState' # None => dbState' >= dbState]_dbState

=============================================================================
