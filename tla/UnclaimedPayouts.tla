-------------------------- MODULE UnclaimedPayouts --------------------------
(***************************************************************************)
(* NotificationGenerator::inspect_unclaimed_payouts (subvt-notification-   *)
(* generator/src/inspect/validator_list/payout.rs): once per era, after    *)
(* unclaimed_payout_check_delay_hours into it, notify about every          *)
(* validator that has unclaimed eras, then record the era as processed.    *)
(*                                                                         *)
(* Two marks keep an era from being processed twice: the in-memory         *)
(* last_active_era_index (an AtomicU32, lost when the process restarts)    *)
(* and the processed-era row in the network database (kept).  The         *)
(* function is called again and again by the validator-list inspection,   *)
(* one call at a time; every awaited call may fail, which returns the     *)
(* error and leaves both marks as they are, and the process may restart   *)
(* between any two steps.  A validator's notifications (one per rule and  *)
(* channel) are counted as one per call of generate_notifications.        *)
(***************************************************************************)
EXTENDS Naturals, FiniteSets

CONSTANTS
    Validators,   \* the accounts of validator_map
    Unclaimed,    \* those whose unclaimed_era_indices is not empty
    MaxEra,       \* the eras Redis may name as active are 1..MaxEra
    MaxFailures,  \* bound on failing awaited calls
    MaxRestarts   \* bound on restarts of the process

ASSUME /\ Unclaimed \subseteq Validators
       /\ MaxEra \in Nat \ {0}
       /\ MaxFailures \in Nat /\ MaxRestarts \in Nat

Eras == 1..MaxEra

\* Each loop over an era notifies a validator once; an era's loop starts
\* again only after a failure or a restart.
MaxNotifications == 1 + MaxFailures + MaxRestarts

VARIABLES
    activeEra,     \* the active era stored in Redis (<prefix>:active_era)
    due,           \* the active era is at least the delay old
    lastIdx,       \* last_active_era_index
    processed,     \* eras saved by save_notification_generator_processed_era
    pc,            \* where the current call is
    era,           \* the active era the current call read
    todo,          \* the validators of validator_map not yet visited
    notifications, \* [Eras -> [Validators -> Nat]]: generate_notifications calls
    failures,
    restarts

vars == <<activeEra, due, lastIdx, processed, pc, era, todo, notifications,
          failures, restarts>>

-----------------------------------------------------------------------------
(* The environment: the active era moves on, and time passes.             *)

\* A new era becomes active; its start is now, so the delay has not passed.
NewEra ==
    /\ activeEra < MaxEra
    /\ activeEra' = activeEra + 1
    /\ due' = FALSE
    /\ UNCHANGED <<lastIdx, processed, pc, era, todo, notifications,
                   failures, restarts>>

\* era_elapsed.num_hours() reaches unclaimed_payout_check_delay_hours.
Elapse ==
    /\ ~due
    /\ due' = TRUE
    /\ UNCHANGED <<activeEra, lastIdx, processed, pc, era, todo,
                   notifications, failures, restarts>>

-----------------------------------------------------------------------------
(* inspect_unclaimed_payouts.                                              *)

\* Read the active era from Redis; go on only when the delay has passed
\* and the era is not the last one handled by this process.  Otherwise the
\* call returns Ok(()) and changes nothing.
Inspect ==
    /\ pc = "idle"
    /\ due
    /\ lastIdx # activeEra
    /\ era' = activeEra
    /\ pc' = "check"
    /\ UNCHANGED <<activeEra, due, lastIdx, processed, todo, notifications,
                   failures, restarts>>

\* notification_generator_has_processed_era: a processed era is only
\* stored as the last index; an unprocessed one starts the loop.
CheckProcessed ==
    /\ pc = "check"
    /\ IF era \in processed
       THEN /\ lastIdx' = era
            /\ pc' = "idle"
            /\ UNCHANGED todo
       ELSE /\ todo' = Validators
            /\ pc' = "loop"
            /\ UNCHANGED lastIdx
    /\ UNCHANGED <<activeEra, due, era, processed, notifications, failures,
                   restarts>>

\* Mutant of NotifyValidator: the validator is not marked as visited.
NotifyValidatorKeepsTodo(v) ==
    /\ pc = "loop"
    /\ v \in todo
    /\ IF v \in Unclaimed
       THEN notifications' = [notifications EXCEPT ![era][v] = @ + 1]
       ELSE UNCHANGED notifications
    /\ UNCHANGED <<activeEra, due, lastIdx, processed, pc, era, todo,
                   failures, restarts>>

\* One validator of validator_map.values(), in the map's order: one with
\* unclaimed eras gets its rules read and its notifications generated.
NotifyValidator(v) ==
    /\ pc = "loop"
    /\ v \in todo
    /\ todo' = todo \ {v}
    /\ IF v \in Unclaimed
       THEN notifications' = [notifications EXCEPT ![era][v] = @ + 1]
       ELSE UNCHANGED notifications
    /\ UNCHANGED <<activeEra, due, lastIdx, processed, pc, era, failures,
                   restarts>>

\* Mutant of SaveProcessed: the era is saved before every validator is
\* visited.
SaveProcessedEarly ==
    /\ pc = "loop"
    /\ processed' = processed \cup {era}
    /\ lastIdx' = era
    /\ pc' = "idle"
    /\ todo' = {}
    /\ UNCHANGED <<activeEra, due, era, notifications, failures, restarts>>

\* After the loop: save_notification_generator_processed_era, then the
\* store to last_active_era_index.
SaveProcessed ==
    /\ pc = "loop"
    /\ todo = {}
    /\ processed' = processed \cup {era}
    /\ lastIdx' = era
    /\ pc' = "idle"
    /\ UNCHANGED <<activeEra, due, era, todo, notifications, failures,
                   restarts>>

\* Mutant of Fail: the era index is stored on the error path too.
FailStoresIndex ==
    /\ pc \in {"check", "loop"}
    /\ failures < MaxFailures
    /\ failures' = failures + 1
    /\ lastIdx' = era
    /\ pc' = "idle"
    /\ todo' = {}
    /\ UNCHANGED <<activeEra, due, era, processed, notifications, restarts>>

\* has_processed_era, get_notification_rules_for_validator,
\* generate_notifications or the save fails: the ? operator returns the
\* error; last_active_era_index is left as it was.
Fail ==
    /\ pc \in {"check", "loop"}
    /\ failures < MaxFailures
    /\ failures' = failures + 1
    /\ pc' = "idle"
    /\ todo' = {}
    /\ UNCHANGED <<activeEra, due, lastIdx, era, processed, notifications,
                   restarts>>

\* The process restarts: the call in progress is gone and the atomic
\* starts again from 0; Redis and the database keep their contents.
Restart ==
    /\ restarts < MaxRestarts
    /\ restarts' = restarts + 1
    /\ lastIdx' = 0
    /\ pc' = "idle"
    /\ todo' = {}
    /\ UNCHANGED <<activeEra, due, era, processed, notifications, failures>>

Init ==
    /\ activeEra \in Eras
    /\ due \in BOOLEAN
    /\ lastIdx = 0
    /\ processed = {}
    /\ pc = "idle"
    /\ era = 0
    /\ todo = {}
    /\ notifications = [e \in Eras |-> [v \in Validators |-> 0]]
    /\ failures = 0
    /\ restarts = 0

Next ==
    \/ NewEra \/ Elapse
    \/ Inspect \/ CheckProcessed
    \/ \E v \in Validators : NotifyValidator(v)
    \/ SaveProcessed \/ Fail \/ Restart

\* The validator-list inspection calls the function after every update of
\* the list, and every awaited call returns (the clients' timeouts), so
\* each successful step of a started or startable call is weakly fair.
\* The era moving on, failures and restarts are not.
Fairness ==
    /\ WF_vars(Inspect)
    /\ WF_vars(CheckProcessed)
    /\ WF_vars(\E v \in Validators : NotifyValidator(v))
    /\ WF_vars(SaveProcessed)

Spec == Init /\ [][Next]_vars /\ Fairness

-----------------------------------------------------------------------------
(* Properties.                                                             *)

TypeOK ==
    /\ activeEra \in Eras /\ due \in BOOLEAN
    /\ lastIdx \in {0} \cup Eras
    /\ processed \subseteq Eras
    /\ pc \in {"idle", "check", "loop"}
    /\ era \in {0} \cup Eras
    /\ todo \subseteq Validators
    /\ notifications \in [Eras -> [Validators -> 0..MaxNotifications]]
    /\ failures \in 0..MaxFailures /\ restarts \in 0..MaxRestarts

\* An era is recorded as processed only when every validator with
\* unclaimed eras has had its notifications generated for it, so neither
\* this process nor a restarted one skips a validator of that era, across
\* failures of any call and restarts between any two steps.
ProcessedEraNotified ==
    \A e \in processed : \A v \in Unclaimed : notifications[e][v] >= 1

\* Every era that is active past the delay gets processed while it stays
\* active: a failure or a restart in the middle of it only postpones it.
DueEraProcessed ==
    \A e \in Eras :
        (activeEra = e /\ due) ~> (e \in processed \/ activeEra # e)

\* Spec 8.9's one notification per event, for the unclaimed-payout event
\* of an era: no validator is notified twice for the same era.
OncePerEra ==
    \A e \in Eras, v \in Validators : notifications[e][v] <= 1

=============================================================================
