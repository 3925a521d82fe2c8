------------------------- MODULE InactiveValidators -------------------------
(***************************************************************************)
(* SubstrateClient::get_all_inactive_validators (subvt-substrate-client/   *)
(* src/lib.rs): the bulk loader of the validators that declared the        *)
(* intention to validate but are not in the active set, at one block.      *)
(*                                                                         *)
(* The function is a sequence of awaited RPCs: two paged key scans         *)
(* (Staking.Validators and Staking.Nominators) of one request per page,    *)
(* then state_queryStorageAt groups.  Each await is a step, and each may   *)
(* fail, which ends the whole function with the error (the ? operator).    *)
(* The unchunked state_queryStorageAt groups index values[0] of the       *)
(* answer, and the node returns no change set at all for an empty key      *)
(* list, so such a group panics when it has no key.                        *)
(* The chain state at the block is fixed during a run; Init chooses it.    *)
(* Storage keys are ordered as their accounts are.  Of a validator's       *)
(* record the model keeps what the properties tell apart: its nominators,  *)
(* the oversubscribed flag and the parent account; the other queries       *)
(* (session keys, payee, slashes, controllers, identities, preferences)    *)
(* are steps that may fail but whose values are abstracted away.           *)
(***************************************************************************)
EXTENDS Naturals, Sequences, FiniteSets, SequencesExt

CONSTANTS
    ValidatorCandidates,   \* accounts that may hold Staking.Validators
    ActiveCandidates,      \* accounts that may be in Session.Validators
    NominatorCandidates,   \* accounts that may hold Staking.Nominators
    Targets,               \* the targets of each nominator's nomination
    SuperOf,               \* Identity.SuperOf: sub-account -> super account
    IdentityOf,            \* accounts with an Identity.IdentityOf entry
    PageSize,              \* keys_page_size
    MaxNominatorRewarded,  \* Staking.MaxNominatorRewardedPerValidator
    NoParent               \* no parent account

ASSUME PageSize \in Nat \ {0}

VARIABLES
    chain,          \* the storage at the block: intentions, active, nominators
    pc,             \* the await the function is at
    validatorKeys,  \* all_keys of the Staking.Validators scan
    nominatorKeys,  \* all_keys of the Staking.Nominators scan
    validators,     \* inactive_validator_map: account -> record
    superMap        \* super_account_id_map

vars == <<chain, pc, validatorKeys, nominatorKeys, validators, superMap>>

Accounts == ValidatorCandidates \cup ActiveCandidates \cup NominatorCandidates
            \cup Range(SuperOf)

\* The order of the awaits, for the steps whose values are abstracted.
Successor == [nextKeys |-> "queuedKeys", queuedKeys |-> "payee",
              payee |-> "slashes", slashes |-> "nominatorKeys",
              nominations |-> "bonded", bonded |-> "ledgers",
              prefs |-> "done"]

Blank == [nominations |-> {}, oversubscribed |-> FALSE, parent |-> NoParent]

-----------------------------------------------------------------------------
(* Paged key reads: state_getKeysPaged returns, in key order, at most      *)
(* PageSize keys after the start key.                                      *)

\* Mutant of StartKey: the first key read is passed instead of the last.
StartKeyFirst(keys) == IF keys = {} THEN 0 ELSE Min(keys)

\* The start key: all_keys.last(), the last key read so far, or none.
StartKey(keys) == IF keys = {} THEN 0 ELSE Max(keys)

\* The page the node returns for a storage prefix holding the keys in S.
Page(S, keys) ==
    LET after == SetToSortSeq({k \in S : k > StartKey(keys)}, <)
    IN  Range(SubSeq(after, 1, IF Len(after) < PageSize THEN Len(after)
                                                        ELSE PageSize))

\* Mutant of ValidatorScanDone: the loop also stops at a full page.
ValidatorScanDoneAtFull(n) == n <= PageSize

\* The Staking.Validators loop: if keys_length < keys_page_size { break; }
ValidatorScanDone(n) == n < PageSize

\* The Staking.Nominators loop, a copy of the same test.
NominatorScanDone(n) == n < PageSize

\* Mutant of Oversubscribed: the flag is computed before the push.
OversubscribedBeforePush(count) == count - 1 > MaxNominatorRewarded

\* validator.oversubscribed after the push that made the list count long.
Oversubscribed(count) == count > MaxNominatorRewarded

-----------------------------------------------------------------------------
(* The awaits.                                                             *)

\* The staking constant and the chunked state_queryStorageAt groups of the
\* next session keys, queued keys, reward destinations, slashes,
\* nominations and controllers (no chunk, no request, for no key).
AbstractedQuery ==
    /\ pc \in DOMAIN Successor
    /\ pc # "prefs"
    /\ pc' = Successor[pc]
    /\ UNCHANGED <<chain, validatorKeys, nominatorKeys, validators, superMap>>

\* get_active_validator_account_ids: Session.Validators at the block.  The
\* chain does not change during the run, so the list read here is
\* chain.active, which ValidatorKeysPage filters with.
ActiveValidatorAccountIds ==
    /\ pc = "active"
    /\ pc' = "validators"
    /\ UNCHANGED <<chain, validatorKeys, nominatorKeys, validators, superMap>>

\* One page of Staking.Validators keys; after the last page, the keys of
\* the active validators are filtered out and the map is built.
ValidatorKeysPage ==
    /\ pc = "validators"
    /\ LET page == Page(chain.intentions, validatorKeys)
           all  == validatorKeys \cup page
       IN  /\ validatorKeys' = all
           /\ IF ValidatorScanDone(Cardinality(page))
              THEN /\ validators' = [a \in all \ chain.active |-> Blank]
                   /\ pc' = "nextKeys"
              ELSE UNCHANGED <<validators, pc>>
    /\ UNCHANGED <<chain, nominatorKeys, superMap>>

\* Mutant of NominatorKeysPage: the scan pages the Staking.Validators prefix.
NominatorKeysPageOfValidators ==
    /\ pc = "nominatorKeys"
    /\ LET page == Page(chain.intentions, nominatorKeys)
       IN  /\ nominatorKeys' = nominatorKeys \cup page
           /\ pc' = IF NominatorScanDone(Cardinality(page)) THEN "nominations" ELSE pc
    /\ UNCHANGED <<chain, validatorKeys, validators, superMap>>

\* One page of Staking.Nominators keys.
NominatorKeysPage ==
    /\ pc = "nominatorKeys"
    /\ LET page == Page(chain.nominators, nominatorKeys)
       IN  /\ nominatorKeys' = nominatorKeys \cup page
           /\ pc' = IF NominatorScanDone(Cardinality(page)) THEN "nominations" ELSE pc
    /\ UNCHANGED <<chain, validatorKeys, validators, superMap>>

\* The Staking.Ledger queries, then, with no await between: every
\* nomination is pushed to each inactive validator it targets, the
\* oversubscribed flag is set after each push, and the lists are sorted.
LedgersAndNominations ==
    /\ pc = "ledgers"
    /\ validators' =
         [v \in DOMAIN validators |->
            LET noms == {n \in nominatorKeys : v \in Targets[n]}
            IN  [validators[v] EXCEPT
                   !.nominations = noms,
                   !.oversubscribed =
                      IF noms = {} THEN @ ELSE Oversubscribed(Cardinality(noms))]]
    /\ pc' = "identities"
    /\ UNCHANGED <<chain, validatorKeys, nominatorKeys, superMap>>

\* Identity.IdentityOf for every inactive validator, in one request; with
\* no inactive validator the answer is empty and values[0] panics.
IdentitiesQuery ==
    /\ pc = "identities"
    /\ pc' = IF DOMAIN validators = {} THEN "panicked" ELSE "superOf"
    /\ UNCHANGED <<chain, validatorKeys, nominatorKeys, validators, superMap>>

\* Identity.SuperOf for every inactive validator (the same keys, so the
\* answer is not empty here).
SuperOfQuery ==
    /\ pc = "superOf"
    /\ superMap' = [v \in DOMAIN validators \cap DOMAIN SuperOf |-> SuperOf[v]]
    /\ pc' = "superIdentities"
    /\ UNCHANGED <<chain, validatorKeys, nominatorKeys, validators>>

\* Mutant of ParentsOf: only one sub-account of a super account gets it.
ParentsOfFirst(s) ==
    IF \E v \in DOMAIN superMap : superMap[v] = s
    THEN {CHOOSE v \in DOMAIN superMap : superMap[v] = s}
    ELSE {}

\* The sub-accounts a super account's identity is attached to.
ParentsOf(s) == {v \in DOMAIN superMap : superMap[v] = s}

\* Identity.IdentityOf for every super account, in one request; each one
\* that has an identity becomes the parent of the sub-accounts that point
\* to it.  With no super account the answer is empty and values[0] panics.
SuperIdentitiesQuery ==
    /\ pc = "superIdentities"
    /\ \/ /\ Range(superMap) = {}
          /\ pc' = "panicked"
          /\ UNCHANGED validators
       \/ /\ Range(superMap) # {}
          /\ LET withParent == UNION {ParentsOf(s) : s \in Range(superMap) \cap IdentityOf}
             IN  validators' = [v \in DOMAIN validators |->
                                  IF v \in withParent
                                  THEN [validators[v] EXCEPT !.parent = superMap[v]]
                                  ELSE validators[v]]
          /\ pc' = "prefs"
    /\ UNCHANGED <<chain, validatorKeys, nominatorKeys, superMap>>

\* The Staking.Validators entries (preferences) of the inactive keys
\* (all_keys, not empty here); the map is returned.
ValidatorPrefs ==
    /\ pc = "prefs"
    /\ pc' = "done"
    /\ UNCHANGED <<chain, validatorKeys, nominatorKeys, validators, superMap>>

\* Any awaited request fails: the error is returned.
RpcFail ==
    /\ pc \notin {"done", "failed", "panicked"}
    /\ pc' = "failed"
    /\ UNCHANGED <<chain, validatorKeys, nominatorKeys, validators, superMap>>

Init ==
    /\ chain \in [intentions: SUBSET ValidatorCandidates,
                  active: SUBSET ActiveCandidates,
                  nominators: SUBSET NominatorCandidates]
    /\ pc = "active"
    /\ validatorKeys = {}
    /\ nominatorKeys = {}
    /\ validators = <<>>
    /\ superMap = <<>>

\* The function ends at done (Ok), failed (Err) or panicked.
Next ==
    \/ ActiveValidatorAccountIds
    \/ AbstractedQuery
    \/ ValidatorKeysPage
    \/ NominatorKeysPage
    \/ LedgersAndNominations
    \/ IdentitiesQuery
    \/ SuperOfQuery
    \/ SuperIdentitiesQuery
    \/ ValidatorPrefs
    \/ RpcFail

\* Every await returns (jsonrpsee's request timeout bounds it): the
\* successful answer of each step is weakly fair; a failure never is.
Fairness ==
    /\ WF_vars(ActiveValidatorAccountIds)
    /\ WF_vars(AbstractedQuery)
    /\ WF_vars(ValidatorKeysPage)
    /\ WF_vars(NominatorKeysPage)
    /\ WF_vars(LedgersAndNominations)
    /\ WF_vars(IdentitiesQuery)
    /\ WF_vars(SuperOfQuery)
    /\ WF_vars(SuperIdentitiesQuery)
    /\ WF_vars(ValidatorPrefs)

Spec == Init /\ [][Next]_vars /\ Fairness

-----------------------------------------------------------------------------
(* Properties.                                                             *)

TypeOK ==
    /\ pc \in (DOMAIN Successor) \cup {"active", "validators", "nominatorKeys", "ledgers", "identities",
                                     "superOf", "superIdentities", "done",
                                     "failed", "panicked"}
    /\ validatorKeys \subseteq ValidatorCandidates
    /\ nominatorKeys \subseteq NominatorCandidates
    /\ DOMAIN validators \subseteq ValidatorCandidates
    /\ \A v \in DOMAIN validators :
          /\ validators[v].nominations \subseteq NominatorCandidates
          /\ validators[v].oversubscribed \in BOOLEAN
          /\ validators[v].parent \in Accounts \cup {NoParent}

Done == pc = "done"

\* Spec 8.4 (the inactive half): the paged scan of Staking.Validators reads
\* every key, whatever the number of keys against the page size, so the
\* returned map holds exactly the intentions that are not active.
InactivePartition ==
    Done => DOMAIN validators = chain.intentions \ chain.active

\* Spec 4.7 step 4 and 8.5: every inactive validator carries exactly the
\* nominations that target it, read by the paged Staking.Nominators scan,
\* and is oversubscribed iff there are more than MaxNominatorRewarded.
NominationsCounted ==
    Done =>
      \A v \in DOMAIN validators :
        LET noms == {n \in chain.nominators : v \in Targets[n]}
        IN  /\ validators[v].nominations = noms
            /\ validators[v].oversubscribed
                  = (Cardinality(noms) > MaxNominatorRewarded)

\* Spec 4.7 step 7 and 9: a validator's parent is its super account when
\* that account has an identity (one hop), for every sub-account sharing it.
ParentOneHop ==
    Done =>
      \A v \in DOMAIN validators :
        validators[v].parent =
          IF v \in DOMAIN SuperOf /\ SuperOf[v] \in IdentityOf
          THEN SuperOf[v] ELSE NoParent

\* Both paged scans stop: every run of the function ends, returning the
\* map or an error, or panicking at an empty unchunked query.
Terminates == <>(pc \in {"done", "failed", "panicked"})

\* Spec 4.7: the loader returns the inactive validators, an empty map when
\* there are none; it never panics at the values[0] of an empty answer.
NeverPanics == pc # "panicked"

=============================================================================
