---------------------------- MODULE TelegramChat ----------------------------
(***************************************************************************)
(* The Telegram bot's chat registration and validator removal             *)
(* (subvt-telegram-bot/src/lib.rs, query.rs, command/remove_validator.rs)  *)
(* over the chat rows of persistence/postgres/network/telegram.rs and the  *)
(* application tables (users, notification channels and rules, user       *)
(* validators).                                                            *)
(*                                                                         *)
(* TelegramBot::run spawns a task for every update, so the messages and    *)
(* callback queries of one chat are handled concurrently.  A task is a     *)
(* sequence of awaited SQL statements, each atomic in the database and     *)
(* each able to fail, which ends the task (the error is logged and a       *)
(* GenericError message sent).  One chat is modelled.  After the         *)
(* registration a message is a group start (intro), a command (the chat   *)
(* state is reset, then process_command, not in this tree, runs), a text  *)
(* read against the chat state, or no text at all.                        *)
(***************************************************************************)
EXTENDS Naturals, FiniteSets

CONSTANTS
    Users,        \* application user ids save_user can return
    Validators,   \* validator accounts
    Messages,     \* message updates of the chat, each a spawned task
    Removals,     \* RemoveValidator callback queries, each a spawned task
    NoUser,
    MaxFailures,  \* bound on failing statements
    MessageKinds, \* what a message carries (a subset of Kinds)
    ChatIsPrivate \* message.chat.type_field == ChatType::Private

VARIABLES
    chat,             \* sub_telegram_chat row: [row, user, state]
    user,             \* app user rows: "none" | "live" | "deleted"
    channel,          \* users with a Telegram channel to the chat
    rules,            \* each user's notification rules: a RuleRow
    chatValidators,   \* sub_telegram_chat_validator rows not deleted
    userValidators,   \* each app user's validators (notifications)
    msg,              \* message tasks: [pc, local app user id, kind, read state]
    removal,          \* removal tasks: [pc, local app user id, validator]
    failures,
    added             \* messages that ran process_command("/add", ...)

vars == <<chat, user, channel, rules, chatValidators, userValidators, msg,
          removal, failures, added>>

Row == {"none", "live", "deleted"}

\* A user's default rules: "partial" when a save of the rule loop failed
\* after the first rule was saved.
RuleRow == Row \cup {"partial"}

\* TelegramChatState, and the None of get_chat_state.
ChatStates == {"Default", "AddValidator"}
NoState == "None"

\* A group_chat_created message, a text matching CMD_REGEX, a non-command
\* text that AccountId::from_ss58_check accepts, any other text, and a
\* message without text.
Kinds == {"groupCreated", "command", "address", "text", "noText"}

-----------------------------------------------------------------------------
(* Chat persistence (telegram.rs).                                         *)

\* chat_exists_by_id: a row for the chat with deleted_at NULL.
ChatExists == chat.row = "live"

\* get_chat_app_user_id: the app user of the row, deleted or not.
ChatAppUserId == chat.user

\* save_chat(.., Default): INSERT ... ON CONFLICT(telegram_chat_id) DO
\* UPDATE SET app_user_id = $1, deleted_at = NULL; the state column of an
\* existing row is kept.
SaveChatRow(u) ==
    IF chat.row = "none" THEN [row |-> "live", user |-> u, state |-> "Default"]
                         ELSE [chat EXCEPT !.row = "live", !.user = u]

\* get_chat_state: the state of the row if it is not deleted, else None.
GetChatStateValue == IF ChatExists THEN chat.state ELSE NoState

\* set_chat_state: UPDATE ... SET state, with no deleted_at filter.
SetChatStateRow(st) == IF chat.row = "none" THEN chat ELSE [chat EXCEPT !.state = st]

\* remove_validator_from_chat: UPDATE ... SET deleted_at = now() RETURNING
\* id, with no deleted_at filter.  Rows are only ever soft-deleted, so the
\* row the task found is still there and the update returns true.
RemoveValidatorFromChat(v) == chatValidators \ {v}

-----------------------------------------------------------------------------
(* process_message: registration of the chat.                              *)

SetMsg(m, pc, local) == msg' = [msg EXCEPT ![m].pc = pc, ![m].local = local]

CheckExists(m) ==
    /\ msg[m].pc = "exists"
    /\ SetMsg(m, IF ChatExists THEN "body" ELSE "deleted", NoUser)
    /\ UNCHANGED <<chat, user, channel, rules, chatValidators, userValidators,
                   removal, failures, added>>

\* chat_is_deleted: restore the old app user, or create a new one.
CheckDeleted(m) ==
    /\ msg[m].pc = "deleted"
    /\ SetMsg(m, IF chat.row = "deleted" THEN "getUser" ELSE "saveUser", NoUser)
    /\ UNCHANGED <<chat, user, channel, rules, chatValidators, userValidators,
                   removal, failures, added>>

\* get_chat_app_user_id (read twice in the code, around undelete_chat).
GetAppUser(m) ==
    /\ msg[m].pc \in {"getUser", "getUserAgain"}
    /\ SetMsg(m, IF msg[m].pc = "getUser" THEN "undeleteUser" ELSE "undeleteRules",
              ChatAppUserId)
    /\ UNCHANGED <<chat, user, channel, rules, chatValidators, userValidators,
                   removal, failures, added>>

UndeleteUser(m) ==
    /\ msg[m].pc = "undeleteUser"
    /\ user' = [user EXCEPT ![msg[m].local] = "live"]
    /\ SetMsg(m, "undeleteChat", msg[m].local)
    /\ UNCHANGED <<chat, channel, rules, chatValidators, userValidators,
                   removal, failures, added>>

UndeleteChat(m) ==
    /\ msg[m].pc = "undeleteChat"
    /\ chat' = [chat EXCEPT !.row = "live"]
    /\ SetMsg(m, "getUserAgain", msg[m].local)
    /\ UNCHANGED <<user, channel, rules, chatValidators, userValidators,
                   removal, failures, added>>

UndeleteRules(m) ==
    /\ msg[m].pc = "undeleteRules"
    /\ rules' = [rules EXCEPT ![msg[m].local] = "live"]
    /\ SetMsg(m, "chatCount", msg[m].local)
    /\ UNCHANGED <<chat, user, channel, chatValidators, userValidators,
                   removal, failures, added>>

\* create_app_user: save_user returns a fresh id.
SaveUser(m) ==
    /\ msg[m].pc = "saveUser"
    /\ \E u \in Users :
          /\ user[u] = "none"
          /\ \A w \in Users : user[w] = "none" => u <= w
          /\ user' = [user EXCEPT ![u] = "live"]
          /\ SetMsg(m, "saveChannel", u)
    /\ UNCHANGED <<chat, channel, rules, chatValidators, userValidators,
                   removal, failures, added>>

SaveChannel(m) ==
    /\ msg[m].pc = "saveChannel"
    /\ channel' = channel \cup {msg[m].local}
    /\ SetMsg(m, "saveRules", msg[m].local)
    /\ UNCHANGED <<chat, user, rules, chatValidators, userValidators,
                   removal, failures, added>>

\* create_default_notification_rules: one save per default rule, each
\* with ?; the first save, and then the rest of the rules.
SaveRules(m) ==
    LET u == msg[m].local IN
    /\ msg[m].pc = "saveRules"
    /\ rules' = [rules EXCEPT ![u] = IF @ = "none" THEN "partial" ELSE "live"]
    /\ SetMsg(m, IF rules[u] = "none" THEN "saveRules" ELSE "saveChat", u)
    /\ UNCHANGED <<chat, user, channel, chatValidators, userValidators,
                   removal, failures, added>>

SaveChat(m) ==
    /\ msg[m].pc = "saveChat"
    /\ chat' = SaveChatRow(msg[m].local)
    /\ SetMsg(m, "chatCount", msg[m].local)
    /\ UNCHANGED <<user, channel, rules, chatValidators, userValidators,
                   removal, failures, added>>

\* update_metrics_chat_count, after a registration or after the intro
\* (which then returns).
UpdateChatCount(m) ==
    /\ msg[m].pc \in {"chatCount", "introCount"}
    /\ SetMsg(m, IF msg[m].pc = "chatCount" THEN "body" ELSE "done", msg[m].local)
    /\ UNCHANGED <<chat, user, channel, rules, chatValidators, userValidators,
                   removal, failures, added>>

-----------------------------------------------------------------------------
(* process_message after the registration.                                 *)

\* Where each kind of message goes: the intro of a new group, the reset of
\* a command, the chat-state read of a text, the BadRequest of a message
\* without text.
BodyStep == [groupCreated |-> "intro", command |-> "resetCommand",
             address |-> "getState", text |-> "getState", noText |-> "badRequest"]

Body(m) ==
    /\ msg[m].pc = "body"
    /\ SetMsg(m, BodyStep[msg[m].kind], msg[m].local)
    /\ UNCHANGED <<chat, user, channel, rules, chatValidators, userValidators,
                   removal, failures, added>>

\* send_message(Intro); update_metrics_chat_count follows.
SendIntro(m) ==
    /\ msg[m].pc = "intro"
    /\ SetMsg(m, "introCount", msg[m].local)
    /\ UNCHANGED <<chat, user, channel, rules, chatValidators, userValidators,
                   removal, failures, added>>

\* reset_chat_state, before a command or before the /add of an address.
ResetChatState(m) ==
    /\ msg[m].pc \in {"resetCommand", "resetAdd"}
    /\ chat' = SetChatStateRow("Default")
    /\ SetMsg(m, IF msg[m].pc = "resetCommand" THEN "command" ELSE "add", msg[m].local)
    /\ UNCHANGED <<user, channel, rules, chatValidators, userValidators,
                   removal, failures, added>>

\* process_command (not in this tree), for a command or for "/add" with the
\* address; what the command does is not modelled.
ProcessCommand(m) ==
    /\ msg[m].pc \in {"command", "add"}
    /\ added' = IF msg[m].pc = "add" THEN added \cup {m} ELSE added
    /\ SetMsg(m, "done", msg[m].local)
    /\ UNCHANGED <<chat, user, channel, rules, chatValidators, userValidators,
                   removal, failures>>

\* get_chat_state, then the match: an address while the chat waits for one
\* is added, other text gets InvalidAddressTryAgain; in any other state
\* (or None) a private chat gets BadRequest and a group nothing.
GetChatState(m) ==
    /\ msg[m].pc = "getState"
    /\ LET st == GetChatStateValue
       IN  /\ msg' = [msg EXCEPT ![m].read = st, ![m].pc =
                 IF st = "AddValidator"
                 THEN IF msg[m].kind = "address" THEN "resetAdd" ELSE "tryAgain"
                 ELSE IF ChatIsPrivate THEN "badRequest" ELSE "done"]
    /\ UNCHANGED <<chat, user, channel, rules, chatValidators, userValidators,
                   removal, failures, added>>

\* send_message(InvalidAddressTryAgain | BadRequest).
SendReply(m) ==
    /\ msg[m].pc \in {"tryAgain", "badRequest"}
    /\ SetMsg(m, "done", msg[m].local)
    /\ UNCHANGED <<chat, user, channel, rules, chatValidators, userValidators,
                   removal, failures, added>>

-----------------------------------------------------------------------------
(* process_query(RemoveValidator) and /remove.                             *)

SetRemoval(r, pc, local) ==
    removal' = [removal EXCEPT ![r].pc = pc, ![r].local = local]

\* process_remove_validator_command: get_chat_validator_by_address, then
\* the RemoveValidator query, or the validator list when it is not found.
FindByAddress(r) ==
    /\ removal[r].pc = "byAddress"
    /\ SetRemoval(r, IF removal[r].v \in chatValidators THEN "byId" ELSE "done",
                  NoUser)
    /\ UNCHANGED <<chat, user, channel, rules, chatValidators, userValidators,
                   msg, failures, added>>

\* get_chat_validator_by_id: ValidatorNotFound when there is no row.
GetChatValidator(r) ==
    /\ removal[r].pc = "byId"
    /\ SetRemoval(r, IF removal[r].v \in chatValidators THEN "remove" ELSE "done",
                  NoUser)
    /\ UNCHANGED <<chat, user, channel, rules, chatValidators, userValidators,
                   msg, failures, added>>

RemoveFromChat(r) ==
    /\ removal[r].pc = "remove"
    /\ chatValidators' = RemoveValidatorFromChat(removal[r].v)
    /\ SetRemoval(r, "validatorCount", NoUser)
    /\ UNCHANGED <<chat, user, channel, rules, userValidators, msg, failures, added>>

\* update_metrics_validator_count, then get_chat_app_user_id.
RemovalReads(r) ==
    /\ removal[r].pc \in {"validatorCount", "getUser"}
    /\ IF removal[r].pc = "validatorCount"
       THEN SetRemoval(r, "getUser", NoUser)
       ELSE SetRemoval(r, "deleteUserValidator", ChatAppUserId)
    /\ UNCHANGED <<chat, user, channel, rules, chatValidators, userValidators,
                   msg, failures, added>>

\* delete_user_validator_by_account_id: "remove from app, so it doesn't
\* receive notifications"; then the ValidatorRemoved message.
DeleteUserValidator(r) ==
    /\ removal[r].pc = "deleteUserValidator"
    /\ userValidators' = [userValidators EXCEPT ![removal[r].local] =
                             @ \ {removal[r].v}]
    /\ SetRemoval(r, "done", removal[r].local)
    /\ UNCHANGED <<chat, user, channel, rules, chatValidators, msg, failures, added>>

\* Any awaited statement of a task fails: the ? ends the task, and run()
\* logs the error and sends GenericError.
MessageFails(m) ==
    /\ msg[m].pc # "done"
    /\ failures < MaxFailures
    /\ failures' = failures + 1
    /\ SetMsg(m, "done", msg[m].local)
    /\ UNCHANGED <<chat, user, channel, rules, chatValidators, userValidators,
                   removal, added>>

\* A removal query also ends at any await when answer_callback_query, run
\* beside it in try_join!, fails first: the query's future is dropped.
RemovalFails(r) ==
    /\ removal[r].pc # "done"
    /\ failures < MaxFailures
    /\ failures' = failures + 1
    /\ SetRemoval(r, "done", removal[r].local)
    /\ UNCHANGED <<chat, user, channel, rules, chatValidators, userValidators,
                   msg, added>>

-----------------------------------------------------------------------------

\* The chat is new, registered with app user u0 and validator v0 on both
\* sides, or deleted (bot removed) with them.
Init ==
    /\ \E u0 \in Users, v0 \in Validators, st \in Row, cs \in ChatStates :
          /\ \A w \in Users : u0 <= w
          /\ chat = IF st = "none" THEN [row |-> st, user |-> NoUser, state |-> "Default"]
                                  ELSE [row |-> st, user |-> u0, state |-> cs]
          /\ user = [u \in Users |-> IF u = u0 THEN st ELSE "none"]
          /\ channel = IF st = "none" THEN {} ELSE {u0}
          /\ rules = user
          /\ chatValidators = IF st = "none" THEN {} ELSE {v0}
          /\ userValidators = [u \in Users |-> IF u = u0 THEN chatValidators ELSE {}]
    /\ msg \in [Messages -> [pc: {"exists"}, local: {NoUser}, kind: MessageKinds,
                             read: {NoState}]]
    /\ removal \in [Removals -> [pc: {"byAddress", "byId"}, local: {NoUser},
                                 v: Validators]]
    /\ failures = 0
    /\ added = {}

Next ==
    \/ \E m \in Messages :
          \/ CheckExists(m) \/ CheckDeleted(m) \/ GetAppUser(m)
          \/ UndeleteUser(m) \/ UndeleteChat(m) \/ UndeleteRules(m)
          \/ SaveUser(m) \/ SaveChannel(m) \/ SaveRules(m) \/ SaveChat(m)
          \/ UpdateChatCount(m) \/ Body(m) \/ SendIntro(m) \/ ResetChatState(m)
          \/ ProcessCommand(m) \/ GetChatState(m) \/ SendReply(m) \/ MessageFails(m)
    \/ \E r \in Removals :
          \/ FindByAddress(r) \/ GetChatValidator(r) \/ RemoveFromChat(r)
          \/ RemovalReads(r) \/ DeleteUserValidator(r) \/ RemovalFails(r)

Spec == Init /\ [][Next]_vars

-----------------------------------------------------------------------------
(* Properties.                                                             *)

TypeOK ==
    /\ chat \in [row: Row, user: Users \cup {NoUser}, state: ChatStates]
    /\ user \in [Users -> Row]
    /\ channel \subseteq Users
    /\ rules \in [Users -> RuleRow]
    /\ chatValidators \subseteq Validators
    /\ userValidators \in [Users -> SUBSET Validators]
    /\ failures \in 0..MaxFailures
    /\ added \subseteq Messages

Quiet == /\ \A m \in Messages : msg[m].pc = "done"
         /\ \A r \in Removals : removal[r].pc = "done"

\* The chat lists v: its row is live and so is v's chat validator row.
Listed(v) == ChatExists /\ v \in chatValidators

\* The chat is sent notifications about v: a live app user with a channel
\* to the chat and live rules (all or some of them) has v among its
\* validators.
Notified(v) ==
    \E u \in channel : user[u] = "live" /\ rules[u] \in {"partial", "live"}
                      /\ v \in userValidators[u]

\* query.rs: a validator is removed from the app "so it doesn't receive
\* notifications", and a restored chat gets its rules back: once no
\* handler is running, the chat is notified about exactly the validators it
\* lists, whichever statements failed.
NotifiedIffListed == Quiet => \A v \in Validators : Listed(v) = Notified(v)

\* A chat has one app user: once no handler is running, every live app
\* user with a channel to the chat is the one its row names (concurrent
\* first messages of a new chat each create one).
OneAppUserPerChat ==
    Quiet => \A u \in channel : user[u] = "live" => u = chat.user


\* A chat waiting for an address (state AddValidator) runs one /add for
\* it: lib.rs resets the state before process_command("/add"), so a second
\* address finds the chat in Default.  Nothing else in this tree sets the
\* state, so over a run at most one message adds.
AddOncePerPrompt == Cardinality(added) <= 1

====
