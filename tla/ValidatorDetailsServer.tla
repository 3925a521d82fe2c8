------------------------- MODULE ValidatorDetailsServer -------------------------
(***************************************************************************)
\* The validator details WebSocket server (C9b,
\* subvt-validator-details-server/src/lib.rs), reading the store laid out
\* as spec 4.4 says: the details of validator v at block N under
\* subvt:<chain>:validators:<N>:<status>:validator:<v>, written and then
\* published for each finalized block.
\*
\* The intake loop receives a published block number, skips it when it is
\* LAST_FINALIZED_BLOCK_NUMBER, else broadcasts it on the bus and then
\* stores it there.  A subscription fetches the details under the block
\* number it loads from LAST_FINALIZED_BLOCK_NUMBER (the active key, then
\* the inactive key, each with its own load), sends them labelled with a
\* third load, and only then registers its bus receiver and starts its
\* worker.  For every block number the worker reads the hash of the
\* validator's key at that block; a different hash makes it read the
\* details and send a diff, an equal one a heartbeat; a missing key ends
\* the worker.
\*
\* When get_message or get_payload fails the intake loop ends: it
\* broadcasts BusEvent::Error on the same bus, stops the server (which
\* closes every subscription) and returns the error.  A worker returns on
\* Error, and also, silently, when the GET of the details or their
\* parsing fails.
\*
\* A validator's details are a value of Details; their hash is the value.
(***************************************************************************)
EXTENDS Naturals, Sequences

CONSTANTS
    Clients,       \* WebSocket subscriptions
    Validators,    \* account ids a client may subscribe to
    Details,       \* values of a validator's details
    MaxBlock,      \* finalized blocks 1..MaxBlock are published
    BusCapacity    \* events a bus receiver holds (100 in the code)

ASSUME /\ MaxBlock \in Nat \ {0}
       /\ BusCapacity \in Nat \ {0}

Blocks == 1..MaxBlock
Presence == {"active", "inactive", "absent"}
NoDetails == "none"

\* BusEvent: a finalized block number, or the Error sentinel.
NewFinalizedBlock(n) == [kind |-> "NewFinalizedBlock", blk |-> n]
ErrorEvent == [kind |-> "Error", blk |-> 0]

VARIABLES
    status,    \* [Blocks -> [Validators -> Presence]]: the keys at block N
    details,   \* [Blocks -> [Validators -> Details]]: their content
    published, \* the last block the writer published
    channel,   \* published block numbers not yet received
    last,      \* LAST_FINALIZED_BLOCK_NUMBER
    intake,    \* the intake loop: [pc, blk]
    sub,       \* [Clients -> record]: the subscription and its worker
    queue,     \* [Clients -> Seq(Blocks)]: each bus receiver
    sinkOpen,  \* [Clients -> BOOLEAN]: the client is still connected
    view,      \* [Clients -> Details or NoDetails]: what the client was sent
    label,     \* [Clients -> block]: block number of its last message
    msgs,      \* [Clients -> Nat]: messages the client has received
    atError    \* the receivers registered when Error was broadcast

vars == <<status, details, published, channel, last, intake, sub, queue,
          sinkOpen, view, label, msgs, atError>>

\* pc: "off", "fetchInactive" (active key missing), "found" (details
\* fetched), "sent" (initial message sent), "live" (worker running),
\* "rejected", "gone" (worker returned).
SubRecord == [pc: {"off", "fetchInactive", "found", "sent", "live",
                   "rejected", "gone"},
              val: Validators, local: Details \cup {NoDetails}]

-----------------------------------------------------------------------------
(* Reading the store.                                                     *)

\* GET of the key of v with status s at block n (block 0 has no keys).
HasKey(n, s, v) == n \in Blocks /\ status[n][v] = s

\* The key found at block n, active first: its status or "absent".
Lookup(n, v) ==
    IF HasKey(n, "active", v) THEN "active"
    ELSE IF HasKey(n, "inactive", v) THEN "inactive"
    ELSE "absent"

Receivers == {c \in Clients : sub[c].pc = "live"}

-----------------------------------------------------------------------------
(* The writer (spec 4.4): one atomic batch per finalized block, then the  *)
(* publication.                                                           *)
PublishBlock ==
    /\ published < MaxBlock
    /\ \E st \in [Validators -> Presence], d \in [Validators -> Details] :
          /\ status' = [status EXCEPT ![published + 1] = st]
          /\ details' = [details EXCEPT ![published + 1] = d]
    /\ published' = published + 1
    /\ channel' = Append(channel, published + 1)
    /\ UNCHANGED <<atError, last, intake, sub, queue, sinkOpen, view, label, msgs>>

(* The intake loop.                                                       *)

\* Mutant of ReceiveAndBroadcast: broadcast does not wait for room.
ReceiveAndBroadcastNoWait ==
    /\ intake.pc = "idle"
    /\ channel # <<>>
    /\ channel' = Tail(channel)
    /\ IF Head(channel) = last
       THEN UNCHANGED <<intake, queue>>
       ELSE /\ queue' = [c \in Clients |->
                           IF c \in Receivers
                           THEN Append(queue[c], NewFinalizedBlock(Head(channel)))
                           ELSE queue[c]]
            /\ intake' = [pc |-> "broadcast", blk |-> Head(channel)]
    /\ UNCHANGED <<atError, status, details, published, last, sub, sinkOpen, view,
                   label, msgs>>

\* Receive a block number; skip a duplicate, else broadcast it (blocking
\* while a receiver is full).
ReceiveAndBroadcast ==
    /\ intake.pc = "idle"
    /\ channel # <<>>
    /\ channel' = Tail(channel)
    /\ IF Head(channel) = last
       THEN UNCHANGED <<intake, queue>>
       ELSE /\ \A c \in Receivers : Len(queue[c]) < BusCapacity
            /\ queue' = [c \in Clients |->
                           IF c \in Receivers
                           THEN Append(queue[c], NewFinalizedBlock(Head(channel)))
                           ELSE queue[c]]
            /\ intake' = [pc |-> "broadcast", blk |-> Head(channel)]
    /\ UNCHANGED <<atError, status, details, published, last, sub, sinkOpen, view,
                   label, msgs>>

\* Store the number in LAST_FINALIZED_BLOCK_NUMBER.
StoreLast ==
    /\ intake.pc = "broadcast"
    /\ last' = intake.blk
    /\ intake' = [intake EXCEPT !.pc = "idle"]
    /\ UNCHANGED <<atError, status, details, published, channel, sub, queue, sinkOpen,
                   view, label, msgs>>

\* broadcast runs under bus.lock() and keeps the mutex while it waits for
\* room, so add_rx, which takes the same mutex, waits as well.
BroadcastBlocked ==
    /\ \/ intake.pc = "idle" /\ channel # <<>> /\ Head(channel) # last
       \/ intake.pc = "error"
    /\ \E c \in Receivers : Len(queue[c]) = BusCapacity

(* A subscription.                                                        *)

\* fetch_validator_details: GET the active key at the loaded block number.
FetchActive(c) ==
    /\ sub[c].pc = "off"
    /\ intake.pc # "stopped"
    /\ \E v \in Validators :
          sub' = [sub EXCEPT ![c] =
                    IF HasKey(last, "active", v)
                    THEN [pc |-> "found", val |-> v, local |-> details[last][v]]
                    ELSE [pc |-> "fetchInactive", val |-> v, local |-> NoDetails]]
    /\ UNCHANGED <<atError, status, details, published, channel, last, intake, queue,
                   sinkOpen, view, label, msgs>>

\* The active key is missing: GET the inactive key at a block number loaded
\* again; a missing key rejects the subscription.
FetchInactive(c) ==
    LET v == sub[c].val IN
    /\ sub[c].pc = "fetchInactive"
    /\ sub' = [sub EXCEPT ![c] =
                 IF HasKey(last, "inactive", v)
                 THEN [@ EXCEPT !.pc = "found", !.local = details[last][v]]
                 ELSE [@ EXCEPT !.pc = "rejected"]]
    /\ UNCHANGED <<atError, status, details, published, channel, last, intake, queue,
                   sinkOpen, view, label, msgs>>

\* Send the details, labelled with the block number loaded a third time.
SendInitial(c) ==
    /\ sub[c].pc = "found"
    /\ sub' = [sub EXCEPT ![c].pc = "sent"]
    /\ IF sinkOpen[c]
       THEN /\ view' = [view EXCEPT ![c] = sub[c].local]
            /\ label' = [label EXCEPT ![c] = last]
            /\ msgs' = [msgs EXCEPT ![c] = @ + 1]
       ELSE UNCHANGED <<view, label, msgs>>
    /\ UNCHANGED <<atError, status, details, published, channel, last, intake, queue,
                   sinkOpen>>

\* Register the bus receiver (bus.lock().add_rx()) and start the worker.
RegisterReceiver(c) ==
    /\ sub[c].pc = "sent"
    /\ ~BroadcastBlocked
    /\ sub' = [sub EXCEPT ![c].pc = "live"]
    /\ queue' = [queue EXCEPT ![c] = <<>>]
    /\ UNCHANGED <<atError, status, details, published, channel, last, intake,
                   sinkOpen, view, label, msgs>>

HandleBlock(c) ==
    LET n == Head(queue[c]).blk
        v == sub[c].val
        d == details[n][v]
    IN
    /\ sub[c].pc = "live"
    /\ queue[c] # <<>>
    /\ Head(queue[c]).kind = "NewFinalizedBlock"
    /\ queue' = [queue EXCEPT ![c] = Tail(@)]
    /\ IF Lookup(n, v) = "absent" \/ ~sinkOpen[c]
       THEN /\ sub' = [sub EXCEPT ![c].pc = "gone"]
            /\ UNCHANGED <<view, label, msgs>>
       ELSE /\ sub' = [sub EXCEPT ![c].local = d]
            /\ view' = [view EXCEPT ![c] = d]
            /\ label' = [label EXCEPT ![c] = n]
            /\ msgs' = [msgs EXCEPT ![c] = @ + 1]
    /\ UNCHANGED <<atError, status, details, published, channel, last, intake,
                   sinkOpen>>

\* The client closes the connection.
CloseSink(c) ==
    /\ sub[c].pc \notin {"off", "rejected"}
    /\ sinkOpen[c]
    /\ sinkOpen' = [sinkOpen EXCEPT ![c] = FALSE]
    /\ UNCHANGED <<atError, status, details, published, channel, last, intake, sub,
                   queue, view, label, msgs>>

\* The hash differs, and the GET of the details or their parsing fails:
\* the worker logs the error and returns.
WorkerReadFails(c) ==
    LET n == Head(queue[c]).blk
        v == sub[c].val
    IN
    /\ sub[c].pc = "live"
    /\ queue[c] # <<>>
    /\ Head(queue[c]).kind = "NewFinalizedBlock"
    /\ Lookup(n, v) # "absent"
    /\ details[n][v] # sub[c].local
    /\ queue' = [queue EXCEPT ![c] = Tail(@)]
    /\ sub' = [sub EXCEPT ![c].pc = "gone"]
    /\ UNCHANGED <<atError, status, details, published, channel, last, intake,
                   sinkOpen, view, label, msgs>>

\* BusEvent::Error: the worker returns and its receiver is dropped.
WorkerStops(c) ==
    /\ sub[c].pc = "live"
    /\ queue[c] # <<>>
    /\ Head(queue[c]).kind = "Error"
    /\ sub' = [sub EXCEPT ![c].pc = "gone"]
    /\ queue' = [queue EXCEPT ![c] = <<>>]
    /\ UNCHANGED <<atError, status, details, published, channel, last, intake,
                   sinkOpen, view, label, msgs>>

(* The error exit of run.                                                 *)

\* get_message or get_payload fails: the loop breaks with the error.
IntakeFails ==
    /\ intake.pc = "idle"
    /\ intake' = [intake EXCEPT !.pc = "error"]
    /\ UNCHANGED <<atError, status, details, published, channel, last, sub,
                   queue, sinkOpen, view, label, msgs>>

\* Broadcast Error to the receivers, blocking while one is full.
BroadcastError ==
    /\ intake.pc = "error"
    /\ \A c \in Receivers : Len(queue[c]) < BusCapacity
    /\ queue' = [c \in Clients |->
                   IF c \in Receivers THEN Append(queue[c], ErrorEvent)
                   ELSE queue[c]]
    /\ atError' = Receivers
    /\ intake' = [intake EXCEPT !.pc = "stopping"]
    /\ UNCHANGED <<status, details, published, channel, last, sub, sinkOpen,
                   view, label, msgs>>

\* server_stop_handle.stop(): every subscription is closed.
StopServer ==
    /\ intake.pc = "stopping"
    /\ intake' = [intake EXCEPT !.pc = "stopped"]
    /\ sinkOpen' = [c \in Clients |-> FALSE]
    /\ UNCHANGED <<atError, status, details, published, channel, last, sub,
                   queue, view, label, msgs>>

-----------------------------------------------------------------------------
Init ==
    /\ status = [n \in Blocks |-> [v \in Validators |-> "absent"]]
    /\ details = [n \in Blocks |-> [v \in Validators |-> CHOOSE x \in Details : TRUE]]
    /\ published = 0
    /\ channel = <<>>
    /\ last = 0
    /\ intake = [pc |-> "idle", blk |-> 0]
    /\ sub = [c \in Clients |->
                [pc |-> "off", val |-> CHOOSE v \in Validators : TRUE,
                 local |-> NoDetails]]
    /\ queue = [c \in Clients |-> <<>>]
    /\ sinkOpen = [c \in Clients |-> TRUE]
    /\ view = [c \in Clients |-> NoDetails]
    /\ label = [c \in Clients |-> 0]
    /\ msgs = [c \in Clients |-> 0]
    /\ atError = {}

Next ==
    \/ PublishBlock
    \/ ReceiveAndBroadcast
    \/ StoreLast
    \/ IntakeFails \/ BroadcastError \/ StopServer
    \/ \E c \in Clients :
          \/ FetchActive(c)
          \/ FetchInactive(c)
          \/ SendInitial(c)
          \/ RegisterReceiver(c)
          \/ HandleBlock(c)
          \/ WorkerReadFails(c)
          \/ WorkerStops(c)
          \/ CloseSink(c)

Spec == Init /\ [][Next]_vars

-----------------------------------------------------------------------------
(* Properties.                                                            *)

TypeOK ==
    /\ status \in [Blocks -> [Validators -> Presence]]
    /\ details \in [Blocks -> [Validators -> Details]]
    /\ published \in 0..MaxBlock
    /\ channel \in Seq(Blocks)
    /\ last \in 0..MaxBlock
    /\ intake \in [pc: {"idle", "broadcast", "error", "stopping", "stopped"},
                  blk: 0..MaxBlock]
    /\ sub \in [Clients -> SubRecord]
    /\ \A c \in Clients :
          /\ Len(queue[c]) <= BusCapacity
          /\ \A i \in DOMAIN queue[c] : queue[c][i].kind \in {"NewFinalizedBlock", "Error"}
    /\ sinkOpen \in [Clients -> BOOLEAN]
    /\ view \in [Clients -> Details \cup {NoDetails}]
    /\ label \in [Clients -> 0..MaxBlock]
    /\ atError \subseteq Clients

ViewMatchesLabel ==
    \A c \in Clients :
        msgs[c] > 0 /\ label[c] \in Blocks =>
            view[c] = details[label[c]][sub[c].val]

\* Spec 6: a subscription keeps getting an update or a heartbeat for every
\* finalized block until the client leaves; its worker does not return
\* while the client is connected.
WorkerOutlivesAbsence ==
    \A c \in Clients : sub[c].pc = "gone" => ~sinkOpen[c]

=============================================================================
