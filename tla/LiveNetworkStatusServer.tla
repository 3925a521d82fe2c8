------------------------ MODULE LiveNetworkStatusServer ------------------------
(***************************************************************************)
(* The live network status WebSocket server (C9a,                         *)
(* subvt-live-network-status-server/src/lib.rs).                           *)
(*                                                                         *)
(* An updater writes the status to Redis and publishes the best block      *)
(* number.  The server's intake loop receives the number, reads the        *)
(* status, broadcasts the diff against its current status on an in-process *)
(* bus, and then stores the new status.  A subscription registers a bus    *)
(* receiver, sends the current status once, and starts a worker thread     *)
(* that forwards every diff from its receiver to the client.  The bus      *)
(* holds BusCapacity events per receiver and broadcast blocks while any    *)
(* receiver is full.                                                       *)
(*                                                                         *)
(* A status is a function from Fields to Values; "best" is the best block  *)
(* number and the other fields stand for the rest of the status.  A        *)
(* client's view is the partial status it has built from the messages it   *)
(* received.                                                               *)
(*                                                                         *)
(* A failing Redis read ends the intake loop: it broadcasts an Error event *)
(* on the bus, stops the WebSocket server and returns the error.  Worker   *)
(* threads are not joined; once the bus is dropped, a receiver's recv()    *)
(* fails at once and for ever, and the worker's loop ignores the failure.  *)
(***************************************************************************)
EXTENDS Naturals, Sequences

CONSTANTS
    Subscribers,   \* WebSocket clients
    OtherFields,   \* status fields besides the best block number
    Values,        \* values of the other fields
    MaxBest,       \* the updater publishes best blocks 1..MaxBest
    BusCapacity    \* events a bus receiver holds (100 in the code)

ASSUME /\ MaxBest \in Nat \ {0}
       /\ BusCapacity \in Nat \ {0}
       /\ 0 \in Values
       /\ "best" \notin OtherFields

Fields == {"best"} \cup OtherFields
Status == [Fields -> (0..MaxBest) \cup Values]
DefaultStatus == [f \in Fields |-> 0]

VARIABLES
    redisStatus,   \* the status under subvt:<chain>:live_network_status
    channel,       \* best block numbers published, not yet received
    current,       \* the server's current status (behind an RwLock)
    intake,        \* the intake loop: [pc, new]
    sub,           \* [Subscribers -> state of the subscription]
    queue,         \* [Subscribers -> Seq(diff)]: each bus receiver
    sinkOpen,      \* [Subscribers -> BOOLEAN]: the client still listens
    view,          \* [Subscribers -> partial status]: what the client knows
    atError        \* the receivers registered when Error was broadcast

vars == <<redisStatus, channel, current, intake, sub, queue, sinkOpen, view,
          atError>>

\* "off": not subscribed; "added": receiver registered, status not sent yet;
\* "live": worker running; "gone": worker returned, receiver dropped.
SubStates == {"off", "added", "live", "gone"}

-----------------------------------------------------------------------------
(* LiveNetworkStatus::get_diff and the client's use of a diff.            *)

\* The diff carries exactly the fields whose value changed.
Diff(old, new) == [f \in {g \in Fields : old[g] # new[g]} |-> new[f]]

\* The events of the bus: BusEvent::NewBlock(diff) and BusEvent::Error.
NewBlock(d) == [kind |-> "NewBlock", diff |-> d]
ErrorEvent == [kind |-> "Error"]

\* The client overwrites the fields a diff carries.
ApplyDiff(v, d) ==
    [f \in DOMAIN v \cup DOMAIN d |-> IF f \in DOMAIN d THEN d[f] ELSE v[f]]

\* Mutant: a receiver whose worker has returned stays registered.
ReceiversLeaked == {s \in Subscribers : sub[s] # "off"}

\* Subscribers whose receiver is registered on the bus.
Receivers == {s \in Subscribers : sub[s] \in {"added", "live"}}

\* broadcast runs under bus.lock() and keeps the mutex while it waits for
\* room, so add_rx, which takes the same mutex, waits as well.
BroadcastBlocked ==
    /\ \/ intake.pc = "read" /\ current["best"] # 0
       \/ intake.pc = "error"
    /\ \E s \in Receivers : Len(queue[s]) = BusCapacity

-----------------------------------------------------------------------------
(* The updater (outside the server): a new best block and its status.     *)
PublishStatus ==
    /\ redisStatus["best"] < MaxBest
    /\ \E other \in [OtherFields -> Values] :
          redisStatus' = [f \in Fields |->
                            IF f = "best" THEN redisStatus["best"] + 1
                            ELSE other[f]]
    /\ channel' = Append(channel, redisStatus["best"] + 1)
    /\ UNCHANGED <<current, intake, sub, queue, sinkOpen, view, atError>>

(* The intake loop.                                                       *)

\* Receive a best block number; skip a duplicate, else read the status.
ReceiveBestBlock ==
    /\ intake.pc = "idle"
    /\ channel # <<>>
    /\ channel' = Tail(channel)
    /\ IF current["best"] = Head(channel)
       THEN UNCHANGED intake
       ELSE intake' = [pc |-> "read", new |-> redisStatus]
    /\ UNCHANGED <<redisStatus, current, sub, queue, sinkOpen, view, atError>>

\* Mutant: broadcast does not wait for room in a full receiver.
BroadcastDiffNoWait ==
    /\ intake.pc = "read"
    /\ IF current["best"] # 0
       THEN queue' = [s \in Subscribers |->
                        IF s \in Receivers
                        THEN Append(queue[s], NewBlock(Diff(current, intake.new)))
                        ELSE queue[s]]
       ELSE UNCHANGED queue
    /\ intake' = [intake EXCEPT !.pc = "stored"]
    /\ UNCHANGED <<redisStatus, channel, current, sub, sinkOpen, view, atError>>

\* Under the read lock: unless the current status is still the default,
\* broadcast the diff to every receiver (blocking while one is full).
BroadcastDiff ==
    /\ intake.pc = "read"
    /\ IF current["best"] # 0
       THEN /\ \A s \in Receivers : Len(queue[s]) < BusCapacity
            /\ queue' = [s \in Subscribers |->
                           IF s \in Receivers
                           THEN Append(queue[s], NewBlock(Diff(current, intake.new)))
                           ELSE queue[s]]
       ELSE UNCHANGED queue
    /\ intake' = [intake EXCEPT !.pc = "stored"]
    /\ UNCHANGED <<redisStatus, channel, current, sub, sinkOpen, view, atError>>

\* Under the write lock: the new status becomes the current one.
StoreStatus ==
    /\ intake.pc = "stored"
    /\ current' = intake.new
    /\ intake' = [intake EXCEPT !.pc = "idle"]
    /\ UNCHANGED <<redisStatus, channel, sub, queue, sinkOpen, view, atError>>

(* The error exit of the loop.                                             *)

\* get_message, get_payload or read_current_network_status fails: the
\* loop breaks with the error.
IntakeFails ==
    /\ intake.pc = "idle"
    /\ intake' = [intake EXCEPT !.pc = "error"]
    /\ UNCHANGED <<redisStatus, channel, current, sub, queue, sinkOpen, view,
                   atError>>

\* bus.broadcast(BusEvent::Error), which also waits for room in every
\* receiver.
BroadcastError ==
    /\ intake.pc = "error"
    /\ \A s \in Receivers : Len(queue[s]) < BusCapacity
    /\ queue' = [s \in Subscribers |->
                   IF s \in Receivers THEN Append(queue[s], ErrorEvent)
                   ELSE queue[s]]
    /\ atError' = Receivers
    /\ intake' = [intake EXCEPT !.pc = "stopping"]
    /\ UNCHANGED <<redisStatus, channel, current, sub, sinkOpen, view>>

\* server_stop_handle.stop() and the join of the server: every WebSocket
\* connection is closed, no subscription is accepted any more, and run
\* returns the error, dropping the bus.
StopServer ==
    /\ intake.pc = "stopping"
    /\ intake' = [intake EXCEPT !.pc = "stopped"]
    /\ sinkOpen' = [s \in Subscribers |-> FALSE]
    /\ UNCHANGED <<redisStatus, channel, current, sub, queue, view, atError>>

(* A subscription.                                                        *)

\* subscribe_live_network_status: register a receiver on the bus
\* (bus.lock().add_rx()).
Subscribe(s) ==
    /\ sub[s] = "off"
    /\ intake.pc # "stopped"
    /\ ~BroadcastBlocked
    /\ sub' = [sub EXCEPT ![s] = "added"]
    /\ queue' = [queue EXCEPT ![s] = <<>>]
    /\ UNCHANGED <<redisStatus, channel, current, intake, sinkOpen, view, atError>>

\* Send the current status unless it is the default, then start the worker.
SendCurrentStatus(s) ==
    /\ sub[s] = "added"
    /\ view' = IF current["best"] # 0 THEN [view EXCEPT ![s] = current]
                                      ELSE view
    /\ sub' = [sub EXCEPT ![s] = "live"]
    /\ UNCHANGED <<redisStatus, channel, current, intake, queue, sinkOpen, atError>>

\* The worker receives a diff and sends it; a failed send (the client has
\* gone) ends the worker and drops its receiver.
ForwardDiff(s) ==
    /\ sub[s] = "live"
    /\ queue[s] # <<>>
    /\ Head(queue[s]).kind = "NewBlock"
    /\ IF sinkOpen[s]
       THEN /\ view' = [view EXCEPT ![s] = ApplyDiff(@, Head(queue[s]).diff)]
            /\ queue' = [queue EXCEPT ![s] = Tail(@)]
            /\ UNCHANGED sub
       ELSE /\ sub' = [sub EXCEPT ![s] = "gone"]
            /\ queue' = [queue EXCEPT ![s] = <<>>]
            /\ UNCHANGED view
    /\ UNCHANGED <<redisStatus, channel, current, intake, sinkOpen, atError>>

\* Mutant of WorkerStops: the Error event is consumed but the worker loops
\* on.
WorkerStopsIgnoresError(s) ==
    /\ sub[s] = "live"
    /\ queue[s] # <<>>
    /\ Head(queue[s]).kind = "Error"
    /\ queue' = [queue EXCEPT ![s] = Tail(@)]
    /\ UNCHANGED <<redisStatus, channel, current, intake, sub, sinkOpen, view,
                   atError>>

\* The worker receives BusEvent::Error and returns, dropping its receiver.
WorkerStops(s) ==
    /\ sub[s] = "live"
    /\ queue[s] # <<>>
    /\ Head(queue[s]).kind = "Error"
    /\ sub' = [sub EXCEPT ![s] = "gone"]
    /\ queue' = [queue EXCEPT ![s] = <<>>]
    /\ UNCHANGED <<redisStatus, channel, current, intake, sinkOpen, view,
                   atError>>

\* The client closes the connection.
CloseSink(s) ==
    /\ sub[s] \in {"added", "live"}
    /\ sinkOpen[s]
    /\ sinkOpen' = [sinkOpen EXCEPT ![s] = FALSE]
    /\ UNCHANGED <<redisStatus, channel, current, intake, sub, queue, view, atError>>

-----------------------------------------------------------------------------
Init ==
    /\ redisStatus = DefaultStatus
    /\ channel = <<>>
    /\ current = DefaultStatus
    /\ intake = [pc |-> "idle", new |-> DefaultStatus]
    /\ sub = [s \in Subscribers |-> "off"]
    /\ queue = [s \in Subscribers |-> <<>>]
    /\ sinkOpen = [s \in Subscribers |-> TRUE]
    /\ view = [s \in Subscribers |-> [f \in {} |-> 0]]
    /\ atError = {}

Next ==
    \/ PublishStatus
    \/ ReceiveBestBlock
    \/ BroadcastDiff
    \/ StoreStatus
    \/ IntakeFails
    \/ BroadcastError
    \/ StopServer
    \/ \E s \in Subscribers :
          \/ Subscribe(s)
          \/ SendCurrentStatus(s)
          \/ ForwardDiff(s)
          \/ WorkerStops(s)
          \/ CloseSink(s)

Spec == Init /\ [][Next]_vars

\* The intake loop and every worker thread keep running; clients and the
\* updater act when they like, and a Redis failure may or may not happen.
Fairness ==
    /\ WF_vars(ReceiveBestBlock)
    /\ WF_vars(BroadcastDiff)
    /\ WF_vars(StoreStatus)
    /\ WF_vars(BroadcastError)
    /\ WF_vars(StopServer)
    /\ \A s \in Subscribers :
          WF_vars(SendCurrentStatus(s) \/ ForwardDiff(s) \/ WorkerStops(s))

FairSpec == Spec /\ Fairness

-----------------------------------------------------------------------------
(* Properties.                                                            *)

TypeOK ==
    /\ redisStatus \in Status
    /\ channel \in Seq(1..MaxBest)
    /\ current \in Status
    /\ intake \in [pc: {"idle", "read", "stored", "error", "stopping", "stopped"},
                   new: Status]
    /\ sub \in [Subscribers -> SubStates]
    /\ \A s \in Subscribers :
          /\ Len(queue[s]) <= BusCapacity
          /\ \A i \in DOMAIN queue[s] : queue[s][i].kind \in {"NewBlock", "Error"}
    /\ sinkOpen \in [Subscribers -> BOOLEAN]

\* Spec 6 and 8.7: a client gets the full status first and then diffs, so
\* once it has received anything, and has read every diff while the intake
\* loop is between blocks, it knows every field and its view is the
\* server's current status.
ClientViewConsistent ==
    \A s \in Subscribers :
        /\ sub[s] = "live"
        /\ sinkOpen[s]
        /\ queue[s] = <<>>
        /\ intake.pc = "idle"
        /\ DOMAIN view[s] # {}
        => view[s] = current

\* The bounded bus never stalls the intake loop for good: a read status is
\* always broadcast and stored, since every receiver is drained by a
\* worker, or dropped when its client has gone.
IntakeNeverStalls == intake.pc = "read" ~> intake.pc = "idle"

\* After a Redis failure the server shuts down: the Error broadcast gets
\* through the bounded bus, the server stops, and every worker whose
\* receiver was registered when Error went out returns.
ErrorShutsDown ==
    intake.pc = "error" ~>
        (intake.pc = "stopped" /\ \A s \in atError : sub[s] = "gone")

\* Once the server has stopped, no worker thread is left running.  A
\* client that subscribes after the Error broadcast, before the stop, gets
\* a receiver that never sees Error; after the bus is dropped its recv()
\* fails for ever and its loop spins.
AllWorkersEnd ==
    intake.pc = "stopped" ~> \A s \in Subscribers : sub[s] # "live"

=============================================================================
