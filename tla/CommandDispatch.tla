--------------------------- MODULE CommandDispatch ---------------------------
(***************************************************************************)
(* The command path of the server: the connection registry and the table   *)
(* of awaited acknowledgements (websocket/manager.py), the coroutine that  *)
(* serves each node's websocket (websocket/endpoint.py, handlers.py) and   *)
(* the dispatch of PLAY and STOP commands (services/playback_service.py).  *)
(*                                                                         *)
(* All of it runs on one event loop: a coroutine runs from one await that  *)
(* really suspends to the next.  A dispatch in phase "loop" or "collect"   *)
(* is running, every other coroutine is suspended; the node rows are also  *)
(* written by worker threads (Provision), and a peer may vanish whenever   *)
(* it likes.                                                               *)
(***************************************************************************)
EXTENDS Naturals, FiniteSets

CONSTANTS
    Nodes,      \* node ids
    Sockets,    \* slots for accepted websocket connections, reused
    Requests,   \* command ids (uuid4 in the code), each used once
    Answers,    \* the message types the nodes answer with
    None        \* Python's None

AckTypes == {"PLAYBACK_STARTED", "PLAYBACK_STOPPED", "PLAYBACK_ERROR",
             "ERROR", "STATUS_UPDATE"}

ASSUME DispatchAssumption ==
    /\ Answers \subseteq AckTypes
    /\ None \notin Nodes \cup Sockets

VARIABLES
    row,      \* the node row: absent, or its enabled flag
    pc,       \* where the handler of a socket is
    owner,    \* its authenticated_node_id
    peer,     \* the remote end of a socket: "none" (slot free), "open", "gone"
    shut,     \* the server has sent its close frame (application_state)
    conn,     \* ConnectionManager._connections
    pending,  \* the keys of ConnectionManager._pending
    future,   \* the futures a dispatch or the table still holds
    phase,    \* where a dispatch is
    kind,     \* "play" or "stop"
    result,   \* its results, and how far it is with a node that has none yet
    cur,      \* the node whose send or acknowledgement it awaits
    via,      \* the websocket object its suspended send_json captured
    reached,  \* history: the commands that reached the node
    first     \* history: the first answer to a command still without a result

handlerVars == <<pc, owner, peer, shut, conn>>
ackVars == <<pending, future>>
dispatchVars == <<phase, kind, result, cur, via>>
vars == <<row, pc, owner, peer, shut, conn, pending, future, phase, kind,
          result, cur, via, reached, first>>

Keys == Nodes \X Requests
Rows == {"absent", "enabled", "disabled"}
Final == {"missing", "disabled", "offline", "started", "stopped", "error",
          "acknowledged", "timeout"}

TypeOK ==
    /\ row \in [Nodes -> Rows]
    /\ pc \in [Sockets -> {"idle", "hello", "replacing", "greeting", "serving",
                           "rejecting", "closing"}]
    /\ owner \in [Sockets -> Nodes \cup {None}]
    /\ peer \in [Sockets -> {"none", "open", "gone"}]
    /\ shut \in [Sockets -> BOOLEAN]
    /\ conn \in [Nodes -> Sockets \cup {None}]
    /\ pending \subseteq Keys
    /\ future \in [Keys -> {"none", "waiting", "cancelled"} \cup AckTypes]
    /\ phase \in [Requests -> {"idle", "loop", "sending", "collect", "waiting",
                               "returned", "failed"}]
    /\ kind \in [Requests -> {"play", "stop"}]
    /\ result \in [Keys -> {"none", "todo", "sending", "sent"} \cup Final]
    /\ cur \in [Requests -> Nodes \cup {None}]
    /\ via \in [Requests -> Sockets \cup {None}]
    /\ reached \subseteq Keys
    /\ first \in [Keys -> {"nothing"} \cup AckTypes]

Init ==
    /\ row \in [Nodes -> Rows]
    /\ pc = [s \in Sockets |-> "idle"]
    /\ owner = [s \in Sockets |-> None]
    /\ peer = [s \in Sockets |-> "none"]
    /\ shut = [s \in Sockets |-> FALSE]
    /\ conn = [n \in Nodes |-> None]
    /\ pending = {}
    /\ future = [k \in Keys |-> "none"]
    /\ phase = [r \in Requests |-> "idle"]
    /\ kind = [r \in Requests |-> "play"]
    /\ result = [k \in Keys |-> "none"]
    /\ cur = [r \in Requests |-> None]
    /\ via = [r \in Requests |-> None]
    /\ reached = {}
    /\ first = [k \in Keys |-> "nothing"]

-----------------------------------------------------------------------------
(* The event loop and the connection manager.                              *)

\* No dispatch is between two awaits: another coroutine may take the loop.
LoopFree == \A r \in Requests : phase[r] \notin {"loop", "collect"}

\* Mutants of Disconnect: the socket is not popped; the futures are left alone.
MutDisconnectKeepsSocket(n) ==
    /\ conn' = conn
    /\ pending' = {k \in pending : k[1] # n}
    /\ future' = [k \in Keys |-> IF k \in pending /\ k[1] = n
                                 THEN "cancelled" ELSE future[k]]
MutDisconnectKeepsAcks(n) ==
    /\ conn' = [conn EXCEPT ![n] = None]
    /\ UNCHANGED ackVars

\* ConnectionManager.disconnect: forget whatever socket is registered for
\* the node and cancel everything awaited from it.
Disconnect(n) ==
    /\ conn' = [conn EXCEPT ![n] = None]
    /\ pending' = {k \in pending : k[1] # n}
    /\ future' = [k \in Keys |-> IF k \in pending /\ k[1] = n
                                 THEN "cancelled" ELSE future[k]]

\* cancel_ack, by the dispatch itself, which then drops its future.
CancelAck(n, r) ==
    /\ pending' = pending \ {<<n, r>>}
    /\ future' = [future EXCEPT ![<<n, r>>] = "none"]

\* The coroutine of a socket has ended; the slot can serve another connection.
FreeSlot(s) ==
    /\ pc' = [pc EXCEPT ![s] = "idle"]
    /\ owner' = [owner EXCEPT ![s] = None]
    /\ peer' = [peer EXCEPT ![s] = "none"]
    /\ shut' = [shut EXCEPT ![s] = FALSE]

-----------------------------------------------------------------------------
(* One websocket: node_websocket and handle_incoming_message.              *)

\* A device connects and the endpoint accepts.  A slot a suspended send still
\* refers to is not reused: the captured websocket is the old connection.
Open(s) ==
    /\ LoopFree
    /\ pc[s] = "idle"
    /\ \A r \in Requests : via[r] # s
    /\ pc' = [pc EXCEPT ![s] = "hello"]
    /\ peer' = [peer EXCEPT ![s] = "open"]
    /\ UNCHANGED <<row, owner, shut, conn, ackVars, dispatchVars, reached, first>>

\* A valid HELLO: authenticate, register, and close the socket it replaces.
AcceptHello(s, n) ==
    /\ LoopFree
    /\ pc[s] = "hello"
    /\ row[n] # "absent"
    /\ conn[n] # None => ~shut[conn[n]]
    /\ owner' = [owner EXCEPT ![s] = n]
    /\ conn' = [conn EXCEPT ![n] = s]
    /\ pc' = [pc EXCEPT ![s] = IF conn[n] = None THEN "greeting" ELSE "replacing"]
    /\ shut' = [x \in Sockets |-> shut[x] \/ x = conn[n]]
    /\ UNCHANGED <<row, peer, ackVars, dispatchVars, reached, first>>

\* The socket to replace has already sent its close frame, so close() raises
\* and the new handler goes straight to its finally block.
HelloMeetsClosed(s, n) ==
    /\ LoopFree
    /\ pc[s] = "hello"
    /\ row[n] # "absent"
    /\ conn[n] # None
    /\ shut[conn[n]]
    /\ Disconnect(n)
    /\ FreeSlot(s)
    /\ UNCHANGED <<row, dispatchVars, reached, first>>

\* A HELLO with a bad token or version, or another message in its place.
RejectHello(s) ==
    /\ LoopFree
    /\ pc[s] = "hello"
    /\ pc' = [pc EXCEPT ![s] = "rejecting"]
    /\ UNCHANGED <<row, owner, peer, shut, conn, ackVars, dispatchVars, reached, first>>

\* existing.close() has returned: REGISTER_ACK is next.
Replaced(s) ==
    /\ LoopFree
    /\ pc[s] = "replacing"
    /\ ~shut[s]
    /\ pc' = [pc EXCEPT ![s] = "greeting"]
    /\ UNCHANGED <<row, owner, peer, shut, conn, ackVars, dispatchVars, reached, first>>

\* REGISTER_ACK, and SYNC_REQUIRED when there are spots, have been sent.
Greeted(s) ==
    /\ LoopFree
    /\ pc[s] = "greeting"
    /\ ~shut[s]
    /\ pc' = [pc EXCEPT ![s] = "serving"]
    /\ UNCHANGED <<row, owner, peer, shut, conn, ackVars, dispatchVars, reached, first>>

\* Mutants of ResolveAck: the entry is not popped; any answer settles.
MutResolveKeepsEntry(n, r, t) ==
    /\ pending' = pending
    /\ future' = IF <<n, r>> \in pending
                 THEN [future EXCEPT ![<<n, r>>] = t] ELSE future
MutResolveOverwrites(n, r, t) ==
    /\ pending' = pending \ {<<n, r>>}
    /\ future' = IF result[<<n, r>>] = "sent" THEN [future EXCEPT ![<<n, r>>] = t] ELSE future

\* resolve_ack: the first answer to an awaited command settles its future.
ResolveAck(n, r, t) ==
    /\ pending' = pending \ {<<n, r>>}
    /\ future' = IF <<n, r>> \in pending
                 THEN [future EXCEPT ![<<n, r>>] = t] ELSE future

\* The history of what the server was told while the command had no result.
Note(n, r, t) ==
    first' = IF first[<<n, r>>] = "nothing" /\ result[<<n, r>>] \in {"sending", "sent"}
             THEN [first EXCEPT ![<<n, r>>] = t] ELSE first

\* The node answers a command that reached it, over any of its sockets.
Receive(s, n, r, t) ==
    /\ LoopFree
    /\ pc[s] = "serving"
    /\ owner[s] = n
    /\ ~shut[s]
    /\ <<n, r>> \in reached
    /\ ResolveAck(n, r, t)
    /\ Note(n, r, t)
    /\ UNCHANGED <<row, handlerVars, dispatchVars, reached>>

\* The answer was already buffered when the server closed the socket: it is
\* handled, and the next receive_json raises.
ReceiveLast(s, n, r, t) ==
    /\ LoopFree
    /\ pc[s] = "serving"
    /\ owner[s] = n
    /\ shut[s]
    /\ <<n, r>> \in reached
    /\ conn' = [conn EXCEPT ![n] = None]
    /\ pending' = {k \in pending : k[1] # n}
    /\ future' = [k \in Keys |->
                    IF k \notin pending \/ k[1] # n THEN future[k]
                    ELSE IF k = <<n, r>> THEN t ELSE "cancelled"]
    /\ Note(n, r, t)
    /\ FreeSlot(s)
    /\ UNCHANGED <<row, dispatchVars, reached>>

\* A message for another node id, of the wrong version or of a type the
\* handler does not take: the exception sends the handler to its error path.
BadMessage(s) ==
    /\ LoopFree
    /\ pc[s] = "serving"
    /\ ~shut[s]
    /\ pc' = [pc EXCEPT ![s] = "rejecting"]
    /\ UNCHANGED <<row, owner, peer, shut, conn, ackVars, dispatchVars, reached, first>>

\* ERROR has been sent; the handler closes the socket and awaits that.
ErrorSent(s) ==
    /\ LoopFree
    /\ pc[s] = "rejecting"
    /\ ~shut[s]
    /\ pc' = [pc EXCEPT ![s] = "closing"]
    /\ shut' = [shut EXCEPT ![s] = TRUE]
    /\ UNCHANGED <<row, owner, peer, conn, ackVars, dispatchVars, reached, first>>

\* Mutant of Ending: receive_json does not report that the peer is gone.
MutEndingIgnoresPeer(s) ==
    \/ pc[s] \in {"replacing", "closing"}
    \/ pc[s] \in {"hello", "greeting", "serving", "rejecting"} /\ shut[s]

\* What ends a handler: its peer is gone or its socket was closed under it,
\* its own close() returned, or the close() of the socket it replaces raised.
Ending(s) ==
    \/ pc[s] \in {"replacing", "closing"}
    \/ /\ pc[s] \in {"hello", "greeting", "serving", "rejecting"}
       /\ peer[s] = "gone" \/ shut[s]

\* The finally block.
Leave(s) ==
    /\ LoopFree
    /\ Ending(s)
    /\ FreeSlot(s)
    /\ IF owner[s] = None THEN UNCHANGED <<conn, ackVars>> ELSE Disconnect(owner[s])
    /\ UNCHANGED <<row, dispatchVars, reached, first>>

\* The device, or the network in between, drops the connection.
PeerGone(s) ==
    /\ peer[s] = "open"
    /\ peer' = [peer EXCEPT ![s] = "gone"]
    /\ UNCHANGED <<row, pc, owner, shut, conn, ackVars, dispatchVars, reached, first>>

-----------------------------------------------------------------------------
(* The node rows.                                                          *)

\* provision_node, a worker thread: it need not wait for the loop.
Provision(n, e) ==
    /\ e # "absent"
    /\ row' = [row EXCEPT ![n] = e]
    /\ UNCHANGED <<handlerVars, ackVars, dispatchVars, reached, first>>

\* update_enabled, a coroutine.
SetEnabled(n, e) ==
    /\ LoopFree
    /\ e # "absent"
    /\ row[n] # "absent"
    /\ row' = [row EXCEPT ![n] = e]
    /\ UNCHANGED <<handlerVars, ackVars, dispatchVars, reached, first>>

-----------------------------------------------------------------------------
(* One dispatch: dispatch_play and dispatch_stop.                          *)

\* The results that need no command: rows are read once, before the loop, and
\* only dispatch_play looks at the enabled flag.
Unsent(k, n) ==
    CASE row[n] = "absent" -> "missing"
      [] row[n] = "disabled" /\ k = "play" -> "disabled"
      [] OTHER -> "todo"

\* A request for the nodes in T (already without duplicates) is accepted.
StartDispatch(r, k, T) ==
    /\ LoopFree
    /\ phase[r] = "idle"
    /\ phase' = [phase EXCEPT ![r] = "loop"]
    /\ kind' = [kind EXCEPT ![r] = k]
    /\ result' = [x \in Keys |-> IF x[2] = r /\ x[1] \in T
                                 THEN Unsent(k, x[1]) ELSE result[x]]
    /\ UNCHANGED <<row, handlerVars, ackVars, cur, via, reached, first>>

\* is_connected is false.
NotConnected(r, n) ==
    /\ phase[r] = "loop"
    /\ result[<<n, r>>] = "todo"
    /\ conn[n] = None
    /\ result' = [result EXCEPT ![<<n, r>>] = "offline"]
    /\ UNCHANGED <<row, handlerVars, ackVars, phase, kind, cur, via, reached, first>>

\* The registered socket has sent its close frame: send_json raises at once,
\* and the future just created is cancelled and dropped.
SendRefused(r, n) ==
    /\ phase[r] = "loop"
    /\ result[<<n, r>>] = "todo"
    /\ conn[n] # None
    /\ shut[conn[n]]
    /\ result' = [result EXCEPT ![<<n, r>>] = "offline"]
    /\ UNCHANGED <<row, handlerVars, ackVars, phase, kind, cur, via, reached, first>>

\* create_ack_future, then send_json writes the frame and suspends.
BeginSend(r, n) ==
    /\ phase[r] = "loop"
    /\ result[<<n, r>>] = "todo"
    /\ conn[n] # None
    /\ ~shut[conn[n]]
    /\ pending' = pending \cup {<<n, r>>}
    /\ future' = [future EXCEPT ![<<n, r>>] = "waiting"]
    /\ reached' = IF peer[conn[n]] = "open" THEN reached \cup {<<n, r>>} ELSE reached
    /\ phase' = [phase EXCEPT ![r] = "sending"]
    /\ result' = [result EXCEPT ![<<n, r>>] = "sending"]
    /\ cur' = [cur EXCEPT ![r] = n]
    /\ via' = [via EXCEPT ![r] = conn[n]]
    /\ UNCHANGED <<row, handlerVars, kind, first>>

\* send_json has returned.
SendOk(r) ==
    /\ LoopFree
    /\ phase[r] = "sending"
    /\ phase' = [phase EXCEPT ![r] = "loop"]
    /\ result' = [result EXCEPT ![<<cur[r], r>>] = "sent"]
    /\ cur' = [cur EXCEPT ![r] = None]
    /\ via' = [via EXCEPT ![r] = None]
    /\ UNCHANGED <<row, handlerVars, ackVars, kind, reached, first>>

\* send_json has raised: the connection broke while the frame was draining.
SendFails(r) ==
    /\ LoopFree
    /\ phase[r] = "sending"
    /\ peer[via[r]] # "open" \/ shut[via[r]]
    /\ CancelAck(cur[r], r)
    /\ phase' = [phase EXCEPT ![r] = "loop"]
    /\ result' = [result EXCEPT ![<<cur[r], r>>] = "offline"]
    /\ cur' = [cur EXCEPT ![r] = None]
    /\ via' = [via EXCEPT ![r] = None]
    /\ UNCHANGED <<row, handlerVars, kind, reached, first>>

Left(r, v) == {n \in Nodes : result[<<n, r>>] = v}

\* The loop is over and db.commit() succeeds.
Commit(r) ==
    /\ phase[r] = "loop"
    /\ Left(r, "todo") = {}
    /\ phase' = [phase EXCEPT ![r] = "collect"]
    /\ UNCHANGED <<row, handlerVars, ackVars, kind, result, cur, via, reached, first>>

\* db.commit() raises (a locked database): the caller gets a 500, the futures
\* stay in the table, and nobody awaits them.
CommitFails(r) ==
    /\ phase[r] = "loop"
    /\ Left(r, "todo") = {}
    /\ phase' = [phase EXCEPT ![r] = "failed"]
    /\ UNCHANGED <<row, handlerVars, ackVars, kind, result, cur, via, reached, first>>

\* Mutant of Reading: the message type is passed on as the status.
MutReadingRaw(k, f) == IF f = "cancelled" THEN "timeout" ELSE f

\* _play_result_from_ack, and its counterpart in _collect_stop_results.
Reading(k, f) ==
    CASE f = "cancelled" -> "timeout"
      [] k = "play" /\ f = "PLAYBACK_STARTED" -> "started"
      [] k = "stop" /\ f = "PLAYBACK_STOPPED" -> "stopped"
      [] f = "ERROR" \/ (k = "play" /\ f = "PLAYBACK_ERROR") -> "error"
      [] OTHER -> "acknowledged"

\* wait_for finds the future done and does not suspend.
CollectReady(r, n) ==
    /\ phase[r] = "collect"
    /\ result[<<n, r>>] = "sent"
    /\ future[<<n, r>>] # "waiting"
    /\ result' = [result EXCEPT ![<<n, r>>] = Reading(kind[r], future[<<n, r>>])]
    /\ future' = [future EXCEPT ![<<n, r>>] = "none"]
    /\ UNCHANGED <<row, handlerVars, pending, phase, kind, cur, via, reached, first>>

\* wait_for suspends on an acknowledgement that is not there yet.
BeginWait(r, n) ==
    /\ phase[r] = "collect"
    /\ result[<<n, r>>] = "sent"
    /\ future[<<n, r>>] = "waiting"
    /\ phase' = [phase EXCEPT ![r] = "waiting"]
    /\ cur' = [cur EXCEPT ![r] = n]
    /\ UNCHANGED <<row, handlerVars, ackVars, kind, result, via, reached, first>>

\* The future is done: wait_for returns, or raises CancelledError.
Woken(r) ==
    /\ LoopFree
    /\ phase[r] = "waiting"
    /\ future[<<cur[r], r>>] # "waiting"
    /\ phase' = [phase EXCEPT ![r] = "collect"]
    /\ result' = [result EXCEPT ![<<cur[r], r>>] = Reading(kind[r], future[<<cur[r], r>>])]
    /\ future' = [future EXCEPT ![<<cur[r], r>>] = "none"]
    /\ cur' = [cur EXCEPT ![r] = None]
    /\ UNCHANGED <<row, handlerVars, pending, kind, via, reached, first>>

\* Mutant of Timeout: the future is awaited without a timer.
MutNoTimeout(r) == FALSE /\ UNCHANGED vars

\* The timer fires; it may do so after the answer and before the wake-up.
Timeout(r) ==
    /\ LoopFree
    /\ phase[r] = "waiting"
    /\ CancelAck(cur[r], r)
    /\ phase' = [phase EXCEPT ![r] = "collect"]
    /\ result' = [result EXCEPT ![<<cur[r], r>>] = "timeout"]
    /\ cur' = [cur EXCEPT ![r] = None]
    /\ UNCHANGED <<row, handlerVars, kind, via, reached, first>>

\* Mutant of Return: only the first acknowledgement is awaited.
MutReturnEarly(r) ==
    /\ phase[r] = "collect"
    /\ phase' = [phase EXCEPT ![r] = "returned"]
    /\ UNCHANGED <<row, handlerVars, ackVars, kind, result, cur, via, reached, first>>

\* The response carries a result for every target.
Return(r) ==
    /\ phase[r] = "collect"
    /\ Left(r, "sent") = {}
    /\ phase' = [phase EXCEPT ![r] = "returned"]
    /\ UNCHANGED <<row, handlerVars, ackVars, kind, result, cur, via, reached, first>>

-----------------------------------------------------------------------------
HandlerStep(s) ==
    \/ Replaced(s) \/ Greeted(s) \/ ErrorSent(s) \/ Leave(s)

NodeStep ==
    \/ \E s \in Sockets : Open(s) \/ RejectHello(s) \/ BadMessage(s) \/ PeerGone(s)
    \/ \E s \in Sockets, n \in Nodes : AcceptHello(s, n) \/ HelloMeetsClosed(s, n)
    \/ \E s \in Sockets, n \in Nodes, r \in Requests, t \in Answers :
          Receive(s, n, r, t) \/ ReceiveLast(s, n, r, t)

AdminStep ==
    \/ \E n \in Nodes, e \in Rows : Provision(n, e) \/ SetEnabled(n, e)
    \/ \E r \in Requests, k \in {"play", "stop"}, T \in SUBSET Nodes :
          StartDispatch(r, k, T)

DispatchStep(r) ==
    \/ \E n \in Nodes : NotConnected(r, n) \/ SendRefused(r, n) \/ BeginSend(r, n)
    \/ \E n \in Nodes : CollectReady(r, n) \/ BeginWait(r, n)
    \/ SendOk(r) \/ SendFails(r) \/ Commit(r) \/ CommitFails(r)
    \/ Woken(r) \/ Timeout(r) \/ Return(r)

Next ==
    \/ \E s \in Sockets : HandlerStep(s)
    \/ NodeStep
    \/ AdminStep
    \/ \E r \in Requests : DispatchStep(r)

Spec == Init /\ [][Next]_vars

\* The event loop starves no ready coroutine; every wait_for has a timeout and
\* a send ends because keepalive pings break a connection that does not drain.
Fairness ==
    /\ \A s \in Sockets : WF_vars(HandlerStep(s))
    /\ \A r \in Requests : WF_vars(DispatchStep(r))

FairSpec == Spec /\ Fairness

-----------------------------------------------------------------------------
(* Properties.                                                             *)

\* A registered socket belongs to a handler that is still running and was
\* authenticated as that node: the finally block leaves no stale entry a
\* command could be sent to (manager.py:22-38, endpoint.py:102-106).
RegistryLive ==
    \A n \in Nodes : conn[n] # None =>
        /\ owner[conn[n]] = n
        /\ pc[conn[n]] # "idle"

\* An acknowledgement is awaited only from a node that has a registered
\* connection, whatever was closed, replaced or lost while the command was
\* under way: disconnect cancels all others (manager.py:29-38).
PendingConnected ==
    \A k \in pending : conn[k[1]] # None

\* The table holds exactly the futures nobody has settled, each for a command
\* that was sent: no dispatch waits for a future that no message can settle
\* any more, and no entry outlives its command's result (manager.py:53-77).
PendingExact ==
    /\ pending = {k \in Keys : future[k] = "waiting"}
    /\ \A k \in pending : result[k] \in {"sending", "sent"}

\* What the caller is told a node answered is the first answer the node gave
\* to this very command (playback_service.py:261-350).
TruthfulResult ==
    \A n \in Nodes, r \in Requests :
        result[<<n, r>>] \in {"started", "stopped", "error", "acknowledged"} =>
            /\ first[<<n, r>>] # "nothing"
            /\ result[<<n, r>>] = Reading(kind[r], first[<<n, r>>])

\* A handler knows no node before HELLO.
AnonymousBeforeHello ==
    \A s \in Sockets : pc[s] \in {"idle", "hello"} => owner[s] = None

\* A suspended dispatch awaits one node, in the state that node's result says,
\* and once the loop is over no node is left to send to.
SuspendedOn ==
    \A r \in Requests :
        /\ phase[r] = "sending" => /\ cur[r] \in Nodes
                                  /\ result[<<cur[r], r>>] = "sending"
        /\ phase[r] = "waiting" => /\ cur[r] \in Nodes
                                  /\ result[<<cur[r], r>>] = "sent"
        /\ phase[r] = "idle" => \A n \in Nodes : result[<<n, r>>] = "none"
        /\ \A n \in Nodes :
             /\ result[<<n, r>>] = "sending" => phase[r] = "sending" /\ cur[r] = n
             /\ phase[r] \in {"collect", "waiting"} => result[<<n, r>>] # "todo"

\* A future lives exactly as long as its command is under way, and holds the
\* first answer to it or none.
FutureHistory ==
    \A k \in Keys :
        /\ future[k] # "none" <=> result[k] \in {"sending", "sent"}
        /\ future[k] = "waiting" => first[k] = "nothing"
        /\ future[k] \in AckTypes => first[k] = future[k]
        /\ result[k] \in {"none", "todo"} => first[k] = "nothing"

\* The inductive invariant: between any two awaits, the registry, the table of
\* awaited acknowledgements, the handlers and the dispatches agree with each
\* other (manager.py:22-77, endpoint.py:39-106, playback_service.py:92-350).
Inv ==
    /\ RegistryLive
    /\ PendingConnected
    /\ PendingExact
    /\ TruthfulResult
    /\ AnonymousBeforeHello
    /\ SuspendedOn
    /\ FutureHistory

\* The refinement mapping to what a request promises its caller.
Stage(p) ==
    CASE p = "idle" -> "idle"
      [] p = "returned" -> "answered"
      [] p = "failed" -> "failed"
      [] OTHER -> "open"

Verdict(v) == IF v \in {"todo", "sending", "sent"} THEN "undecided" ELSE v

Promise == INSTANCE CommandPromise WITH
    stage <- [r \in Requests |-> Stage(phase[r])],
    verdict <- [k \in Keys |-> Verdict(result[k])],
    heard <- first

\* The registry, the futures and the timers keep that promise: one verdict per
\* target, never revised, and never speaking for a node beyond its first
\* answer (playback_service.py:71-350 over manager.py:43-77).
KeepsPromise == Promise!Spec

\* Every command ends: its caller gets a response or a server error, however
\* nodes, connections and other commands behave (playback_service.py:71-256).
CommandEnds ==
    \A r \in Requests :
        phase[r] = "loop" ~> phase[r] \in {"returned", "failed"}

\* A node whose device has vanished does not stay registered on the dead
\* connection (endpoint.py:80-106).
GoneIsForgotten ==
    \A n \in Nodes, s \in Sockets :
        conn[n] = s /\ peer[s] = "gone" ~> conn[n] # s

\* System remains stable across normal reconnects (PRD): a handler that serves
\* a node on a connection nobody has closed is the one commands are sent to.
ReconnectKeepsRegistration ==
    \A s \in Sockets :
        pc[s] = "serving" /\ peer[s] = "open" /\ ~shut[s] => conn[owner[s]] = s
=============================================================================
