----------------------------- MODULE NodeControl -----------------------------
(***************************************************************************)
(* What a node is told, and when: the row of the node with its two flags   *)
(* (enabled, autoplay_selected), the catalogue of active spots, and the    *)
(* frames nobody acknowledges: REGISTER_ACK and SYNC_REQUIRED after HELLO  *)
(* (websocket/endpoint.py), SET_ENABLED and CONFIG_UPDATE after an admin's *)
(* change (api/routes/nodes.py), SYNC_REQUIRED on request                  *)
(* (services/playback_service.py).  The node believes what it was told     *)
(* last.  One node is enough: frames of two nodes share nothing.           *)
(*                                                                         *)
(* Handlers and routes are coroutines.  A frame is on the wire when its    *)
(* send is called, so frames arrive in the order of the calls; a handler   *)
(* is suspended where it awaits the close of the socket it replaces        *)
(* ("replacing") and where it awaits the send of REGISTER_ACK              *)
(* ("greeting").  Provisioning and the catalogue run in worker threads.    *)
(***************************************************************************)
EXTENDS Integers, Sequences

CONSTANTS
    Sockets,        \* connections of the node; a slot is used again
    Flags,          \* enabled, autoplay_selected
    EmptyVersions,  \* the versions of the catalogue that have no active spot
    MaxChanges,     \* bound: changes of the catalogue
    MaxWire,        \* bound: no admin sends to a socket with as many frames unread
    None

ASSUME NodeControlAssumption ==
    /\ MaxChanges \in Nat
    /\ EmptyVersions \subseteq Nat
    /\ MaxWire \in Nat
    /\ None \notin Sockets \cup BOOLEAN \cup Nat

VARIABLES
    row,        \* the flags in the database
    catalog,    \* the version of the catalogue
    conn,       \* _connections[node]: the registered socket, or None
    pc,         \* where the handler of each socket is
    line,       \* whether the connection of a handler still carries frames
    read,       \* the flags HELLO has read, while REGISTER_ACK waits
    since,      \* the catalogue version HELLO has computed sync_required from
    wire,       \* the frames sent and not yet read, oldest first
    belief,     \* the flags the node goes by on each connection
    held,       \* the catalogue version it was told to fetch, None before
    missed      \* history: flags changed while the connection could not be told

vars == <<row, catalog, conn, pc, line, read, since, wire, belief, held, missed>>
data == <<row, catalog>>
local == <<read, since>>
node == <<belief, held>>

Settings == [Flags -> BOOLEAN]

ASSUME NoSettingsAssumption == None \notin Settings

Versions == 0 .. MaxChanges
Empty(v) == v \in EmptyVersions

\* "says" are the flags a frame speaks of, "version" the catalogue it lists.
Unsaid == [f \in Flags |-> None]
Frame == [says : [Flags -> BOOLEAN \cup {None}], version : Versions \cup {None}]

TypeOK ==
    /\ row \in Settings
    /\ catalog \in Versions
    /\ conn \in Sockets \cup {None}
    /\ pc \in [Sockets -> {"idle", "replacing", "greeting", "serving"}]
    /\ line \in [Sockets -> {"open", "cut"}]
    /\ read \in [Sockets -> Settings \cup {None}]
    /\ since \in [Sockets -> Versions \cup {None}]
    /\ wire \in [Sockets -> Seq(Frame)]
    /\ \A s \in Sockets : Len(wire[s]) <= MaxWire + 2
    /\ belief \in [Sockets -> [Flags -> BOOLEAN \cup {None}]]
    /\ held \in [Sockets -> Versions \cup {None}]
    /\ missed \subseteq Sockets \X Flags

Init ==
    /\ row \in Settings
    /\ catalog = 0
    /\ conn = None
    /\ pc = [s \in Sockets |-> "idle"]
    /\ line = [s \in Sockets |-> "open"]
    /\ read = [s \in Sockets |-> None]
    /\ since = [s \in Sockets |-> None]
    /\ wire = [s \in Sockets |-> <<>>]
    /\ belief = [s \in Sockets |-> Unsaid]
    /\ held = [s \in Sockets |-> None]
    /\ missed = {}

-----------------------------------------------------------------------------
(* Sending.                                                                *)

RegisterAck(flags) == [says |-> flags, version |-> None]
Update(f, v) == [says |-> [Unsaid EXCEPT ![f] = v], version |-> None]
SyncRequired(v) == [says |-> Unsaid, version |-> v]

\* websocket.send_json over a connection that still works.
Send(s, frame) == wire' = [wire EXCEPT ![s] = Append(@, frame)]

\* is_connected and send_to_node: the frame goes to the registered socket, and
\* a failed send is ignored.
SendToNode(frame) ==
    IF conn # None /\ line[conn] = "open"
    THEN Len(wire[conn]) < MaxWire /\ Send(conn, frame)
    ELSE UNCHANGED wire

Live(s) == pc[s] # "idle" /\ line[s] = "open"

\* What is left of connections that no longer carry frames.
Silence(S) ==
    /\ wire' = [s \in Sockets |-> IF s \in S THEN <<>> ELSE wire[s]]
    /\ belief' = [s \in Sockets |-> IF s \in S THEN Unsaid ELSE belief[s]]
    /\ held' = [s \in Sockets |-> IF s \in S THEN None ELSE held[s]]
    /\ missed' = {m \in missed : m[1] \notin S}

Drop(S) ==
    /\ read' = [s \in Sockets |-> IF s \in S THEN None ELSE read[s]]
    /\ since' = [s \in Sockets |-> IF s \in S THEN None ELSE since[s]]
    /\ Silence(S)

-----------------------------------------------------------------------------
(* One connection: node_websocket.                                         *)

\* HELLO: handle_hello has read the row and counted the active spots, and
\* connect registers the socket.  REGISTER_ACK goes out in the same breath.
Hello(s) ==
    /\ pc[s] = "idle"
    /\ conn = None
    /\ conn' = s
    /\ since' = [since EXCEPT ![s] = catalog]
    /\ Send(s, RegisterAck(row))
    /\ pc' = [pc EXCEPT ![s] = "greeting"]
    /\ UNCHANGED <<data, line, read, node, missed>>

\* HELLO while another socket is registered: connect replaces it, and waits
\* for its close.
HelloReplaces(s) ==
    /\ pc[s] = "idle"
    /\ conn # None
    /\ conn' = s
    /\ read' = [read EXCEPT ![s] = row, ![conn] = None]
    /\ since' = [since EXCEPT ![s] = catalog, ![conn] = None]
    /\ line' = [line EXCEPT ![conn] = "cut"]
    /\ Silence({conn})
    /\ pc' = [pc EXCEPT ![s] = "replacing"]
    /\ UNCHANGED data

\* The old socket is closed: REGISTER_ACK says what HELLO has read.
Ack(s) ==
    /\ pc[s] = "replacing" /\ line[s] = "open"
    /\ Send(s, RegisterAck(read[s]))
    /\ read' = [read EXCEPT ![s] = None]
    /\ pc' = [pc EXCEPT ![s] = "greeting"]
    /\ UNCHANGED <<data, conn, line, since, node, missed>>

\* Mutant of Greet: the catalogue is the one HELLO has seen.
MutGreetEarly(s) ==
    /\ pc[s] = "greeting" /\ line[s] = "open"
    /\ IF ~Empty(since[s])
       THEN Send(s, SyncRequired(since[s])) ELSE UNCHANGED wire
    /\ pc' = [pc EXCEPT ![s] = "serving"]
    /\ UNCHANGED <<data, conn, line, local, node, missed>>

\* Mutant of Greet: the catalogue was read once, when the server started.
MutGreetCached(s) ==
    /\ pc[s] = "greeting" /\ line[s] = "open"
    /\ IF ~Empty(since[s]) /\ ~Empty(catalog)
       THEN Send(s, SyncRequired(0)) ELSE UNCHANGED wire
    /\ pc' = [pc EXCEPT ![s] = "serving"]
    /\ UNCHANGED <<data, conn, line, local, node, missed>>

\* The catalogue is read now, and sent if it has spots, now and on HELLO.
Greet(s) ==
    /\ pc[s] = "greeting" /\ line[s] = "open"
    /\ IF ~Empty(since[s]) /\ ~Empty(catalog)
       THEN Send(s, SyncRequired(catalog)) ELSE UNCHANGED wire
    /\ pc' = [pc EXCEPT ![s] = "serving"]
    /\ UNCHANGED <<data, conn, line, local, node, missed>>

\* The node leaves, is cut off, or sends what the handler closes it for.
Cut(s) ==
    /\ Live(s)
    /\ line' = [line EXCEPT ![s] = "cut"]
    /\ Drop({s})
    /\ UNCHANGED <<data, conn, pc>>

\* The finally block, which unregisters whatever socket is registered; it is
\* reached too when the close of the socket to replace raises.
Leave(s) ==
    /\ \/ pc[s] = "replacing"
       \/ pc[s] # "idle" /\ line[s] = "cut"
    /\ pc' = [pc EXCEPT ![s] = "idle"]
    /\ line' = [line EXCEPT ![s] = "open"]
    /\ Drop({s})
    /\ conn' = None
    /\ UNCHANGED data

\* The node reads the next frame.
Read(s) ==
    /\ Live(s) /\ wire[s] # <<>>
    /\ LET frame == Head(wire[s])
       IN  /\ belief' = [belief EXCEPT ![s] =
                        [f \in Flags |-> IF frame.says[f] = None THEN @[f] ELSE frame.says[f]]]
           /\ held' = [held EXCEPT ![s] = IF frame.version = None THEN @ ELSE frame.version]
    /\ wire' = [wire EXCEPT ![s] = Tail(@)]
    /\ UNCHANGED <<data, conn, pc, line, local, missed>>

-----------------------------------------------------------------------------
(* The admins.                                                             *)

\* The connections on which no frame will say that f is v now: those that are
\* not registered, and the registered one if its REGISTER_ACK, from before, is
\* still to come.
Missing(f, v) ==
    {s \in Sockets : Live(s) /\ (conn = s =>
                        pc[s] = "replacing" /\ read[s][f] # v)}

Note(f, v) ==
    missed' = {m \in missed : m # <<conn, f>>} \cup (Missing(f, v) \X {f})

\* set_enabled and set_autoplay_selected
SetFlag(f, v) == row' = [row EXCEPT ![f] = v]

\* Mutant of ChangeFlag: the node is told only when it is enabled.
MutChangeQuietly(f, v) ==
    /\ SetFlag(f, v)
    /\ IF v THEN SendToNode(Update(f, v)) ELSE UNCHANGED wire
    /\ Note(f, v)
    /\ UNCHANGED <<catalog, conn, pc, line, local, node>>

\* update_enabled and update_autoplay: commit, then tell the node.
ChangeFlag(f, v) ==
    /\ SetFlag(f, v)
    /\ SendToNode(Update(f, v))
    /\ Note(f, v)
    /\ UNCHANGED <<catalog, conn, pc, line, local, node>>

\* The flags are set and nobody is told: POST /nodes/provision, the approval of
\* an enrollment, and a change whose refresh raises after its commit.
Provision(new) ==
    /\ row' = new
    /\ missed' = missed \cup {m \in Sockets \X Flags : Live(m[1]) /\ new[m[2]] # row[m[2]]}
    /\ UNCHANGED <<catalog, conn, pc, line, local, wire, node>>

\* An upload or an update of a spot: nobody is told.
ChangeCatalog ==
    /\ catalog < MaxChanges
    /\ catalog' = catalog + 1
    /\ UNCHANGED <<row, conn, pc, line, local, wire, node, missed>>

\* Mutant of RequestSync: versions are counted from one.
MutRequestNext ==
    /\ conn # None /\ line[conn] = "open"
    /\ SendToNode(SyncRequired(catalog + 1))
    /\ UNCHANGED <<data, conn, pc, line, local, node, missed>>

\* POST /nodes/{id}/sync of a connected node; otherwise 409, and no change.
RequestSync ==
    /\ conn # None /\ line[conn] = "open"
    /\ SendToNode(SyncRequired(catalog))
    /\ UNCHANGED <<data, conn, pc, line, local, node, missed>>

\* The process is killed and started again.
Crash ==
    /\ conn' = None
    /\ pc' = [s \in Sockets |-> "idle"]
    /\ line' = [s \in Sockets |-> "open"]
    /\ Drop(Sockets)
    /\ UNCHANGED data

Next ==
    \/ \E s \in Sockets : Hello(s) \/ HelloReplaces(s) \/ Ack(s) \/ Greet(s) \/ Cut(s) \/ Leave(s) \/ Read(s)
    \/ \E f \in Flags, v \in BOOLEAN : ChangeFlag(f, v)
    \/ \E new \in Settings : Provision(new)
    \/ ChangeCatalog \/ RequestSync \/ Crash

Spec == Init /\ [][Next]_vars

-----------------------------------------------------------------------------
(* Properties.                                                             *)

\* A node that goes by b will go by v for flag f once it has read the frames w.
Tells(w, b, f, v) ==
    \/ /\ b[f] = v
       /\ \A i \in DOMAIN w : w[i].says[f] = None
    \/ \E i \in DOMAIN w :
          /\ w[i].says[f] = v /\ v # None
          /\ \A j \in (i + 1) .. Len(w) : w[j].says[f] = None

\* A node that has registered is told the flags of its row, in the order they
\* had there, however changes, reconnects and crashes overlap.  Set apart are a
\* change made while its connection was not the registered one or had an older
\* REGISTER_ACK still to come, a change whose refresh raised, and provisioning:
\* there the node learns the flag with its next change or HELLO
\* (nodes.py:171-220, endpoint.py:34-53).
KnowsFlags ==
    \A s \in Sockets, f \in Flags :
        /\ pc[s] \in {"greeting", "serving"} /\ Live(s)
        /\ <<s, f>> \notin missed
        => Tells(wire[s], belief[s], f, row[f])

\* A node that was told to fetch version h, and has w to read, is told of v or
\* of a later version.
Lists(w, h, v) ==
    \/ h # None /\ h >= v
    \/ \E i \in DOMAIN w : w[i].version # None /\ w[i].version >= v

\* A node whose REGISTER_ACK says that a sync is required gets a list no older
\* than HELLO has seen, even if it is told of others before, unless there has
\* been no active spot since (endpoint.py:40-69).
SyncHonoured ==
    \A s \in Sockets :
        /\ pc[s] = "serving" /\ Live(s)
        /\ \A v \in since[s] .. catalog : ~Empty(v)
        => Lists(wire[s], held[s], since[s])

\* The versions a node is told of, from the one it has to the current one.
Ordered(w, h, now) ==
    /\ h # None => h <= now
    /\ \A i \in DOMAIN w : w[i].version # None =>
          /\ w[i].version <= now
          /\ h # None => h <= w[i].version
          /\ \A j \in 1 .. i : w[j].version # None => w[j].version <= w[i].version

\* A live connection has the version HELLO has seen; while it waits for the
\* close of the socket it replaces, it has the flags of the row, or has missed
\* a change.
Waiting ==
    \A s \in Sockets : Live(s) =>
        /\ since[s] # None /\ since[s] <= catalog
        /\ pc[s] = "replacing" =>
              /\ read[s] # None
              /\ \A f \in Flags : <<s, f>> \notin missed => read[s][f] = row[f]

\* Room is left for REGISTER_ACK and the list that follows.
WireHasRoom ==
    \A s \in Sockets : /\ pc[s] \in {"idle", "replacing"} => Len(wire[s]) <= MaxWire
                       /\ pc[s] = "greeting" => Len(wire[s]) <= MaxWire + 1

\* The inductive invariant.
Inv ==
    /\ WireHasRoom
    /\ Waiting
    /\ \A s \in Sockets : Ordered(wire[s], held[s], catalog)
    /\ KnowsFlags
    /\ SyncHonoured

\* The node's lists come in the order of the catalogue: the one that follows
\* HELLO never takes back the one an admin has asked for meanwhile
\* (endpoint.py:55-69, playback_service.py:42-56).
SyncsInOrder ==
    [][\A s \in Sockets :
         held[s] # None /\ held'[s] # None => held[s] <= held'[s]]_vars
=============================================================================
