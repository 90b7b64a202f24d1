------------------------------ MODULE NodeStatus ------------------------------
(***************************************************************************)
(* What the server believes about its nodes: the liveness columns of the   *)
(* nodes table (services/node_service.py).  Two writers share them.  The   *)
(* message handlers run on the event loop, one at a time; the liveness     *)
(* sweep runs in a worker thread of the scheduler.  Each reads the rows,   *)
(* and later commits the columns it has changed, and only those.           *)
(*                                                                         *)
(* Times are relative: "seen" and "beat" are the ages of last_seen_at and  *)
(* last_heartbeat_at, which stop counting at Cap.  A transaction takes no  *)
(* time, as a unit of the clock is several seconds.                        *)
(***************************************************************************)
EXTENDS Integers

CONSTANTS
    Nodes,
    Reports,        \* what nodes report: operational states with a spot or None
    StaleAfter,     \* heartbeat_stale_after_seconds, in clock units
    OfflineAfter,   \* heartbeat_offline_after_seconds
    Period,         \* heartbeat_sweep_interval_seconds
    AwareTimes,     \* whether the database returns times with their zone
    MaxSessions,    \* bound: sessions of a node whose endpoint still runs
    MaxOps,         \* bound: sessions opened and crashes
    None

ASSUME NodeStatusAssumption ==
    /\ StaleAfter \in Nat \ {0}
    /\ OfflineAfter \in Nat
    /\ StaleAfter < OfflineAfter
    /\ Period \in Nat \ {0}
    /\ AwareTimes \in BOOLEAN
    /\ MaxSessions \in Nat \ {0}
    /\ MaxOps \in Nat
    /\ None \notin Nat \cup Nodes

VARIABLES
    up,         \* the process runs
    row,        \* the committed row of each node
    sessions,   \* how many authenticated sessions each node has
    loop,       \* the handler's transaction on the event loop, or None
    sweep,      \* the sweep's transaction in its thread, or None
    timer,      \* time to the next sweep
    ops,        \* operations left
    raced       \* history: a transaction met a row that had changed under it

vars == <<up, row, sessions, loop, sweep, timer, ops, raced>>

Cap == OfflineAfter + Period
Ages == (0 .. Cap) \cup {None}

Row == [conn : {"online", "stale", "offline"},
        oper : {r.oper : r \in Reports} \cup {"idle", "ready", "playing", "stopped", "error"},
        spot : {r.spot : r \in Reports} \cup {None},
        seen : Ages,
        beat : Ages]

ASSUME NoSweepAssumption == None \notin [read : [Nodes -> Row], new : [Nodes -> Row]]

TypeOK ==
    /\ up \in BOOLEAN
    /\ row \in [Nodes -> Row]
    /\ sessions \in [Nodes -> 0 .. MaxSessions]
    /\ loop \in [node : Nodes, read : Row, new : Row] \cup {None}
    /\ sweep \in [read : [Nodes -> Row], new : [Nodes -> Row]] \cup {None}
    /\ timer \in 0 .. Period
    /\ ops \in 0 .. MaxOps
    /\ raced \in [Nodes -> BOOLEAN]

\* Provisioned nodes that have never connected.
Init ==
    /\ up = TRUE
    /\ row = [n \in Nodes |-> [conn |-> "offline", oper |-> "idle", spot |-> None,
                               seen |-> None, beat |-> None]]
    /\ sessions = [n \in Nodes |-> 0]
    /\ loop = None
    /\ sweep = None
    /\ timer = Period
    /\ ops = MaxOps
    /\ raced = [n \in Nodes |-> FALSE]

Spend == ops > 0 /\ ops' = ops - 1

\* The row after the commit of a transaction that read "read" and left "new".
Merge(r, read, new) ==
    [c \in DOMAIN r |-> IF new[c] # read[c] THEN new[c] ELSE r[c]]

\* Whether a row is the product of a race, after such a commit.
RacedBy(n, read, new) ==
    \/ new # read /\ row[n] # read
    \/ raced[n] /\ new.conn = read.conn

-----------------------------------------------------------------------------
(* The handlers on the event loop: what each makes of the row it reads.    *)

Handle(n, new) ==
    /\ up /\ loop = None
    /\ loop' = [node |-> n, read |-> row[n], new |-> new]
    /\ UNCHANGED <<up, row, sweep, timer, raced>>

\* handle_hello leaves the spot as it is.
Hello(n) ==
    /\ sessions[n] < MaxSessions
    /\ Spend
    /\ sessions' = [sessions EXCEPT ![n] = @ + 1]
    /\ up /\ loop = None
    /\ loop' = [node |-> n, read |-> row[n],
                new |-> [row[n] EXCEPT !.conn = "online", !.oper = "idle",
                                       !.seen = 0, !.beat = 0]]
    /\ UNCHANGED <<up, row, sweep, timer, raced>>

\* A message of a live session: every handler marks the node online and seen.
FromNode(n, new) ==
    /\ sessions[n] > 0
    /\ Handle(n, [new EXCEPT !.conn = "online", !.seen = 0])
    /\ UNCHANGED <<sessions, ops>>

Heartbeat(n, r) ==
    FromNode(n, [row[n] EXCEPT !.oper = r.oper, !.spot = r.spot, !.beat = 0])

StatusUpdate(n, r) ==
    FromNode(n, [row[n] EXCEPT !.oper = r.oper, !.spot = r.spot])

SyncResult(n, oper) ==
    FromNode(n, [row[n] EXCEPT !.oper = oper, !.beat = 0])

PlaybackStarted(n, s) ==
    FromNode(n, [row[n] EXCEPT !.oper = "playing", !.spot = s])

PlaybackFinished(n) ==
    FromNode(n, [row[n] EXCEPT !.oper = "ready", !.spot = None])

PlaybackStopped(n) ==
    FromNode(n, [row[n] EXCEPT !.oper = "stopped", !.spot = None])

PlaybackError(n) ==
    FromNode(n, [row[n] EXCEPT !.oper = "error"])

\* Mutant of MarkDisconnected: it runs again for a session that has ended.
MutDisconnectTwice(n) ==
    /\ sessions' = [sessions EXCEPT ![n] = @ - 1]
    /\ Handle(n, [row[n] EXCEPT !.conn = "offline", !.oper = "idle", !.spot = None])
    /\ UNCHANGED ops

\* A session ends: mark_disconnected, whatever other sessions the node has.
MarkDisconnected(n) ==
    /\ sessions[n] > 0
    /\ sessions' = [sessions EXCEPT ![n] = @ - 1]
    /\ Handle(n, [row[n] EXCEPT !.conn = "offline", !.oper = "idle", !.spot = None])
    /\ UNCHANGED ops

CommitHandler ==
    /\ loop # None
    /\ LET n == loop.node
       IN  /\ row' = [row EXCEPT ![n] = Merge(@, loop.read, loop.new)]
           /\ raced' = [raced EXCEPT ![n] = RacedBy(n, loop.read, loop.new)]
    /\ loop' = None
    /\ UNCHANGED <<up, sessions, sweep, timer, ops>>

-----------------------------------------------------------------------------
(* The liveness sweep.                                                     *)

\* The age the sweep judges by: of the last heartbeat if there was one.
Elapsed(r) == IF r.beat # None THEN r.beat ELSE r.seen

\* Mutants of Swept: late by one unit; the spot stays; silence is
\* never final; a node is stale before its next heartbeat is due.
MutSweptLate(r) ==
    IF Elapsed(r) # None /\ Elapsed(r) > StaleAfter /\ r.conn = "online"
    THEN [r EXCEPT !.conn = "stale"] ELSE r
MutSweptKeepsSpot(r) ==
    IF Elapsed(r) \in OfflineAfter .. Cap THEN [r EXCEPT !.conn = "offline"] ELSE r
MutSweptRevives(r) ==
    IF Elapsed(r) = None THEN r
    ELSE IF Elapsed(r) >= StaleAfter THEN [r EXCEPT !.conn = "stale"]
    ELSE [r EXCEPT !.conn = "online"]
MutSweptHasty(r) ==
    IF r.conn = "online" /\ r.beat # 0 THEN [r EXCEPT !.conn = "stale"] ELSE r

\* What the sweep makes of a row.
Swept(r) ==
    CASE Elapsed(r) = None -> r
      [] Elapsed(r) \in OfflineAfter .. Cap ->
            IF r.conn = "offline" THEN r
            ELSE [r EXCEPT !.conn = "offline", !.oper = "idle", !.spot = None]
      [] Elapsed(r) \in StaleAfter .. (OfflineAfter - 1) -> [r EXCEPT !.conn = "stale"]
      [] Elapsed(r) \in 0 .. (StaleAfter - 1) -> [r EXCEPT !.conn = "online"]

\* Times without a zone cannot be subtracted from now: the sweep raises.
SweepRaises == ~AwareTimes /\ \E n \in Nodes : Elapsed(row[n]) # None

SweepRead ==
    /\ up /\ sweep = None
    /\ timer = 0
    /\ timer' = Period
    /\ sweep' = IF SweepRaises THEN None
                ELSE [read |-> row, new |-> [n \in Nodes |-> Swept(row[n])]]
    /\ UNCHANGED <<up, row, sessions, loop, ops, raced>>

SweepCommit ==
    /\ sweep # None
    /\ row' = [n \in Nodes |-> Merge(row[n], sweep.read[n], sweep.new[n])]
    /\ raced' = [n \in Nodes |-> RacedBy(n, sweep.read[n], sweep.new[n])]
    /\ sweep' = None
    /\ UNCHANGED <<up, sessions, loop, timer, ops>>

-----------------------------------------------------------------------------
(* The process and time.                                                   *)

Crash ==
    /\ up /\ Spend
    /\ up' = FALSE
    /\ sessions' = [n \in Nodes |-> 0]
    /\ loop' = None
    /\ sweep' = None
    /\ UNCHANGED <<row, timer, raced>>

\* reset_runtime_state
RuntimeReset(r) == [r EXCEPT !.conn = "offline", !.oper = "idle", !.spot = None]

\* The lifespan resets every row before the server takes connections.
Restart ==
    /\ ~up
    /\ up' = TRUE
    /\ row' = [n \in Nodes |-> RuntimeReset(row[n])]
    /\ raced' = [n \in Nodes |-> FALSE]
    /\ timer' = Period
    /\ UNCHANGED <<sessions, loop, sweep, ops>>

Older(age) == IF age = None \/ age = Cap THEN age ELSE age + 1

\* Time passes between transactions, and not beyond a due sweep.
Clock ==
    /\ loop = None /\ sweep = None
    /\ up => timer > 0
    /\ timer' = IF up THEN timer - 1 ELSE timer
    /\ row' = [n \in Nodes |->
                 [row[n] EXCEPT !.seen = Older(@), !.beat = Older(@)]]
    /\ UNCHANGED <<up, sessions, loop, sweep, ops, raced>>

-----------------------------------------------------------------------------
Message(n) ==
    \/ \E r \in Reports : Heartbeat(n, r) \/ StatusUpdate(n, r)
    \/ \E oper \in {"ready", "error"} : SyncResult(n, oper)
    \/ \E r \in Reports : r.spot # None /\ PlaybackStarted(n, r.spot)
    \/ PlaybackFinished(n) \/ PlaybackStopped(n) \/ PlaybackError(n)

Next ==
    \/ \E n \in Nodes : Hello(n) \/ Message(n) \/ MarkDisconnected(n)
    \/ CommitHandler
    \/ SweepRead \/ SweepCommit
    \/ Crash \/ Restart
    \/ Clock

Spec == Init /\ [][Next]_vars

\* Transactions end, the scheduler runs the sweep when it is due, a supervisor
\* restarts the process, and time goes on.
Fairness ==
    /\ WF_vars(CommitHandler)
    /\ WF_vars(SweepRead) /\ WF_vars(SweepCommit)
    /\ WF_vars(Restart)
    /\ WF_vars(Clock)

FairSpec == Spec /\ Fairness

-----------------------------------------------------------------------------
(* Properties.                                                             *)

\* A node is shown online only if it was seen in the last StaleAfter + Period,
\* whatever the sweep and the handlers overwrite of each other
\* (node_service.py:341-380).
OnlineIsRecent ==
    \A n \in Nodes :
        up /\ row[n].conn = "online"
            => row[n].seen \in 0 .. (StaleAfter + Period - 1)

\* A node shown offline is shown idle, with no spot, unless two transactions
\* on its row overlapped (node_service.py:324-380).
OfflineIsIdle ==
    \A n \in Nodes :
        row[n].conn = "offline" /\ ~raced[n]
            => row[n].oper = "idle" /\ row[n].spot = None

\* A node that has sent a heartbeat was seen no earlier than that.
SeenFirst(r) == r.beat # None => r.seen # None /\ r.seen <= r.beat

\* What an open handler has read of the two times is still there, and what it
\* will write is online and just seen, or offline and idle.
HandlerHonest ==
    loop # None =>
        LET r == row[loop.node]
        IN  /\ up
            /\ r.seen = loop.read.seen /\ r.beat = loop.read.beat
            /\ \/ /\ loop.new.conn = "online" /\ loop.new.seen = 0
                  /\ loop.new.beat \in {0, loop.read.beat}
               \/ /\ loop.new.conn = "offline"
                  /\ loop.new.oper = "idle" /\ loop.new.spot = None
                  /\ loop.new.seen = loop.read.seen /\ loop.new.beat = loop.read.beat

\* An open sweep will write what it made of the rows it has read; since then a
\* row has been brought online only by a node that was seen.
SweepHonest ==
    sweep # None =>
        /\ up /\ timer = Period
        /\ \A n \in Nodes :
              /\ sweep.new[n] = Swept(sweep.read[n])
              /\ SeenFirst(sweep.read[n])
              /\ sweep.read[n].conn = "online" => sweep.read[n].seen # None
              /\ row[n].seen \in {0, sweep.read[n].seen}
              /\ row[n].conn = "online" =>
                    row[n].seen = 0 \/ sweep.read[n].conn = "online"

\* Between two sweeps the age of an online row is bounded by the time since
\* the first of them.
RecentSinceSweep ==
    \A n \in Nodes :
        AwareTimes /\ up /\ sweep = None /\ row[n].conn = "online"
            => row[n].seen <= StaleAfter - 1 + Period - timer

\* The inductive invariant.
Inv ==
    /\ \A n \in Nodes : /\ SeenFirst(row[n])
                        /\ row[n].conn = "online" => row[n].seen # None
    /\ HandlerHonest
    /\ SweepHonest
    /\ RecentSinceSweep
    /\ AwareTimes => OnlineIsRecent
    /\ OfflineIsIdle

\* A node that falls silent is offline in the end, and stays so: no overwritten
\* update, crash or late sweep brings it back (node_service.py:341-380).
QuietGoesOffline ==
    \A n \in Nodes : <>[](row[n].seen = Cap) => <>[](row[n].conn = "offline")

\* A node that stays connected and keeps its heartbeats younger than StaleAfter
\* is shown online in the end, and stays so (node_service.py:153-162, 341-380).
AliveGoesOnline ==
    \A n \in Nodes :
        <>[](sessions[n] > 0 /\ row[n].beat \in 0 .. (StaleAfter - 1))
            => <>[](row[n].conn = "online")
=============================================================================
