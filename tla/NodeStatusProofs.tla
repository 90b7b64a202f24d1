--------------------------- MODULE NodeStatusProofs ---------------------------
(***************************************************************************)
(* Theorems about NodeStatus, for any nodes, reports, thresholds, sweep    *)
(* period and number of sessions, crashes and restarts.                    *)
(***************************************************************************)
EXTENDS NodeStatus, TLAPS

-----------------------------------------------------------------------------
(* Rows, commits and the sweep's judgement.                                *)

\* A row is its five columns.
LEMMA RowFields ==
    ASSUME NEW r \in Row
    PROVE  /\ r = [conn |-> r.conn, oper |-> r.oper, spot |-> r.spot,
                   seen |-> r.seen, beat |-> r.beat]
           /\ r.conn \in {"online", "stale", "offline"}
           /\ r.seen \in Ages /\ r.beat \in Ages
BY DEF Row

\* A commit writes the columns that changed, each by itself.
LEMMA MergeFields ==
    ASSUME NEW r \in Row, NEW read \in Row, NEW new \in Row
    PROVE  /\ Merge(r, read, new) \in Row
           /\ Merge(r, read, new).conn = IF new.conn # read.conn THEN new.conn ELSE r.conn
           /\ Merge(r, read, new).oper = IF new.oper # read.oper THEN new.oper ELSE r.oper
           /\ Merge(r, read, new).spot = IF new.spot # read.spot THEN new.spot ELSE r.spot
           /\ Merge(r, read, new).seen = IF new.seen # read.seen THEN new.seen ELSE r.seen
           /\ Merge(r, read, new).beat = IF new.beat # read.beat THEN new.beat ELSE r.beat
BY DEF Row, Merge

\* A commit over the row it has read leaves what the transaction made of it; one
\* that made nothing of it leaves the row.
LEMMA MergeAlone ==
    ASSUME NEW r \in Row, NEW read \in Row, NEW new \in Row
    PROVE  /\ r = read => Merge(r, read, new) = new
           /\ new = read => Merge(r, read, new) = r
BY DEF Row, Merge

\* What a handler makes of the row it has read.
Written(read, new) ==
    \/ /\ new.conn = "online" /\ new.seen = 0
       /\ new.beat \in {0, read.beat}
    \/ /\ new.conn = "offline" /\ new.oper = "idle" /\ new.spot = None
       /\ new.seen = read.seen /\ new.beat = read.beat

\* Every handler opens one transaction, which reads the row of its node.
Opens(n) ==
    /\ up /\ loop = None
    /\ \E new \in Row : /\ loop' = [node |-> n, read |-> row[n], new |-> new]
                        /\ Written(row[n], new)
    /\ UNCHANGED <<up, row, sweep, timer, raced>>

LEMMA HandlerOpens ==
    ASSUME TypeOK, NEW n \in Nodes,
           Hello(n) \/ Message(n) \/ MarkDisconnected(n)
    PROVE  Opens(n)
<1>1. row[n] \in Row
  BY DEF TypeOK
<1>2. 0 \in Ages /\ 0 # None
  BY NodeStatusAssumption DEF Ages, Cap
<1>3. CASE Hello(n)
  <2> DEFINE new == [row[n] EXCEPT !.conn = "online", !.oper = "idle", !.seen = 0, !.beat = 0]
  <2>1. new \in Row /\ Written(row[n], new)
    BY <1>1, <1>2 DEF Row, Written
  <2> QED BY <1>3, <2>1 DEF Hello, Opens
<1>4. ASSUME NEW r \in Row, r.beat \in {0, row[n].beat}, FromNode(n, r)
      PROVE  Opens(n)
  <2> DEFINE new == [r EXCEPT !.conn = "online", !.seen = 0]
  <2>1. new \in Row /\ Written(row[n], new)
    BY <1>2, <1>4 DEF Row, Written
  <2> HIDE DEF new
  <2>2. Handle(n, new)
    BY <1>4 DEF FromNode, new
  <2> QED BY <2>1, <2>2 DEF Handle, Opens
<1>5. CASE Message(n)
  <2>1. ASSUME NEW r \in Reports, Heartbeat(n, r) PROVE Opens(n)
    <3> DEFINE q == [row[n] EXCEPT !.oper = r.oper, !.spot = r.spot, !.beat = 0]
    <3>1. q \in Row /\ q.beat \in {0, row[n].beat}
      BY <1>1, <1>2 DEF Row
    <3> QED BY <2>1, <3>1, <1>4 DEF Heartbeat
  <2>2. ASSUME NEW r \in Reports, StatusUpdate(n, r) PROVE Opens(n)
    <3> DEFINE q == [row[n] EXCEPT !.oper = r.oper, !.spot = r.spot]
    <3>1. q \in Row /\ q.beat \in {0, row[n].beat}
      BY <1>1 DEF Row
    <3> QED BY <2>2, <3>1, <1>4 DEF StatusUpdate
  <2>3. ASSUME NEW oper \in {"ready", "error"}, SyncResult(n, oper) PROVE Opens(n)
    <3> DEFINE q == [row[n] EXCEPT !.oper = oper, !.beat = 0]
    <3>1. q \in Row /\ q.beat \in {0, row[n].beat}
      BY <1>1, <1>2 DEF Row
    <3> QED BY <2>3, <3>1, <1>4 DEF SyncResult
  <2>4. ASSUME NEW r \in Reports, PlaybackStarted(n, r.spot) PROVE Opens(n)
    <3> DEFINE q == [row[n] EXCEPT !.oper = "playing", !.spot = r.spot]
    <3>1. q \in Row /\ q.beat \in {0, row[n].beat}
      BY <1>1 DEF Row
    <3> QED BY <2>4, <3>1, <1>4 DEF PlaybackStarted
  <2>5. CASE PlaybackFinished(n)
    <3> DEFINE q == [row[n] EXCEPT !.oper = "ready", !.spot = None]
    <3>1. q \in Row /\ q.beat \in {0, row[n].beat}
      BY <1>1 DEF Row
    <3> QED BY <2>5, <3>1, <1>4 DEF PlaybackFinished
  <2>6. CASE PlaybackStopped(n)
    <3> DEFINE q == [row[n] EXCEPT !.oper = "stopped", !.spot = None]
    <3>1. q \in Row /\ q.beat \in {0, row[n].beat}
      BY <1>1 DEF Row
    <3> QED BY <2>6, <3>1, <1>4 DEF PlaybackStopped
  <2>7. CASE PlaybackError(n)
    <3> DEFINE q == [row[n] EXCEPT !.oper = "error"]
    <3>1. q \in Row /\ q.beat \in {0, row[n].beat}
      BY <1>1 DEF Row
    <3> QED BY <2>7, <3>1, <1>4 DEF PlaybackError
  <2> QED
    BY <1>5, <2>1, <2>2, <2>3, <2>4, <2>5, <2>6, <2>7 DEF Message
<1>6. CASE MarkDisconnected(n)
  <2> DEFINE new == [row[n] EXCEPT !.conn = "offline", !.oper = "idle", !.spot = None]
  <2>1. new \in Row /\ Written(row[n], new)
    BY <1>1, <1>2 DEF Row, Written
  <2> HIDE DEF new
  <2>2. Handle(n, new)
    BY <1>6 DEF MarkDisconnected, new
  <2> QED BY <2>1, <2>2 DEF Handle, Opens
<1> QED BY <1>3, <1>5, <1>6

\* The sweep changes no time; what it calls online is younger than StaleAfter,
\* and what it turns offline is idle.
LEMMA SweptFields ==
    ASSUME NEW r \in Row
    PROVE  /\ Swept(r) \in Row
           /\ Swept(r).seen = r.seen /\ Swept(r).beat = r.beat
           /\ Swept(r).conn = "online" => \/ Elapsed(r) = None /\ r.conn = "online"
                                          \/ Elapsed(r) \in 0 .. StaleAfter - 1
           /\ Swept(r).conn = "offline" => \/ Swept(r) = r
                                           \/ Swept(r).oper = "idle" /\ Swept(r).spot = None
<1>1. Elapsed(r) \in Ages
  BY DEF Row, Elapsed
<1>2. CASE Elapsed(r) = None
  <2>1. Swept(r) = r
    BY <1>2, NodeStatusAssumption DEF Swept
  <2> QED BY <2>1, <1>2
<1>3. CASE Elapsed(r) \in OfflineAfter .. Cap
  <2>1. Elapsed(r) # None
    BY <1>3, NodeStatusAssumption DEF Cap
  <2>2. /\ Elapsed(r) \notin StaleAfter .. (OfflineAfter - 1)
        /\ Elapsed(r) \notin 0 .. (StaleAfter - 1)
    BY <1>3, NodeStatusAssumption DEF Cap
  <2>3. Swept(r) = IF r.conn = "offline" THEN r
                   ELSE [r EXCEPT !.conn = "offline", !.oper = "idle", !.spot = None]
    BY <1>3, <2>1, <2>2 DEF Swept
  <2> QED BY <2>3 DEF Row
<1>4. CASE Elapsed(r) \in StaleAfter .. (OfflineAfter - 1)
  <2>1. Elapsed(r) # None
    BY <1>4, NodeStatusAssumption
  <2>2. /\ Elapsed(r) \notin OfflineAfter .. Cap
        /\ Elapsed(r) \notin 0 .. (StaleAfter - 1)
    BY <1>4, NodeStatusAssumption DEF Cap
  <2>3. Swept(r) = [r EXCEPT !.conn = "stale"]
    BY <1>4, <2>1, <2>2 DEF Swept
  <2> QED BY <2>3 DEF Row
<1>5. CASE Elapsed(r) \in 0 .. (StaleAfter - 1)
  <2>1. Elapsed(r) # None
    BY <1>5, NodeStatusAssumption
  <2>2. /\ Elapsed(r) \notin OfflineAfter .. Cap
        /\ Elapsed(r) \notin StaleAfter .. (OfflineAfter - 1)
    BY <1>5, NodeStatusAssumption DEF Cap
  <2>3. Swept(r) = [r EXCEPT !.conn = "online"]
    BY <1>5, <2>1, <2>2 DEF Swept
  <2> QED BY <2>3, <1>5 DEF Row
<1> QED
  BY <1>1, <1>2, <1>3, <1>4, <1>5, NodeStatusAssumption DEF Ages, Cap

-----------------------------------------------------------------------------
(* Types.                                                                  *)

LEMMA TypeOKInit == Init => TypeOK
BY NodeStatusAssumption DEF Init, TypeOK, Row, Ages, Cap

LEMMA AgesGrow ==
    ASSUME NEW age \in Ages
    PROVE  /\ Older(age) \in Ages
           /\ Older(age) = None <=> age = None
           /\ age # None => Older(age) = IF age = Cap THEN Cap ELSE age + 1
BY NodeStatusAssumption DEF Ages, Cap, Older

LEMMA TypeOKStep ==
    ASSUME TypeOK, [Next]_vars
    PROVE  TypeOK'
<1> USE NodeStatusAssumption
<1>1. ASSUME NEW n \in Nodes, Hello(n) \/ Message(n) \/ MarkDisconnected(n)
      PROVE  TypeOK'
  <2>1. Opens(n)
    BY <1>1, HandlerOpens
  <2>2. loop' \in [node : Nodes, read : Row, new : Row] \cup {None}
    BY <2>1 DEF Opens, TypeOK
  <2>3. ops' \in 0 .. MaxOps /\ sessions' \in [Nodes -> 0 .. MaxSessions]
    <3> DEFINE Fewer == ops > 0 /\ ops' = ops - 1 /\ sessions[n] < MaxSessions
               One(k) == sessions' = [sessions EXCEPT ![n] = k]
    <3>1. ops \in 0 .. MaxOps /\ sessions[n] \in 0 .. MaxSessions
      BY DEF TypeOK
    <3>2. CASE Hello(n)
      <4>1. Fewer /\ One(sessions[n] + 1)
        BY <3>2 DEF Hello, Spend
      <4> QED BY <3>1, <4>1 DEF TypeOK
    <3>3. CASE Message(n)
      <4>1. ops' = ops /\ sessions' = sessions
        BY <3>3 DEF Message, Heartbeat, StatusUpdate, SyncResult, PlaybackStarted,
                    PlaybackFinished, PlaybackStopped, PlaybackError, FromNode
      <4> QED BY <4>1 DEF TypeOK
    <3>4. CASE MarkDisconnected(n)
      <4>1. ops' = ops /\ sessions[n] > 0 /\ One(sessions[n] - 1)
        BY <3>4 DEF MarkDisconnected
      <4> QED BY <3>1, <4>1 DEF TypeOK
    <3> QED BY <1>1, <3>2, <3>3, <3>4
  <2> QED BY <2>1, <2>2, <2>3 DEF Opens, TypeOK
<1>2. CASE CommitHandler
  <2>1. /\ loop.node \in Nodes /\ loop.read \in Row /\ loop.new \in Row
    BY <1>2 DEF CommitHandler, TypeOK
  <2>2. Merge(row[loop.node], loop.read, loop.new) \in Row
    BY <2>1, MergeFields DEF TypeOK
  <2>3. RacedBy(loop.node, loop.read, loop.new) \in BOOLEAN
    BY <2>1 DEF RacedBy, TypeOK
  <2> QED BY <1>2, <2>1, <2>2, <2>3 DEF CommitHandler, TypeOK
<1>3. CASE SweepRead
  <2>1. \A n \in Nodes : Swept(row[n]) \in Row
    BY SweptFields DEF TypeOK
  <2>2. sweep' \in [read : [Nodes -> Row], new : [Nodes -> Row]] \cup {None}
    BY <1>3, <2>1 DEF SweepRead, TypeOK
  <2> QED BY <1>3, <2>2 DEF SweepRead, TypeOK
<1>4. CASE SweepCommit
  <2>1. sweep.read \in [Nodes -> Row] /\ sweep.new \in [Nodes -> Row]
    BY <1>4 DEF SweepCommit, TypeOK
  <2>2. \A n \in Nodes : Merge(row[n], sweep.read[n], sweep.new[n]) \in Row
    BY <2>1, MergeFields DEF TypeOK
  <2>3. \A n \in Nodes : RacedBy(n, sweep.read[n], sweep.new[n]) \in BOOLEAN
    BY <2>1 DEF RacedBy, TypeOK
  <2> QED BY <1>4, <2>2, <2>3 DEF SweepCommit, TypeOK
<1>5. CASE Crash
  <2>1. ops' \in 0 .. MaxOps
    BY <1>5 DEF Crash, Spend, TypeOK
  <2>2. sessions' \in [Nodes -> 0 .. MaxSessions]
    BY <1>5 DEF Crash
  <2> QED BY <1>5, <2>1, <2>2 DEF Crash, TypeOK
<1>6. CASE Restart
  <2>1. \A n \in Nodes : RuntimeReset(row[n]) \in Row
    BY DEF RuntimeReset, TypeOK, Row
  <2> QED BY <1>6, <2>1 DEF Restart, TypeOK
<1>7. CASE Clock
  <2>1. ASSUME NEW n \in Nodes
        PROVE  [row[n] EXCEPT !.seen = Older(@), !.beat = Older(@)] \in Row
    <3>1. row[n] \in Row
      BY DEF TypeOK
    <3>2. Older(row[n].seen) \in Ages /\ Older(row[n].beat) \in Ages
      BY <3>1, AgesGrow, RowFields
    <3> QED BY <3>1, <3>2 DEF Row
  <2>2. row' \in [Nodes -> Row]
    BY <1>7, <2>1 DEF Clock
  <2>3. timer' \in 0 .. Period
    <3>1. timer' = timer \/ (timer > 0 /\ timer' = timer - 1)
      BY <1>7, Zenon DEF Clock
    <3> QED BY <3>1 DEF TypeOK
  <2> QED BY <1>7, <2>2, <2>3 DEF Clock, TypeOK
<1>8. CASE UNCHANGED vars
  BY <1>8 DEF vars, TypeOK
<1> QED
  BY <1>1, <1>2, <1>3, <1>4, <1>5, <1>6, <1>7, <1>8 DEF Next

\* The type invariant (models/node.py:13-39).
THEOREM TypeCorrect == Spec => []TypeOK
BY TypeOKInit, TypeOKStep, PTL DEF Spec

-----------------------------------------------------------------------------
(* What the rows tell.                                                     *)

LEMMA InvInit == Init => Inv
<1> SUFFICES ASSUME Init PROVE Inv
  OBVIOUS
<1>1. \A n \in Nodes : /\ row[n].conn = "offline" /\ row[n].oper = "idle"
                        /\ row[n].spot = None /\ row[n].beat = None
  BY DEF Init
<1>2. loop = None /\ sweep = None
  BY DEF Init
<1> QED
  BY <1>1, <1>2 DEF Inv, SeenFirst, HandlerHonest, SweepHonest, RecentSinceSweep,
                    OnlineIsRecent, OfflineIsIdle

\* A handler that opens has read the row as it is.
LEMMA InvOpens ==
    ASSUME TypeOK, Inv, NEW n \in Nodes, Opens(n)
    PROVE  Inv'
<1>1. HandlerHonest'
  <2> PICK new \in Row : /\ loop' = [node |-> n, read |-> row[n], new |-> new]
                         /\ Written(row[n], new)
    BY DEF Opens
  <2> QED BY DEF Opens, Written, HandlerHonest
<1>2. UNCHANGED <<up, row, sweep, timer, raced>>
  BY DEF Opens
<1>3. SweepHonest' /\ RecentSinceSweep' /\ OnlineIsRecent' = OnlineIsRecent /\ OfflineIsIdle'
  BY <1>2 DEF Inv, SweepHonest, RecentSinceSweep, OnlineIsRecent, OfflineIsIdle
<1> QED BY <1>1, <1>2, <1>3 DEF Inv, SeenFirst

\* What a commit of a handler leaves: the node just seen and online, or the
\* times as they were and the node not newly online.
LEMMA CommitLeaves ==
    ASSUME TypeOK, Inv, CommitHandler
    PROVE  /\ loop.node \in Nodes
           /\ row' = [m \in Nodes |-> IF m = loop.node THEN row'[loop.node] ELSE row[m]]
           /\ row'[loop.node] \in Row
           /\ \/ row'[loop.node].seen = 0
              \/ /\ row'[loop.node].seen = row[loop.node].seen
                 /\ row'[loop.node].conn = "online" => row[loop.node].conn = "online"
           /\ SeenFirst(row'[loop.node])
           /\ row'[loop.node].conn = "online" => row'[loop.node].seen # None
           /\ row'[loop.node].conn = "offline" /\ ~raced'[loop.node]
                 => row'[loop.node].oper = "idle" /\ row'[loop.node].spot = None
<1> DEFINE n == loop.node
           r == row[n]
           read == loop.read
           new == loop.new
<1>1. n \in Nodes /\ read \in Row /\ new \in Row /\ r \in Row
  BY DEF CommitHandler, TypeOK
<1>2. row' = [row EXCEPT ![n] = Merge(r, read, new)]
  BY DEF CommitHandler
<1>3. row' = [m \in Nodes |-> IF m = n THEN Merge(r, read, new) ELSE row[m]]
  BY <1>2 DEF TypeOK
<1>4. row'[n] = Merge(r, read, new)
  BY <1>1, <1>3
<1>5. raced'[n] = ((new # read /\ r # read) \/ (raced[n] /\ new.conn = read.conn))
  BY <1>1 DEF CommitHandler, RacedBy, TypeOK
<1>6. /\ r.seen = read.seen /\ r.beat = read.beat
      /\ \/ new.conn = "online" /\ new.seen = 0 /\ new.beat \in {0, read.beat}
         \/ /\ new.conn = "offline" /\ new.oper = "idle" /\ new.spot = None
            /\ new.seen = read.seen /\ new.beat = read.beat
  BY DEF CommitHandler, Inv, HandlerHonest
<1>7. SeenFirst(r) /\ (r.conn = "online" => r.seen # None)
  <2>1. \A m \in Nodes : SeenFirst(row[m]) /\ (row[m].conn = "online" => row[m].seen # None)
    BY DEF Inv
  <2> QED BY <1>1, <2>1, Zenon
<1>8. r.conn = "offline" /\ ~raced[n] => r.oper = "idle" /\ r.spot = None
  BY <1>1 DEF Inv, OfflineIsIdle
<1> HIDE DEF n, r, read, new
<1>9. 0 # None /\ \A age \in Ages : age # None => age >= 0
  BY NodeStatusAssumption DEF Ages, Cap
<1>10. r.beat \in Ages /\ r.seen \in Ages /\ new.beat \in Ages
  BY <1>1, RowFields
<1> DEFINE q == Merge(r, read, new)
<1>11. /\ q \in Row
       /\ q.conn = IF new.conn # read.conn THEN new.conn ELSE r.conn
       /\ q.oper = IF new.oper # read.oper THEN new.oper ELSE r.oper
       /\ q.spot = IF new.spot # read.spot THEN new.spot ELSE r.spot
       /\ q.seen = IF new.seen # read.seen THEN new.seen ELSE r.seen
       /\ q.beat = IF new.beat # read.beat THEN new.beat ELSE r.beat
       /\ r = read => q = new
       /\ new = read => q = r
  BY <1>1, MergeFields, MergeAlone
<1> HIDE DEF q
<1>12. \/ q.seen = 0
       \/ q.seen = r.seen /\ (q.conn = "online" => r.conn = "online")
  BY <1>6, <1>11
<1>13. SeenFirst(q)
  <2>1. CASE q.seen = 0
    <3>1. q.beat \in Ages
      BY <1>11, RowFields
    <3> QED BY <2>1, <3>1, <1>9 DEF SeenFirst
  <2>2. CASE q.seen = r.seen /\ q.beat = r.beat
    BY <2>2, <1>7 DEF SeenFirst
  <2> QED BY <1>6, <1>11, <2>1, <2>2
<1>14. q.conn = "online" => q.seen # None
  BY <1>12, <1>7, <1>9
<1>15. q.conn = "offline" /\ ~raced'[n] => q.oper = "idle" /\ q.spot = None
  <2> SUFFICES ASSUME q.conn = "offline", ~raced'[n]
               PROVE  q.oper = "idle" /\ q.spot = None
    OBVIOUS
  <2>1. (new = read \/ r = read) /\ (raced[n] => new.conn # read.conn)
    BY <1>5
  <2>2. CASE new = read
    BY <2>1, <2>2, <1>8, <1>11
  <2>3. CASE r = read
    BY <2>3, <1>6, <1>11
  <2> QED BY <2>1, <2>2, <2>3
<1> QED
  BY <1>1, <1>3, <1>4, <1>11, <1>12, <1>13, <1>14, <1>15 DEF n, r, q, read, new

LEMMA InvCommitHandler ==
    ASSUME TypeOK, Inv, CommitHandler
    PROVE  Inv'
<1> DEFINE n == loop.node
<1>1. /\ n \in Nodes
      /\ row' = [m \in Nodes |-> IF m = n THEN row'[n] ELSE row[m]]
      /\ row'[n] \in Row
      /\ \/ row'[n].seen = 0
         \/ row'[n].seen = row[n].seen /\ (row'[n].conn = "online" => row[n].conn = "online")
      /\ SeenFirst(row'[n])
      /\ row'[n].conn = "online" => row'[n].seen # None
      /\ row'[n].conn = "offline" /\ ~raced'[n]
            => row'[n].oper = "idle" /\ row'[n].spot = None
  BY CommitLeaves
<1>2. /\ loop' = None
      /\ UNCHANGED <<up, sweep, timer>>
  BY DEF CommitHandler
<1>3. raced' = [m \in Nodes |-> IF m = n THEN raced'[n] ELSE raced[m]]
  BY DEF CommitHandler, TypeOK
<1> HIDE DEF n
<1>4. \A m \in Nodes \ {n} : row'[m] = row[m] /\ raced'[m] = raced[m]
  BY <1>1, <1>3
<1>5. ASSUME NEW m \in Nodes
      PROVE  SeenFirst(row'[m]) /\ (row'[m].conn = "online" => row'[m].seen # None)
  <2>1. SeenFirst(row[m]) /\ (row[m].conn = "online" => row[m].seen # None)
    BY Zenon DEF Inv
  <2> QED BY <1>1, <1>4, <2>1
<1>6. HandlerHonest'
  BY <1>2 DEF HandlerHonest
<1>7. SweepHonest'
  <2> SUFFICES ASSUME sweep # None PROVE SweepHonest'
    BY <1>2 DEF SweepHonest
  <2>1. up /\ timer = Period
    BY DEF Inv, SweepHonest
  <2>2. ASSUME NEW m \in Nodes
        PROVE  /\ sweep.new[m] = Swept(sweep.read[m])
               /\ SeenFirst(sweep.read[m])
               /\ sweep.read[m].conn = "online" => sweep.read[m].seen # None
               /\ row'[m].seen \in {0, sweep.read[m].seen}
               /\ row'[m].conn = "online" => row'[m].seen = 0 \/ sweep.read[m].conn = "online"
    <3>1. /\ sweep.new[m] = Swept(sweep.read[m])
          /\ SeenFirst(sweep.read[m])
          /\ sweep.read[m].conn = "online" => sweep.read[m].seen # None
          /\ row[m].seen \in {0, sweep.read[m].seen}
          /\ row[m].conn = "online" => row[m].seen = 0 \/ sweep.read[m].conn = "online"
      BY DEF Inv, SweepHonest
    <3> QED BY <1>1, <1>4, <3>1
  <2> QED BY <1>2, <2>1, <2>2 DEF SweepHonest
<1>8. timer \in Nat /\ timer <= Period /\ Period \in Nat /\ StaleAfter \in Nat \ {0}
  BY NodeStatusAssumption DEF TypeOK
<1>9. RecentSinceSweep'
  <2> SUFFICES ASSUME NEW m \in Nodes, AwareTimes, up, sweep = None, row'[m].conn = "online"
               PROVE  row'[m].seen <= StaleAfter - 1 + Period - timer
    BY <1>2 DEF RecentSinceSweep
  <2>1. row[m].conn = "online" => row[m].seen <= StaleAfter - 1 + Period - timer
    BY DEF Inv, RecentSinceSweep
  <2>2. row'[m].seen = 0 \/ (row'[m].seen = row[m].seen /\ row[m].conn = "online")
    BY <1>1, <1>4
  <2> QED BY <1>8, <2>1, <2>2
<1>10. AwareTimes => OnlineIsRecent'
  <2> SUFFICES ASSUME NEW m \in Nodes, AwareTimes, up, row'[m].conn = "online"
               PROVE  row'[m].seen \in 0 .. (StaleAfter + Period - 1)
    BY <1>2 DEF OnlineIsRecent
  <2>1. row[m].conn = "online" => row[m].seen \in 0 .. (StaleAfter + Period - 1)
    BY DEF Inv, OnlineIsRecent
  <2>2. row'[m].seen = 0 \/ (row'[m].seen = row[m].seen /\ row[m].conn = "online")
    BY <1>1, <1>4
  <2> QED BY <1>8, <2>1, <2>2
<1>11. OfflineIsIdle'
  <2>1. \A m \in Nodes : row[m].conn = "offline" /\ ~raced[m]
                            => row[m].oper = "idle" /\ row[m].spot = None
    BY DEF Inv, OfflineIsIdle
  <2> QED BY <1>1, <1>4, <2>1 DEF OfflineIsIdle
<1> QED
  BY <1>5, <1>6, <1>7, <1>9, <1>10, <1>11 DEF Inv, SeenFirst

\* A sweep that has read the rows knows them.
LEMMA InvSweepRead ==
    ASSUME TypeOK, Inv, SweepRead
    PROVE  Inv'
<1> DEFINE opened == [read |-> row, new |-> [n \in Nodes |-> Swept(row[n])]]
<1>1. UNCHANGED <<up, row, loop, raced>>
  BY DEF SweepRead
<1>2. up /\ timer' = Period /\ sweep' \in {None, opened}
  BY DEF SweepRead
<1>3. opened # None
  <2>1. \A n \in Nodes : Swept(row[n]) \in Row
    BY SweptFields DEF TypeOK
  <2> QED BY <2>1, NoSweepAssumption DEF TypeOK
<1>4. AwareTimes => sweep' # None
  BY <1>3 DEF SweepRead, SweepRaises
<1>5. SweepHonest'
  <2> SUFFICES ASSUME sweep' = opened PROVE SweepHonest'
    BY <1>2 DEF SweepHonest
  <2>1. ASSUME NEW n \in Nodes
        PROVE  SeenFirst(row[n]) /\ (row[n].conn = "online" => row[n].seen # None)
    BY Zenon DEF Inv
  <2> QED BY <1>1, <1>2, <2>1 DEF SweepHonest
<1>6. RecentSinceSweep'
  BY <1>4 DEF RecentSinceSweep
<1> QED
  BY <1>1, <1>5, <1>6 DEF Inv, SeenFirst, HandlerHonest, OnlineIsRecent, OfflineIsIdle

\* A row that is online after a sweep is of a node seen less than StaleAfter ago.
LEMMA SweepLeaves ==
    ASSUME TypeOK, Inv, SweepCommit, NEW n \in Nodes
    PROVE  /\ row'[n].seen = row[n].seen /\ row'[n].beat = row[n].beat
           /\ row'[n].conn = "online" => row'[n].seen \in 0 .. StaleAfter - 1
           /\ row'[n].conn = "offline" /\ ~raced'[n]
                 => row'[n].oper = "idle" /\ row'[n].spot = None
<1> DEFINE r == row[n]
           read == sweep.read[n]
           new == sweep.new[n]
           q == row'[n]
<1>1. read \in Row /\ new \in Row /\ r \in Row
  BY DEF SweepCommit, TypeOK
<1>2. q = Merge(r, read, new)
  BY DEF SweepCommit
<1>3. raced'[n] = ((new # read /\ r # read) \/ (raced[n] /\ new.conn = read.conn))
  BY DEF SweepCommit, RacedBy
<1>4. /\ new = Swept(read)
      /\ SeenFirst(read)
      /\ read.conn = "online" => read.seen # None
      /\ r.seen \in {0, read.seen}
      /\ r.conn = "online" => r.seen = 0 \/ read.conn = "online"
  BY DEF SweepCommit, Inv, SweepHonest
<1>5. r.conn = "offline" /\ ~raced[n] => r.oper = "idle" /\ r.spot = None
  BY DEF Inv, OfflineIsIdle
<1> HIDE DEF r, read, new, q
<1>6. /\ q.conn = IF new.conn # read.conn THEN new.conn ELSE r.conn
      /\ q.oper = IF new.oper # read.oper THEN new.oper ELSE r.oper
      /\ q.spot = IF new.spot # read.spot THEN new.spot ELSE r.spot
      /\ q.seen = IF new.seen # read.seen THEN new.seen ELSE r.seen
      /\ q.beat = IF new.beat # read.beat THEN new.beat ELSE r.beat
      /\ r = read => q = new
      /\ new = read => q = r
  BY <1>1, <1>2, MergeFields, MergeAlone
<1>7. /\ new.seen = read.seen /\ new.beat = read.beat
      /\ new.conn = "online" => \/ Elapsed(read) = None /\ read.conn = "online"
                                \/ Elapsed(read) \in 0 .. StaleAfter - 1
      /\ new.conn = "offline" => \/ new = read
                                 \/ new.oper = "idle" /\ new.spot = None
  BY <1>1, <1>4, SweptFields
<1>8. q.seen = r.seen /\ q.beat = r.beat
  BY <1>6, <1>7
<1>9. ASSUME q.conn = "online" PROVE q.seen \in 0 .. StaleAfter - 1
  <2>1. CASE r.seen = 0
    BY <2>1, <1>8, NodeStatusAssumption
  <2>2. CASE r.seen # 0
    <3>1. r.seen = read.seen
      BY <2>2, <1>4
    <3>2. new.conn = "online"
      BY <1>4, <1>6, <1>9, <2>2
    <3>3. Elapsed(read) # None \/ read.conn # "online"
      BY <1>4 DEF Elapsed
    <3>4. Elapsed(read) \in 0 .. StaleAfter - 1
      BY <1>7, <3>2, <3>3
    <3>5. read.seen \in Ages /\ read.beat \in Ages
      BY <1>1, RowFields
    <3>6. CASE read.beat = None
      BY <3>1, <3>4, <3>6, <1>8 DEF Elapsed
    <3>7. CASE read.beat # None
      <4>1. read.beat \in 0 .. StaleAfter - 1
        BY <3>4, <3>7 DEF Elapsed
      <4>2. read.seen # None /\ read.seen <= read.beat
        BY <1>4, <3>7 DEF SeenFirst
      <4>3. read.seen \in Nat
        BY <3>5, <4>2, NodeStatusAssumption DEF Ages, Cap
      <4> QED BY <3>1, <4>1, <4>2, <4>3, <1>8, NodeStatusAssumption
    <3> QED BY <3>6, <3>7
  <2> QED BY <2>1, <2>2
<1>10. ASSUME q.conn = "offline", ~raced'[n] PROVE q.oper = "idle" /\ q.spot = None
  <2>1. (new = read \/ r = read) /\ (raced[n] => new.conn # read.conn)
    BY <1>3, <1>10
  <2>2. CASE new = read
    BY <2>1, <2>2, <1>5, <1>6, <1>10
  <2>3. CASE r = read /\ new # read
    BY <2>3, <1>6, <1>7, <1>10
  <2> QED BY <2>1, <2>2, <2>3
<1> QED BY <1>8, <1>9, <1>10 DEF r, q

LEMMA InvSweepCommit ==
    ASSUME TypeOK, Inv, SweepCommit
    PROVE  Inv'
<1>1. \A n \in Nodes :
        /\ row'[n].seen = row[n].seen /\ row'[n].beat = row[n].beat
        /\ row'[n].conn = "online" => row'[n].seen \in 0 .. StaleAfter - 1
        /\ row'[n].conn = "offline" /\ ~raced'[n]
              => row'[n].oper = "idle" /\ row'[n].spot = None
  BY SweepLeaves
<1>2. sweep' = None /\ UNCHANGED <<up, loop, timer>>
  BY DEF SweepCommit
<1>3. timer \in Nat /\ timer <= Period /\ Period \in Nat /\ StaleAfter \in Nat \ {0}
  BY NodeStatusAssumption DEF TypeOK
<1>4. ASSUME NEW n \in Nodes
      PROVE  SeenFirst(row'[n]) /\ (row'[n].conn = "online" => row'[n].seen # None)
  <2>1. SeenFirst(row[n])
    BY Zenon DEF Inv
  <2>2. row'[n].conn = "online" => row'[n].seen # None
    BY <1>1, NodeStatusAssumption
  <2> QED BY <1>1, <2>1, <2>2 DEF SeenFirst
<1>5. HandlerHonest'
  <2>1. loop # None => loop.node \in Nodes
    BY DEF TypeOK
  <2> QED BY <1>1, <1>2, <2>1 DEF Inv, HandlerHonest
<1>6. SweepHonest'
  BY <1>2 DEF SweepHonest
<1>7. RecentSinceSweep'
  <2> SUFFICES ASSUME NEW n \in Nodes, row'[n].conn = "online"
               PROVE  row'[n].seen <= StaleAfter - 1 + Period - timer
    BY <1>2 DEF RecentSinceSweep
  <2>1. row'[n].seen \in 0 .. StaleAfter - 1
    BY <1>1
  <2> QED BY <2>1, <1>3
<1>8. OnlineIsRecent'
  <2> SUFFICES ASSUME NEW n \in Nodes, row'[n].conn = "online"
               PROVE  row'[n].seen \in 0 .. (StaleAfter + Period - 1)
    BY DEF OnlineIsRecent
  <2>1. row'[n].seen \in 0 .. StaleAfter - 1
    BY <1>1
  <2> QED BY <2>1, <1>3
<1>9. OfflineIsIdle'
  BY <1>1 DEF OfflineIsIdle
<1> QED
  BY <1>4, <1>5, <1>6, <1>7, <1>8, <1>9 DEF Inv, SeenFirst

\* A crash ends both transactions, and the rows keep their last commit.
LEMMA InvCrash ==
    ASSUME Inv, Crash
    PROVE  Inv'
<1>1. up' = FALSE /\ loop' = None /\ sweep' = None /\ UNCHANGED <<row, raced>>
  BY DEF Crash
<1> QED
  BY <1>1 DEF Inv, SeenFirst, HandlerHonest, SweepHonest, RecentSinceSweep,
              OnlineIsRecent, OfflineIsIdle

\* No row is online when the server starts to take connections.
LEMMA InvRestart ==
    ASSUME TypeOK, Inv, Restart
    PROVE  Inv'
<1>1. \A n \in Nodes : /\ row'[n].conn = "offline" /\ row'[n].oper = "idle"
                        /\ row'[n].spot = None
                        /\ row'[n].seen = row[n].seen /\ row'[n].beat = row[n].beat
  BY DEF Restart, RuntimeReset, TypeOK, Row
<1>2. loop' = None /\ sweep' = None
  BY DEF Restart, Inv, HandlerHonest, SweepHonest
<1>3. \A n \in Nodes : SeenFirst(row[n])
  BY Zenon DEF Inv
<1> QED
  BY <1>1, <1>2, <1>3 DEF Inv, SeenFirst, HandlerHonest, SweepHonest, RecentSinceSweep,
                          OnlineIsRecent, OfflineIsIdle

\* The sweep comes before an online row is too old.
LEMMA InvClock ==
    ASSUME TypeOK, Inv, Clock
    PROVE  Inv'
<1> USE NodeStatusAssumption
<1>1. /\ loop = None /\ sweep = None
      /\ UNCHANGED <<up, loop, sweep, raced>>
  BY DEF Clock
<1>2. \A n \in Nodes :
        /\ row'[n].conn = row[n].conn /\ row'[n].oper = row[n].oper
        /\ row'[n].spot = row[n].spot
        /\ row'[n].seen = Older(row[n].seen) /\ row'[n].beat = Older(row[n].beat)
  BY DEF Clock, TypeOK, Row
<1>3. \A n \in Nodes : row[n].seen \in Ages /\ row[n].beat \in Ages
  BY RowFields DEF TypeOK
<1>4. up => timer \in 1 .. Period /\ timer' = timer - 1
  <2>1. up => timer > 0 /\ timer' = timer - 1
    BY DEF Clock
  <2>2. timer \in 0 .. Period
    BY DEF TypeOK
  <2>3. timer > 0 => timer \in 1 .. Period
    BY <2>2
  <2> QED BY <2>1, <2>3, Zenon
<1>5. ASSUME NEW n \in Nodes
      PROVE  SeenFirst(row'[n]) /\ (row'[n].conn = "online" => row'[n].seen # None)
  <2>1. SeenFirst(row[n]) /\ (row[n].conn = "online" => row[n].seen # None)
    BY Zenon DEF Inv
  <2> DEFINE seen == row[n].seen
             beat == row[n].beat
  <2>2. seen \in Ages /\ beat \in Ages
    BY <1>3
  <2>3. beat # None => seen # None /\ seen <= beat
    BY <2>1 DEF SeenFirst
  <2> HIDE DEF seen, beat
  <2>4. Older(seen) = None <=> seen = None
    BY <2>2, AgesGrow
  <2>5. Older(beat) # None => Older(seen) # None /\ Older(seen) <= Older(beat)
    <3> SUFFICES ASSUME Older(beat) # None PROVE Older(seen) # None /\ Older(seen) <= Older(beat)
      OBVIOUS
    <3>1. beat \in 0 .. Cap /\ seen \in 0 .. Cap /\ seen <= beat
      BY <2>2, <2>3, AgesGrow DEF Ages
    <3>2. beat # None /\ seen # None
      BY <2>2, <2>3, AgesGrow
    <3>3. /\ Older(beat) = IF beat = Cap THEN Cap ELSE beat + 1
          /\ Older(seen) = IF seen = Cap THEN Cap ELSE seen + 1
      BY <2>2, <3>2, AgesGrow
    <3>4. Older(seen) <= Older(beat)
      BY <3>1, <3>3 DEF Cap
    <3> QED BY <2>4, <3>2, <3>4
  <2> QED BY <1>2, <2>1, <2>4, <2>5 DEF SeenFirst, seen, beat
<1>6. HandlerHonest' /\ SweepHonest'
  BY <1>1 DEF HandlerHonest, SweepHonest
<1>7. ASSUME AwareTimes, up, NEW n \in Nodes, row[n].conn = "online"
      PROVE  row'[n].seen \in 0 .. (StaleAfter - 1 + Period - (timer - 1))
  <2> DEFINE seen == row[n].seen
             bound == StaleAfter - 1 + Period - timer
  <2>1. seen <= bound
    BY <1>1, <1>7 DEF Inv, RecentSinceSweep
  <2>2. seen \in 0 .. (StaleAfter + Period - 1)
    BY <1>7 DEF Inv, OnlineIsRecent
  <2>3. row'[n].seen = Older(seen) /\ seen \in Ages
    BY <1>2, <1>3
  <2>4. timer \in 1 .. Period
    BY <1>4, <1>7
  <2> HIDE DEF seen
  <2>5. seen # None
    BY <2>2
  <2>6. Older(seen) = IF seen = Cap THEN Cap ELSE seen + 1
    BY <2>3, <2>5, AgesGrow
  <2>7. Older(seen) \in 0 .. seen + 1
    BY <2>2, <2>6
  <2>8. Older(seen) \in 0 .. bound + 1
    BY <2>1, <2>2, <2>4, <2>7
  <2> QED BY <2>3, <2>4, <2>8
<1>8. RecentSinceSweep'
  <2> SUFFICES ASSUME NEW n \in Nodes, AwareTimes, up, row'[n].conn = "online"
               PROVE  row'[n].seen <= StaleAfter - 1 + Period - timer'
    BY <1>1 DEF RecentSinceSweep
  <2>1. row'[n].seen \in 0 .. (StaleAfter - 1 + Period - (timer - 1))
    BY <1>2, <1>7
  <2>2. timer' = timer - 1 /\ timer \in 1 .. Period
    BY <1>4
  <2> QED BY <2>1, <2>2
<1>9. AwareTimes => OnlineIsRecent'
  <2> SUFFICES ASSUME NEW n \in Nodes, AwareTimes, up, row'[n].conn = "online"
               PROVE  row'[n].seen \in 0 .. (StaleAfter + Period - 1)
    BY <1>1 DEF OnlineIsRecent
  <2>1. row'[n].seen \in 0 .. (StaleAfter - 1 + Period - (timer - 1))
    BY <1>2, <1>7
  <2>2. timer \in 1 .. Period
    BY <1>4
  <2> QED BY <2>1, <2>2
<1>10. OfflineIsIdle'
  BY <1>1, <1>2 DEF Inv, OfflineIsIdle
<1> QED
  BY <1>5, <1>6, <1>8, <1>9, <1>10 DEF Inv, SeenFirst

LEMMA InvStep ==
    ASSUME TypeOK, Inv, [Next]_vars
    PROVE  Inv'
<1>1. ASSUME NEW n \in Nodes, Hello(n) \/ Message(n) \/ MarkDisconnected(n)
      PROVE  Inv'
  BY <1>1, HandlerOpens, InvOpens
<1>2. CASE UNCHANGED vars
  BY <1>2 DEF vars, Inv, SeenFirst, HandlerHonest, SweepHonest, RecentSinceSweep,
              OnlineIsRecent, OfflineIsIdle
<1> QED
  BY <1>1, <1>2, InvCommitHandler, InvSweepRead, InvSweepCommit, InvCrash, InvRestart,
     InvClock DEF Next

\* What the two transactions may leave of each other's work is consistent
\* (node_service.py:324-380).
THEOREM Consistent == Spec => []Inv
BY TypeOKInit, TypeOKStep, InvInit, InvStep, PTL DEF Spec

\* On a database that returns times with their zone, a node shown online was
\* seen in the last StaleAfter + Period, for any number of nodes and sessions
\* and any order of the handlers' and the sweep's commits
\* (node_service.py:341-380).
THEOREM OnlineWasSeen ==
    ASSUME AwareTimes
    PROVE  Spec => []OnlineIsRecent
<1>1. Inv => OnlineIsRecent
  BY DEF Inv
<1> QED BY <1>1, Consistent, PTL

\* A node shown offline is shown idle, unless two transactions overlapped on its
\* row, on either kind of database (node_service.py:324-380).
THEOREM OfflineWasCleared == Spec => []OfflineIsIdle
<1>1. Inv => OfflineIsIdle
  BY DEF Inv
<1> QED BY <1>1, Consistent, PTL

=============================================================================
