------------------------ MODULE CommandDispatchProofs ------------------------
(***************************************************************************)
(* Theorems about CommandDispatch, for any nodes, sockets and commands.    *)
(***************************************************************************)
EXTENDS CommandDispatch, TLAPS

LEMMA TypeOKInit == Init => TypeOK
BY DispatchAssumption DEF Init, TypeOK, Keys, Rows, Final, AckTypes

(* The node a suspended dispatch refers to is a real one; without this the  *)
(* updates at cur[r] are not typed.                                         *)
CurIsNode ==
    \A r \in Requests : phase[r] \in {"sending", "waiting"} => cur[r] \in Nodes

LEMMA TypeOKStep ==
    ASSUME TypeOK, CurIsNode, [Next]_vars
    PROVE  TypeOK'
<1> USE DispatchAssumption DEF TypeOK, Keys
<1>1. ASSUME NEW s \in Sockets, Open(s)
      PROVE  TypeOK'
  BY <1>1 DEF Open, handlerVars, ackVars, dispatchVars
<1>2. ASSUME NEW s \in Sockets, NEW n \in Nodes, AcceptHello(s, n)
      PROVE  TypeOK'
  BY <1>2 DEF AcceptHello, handlerVars, ackVars, dispatchVars
<1>3. ASSUME NEW s \in Sockets, NEW n \in Nodes, HelloMeetsClosed(s, n)
      PROVE  TypeOK'
  BY <1>3 DEF HelloMeetsClosed, Disconnect, FreeSlot, handlerVars, ackVars, dispatchVars
<1>4. ASSUME NEW s \in Sockets, RejectHello(s)
      PROVE  TypeOK'
  BY <1>4 DEF RejectHello, handlerVars, ackVars, dispatchVars
<1>5. ASSUME NEW s \in Sockets, Replaced(s)
      PROVE  TypeOK'
  BY <1>5 DEF Replaced, handlerVars, ackVars, dispatchVars
<1>6. ASSUME NEW s \in Sockets, Greeted(s)
      PROVE  TypeOK'
  BY <1>6 DEF Greeted, handlerVars, ackVars, dispatchVars
<1>7. ASSUME NEW s \in Sockets, NEW n \in Nodes, NEW r \in Requests, NEW t \in Answers, Receive(s, n, r, t)
      PROVE  TypeOK'
  BY <1>7 DEF Receive, ResolveAck, Note, handlerVars, ackVars, dispatchVars, AckTypes
<1>8. ASSUME NEW s \in Sockets, NEW n \in Nodes, NEW r \in Requests, NEW t \in Answers, ReceiveLast(s, n, r, t)
      PROVE  TypeOK'
  BY <1>8 DEF ReceiveLast, Note, FreeSlot, handlerVars, ackVars, dispatchVars, AckTypes
<1>9. ASSUME NEW s \in Sockets, BadMessage(s)
      PROVE  TypeOK'
  BY <1>9 DEF BadMessage, handlerVars, ackVars, dispatchVars
<1>10. ASSUME NEW s \in Sockets, ErrorSent(s)
      PROVE  TypeOK'
  BY <1>10 DEF ErrorSent, handlerVars, ackVars, dispatchVars
<1>11. ASSUME NEW s \in Sockets, Leave(s)
      PROVE  TypeOK'
  BY <1>11 DEF Leave, Ending, Disconnect, FreeSlot, handlerVars, ackVars, dispatchVars
<1>12. ASSUME NEW s \in Sockets, PeerGone(s)
      PROVE  TypeOK'
  BY <1>12 DEF PeerGone, handlerVars, ackVars, dispatchVars
<1>13. ASSUME NEW n \in Nodes, NEW e \in Rows, Provision(n, e)
      PROVE  TypeOK'
  BY <1>13 DEF Provision, handlerVars, ackVars, dispatchVars
<1>14. ASSUME NEW n \in Nodes, NEW e \in Rows, SetEnabled(n, e)
      PROVE  TypeOK'
  BY <1>14 DEF SetEnabled, handlerVars, ackVars, dispatchVars
<1>15. ASSUME NEW r \in Requests, NEW k \in {"play", "stop"}, NEW T \in SUBSET Nodes, StartDispatch(r, k, T)
      PROVE  TypeOK'
  BY <1>15 DEF StartDispatch, Unsent, handlerVars, ackVars, dispatchVars, Final, Rows
<1>16. ASSUME NEW r \in Requests, NEW n \in Nodes, NotConnected(r, n)
      PROVE  TypeOK'
  BY <1>16 DEF NotConnected, handlerVars, ackVars, dispatchVars, Final
<1>17. ASSUME NEW r \in Requests, NEW n \in Nodes, SendRefused(r, n)
      PROVE  TypeOK'
  BY <1>17 DEF SendRefused, handlerVars, ackVars, dispatchVars, Final
<1>18. ASSUME NEW r \in Requests, NEW n \in Nodes, BeginSend(r, n)
      PROVE  TypeOK'
  BY <1>18 DEF BeginSend, handlerVars, ackVars, dispatchVars
<1>19. ASSUME NEW r \in Requests, SendOk(r)
      PROVE  TypeOK'
  BY <1>19 DEF SendOk, handlerVars, ackVars, dispatchVars, CurIsNode
<1>20. ASSUME NEW r \in Requests, SendFails(r)
      PROVE  TypeOK'
  BY <1>20 DEF SendFails, CancelAck, handlerVars, ackVars, dispatchVars, CurIsNode, Final
<1>21. ASSUME NEW r \in Requests, Commit(r)
      PROVE  TypeOK'
  BY <1>21 DEF Commit, Left, handlerVars, ackVars, dispatchVars
<1>22. ASSUME NEW r \in Requests, CommitFails(r)
      PROVE  TypeOK'
  BY <1>22 DEF CommitFails, handlerVars, ackVars, dispatchVars
<1>23. ASSUME NEW r \in Requests, NEW n \in Nodes, CollectReady(r, n)
      PROVE  TypeOK'
  BY <1>23 DEF CollectReady, Reading, handlerVars, ackVars, dispatchVars, Final
<1>24. ASSUME NEW r \in Requests, NEW n \in Nodes, BeginWait(r, n)
      PROVE  TypeOK'
  BY <1>24 DEF BeginWait, handlerVars, ackVars, dispatchVars
<1>25. ASSUME NEW r \in Requests, Woken(r)
      PROVE  TypeOK'
  BY <1>25 DEF Woken, Reading, handlerVars, ackVars, dispatchVars, CurIsNode, Final
<1>26. ASSUME NEW r \in Requests, Timeout(r)
      PROVE  TypeOK'
  BY <1>26 DEF Timeout, CancelAck, handlerVars, ackVars, dispatchVars, CurIsNode, Final
<1>27. ASSUME NEW r \in Requests, Return(r)
      PROVE  TypeOK'
  BY <1>27 DEF Return, handlerVars, ackVars, dispatchVars
<1>28. CASE UNCHANGED vars
  BY <1>28 DEF vars
<1> QED
  BY <1>1, <1>2, <1>3, <1>4, <1>5, <1>6, <1>7, <1>8, <1>9, <1>10, <1>11, <1>12, <1>13, <1>14, <1>15, <1>16, <1>17, <1>18, <1>19, <1>20, <1>21, <1>22, <1>23, <1>24, <1>25, <1>26, <1>27, <1>28 DEF Next, HandlerStep, NodeStep, AdminStep, DispatchStep

-----------------------------------------------------------------------------
(* Two facts about the operators that choose a result.                     *)

LEMMA ReadingFacts ==
    ASSUME NEW k, NEW f
    PROVE  /\ f = "cancelled" => Reading(k, f) = "timeout"
           /\ Reading(k, f) \in {"started", "stopped", "error", "acknowledged", "timeout"}
BY DEF Reading

LEMMA UnsentFacts ==
    ASSUME NEW k, NEW n
    PROVE  Unsent(k, n) \in {"missing", "disabled", "todo"}
BY DEF Unsent

-----------------------------------------------------------------------------
(* The steps at which the answer to a command, or its absence, is recorded. *)

\* A message settles at most the future of the command it answers: Receive and
\* ReceiveLast, which differ in what happens to the node's other futures.
LEMMA AnswerRecorded ==
    ASSUME TypeOK, Inv,
           NEW n \in Nodes, NEW r \in Requests, NEW t \in Answers,
           Note(n, r, t), UNCHANGED <<kind, result>>,
           pending' \subseteq pending,
           \A k \in Keys : \/ future'[k] = future[k]
                          \/ /\ k \in pending
                             /\ future'[k] = "cancelled" \/ (k = <<n, r>> /\ future'[k] = t),
           future' \in [Keys -> {"none", "waiting", "cancelled"} \cup AckTypes],
           pending' = {k \in Keys : future'[k] = "waiting"},
           <<n, r>> \in pending => future'[<<n, r>>] = t
    PROVE  PendingExact' /\ TruthfulResult' /\ FutureHistory'
<1> USE DispatchAssumption DEF AckTypes
<1>k. <<n, r>> \in Keys
  BY DEF Keys
<1>t. t \in AckTypes /\ t \notin {"waiting", "none", "cancelled"}
  OBVIOUS
<1>1. PendingExact'
  BY DEF Inv, PendingExact
<1>2. TruthfulResult'
  <2> SUFFICES ASSUME NEW m \in Nodes, NEW q \in Requests,
                      result'[<<m, q>>] \in {"started", "stopped", "error", "acknowledged"}
               PROVE  /\ first'[<<m, q>>] # "nothing"
                      /\ result'[<<m, q>>] = Reading(kind'[q], first'[<<m, q>>])
    BY DEF TruthfulResult
  <2>1. first'[<<m, q>>] = first[<<m, q>>]
    <3>1. CASE m = n /\ q = r
      <4>1. result[<<n, r>>] \notin {"sending", "sent"}
        BY <3>1
      <4> QED BY <4>1 DEF Note
    <3>2. CASE <<m, q>> # <<n, r>>
      BY <3>2, <1>k DEF Note, TypeOK, Keys
    <3> QED BY <3>1, <3>2
  <2> QED BY <2>1 DEF Inv, TruthfulResult
<1>3. FutureHistory'
  <2> SUFFICES ASSUME NEW k \in Keys PROVE FutureHistory!(k)'
    BY DEF FutureHistory
  <2>1. CASE k = <<n, r>>
    BY <2>1, <1>k, <1>t DEF Note, Inv, FutureHistory, PendingExact, TypeOK
  <2>2. CASE k # <<n, r>>
    BY <2>2, <1>k, <1>t DEF Note, Inv, FutureHistory, PendingExact, TypeOK
  <2> QED BY <2>1, <2>2
<1> QED BY <1>1, <1>2, <1>3

\* A dispatch turns a settled future into a result: CollectReady and Woken.
LEMMA FutureCollected ==
    ASSUME TypeOK, Inv, NEW n \in Nodes, NEW r \in Requests,
           result[<<n, r>>] = "sent",
           future[<<n, r>>] # "waiting",
           result' = [result EXCEPT ![<<n, r>>] = Reading(kind[r], future[<<n, r>>])],
           future' = [future EXCEPT ![<<n, r>>] = "none"],
           UNCHANGED <<pending, first, kind>>
    PROVE  PendingExact' /\ TruthfulResult' /\ FutureHistory'
<1>k. <<n, r>> \in Keys
  BY DEF Keys
<1>1. pending' = {k \in Keys : future'[k] = "waiting"}
  BY <1>k DEF Inv, PendingExact, TypeOK
<1>2. \A k \in pending' : result'[k] \in {"sending", "sent"}
  BY <1>k DEF Inv, PendingExact, TypeOK
<1>3. TruthfulResult'
  <2>1. \/ future[<<n, r>>] = "cancelled"
        \/ (first[<<n, r>>] = future[<<n, r>>] /\ first[<<n, r>>] # "nothing")
    BY <1>k DEF Inv, FutureHistory, TypeOK, AckTypes
  <2> SUFFICES ASSUME NEW m \in Nodes, NEW q \in Requests
               PROVE  TruthfulResult!(m, q)'
    BY DEF TruthfulResult
  <2>2. CASE m = n /\ q = r
    <3>1. result'[<<n, r>>] = Reading(kind[r], future[<<n, r>>])
      BY <1>k DEF TypeOK
    <3>2. CASE future[<<n, r>>] = "cancelled"
      BY <3>1, <3>2, <2>2, ReadingFacts
    <3>3. CASE first[<<n, r>>] = future[<<n, r>>] /\ first[<<n, r>>] # "nothing"
      BY <3>1, <3>3, <2>2
    <3> QED BY <2>1, <3>2, <3>3
  <2>3. CASE ~(m = n /\ q = r)
    BY <2>3, <1>k DEF TypeOK, Inv, TruthfulResult, Keys
  <2> QED BY <2>2, <2>3
<1>4. FutureHistory'
  <2>1. result'[<<n, r>>] \in {"started", "stopped", "error", "acknowledged", "timeout"}
    BY <1>k, ReadingFacts DEF TypeOK
  <2> QED BY <2>1, <1>k DEF Inv, FutureHistory, TypeOK, AckTypes
<1> QED BY <1>1, <1>2, <1>3, <1>4 DEF PendingExact

-----------------------------------------------------------------------------
(* Every step preserves the inductive invariant.                           *)

LEMMA InvStep ==
    ASSUME TypeOK, Inv, [Next]_vars
    PROVE  Inv'
<1> USE DispatchAssumption DEF TypeOK, Keys, AckTypes
<1>1. ASSUME NEW s \in Sockets, Open(s)
      PROVE  Inv'
  BY <1>1 DEF Open, handlerVars, ackVars, dispatchVars, Inv, RegistryLive, PendingConnected, PendingExact, TruthfulResult, AnonymousBeforeHello, SuspendedOn, FutureHistory
<1>2. ASSUME NEW s \in Sockets, NEW n \in Nodes, AcceptHello(s, n)
      PROVE  Inv'
  BY <1>2 DEF AcceptHello, handlerVars, ackVars, dispatchVars, Inv, RegistryLive, PendingConnected, PendingExact, TruthfulResult, AnonymousBeforeHello, SuspendedOn, FutureHistory
<1>3. ASSUME NEW s \in Sockets, NEW n \in Nodes, HelloMeetsClosed(s, n)
      PROVE  Inv'
  BY <1>3 DEF HelloMeetsClosed, Disconnect, FreeSlot, handlerVars, ackVars, dispatchVars, Inv, RegistryLive, PendingConnected, PendingExact, TruthfulResult, AnonymousBeforeHello, SuspendedOn, FutureHistory
<1>4. ASSUME NEW s \in Sockets, RejectHello(s)
      PROVE  Inv'
  BY <1>4 DEF RejectHello, handlerVars, ackVars, dispatchVars, Inv, RegistryLive, PendingConnected, PendingExact, TruthfulResult, AnonymousBeforeHello, SuspendedOn, FutureHistory
<1>5. ASSUME NEW s \in Sockets, Replaced(s)
      PROVE  Inv'
  BY <1>5 DEF Replaced, handlerVars, ackVars, dispatchVars, Inv, RegistryLive, PendingConnected, PendingExact, TruthfulResult, AnonymousBeforeHello, SuspendedOn, FutureHistory
<1>6. ASSUME NEW s \in Sockets, Greeted(s)
      PROVE  Inv'
  BY <1>6 DEF Greeted, handlerVars, ackVars, dispatchVars, Inv, RegistryLive, PendingConnected, PendingExact, TruthfulResult, AnonymousBeforeHello, SuspendedOn, FutureHistory
<1>7. ASSUME NEW s \in Sockets, NEW n \in Nodes, NEW r \in Requests, NEW t \in Answers, Receive(s, n, r, t)
      PROVE  Inv'
  <2>1. PendingExact' /\ TruthfulResult' /\ FutureHistory'
    <3>1. /\ pending' \subseteq pending
          /\ \A k \in Keys : \/ future'[k] = future[k]
                            \/ /\ k \in pending
                               /\ future'[k] = "cancelled" \/ (k = <<n, r>> /\ future'[k] = t)
          /\ pending' = {k \in Keys : future'[k] = "waiting"}
          /\ future' \in [Keys -> {"none", "waiting", "cancelled"} \cup AckTypes]
          /\ <<n, r>> \in pending => future'[<<n, r>>] = t
      <4>1. <<n, r>> \in Keys /\ t \in AckTypes /\ t # "waiting"
        OBVIOUS
      <4>2. pending = {k \in Keys : future[k] = "waiting"}
        BY DEF Inv, PendingExact
      <4>3. ResolveAck(n, r, t)
        BY <1>7 DEF Receive
      <4>4. CASE <<n, r>> \in pending
        <5>1. /\ pending' = pending \ {<<n, r>>}
              /\ future' = [future EXCEPT ![<<n, r>>] = t]
          BY <4>3, <4>4 DEF ResolveAck
        <5>2. future' = [k \in Keys |-> IF k = <<n, r>> THEN t ELSE future[k]]
          BY <5>1
        <5>3. future' \in [Keys -> {"none", "waiting", "cancelled"} \cup AckTypes]
          BY <5>1, <4>1
        <5>4. pending' = {k \in Keys : future'[k] = "waiting"}
          BY <5>1, <5>2, <4>1, <4>2
        <5>5. \A k \in Keys : \/ future'[k] = future[k]
                              \/ /\ k \in pending
                                 /\ future'[k] = "cancelled" \/ (k = <<n, r>> /\ future'[k] = t)
          BY <5>2, <4>4
        <5> QED BY <5>1, <5>2, <5>3, <5>4, <5>5, <4>1
      <4>5. CASE <<n, r>> \notin pending
        <5>1. pending' = pending /\ future' = future
          BY <4>3, <4>5 DEF ResolveAck
        <5> QED BY <5>1, <4>2, <4>5
      <4> QED BY <4>4, <4>5
    <3>2. Note(n, r, t) /\ UNCHANGED <<kind, result>>
      BY <1>7 DEF Receive, dispatchVars
    <3> QED BY <3>1, <3>2, AnswerRecorded
  <2>2. RegistryLive' /\ PendingConnected' /\ AnonymousBeforeHello' /\ SuspendedOn'
    BY <1>7 DEF Receive, ResolveAck, Note, handlerVars, ackVars, dispatchVars, Inv, RegistryLive, PendingConnected, AnonymousBeforeHello, SuspendedOn
  <2> QED BY <2>1, <2>2 DEF Inv
<1>8. ASSUME NEW s \in Sockets, NEW n \in Nodes, NEW r \in Requests, NEW t \in Answers, ReceiveLast(s, n, r, t)
      PROVE  Inv'
  <2>1. PendingExact' /\ TruthfulResult' /\ FutureHistory'
    <3>1. /\ pending' \subseteq pending
          /\ \A k \in Keys : \/ future'[k] = future[k]
                            \/ /\ k \in pending
                               /\ future'[k] = "cancelled" \/ (k = <<n, r>> /\ future'[k] = t)
          /\ pending' = {k \in Keys : future'[k] = "waiting"}
          /\ future' \in [Keys -> {"none", "waiting", "cancelled"} \cup AckTypes]
          /\ <<n, r>> \in pending => future'[<<n, r>>] = t
      <4>1. <<n, r>> \in Keys /\ t \in AckTypes /\ t # "waiting"
        OBVIOUS
      <4>2. pending = {k \in Keys : future[k] = "waiting"}
        BY DEF Inv, PendingExact
      <4> QED BY <1>8, <4>1, <4>2 DEF ReceiveLast
    <3>2. Note(n, r, t) /\ UNCHANGED <<kind, result>>
      BY <1>8 DEF ReceiveLast, dispatchVars
    <3> QED BY <3>1, <3>2, AnswerRecorded
  <2>2. RegistryLive' /\ PendingConnected' /\ AnonymousBeforeHello' /\ SuspendedOn'
    BY <1>8 DEF ReceiveLast, Note, FreeSlot, handlerVars, ackVars, dispatchVars, Inv, RegistryLive, PendingConnected, AnonymousBeforeHello, SuspendedOn
  <2> QED BY <2>1, <2>2 DEF Inv
<1>9. ASSUME NEW s \in Sockets, BadMessage(s)
      PROVE  Inv'
  BY <1>9 DEF BadMessage, handlerVars, ackVars, dispatchVars, Inv, RegistryLive, PendingConnected, PendingExact, TruthfulResult, AnonymousBeforeHello, SuspendedOn, FutureHistory
<1>10. ASSUME NEW s \in Sockets, ErrorSent(s)
      PROVE  Inv'
  BY <1>10 DEF ErrorSent, handlerVars, ackVars, dispatchVars, Inv, RegistryLive, PendingConnected, PendingExact, TruthfulResult, AnonymousBeforeHello, SuspendedOn, FutureHistory
<1>11. ASSUME NEW s \in Sockets, Leave(s)
      PROVE  Inv'
  BY <1>11 DEF Leave, Ending, Disconnect, FreeSlot, handlerVars, ackVars, dispatchVars, Inv, RegistryLive, PendingConnected, PendingExact, TruthfulResult, AnonymousBeforeHello, SuspendedOn, FutureHistory
<1>12. ASSUME NEW s \in Sockets, PeerGone(s)
      PROVE  Inv'
  BY <1>12 DEF PeerGone, handlerVars, ackVars, dispatchVars, Inv, RegistryLive, PendingConnected, PendingExact, TruthfulResult, AnonymousBeforeHello, SuspendedOn, FutureHistory
<1>13. ASSUME NEW n \in Nodes, NEW e \in Rows, Provision(n, e)
      PROVE  Inv'
  BY <1>13 DEF Provision, handlerVars, ackVars, dispatchVars, Inv, RegistryLive, PendingConnected, PendingExact, TruthfulResult, AnonymousBeforeHello, SuspendedOn, FutureHistory
<1>14. ASSUME NEW n \in Nodes, NEW e \in Rows, SetEnabled(n, e)
      PROVE  Inv'
  BY <1>14 DEF SetEnabled, handlerVars, ackVars, dispatchVars, Inv, RegistryLive, PendingConnected, PendingExact, TruthfulResult, AnonymousBeforeHello, SuspendedOn, FutureHistory
<1>15. ASSUME NEW r \in Requests, NEW k \in {"play", "stop"}, NEW T \in SUBSET Nodes, StartDispatch(r, k, T)
      PROVE  Inv'
  <2>1. \A x \in Keys : x[2] = r => result[x] = "none"
    <3>1. \A m \in Nodes : result[<<m, r>>] = "none"
      BY <1>15 DEF StartDispatch, Inv, SuspendedOn
    <3>2. \A x \in Keys : x[1] \in Nodes /\ x = <<x[1], x[2]>>
      OBVIOUS
    <3> QED BY <3>1, <3>2
  <2>2. \A x \in Keys : \/ result'[x] = result[x]
                       \/ (result[x] = "none" /\ result'[x] \in {"missing", "disabled", "todo"})
    <3>1. result' = [x \in Keys |-> IF x[2] = r /\ x[1] \in T
                                   THEN Unsent(k, x[1]) ELSE result[x]]
      BY <1>15 DEF StartDispatch
    <3> QED BY <3>1, <2>1, UnsentFacts
  <2>3. PendingExact'
    BY <1>15, <2>2 DEF StartDispatch, ackVars, Inv, PendingExact
  <2>4. FutureHistory'
    BY <1>15, <2>2 DEF StartDispatch, ackVars, Inv, FutureHistory
  <2>5. TruthfulResult'
    <3> SUFFICES ASSUME NEW m \in Nodes, NEW q \in Requests
                 PROVE  TruthfulResult!(m, q)'
      BY DEF TruthfulResult
    <3>1. CASE q = r
      BY <3>1, <1>15, <2>1, <2>2 DEF StartDispatch
    <3>2. CASE q # r
      BY <3>2, <1>15 DEF StartDispatch, Inv, TruthfulResult
    <3> QED BY <3>1, <3>2
  <2>6. RegistryLive' /\ PendingConnected' /\ AnonymousBeforeHello' /\ SuspendedOn'
    BY <1>15 DEF StartDispatch, Unsent, handlerVars, ackVars, dispatchVars, Inv, RegistryLive, PendingConnected, AnonymousBeforeHello, SuspendedOn
  <2> QED BY <2>3, <2>4, <2>5, <2>6 DEF Inv
<1>16. ASSUME NEW r \in Requests, NEW n \in Nodes, NotConnected(r, n)
      PROVE  Inv'
  <2>1. <<n, r>> \notin pending /\ future[<<n, r>>] = "none"
    BY <1>16 DEF NotConnected, Inv, PendingExact, FutureHistory
  <2>2. PendingExact'
    BY <1>16, <2>1 DEF NotConnected, ackVars, Inv, PendingExact
  <2>3. TruthfulResult'
    BY <1>16 DEF NotConnected, Inv, TruthfulResult
  <2>4. FutureHistory'
    BY <1>16, <2>1 DEF NotConnected, ackVars, Inv, FutureHistory
  <2>5. RegistryLive' /\ PendingConnected' /\ AnonymousBeforeHello' /\ SuspendedOn'
    BY <1>16 DEF NotConnected, handlerVars, ackVars, dispatchVars, Inv, RegistryLive, PendingConnected, AnonymousBeforeHello, SuspendedOn
  <2> QED BY <2>2, <2>3, <2>4, <2>5 DEF Inv
<1>17. ASSUME NEW r \in Requests, NEW n \in Nodes, SendRefused(r, n)
      PROVE  Inv'
  <2>1. <<n, r>> \notin pending /\ future[<<n, r>>] = "none"
    BY <1>17 DEF SendRefused, Inv, PendingExact, FutureHistory
  <2>2. PendingExact'
    BY <1>17, <2>1 DEF SendRefused, ackVars, Inv, PendingExact
  <2>3. TruthfulResult'
    BY <1>17 DEF SendRefused, Inv, TruthfulResult
  <2>4. FutureHistory'
    BY <1>17, <2>1 DEF SendRefused, ackVars, Inv, FutureHistory
  <2>5. RegistryLive' /\ PendingConnected' /\ AnonymousBeforeHello' /\ SuspendedOn'
    BY <1>17 DEF SendRefused, handlerVars, ackVars, dispatchVars, Inv, RegistryLive, PendingConnected, AnonymousBeforeHello, SuspendedOn
  <2> QED BY <2>2, <2>3, <2>4, <2>5 DEF Inv
<1>18. ASSUME NEW r \in Requests, NEW n \in Nodes, BeginSend(r, n)
      PROVE  Inv'
  <2>1. PendingExact'
    BY <1>18 DEF BeginSend, handlerVars, ackVars, dispatchVars, Inv, PendingExact
  <2>2. TruthfulResult'
    BY <1>18 DEF BeginSend, Inv, TruthfulResult
  <2>5. FutureHistory'
    BY <1>18 DEF BeginSend, Inv, FutureHistory
  <2>3. RegistryLive' /\ PendingConnected' /\ AnonymousBeforeHello'
    BY <1>18 DEF BeginSend, handlerVars, ackVars, dispatchVars, Inv, RegistryLive, PendingConnected, AnonymousBeforeHello
  <2>4. SuspendedOn'
    BY <1>18 DEF BeginSend, handlerVars, ackVars, dispatchVars, Inv, SuspendedOn
  <2> QED BY <2>1, <2>2, <2>3, <2>4, <2>5 DEF Inv
<1>19. ASSUME NEW r \in Requests, SendOk(r)
      PROVE  Inv'
  BY <1>19 DEF SendOk, handlerVars, ackVars, dispatchVars, Inv, RegistryLive, PendingConnected, PendingExact, TruthfulResult, AnonymousBeforeHello, SuspendedOn, FutureHistory
<1>20. ASSUME NEW r \in Requests, SendFails(r)
      PROVE  Inv'
  BY <1>20 DEF SendFails, CancelAck, handlerVars, ackVars, dispatchVars, Inv, RegistryLive, PendingConnected, PendingExact, TruthfulResult, AnonymousBeforeHello, SuspendedOn, FutureHistory
<1>21. ASSUME NEW r \in Requests, Commit(r)
      PROVE  Inv'
  BY <1>21 DEF Commit, Left, handlerVars, ackVars, dispatchVars, Inv, RegistryLive, PendingConnected, PendingExact, TruthfulResult, AnonymousBeforeHello, SuspendedOn, FutureHistory
<1>22. ASSUME NEW r \in Requests, CommitFails(r)
      PROVE  Inv'
  BY <1>22 DEF CommitFails, handlerVars, ackVars, dispatchVars, Inv, RegistryLive, PendingConnected, PendingExact, TruthfulResult, AnonymousBeforeHello, SuspendedOn, FutureHistory
<1>23. ASSUME NEW r \in Requests, NEW n \in Nodes, CollectReady(r, n)
      PROVE  Inv'
  <2>1. PendingExact' /\ TruthfulResult' /\ FutureHistory'
    BY <1>23, FutureCollected DEF CollectReady
  <2>2. RegistryLive' /\ PendingConnected' /\ AnonymousBeforeHello'
    BY <1>23 DEF CollectReady, handlerVars, Inv, RegistryLive, PendingConnected, AnonymousBeforeHello
  <2>3. SuspendedOn'
    <3>1. Reading(kind[r], future[<<n, r>>]) \notin {"todo", "sending", "sent"}
      BY ReadingFacts
    <3>2. /\ phase[r] = "collect" /\ phase' = phase /\ cur' = cur
          /\ result' = [result EXCEPT ![<<n, r>>] = Reading(kind[r], future[<<n, r>>])]
      BY <1>23 DEF CollectReady
    <3>3. \A m \in Nodes, q \in Requests :
             /\ result'[<<m, q>>] = result[<<m, q>>] \/ (m = n /\ q = r)
             /\ result'[<<n, r>>] \notin {"todo", "sending", "sent"}
      BY <3>1, <3>2
    <3>4. ASSUME NEW q \in Requests
          PROVE  /\ phase'[q] = "sending" => /\ cur'[q] \in Nodes
                                             /\ result'[<<cur'[q], q>>] = "sending"
                 /\ phase'[q] = "waiting" => /\ cur'[q] \in Nodes
                                             /\ result'[<<cur'[q], q>>] = "sent"
                 /\ phase'[q] = "idle" => \A m \in Nodes : result'[<<m, q>>] = "none"
      <4>1. CASE q = r
        BY <4>1, <3>2
      <4>2. CASE q # r
        BY <4>2, <3>2, <3>3 DEF Inv, SuspendedOn
      <4> QED BY <4>1, <4>2
    <3>5. ASSUME NEW q \in Requests, NEW m \in Nodes
          PROVE  /\ result'[<<m, q>>] = "sending" => phase'[q] = "sending" /\ cur'[q] = m
                 /\ phase'[q] \in {"collect", "waiting"} => result'[<<m, q>>] # "todo"
      <4>1. CASE m = n /\ q = r
        BY <4>1, <3>3
      <4>2. CASE ~(m = n /\ q = r)
        <5>1. result'[<<m, q>>] = result[<<m, q>>]
          BY <4>2, <3>3
        <5>2. /\ result[<<m, q>>] = "sending" => phase[q] = "sending" /\ cur[q] = m
              /\ phase[q] \in {"collect", "waiting"} => result[<<m, q>>] # "todo"
          BY DEF Inv, SuspendedOn
        <5>3. phase' = phase /\ cur' = cur
          BY <3>2
        <5> QED BY <5>1, <5>2, <5>3
      <4> QED BY <4>1, <4>2
    <3> QED BY <3>4, <3>5 DEF SuspendedOn
  <2> QED BY <2>1, <2>2, <2>3 DEF Inv
<1>24. ASSUME NEW r \in Requests, NEW n \in Nodes, BeginWait(r, n)
      PROVE  Inv'
  <2>1. PendingExact'
    BY <1>24 DEF BeginWait, handlerVars, ackVars, dispatchVars, Inv, PendingExact
  <2>2. TruthfulResult'
    BY <1>24 DEF BeginWait, ackVars, Inv, TruthfulResult
  <2>5. FutureHistory'
    BY <1>24 DEF BeginWait, ackVars, Inv, FutureHistory
  <2>3. RegistryLive' /\ PendingConnected' /\ AnonymousBeforeHello'
    BY <1>24 DEF BeginWait, handlerVars, ackVars, dispatchVars, Inv, RegistryLive, PendingConnected, AnonymousBeforeHello
  <2>4. SuspendedOn'
    BY <1>24 DEF BeginWait, handlerVars, ackVars, dispatchVars, Inv, SuspendedOn
  <2> QED BY <2>1, <2>2, <2>3, <2>4, <2>5 DEF Inv
<1>25. ASSUME NEW r \in Requests, Woken(r)
      PROVE  Inv'
  <2>1. PendingExact' /\ TruthfulResult' /\ FutureHistory'
    BY <1>25, FutureCollected DEF Woken, Inv, SuspendedOn
  <2>2. RegistryLive' /\ PendingConnected' /\ AnonymousBeforeHello'
    BY <1>25 DEF Woken, handlerVars, Inv, RegistryLive, PendingConnected, AnonymousBeforeHello
  <2>3. SuspendedOn'
    <3>1. Reading(kind[r], future[<<cur[r], r>>]) \notin {"todo", "sending", "sent"}
      BY ReadingFacts
    <3> QED BY <1>25, <3>1 DEF Woken, Inv, SuspendedOn
  <2> QED BY <2>1, <2>2, <2>3 DEF Inv
<1>26. ASSUME NEW r \in Requests, Timeout(r)
      PROVE  Inv'
  BY <1>26 DEF Timeout, CancelAck, handlerVars, ackVars, dispatchVars, Inv, RegistryLive, PendingConnected, PendingExact, TruthfulResult, AnonymousBeforeHello, SuspendedOn, FutureHistory
<1>27. ASSUME NEW r \in Requests, Return(r)
      PROVE  Inv'
  BY <1>27 DEF Return, handlerVars, ackVars, dispatchVars, Inv, RegistryLive, PendingConnected, PendingExact, TruthfulResult, AnonymousBeforeHello, SuspendedOn, FutureHistory
<1>28. CASE UNCHANGED vars
  BY <1>28 DEF vars, Inv, RegistryLive, PendingConnected, PendingExact, TruthfulResult, AnonymousBeforeHello, SuspendedOn, FutureHistory
<1> QED
  BY <1>1, <1>2, <1>3, <1>4, <1>5, <1>6, <1>7, <1>8, <1>9, <1>10, <1>11, <1>12, <1>13, <1>14, <1>15, <1>16, <1>17, <1>18, <1>19, <1>20, <1>21, <1>22, <1>23, <1>24, <1>25, <1>26, <1>27, <1>28 DEF Next, HandlerStep, NodeStep, AdminStep, DispatchStep

LEMMA InvInit == Init => Inv
BY DispatchAssumption
   DEF Init, Inv, RegistryLive, PendingConnected, PendingExact, TruthfulResult,
       AnonymousBeforeHello, SuspendedOn, FutureHistory, Keys, AckTypes

-----------------------------------------------------------------------------
\* Every variable keeps its type: the state the handlers and the dispatches
\* leave at an await is one the next of them can work with.
THEOREM TypeCorrect == Spec => []TypeOK
<1>1. Init => TypeOK /\ Inv
  BY TypeOKInit, InvInit
<1>2. TypeOK /\ Inv /\ [Next]_vars => TypeOK' /\ Inv'
  <2>1. Inv => CurIsNode
    BY DEF Inv, SuspendedOn, CurIsNode
  <2> QED BY <2>1, TypeOKStep, InvStep
<1> QED BY <1>1, <1>2, PTL DEF Spec

\* Registry, acknowledgement table, handlers and dispatches agree with each
\* other in every reachable state (manager.py:22-77).
THEOREM Consistent == Spec => []Inv
<1>1. Init => TypeOK /\ Inv
  BY TypeOKInit, InvInit
<1>2. TypeOK /\ Inv /\ [Next]_vars => TypeOK' /\ Inv'
  <2>1. Inv => CurIsNode
    BY DEF Inv, SuspendedOn, CurIsNode
  <2> QED BY <2>1, TypeOKStep, InvStep
<1> QED BY <1>1, <1>2, PTL DEF Spec

\* A registered socket belongs to a running handler of that node
\* (manager.py:22-38).
THEOREM RegistryIsLive == Spec => []RegistryLive
BY Consistent, PTL DEF Inv

\* Acknowledgements are awaited only from registered nodes (manager.py:29-38).
THEOREM AcksAreConnected == Spec => []PendingConnected
BY Consistent, PTL DEF Inv

\* The acknowledgement table and the unsettled futures are the same, and each
\* belongs to a command under way (manager.py:53-77).
THEOREM TableIsExact == Spec => []PendingExact
BY Consistent, PTL DEF Inv

\* What the caller reads about a node is the node's first answer to this
\* command, for any number of concurrent commands, nodes and reconnections
\* (playback_service.py:261-350).
THEOREM ResultsAreTruthful == Spec => []TruthfulResult
BY Consistent, PTL DEF Inv
=============================================================================
