------------------------- MODULE CommandPromiseProofs -------------------------
(***************************************************************************)
(* CommandDispatch implements CommandPromise, for any nodes, sockets and   *)
(* commands.                                                               *)
(***************************************************************************)
EXTENDS CommandDispatchProofs

stage == [r \in Requests |-> Stage(phase[r])]
verdict == [k \in Keys |-> Verdict(result[k])]

\* A step that neither moves a dispatch to another stage nor changes a verdict
\* or a first answer is one the caller does not see.
LEMMA Unseen ==
    ASSUME UNCHANGED <<stage, kind, verdict, first>>
    PROVE  UNCHANGED Promise!vars
BY DEF stage, verdict, Promise!vars, Keys

\* The verdicts a command under way may end in for a node.
Allowed(n, r, v) ==
    \/ v \in {"offline", "timeout"}
    \/ /\ first[<<n, r>>] # "nothing"
       /\ v = Promise!Meaning(kind[r], first[<<n, r>>])

\* One target is judged: NotConnected, SendRefused, SendFails, CollectReady,
\* Woken and Timeout.
LEMMA Judged ==
    ASSUME TypeOK, Inv, NEW n \in Nodes, NEW r \in Requests, NEW v,
           Stage(phase[r]) = "open",
           result[<<n, r>>] \in {"todo", "sending", "sent"},
           v \notin {"todo", "sending", "sent"},
           Allowed(n, r, v),
           result' = [result EXCEPT ![<<n, r>>] = v],
           UNCHANGED <<stage, kind, first>>
    PROVE  Promise!Decide(n, r)
<1>k. <<n, r>> \in Keys
  BY DEF Keys
<1>1. stage[r] = "open"
  BY DEF stage
<1>2. verdict[<<n, r>>] = "undecided"
  BY <1>k DEF verdict, Verdict
<1>3. verdict' = [verdict EXCEPT ![<<n, r>>] = v]
  BY <1>k DEF verdict, Verdict, TypeOK
<1> QED BY <1>1, <1>2, <1>3 DEF Allowed, Promise!Decide, stage, verdict, Promise!Keys, Keys

\* An answer means to the caller what the dispatch reads from it.
LEMMA SameMeaning ==
    ASSUME NEW k \in {"play", "stop"}, NEW t \in AckTypes
    PROVE  /\ Promise!Meaning(k, t) = Reading(k, t)
           /\ Reading(k, t) \notin {"todo", "sending", "sent"}
BY DEF Promise!Meaning, Reading, AckTypes

LEMMA FutureJudged ==
    ASSUME TypeOK, Inv, NEW n \in Nodes, NEW r \in Requests,
           phase[r] \in {"collect", "waiting"},
           result[<<n, r>>] = "sent",
           future[<<n, r>>] # "waiting",
           result' = [result EXCEPT ![<<n, r>>] = Reading(kind[r], future[<<n, r>>])],
           UNCHANGED <<stage, kind, first>>
    PROVE  Promise!Decide(n, r)
<1>k. <<n, r>> \in Keys
  BY DEF Keys
<1>o. Stage(phase[r]) = "open"
  BY DEF Stage
<1>1. CASE future[<<n, r>>] = "cancelled"
  <2>1. Reading(kind[r], future[<<n, r>>]) = "timeout"
    BY <1>1, ReadingFacts
  <2> QED BY <1>o, <2>1, Judged DEF Allowed
<1>2. CASE future[<<n, r>>] \in AckTypes
  <2>1. first[<<n, r>>] = future[<<n, r>>] /\ first[<<n, r>>] # "nothing"
    BY <1>k, <1>2 DEF Inv, FutureHistory, AckTypes
  <2>2. kind[r] \in {"play", "stop"}
    BY DEF TypeOK
  <2>3. /\ Reading(kind[r], future[<<n, r>>]) \notin {"todo", "sending", "sent"}
        /\ Allowed(n, r, Reading(kind[r], future[<<n, r>>]))
    BY <1>2, <2>1, <2>2, SameMeaning DEF Allowed
  <2> QED BY <1>o, <2>3, Judged
<1> QED BY <1>k, <1>1, <1>2 DEF TypeOK, Inv, FutureHistory

\* The first answer to a command is heard while its target is undecided.
LEMMA AnswerHeard ==
    ASSUME TypeOK, NEW n \in Nodes, NEW r \in Requests, NEW t \in Answers,
           Note(n, r, t), UNCHANGED <<phase, kind, result>>
    PROVE  [Promise!Next]_(Promise!vars)
<1>k. <<n, r>> \in Keys
  BY DEF Keys
<1>u. UNCHANGED <<stage, verdict>>
  BY DEF stage, verdict
<1>1. CASE first[<<n, r>>] = "nothing" /\ result[<<n, r>>] \in {"sending", "sent"}
  <2>1. verdict[<<n, r>>] = "undecided"
    BY <1>1, <1>k DEF verdict, Verdict
  <2>2. Promise!Hear(n, r, t)
    BY <1>1, <1>u, <2>1 DEF Note, Promise!Hear, stage, verdict
  <2> QED BY <2>2 DEF Promise!Next
<1>2. CASE ~(first[<<n, r>>] = "nothing" /\ result[<<n, r>>] \in {"sending", "sent"})
  BY <1>2, <1>u, Unseen DEF Note
<1> QED BY <1>1, <1>2

\* Accepting a request judges the targets that need no command.
LEMMA Asked ==
    ASSUME TypeOK, Inv, NEW r \in Requests, NEW k \in {"play", "stop"},
           NEW T \in SUBSET Nodes, StartDispatch(r, k, T)
    PROVE  [Promise!Next]_(Promise!vars)
<1> DEFINE judged == [m \in T |-> Verdict(Unsent(k, m))]
<1>1. judged \in [T -> {"undecided", "missing"}
                         \cup (IF k = "play" THEN {"disabled"} ELSE {})]
  BY DEF Verdict, Unsent
<1>2. verdict' = [x \in Keys |-> IF x[2] = r /\ x[1] \in T
                                 THEN judged[x[1]] ELSE verdict[x]]
  BY DEF StartDispatch, verdict
<1>3. stage[r] = "idle" /\ stage' = [stage EXCEPT ![r] = "open"]
  BY DEF StartDispatch, stage, Stage, TypeOK
<1>4. kind' = [kind EXCEPT ![r] = k] /\ first' = first
  BY DEF StartDispatch
<1>5. Promise!Ask(r, k, T)
  BY <1>1, <1>2, <1>3, <1>4 DEF Promise!Ask, stage, verdict, Promise!Keys, Keys
<1> QED BY <1>5 DEF Promise!Next

\* At the end of the collection every target has its verdict.
LEMMA NothingTodo ==
    ASSUME TypeOK, Inv, NEW r \in Requests, phase[r] = "collect", Left(r, "sent") = {}
    PROVE  \A n \in Nodes : verdict[<<n, r>>] # "undecided"
<1> SUFFICES ASSUME NEW n \in Nodes PROVE verdict[<<n, r>>] # "undecided"
  OBVIOUS
<1>1. result[<<n, r>>] \notin {"todo", "sending", "sent"}
  BY DEF Inv, SuspendedOn, Left
<1>2. <<n, r>> \in Keys /\ result[<<n, r>>] # "undecided"
  BY DEF TypeOK, Keys, Final
<1> QED BY <1>1, <1>2 DEF verdict, Verdict

LEMMA PromiseStep ==
    ASSUME TypeOK, Inv, [Next]_vars
    PROVE  [Promise!Next]_(Promise!vars)
<1> USE DEF TypeOK
<1>1. ASSUME NEW s \in Sockets, Open(s)
      PROVE  [Promise!Next]_(Promise!vars)
  BY <1>1, Unseen DEF Open, dispatchVars, stage, verdict
<1>2. ASSUME NEW s \in Sockets, NEW n \in Nodes, AcceptHello(s, n)
      PROVE  [Promise!Next]_(Promise!vars)
  BY <1>2, Unseen DEF AcceptHello, dispatchVars, stage, verdict
<1>3. ASSUME NEW s \in Sockets, NEW n \in Nodes, HelloMeetsClosed(s, n)
      PROVE  [Promise!Next]_(Promise!vars)
  BY <1>3, Unseen DEF HelloMeetsClosed, dispatchVars, stage, verdict
<1>4. ASSUME NEW s \in Sockets, RejectHello(s)
      PROVE  [Promise!Next]_(Promise!vars)
  BY <1>4, Unseen DEF RejectHello, dispatchVars, stage, verdict
<1>5. ASSUME NEW s \in Sockets, Replaced(s)
      PROVE  [Promise!Next]_(Promise!vars)
  BY <1>5, Unseen DEF Replaced, dispatchVars, stage, verdict
<1>6. ASSUME NEW s \in Sockets, Greeted(s)
      PROVE  [Promise!Next]_(Promise!vars)
  BY <1>6, Unseen DEF Greeted, dispatchVars, stage, verdict
<1>7. ASSUME NEW s \in Sockets, NEW n \in Nodes, NEW r \in Requests, NEW t \in Answers, Receive(s, n, r, t)
      PROVE  [Promise!Next]_(Promise!vars)
  BY <1>7, AnswerHeard DEF Receive, dispatchVars
<1>8. ASSUME NEW s \in Sockets, NEW n \in Nodes, NEW r \in Requests, NEW t \in Answers, ReceiveLast(s, n, r, t)
      PROVE  [Promise!Next]_(Promise!vars)
  BY <1>8, AnswerHeard DEF ReceiveLast, dispatchVars
<1>9. ASSUME NEW s \in Sockets, BadMessage(s)
      PROVE  [Promise!Next]_(Promise!vars)
  BY <1>9, Unseen DEF BadMessage, dispatchVars, stage, verdict
<1>10. ASSUME NEW s \in Sockets, ErrorSent(s)
      PROVE  [Promise!Next]_(Promise!vars)
  BY <1>10, Unseen DEF ErrorSent, dispatchVars, stage, verdict
<1>11. ASSUME NEW s \in Sockets, Leave(s)
      PROVE  [Promise!Next]_(Promise!vars)
  BY <1>11, Unseen DEF Leave, dispatchVars, stage, verdict
<1>12. ASSUME NEW s \in Sockets, PeerGone(s)
      PROVE  [Promise!Next]_(Promise!vars)
  BY <1>12, Unseen DEF PeerGone, dispatchVars, stage, verdict
<1>13. ASSUME NEW n \in Nodes, NEW e \in Rows, Provision(n, e)
      PROVE  [Promise!Next]_(Promise!vars)
  BY <1>13, Unseen DEF Provision, dispatchVars, stage, verdict
<1>14. ASSUME NEW n \in Nodes, NEW e \in Rows, SetEnabled(n, e)
      PROVE  [Promise!Next]_(Promise!vars)
  BY <1>14, Unseen DEF SetEnabled, dispatchVars, stage, verdict
<1>15. ASSUME NEW r \in Requests, NEW k \in {"play", "stop"}, NEW T \in SUBSET Nodes, StartDispatch(r, k, T)
      PROVE  [Promise!Next]_(Promise!vars)
  BY <1>15, Asked
<1>16. ASSUME NEW r \in Requests, NEW n \in Nodes, NotConnected(r, n)
      PROVE  [Promise!Next]_(Promise!vars)
  <2>1. UNCHANGED <<stage, kind, first>>
    BY <1>16 DEF NotConnected, stage
  <2>2. Promise!Decide(n, r)
    <3>1. /\ Stage(phase[r]) = "open"
          /\ result[<<n, r>>] = "todo"
          /\ result' = [result EXCEPT ![<<n, r>>] = "offline"]
      BY <1>16 DEF NotConnected, Stage
    <3> QED BY <2>1, <3>1, Judged DEF Allowed
  <2> QED BY <2>2 DEF Promise!Next
<1>17. ASSUME NEW r \in Requests, NEW n \in Nodes, SendRefused(r, n)
      PROVE  [Promise!Next]_(Promise!vars)
  <2>1. UNCHANGED <<stage, kind, first>>
    BY <1>17 DEF SendRefused, stage
  <2>2. Promise!Decide(n, r)
    <3>1. /\ Stage(phase[r]) = "open"
          /\ result[<<n, r>>] = "todo"
          /\ result' = [result EXCEPT ![<<n, r>>] = "offline"]
      BY <1>17 DEF SendRefused, Stage
    <3> QED BY <2>1, <3>1, Judged DEF Allowed
  <2> QED BY <2>2 DEF Promise!Next
<1>18. ASSUME NEW r \in Requests, NEW n \in Nodes, BeginSend(r, n)
      PROVE  [Promise!Next]_(Promise!vars)
  <2>1. UNCHANGED <<stage, kind, first>>
    BY <1>18 DEF BeginSend, stage, Stage
  <2>2. UNCHANGED verdict
    <3>1. \A x \in Keys : Verdict(result'[x]) = Verdict(result[x])
      BY <1>18 DEF BeginSend, Verdict
    <3> QED BY <3>1 DEF verdict
  <2> QED BY <2>1, <2>2, Unseen
<1>19. ASSUME NEW r \in Requests, SendOk(r)
      PROVE  [Promise!Next]_(Promise!vars)
  <2>1. UNCHANGED <<stage, kind, first>>
    BY <1>19 DEF SendOk, stage, Stage
  <2>2. UNCHANGED verdict
    BY <1>19 DEF SendOk, verdict, Verdict, Inv, SuspendedOn, Keys
  <2> QED BY <2>1, <2>2, Unseen
<1>20. ASSUME NEW r \in Requests, SendFails(r)
      PROVE  [Promise!Next]_(Promise!vars)
  <2>1. cur[r] \in Nodes /\ result[<<cur[r], r>>] \in {"sending", "sent"}
    BY <1>20 DEF SendFails, Inv, SuspendedOn
  <2>2. UNCHANGED <<stage, kind, first>>
    BY <1>20 DEF SendFails, stage, Stage
  <2>3. Promise!Decide(cur[r], r)
    <3>1. /\ Stage(phase[r]) = "open"
          /\ result' = [result EXCEPT ![<<cur[r], r>>] = "offline"]
      BY <1>20 DEF SendFails, Stage
    <3>2. Allowed(cur[r], r, "offline")
      BY DEF Allowed
    <3>3. result[<<cur[r], r>>] \in {"todo", "sending", "sent"}
      BY <2>1
    <3> HIDE DEF TypeOK
    <3> QED BY <2>1, <2>2, <3>1, <3>2, <3>3, Judged
  <2> QED BY <2>1, <2>3 DEF Promise!Next
<1>21. ASSUME NEW r \in Requests, Commit(r)
      PROVE  [Promise!Next]_(Promise!vars)
  <2>1. UNCHANGED <<stage, kind, first>>
    BY <1>21 DEF Commit, stage, Stage
  <2>2. UNCHANGED verdict
    BY <1>21 DEF Commit, verdict, Verdict, Inv, SuspendedOn, Keys
  <2> QED BY <2>1, <2>2, Unseen
<1>22. ASSUME NEW r \in Requests, CommitFails(r)
      PROVE  [Promise!Next]_(Promise!vars)
  <2>1. Promise!Fail(r)
    BY <1>22 DEF CommitFails, Promise!Fail, stage, verdict, Stage
  <2> QED BY <2>1 DEF Promise!Next
<1>23. ASSUME NEW r \in Requests, NEW n \in Nodes, CollectReady(r, n)
      PROVE  [Promise!Next]_(Promise!vars)
  <2>1. n \in Nodes /\ result[<<n, r>>] = "sent" /\ future[<<n, r>>] # "waiting"
    BY <1>23 DEF CollectReady, Inv, SuspendedOn
  <2>2. UNCHANGED <<stage, kind, first>>
    BY <1>23 DEF CollectReady, stage, Stage
  <2>3. result' = [result EXCEPT ![<<n, r>>] = Reading(kind[r], future[<<n, r>>])]
    BY <1>23 DEF CollectReady
  <2>4. phase[r] \in {"collect", "waiting"}
    BY <1>23 DEF CollectReady
  <2>5. Promise!Decide(n, r)
    BY <2>1, <2>2, <2>3, <2>4, FutureJudged
  <2> QED BY <2>1, <2>5 DEF Promise!Next
<1>24. ASSUME NEW r \in Requests, NEW n \in Nodes, BeginWait(r, n)
      PROVE  [Promise!Next]_(Promise!vars)
  <2>1. UNCHANGED <<stage, kind, first>>
    BY <1>24 DEF BeginWait, stage, Stage
  <2>2. UNCHANGED verdict
    BY <1>24 DEF BeginWait, verdict, Verdict, Inv, SuspendedOn, Keys
  <2> QED BY <2>1, <2>2, Unseen
<1>25. ASSUME NEW r \in Requests, Woken(r)
      PROVE  [Promise!Next]_(Promise!vars)
  <2>1. cur[r] \in Nodes /\ result[<<cur[r], r>>] = "sent" /\ future[<<cur[r], r>>] # "waiting"
    BY <1>25 DEF Woken, Inv, SuspendedOn
  <2>2. UNCHANGED <<stage, kind, first>>
    BY <1>25 DEF Woken, stage, Stage
  <2>3. result' = [result EXCEPT ![<<cur[r], r>>] = Reading(kind[r], future[<<cur[r], r>>])]
    BY <1>25 DEF Woken
  <2>4. phase[r] \in {"collect", "waiting"}
    BY <1>25 DEF Woken
  <2>5. Promise!Decide(cur[r], r)
    BY <2>1, <2>2, <2>3, <2>4, FutureJudged
  <2> QED BY <2>1, <2>5 DEF Promise!Next
<1>26. ASSUME NEW r \in Requests, Timeout(r)
      PROVE  [Promise!Next]_(Promise!vars)
  <2>1. cur[r] \in Nodes /\ result[<<cur[r], r>>] \in {"sending", "sent"}
    BY <1>26 DEF Timeout, Inv, SuspendedOn
  <2>2. UNCHANGED <<stage, kind, first>>
    BY <1>26 DEF Timeout, stage, Stage
  <2>3. Promise!Decide(cur[r], r)
    <3>1. /\ Stage(phase[r]) = "open"
          /\ result' = [result EXCEPT ![<<cur[r], r>>] = "timeout"]
      BY <1>26 DEF Timeout, Stage
    <3>2. Allowed(cur[r], r, "timeout")
      BY DEF Allowed
    <3>3. result[<<cur[r], r>>] \in {"todo", "sending", "sent"}
      BY <2>1
    <3> HIDE DEF TypeOK
    <3> QED BY <2>1, <2>2, <3>1, <3>2, <3>3, Judged
  <2> QED BY <2>1, <2>3 DEF Promise!Next
<1>27. ASSUME NEW r \in Requests, Return(r)
      PROVE  [Promise!Next]_(Promise!vars)
  <2>1. Promise!Answer(r)
    BY <1>27, NothingTodo DEF Return, Promise!Answer, stage, Stage, verdict
  <2> QED BY <2>1 DEF Promise!Next
<1>28. CASE UNCHANGED vars
  BY <1>28, Unseen DEF vars, stage, verdict
<1> QED
  BY <1>1, <1>2, <1>3, <1>4, <1>5, <1>6, <1>7, <1>8, <1>9, <1>10, <1>11, <1>12, <1>13, <1>14, <1>15, <1>16, <1>17, <1>18, <1>19, <1>20, <1>21, <1>22, <1>23, <1>24, <1>25, <1>26, <1>27, <1>28 DEF Next, HandlerStep, NodeStep, AdminStep, DispatchStep

LEMMA PromiseInit == Init => Promise!Init
BY DEF Init, Promise!Init, Stage, Verdict, Promise!Keys, Keys

\* The dispatch implements the promise, for any nodes, sockets and commands: no
\* interleaving of reconnections, losses, timeouts and late answers gives a
\* target two verdicts, or one the node did not give (playback_service.py).
THEOREM DispatchKeepsPromise == Spec => KeepsPromise
<1>1. TypeOK /\ Inv /\ [Next]_vars => [Promise!Next]_(Promise!vars)
  BY PromiseStep
<1> QED BY <1>1, PromiseInit, TypeCorrect, Consistent, PTL
        DEF Spec, KeepsPromise, Promise!Spec
=============================================================================
