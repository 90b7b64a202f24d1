---------------------------- MODULE CommandPromise ----------------------------
(***************************************************************************)
(* What a PLAY or STOP request promises its caller, without sockets,       *)
(* futures or timers: every target gets one verdict, a verdict never       *)
(* changes, a verdict that speaks for the node is the meaning of the first *)
(* thing the node said about this command, a node reported as missing or   *)
(* disabled never heard of it, and a response leaves no target out.        *)
(* CommandDispatch implements it.                                          *)
(***************************************************************************)
CONSTANTS Nodes, Requests, Answers

VARIABLES
    stage,    \* "idle", "open", "answered" or "failed" (the caller gets a 500)
    kind,     \* "play" or "stop"
    verdict,  \* per node and command
    heard     \* the first thing the node said about the command

vars == <<stage, kind, verdict, heard>>

Keys == Nodes \X Requests

Init ==
    /\ stage = [r \in Requests |-> "idle"]
    /\ kind = [r \in Requests |-> "play"]
    /\ verdict = [k \in Keys |-> "none"]
    /\ heard = [k \in Keys |-> "nothing"]

\* A request for the nodes in T; some need no command to be judged.
Ask(r, k, T) ==
    /\ stage[r] = "idle"
    /\ stage' = [stage EXCEPT ![r] = "open"]
    /\ kind' = [kind EXCEPT ![r] = k]
    /\ \E judged \in [T -> {"undecided", "missing"}
                            \cup (IF k = "play" THEN {"disabled"} ELSE {})] :
         verdict' = [x \in Keys |-> IF x[2] = r /\ x[1] \in T
                                    THEN judged[x[1]] ELSE verdict[x]]
    /\ UNCHANGED heard

\* The node speaks while the command is undecided; only its first word counts.
Hear(n, r, t) ==
    /\ verdict[<<n, r>>] = "undecided"
    /\ heard[<<n, r>>] = "nothing"
    /\ heard' = [heard EXCEPT ![<<n, r>>] = t]
    /\ UNCHANGED <<stage, kind, verdict>>

Meaning(k, t) ==
    CASE k = "play" /\ t = "PLAYBACK_STARTED" -> "started"
      [] k = "stop" /\ t = "PLAYBACK_STOPPED" -> "stopped"
      [] t = "ERROR" \/ (k = "play" /\ t = "PLAYBACK_ERROR") -> "error"
      [] OTHER -> "acknowledged"

\* A target is judged: unreachable, silent, or by what it said.
Decide(n, r) ==
    /\ stage[r] = "open"
    /\ verdict[<<n, r>>] = "undecided"
    /\ \/ verdict' = [verdict EXCEPT ![<<n, r>>] = "offline"]
       \/ verdict' = [verdict EXCEPT ![<<n, r>>] = "timeout"]
       \/ /\ heard[<<n, r>>] # "nothing"
          /\ verdict' = [verdict EXCEPT ![<<n, r>>] = Meaning(kind[r], heard[<<n, r>>])]
    /\ UNCHANGED <<stage, kind, heard>>

Answer(r) ==
    /\ stage[r] = "open"
    /\ \A n \in Nodes : verdict[<<n, r>>] # "undecided"
    /\ stage' = [stage EXCEPT ![r] = "answered"]
    /\ UNCHANGED <<kind, verdict, heard>>

Fail(r) ==
    /\ stage[r] = "open"
    /\ stage' = [stage EXCEPT ![r] = "failed"]
    /\ UNCHANGED <<kind, verdict, heard>>

Next ==
    \/ \E r \in Requests, k \in {"play", "stop"}, T \in SUBSET Nodes : Ask(r, k, T)
    \/ \E n \in Nodes, r \in Requests, t \in Answers : Hear(n, r, t)
    \/ \E n \in Nodes, r \in Requests : Decide(n, r)
    \/ \E r \in Requests : Answer(r) \/ Fail(r)

Spec == Init /\ [][Next]_vars
=============================================================================
