------------------------------ MODULE Enrollment ------------------------------
(***************************************************************************)
(* How a new node gets its token (services/enrollment_service.py): it asks *)
(* for enrollment, an admin approves or rejects, the node polls for the    *)
(* token and says HELLO with it.  One node is enough: requests of two      *)
(* nodes touch no common row.                                              *)
(*                                                                         *)
(* Every route runs in a worker thread, HELLO on the event loop.  A        *)
(* transaction reads rows and later commits the columns it has changed,    *)
(* and only those; nothing locks a row in between.  An approval is two     *)
(* transactions: the node and its token, then the enrollment.              *)
(***************************************************************************)
EXTENDS Integers, FiniteSets

CONSTANTS
    Workers,        \* threads that serve the node and the dashboard
    Admins,         \* the threads among them that serve admin decisions
    MaxRows,        \* bound: enrollment rows
    MaxSecrets,     \* bound: pairing codes and tokens generated
    Loop,           \* the event loop
    None

ASSUME EnrollmentAssumption ==
    /\ Admins \subseteq Workers
    /\ MaxRows \in Nat
    /\ MaxSecrets \in Nat
    /\ Loop \notin Workers
    /\ None \notin Nat

VARIABLES
    enr,        \* the enrollment rows of the node, in order of creation
    token,      \* the token whose hash the node's row holds, None without a row
    device,     \* what the node knows: the pairing code and row it was given
                \* last, and the token
    work,       \* the transaction under way in each thread, or None
    secrets,    \* how many codes and tokens have been generated
    stray,      \* history: whether the node's token was entered by hand, or is of
                \* an approval that broke off, or of one that found the node
                \* without that request in its hands
    contested   \* history: the rows two decisions about which were open at once

history == <<stray, contested>>
vars == <<enr, token, device, work, secrets, stray, contested>>

Ids == 1 .. MaxRows
Secrets == 1 .. MaxSecrets
Threads == Workers \cup {Loop}

\* "code" and "key" are pairing_code and approved_auth_token, "claimed" says
\* that claimed_at is set, "lapsed" that expires_at has passed.
Row == [status : {"absent", "pending", "approved", "rejected", "expired", "enrolled"},
        code : Secrets \cup {None}, key : Secrets \cup {None},
        claimed : BOOLEAN, lapsed : BOOLEAN]

Transaction ==
    [op : {"save", "request", "poll", "provision", "approve", "approved"},
     id : Ids \cup {None}, read : Row, new : Row, insert : BOOLEAN]

ASSUME NoTransactionAssumption == None \notin Transaction

TypeOK ==
    /\ enr \in [Ids -> Row]
    /\ token \in Secrets \cup {None}
    /\ device \in [id : Ids \cup {None}, code : Secrets \cup {None},
                   key : Secrets \cup {None}]
    /\ work \in [Threads -> Transaction \cup {None}]
    /\ secrets \in 0 .. MaxSecrets
    /\ stray \in BOOLEAN
    /\ contested \subseteq Ids

NoRow == [status |-> "absent", code |-> None, key |-> None,
          claimed |-> FALSE, lapsed |-> FALSE]

Init ==
    /\ enr = [e \in Ids |-> NoRow]
    /\ token = None
    /\ device = [id |-> None, code |-> None, key |-> None]
    /\ work = [t \in Threads |-> None]
    /\ secrets = 0
    /\ stray = FALSE
    /\ contested = {}

\* The row after the commit of a transaction that read "read" and left "new".
Merge(r, read, new) ==
    [c \in DOMAIN r |-> IF new[c] # read[c] THEN new[c] ELSE r[c]]

Latest(status) ==
    {e \in Ids : /\ enr[e].status = status
                 /\ \A f \in Ids : enr[f].status = status => f <= e}

\* The id of the next row: rows being inserted have theirs.
Fresh(e) ==
    /\ enr[e].status = "absent"
    /\ \A t \in Threads : work[t] # None => work[t].id # e
    /\ \A f \in 1 .. (e - 1) : enr[f].status # "absent" \/ \E t \in Threads :
                                  work[t] # None /\ work[t].id = f

Generate == secrets < MaxSecrets /\ secrets' = secrets + 1

Start(t, op, e, new) ==
    /\ work[t] = None
    /\ work' = [work EXCEPT ![t] = [op |-> op, id |-> e, read |-> enr[e], new |-> new,
                                    insert |-> op = "approve" /\ token = None]]

\* A decision about request e is under way in thread t.
Deciding(t, e) ==
    /\ work[t] # None /\ work[t].id = e
    /\ \/ work[t].op \in {"approve", "approved"}
       \/ work[t].op = "save" /\ work[t].new.status = "rejected"

Decide(t, op, e, new) ==
    /\ t \in Admins
    /\ Start(t, op, e, new)
    /\ contested' = contested \cup {f \in {e} : \E u \in Threads : Deciding(u, f)}

Finish(t) == work' = [work EXCEPT ![t] = None]

Commit(t) ==
    LET w == work[t]
    IN  enr' = [enr EXCEPT ![w.id] = Merge(@, w.read, w.new)]

-----------------------------------------------------------------------------
(* Enrollment as the node sees it.                                         *)

\* Mutant of Request: a node that is already known may ask again.
MutRequestKnown(t) ==
    /\ t \in Workers
    /\ Generate
    /\ \E e \in Ids :
          /\ IF Latest("pending") # {} THEN e \in Latest("pending") ELSE Fresh(e)
          /\ Start(t, "request", e, [enr[e] EXCEPT !.status = "pending",
                                       !.code = secrets + 1, !.lapsed = FALSE])
    /\ UNCHANGED <<enr, token, device, history>>

\* request_enrollment: a pending row is renewed, whether it has lapsed or not.
Request(t) ==
    /\ t \in Workers
    /\ token = None
    /\ Generate
    /\ \E e \in Ids :
          /\ IF Latest("pending") # {} THEN e \in Latest("pending") ELSE Fresh(e)
          /\ Start(t, "request", e, [enr[e] EXCEPT !.status = "pending",
                                       !.code = secrets + 1, !.lapsed = FALSE])
    /\ UNCHANGED <<enr, token, device, history>>

\* The node may miss the answer; one that has a token by now waits for none.
CommitRequest(t) ==
    /\ work[t] # None /\ work[t].op = "request"
    /\ LET w == work[t]
       IN  enr' = [enr EXCEPT ![w.id] = [Merge(@, w.read, w.new) EXCEPT !.lapsed = FALSE]]
    /\ Finish(t)
    /\ \/ /\ device.key = None
          /\ device' = [device EXCEPT !.id = work[t].id, !.code = work[t].new.code]
       \/ UNCHANGED device
    /\ UNCHANGED <<token, secrets, history>>

\* _mark_expired_if_needed
Lapsed(e) == enr[e].status = "pending" /\ enr[e].lapsed
Expired(e) == [enr[e] EXCEPT !.status = "expired"]

\* get_status_for_node: a lapsed request expires, an approved one is claimed.
Poll(t) ==
    /\ t \in Workers
    /\ device.id # None
    /\ LET e == device.id
       IN  /\ enr[e].code = device.code
           /\ \/ /\ Lapsed(e)
                 /\ Start(t, "poll", e, Expired(e))
              \/ /\ enr[e].status = "approved" /\ ~enr[e].claimed
                 /\ Start(t, "poll", e, [enr[e] EXCEPT !.claimed = TRUE])
              \/ /\ ~Lapsed(e) /\ (enr[e].status = "approved" => enr[e].claimed)
                 /\ Start(t, "poll", e, enr[e])
    /\ UNCHANGED <<enr, token, device, secrets, history>>

\* The answer carries the token of the row, whatever its status; refresh has
\* read the row again if there was something to commit.  The node may miss it,
\* and takes it if it has made no other request meanwhile.
CommitPoll(t) ==
    /\ work[t] # None /\ work[t].op = "poll"
    /\ Commit(t)
    /\ Finish(t)
    /\ LET r == IF work[t].new = work[t].read THEN work[t].read ELSE enr'[work[t].id]
       IN  \/ /\ r.key # None /\ device.id = work[t].id
              /\ device' = [device EXCEPT !.key = r.key]
           \/ UNCHANGED device
    /\ UNCHANGED <<token, secrets, history>>

\* Mutant of Hello: the token stays in the row.
MutHelloKeepsKey ==
    /\ token # None /\ device.key = token
    /\ \E e \in Latest("approved") :
          Start(Loop, "save", e, [enr[e] EXCEPT !.status = "enrolled", !.claimed = TRUE])
    /\ UNCHANGED <<enr, token, device, secrets, history>>

\* handle_hello with the token: the latest approved enrollment is over.
Hello ==
    /\ token # None /\ device.key = token
    /\ \E e \in Latest("approved") :
          Start(Loop, "save", e, [enr[e] EXCEPT !.status = "enrolled",
                                    !.claimed = TRUE, !.key = None])
    /\ UNCHANGED <<enr, token, device, secrets, history>>

-----------------------------------------------------------------------------
(* The dashboard.                                                          *)

\* list_enrollments and get_enrollment.
Look(t, e) ==
    /\ t \in Workers
    /\ Lapsed(e)
    /\ Start(t, "save", e, Expired(e))
    /\ UNCHANGED <<enr, token, device, secrets, history>>

\* Mutant of Reject: a status that nothing else knows.
MutRejectMisspelt(t, e) ==
    /\ enr[e].status = "pending" /\ ~enr[e].lapsed
    /\ Decide(t, "save", e, [enr[e] EXCEPT !.status = "declined"])
    /\ UNCHANGED <<enr, token, device, secrets, stray>>

\* reject_enrollment of a pending request; a lapsed one only expires (Look).
Reject(t, e) ==
    /\ enr[e].status = "pending" /\ ~enr[e].lapsed
    /\ Decide(t, "save", e, [enr[e] EXCEPT !.status = "rejected"])
    /\ UNCHANGED <<enr, token, device, secrets, stray>>

Save(t) ==
    /\ work[t] # None /\ work[t].op = "save"
    /\ Commit(t)
    /\ Finish(t)
    /\ UNCHANGED <<token, device, secrets, history>>

\* Mutant of Approve: it does not look at the status.
MutApproveAny(t, e) ==
    /\ enr[e].status # "absent"
    /\ Generate
    /\ Decide(t, "approve", e, [enr[e] EXCEPT !.status = "approved", !.key = secrets + 1])
    /\ UNCHANGED <<enr, token, device, stray>>

\* approve_enrollment up to the commit of provision_node: the enrollment and
\* the node are read, and a token is generated.
Approve(t, e) ==
    /\ enr[e].status = "pending" /\ ~enr[e].lapsed
    /\ Generate
    /\ Decide(t, "approve", e, [enr[e] EXCEPT !.status = "approved", !.key = secrets + 1])
    /\ UNCHANGED <<enr, token, device, stray>>

Asking == \E t \in Threads : work[t] # None /\ work[t].op = "request"

\* The node polls request e with its code, and is not asking again.
InHand(e) == device.id = e /\ device.code = enr[e].code /\ ~Asking

\* provision_node commits the token for the node, unless it inserts a row
\* that another thread has inserted meanwhile.
ApproveProvisions(t) ==
    /\ work[t] # None /\ work[t].op = "approve"
    /\ work[t].insert => token = None
    /\ token' = work[t].new.key
    /\ work' = [work EXCEPT ![t].op = "approved"]
    /\ stray' = ~InHand(work[t].id)
    /\ UNCHANGED <<enr, device, secrets, contested>>

ApproveCommits(t) ==
    /\ work[t] # None /\ work[t].op = "approved"
    /\ Commit(t)
    /\ Finish(t)
    /\ UNCHANGED <<token, device, secrets, history>>

\* POST /nodes/provision: an admin enters or rotates the token by hand.
Provision(t) ==
    /\ t \in Admins
    /\ work[t] = None
    /\ Generate
    /\ work' = [work EXCEPT ![t] =
                   [op |-> "provision", id |-> None, read |-> NoRow,
                    new |-> [NoRow EXCEPT !.key = secrets + 1], insert |-> token = None]]
    /\ UNCHANGED <<enr, token, device, history>>

ProvisionCommits(t) ==
    /\ work[t] # None /\ work[t].op = "provision"
    /\ work[t].insert => token = None
    /\ token' = work[t].new.key
    /\ stray' = TRUE
    /\ Finish(t)
    /\ UNCHANGED <<enr, device, secrets, contested>>

\* A read, a commit or a refresh raises, as the insert of a node's row does that
\* another thread has inserted: what is not committed is rolled back.
Fails(t) ==
    /\ work[t] # None
    /\ Finish(t)
    /\ stray' = (stray \/ (work[t].op = "approved" /\ work[t].new.key = token))
    /\ UNCHANGED <<enr, token, device, secrets, contested>>

-----------------------------------------------------------------------------
Lapse(e) ==
    /\ enr[e].status = "pending" /\ ~enr[e].lapsed
    /\ enr' = [enr EXCEPT ![e].lapsed = TRUE]
    /\ UNCHANGED <<token, device, work, secrets, history>>

Approving == \E t \in Threads : work[t] # None /\ work[t].op = "approved"

\* The process is killed and started again.
Crash ==
    /\ work' = [t \in Threads |-> None]
    /\ stray' = (stray \/ Approving)
    /\ UNCHANGED <<enr, token, device, secrets, contested>>

Next ==
    \/ Hello
    \/ \E t \in Threads :
          \/ Request(t) \/ CommitRequest(t)
          \/ Poll(t) \/ CommitPoll(t)
          \/ Save(t)
          \/ ApproveProvisions(t) \/ ApproveCommits(t)
          \/ Provision(t) \/ ProvisionCommits(t) \/ Fails(t)
          \/ \E e \in Ids : Look(t, e) \/ Reject(t, e) \/ Approve(t, e)
    \/ \E e \in Ids : Lapse(e)
    \/ Crash

Spec == Init /\ [][Next]_vars

-----------------------------------------------------------------------------
(* Properties.                                                             *)

\* An approved enrollment carries a token, and an enrolled one carries none,
\* however approvals, rejections, polls, expiries and HELLO overlap
\* (enrollment_service.py:160-176, node_service.py:138-149).
KeyMatchesStatus ==
    \A e \in Ids :
        /\ enr[e].status = "approved" => enr[e].key # None
        /\ enr[e].status = "enrolled" => enr[e].key = None

\* Once approved, the node can have its token: it has it, or the request it
\* polls, with the code it knows, holds it for the next poll.  Set apart are the
\* time between the two commits of an approval, overlapping decisions about one
\* request, and a stray token: one that was entered by hand, whose approval broke
\* off between the commits, or that was set while the node was not polling that
\* request, because it had two, had asked again or had missed the answer
\* (enrollment_service.py:134-178, 210-228).
KeyNotLost ==
    token # None /\ ~stray /\ ~Approving /\ contested = {}
        => \/ device.key = token
           \/ /\ device.id # None
              /\ enr[device.id].code = device.code /\ enr[device.id].key = token

\* What a transaction is, by what it changes of the status, the key and the code.
Shaped(w) ==
    \/ /\ w.op = "request" /\ w.read.status = "absent" /\ w.new.status = "pending"
       /\ w.read.key = None /\ w.new.key = None
    \/ /\ w.op \in {"request", "poll"} /\ w.read.status # "absent"
       /\ w.new.status = w.read.status /\ w.new.key = w.read.key
    \/ /\ w.op \in {"poll", "save"} /\ w.read.status = "pending"
       /\ w.new.status \in {"expired", "rejected"} /\ w.new.key = w.read.key
       /\ w.op = "poll" => w.new.status = "expired"
    \/ /\ w.op = "save" /\ w.read.status = "approved" /\ w.read.key # None
       /\ w.new.status = "enrolled" /\ w.new.key = None
    \/ /\ w.op \in {"approve", "approved"} /\ w.read.status = "pending"
       /\ w.read.key = None /\ w.new.status = "approved" /\ w.new.key # None
    \/ w.op = "provision" /\ w.new.key # None

Shapes ==
    \A t \in Threads : work[t] # None =>
        /\ Shaped(work[t])
        /\ work[t].op # "request" => work[t].new.code = work[t].read.code
        /\ work[t].id = None <=> work[t].op = "provision"

\* A key that row e holds, or that was read there: by a transaction that is
\* still open, or by the node.
Known(e, k) ==
    \/ enr[e].key = k
    \/ \E t \in Threads : work[t] # None /\ work[t].id = e /\ work[t].read.key = k
    \/ device.id = e /\ device.key = k

Generated(t) == work[t] # None /\ work[t].op \in {"approve", "approved", "provision"}

\* No status comes back once it was left: to absent, or to pending.
RowsAdvance ==
    /\ \A t \in Threads : work[t] # None /\ work[t].id # None =>
          /\ work[t].read.status = "absent" =>
                /\ enr[work[t].id].status = "absent"
                /\ \A u \in Threads \ {t} : work[u] # None => work[u].id # work[t].id
          /\ work[t].read.status # "absent" => enr[work[t].id].status # "absent"
          /\ work[t].read.status \notin {"absent", "pending"}
                => enr[work[t].id].status \notin {"absent", "pending"}
    /\ device.id # None => enr[device.id].status # "absent"
    /\ \A e \in Ids, k \in Secrets :
          Known(e, k) => enr[e].status \notin {"absent", "pending"}

\* A generated token is known nowhere before it is the node's.
KeysFresh ==
    /\ \A e \in Ids, k \in Secrets : Known(e, k) => k <= secrets
    /\ \A t \in Threads : Generated(t) => work[t].new.key <= secrets
    /\ \A t, u \in Threads :
          Generated(t) /\ Generated(u) /\ t # u => work[t].new.key # work[u].new.key
    /\ \A t \in Threads, e \in Ids, k \in Secrets :
          Generated(t) /\ work[t].op # "approved" /\ Known(e, k) => work[t].new.key # k

\* While a request is decided about once it has no key and no other outcome,
\* and in the end it has had one key at most.
OneDecision ==
    \A e \in Ids \ contested :
        /\ \A t \in Threads : Deciding(t, e) =>
              /\ \A u \in Threads : Deciding(u, e) => t = u
              /\ enr[e].status \in {"pending", "expired"}
              /\ \A u \in Threads : work[u] # None /\ work[u].id = e
                    => work[u].read.status \in {"pending", "expired"}
              /\ \A k \in Secrets : ~Known(e, k)
        /\ \A k, l \in Secrets : Known(e, k) /\ Known(e, l) => k = l

\* The approval of the request that the node polls will hand out the token.
OnItsWay ==
    \E t \in Threads : /\ work[t] # None /\ work[t].op = "approved"
                       /\ work[t].id = device.id /\ work[t].new.key = token

InReach ==
    \/ device.key = token
    \/ /\ device.id # None /\ enr[device.id].code = device.code
       /\ enr[device.id].key = token \/ OnItsWay

\* The token is with the node, in the row it polls or on its way there, and the
\* node asks for no other; HELLO takes the token from a row only if the node has
\* it.
TokenHeld ==
    contested = {} /\ token # None =>
        /\ ~stray => ~Asking /\ InReach
        /\ \A t \in Threads : /\ work[t] # None /\ work[t].op = "save"
                               /\ work[t].read.key = token
                               => device.key = token

\* The inductive invariant.
Inv == KeyMatchesStatus /\ Shapes /\ RowsAdvance /\ KeysFresh /\ OneDecision /\ TokenHeld

\* On approval the node receives its token: the token an approved enrollment
\* hands out is the one the node can log in with (enrollment_service.py:155-176).
ApprovalDelivers ==
    ~stray /\ ~Approving
        => \A e \in Ids : enr[e].status = "approved" => enr[e].key = token

\* The admins approve or reject a request: neither decision turns into the
\* other, unless they were made at the same time (enrollment_service.py:142-164,
\* 188-195).
DecidedOnce ==
    [][\A e \in Ids \ contested :
         /\ enr[e].status = "rejected" => enr'[e].status # "approved"
         /\ enr[e].status \in {"approved", "enrolled"} => enr'[e].status # "rejected"]_vars
=============================================================================
