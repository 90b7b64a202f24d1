--------------------------- MODULE EnrollmentProofs ---------------------------
(***************************************************************************)
(* Theorems about Enrollment, for any number of threads, admins, requests, *)
(* codes and tokens.                                                       *)
(***************************************************************************)
EXTENDS Enrollment, TLAPS

-----------------------------------------------------------------------------
(* Rows and commits.                                                       *)

\* A commit writes the columns that changed, each by itself.
LEMMA MergeFields ==
    ASSUME NEW r \in Row, NEW read \in Row, NEW new \in Row
    PROVE  /\ Merge(r, read, new) \in Row
           /\ Merge(r, read, new).status = IF new.status # read.status THEN new.status
                                                                      ELSE r.status
           /\ Merge(r, read, new).key = IF new.key # read.key THEN new.key ELSE r.key
           /\ Merge(r, read, new).code = IF new.code # read.code THEN new.code ELSE r.code
BY DEF Row, Merge

\* A secret that is generated is one that there is.
LEMMA GenerateSecret ==
    ASSUME TypeOK, Generate
    PROVE  /\ secrets + 1 \in Secrets /\ secrets' = secrets + 1
           /\ secrets' \in 0 .. MaxSecrets
BY EnrollmentAssumption DEF TypeOK, Generate, Secrets

\* Thread t opens transaction w: what it has read is the row as it is, and a
\* decision of two that are open contests the row.
Opens(t, w) ==
    /\ work[t] = None
    /\ work' = [work EXCEPT ![t] = w]
    /\ w \in Transaction
    /\ Shaped(w)
    /\ w.id = None <=> w.op = "provision"
    /\ w.id # None => w.read = enr[w.id]
    /\ w.op # "approved"
    /\ w.op = "request" => token = None
    /\ w.op # "request" => w.new.code = w.read.code
    /\ secrets' \in {secrets, secrets + 1} /\ secrets' <= MaxSecrets
    /\ w.op \in {"approve", "provision"} => w.new.key = secrets + 1 /\ secrets' = secrets + 1
    /\ w.id # None /\ w.read.status = "absent" =>
          \A u \in Threads : work[u] # None => work[u].id # w.id
    /\ w.op = "save" => w.read.key = None \/ device.key = token
    /\ contested \subseteq contested' /\ contested' \subseteq Ids
    /\ w.op = "approve" \/ (w.op = "save" /\ w.new.status = "rejected") =>
          /\ w.read.status = "pending"
          /\ \A u \in Threads : Deciding(u, w.id) => w.id \in contested'
    /\ UNCHANGED <<enr, token, device, stray>>

\* A pending or absent row has no key.
LEMMA NoKeyYet ==
    ASSUME TypeOK, Inv, NEW e \in Ids, enr[e].status \in {"absent", "pending"}
    PROVE  enr[e].key = None
<1>1. enr[e].key \in Secrets \cup {None}
  BY DEF TypeOK, Row
<1>2. enr[e].key \in Secrets => Known(e, enr[e].key)
  BY DEF Known
<1> QED BY <1>1, <1>2 DEF Inv, RowsAdvance

LEMMA RequestOpens ==
    ASSUME TypeOK, Inv, NEW t \in Threads, Request(t)
    PROVE  \E w : Opens(t, w)
<1> PICK e \in Ids :
      /\ IF Latest("pending") # {} THEN e \in Latest("pending") ELSE Fresh(e)
      /\ Start(t, "request", e, [enr[e] EXCEPT !.status = "pending",
                                   !.code = secrets + 1, !.lapsed = FALSE])
  BY DEF Request
<1> DEFINE new == [enr[e] EXCEPT !.status = "pending", !.code = secrets + 1, !.lapsed = FALSE]
           w == [op |-> "request", id |-> e, read |-> enr[e], new |-> new,
                 insert |-> FALSE]
<1>1. secrets + 1 \in Secrets /\ secrets' = secrets + 1 /\ secrets' \in 0 .. MaxSecrets
  BY GenerateSecret DEF Request
<1>2. enr[e] \in Row
  BY DEF TypeOK
<1>3. new \in Row /\ new.status = "pending" /\ new.key = enr[e].key
  BY <1>1, <1>2 DEF Row
<1>4. \/ enr[e].status = "pending"
      \/ /\ enr[e].status = "absent"
         /\ \A u \in Threads : work[u] # None => work[u].id # e
  BY DEF Latest, Fresh
<1>5. work[t] = None /\ work' = [work EXCEPT ![t] = w]
  BY DEF Start
<1>6. UNCHANGED <<enr, token, device, stray, contested>> /\ token = None
  BY DEF Request, history
<1>7. e # None
  BY EnrollmentAssumption DEF Ids
<1> HIDE DEF new
<1>8. w \in Transaction
  BY <1>2, <1>3 DEF Transaction
<1>9. Shaped(w)
  BY <1>3, <1>4, NoKeyYet DEF Shaped
<1>10. contested \subseteq Ids
  BY DEF TypeOK
<1>11. w.op = "request" /\ w.id = e /\ w.read = enr[e]
  OBVIOUS
<1>12. secrets' <= MaxSecrets
  BY <1>1, EnrollmentAssumption
<1> HIDE DEF w
<1> QED
  BY <1>1, <1>4, <1>5, <1>6, <1>7, <1>8, <1>9, <1>10, <1>11, <1>12 DEF Opens

\* A transaction that generates nothing and decides nothing.
LEMMA PlainOpens ==
    ASSUME TypeOK, Inv, NEW t \in Threads, NEW op \in {"poll", "save"}, NEW e \in Ids,
           NEW new \in Row, Start(t, op, e, new),
           UNCHANGED <<enr, token, device, secrets, history>>,
           enr[e].status # "absent", new.code = enr[e].code,
           \/ new.status = enr[e].status /\ new.key = enr[e].key /\ op = "poll"
           \/ enr[e].status = "pending" /\ new.status = "expired" /\ new.key = enr[e].key
           \/ /\ enr[e].status = "approved" /\ new.status = "enrolled" /\ new.key = None
              /\ op = "save" /\ device.key = token
    PROVE  \E w : Opens(t, w)
<1> DEFINE w == [op |-> op, id |-> e, read |-> enr[e], new |-> new,
                 insert |-> FALSE]
<1>1. enr[e] \in Row /\ secrets \in 0 .. MaxSecrets /\ contested \subseteq Ids
  BY DEF TypeOK
<1>2. e # None
  BY EnrollmentAssumption DEF Ids
<1>3. enr[e].status = "approved" => enr[e].key # None
  BY DEF Inv, KeyMatchesStatus
<1>4. enr[e].status = "pending" => enr[e].key = None
  BY NoKeyYet
<1>5. w \in Transaction
  BY <1>1 DEF Transaction
<1>6. Shaped(w)
  BY <1>3 DEF Shaped
<1>7. work[t] = None /\ work' = [work EXCEPT ![t] = w]
  BY DEF Start
<1>8. w.op = op /\ w.id = e /\ w.read = enr[e] /\ w.new = new
  OBVIOUS
<1>9. secrets' = secrets /\ secrets' <= MaxSecrets
  BY <1>1, EnrollmentAssumption
<1>10. op = "save" => w.read.key = None \/ device.key = token
  BY <1>4, <1>8
<1>11. op = "save" => new.status # "rejected"
  OBVIOUS
<1> HIDE DEF w
<1> QED
  BY <1>1, <1>2, <1>5, <1>6, <1>7, <1>8, <1>9, <1>10, <1>11 DEF Opens, history

LEMMA PollOpens ==
    ASSUME TypeOK, Inv, NEW t \in Threads, Poll(t)
    PROVE  \E w : Opens(t, w)
<1> DEFINE e == device.id
<1>1. e \in Ids /\ enr[e] \in Row
  BY DEF Poll, TypeOK
<1>2. enr[e].status # "absent"
  BY DEF Poll, Inv, RowsAdvance
<1>3. UNCHANGED <<enr, token, device, secrets, history>>
  BY DEF Poll
<1>4. \/ Lapsed(e) /\ Start(t, "poll", e, Expired(e))
      \/ Start(t, "poll", e, [enr[e] EXCEPT !.claimed = TRUE])
      \/ Start(t, "poll", e, enr[e])
  BY DEF Poll
<1> HIDE DEF e
<1>5. CASE Lapsed(e) /\ Start(t, "poll", e, Expired(e))
  <2>1. /\ enr[e].status = "pending"
        /\ Expired(e) \in Row /\ Expired(e).status = "expired" /\ Expired(e).key = enr[e].key
        /\ Expired(e).code = enr[e].code
    BY <1>1, <1>5 DEF Lapsed, Expired, Row
  <2> QED BY <1>1, <1>2, <1>3, <1>5, <2>1, PlainOpens
<1>6. CASE Start(t, "poll", e, [enr[e] EXCEPT !.claimed = TRUE])
  <2> DEFINE new == [enr[e] EXCEPT !.claimed = TRUE]
  <2>1. /\ new \in Row /\ new.status = enr[e].status /\ new.key = enr[e].key
        /\ new.code = enr[e].code
    BY <1>1 DEF Row
  <2> HIDE DEF new
  <2>2. Start(t, "poll", e, new)
    BY <1>6 DEF new
  <2> QED BY <1>1, <1>2, <1>3, <2>1, <2>2, PlainOpens
<1>7. CASE Start(t, "poll", e, enr[e])
  BY <1>1, <1>2, <1>3, <1>7, PlainOpens
<1> QED BY <1>4, <1>5, <1>6, <1>7

LEMMA HelloOpens ==
    ASSUME TypeOK, Inv, Hello
    PROVE  \E w : Opens(Loop, w)
<1> PICK e \in Latest("approved") :
      Start(Loop, "save", e, [enr[e] EXCEPT !.status = "enrolled", !.claimed = TRUE, !.key = None])
  BY DEF Hello
<1> DEFINE new == [enr[e] EXCEPT !.status = "enrolled", !.claimed = TRUE, !.key = None]
<1>1. e \in Ids /\ enr[e].status = "approved" /\ enr[e] \in Row
  BY DEF Latest, TypeOK
<1>2. new \in Row /\ new.status = "enrolled" /\ new.key = None /\ new.code = enr[e].code
  BY <1>1 DEF Row
<1>3. Start(Loop, "save", e, new) /\ device.key = token /\ Loop \in Threads
  BY DEF Hello, Threads
<1>4. UNCHANGED <<enr, token, device, secrets, history>>
  BY DEF Hello
<1> HIDE DEF new
<1> QED BY <1>1, <1>2, <1>3, <1>4, PlainOpens

LEMMA LookOpens ==
    ASSUME TypeOK, Inv, NEW t \in Threads, NEW e \in Ids, Look(t, e)
    PROVE  \E w : Opens(t, w)
<1>1. enr[e] \in Row
  BY DEF TypeOK
<1>2. /\ enr[e].status = "pending"
      /\ Expired(e) \in Row /\ Expired(e).status = "expired" /\ Expired(e).key = enr[e].key
      /\ Expired(e).code = enr[e].code
  BY <1>1 DEF Look, Lapsed, Expired, Row
<1> QED BY <1>2, PlainOpens DEF Look

\* A decision finds the request pending, and contests it if another is open.
LEMMA DecisionOpens ==
    ASSUME TypeOK, Inv, NEW t \in Threads, NEW op \in {"save", "approve"}, NEW e \in Ids,
           NEW new \in Row, Decide(t, op, e, new), enr[e].status = "pending",
           new.code = enr[e].code,
           UNCHANGED <<enr, token, device, stray>>,
           \/ op = "save" /\ new.status = "rejected" /\ new.key = enr[e].key /\ secrets' = secrets
           \/ op = "approve" /\ new.status = "approved" /\ new.key = secrets + 1 /\ Generate
    PROVE  \E w : Opens(t, w)
<1> DEFINE w == [op |-> op, id |-> e, read |-> enr[e], new |-> new,
                 insert |-> op = "approve" /\ token = None]
<1>1. enr[e] \in Row /\ secrets \in 0 .. MaxSecrets /\ contested \subseteq Ids
  BY DEF TypeOK
<1>2. e # None /\ secrets + 1 # None
  BY <1>1, EnrollmentAssumption DEF Ids
<1>3. enr[e].key = None
  BY NoKeyYet
<1>4. w \in Transaction
  BY <1>1 DEF Transaction
<1>5. Shaped(w)
  BY <1>2, <1>3 DEF Shaped
<1>6. work[t] = None /\ work' = [work EXCEPT ![t] = w]
  BY DEF Decide, Start
<1>7. /\ contested \subseteq contested' /\ contested' \subseteq Ids
      /\ \A u \in Threads : Deciding(u, e) => e \in contested'
  BY <1>1 DEF Decide
<1>8. secrets' \in {secrets, secrets + 1} /\ secrets' <= MaxSecrets
  BY <1>1, GenerateSecret
<1>9. op = "approve" => secrets' = secrets + 1
  BY DEF Generate
<1> HIDE DEF Shaped
<1> QED
  BY <1>2, <1>3, <1>4, <1>5, <1>6, <1>7, <1>8, <1>9 DEF Opens

LEMMA RejectOpens ==
    ASSUME TypeOK, Inv, NEW t \in Threads, NEW e \in Ids, Reject(t, e)
    PROVE  \E w : Opens(t, w)
<1> DEFINE new == [enr[e] EXCEPT !.status = "rejected"]
<1>1. enr[e] \in Row
  BY DEF TypeOK
<1>2. /\ new \in Row /\ new.status = "rejected" /\ new.key = enr[e].key
      /\ new.code = enr[e].code
  BY <1>1 DEF Row
<1>3. /\ Decide(t, "save", e, new) /\ enr[e].status = "pending"
      /\ UNCHANGED <<enr, token, device, secrets, stray>>
  BY DEF Reject
<1> HIDE DEF new
<1> QED BY <1>2, <1>3, DecisionOpens

LEMMA ApproveOpens ==
    ASSUME TypeOK, Inv, NEW t \in Threads, NEW e \in Ids, Approve(t, e)
    PROVE  \E w : Opens(t, w)
<1> DEFINE new == [enr[e] EXCEPT !.status = "approved", !.key = secrets + 1]
<1>1. enr[e] \in Row /\ secrets + 1 \in Secrets
  BY GenerateSecret DEF TypeOK, Approve
<1>2. /\ new \in Row /\ new.status = "approved" /\ new.key = secrets + 1
      /\ new.code = enr[e].code
  BY <1>1 DEF Row
<1>3. /\ Decide(t, "approve", e, new) /\ enr[e].status = "pending" /\ Generate
      /\ UNCHANGED <<enr, token, device, stray>>
  BY DEF Approve
<1> HIDE DEF new
<1> QED BY <1>2, <1>3, DecisionOpens

LEMMA ProvisionOpens ==
    ASSUME TypeOK, Inv, NEW t \in Threads, Provision(t)
    PROVE  \E w : Opens(t, w)
<1> DEFINE new == [NoRow EXCEPT !.key = secrets + 1]
           w == [op |-> "provision", id |-> None, read |-> NoRow, new |-> new,
                 insert |-> token = None]
<1>1. secrets + 1 \in Secrets /\ secrets' = secrets + 1 /\ secrets' \in 0 .. MaxSecrets
  BY GenerateSecret DEF Provision
<1>2. secrets + 1 # None
  BY <1>1, EnrollmentAssumption DEF Secrets
<1>3. NoRow \in Row /\ new \in Row /\ new.key = secrets + 1 /\ new.code = NoRow.code
  BY <1>1 DEF Row, NoRow
<1>4. work[t] = None /\ work' = [work EXCEPT ![t] = w]
  BY DEF Provision
<1>5. UNCHANGED <<enr, token, device, stray, contested>> /\ contested \subseteq Ids
  BY DEF Provision, history, TypeOK
<1> HIDE DEF new
<1>6. w \in Transaction
  BY <1>3 DEF Transaction
<1>7. Shaped(w)
  BY <1>2, <1>3 DEF Shaped
<1>8. /\ w.op = "provision" /\ w.id = None /\ w.new.key = secrets + 1
      /\ w.new.code = w.read.code
  BY <1>3
<1>9. secrets' <= MaxSecrets
  BY <1>1, EnrollmentAssumption
<1> HIDE DEF w
<1> QED BY <1>1, <1>4, <1>5, <1>6, <1>7, <1>8, <1>9 DEF Opens

-----------------------------------------------------------------------------
(* The ends of transactions.                                               *)

\* The transaction of thread t ends with a commit of the columns it changed;
\* the node may take another row, or a key of its row.
Writes(t) ==
    LET w == work[t]
    IN  /\ w # None /\ w.op \in {"request", "poll", "save", "approved"}
        /\ w.id \in Ids
        /\ work' = [work EXCEPT ![t] = None]
        /\ enr' \in [Ids -> Row]
        /\ \A e \in Ids \ {w.id} : enr'[e] = enr[e]
        /\ enr'[w.id].status = IF w.new.status # w.read.status THEN w.new.status
                                                               ELSE enr[w.id].status
        /\ enr'[w.id].key = IF w.new.key # w.read.key THEN w.new.key ELSE enr[w.id].key
        /\ w.op # "request" => enr'[w.id].code = enr[w.id].code
        /\ device' \in [id : Ids \cup {None}, code : Secrets \cup {None},
                        key : Secrets \cup {None}]
        /\ \/ device' = device
           \/ w.op = "request" /\ device.key = None /\ device'.key = None /\ device'.id = w.id
           \/ /\ w.op = "poll" /\ device'.id = device.id /\ device.id = w.id
              /\ device'.code = device.code
              /\ device'.key # None /\ Known(w.id, device'.key)
        /\ UNCHANGED <<token, secrets, history>>

LEMMA Typed ==
    ASSUME TypeOK, Inv, NEW t \in Threads, work[t] # None
    PROVE  /\ work[t] \in Transaction
           /\ work[t].read \in Row /\ work[t].new \in Row
           /\ work[t].id \in Ids \cup {None}
           /\ work[t].op # "provision" => work[t].id \in Ids
           /\ Shaped(work[t])
           /\ work[t].op # "request" => work[t].new.code = work[t].read.code
<1>1. work[t] \in Transaction
  BY DEF TypeOK
<1>2. /\ Shaped(work[t]) /\ (work[t].id = None <=> work[t].op = "provision")
      /\ work[t].op # "request" => work[t].new.code = work[t].read.code
  BY DEF Inv, Shapes
<1> QED BY <1>1, <1>2 DEF Transaction

LEMMA CommitRow ==
    ASSUME TypeOK, Inv, NEW t \in Threads, work[t] # None, work[t].op # "provision"
    PROVE  LET w == work[t]
               q == Merge(enr[w.id], w.read, w.new)
           IN  /\ q \in Row
               /\ q.status = IF w.new.status # w.read.status THEN w.new.status
                                                             ELSE enr[w.id].status
               /\ q.key = IF w.new.key # w.read.key THEN w.new.key ELSE enr[w.id].key
               /\ w.op # "request" => q.code = enr[w.id].code
<1>1. /\ work[t].read \in Row /\ work[t].new \in Row /\ enr[work[t].id] \in Row
      /\ work[t].op # "request" => work[t].new.code = work[t].read.code
  BY Typed DEF TypeOK
<1> QED BY <1>1, MergeFields

LEMMA CommitRequestWrites ==
    ASSUME TypeOK, Inv, NEW t \in Threads, CommitRequest(t)
    PROVE  Writes(t)
<1> DEFINE w == work[t]
           q == Merge(enr[w.id], w.read, w.new)
           p == [q EXCEPT !.lapsed = FALSE]
<1>1. /\ w # None /\ w.op = "request" /\ w.id \in Ids
      /\ w.new \in Row
  BY Typed DEF CommitRequest
<1>2. /\ q \in Row
      /\ q.status = IF w.new.status # w.read.status THEN w.new.status ELSE enr[w.id].status
      /\ q.key = IF w.new.key # w.read.key THEN w.new.key ELSE enr[w.id].key
  BY <1>1, CommitRow
<1>3. enr' = [enr EXCEPT ![w.id] = p]
  BY DEF CommitRequest
<1>4. /\ work' = [work EXCEPT ![t] = None]
      /\ \/ /\ device.key = None
            /\ device' = [device EXCEPT !.id = w.id, !.code = w.new.code]
         \/ device' = device
      /\ UNCHANGED <<token, secrets, history>>
  BY DEF CommitRequest, Finish
<1> HIDE DEF q
<1>5. p \in Row /\ p.status = q.status /\ p.key = q.key
  BY <1>2 DEF Row
<1> HIDE DEF p, w
<1>6. /\ enr' \in [Ids -> Row] /\ enr'[w.id] = p
      /\ \A e \in Ids \ {w.id} : enr'[e] = enr[e]
  BY <1>1, <1>3, <1>5 DEF TypeOK
<1>7. /\ device' \in [id : Ids \cup {None}, code : Secrets \cup {None},
                      key : Secrets \cup {None}]
      /\ \/ device' = device
         \/ device.key = None /\ device'.key = None /\ device'.id = w.id
  BY <1>1, <1>4 DEF TypeOK, Row
<1> QED BY <1>1, <1>2, <1>4, <1>5, <1>6, <1>7 DEF Writes, w

\* The row after Commit.
LEMMA CommitEnr ==
    ASSUME TypeOK, Inv, NEW t \in Threads, work[t] # None, work[t].op # "provision", Commit(t)
    PROVE  LET w == work[t]
           IN  /\ enr' \in [Ids -> Row]
               /\ \A e \in Ids \ {w.id} : enr'[e] = enr[e]
               /\ enr'[w.id].status = IF w.new.status # w.read.status THEN w.new.status
                                                                      ELSE enr[w.id].status
               /\ enr'[w.id].key = IF w.new.key # w.read.key THEN w.new.key
                                                             ELSE enr[w.id].key
               /\ w.op # "request" => enr'[w.id].code = enr[w.id].code
<1> DEFINE w == work[t]
           q == Merge(enr[w.id], w.read, w.new)
<1>1. /\ q \in Row
      /\ q.status = IF w.new.status # w.read.status THEN w.new.status ELSE enr[w.id].status
      /\ q.key = IF w.new.key # w.read.key THEN w.new.key ELSE enr[w.id].key
      /\ w.op # "request" => q.code = enr[w.id].code
  BY CommitRow
<1>2. w.id \in Ids
  BY Typed
<1>3. enr' = [enr EXCEPT ![w.id] = q]
  BY DEF Commit
<1> HIDE DEF q, w
<1>4. enr' \in [Ids -> Row] /\ enr'[w.id] = q /\ \A e \in Ids \ {w.id} : enr'[e] = enr[e]
  BY <1>1, <1>2, <1>3 DEF TypeOK
<1> QED BY <1>1, <1>4 DEF w

LEMMA SaveWrites ==
    ASSUME TypeOK, Inv, NEW t \in Threads, Save(t) \/ ApproveCommits(t)
    PROVE  Writes(t)
<1>1. /\ work[t] # None /\ work[t].op \in {"save", "approved"} /\ Commit(t)
      /\ work' = [work EXCEPT ![t] = None]
      /\ UNCHANGED <<token, device, secrets, history>>
  BY DEF Save, ApproveCommits, Finish
<1>2. work[t].id \in Ids
  BY <1>1, Typed
<1> QED BY <1>1, <1>2, CommitEnr DEF Writes, TypeOK

LEMMA CommitPollWrites ==
    ASSUME TypeOK, Inv, NEW t \in Threads, CommitPoll(t)
    PROVE  Writes(t)
<1> DEFINE w == work[t]
           r == IF w.new = w.read THEN w.read ELSE enr'[w.id]
<1>1. /\ w # None /\ w.op = "poll" /\ Commit(t) /\ w.id \in Ids
      /\ w.read \in Row /\ Shaped(w)
  BY Typed DEF CommitPoll
<1>2. /\ enr' \in [Ids -> Row]
      /\ \A e \in Ids \ {w.id} : enr'[e] = enr[e]
      /\ enr'[w.id].status = IF w.new.status # w.read.status THEN w.new.status
                                                             ELSE enr[w.id].status
      /\ enr'[w.id].key = IF w.new.key # w.read.key THEN w.new.key ELSE enr[w.id].key
      /\ enr'[w.id].code = enr[w.id].code
  BY <1>1, CommitEnr
<1>3. /\ work' = [work EXCEPT ![t] = None]
      /\ \/ device' = device
         \/ r.key # None /\ device.id = w.id /\ device' = [device EXCEPT !.key = r.key]
      /\ UNCHANGED <<token, secrets, history>>
  BY DEF CommitPoll, Finish
<1>4. w.new.key = w.read.key
  BY <1>1 DEF Shaped
<1>5. r \in Row /\ Known(w.id, r.key)
  BY <1>1, <1>2, <1>4 DEF Known
<1> HIDE DEF r, w
<1>7. /\ device' \in [id : Ids \cup {None}, code : Secrets \cup {None},
                      key : Secrets \cup {None}]
      /\ \/ device' = device
         \/ /\ device'.id = device.id /\ device.id = w.id /\ device'.code = device.code
            /\ device'.key # None /\ Known(w.id, device'.key)
  BY <1>3, <1>5 DEF TypeOK, Row
<1> QED BY <1>1, <1>2, <1>3, <1>7 DEF Writes, w

\* What is known of a row, from one step to the next.
LEMMA KnownOpens ==
    ASSUME NEW t \in Threads, NEW w, Opens(t, w), TypeOK,
           NEW e \in Ids, NEW k, Known(e, k)'
    PROVE  Known(e, k)
<1>1. work' = [u \in Threads |-> IF u = t THEN w ELSE work[u]]
  BY DEF Opens, TypeOK
<1>2. enr' = enr /\ device' = device /\ (w.id = e => w.read = enr[e])
  BY EnrollmentAssumption DEF Opens, Ids
<1> QED BY <1>1, <1>2 DEF Known

LEMMA KnownWrites ==
    ASSUME TypeOK, Inv, NEW t \in Threads, Writes(t),
           NEW e \in Ids, NEW k \in Secrets, Known(e, k)'
    PROVE  Known(e, k) \/ (e = work[t].id /\ work[t].op = "approved" /\ k = work[t].new.key)
<1>1. work' = [u \in Threads |-> IF u = t THEN None ELSE work[u]]
  BY DEF Writes, TypeOK
<1>2. k # None
  BY EnrollmentAssumption DEF Secrets
<1>3. CASE enr'[e].key = k
  <2>1. CASE e # work[t].id
    BY <1>3, <2>1 DEF Writes, Known
  <2>2. CASE e = work[t].id /\ work[t].new.key = work[t].read.key
    BY <1>3, <2>2 DEF Writes, Known
  <2>3. CASE e = work[t].id /\ work[t].new.key # work[t].read.key
    <3>1. work[t].new.key = k
      BY <1>3, <2>3 DEF Writes
    <3>2. Shaped(work[t]) /\ work[t].op \in {"request", "poll", "save", "approved"}
      BY Typed DEF Writes
    <3> QED BY <2>3, <3>1, <3>2, <1>2 DEF Shaped
  <2> QED BY <2>1, <2>2, <2>3
<1>4. CASE \E u \in Threads : work'[u] # None /\ work'[u].id = e /\ work'[u].read.key = k
  BY <1>1, <1>4 DEF Known
<1>5. CASE device'.id = e /\ device'.key = k
  BY <1>2, <1>5 DEF Writes, Known
<1> QED BY <1>3, <1>4, <1>5 DEF Known

-----------------------------------------------------------------------------
(* Initially.                                                              *)

LEMMA TypeOKInit == Init => TypeOK
<1> SUFFICES ASSUME Init PROVE TypeOK
  OBVIOUS
<1>1. enr \in [Ids -> Row]
  BY DEF Init, NoRow, Row
<1>2. secrets \in 0 .. MaxSecrets
  BY EnrollmentAssumption DEF Init
<1> QED BY <1>1, <1>2 DEF Init, TypeOK

LEMMA InvInit == Init => Inv
<1> SUFFICES ASSUME Init PROVE Inv
  OBVIOUS
<1>1. /\ \A e \in Ids : enr[e].status = "absent" /\ enr[e].key = None
      /\ \A t \in Threads : work[t] = None
      /\ device.id = None /\ token = None
  BY DEF Init, NoRow
<1>2. \A e \in Ids, k \in Secrets : ~Known(e, k)
  BY <1>1, EnrollmentAssumption DEF Known, Ids, Secrets
<1> QED
  BY <1>1, <1>2 DEF Inv, KeyMatchesStatus, Shapes, RowsAdvance, KeysFresh, OneDecision,
                    TokenHeld, Generated, Deciding

-----------------------------------------------------------------------------
(* A transaction opens.                                                    *)

LEMMA OpensWork ==
    ASSUME TypeOK, NEW t \in Threads, NEW w, Opens(t, w)
    PROVE  /\ work'[t] = w /\ w # None
           /\ \A u \in Threads \ {t} : work'[u] = work[u]
           /\ work[t] = None
BY NoTransactionAssumption DEF Opens, TypeOK

LEMMA TypeOKOpens ==
    ASSUME TypeOK, NEW t \in Threads, NEW w, Opens(t, w)
    PROVE  TypeOK'
<1>1. work' \in [Threads -> Transaction \cup {None}]
  BY DEF Opens, TypeOK
<1>2. secrets' \in 0 .. MaxSecrets
  BY EnrollmentAssumption DEF Opens, TypeOK
<1> QED BY <1>1, <1>2 DEF Opens, TypeOK

LEMMA RowsAdvanceOpens ==
    ASSUME TypeOK, Inv, NEW t \in Threads, NEW w, Opens(t, w)
    PROVE  RowsAdvance'
<1>1. /\ work'[t] = w /\ w # None
      /\ \A u \in Threads \ {t} : work'[u] = work[u]
      /\ work[t] = None
  BY OpensWork
<1>2. /\ enr' = enr /\ device' = device
      /\ w.id # None => w.read = enr[w.id]
      /\ w.id # None /\ w.read.status = "absent" =>
            \A u \in Threads : work[u] # None => work[u].id # w.id
  BY DEF Opens
<1>3. RowsAdvance
  BY DEF Inv
<1>4. ASSUME NEW u \in Threads, work'[u] # None, work'[u].id # None
      PROVE  /\ work'[u].read.status = "absent" =>
                  /\ enr[work'[u].id].status = "absent"
                  /\ \A v \in Threads \ {u} : work'[v] # None => work'[v].id # work'[u].id
             /\ work'[u].read.status # "absent" => enr[work'[u].id].status # "absent"
             /\ work'[u].read.status \notin {"absent", "pending"}
                   => enr[work'[u].id].status \notin {"absent", "pending"}
  <2>1. CASE u = t
    BY <1>1, <1>2, <1>4, <2>1
  <2>2. CASE u # t
    <3>1. work'[u] = work[u] /\ work[u] # None /\ work[u].id # None
      BY <1>1, <1>4, <2>2
    <3>2. /\ work[u].read.status = "absent" =>
                  /\ enr[work[u].id].status = "absent"
                  /\ \A v \in Threads \ {u} : work[v] # None => work[v].id # work[u].id
          /\ work[u].read.status # "absent" => enr[work[u].id].status # "absent"
          /\ work[u].read.status \notin {"absent", "pending"}
                => enr[work[u].id].status \notin {"absent", "pending"}
      BY <1>3, <3>1 DEF RowsAdvance
    <3>3. work[u].read.status = "absent" => w.id # work[u].id
      BY <1>2, <3>1, <3>2
    <3> QED BY <1>1, <3>1, <3>2, <3>3
  <2> QED BY <2>1, <2>2
<1>5. \A e \in Ids, k \in Secrets :
        Known(e, k)' => enr[e].status \notin {"absent", "pending"}
  BY <1>3, KnownOpens DEF RowsAdvance
<1>6. device.id # None => enr[device.id].status # "absent"
  BY <1>3 DEF RowsAdvance
<1> QED BY <1>2, <1>4, <1>5, <1>6 DEF RowsAdvance

LEMMA KeysFreshOpens ==
    ASSUME TypeOK, Inv, NEW t \in Threads, NEW w, Opens(t, w)
    PROVE  KeysFresh'
<1>1. /\ work'[t] = w /\ w # None
      /\ \A u \in Threads \ {t} : work'[u] = work[u]
  BY OpensWork
<1>2. /\ secrets \in Nat /\ secrets' \in {secrets, secrets + 1}
      /\ w.op \in {"approve", "provision"} => w.new.key = secrets + 1 /\ secrets' = secrets + 1
      /\ w.op # "approved"
  BY EnrollmentAssumption DEF Opens, TypeOK
<1>3. KeysFresh
  BY DEF Inv
<1>4. \A u \in Threads : work[u] # None => work[u].new \in Row
  BY Typed
<1>5. \A k \in Secrets : k \in Nat
  BY EnrollmentAssumption DEF Secrets
<1>6. \A e \in Ids, k \in Secrets : Known(e, k)' => Known(e, k)
  BY KnownOpens
<1>7. \A e \in Ids, k \in Secrets : Known(e, k)' => k <= secrets'
  BY <1>2, <1>3, <1>5, <1>6 DEF KeysFresh
<1>8. \A u \in Threads \ {t} : Generated(u)' <=> Generated(u)
  BY <1>1 DEF Generated
<1>9. Generated(t)' => work'[t].new.key = secrets + 1 /\ secrets' = secrets + 1
  BY <1>1, <1>2 DEF Generated
<1>10. \A u \in Threads : Generated(u) =>
         work[u].new.key \in Secrets /\ work[u].new.key <= secrets
  <2>1. \A u \in Threads : Generated(u) => work[u].new.key # None
    BY Typed DEF Generated, Shaped
  <2> QED BY <1>3, <1>4, <2>1 DEF KeysFresh, Generated, Row
<1>11. \A u \in Threads : Generated(u)' => work'[u].new.key <= secrets'
  BY <1>1, <1>2, <1>5, <1>8, <1>9, <1>10
<1>12. \A u, v \in Threads :
         Generated(u)' /\ Generated(v)' /\ u # v => work'[u].new.key # work'[v].new.key
  <2> SUFFICES ASSUME NEW u \in Threads, NEW v \in Threads, Generated(u)', Generated(v)', u # v
               PROVE  work'[u].new.key # work'[v].new.key
    OBVIOUS
  <2>1. CASE u # t /\ v # t
    BY <1>1, <1>3, <1>8, <2>1 DEF KeysFresh
  <2>2. CASE u = t
    BY <1>1, <1>2, <1>5, <1>8, <1>9, <1>10, <2>2
  <2>3. CASE v = t
    BY <1>1, <1>2, <1>5, <1>8, <1>9, <1>10, <2>3
  <2> QED BY <2>1, <2>2, <2>3
<1>13. ASSUME NEW u \in Threads, NEW e \in Ids, NEW k \in Secrets,
              Generated(u)', work'[u].op # "approved", Known(e, k)'
       PROVE  work'[u].new.key # k
  <2>1. Known(e, k) /\ k <= secrets
    BY <1>3, <1>6, <1>13 DEF KeysFresh
  <2>2. CASE u # t
    BY <1>1, <1>3, <1>8, <1>13, <2>1, <2>2 DEF KeysFresh
  <2>3. CASE u = t
    BY <1>2, <1>5, <1>9, <1>13, <2>1, <2>3
  <2> QED BY <2>2, <2>3
<1> QED BY <1>7, <1>11, <1>12, <1>13 DEF KeysFresh

LEMMA OneDecisionOpens ==
    ASSUME TypeOK, Inv, NEW t \in Threads, NEW w, Opens(t, w)
    PROVE  OneDecision'
<1>1. /\ work'[t] = w /\ w # None
      /\ \A u \in Threads \ {t} : work'[u] = work[u]
      /\ work[t] = None
  BY OpensWork
<1>2. /\ enr' = enr
      /\ w.id # None => w.read = enr[w.id]
      /\ w.op # "approved"
      /\ contested \subseteq contested'
      /\ w.op = "approve" \/ (w.op = "save" /\ w.new.status = "rejected") =>
            /\ w.read.status = "pending"
            /\ \A u \in Threads : Deciding(u, w.id) => w.id \in contested'
  BY DEF Opens
<1> SUFFICES ASSUME NEW e \in Ids, e \notin contested'
             PROVE  /\ \A v \in Threads : Deciding(v, e)' =>
                          /\ \A u \in Threads : Deciding(u, e)' => v = u
                          /\ enr[e].status \in {"pending", "expired"}
                          /\ \A u \in Threads : work'[u] # None /\ work'[u].id = e
                                => work'[u].read.status \in {"pending", "expired"}
                          /\ \A k \in Secrets : ~Known(e, k)'
                    /\ \A k, l \in Secrets : Known(e, k)' /\ Known(e, l)' => k = l
  BY <1>2 DEF OneDecision
<1>3. e \notin contested /\ e # None
  BY <1>2, EnrollmentAssumption DEF Ids
<1>4. /\ \A v \in Threads : Deciding(v, e) =>
            /\ \A u \in Threads : Deciding(u, e) => v = u
            /\ enr[e].status \in {"pending", "expired"}
            /\ \A u \in Threads : work[u] # None /\ work[u].id = e
                  => work[u].read.status \in {"pending", "expired"}
            /\ \A k \in Secrets : ~Known(e, k)
      /\ \A k, l \in Secrets : Known(e, k) /\ Known(e, l) => k = l
  BY <1>3 DEF Inv, OneDecision
<1>5. \A k \in Secrets : Known(e, k)' => Known(e, k)
  BY KnownOpens
<1>6. \A u \in Threads \ {t} : Deciding(u, e)' <=> Deciding(u, e)
  BY <1>1 DEF Deciding
<1>7. Deciding(t, e)' => /\ w.id = e /\ enr[e].status = "pending"
                        /\ \A u \in Threads : ~Deciding(u, e)
  <2>1. Deciding(t, e)' => w.id = e /\ (w.op = "approve" \/ (w.op = "save" /\ w.new.status = "rejected"))
    BY <1>1, <1>2 DEF Deciding
  <2> QED BY <1>2, <1>3, <2>1
<1>8. \A u \in Threads : work[u] # None /\ work[u].id = e /\ enr[e].status = "pending"
         => work[u].read.status = "pending"
  BY <1>3 DEF Inv, RowsAdvance
<1>9. enr[e].status = "pending" => \A k \in Secrets : ~Known(e, k)
  BY DEF Inv, RowsAdvance
<1>10. ASSUME NEW v \in Threads, Deciding(v, e)'
       PROVE  /\ \A u \in Threads : Deciding(u, e)' => v = u
              /\ enr[e].status \in {"pending", "expired"}
              /\ \A u \in Threads : work'[u] # None /\ work'[u].id = e
                    => work'[u].read.status \in {"pending", "expired"}
              /\ \A k \in Secrets : ~Known(e, k)'
  <2>1. CASE v = t
    BY <1>1, <1>2, <1>3, <1>5, <1>6, <1>7, <1>8, <1>9, <1>10, <2>1
  <2>2. CASE v # t
    <3>1. Deciding(v, e)
      BY <1>6, <1>10, <2>2
    <3>2. ~Deciding(t, e)'
      BY <1>7, <3>1
    <3> QED BY <1>1, <1>2, <1>3, <1>4, <1>5, <1>6, <3>1, <3>2
  <2> QED BY <2>1, <2>2
<1> QED BY <1>4, <1>5, <1>10

LEMMA TokenHeldOpens ==
    ASSUME TypeOK, Inv, NEW t \in Threads, NEW w, Opens(t, w)
    PROVE  TokenHeld'
<1>1. /\ work'[t] = w
      /\ \A u \in Threads \ {t} : work'[u] = work[u]
      /\ work[t] = None
  BY OpensWork
<1>2. /\ UNCHANGED <<enr, token, device, stray>>
      /\ contested \subseteq contested'
      /\ w.op = "save" => w.read.key = None \/ device.key = token
      /\ w.op = "request" => token = None
  BY DEF Opens
<1> SUFFICES ASSUME contested' = {}, token # None
             PROVE  /\ ~stray => ~Asking' /\ InReach'
                    /\ \A u \in Threads : /\ work'[u] # None /\ work'[u].op = "save"
                                           /\ work'[u].read.key = token
                                           => device.key = token
  BY <1>2 DEF TokenHeld
<1>3. /\ ~stray => ~Asking /\ InReach
      /\ \A u \in Threads : /\ work[u] # None /\ work[u].op = "save"
                             /\ work[u].read.key = token
                             => device.key = token
  BY <1>2 DEF Inv, TokenHeld
<1>4. \A u \in Threads : work[u] # None => work'[u] = work[u]
  BY <1>1
<1>5. ~Asking => ~Asking'
  BY <1>1, <1>2 DEF Asking
<1>6. InReach => InReach'
  BY <1>2, <1>4 DEF InReach, OnItsWay
<1>7. \A u \in Threads : /\ work'[u] # None /\ work'[u].op = "save"
                         /\ work'[u].read.key = token
                         => device.key = token
  BY <1>1, <1>2, <1>3
<1> QED BY <1>2, <1>3, <1>5, <1>6, <1>7

LEMMA InvOpens ==
    ASSUME TypeOK, Inv, NEW t \in Threads, NEW w, Opens(t, w)
    PROVE  Inv'
<1>1. KeyMatchesStatus'
  BY DEF Inv, KeyMatchesStatus, Opens
<1>2. Shapes'
  BY OpensWork DEF Inv, Shapes, Opens
<1> QED
  BY <1>1, <1>2, RowsAdvanceOpens, KeysFreshOpens, OneDecisionOpens, TokenHeldOpens DEF Inv

-----------------------------------------------------------------------------
(* A transaction ends with a commit.                                       *)

\* What a commit does to its row.
LEMMA WritesRow ==
    ASSUME TypeOK, Inv, NEW t \in Threads, Writes(t)
    PROVE  LET w == work[t]
               r == enr[w.id]
               q == enr'[w.id]
           IN  /\ w # None /\ w.id \in Ids
               /\ \/ /\ w.op = "request" /\ w.read.status = "absent"
                     /\ r.status = "absent" /\ q.status = "pending" /\ q.key = r.key
                  \/ /\ w.op \in {"request", "poll"} /\ w.read.status # "absent"
                     /\ q.status = r.status /\ q.key = r.key
                  \/ /\ w.op \in {"poll", "save"} /\ w.read.status = "pending"
                     /\ q.status = w.new.status /\ q.status \in {"expired", "rejected"}
                     /\ q.key = r.key
                     /\ q.status = "rejected" => Deciding(t, w.id)
                  \/ /\ w.op = "save" /\ w.read.status = "approved" /\ w.read.key # None
                     /\ q.status = "enrolled" /\ q.key = None
                  \/ /\ w.op = "approved" /\ w.read.status = "pending"
                     /\ q.status = "approved" /\ q.key = w.new.key /\ q.key # None
                     /\ Deciding(t, w.id) /\ Generated(t)
<1> DEFINE w == work[t]
           r == enr[w.id]
           q == enr'[w.id]
<1>1. /\ w # None /\ w.op \in {"request", "poll", "save", "approved"} /\ w.id \in Ids
      /\ q.status = IF w.new.status # w.read.status THEN w.new.status ELSE r.status
      /\ q.key = IF w.new.key # w.read.key THEN w.new.key ELSE r.key
  BY DEF Writes
<1>2. Shaped(w) /\ w.id # None
  BY <1>1, Typed, EnrollmentAssumption DEF Ids
<1>3. w.read.status = "absent" => r.status = "absent"
  BY <1>1, <1>2 DEF Inv, RowsAdvance
<1>4. /\ w.op = "approved" => Deciding(t, w.id) /\ Generated(t)
      /\ w.op = "save" /\ w.new.status = "rejected" => Deciding(t, w.id)
  BY <1>1 DEF Deciding, Generated
<1> HIDE DEF w, r, q
<1>5. \/ /\ w.op = "request" /\ w.read.status = "absent"
         /\ r.status = "absent" /\ q.status = "pending" /\ q.key = r.key
      \/ /\ w.op \in {"request", "poll"} /\ w.read.status # "absent"
         /\ q.status = r.status /\ q.key = r.key
      \/ /\ w.op \in {"poll", "save"} /\ w.read.status = "pending"
         /\ q.status = w.new.status /\ q.status \in {"expired", "rejected"}
         /\ q.key = r.key
         /\ q.status = "rejected" => Deciding(t, w.id)
      \/ /\ w.op = "save" /\ w.read.status = "approved" /\ w.read.key # None
         /\ q.status = "enrolled" /\ q.key = None
      \/ /\ w.op = "approved" /\ w.read.status = "pending"
         /\ q.status = "approved" /\ q.key = w.new.key /\ q.key # None
         /\ Deciding(t, w.id) /\ Generated(t)
  BY <1>1, <1>2, <1>3, <1>4 DEF Shaped
<1> QED BY <1>1, <1>5 DEF w, r, q

LEMMA WritesWork ==
    ASSUME TypeOK, NEW t \in Threads, Writes(t)
    PROVE  /\ work'[t] = None
           /\ \A u \in Threads \ {t} : work'[u] = work[u]
           /\ \A e \in Ids \ {work[t].id} : enr'[e] = enr[e]
BY DEF Writes, TypeOK

LEMMA TypeOKWrites ==
    ASSUME TypeOK, NEW t \in Threads, Writes(t)
    PROVE  TypeOK'
<1>1. work' \in [Threads -> Transaction \cup {None}]
  BY DEF Writes, TypeOK
<1> QED BY <1>1 DEF Writes, TypeOK, history

LEMMA RowsAdvanceWrites ==
    ASSUME TypeOK, Inv, NEW t \in Threads, Writes(t)
    PROVE  RowsAdvance'
<1> DEFINE e == work[t].id
<1>1. /\ work'[t] = None
      /\ \A u \in Threads \ {t} : work'[u] = work[u]
      /\ \A f \in Ids \ {e} : enr'[f] = enr[f]
  BY WritesWork
<1>2. /\ work[t] # None /\ e \in Ids
      /\ \/ work[t].read.status = "absent" /\ enr[e].status = "absent"
            /\ enr'[e].status = "pending"
         \/ work[t].read.status # "absent" /\ enr'[e].status = enr[e].status
         \/ /\ work[t].read.status # "absent"
            /\ enr'[e].status \in {"expired", "rejected", "enrolled", "approved"}
      /\ work[t].op = "approved" => enr'[e].status = "approved"
  BY WritesRow
<1>3. RowsAdvance
  BY DEF Inv
<1>4. e # None
  BY <1>2, EnrollmentAssumption DEF Ids
<1>5. /\ work[t].read.status = "absent" =>
            \A v \in Threads \ {t} : work[v] # None => work[v].id # e
      /\ work[t].read.status # "absent" => enr[e].status # "absent"
  BY <1>2, <1>3, <1>4 DEF RowsAdvance
<1>6. \/ device' = device
      \/ device'.id = device.id
      \/ device'.id = e
  BY DEF Writes
<1>7. \A f \in Ids, k \in Secrets : Known(f, k)' =>
         Known(f, k) \/ (f = e /\ work[t].op = "approved")
  BY KnownWrites
<1> HIDE DEF e
<1>8. enr'[e].status # "absent"
  BY <1>2, <1>5
<1>9. \A f \in Ids : enr[f].status \notin {"absent", "pending"}
                          => enr'[f].status \notin {"absent", "pending"}
  BY <1>1, <1>2
<1>10. \A f \in Ids : enr[f].status # "absent" => enr'[f].status # "absent"
  BY <1>1, <1>8
<1>11. ASSUME NEW u \in Threads, work'[u] # None, work'[u].id # None
       PROVE  /\ work'[u].read.status = "absent" =>
                   /\ enr'[work'[u].id].status = "absent"
                   /\ \A v \in Threads \ {u} : work'[v] # None => work'[v].id # work'[u].id
              /\ work'[u].read.status # "absent" => enr'[work'[u].id].status # "absent"
              /\ work'[u].read.status \notin {"absent", "pending"}
                    => enr'[work'[u].id].status \notin {"absent", "pending"}
  <2>1. u # t /\ work'[u] = work[u]
    BY <1>1, <1>11
  <2> DEFINE f == work[u].id
  <2>2. f \in Ids
    BY <1>11, <2>1, Typed DEF Inv, Shapes
  <2>3. /\ work[u].read.status = "absent" =>
                /\ enr[f].status = "absent"
                /\ \A v \in Threads \ {u} : work[v] # None => work[v].id # f
        /\ work[u].read.status # "absent" => enr[f].status # "absent"
        /\ work[u].read.status \notin {"absent", "pending"}
              => enr[f].status \notin {"absent", "pending"}
    BY <1>3, <1>11, <2>1 DEF RowsAdvance
  <2>4. work[u].read.status = "absent" => f # e
    BY <1>2, <2>1, <2>3 DEF e
  <2>5. work'[u].id = f /\ work'[u].read = work[u].read
    BY <2>1
  <2> HIDE DEF f
  <2>6. \A v \in Threads \ {u} : work'[v] # None => work[v] # None /\ work'[v] = work[v]
    BY <1>1
  <2> QED BY <1>1, <1>9, <1>10, <2>2, <2>3, <2>4, <2>5, <2>6
<1>12. device'.id # None => enr'[device'.id].status # "absent"
  <2>1. device.id # None => device.id \in Ids /\ enr[device.id].status # "absent"
    BY <1>3 DEF RowsAdvance, TypeOK
  <2> QED BY <1>6, <1>8, <1>10, <2>1
<1>13. \A f \in Ids, k \in Secrets :
          Known(f, k)' => enr'[f].status \notin {"absent", "pending"}
  BY <1>2, <1>3, <1>7, <1>9 DEF RowsAdvance
<1> QED BY <1>11, <1>12, <1>13 DEF RowsAdvance

LEMMA KeysFreshWrites ==
    ASSUME TypeOK, Inv, NEW t \in Threads, Writes(t)
    PROVE  KeysFresh'
<1>1. /\ work'[t] = None
      /\ \A u \in Threads \ {t} : work'[u] = work[u]
  BY WritesWork
<1>2. secrets' = secrets /\ work[t] # None
  BY DEF Writes
<1>3. KeysFresh
  BY DEF Inv
<1>4. \A f \in Ids, k \in Secrets : Known(f, k)' =>
         Known(f, k) \/ (Generated(t) /\ k = work[t].new.key)
  BY <1>2, KnownWrites DEF Generated
<1>5. \A u \in Threads : Generated(u)' => u # t /\ Generated(u)
  BY <1>1 DEF Generated
<1>6. \A f \in Ids, k \in Secrets : Known(f, k)' => k <= secrets
  BY <1>3, <1>4 DEF KeysFresh
<1>7. \A u \in Threads : Generated(u)' => work'[u].new.key <= secrets
  BY <1>1, <1>3, <1>5 DEF KeysFresh
<1>8. \A u, v \in Threads :
          Generated(u)' /\ Generated(v)' /\ u # v => work'[u].new.key # work'[v].new.key
  BY <1>1, <1>3, <1>5 DEF KeysFresh
<1>9. \A u \in Threads, f \in Ids, k \in Secrets :
          Generated(u)' /\ work'[u].op # "approved" /\ Known(f, k)' => work'[u].new.key # k
  BY <1>1, <1>3, <1>4, <1>5 DEF KeysFresh
<1> QED BY <1>2, <1>6, <1>7, <1>8, <1>9 DEF KeysFresh

LEMMA OneDecisionWrites ==
    ASSUME TypeOK, Inv, NEW t \in Threads, Writes(t)
    PROVE  OneDecision'
<1> DEFINE w == work[t]
<1>1. /\ work'[t] = None
      /\ \A u \in Threads \ {t} : work'[u] = work[u]
      /\ \A f \in Ids \ {w.id} : enr'[f] = enr[f]
  BY WritesWork
<1>2. /\ w # None /\ w.id \in Ids
      /\ \/ w.read.status = "absent"
         \/ enr'[w.id].status = enr[w.id].status
         \/ enr'[w.id].status = "expired"
         \/ Deciding(t, w.id)
         \/ w.read.status = "approved"
      /\ w.op = "approved" => Deciding(t, w.id)
  BY WritesRow
<1>3. contested' = contested
  BY DEF Writes, history
<1>4. \A f \in Ids, k \in Secrets : Known(f, k)' =>
         Known(f, k) \/ (f = w.id /\ w.op = "approved" /\ k = w.new.key)
  BY KnownWrites
<1> SUFFICES ASSUME NEW e \in Ids, e \notin contested
             PROVE  /\ \A v \in Threads : Deciding(v, e)' =>
                          /\ \A u \in Threads : Deciding(u, e)' => v = u
                          /\ enr'[e].status \in {"pending", "expired"}
                          /\ \A u \in Threads : work'[u] # None /\ work'[u].id = e
                                => work'[u].read.status \in {"pending", "expired"}
                          /\ \A k \in Secrets : ~Known(e, k)'
                    /\ \A k, l \in Secrets : Known(e, k)' /\ Known(e, l)' => k = l
  BY <1>3 DEF OneDecision
<1>5. /\ \A v \in Threads : Deciding(v, e) =>
            /\ \A u \in Threads : Deciding(u, e) => v = u
            /\ enr[e].status \in {"pending", "expired"}
            /\ \A u \in Threads : work[u] # None /\ work[u].id = e
                  => work[u].read.status \in {"pending", "expired"}
            /\ \A k \in Secrets : ~Known(e, k)
      /\ \A k, l \in Secrets : Known(e, k) /\ Known(e, l) => k = l
  BY DEF Inv, OneDecision
<1>6. \A u \in Threads : Deciding(u, e)' => u # t /\ Deciding(u, e)
  BY <1>1 DEF Deciding
<1> HIDE DEF w
<1>7. ASSUME NEW v \in Threads, Deciding(v, e)'
      PROVE  /\ \A u \in Threads : Deciding(u, e)' => v = u
             /\ enr'[e].status \in {"pending", "expired"}
             /\ \A u \in Threads : work'[u] # None /\ work'[u].id = e
                   => work'[u].read.status \in {"pending", "expired"}
             /\ \A k \in Secrets : ~Known(e, k)'
  <2>1. Deciding(v, e) /\ v # t
    BY <1>6, <1>7
  <2>2. ~Deciding(t, e)
    BY <1>5, <2>1
  <2>3. enr'[e].status \in {"pending", "expired"}
    <3>1. CASE e # w.id
      BY <1>1, <1>5, <2>1, <3>1
    <3>2. CASE e = w.id
      <4>1. w.read.status \in {"pending", "expired"} /\ enr[e].status \in {"pending", "expired"}
        BY <1>2, <1>5, <2>1, <3>2 DEF w
      <4> QED BY <1>2, <2>2, <3>2, <4>1
    <3> QED BY <3>1, <3>2
  <2>4. \A k \in Secrets : ~Known(e, k)'
    BY <1>2, <1>4, <1>5, <2>1, <2>2
  <2> QED BY <1>1, <1>5, <1>6, <2>1, <2>3, <2>4
<1>8. \A k, l \in Secrets : Known(e, k)' /\ Known(e, l)' => k = l
  BY <1>2, <1>4, <1>5
<1> QED BY <1>7, <1>8

LEMMA TokenHeldWrites ==
    ASSUME TypeOK, Inv, NEW t \in Threads, Writes(t)
    PROVE  TokenHeld'
<1> DEFINE w == work[t]
           e == w.id
<1>1. /\ work'[t] = None
      /\ \A u \in Threads \ {t} : work'[u] = work[u]
      /\ \A f \in Ids \ {e} : enr'[f] = enr[f]
  BY WritesWork
<1>2. UNCHANGED <<token, stray, contested>>
  BY DEF Writes, history
<1> SUFFICES ASSUME contested = {}, token # None
             PROVE  /\ ~stray => ~Asking' /\ InReach'
                    /\ \A u \in Threads : /\ work'[u] # None /\ work'[u].op = "save"
                                           /\ work'[u].read.key = token
                                           => device'.key = token
  BY <1>2 DEF TokenHeld
<1>3. /\ ~stray => ~Asking /\ InReach
      /\ \A u \in Threads : /\ work[u] # None /\ work[u].op = "save"
                             /\ work[u].read.key = token
                             => device.key = token
  BY DEF Inv, TokenHeld
<1>4. /\ w # None /\ e \in Ids
      /\ \/ enr'[e].key = enr[e].key
         \/ w.op = "save" /\ w.read.key # None
         \/ w.op = "approved" /\ enr'[e].key = w.new.key /\ Deciding(t, e)
      /\ w.op = "approved" => enr'[e].key = w.new.key
  BY WritesRow
<1>5. /\ device'.key \in Secrets \cup {None} /\ token \in Secrets
      /\ w.read \in Row /\ w.read.key \in Secrets \cup {None}
  BY <1>4, Typed DEF Writes, TypeOK, Row
<1>6. OneDecision /\ e \in Ids \ contested
  BY <1>4 DEF Inv
<1>7. device.key = token => device'.key = token
  <2> SUFFICES ASSUME device.key = token PROVE device'.key = token
    OBVIOUS
  <2>1. CASE device' = device
    BY <2>1
  <2>2. CASE device'.id = device.id /\ device.id = e /\ device'.key # None
             /\ Known(e, device'.key)
    <3>1. Known(e, token)
      BY <2>2 DEF Known
    <3> QED BY <1>5, <1>6, <2>2, <3>1 DEF OneDecision
  <2> QED BY <2>1, <2>2 DEF Writes
<1> HIDE DEF w, e
<1>8. ASSUME NEW f \in Ids, enr[f].key = token
      PROVE  device.key = token \/ enr'[f].key = token
  <2>1. CASE f # e \/ enr'[e].key = enr[e].key
    BY <1>1, <1>8, <2>1
  <2>2. CASE f = e /\ w.op = "save" /\ w.read.key # None
    <3>1. Known(e, token) /\ Known(e, w.read.key)
      BY <1>4, <1>8, <2>2 DEF Known, w, e
    <3>2. w.read.key = token
      BY <1>5, <1>6, <2>2, <3>1 DEF OneDecision
    <3> QED BY <1>3, <1>4, <2>2, <3>2 DEF w
  <2>3. CASE f = e /\ Deciding(t, e)
    <3>1. Known(e, token)
      BY <1>8, <2>3 DEF Known
    <3> QED BY <1>5, <1>6, <2>3, <3>1 DEF OneDecision
  <2> QED BY <1>4, <2>1, <2>2, <2>3
<1>9. ASSUME ~stray PROVE ~Asking' /\ InReach'
  <2>1. ~Asking /\ InReach /\ w.op # "request"
    BY <1>3, <1>4, <1>9 DEF Asking, w
  <2>2. ~Asking'
    BY <1>1, <2>1 DEF Asking
  <2>3. device'.id = device.id /\ device'.code = device.code
    BY <2>1 DEF Writes, w
  <2>4. CASE device.key = token
    BY <1>2, <1>7, <2>2, <2>4 DEF InReach
  <2>5. CASE device.key # token
    <3> DEFINE d == device.id
    <3>1. d # None /\ enr[d].code = device.code /\ (enr[d].key = token \/ OnItsWay)
      BY <2>1, <2>5 DEF InReach
    <3>2. d \in Ids
      BY <3>1 DEF TypeOK
    <3>3. enr'[d].code = enr[d].code
      BY <1>1, <2>1, <3>2 DEF Writes, w, e
    <3>4. CASE enr[d].key = token
      BY <1>2, <1>8, <2>2, <2>3, <2>5, <3>1, <3>2, <3>3, <3>4 DEF InReach
    <3>5. CASE OnItsWay
      <4>1. PICK u \in Threads : /\ work[u] # None /\ work[u].op = "approved"
                                 /\ work[u].id = d /\ work[u].new.key = token
        BY <3>5 DEF OnItsWay
      <4>2. CASE u = t
        BY <1>2, <1>4, <2>2, <2>3, <3>1, <3>3, <4>1, <4>2 DEF InReach, w, e
      <4>3. CASE u # t
        <5>1. OnItsWay'
          BY <1>1, <1>2, <2>3, <4>1, <4>3 DEF OnItsWay
        <5> QED BY <1>2, <2>2, <2>3, <3>1, <3>3, <5>1 DEF InReach
      <4> QED BY <4>2, <4>3
    <3> QED BY <3>1, <3>4, <3>5
  <2> QED BY <2>4, <2>5
<1>10. \A u \in Threads : /\ work'[u] # None /\ work'[u].op = "save"
                          /\ work'[u].read.key = token
                          => device'.key = token
  BY <1>1, <1>3, <1>7
<1> QED BY <1>9, <1>10

LEMMA InvWrites ==
    ASSUME TypeOK, Inv, NEW t \in Threads, Writes(t)
    PROVE  Inv'
<1>1. KeyMatchesStatus'
  <2>1. \A f \in Ids \ {work[t].id} : enr'[f] = enr[f]
    BY WritesWork
  <2> QED BY <2>1, WritesRow DEF Inv, KeyMatchesStatus
<1>2. Shapes'
  BY WritesWork DEF Inv, Shapes
<1> QED
  BY <1>1, <1>2, RowsAdvanceWrites, KeysFreshWrites, OneDecisionWrites, TokenHeldWrites DEF Inv

-----------------------------------------------------------------------------
(* The other steps: none makes a key known, or changes a status.           *)

\* Transactions that stay, but for one that ends, or has given the node its
\* token.
Quiet ==
    /\ \A u \in Threads : work'[u] # None =>
          /\ work[u] # None /\ work'[u].id = work[u].id
          /\ work'[u].read = work[u].read /\ work'[u].new = work[u].new
          /\ \/ work'[u].op = work[u].op
             \/ work[u].op = "approve" /\ work'[u].op = "approved"
    /\ \A e \in Ids : enr'[e].status = enr[e].status /\ enr'[e].key = enr[e].key
    /\ UNCHANGED <<device, secrets, contested>>

LEMMA InvQuiet ==
    ASSUME TypeOK, Inv, Quiet, TokenHeld'
    PROVE  Inv'
<1>1. \A u \in Threads : work'[u] # None =>
         /\ work[u] # None /\ work'[u].id = work[u].id
         /\ work'[u].read = work[u].read /\ work'[u].new = work[u].new
         /\ \/ work'[u].op = work[u].op
            \/ work[u].op = "approve" /\ work'[u].op = "approved"
  BY DEF Quiet
<1>2. /\ \A e \in Ids : enr'[e].status = enr[e].status /\ enr'[e].key = enr[e].key
      /\ device' = device /\ secrets' = secrets /\ contested' = contested
  BY DEF Quiet
<1>3. \A e \in Ids, k \in Secrets : Known(e, k)' => Known(e, k)
  BY <1>1, <1>2 DEF Known
<1>4. \A u \in Threads : Generated(u)' =>
         /\ Generated(u) /\ work'[u].new = work[u].new
         /\ work'[u].op # "approved" => work[u].op # "approved"
  BY <1>1 DEF Generated
<1>5. \A u \in Threads, e \in Ids : Deciding(u, e)' => Deciding(u, e)
  BY <1>1 DEF Deciding
<1>6. KeyMatchesStatus'
  BY <1>2 DEF Inv, KeyMatchesStatus
<1>7. Shapes'
  <2> SUFFICES ASSUME NEW u \in Threads, work'[u] # None
               PROVE  /\ Shaped(work'[u]) /\ (work'[u].id = None <=> work'[u].op = "provision")
                      /\ work'[u].op # "request" => work'[u].new.code = work'[u].read.code
    BY DEF Shapes
  <2>1. /\ work[u] # None /\ Shaped(work[u]) /\ (work[u].id = None <=> work[u].op = "provision")
        /\ work[u].op # "request" => work[u].new.code = work[u].read.code
    BY <1>1 DEF Inv, Shapes
  <2> QED BY <1>1, <2>1 DEF Shaped
<1>8. RowsAdvance'
  <2>1. RowsAdvance
    BY DEF Inv
  <2>2. ASSUME NEW u \in Threads, work'[u] # None, work'[u].id # None
        PROVE  /\ work'[u].read.status = "absent" =>
                    /\ enr'[work'[u].id].status = "absent"
                    /\ \A v \in Threads \ {u} : work'[v] # None => work'[v].id # work'[u].id
               /\ work'[u].read.status # "absent" => enr'[work'[u].id].status # "absent"
               /\ work'[u].read.status \notin {"absent", "pending"}
                     => enr'[work'[u].id].status \notin {"absent", "pending"}
    <3> DEFINE f == work[u].id
    <3>1. /\ work[u] # None /\ work'[u].id = f /\ f # None
          /\ work'[u].read = work[u].read
      BY <1>1, <2>2
    <3>2. f \in Ids
      BY <3>1, Typed DEF Inv, Shapes
    <3>3. /\ work[u].read.status = "absent" =>
                  /\ enr[f].status = "absent"
                  /\ \A v \in Threads \ {u} : work[v] # None => work[v].id # f
          /\ work[u].read.status # "absent" => enr[f].status # "absent"
          /\ work[u].read.status \notin {"absent", "pending"}
                => enr[f].status \notin {"absent", "pending"}
      BY <2>1, <3>1 DEF RowsAdvance
    <3> HIDE DEF f
    <3> QED BY <1>1, <1>2, <3>1, <3>2, <3>3
  <2>3. device.id # None => enr'[device.id].status # "absent"
    BY <1>2, <2>1 DEF RowsAdvance, TypeOK
  <2>4. \A e \in Ids, k \in Secrets :
          Known(e, k)' => enr'[e].status \notin {"absent", "pending"}
    BY <1>2, <1>3, <2>1 DEF RowsAdvance
  <2> QED BY <1>2, <2>2, <2>3, <2>4 DEF RowsAdvance
<1>9. KeysFresh'
  <2>1. KeysFresh
    BY DEF Inv
  <2>2. \A e \in Ids, k \in Secrets : Known(e, k)' => k <= secrets
    BY <1>3, <2>1 DEF KeysFresh
  <2>3. \A u \in Threads : Generated(u)' => work'[u].new.key <= secrets
    BY <1>4, <2>1 DEF KeysFresh
  <2>4. \A u, v \in Threads :
           Generated(u)' /\ Generated(v)' /\ u # v => work'[u].new.key # work'[v].new.key
    BY <1>4, <2>1 DEF KeysFresh
  <2>5. \A u \in Threads, e \in Ids, k \in Secrets :
           Generated(u)' /\ work'[u].op # "approved" /\ Known(e, k)' => work'[u].new.key # k
    BY <1>3, <1>4, <2>1 DEF KeysFresh
  <2> QED BY <1>2, <2>2, <2>3, <2>4, <2>5 DEF KeysFresh
<1>10. OneDecision'
  <2> SUFFICES ASSUME NEW e \in Ids, e \notin contested
               PROVE  /\ \A v \in Threads : Deciding(v, e)' =>
                            /\ \A u \in Threads : Deciding(u, e)' => v = u
                            /\ enr'[e].status \in {"pending", "expired"}
                            /\ \A u \in Threads : work'[u] # None /\ work'[u].id = e
                                  => work'[u].read.status \in {"pending", "expired"}
                            /\ \A k \in Secrets : ~Known(e, k)'
                      /\ \A k, l \in Secrets : Known(e, k)' /\ Known(e, l)' => k = l
    BY <1>2 DEF OneDecision
  <2>1. /\ \A v \in Threads : Deciding(v, e) =>
              /\ \A u \in Threads : Deciding(u, e) => v = u
              /\ enr[e].status \in {"pending", "expired"}
              /\ \A u \in Threads : work[u] # None /\ work[u].id = e
                    => work[u].read.status \in {"pending", "expired"}
              /\ \A k \in Secrets : ~Known(e, k)
        /\ \A k, l \in Secrets : Known(e, k) /\ Known(e, l) => k = l
    BY DEF Inv, OneDecision
  <2> QED BY <1>1, <1>2, <1>3, <1>5, <2>1
<1> QED BY <1>6, <1>7, <1>8, <1>9, <1>10 DEF Inv

\* The token changes to one that no row has.
LEMMA NewToken ==
    ASSUME TypeOK, Inv, NEW t \in Threads, work[t] # None,
           work[t].op \in {"approve", "provision"}
    PROVE  \A u \in Threads : work[u] # None /\ work[u].op = "save"
              => work[u].read.key # work[t].new.key
<1> SUFFICES ASSUME NEW u \in Threads, work[u] # None, work[u].op = "save",
                    work[u].read.key = work[t].new.key
             PROVE  FALSE
  OBVIOUS
<1>1. Shaped(work[t]) /\ work[t].new \in Row /\ work[u].id \in Ids
  BY Typed
<1>2. work[t].new.key \in Secrets
  BY <1>1 DEF Shaped, Row
<1>3. Known(work[u].id, work[t].new.key)
  BY DEF Known
<1>4. Generated(t) /\ work[t].op # "approved"
  BY DEF Generated
<1> QED BY <1>1, <1>2, <1>3, <1>4 DEF Inv, KeysFresh

LEMMA ApproveProvisionsStep ==
    ASSUME TypeOK, Inv, NEW t \in Threads, ApproveProvisions(t)
    PROVE  TypeOK' /\ Inv'
<1> DEFINE w == work[t]
           v == [w EXCEPT !.op = "approved"]
<1>1. /\ w # None /\ w.op = "approve" /\ token' = w.new.key /\ stray' = ~InHand(w.id)
      /\ work' = [work EXCEPT ![t].op = "approved"]
      /\ UNCHANGED <<enr, device, secrets, contested>>
  BY DEF ApproveProvisions
<1>2. w \in Transaction /\ w.new \in Row /\ w.id \in Ids
  BY <1>1, Typed
<1>3. /\ v \in Transaction /\ v.op = "approved" /\ v.id = w.id /\ v.read = w.read
      /\ v.new = w.new
  BY <1>2 DEF Transaction
<1>4. work' = [work EXCEPT ![t] = v]
  BY <1>1
<1> HIDE DEF v
<1>5. /\ work' \in [Threads -> Transaction \cup {None}]
      /\ work'[t] = v /\ \A u \in Threads \ {t} : work'[u] = work[u]
  BY <1>3, <1>4 DEF TypeOK
<1>6. v # None
  BY <1>3, NoTransactionAssumption
<1>7. TypeOK'
  BY <1>1, <1>2, <1>5 DEF TypeOK, Row
<1>8. \A u \in Threads : work[u] # None /\ work[u].op = "save" => work[u].read.key # token'
  BY <1>1, NewToken
<1>9. TokenHeld'
  <2>1. ASSUME InHand(w.id) PROVE ~Asking' /\ InReach'
    <3>1. device.id = w.id /\ enr[device.id].code = device.code /\ ~Asking
      BY <2>1 DEF InHand
    <3>2. ~Asking'
      BY <1>3, <1>5, <3>1 DEF Asking
    <3>3. /\ work'[t] # None /\ work'[t].op = "approved"
          /\ work'[t].id = device.id /\ work'[t].new.key = token'
      BY <1>1, <1>3, <1>5, <1>6, <3>1
    <3>4. OnItsWay'
      BY <1>1, <3>3 DEF OnItsWay
    <3>5. device.id # None
      BY <1>2, <3>1, EnrollmentAssumption DEF Ids
    <3> QED BY <1>1, <3>1, <3>2, <3>4, <3>5 DEF InReach
  <2>2. \A u \in Threads : work'[u] # None /\ work'[u].op = "save" => work'[u].read.key # token'
    BY <1>3, <1>5, <1>8
  <2> QED BY <1>1, <2>1, <2>2 DEF TokenHeld
<1>10. Quiet
  BY <1>1, <1>3, <1>5 DEF Quiet
<1> QED BY <1>7, <1>9, <1>10, InvQuiet

LEMMA ProvisionCommitsStep ==
    ASSUME TypeOK, Inv, NEW t \in Threads, ProvisionCommits(t)
    PROVE  TypeOK' /\ Inv'
<1>1. /\ work[t] # None /\ work[t].op = "provision" /\ token' = work[t].new.key
      /\ stray' = TRUE /\ work' = [work EXCEPT ![t] = None]
      /\ UNCHANGED <<enr, device, secrets, contested>>
  BY DEF ProvisionCommits, Finish
<1>2. work[t].new \in Row
  BY <1>1, Typed
<1>3. /\ work' \in [Threads -> Transaction \cup {None}]
      /\ work'[t] = None /\ \A u \in Threads \ {t} : work'[u] = work[u]
  BY <1>1 DEF TypeOK
<1>4. TypeOK'
  BY <1>1, <1>2, <1>3 DEF TypeOK, Row
<1>5. \A u \in Threads : work[u] # None /\ work[u].op = "save" => work[u].read.key # token'
  BY <1>1, NewToken
<1>6. TokenHeld'
  BY <1>1, <1>3, <1>5 DEF TokenHeld
<1>7. Quiet
  BY <1>1, <1>3 DEF Quiet
<1> QED BY <1>4, <1>6, <1>7, InvQuiet

LEMMA FailsStep ==
    ASSUME TypeOK, Inv, NEW t \in Threads, Fails(t)
    PROVE  TypeOK' /\ Inv'
<1>1. /\ work[t] # None
      /\ work' = [work EXCEPT ![t] = None]
      /\ stray' = (stray \/ (work[t].op = "approved" /\ work[t].new.key = token))
      /\ UNCHANGED <<enr, token, device, secrets, contested>>
  BY DEF Fails, Finish
<1>2. /\ work' \in [Threads -> Transaction \cup {None}]
      /\ work'[t] = None /\ \A u \in Threads \ {t} : work'[u] = work[u]
  BY <1>1 DEF TypeOK
<1>3. TypeOK'
  BY <1>1, <1>2 DEF TypeOK
<1>4. TokenHeld'
  <2> SUFFICES ASSUME contested = {}, token # None
               PROVE  /\ ~stray' => ~Asking' /\ InReach'
                      /\ \A u \in Threads : /\ work'[u] # None /\ work'[u].op = "save"
                                             /\ work'[u].read.key = token
                                             => device.key = token
    BY <1>1 DEF TokenHeld
  <2>1. /\ ~stray => ~Asking /\ InReach
        /\ \A u \in Threads : /\ work[u] # None /\ work[u].op = "save"
                               /\ work[u].read.key = token
                               => device.key = token
    BY DEF Inv, TokenHeld
  <2>2. ~Asking => ~Asking'
    BY <1>2 DEF Asking
  <2>3. ~stray' /\ OnItsWay => OnItsWay'
    BY <1>1, <1>2 DEF OnItsWay
  <2>4. ~stray' /\ InReach => InReach'
    BY <1>1, <2>3 DEF InReach
  <2> QED BY <1>1, <1>2, <2>1, <2>2, <2>4
<1>5. Quiet
  BY <1>1, <1>2 DEF Quiet
<1> QED BY <1>3, <1>4, <1>5, InvQuiet

LEMMA LapseStep ==
    ASSUME TypeOK, Inv, NEW e \in Ids, Lapse(e)
    PROVE  TypeOK' /\ Inv'
<1> DEFINE r == [enr[e] EXCEPT !.lapsed = TRUE]
<1>1. /\ enr' = [enr EXCEPT ![e].lapsed = TRUE]
      /\ UNCHANGED <<token, device, work, secrets, stray, contested>>
  BY DEF Lapse, history
<1>2. r \in Row /\ r.status = enr[e].status /\ r.key = enr[e].key /\ r.code = enr[e].code
  BY DEF TypeOK, Row
<1>3. enr' = [f \in Ids |-> IF f = e THEN r ELSE enr[f]]
  BY <1>1 DEF TypeOK
<1> HIDE DEF r
<1>4. TypeOK'
  BY <1>1, <1>2, <1>3 DEF TypeOK
<1>5. \A f \in Ids : /\ enr'[f].status = enr[f].status /\ enr'[f].key = enr[f].key
                     /\ enr'[f].code = enr[f].code
  BY <1>2, <1>3
<1>6. TokenHeld'
  <2>1. device.id # None => device.id \in Ids
    BY DEF TypeOK
  <2>2. Asking' = Asking /\ OnItsWay' = OnItsWay
    BY <1>1 DEF Asking, OnItsWay
  <2>3. InReach => InReach'
    BY <1>1, <1>5, <2>1, <2>2 DEF InReach
  <2> QED BY <1>1, <2>2, <2>3 DEF Inv, TokenHeld
<1>7. Quiet
  BY <1>1, <1>5 DEF Quiet
<1> QED BY <1>4, <1>6, <1>7, InvQuiet

LEMMA CrashStep ==
    ASSUME TypeOK, Inv, Crash
    PROVE  TypeOK' /\ Inv'
<1>1. /\ work' = [t \in Threads |-> None]
      /\ stray' = (stray \/ Approving)
      /\ UNCHANGED <<enr, token, device, secrets, contested>>
  BY DEF Crash
<1>2. TypeOK'
  BY <1>1 DEF TypeOK, Approving
<1>3. TokenHeld'
  <2>1. ~Asking'
    BY <1>1 DEF Asking
  <2>2. InReach /\ ~Approving => InReach'
    BY <1>1 DEF InReach, OnItsWay, Approving
  <2> QED BY <1>1, <2>1, <2>2 DEF Inv, TokenHeld
<1>4. Quiet
  BY <1>1 DEF Quiet
<1> QED BY <1>2, <1>3, <1>4, InvQuiet

-----------------------------------------------------------------------------
(* Theorems.                                                               *)

\* Every step but these five opens a transaction or ends one.
LEMMA StepKinds ==
    ASSUME TypeOK, Inv, Next
    PROVE  \/ \E t \in Threads : (\E w : Opens(t, w)) \/ Writes(t)
           \/ \E t \in Threads : ApproveProvisions(t) \/ ProvisionCommits(t) \/ Fails(t)
           \/ \E e \in Ids : Lapse(e)
           \/ Crash
<1>1. CASE Hello
  BY <1>1, HelloOpens DEF Threads
<1>2. ASSUME NEW t \in Threads, Request(t) \/ Poll(t) \/ Provision(t)
      PROVE  \E w : Opens(t, w)
  BY <1>2, RequestOpens, PollOpens, ProvisionOpens
<1>3. ASSUME NEW t \in Threads, NEW e \in Ids, Look(t, e) \/ Reject(t, e) \/ Approve(t, e)
      PROVE  \E w : Opens(t, w)
  BY <1>3, LookOpens, RejectOpens, ApproveOpens
<1>4. ASSUME NEW t \in Threads,
             CommitRequest(t) \/ CommitPoll(t) \/ Save(t) \/ ApproveCommits(t)
      PROVE  Writes(t)
  BY <1>4, CommitRequestWrites, CommitPollWrites, SaveWrites
<1> QED BY <1>1, <1>2, <1>3, <1>4, Zenon DEF Next

LEMMA InvStep ==
    ASSUME TypeOK, Inv, [Next]_vars
    PROVE  TypeOK' /\ Inv'
<1>1. CASE UNCHANGED vars
  <2>1. TypeOK'
    BY <1>1 DEF vars, history, TypeOK
  <2>2. TokenHeld'
    BY <1>1 DEF vars, history, Inv, TokenHeld, Asking, InReach, OnItsWay
  <2>3. Quiet
    BY <1>1 DEF vars, history, Quiet
  <2> QED BY <2>1, <2>2, <2>3, InvQuiet
<1>2. CASE Next
  BY <1>2, StepKinds, TypeOKOpens, InvOpens, TypeOKWrites, InvWrites, ApproveProvisionsStep,
     ProvisionCommitsStep, FailsStep, LapseStep, CrashStep
<1> QED BY <1>1, <1>2

\* The type invariant (models/node_enrollment.py:14-43).
THEOREM TypeCorrect == Spec => []TypeOK
BY TypeOKInit, InvInit, InvStep, PTL DEF Spec

\* The rows, the open transactions and the node agree about every key
\* (enrollment_service.py:46-230).
THEOREM Consistent == Spec => []Inv
BY TypeOKInit, InvInit, InvStep, PTL DEF Spec

\* An approved enrollment carries a token and an enrolled one none, for any
\* number of requests and threads, and however their commits interleave
\* (enrollment_service.py:160-176, node_service.py:138-149).
THEOREM KeysMatch == Spec => []KeyMatchesStatus
<1>1. Inv => KeyMatchesStatus
  BY DEF Inv
<1> QED BY <1>1, Consistent, PTL

\* The node can have its token once the request it polls is approved: it has it,
\* or the request it polls, with the code it knows, holds it.  Not so for a token
\* that is stray or whose request is contested
\* (enrollment_service.py:134-178, 210-228).
THEOREM TokenCanBeHad == Spec => []KeyNotLost
<1>1. Inv => KeyNotLost
  BY DEF Inv, TokenHeld, InReach, OnItsWay, KeyNotLost, Approving
<1> QED BY <1>1, Consistent, PTL

\* No step turns a rejection into an approval, or an approval into a rejection,
\* unless both decisions were open at once (enrollment_service.py:142-164,
\* 188-195).
THEOREM DecisionsStand == Spec => DecidedOnce
<1> DEFINE Stands == \A e \in Ids \ contested :
                       /\ enr[e].status = "rejected" => enr'[e].status # "approved"
                       /\ enr[e].status \in {"approved", "enrolled"}
                             => enr'[e].status # "rejected"
<1>1. ASSUME TypeOK, Inv, [Next]_vars PROVE [Stands]_vars
  <2>1. ASSUME NEW t \in Threads, Writes(t) PROVE Stands
    <3> SUFFICES ASSUME NEW e \in Ids \ contested, enr'[e].status # enr[e].status
                 PROVE  /\ enr[e].status = "rejected" => enr'[e].status # "approved"
                        /\ enr[e].status \in {"approved", "enrolled"}
                              => enr'[e].status # "rejected"
      OBVIOUS
    <3>1. e = work[t].id
      BY <1>1, <2>1, WritesWork
    <3>2. Deciding(t, e) => enr[e].status \in {"pending", "expired"}
      BY <1>1, <2>1 DEF Inv, OneDecision
    <3> QED BY <1>1, <2>1, <3>1, <3>2, WritesRow
  <2>2. CASE \A e \in Ids : enr'[e].status = enr[e].status
    BY <2>2
  <2>3. CASE UNCHANGED vars
    BY <2>3
  <2>4. CASE Next
    <3>1. ASSUME NEW t \in Threads, NEW w, Opens(t, w) PROVE Stands
      BY <2>2, <3>1 DEF Opens
    <3>2. ASSUME NEW t \in Threads,
                 ApproveProvisions(t) \/ ProvisionCommits(t) \/ Fails(t)
          PROVE  Stands
      BY <2>2, <3>2 DEF ApproveProvisions, ProvisionCommits, Fails
    <3>3. ASSUME NEW e \in Ids, Lapse(e) PROVE Stands
      <4>1. \A f \in Ids : enr'[f].status = enr[f].status
        BY <1>1, <3>3 DEF Lapse, TypeOK, Row
      <4> QED BY <2>2, <4>1
    <3>4. CASE Crash
      BY <2>2, <3>4 DEF Crash
    <3> HIDE DEF Stands
    <3> QED BY <1>1, <2>1, <2>4, <3>1, <3>2, <3>3, <3>4, StepKinds
  <2> HIDE DEF Stands
  <2> QED BY <1>1, <2>3, <2>4
<1> QED BY <1>1, TypeCorrect, Consistent, PTL DEF DecidedOnce, Spec

=============================================================================
