----------------------------- MODULE LoginLimiter -----------------------------
(***************************************************************************)
(* The limit on failed logins (LoginRateLimiter and authenticate in        *)
(* services/auth_service.py).  A login has two keys, its address and its   *)
(* user name; each key has a deque of the times of failed attempts, and    *)
(* perhaps a lockout.                                                      *)
(*                                                                         *)
(* Logins run in worker threads and share those dictionaries without a     *)
(* lock.  The slow check of the password lies between ensure_allowed and   *)
(* register_failure; the statements of register_failure interleave.  A     *)
(* thread keeps the deques it has looked up, though register_success may   *)
(* take them out of the dictionary.                                        *)
(*                                                                         *)
(* Times are kept relative to now; register_failure takes no time.         *)
(***************************************************************************)
EXTENDS Integers, Sequences, FiniteSets

CONSTANTS
    Workers,        \* threads
    Ips, Users,     \* the keys
    MaxAttempts, Window, Lockout,
    None

ASSUME LoginLimiterAssumption ==
    /\ IsFiniteSet(Workers)
    /\ MaxAttempts \in Nat \ {0}
    /\ Window \in Nat
    /\ Lockout \in Nat
    /\ Lockout > Window
    /\ Ips \cap Users = {}
    /\ None \notin Nat

Keys == Ips \cup Users
Ages == 0 .. Window + 1

VARIABLES
    at,         \* _attempts_by_ip and _attempts_by_username: the deque of a key,
                \* a number, for a thread may still have an older one
    deque,      \* what the deques of each key hold, as ages, oldest first
    lock,       \* how much longer each key is locked out
    task,       \* the login in each thread, or None
    log,        \* history: ages of a key's failures since its last success
    unpaid,     \* history: how many of them are since its last lockout
    raced       \* history: keys with an attempt that a race has lost or misplaced

vars == <<at, deque, lock, task, log, unpaid, raced>>
history == <<log, unpaid, raced>>

\* No more deques of a key than threads and the dictionary refer to.
Names == 1 .. Cardinality(Workers) + 1

\* "next" is the statement of register_failure, where "check" is before it; the
\* test of _prune reads the deque twice, at "prune" and "peek", and "popping" is
\* its popleft; "side" is the key it is about.
Login == [keys : Ips \X Users, side : 1 .. 2,
          next : {"check", "look up", "prune", "peek", "popping", "append", "count"},
          held : [1 .. 2 -> Names \cup {None}]]

ASSUME NoLoginAssumption == None \notin Login

TypeOK ==
    /\ at \in [Keys -> Names \cup {None}]
    /\ lock \in [Keys -> 0 .. Lockout]
    /\ task \in [Workers -> Login \cup {None}]
    /\ deque \in [Keys -> [Names -> Seq(Ages)]]
    /\ \A k \in Keys, n \in Names : Len(deque[k][n]) < MaxAttempts + Cardinality(Workers)
    /\ log \in [Keys -> Seq(0 .. Window)]
    /\ unpaid \in [Keys -> Nat]
    /\ \A k \in Keys : unpaid[k] <= Len(log[k])
    /\ raced \subseteq Keys

Init ==
    /\ at = [k \in Keys |-> None]
    /\ deque = [k \in Keys |-> [n \in Names |-> <<>>]]
    /\ lock = [k \in Keys |-> 0]
    /\ task = [t \in Workers |-> None]
    /\ log = [k \in Keys |-> <<>>]
    /\ unpaid = [k \in Keys |-> 0]
    /\ raced = {}

-----------------------------------------------------------------------------
At(t, statement) == task[t] # None /\ task[t].next = statement
Key(t) == task[t].keys[task[t].side]
Attempts(t) == deque[Key(t)][task[t].held[task[t].side]]
Goto(t, statement, side) == [task EXCEPT ![t].next = statement, ![t].side = side]
Finish(t) == [task EXCEPT ![t] = None]

\* Whether thread t, in state w, has looked up deque n of key k.
Holds(w, t, k, n) ==
    w[t] # None /\ \E i \in 1 .. 2 : w[t].keys[i] = k /\ w[t].held[i] = n

Used(a, w, k, n) == a[k] = n \/ \E t \in Workers : Holds(w, t, k, n)

\* What remains of deques d when those nobody refers to are gone.
Collected(d, a, w) ==
    [k \in Keys |-> [n \in Names |-> IF Used(a, w, k, n) THEN d[k][n] ELSE <<>>]]

With(t, attempts) ==
    [deque EXCEPT ![Key(t)][task[t].held[task[t].side]] = attempts]

NewLogin(t, i, u) ==
    [task EXCEPT ![t] = [keys |-> <<i, u>>, side |-> 1, next |-> "check",
                         held |-> <<None, None>>]]

\* ensure_allowed; a refused login changes nothing.
Attempt(t, i, u) ==
    /\ task[t] = None
    /\ lock[i] = 0 /\ lock[u] = 0
    /\ task' = NewLogin(t, i, u)
    /\ UNCHANGED <<at, deque, lock, history>>

\* The password is right: register_success, taken as one step, forgets both
\* keys.  A thread that has looked up a deque goes on with it.
Succeed(t) ==
    /\ At(t, "check")
    /\ LET K == {task[t].keys[1], task[t].keys[2]}
           forget(f, zero) == [k \in Keys |-> IF k \in K THEN zero ELSE f[k]]
       IN  /\ at' = forget(at, None)
           /\ lock' = forget(lock, 0)
           /\ log' = forget(log, <<>>)
           /\ unpaid' = forget(unpaid, 0)
           /\ raced' = raced \cup {k \in K : at[k] # None /\
                                     \E u \in Workers : Holds(task, u, k, at[k])}
    /\ task' = Finish(t)
    /\ deque' = Collected(deque, at', task')

\* It is wrong: register_failure begins.
Fail(t) ==
    /\ At(t, "check")
    /\ task' = Goto(t, "look up", 1)
    /\ UNCHANGED <<at, deque, lock, history>>

\* The deques of both keys, made where there is none (defaultdict).
LookUp(t) ==
    /\ At(t, "look up")
    /\ LET new(k) == CHOOSE n \in Names : /\ ~Used(at, task, k, n)
                                          /\ \A m \in 1 .. n - 1 : Used(at, task, k, m)
           found == [i \in 1 .. 2 |-> LET k == task[t].keys[i]
                                      IN  IF at[k] = None THEN new(k) ELSE at[k]]
       IN  /\ at' = [at EXCEPT ![task[t].keys[1]] = found[1], ![task[t].keys[2]] = found[2]]
           /\ task' = [task EXCEPT ![t].next = "prune", ![t].held = found]
    /\ UNCHANGED <<deque, lock, history>>

\* Mutant of Outdated: attempts count for longer.
MutOutdatedLate(age) == age > Window + 1

\* _prune drops an attempt of this age.
Outdated(age) == age > Window

\* The loop of _prune is over.
Leaves(t) == IF task[t].side = 1 THEN Goto(t, "prune", 2) ELSE Goto(t, "append", 1)

\* The test of _prune, at the head of its loop: is there an attempt ...
NotEmpty(t) ==
    /\ At(t, "prune")
    /\ task' = IF Attempts(t) # <<>> THEN Goto(t, "peek", task[t].side) ELSE Leaves(t)
    /\ UNCHANGED <<at, deque, lock, history>>

\* ... and is the first one too old?
Peek(t) ==
    /\ At(t, "peek") /\ Attempts(t) # <<>>
    /\ task' = IF Outdated(Head(Attempts(t)))
               THEN Goto(t, "popping", task[t].side) ELSE Leaves(t)
    /\ UNCHANGED <<at, deque, lock, history>>

Prune(t) == NotEmpty(t) \/ Peek(t)

\* Its popleft takes what is first by now.
PopLeft(t) ==
    /\ At(t, "popping") /\ Attempts(t) # <<>>
    /\ deque' = With(t, Tail(Attempts(t)))
    /\ task' = Goto(t, "prune", task[t].side)
    /\ raced' = IF Outdated(Head(Attempts(t))) THEN raced ELSE raced \cup {Key(t)}
    /\ UNCHANGED <<at, lock, log, unpaid>>

\* Another thread has emptied the deque since: IndexError, and the login ends.
PopFails(t) ==
    /\ At(t, "peek") \/ At(t, "popping")
    /\ Attempts(t) = <<>>
    /\ task' = Finish(t)
    /\ deque' = Collected(deque, at, task')
    /\ raced' = raced \cup {task[t].keys[1], task[t].keys[2]}
    /\ UNCHANGED <<at, lock, log, unpaid>>

\* The attempt goes into both deques: no statement is about two of them.
AppendNow(t) ==
    /\ At(t, "append")
    /\ LET mine(k) == \E i \in 1 .. 2 : task[t].keys[i] = k
       IN  /\ deque' = [k \in Keys |-> [n \in Names |->
                           IF Holds(task, t, k, n) THEN Append(deque[k][n], 0) ELSE deque[k][n]]]
           /\ log' = [k \in Keys |-> IF mine(k) THEN Append(log[k], 0) ELSE log[k]]
           /\ unpaid' = [k \in Keys |-> IF mine(k) THEN unpaid[k] + 1 ELSE unpaid[k]]
    /\ task' = Goto(t, "count", 1)
    /\ UNCHANGED <<at, lock, raced>>

Leave(t) == IF task[t].side = 1 THEN Goto(t, "count", 2) ELSE Finish(t)

\* Too many: the key is locked out and its deque cleared, in one step.
LockOut(t) ==
    /\ At(t, "count")
    /\ Len(Attempts(t)) >= MaxAttempts
    /\ lock' = [lock EXCEPT ![Key(t)] = Lockout]
    /\ unpaid' = [unpaid EXCEPT ![Key(t)] = 0]
    /\ task' = Leave(t)
    /\ deque' = Collected(With(t, <<>>), at, task')
    /\ UNCHANGED <<at, log, raced>>

\* Mutant of Tolerate: one attempt more is tolerated.
MutTolerateMore(t) ==
    /\ At(t, "count")
    /\ Len(Attempts(t)) <= MaxAttempts
    /\ task' = Leave(t)
    /\ deque' = Collected(deque, at, task')
    /\ UNCHANGED <<at, lock, history>>

\* Not yet too many.
Tolerate(t) ==
    /\ At(t, "count")
    /\ Len(Attempts(t)) < MaxAttempts
    /\ task' = Leave(t)
    /\ deque' = Collected(deque, at, task')
    /\ UNCHANGED <<at, lock, history>>

Older(s) == [i \in DOMAIN s |-> IF s[i] > Window THEN s[i] ELSE s[i] + 1]

\* Those of times s, oldest first, that are within the window a moment later.
Recent(s) ==
    LET over == CHOOSE n \in 0 .. Len(s) : /\ \A i \in 1 .. n : s[i] >= Window
                                           /\ \A i \in n + 1 .. Len(s) : s[i] < Window
    IN  [i \in 1 .. Len(s) - over |-> s[i + over] + 1]

\* Time passes while no thread is inside register_failure.
Tick ==
    /\ \A t \in Workers : task[t] # None => task[t].next = "check"
    /\ deque' = [k \in Keys |-> [n \in Names |-> Older(deque[k][n])]]
    /\ lock' = [k \in Keys |-> IF lock[k] = 0 THEN 0 ELSE lock[k] - 1]
    /\ log' = [k \in Keys |-> Recent(log[k])]
    /\ unpaid' = [k \in Keys |-> IF unpaid[k] > Len(log'[k]) THEN Len(log'[k]) ELSE unpaid[k]]
    /\ raced' = {k \in raced : log'[k] # <<>>}
    /\ UNCHANGED <<at, task>>

Next ==
    \/ \E t \in Workers :
          \/ \E i \in Ips, u \in Users : Attempt(t, i, u)
          \/ Succeed(t) \/ Fail(t) \/ LookUp(t) \/ Prune(t) \/ PopLeft(t) \/ PopFails(t)
          \/ AppendNow(t) \/ LockOut(t) \/ Tolerate(t)
    \/ Tick

Spec == Init /\ [][Next]_vars

-----------------------------------------------------------------------------
(* Properties.                                                             *)

\* However the threads interleave, a key sees no more failures in a window,
\* since a login with it last succeeded, than the limit and one for every other
\* thread that was let in before the lockout began, unless a race has lost one
\* of them (auth_service.py:45-68, 114-123).
FailuresLimited ==
    \A k \in Keys \ raced : Len(log[k]) < MaxAttempts + Cardinality(Workers)

\* A thread has its deques from the look up, which comes first, to the end of
\* the login.
Holding ==
    \A t \in Workers : task[t] # None =>
        /\ task[t].next = "look up" => task[t].side = 1
        /\ \A i \in 1 .. 2 :
              task[t].held[i] = None <=> task[t].next \in {"check", "look up"}

\* Nothing is in a deque that nobody refers to, and without a race a key has no
\* other deque than the one in the dictionary.
OneDeque ==
    \A k \in Keys, n \in Names :
        /\ ~Used(at, task, k, n) => deque[k][n] = <<>>
        /\ k \notin raced => \A t \in Workers : Holds(task, t, k, n) => at[k] = n

Ordered(s) == \A i, j \in DOMAIN s : i <= j => s[j] <= s[i]

OldestFirst ==
    \A k \in Keys : Ordered(log[k]) /\ \A n \in Names : Ordered(deque[k][n])

\* The deque in the dictionary holds no recent time without a failure.
NothingInvented ==
    \A k \in Keys : at[k] # None =>
        LET d == deque[k][at[k]]
        IN  \A i \in DOMAIN d : d[i] <= Window => \E j \in DOMAIN log[k] : log[k][j] = d[i]

\* Without a race it holds the unpaid failures, after times that are outdated.
NothingLost ==
    \A k \in Keys \ raced :
        LET d == deque[k][at[k]]
            m == unpaid[k]
        IN  IF at[k] = None
            THEN m = 0
            ELSE /\ m <= Len(d)
                 /\ \A i \in 1 .. Len(d) - m : d[i] > Window
                 /\ \A i \in 1 .. m : d[Len(d) - m + i] = log[k][Len(log[k]) - m + i]

\* A deque that a thread has pruned holds no outdated time.
Pruned ==
    \A t \in Workers : task[t] # None =>
        \A i \in 1 .. 2 :
            \/ task[t].next \in {"append", "count"}
            \/ task[t].next \in {"prune", "peek", "popping"} /\ i < task[t].side
            => LET d == deque[task[t].keys[i]][task[t].held[i]]
               IN  \A j \in DOMAIN d : d[j] <= Window

\* The failures that were paid for are over when the lockout is.
PaidFirst ==
    \A k \in Keys : \A i \in 1 .. Len(log[k]) - unpaid[k] :
        log[k][i] + lock[k] >= Lockout

\* The threads that have appended to deque n of key k and not yet counted it,
\* and those that may still append to k.
Counting(k, n) ==
    {t \in Workers : /\ At(t, "count")
                     /\ \E i \in task[t].side .. 2 :
                           task[t].keys[i] = k /\ task[t].held[i] = n}
Coming(k) ==
    {t \in Workers : /\ task[t] # None /\ task[t].next # "count"
                     /\ \E i \in 1 .. 2 : task[t].keys[i] = k}

\* Only those threads can take a deque, or the log of a locked key, over the
\* limit.
Limits ==
    /\ \A k \in Keys, n \in Names :
          Len(deque[k][n]) < MaxAttempts + Cardinality(Counting(k, n))
    /\ \A k \in Keys \ raced : lock[k] > 0 =>
          Len(log[k]) + Cardinality(Coming(k)) < MaxAttempts + Cardinality(Workers)

\* The inductive invariant.
Inv ==
    /\ Holding
    /\ OneDeque
    /\ OldestFirst
    /\ NothingInvented
    /\ NothingLost
    /\ Pruned
    /\ PaidFirst
    /\ Limits

\* A key is locked out only for as many failures within the window as the
\* limit says, none of which it was locked out for before: neither the other
\* key of a login, nor old failures, nor refused attempts count
\* (auth_service.py:41-68).
LockedForCause ==
    [][\A k \in Keys \ raced : lock'[k] > lock[k] => unpaid[k] >= MaxAttempts]_vars
=============================================================================
