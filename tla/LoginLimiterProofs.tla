-------------------------- MODULE LoginLimiterProofs --------------------------
(***************************************************************************)
(* Theorems about LoginLimiter, for any threads, addresses, user names,    *)
(* limit, window and lockout, if a lockout is longer than the window.      *)
(***************************************************************************)
EXTENDS LoginLimiter, FiniteSetTheorems, WellFoundedInduction, TLAPS

-----------------------------------------------------------------------------
(* Lemmas about numbers, sequences and the operators of the model.         *)

LEMMA LeastElement ==
    ASSUME NEW T \in SUBSET Nat, T # {}
    PROVE  \E n \in T : \A m \in T : n <= m
<1>1. PICK n \in T : \A m \in T : <<m, n>> \notin OpToRel(<, Nat)
  BY NatLessThanWellFounded, WFMin
<1>2. \A m \in T : ~ m < n
  BY <1>1 DEF OpToRel
<1> QED BY <1>2

LEMMA NamesAreNumbers ==
    /\ Cardinality(Workers) \in Nat
    /\ Names \subseteq Nat /\ None \notin Names
    /\ IsFiniteSet(Names) /\ Cardinality(Names) = Cardinality(Workers) + 1
<1>1. Cardinality(Workers) \in Nat
  BY FS_CardinalityType, LoginLimiterAssumption
<1>2. Names \subseteq Nat /\ None \notin Names
  BY <1>1, LoginLimiterAssumption DEF Names
<1>3. IsFiniteSet(Names) /\ Cardinality(Names) = Cardinality(Workers) + 1
  BY <1>1, FS_Interval DEF Names
<1> QED BY <1>1, <1>2, <1>3

\* The number of times that go out of the window, and what remains.
LEMMA RecentIsSuffix ==
    ASSUME NEW s \in Seq(0 .. Window), Ordered(s)
    PROVE  \E over \in 0 .. Len(s) :
              /\ \A i \in 1 .. over : s[i] >= Window
              /\ \A i \in over + 1 .. Len(s) : s[i] < Window
              /\ Recent(s) = [i \in 1 .. Len(s) - over |-> s[i + over] + 1]
<1> DEFINE T == {n \in 0 .. Len(s) : \A i \in n + 1 .. Len(s) : s[i] < Window}
           Split(n) == /\ \A i \in 1 .. n : s[i] >= Window
                       /\ \A i \in n + 1 .. Len(s) : s[i] < Window
<1>1. T \in SUBSET Nat /\ Len(s) \in T
  OBVIOUS
<1>2. PICK n \in T : \A m \in T : n <= m
  <2> HIDE DEF T
  <2> QED BY <1>1, LeastElement
<1>3. ASSUME n # 0 PROVE s[n] >= Window
  <2>1. n - 1 \in 0 .. Len(s) /\ n - 1 \notin T
    <3>1. n \in 0 .. Len(s)
      BY <1>2
    <3>2. n - 1 \in 0 .. Len(s) /\ ~ n <= n - 1
      BY <3>1, <1>3
    <3> HIDE DEF T
    <3> QED BY <3>2, <1>2
  <2>2. PICK i \in n .. Len(s) : ~ s[i] < Window
    BY <2>1
  <2>3. i = n
    BY <1>2, <2>2
  <2> QED BY <1>3, <2>2, <2>3, LoginLimiterAssumption
<1>4. \A i \in 1 .. n : s[i] >= Window
  BY <1>2, <1>3, LoginLimiterAssumption DEF Ordered
<1>5. \E m \in 0 .. Len(s) : Split(m)
  BY <1>2, <1>4
<1> DEFINE over == CHOOSE m \in 0 .. Len(s) : Split(m)
<1> HIDE DEF Split
<1>6. over \in 0 .. Len(s) /\ Split(over)
  BY <1>5
<1>7. Recent(s) = [i \in 1 .. Len(s) - over |-> s[i + over] + 1]
  BY DEF Recent, Split
<1> HIDE DEF over
<1> QED BY <1>6, <1>7 DEF Split

LEMMA OrderedAppend ==
    ASSUME NEW w \in Nat, NEW s \in Seq(0 .. w), Ordered(s)
    PROVE  Ordered(Append(s, 0))
<1> DEFINE r == Append(s, 0)
<1>1. /\ Len(s) \in Nat /\ DOMAIN s = 1 .. Len(s) /\ DOMAIN r = 1 .. Len(s) + 1
      /\ \A i \in 1 .. Len(s) : r[i] = s[i] /\ s[i] \in Nat
      /\ r[Len(s) + 1] = 0
  <2>1. Len(s) \in Nat /\ DOMAIN s = 1 .. Len(s) /\ \A i \in 1 .. Len(s) : s[i] \in Nat
    OBVIOUS
  <2>2. r \in Seq(0 .. w) /\ Len(r) = Len(s) + 1
    OBVIOUS
  <2>3. (\A i \in 1 .. Len(s) : r[i] = s[i]) /\ r[Len(s) + 1] = 0
    OBVIOUS
  <2> HIDE DEF r
  <2> QED BY <2>1, <2>2, <2>3
<1> HIDE DEF r
<1>2. ASSUME NEW i \in 1 .. Len(s) + 1, NEW j \in 1 .. Len(s) + 1, i <= j
      PROVE  r[j] <= r[i]
  <2>1. CASE j = Len(s) + 1
    BY <1>1, <2>1
  <2>2. CASE j # Len(s) + 1
    <3>1. i \in 1 .. Len(s) /\ j \in 1 .. Len(s)
      BY <1>1, <1>2, <2>2
    <3>2. s[j] <= s[i]
      BY <1>1, <1>2, <3>1 DEF Ordered
    <3> QED BY <1>1, <3>1, <3>2
  <2> QED BY <2>1, <2>2
<1>3. Ordered(r)
  BY <1>1, <1>2 DEF Ordered
<1> QED BY <1>3 DEF r

LEMMA OrderedTail ==
    ASSUME NEW w \in Nat, NEW s \in Seq(0 .. w), s # <<>>, Ordered(s)
    PROVE  Ordered(Tail(s))
BY DEF Ordered

LEMMA OrderedEmpty == Ordered(<<>>)
BY DEF Ordered

LEMMA OlderIsSeq ==
    ASSUME NEW s \in Seq(Ages)
    PROVE  /\ Older(s) \in Seq(Ages)
           /\ Len(Older(s)) = Len(s)
           /\ \A i \in DOMAIN s : Older(s)[i] = IF s[i] > Window THEN s[i] ELSE s[i] + 1
           /\ Ordered(s) => Ordered(Older(s))
BY LoginLimiterAssumption DEF Older, Ages, Ordered

LEMMA RecentIsSeq ==
    ASSUME NEW s \in Seq(0 .. Window), Ordered(s)
    PROVE  /\ Recent(s) \in Seq(0 .. Window)
           /\ Len(Recent(s)) <= Len(s)
           /\ Ordered(Recent(s))
<1>0. Len(s) \in Nat /\ \A i \in 1 .. Len(s) : s[i] \in 0 .. Window
  BY LoginLimiterAssumption
<1>1. PICK over \in 0 .. Len(s) :
              /\ \A i \in 1 .. over : s[i] >= Window
              /\ \A i \in over + 1 .. Len(s) : s[i] < Window
              /\ Recent(s) = [i \in 1 .. Len(s) - over |-> s[i + over] + 1]
  BY RecentIsSuffix
<1> DEFINE r == Recent(s)
<1>2. \A i \in 1 .. Len(s) - over : s[i + over] + 1 \in 0 .. Window
  BY <1>1, LoginLimiterAssumption
<1>3. r \in Seq(0 .. Window) /\ Len(r) = Len(s) - over
  BY <1>1, <1>2
<1>4. \A i \in 1 .. Len(s) - over : r[i] = s[i + over] + 1
  BY <1>1
<1> HIDE DEF r
<1>5. ASSUME NEW i \in 1 .. Len(s) - over, NEW j \in 1 .. Len(s) - over, i <= j
      PROVE  r[j] <= r[i]
  <2>1. s[j + over] <= s[i + over]
    BY <1>5 DEF Ordered
  <2>2. s[j + over] \in 0 .. Window /\ s[i + over] \in 0 .. Window
    <3>1. i + over \in 1 .. Len(s) /\ j + over \in 1 .. Len(s)
      BY <1>0
    <3> QED BY <1>0, <3>1
  <2> QED BY <1>4, <2>1, <2>2, LoginLimiterAssumption
<1>6. Ordered(r)
  <2>1. DOMAIN r = 1 .. Len(s) - over
    BY <1>3
  <2> QED BY <1>5, <2>1 DEF Ordered
<1> QED BY <1>3, <1>6 DEF r

-----------------------------------------------------------------------------
(* What a step does to the tasks.                                          *)

LEMMA LoginFacts ==
    ASSUME TypeOK, NEW t \in Workers, task[t] # None
    PROVE  /\ task[t] \in Login
           /\ task[t].keys[1] \in Ips /\ task[t].keys[2] \in Users
           /\ \A i \in 1 .. 2 : /\ task[t].keys[i] \in Keys
                               /\ task[t].held[i] \in Names \cup {None}
           /\ task[t].keys[1] # task[t].keys[2]
           /\ task[t].side \in 1 .. 2
           /\ Key(t) \in Keys
           /\ task[t].next \in {"check", "look up", "prune", "peek", "popping", "append", "count"}
<1>1. task[t] \in Login
  BY DEF TypeOK
<1>2. /\ task[t].keys[1] \in Ips /\ task[t].keys[2] \in Users
      /\ \A i \in 1 .. 2 : task[t].held[i] \in Names \cup {None}
      /\ task[t].side \in 1 .. 2
      /\ task[t].next \in {"check", "look up", "prune", "peek", "popping", "append", "count"}
  <2>1. /\ task[t].keys \in Ips \X Users
        /\ task[t].side \in 1 .. 2
        /\ task[t].next \in {"check", "look up", "prune", "peek", "popping", "append", "count"}
        /\ task[t].held \in [1 .. 2 -> Names \cup {None}]
    BY <1>1 DEF Login
  <2>2. task[t].keys[1] \in Ips /\ task[t].keys[2] \in Users
    BY <2>1
  <2>3. \A i \in 1 .. 2 : task[t].held[i] \in Names \cup {None}
    BY <2>1
  <2> QED BY <2>1, <2>2, <2>3
<1>3. \A i \in 1 .. 2 : task[t].keys[i] \in Keys
  <2>1. ASSUME NEW i \in 1 .. 2 PROVE task[t].keys[i] \in Keys
    <3>1. i = 1 \/ i = 2
      OBVIOUS
    <3> QED BY <3>1, <1>2 DEF Keys
  <2> QED BY <2>1
<1>4. task[t].keys[1] # task[t].keys[2]
  BY <1>2, LoginLimiterAssumption
<1> QED BY <1>1, <1>2, <1>3, <1>4 DEF Key

\* Only thread t has moved: it is at a statement about its key i, or has ended.
Same(t) == \A u \in Workers \ {t} : task'[u] = task[u]
Went(t, statement, i) ==
    /\ task[t] # None /\ task'[t] # None
    /\ task'[t].keys = task[t].keys /\ task'[t].held = task[t].held
    /\ task'[t].next = statement /\ task'[t].side = i
    /\ Same(t)
Ended(t) == task[t] # None /\ task'[t] = None /\ Same(t)

LEMMA RecordMoved ==
    ASSUME NEW A, NEW B, NEW C, NEW D,
           NEW x \in [keys : A, side : B, next : C, held : D], NEW s \in C, NEW i \in B
    PROVE  LET y == [x EXCEPT !.next = s, !.side = i]
           IN  /\ y \in [keys : A, side : B, next : C, held : D]
               /\ y.keys = x.keys /\ y.held = x.held /\ y.next = s /\ y.side = i
OBVIOUS

LEMMA GotoWent ==
    ASSUME TypeOK, NEW t \in Workers, task[t] # None,
           NEW statement \in {"check", "look up", "prune", "peek", "popping", "append", "count"},
           NEW i \in 1 .. 2, task' = Goto(t, statement, i)
    PROVE  Went(t, statement, i) /\ task' \in [Workers -> Login \cup {None}]
<1> DEFINE r == [task[t] EXCEPT !.next = statement, !.side = i]
<1>1. task[t] \in Login
  BY LoginFacts
<1>2. /\ r \in Login /\ r.keys = task[t].keys /\ r.held = task[t].held
      /\ r.next = statement /\ r.side = i
  BY <1>1, RecordMoved DEF Login
<1>3. task' = [task EXCEPT ![t] = r]
  BY DEF Goto, TypeOK
<1> HIDE DEF r
<1>4. task'[t] = r /\ Same(t) /\ task' \in [Workers -> Login \cup {None}]
  BY <1>2, <1>3 DEF Same, TypeOK
<1> QED BY <1>2, <1>4, NoLoginAssumption DEF Went

LEMMA FinishEnded ==
    ASSUME TypeOK, NEW t \in Workers, task[t] # None, task' = Finish(t)
    PROVE  Ended(t) /\ task' \in [Workers -> Login \cup {None}]
BY DEF Finish, Ended, Same, TypeOK

LEMMA AttemptEffect ==
    ASSUME TypeOK, NEW t \in Workers, NEW i \in Ips, NEW u \in Users, Attempt(t, i, u)
    PROVE  /\ task' \in [Workers -> Login \cup {None}]
           /\ task[t] = None /\ task'[t] # None /\ Same(t)
           /\ task'[t].keys[1] = i /\ task'[t].keys[2] = u
           /\ task'[t].next = "check"
           /\ \A j \in 1 .. 2 : task'[t].held[j] = None /\ lock[task'[t].keys[j]] = 0
           /\ UNCHANGED <<at, deque, lock, log, unpaid, raced>>
<1> DEFINE r == [keys |-> <<i, u>>, side |-> 1, next |-> "check", held |-> <<None, None>>]
<1>1. r \in Login
  BY DEF Login
<1>2. /\ r.keys[1] = i /\ r.keys[2] = u /\ r.next = "check"
      /\ \A j \in 1 .. 2 : r.held[j] = None
  OBVIOUS
<1>3. task' = [task EXCEPT ![t] = r] /\ task[t] = None /\ lock[i] = 0 /\ lock[u] = 0
  BY DEF Attempt, NewLogin
<1> HIDE DEF r
<1>4. task'[t] = r /\ Same(t) /\ task' \in [Workers -> Login \cup {None}]
  BY <1>1, <1>3 DEF Same, TypeOK
<1>5. \A j \in 1 .. 2 : lock[task'[t].keys[j]] = 0
  BY <1>2, <1>3, <1>4
<1> QED BY <1>1, <1>2, <1>3, <1>4, <1>5, NoLoginAssumption DEF Attempt, history

\* Threads hold one deque of a key each, so that there is a name for another.
LEMMA NameIsFree ==
    ASSUME TypeOK, NEW k \in Keys, at[k] = None
    PROVE  \E n \in Names : /\ ~Used(at, task, k, n)
                           /\ \A m \in 1 .. n - 1 : Used(at, task, k, m)
<1> DEFINE T == {n \in Names : ~Used(at, task, k, n)}
<1>1. T # {}
  <2> SUFFICES ASSUME \A n \in Names : Used(at, task, k, n) PROVE FALSE
    OBVIOUS
  <2>1. \A n \in Names : \E u \in Workers : Holds(task, u, k, n)
    BY NamesAreNumbers DEF Used
  <2> DEFINE f == [n \in Names |-> CHOOSE u \in Workers : Holds(task, u, k, n)]
  <2>2. \A n \in Names : f[n] \in Workers /\ Holds(task, f[n], k, n)
    BY <2>1
  <2>3. f \in [Names -> Workers]
    BY <2>2
  <2> HIDE DEF f
  <2>4. PICK x, y \in Names : x # y /\ f[x] = f[y]
    <3>1. Cardinality(Workers) < Cardinality(Names) /\ IsFiniteSet(Workers)
      BY NamesAreNumbers, LoginLimiterAssumption
    <3> QED BY <2>3, <3>1, NamesAreNumbers, FS_PigeonHole
  <2>5. Holds(task, f[x], k, x) /\ Holds(task, f[x], k, y) /\ f[x] \in Workers
    BY <2>2, <2>4
  <2>6. task[f[x]].keys[1] # task[f[x]].keys[2]
    BY <2>5, LoginFacts DEF Holds
  <2> QED BY <2>4, <2>5, <2>6 DEF Holds
<1>2. PICK n \in T : \A m \in T : n <= m
  <2>1. T \in SUBSET Nat
    BY NamesAreNumbers
  <2> HIDE DEF T
  <2> QED BY <1>1, <2>1, LeastElement
<1>3. \A m \in 1 .. n - 1 : m \in Names /\ ~ n <= m
  BY <1>2, NamesAreNumbers DEF Names
<1> QED BY <1>2, <1>3

LEMMA LookUpEffect ==
    ASSUME TypeOK, NEW t \in Workers, LookUp(t)
    PROVE  /\ at' \in [Keys -> Names \cup {None}]
           /\ task' \in [Workers -> Login \cup {None}]
           /\ task[t] # None /\ task'[t] # None /\ Same(t)
           /\ task[t].next = "look up" /\ task'[t].next = "prune"
           /\ task'[t].keys = task[t].keys /\ task'[t].side = task[t].side
           /\ \A i \in 1 .. 2 :
                 LET k == task[t].keys[i]
                 IN  /\ at'[k] \in Names
                     /\ task'[t].held[i] = at'[k]
                     /\ at[k] = None => ~Used(at, task, k, at'[k])
           /\ \A k \in Keys : at[k] # None => at'[k] = at[k]
           /\ \A k \in Keys : (\A i \in 1 .. 2 : task[t].keys[i] # k) => at'[k] = at[k]
           /\ UNCHANGED <<deque, lock, log, unpaid, raced>>
<1> DEFINE new(k) == CHOOSE n \in Names : /\ ~Used(at, task, k, n)
                                          /\ \A m \in 1 .. n - 1 : Used(at, task, k, m)
           key(i) == task[t].keys[i]
           found == [i \in 1 .. 2 |-> IF at[key(i)] = None THEN new(key(i)) ELSE at[key(i)]]
<1>1. /\ task[t] # None /\ task[t].next = "look up"
      /\ at' = [at EXCEPT ![key(1)] = found[1], ![key(2)] = found[2]]
      /\ task' = [task EXCEPT ![t].next = "prune", ![t].held = found]
      /\ UNCHANGED <<deque, lock, log, unpaid, raced>>
  BY Zenon DEF LookUp, At, history
<1>2. /\ task[t] \in Login /\ key(1) \in Keys /\ key(2) \in Keys /\ key(1) # key(2)
  <2>1. 1 \in 1 .. 2 /\ 2 \in 1 .. 2
    OBVIOUS
  <2> QED BY <1>1, <2>1, LoginFacts, Zenon
<1>3. \A k \in Keys : at[k] = None => new(k) \in Names /\ ~Used(at, task, k, new(k))
  BY NameIsFree
<1>4. \A k \in Keys : at[k] \in Names \cup {None}
  BY DEF TypeOK
<1> HIDE DEF new
<1>5. \A i \in 1 .. 2 : /\ found[i] \in Names
                        /\ at[key(i)] = None => ~Used(at, task, key(i), found[i])
                        /\ at[key(i)] # None => found[i] = at[key(i)]
  BY <1>2, <1>3, <1>4
<1>6. found \in [1 .. 2 -> Names \cup {None}]
  BY <1>5
<1> DEFINE r == [task[t] EXCEPT !.next = "prune", !.held = found]
<1> HIDE DEF found
<1>7. /\ r \in Login /\ r.keys = task[t].keys /\ r.side = task[t].side
      /\ r.next = "prune" /\ r.held = found
  BY <1>2, <1>6 DEF Login
<1>8. task' = [task EXCEPT ![t] = r]
  BY <1>1 DEF TypeOK
<1> HIDE DEF r
<1>9. task'[t] = r /\ task'[t] # None /\ Same(t) /\ task' \in [Workers -> Login \cup {None}]
  BY <1>7, <1>8, NoLoginAssumption DEF Same, TypeOK
<1>10. /\ at' \in [Keys -> Names \cup {None}]
       /\ at'[key(1)] = found[1] /\ at'[key(2)] = found[2]
       /\ \A k \in Keys : k # key(1) /\ k # key(2) => at'[k] = at[k]
  <2>1. found[1] \in Names /\ found[2] \in Names
    BY <1>5
  <2>2. at \in [Keys -> Names \cup {None}]
    BY DEF TypeOK
  <2> HIDE DEF key
  <2> QED BY <1>1, <1>2, <2>1, <2>2
<1> HIDE DEF key
<1>11. \A i \in 1 .. 2 : at'[key(i)] = found[i]
  BY <1>10
<1>12. \A k \in Keys : at[k] # None => at'[k] = at[k]
  BY <1>5, <1>10
<1>13. \A i \in 1 .. 2 : /\ at'[key(i)] \in Names /\ task'[t].held[i] = at'[key(i)]
                         /\ at[key(i)] = None => ~Used(at, task, key(i), at'[key(i)])
  BY <1>5, <1>7, <1>9, <1>11
<1>14. \A k \in Keys : (\A i \in 1 .. 2 : key(i) # k) => at'[k] = at[k]
  BY <1>10
<1>15. task'[t].next = "prune" /\ task'[t].keys = task[t].keys /\ task'[t].side = task[t].side
  BY <1>7, <1>9
<1> QED BY <1>1, <1>9, <1>10, <1>12, <1>13, <1>14, <1>15 DEF key

-----------------------------------------------------------------------------
(* What a step does to the deques and the rest.                            *)

Deques == [Keys -> [Names -> Seq(Ages)]]

LEMMA DequeFacts ==
    ASSUME TypeOK
    PROVE  /\ deque \in Deques
           /\ \A k \in Keys, n \in Names :
                 /\ deque[k][n] \in Seq(Ages)
                 /\ Len(deque[k][n]) \in Nat
                 /\ \A i \in 1 .. Len(deque[k][n]) : deque[k][n][i] \in 0 .. Window + 1
           /\ \A k \in Keys : /\ log[k] \in Seq(0 .. Window)
                              /\ Len(log[k]) \in Nat
                              /\ \A i \in 1 .. Len(log[k]) : log[k][i] \in 0 .. Window
<1>1. deque \in Deques
  BY DEF TypeOK, Deques
<1>2. ASSUME NEW k \in Keys, NEW n \in Names
      PROVE  /\ deque[k][n] \in Seq(Ages)
             /\ Len(deque[k][n]) \in Nat
             /\ \A i \in 1 .. Len(deque[k][n]) : deque[k][n][i] \in 0 .. Window + 1
  <2>1. deque[k][n] \in Seq(Ages)
    BY <1>1 DEF Deques
  <2> QED BY <2>1, LoginLimiterAssumption DEF Ages
<1>3. ASSUME NEW k \in Keys
      PROVE  /\ log[k] \in Seq(0 .. Window)
             /\ Len(log[k]) \in Nat
             /\ \A i \in 1 .. Len(log[k]) : log[k][i] \in 0 .. Window
  BY LoginLimiterAssumption DEF TypeOK
<1> QED BY <1>1, <1>2, <1>3

LEMMA CollectedFacts ==
    ASSUME NEW d \in Deques, NEW a, NEW w
    PROVE  /\ Collected(d, a, w) \in Deques
           /\ \A k \in Keys, n \in Names :
                 Collected(d, a, w)[k][n] = IF Used(a, w, k, n) THEN d[k][n] ELSE <<>>
<1>1. ASSUME NEW k \in Keys, NEW n \in Names
      PROVE  Collected(d, a, w)[k][n] = IF Used(a, w, k, n) THEN d[k][n] ELSE <<>>
  BY Zenon DEF Collected
<1>2. ASSUME NEW k \in Keys, NEW n \in Names
      PROVE  (IF Used(a, w, k, n) THEN d[k][n] ELSE <<>>) \in Seq(Ages)
  <2>1. d[k][n] \in Seq(Ages) /\ <<>> \in Seq(Ages)
    BY DEF Deques
  <2> QED BY <2>1
<1>3. Collected(d, a, w) \in Deques
  BY <1>2 DEF Collected, Deques
<1> QED BY <1>1, <1>3

LEMMA WithFacts ==
    ASSUME TypeOK, NEW t \in Workers, task[t] # None,
           task[t].held[task[t].side] \in Names, NEW s \in Seq(Ages)
    PROVE  /\ With(t, s) \in Deques
           /\ \A k \in Keys, n \in Names :
                 With(t, s)[k][n] = IF k = Key(t) /\ n = task[t].held[task[t].side]
                                    THEN s ELSE deque[k][n]
<1> DEFINE m == task[t].held[task[t].side]
<1>1. Key(t) \in Keys /\ m \in Names /\ deque \in Deques
  BY LoginFacts, DequeFacts
<1>2. With(t, s) = [deque EXCEPT ![Key(t)][m] = s]
  BY DEF With
<1> HIDE DEF m
<1>3. /\ With(t, s) \in Deques
      /\ \A k \in Keys, n \in Names :
            With(t, s)[k][n] = IF k = Key(t) /\ n = m THEN s ELSE deque[k][n]
  BY <1>1, <1>2 DEF Deques
<1> QED BY <1>3 DEF m

Mine(t, k) == \E i \in 1 .. 2 : task[t].keys[i] = k

LEMMA SucceedEffect ==
    ASSUME TypeOK, NEW t \in Workers, Succeed(t)
    PROVE  /\ task[t] # None /\ task[t].next = "check"
           /\ Ended(t) /\ task' \in [Workers -> Login \cup {None}]
           /\ deque' \in Deques
           /\ \A k \in Keys, n \in Names :
                 deque'[k][n] = IF Used(at', task', k, n) THEN deque[k][n] ELSE <<>>
           /\ \A f \in {at', lock', log', unpaid'} : f = [k \in Keys |-> f[k]]
           /\ \A k \in Keys :
                 \/ /\ Mine(t, k)
                    /\ at'[k] = None /\ lock'[k] = 0 /\ log'[k] = <<>> /\ unpaid'[k] = 0
                 \/ /\ ~Mine(t, k)
                    /\ at'[k] = at[k] /\ lock'[k] = lock[k]
                    /\ log'[k] = log[k] /\ unpaid'[k] = unpaid[k]
           /\ raced' \subseteq Keys
           /\ \A k \in Keys \ raced' :
                 /\ k \notin raced
                 /\ Mine(t, k) => at[k] = None \/ \A u \in Workers : ~Holds(task, u, k, at[k])
<1> DEFINE K == {task[t].keys[1], task[t].keys[2]}
           forget(f, zero) == [k \in Keys |-> IF k \in K THEN zero ELSE f[k]]
<1>1. task[t] # None /\ task[t].next = "check" /\ task' = Finish(t)
  BY DEF Succeed, At
<1>2. Ended(t) /\ task' \in [Workers -> Login \cup {None}]
  BY <1>1, FinishEnded
<1>3. /\ at' = forget(at, None) /\ lock' = forget(lock, 0)
      /\ log' = forget(log, <<>>) /\ unpaid' = forget(unpaid, 0)
      /\ raced' = raced \cup {k \in K : at[k] # None /\
                                 \E u \in Workers : Holds(task, u, k, at[k])}
  BY Zenon DEF Succeed
<1>4. deque' = Collected(deque, at', task')
  BY Zenon DEF Succeed
<1>5. \A k \in Keys : k \in K <=> Mine(t, k)
  <2>1. \A i : i \in 1 .. 2 <=> i = 1 \/ i = 2
    OBVIOUS
  <2> QED BY <2>1 DEF Mine
<1>6. K \subseteq Keys
  <2>1. 1 \in 1 .. 2 /\ 2 \in 1 .. 2
    OBVIOUS
  <2> QED BY <1>1, <2>1, LoginFacts
<1> HIDE DEF K
<1>7. \A k \in Keys :
         \/ /\ Mine(t, k)
            /\ at'[k] = None /\ lock'[k] = 0 /\ log'[k] = <<>> /\ unpaid'[k] = 0
         \/ /\ ~Mine(t, k)
            /\ at'[k] = at[k] /\ lock'[k] = lock[k]
            /\ log'[k] = log[k] /\ unpaid'[k] = unpaid[k]
  BY <1>3, <1>5, Zenon
<1>8. raced' \subseteq Keys
  BY <1>3, <1>6 DEF TypeOK
<1>9. \A k \in Keys \ raced' :
         /\ k \notin raced
         /\ Mine(t, k) => at[k] = None \/ \A u \in Workers : ~Holds(task, u, k, at[k])
  BY <1>3, <1>5, Zenon
<1>10. \A f \in {at', lock', log', unpaid'} : f = [k \in Keys |-> f[k]]
  BY <1>3
<1>11. /\ deque' \in Deques
       /\ \A k \in Keys, n \in Names :
             deque'[k][n] = IF Used(at', task', k, n) THEN deque[k][n] ELSE <<>>
  BY <1>4, CollectedFacts, DequeFacts
<1> QED BY <1>1, <1>2, <1>7, <1>8, <1>9, <1>10, <1>11

LEMMA FailEffect ==
    ASSUME TypeOK, NEW t \in Workers, Fail(t)
    PROVE  /\ task[t] # None /\ task[t].next = "check"
           /\ Went(t, "look up", 1) /\ task' \in [Workers -> Login \cup {None}]
           /\ UNCHANGED <<at, deque, lock, log, unpaid, raced>>
<1>1. /\ task[t] # None /\ task[t].next = "check" /\ task' = Goto(t, "look up", 1)
      /\ UNCHANGED <<at, deque, lock, log, unpaid, raced>>
  BY DEF Fail, At, history
<1>2. 1 \in 1 .. 2
  OBVIOUS
<1> QED BY <1>1, <1>2, GotoWent

\* The deque that _prune is about.
LEMMA AttemptsFacts ==
    ASSUME TypeOK, Holding, NEW t \in Workers, task[t] # None,
           task[t].next \notin {"check", "look up"}
    PROVE  /\ task[t].side \in 1 .. 2 /\ Key(t) \in Keys
           /\ task[t].held[task[t].side] \in Names
           /\ Attempts(t) \in Seq(Ages)
<1>1. task[t].side \in 1 .. 2 /\ Key(t) \in Keys
  BY LoginFacts
<1>2. task[t].held[task[t].side] \in Names
  BY <1>1, LoginFacts DEF Holding
<1> QED BY <1>1, <1>2, DequeFacts DEF Attempts

LEMMA PruneEffect ==
    ASSUME TypeOK, Holding, NEW t \in Workers, Prune(t)
    PROVE  /\ task[t] # None /\ task[t].next \in {"prune", "peek"}
           /\ task' \in [Workers -> Login \cup {None}]
           /\ UNCHANGED <<at, deque, lock, log, unpaid, raced>>
           /\ \/ Went(t, "peek", task[t].side)
              \/ Went(t, "popping", task[t].side)
              \/ /\ Attempts(t) = <<>> \/ Attempts(t)[1] <= Window
                 /\ \/ task[t].side = 1 /\ Went(t, "prune", 2)
                    \/ task[t].side = 2 /\ Went(t, "append", 1)
<1>1. /\ task[t] # None /\ task[t].next \in {"prune", "peek"}
      /\ UNCHANGED <<at, deque, lock, log, unpaid, raced>>
  BY DEF Prune, NotEmpty, Peek, At, history
<1>2. task[t].side \in 1 .. 2 /\ Attempts(t) \in Seq(Ages)
  BY <1>1, AttemptsFacts
<1>3. \/ task' = Goto(t, "peek", task[t].side)
      \/ task' = Goto(t, "popping", task[t].side)
      \/ /\ Attempts(t) = <<>> \/ ~ Head(Attempts(t)) > Window
         /\ \/ task[t].side = 1 /\ task' = Goto(t, "prune", 2)
            \/ task[t].side # 1 /\ task' = Goto(t, "append", 1)
  BY Zenon DEF Prune, NotEmpty, Peek, Leaves, Outdated
<1>4. Attempts(t) # <<>> => Head(Attempts(t)) = Attempts(t)[1] /\ Attempts(t)[1] \in Ages
  BY <1>2
<1>5. Attempts(t) # <<>> /\ ~ Head(Attempts(t)) > Window => Attempts(t)[1] <= Window
  BY <1>4, LoginLimiterAssumption DEF Ages
<1>6. task[t].side # 1 => task[t].side = 2
  BY <1>2
<1>7. 1 \in 1 .. 2 /\ 2 \in 1 .. 2
  OBVIOUS
<1>8. CASE task' = Goto(t, "popping", task[t].side)
  BY <1>1, <1>2, <1>8, GotoWent
<1>9. CASE task[t].side = 1 /\ task' = Goto(t, "prune", 2)
  BY <1>1, <1>3, <1>5, <1>7, <1>9, GotoWent
<1>10. CASE task[t].side # 1 /\ task' = Goto(t, "append", 1)
  BY <1>1, <1>3, <1>5, <1>6, <1>7, <1>10, GotoWent
<1>11. CASE task' = Goto(t, "peek", task[t].side)
  BY <1>1, <1>2, <1>11, GotoWent
<1> QED BY <1>3, <1>8, <1>9, <1>10, <1>11

LEMMA PopLeftEffect ==
    ASSUME TypeOK, Holding, NEW t \in Workers, PopLeft(t)
    PROVE  /\ task[t] # None /\ task[t].next = "popping"
           /\ Went(t, "prune", task[t].side) /\ task' \in [Workers -> Login \cup {None}]
           /\ Attempts(t) # <<>>
           /\ deque' \in Deques
           /\ \A k \in Keys, n \in Names :
                 deque'[k][n] = IF k = Key(t) /\ n = task[t].held[task[t].side]
                                THEN Tail(deque[k][n]) ELSE deque[k][n]
           /\ raced \subseteq raced' /\ raced' \subseteq Keys
           /\ Key(t) \notin raced' => Attempts(t)[1] > Window
           /\ UNCHANGED <<at, lock, log, unpaid>>
<1>1. /\ task[t] # None /\ task[t].next = "popping" /\ Attempts(t) # <<>>
      /\ deque' = With(t, Tail(Attempts(t)))
      /\ task' = Goto(t, "prune", task[t].side)
      /\ raced' = IF Head(Attempts(t)) > Window THEN raced ELSE raced \cup {Key(t)}
      /\ UNCHANGED <<at, lock, log, unpaid>>
  BY DEF PopLeft, At, Outdated
<1>2. /\ task[t].side \in 1 .. 2 /\ Key(t) \in Keys
      /\ task[t].held[task[t].side] \in Names /\ Attempts(t) \in Seq(Ages)
  BY <1>1, AttemptsFacts
<1>3. Went(t, "prune", task[t].side) /\ task' \in [Workers -> Login \cup {None}]
  BY <1>1, <1>2, GotoWent
<1>4. Tail(Attempts(t)) \in Seq(Ages) /\ Head(Attempts(t)) = Attempts(t)[1]
  BY <1>1, <1>2
<1>5. /\ deque' \in Deques
      /\ \A k \in Keys, n \in Names :
            deque'[k][n] = IF k = Key(t) /\ n = task[t].held[task[t].side]
                           THEN Tail(Attempts(t)) ELSE deque[k][n]
  BY <1>1, <1>2, <1>4, WithFacts
<1>6. \A k \in Keys, n \in Names :
         deque'[k][n] = IF k = Key(t) /\ n = task[t].held[task[t].side]
                        THEN Tail(deque[k][n]) ELSE deque[k][n]
  BY <1>5 DEF Attempts
<1>7. /\ raced \subseteq raced' /\ raced' \subseteq Keys
      /\ Key(t) \notin raced' => Attempts(t)[1] > Window
  BY <1>1, <1>2, <1>4 DEF TypeOK
<1> QED BY <1>1, <1>3, <1>5, <1>6, <1>7

LEMMA PopFailsEffect ==
    ASSUME TypeOK, NEW t \in Workers, PopFails(t)
    PROVE  /\ task[t] # None /\ task[t].next \in {"peek", "popping"}
           /\ Ended(t) /\ task' \in [Workers -> Login \cup {None}]
           /\ deque' \in Deques
           /\ \A k \in Keys, n \in Names :
                 deque'[k][n] = IF Used(at, task', k, n) THEN deque[k][n] ELSE <<>>
           /\ raced \subseteq raced' /\ raced' \subseteq Keys
           /\ UNCHANGED <<at, lock, log, unpaid>>
<1>1. /\ task[t] # None /\ task[t].next \in {"peek", "popping"} /\ task' = Finish(t)
      /\ deque' = Collected(deque, at, task')
      /\ raced' = raced \cup {task[t].keys[1], task[t].keys[2]}
      /\ UNCHANGED <<at, lock, log, unpaid>>
  BY DEF PopFails, At
<1>2. Ended(t) /\ task' \in [Workers -> Login \cup {None}]
  BY <1>1, FinishEnded
<1>3. /\ deque' \in Deques
      /\ \A k \in Keys, n \in Names :
            deque'[k][n] = IF Used(at, task', k, n) THEN deque[k][n] ELSE <<>>
  BY <1>1, CollectedFacts, DequeFacts
<1>4. raced' \subseteq Keys
  <2>1. 1 \in 1 .. 2 /\ 2 \in 1 .. 2
    OBVIOUS
  <2>2. task[t].keys[1] \in Keys /\ task[t].keys[2] \in Keys
    BY <1>1, <2>1, LoginFacts
  <2> QED BY <1>1, <2>2 DEF TypeOK
<1> QED BY <1>1, <1>2, <1>3, <1>4

LEMMA AppendEffect ==
    ASSUME TypeOK, NEW t \in Workers, AppendNow(t)
    PROVE  /\ task[t] # None /\ task[t].next = "append"
           /\ Went(t, "count", 1) /\ task' \in [Workers -> Login \cup {None}]
           /\ deque' \in Deques
           /\ \A k \in Keys, n \in Names :
                 deque'[k][n] = IF Holds(task, t, k, n) THEN Append(deque[k][n], 0)
                                ELSE deque[k][n]
           /\ log' \in [Keys -> Seq(0 .. Window)]
           /\ unpaid' \in [Keys -> Nat]
           /\ \A k \in Keys :
                 /\ log'[k] = IF Mine(t, k) THEN Append(log[k], 0) ELSE log[k]
                 /\ unpaid'[k] = IF Mine(t, k) THEN unpaid[k] + 1 ELSE unpaid[k]
           /\ UNCHANGED <<at, lock, raced>>
<1> DEFINE mine(k) == \E i \in 1 .. 2 : task[t].keys[i] = k
<1>1. /\ task[t] # None /\ task[t].next = "append" /\ task' = Goto(t, "count", 1)
      /\ deque' = [k \in Keys |-> [n \in Names |->
                      IF Holds(task, t, k, n) THEN Append(deque[k][n], 0) ELSE deque[k][n]]]
      /\ log' = [k \in Keys |-> IF mine(k) THEN Append(log[k], 0) ELSE log[k]]
      /\ unpaid' = [k \in Keys |-> IF mine(k) THEN unpaid[k] + 1 ELSE unpaid[k]]
      /\ UNCHANGED <<at, lock, raced>>
  BY Zenon DEF AppendNow, At
<1>2. Went(t, "count", 1) /\ task' \in [Workers -> Login \cup {None}]
  <2>1. 1 \in 1 .. 2
    OBVIOUS
  <2> QED BY <1>1, <2>1, GotoWent
<1>3. \A k \in Keys, n \in Names :
         deque'[k][n] = IF Holds(task, t, k, n) THEN Append(deque[k][n], 0)
                        ELSE deque[k][n]
  BY <1>1, Zenon
<1>4. \A k \in Keys, n \in Names :
         (IF Holds(task, t, k, n) THEN Append(deque[k][n], 0) ELSE deque[k][n]) \in Seq(Ages)
  <2>1. 0 \in Ages
    BY LoginLimiterAssumption DEF Ages
  <2>2. \A k \in Keys, n \in Names : deque[k][n] \in Seq(Ages)
    BY DequeFacts
  <2>3. \A k \in Keys, n \in Names : Append(deque[k][n], 0) \in Seq(Ages)
    BY <2>1, <2>2
  <2> QED BY <2>2, <2>3
<1>5. deque' \in Deques
  BY <1>1, <1>4 DEF Deques
<1>6. \A k \in Keys : /\ log'[k] = IF Mine(t, k) THEN Append(log[k], 0) ELSE log[k]
                      /\ unpaid'[k] = IF Mine(t, k) THEN unpaid[k] + 1 ELSE unpaid[k]
  BY <1>1, Zenon DEF Mine
<1>7. log' \in [Keys -> Seq(0 .. Window)]
  <2>1. 0 \in 0 .. Window
    BY LoginLimiterAssumption
  <2>2. \A k \in Keys : log[k] \in Seq(0 .. Window)
    BY DequeFacts
  <2>3. \A k \in Keys : Append(log[k], 0) \in Seq(0 .. Window)
    BY <2>1, <2>2
  <2> HIDE DEF mine
  <2> QED BY <1>1, <2>2, <2>3
<1>8. unpaid' \in [Keys -> Nat]
  <2> HIDE DEF mine
  <2> QED BY <1>1 DEF TypeOK
<1> QED BY <1>1, <1>2, <1>3, <1>5, <1>6, <1>7, <1>8

\* The end of a key's count.
LEMMA LeaveEffect ==
    ASSUME TypeOK, NEW t \in Workers, task[t] # None, task' = Leave(t)
    PROVE  /\ \/ task[t].side = 1 /\ Went(t, "count", 2)
              \/ task[t].side = 2 /\ Ended(t)
           /\ task' \in [Workers -> Login \cup {None}]
<1>1. task[t].side = 1 \/ task[t].side = 2
  <2>1. task[t].side \in 1 .. 2
    BY LoginFacts
  <2> QED BY <2>1
<1>2. CASE task[t].side = 1
  <2>1. task' = Goto(t, "count", 2)
    BY <1>2 DEF Leave
  <2>2. 2 \in 1 .. 2
    OBVIOUS
  <2> QED BY <1>2, <2>1, <2>2, GotoWent
<1>3. CASE task[t].side = 2
  <2>1. task' = Finish(t)
    BY <1>3 DEF Leave
  <2> QED BY <1>3, <2>1, FinishEnded
<1> QED BY <1>1, <1>2, <1>3

LEMMA LockOutEffect ==
    ASSUME TypeOK, Holding, NEW t \in Workers, LockOut(t)
    PROVE  /\ task[t] # None /\ task[t].next = "count"
           /\ \/ task[t].side = 1 /\ Went(t, "count", 2)
              \/ task[t].side = 2 /\ Ended(t)
           /\ task' \in [Workers -> Login \cup {None}]
           /\ Len(Attempts(t)) >= MaxAttempts
           /\ deque' \in Deques
           /\ \A k \in Keys, n \in Names :
                 deque'[k][n] = IF /\ Used(at, task', k, n)
                                   /\ ~ (k = Key(t) /\ n = task[t].held[task[t].side])
                                THEN deque[k][n] ELSE <<>>
           /\ lock' = [k \in Keys |-> IF k = Key(t) THEN Lockout ELSE lock[k]]
           /\ unpaid' = [k \in Keys |-> IF k = Key(t) THEN 0 ELSE unpaid[k]]
           /\ UNCHANGED <<at, log, raced>>
<1>1. /\ task[t] # None /\ task[t].next = "count" /\ Len(Attempts(t)) >= MaxAttempts
      /\ lock' = [lock EXCEPT ![Key(t)] = Lockout]
      /\ unpaid' = [unpaid EXCEPT ![Key(t)] = 0]
      /\ task' = Leave(t)
      /\ deque' = Collected(With(t, <<>>), at, task')
      /\ UNCHANGED <<at, log, raced>>
  BY DEF LockOut, At
<1>2. Key(t) \in Keys /\ task[t].held[task[t].side] \in Names
  BY <1>1, AttemptsFacts
<1>3. /\ With(t, <<>>) \in Deques
      /\ \A k \in Keys, n \in Names :
            With(t, <<>>)[k][n] = IF k = Key(t) /\ n = task[t].held[task[t].side]
                                  THEN <<>> ELSE deque[k][n]
  <2>1. <<>> \in Seq(Ages)
    OBVIOUS
  <2> QED BY <1>1, <1>2, <2>1, WithFacts
<1>4. /\ deque' \in Deques
      /\ \A k \in Keys, n \in Names :
            deque'[k][n] = IF Used(at, task', k, n) THEN With(t, <<>>)[k][n] ELSE <<>>
  BY <1>1, <1>3, CollectedFacts
<1>5. \A k \in Keys, n \in Names :
         deque'[k][n] = IF /\ Used(at, task', k, n)
                           /\ ~ (k = Key(t) /\ n = task[t].held[task[t].side])
                        THEN deque[k][n] ELSE <<>>
  <2> SUFFICES ASSUME NEW k \in Keys, NEW n \in Names
               PROVE  deque'[k][n] = IF /\ Used(at, task', k, n)
                                        /\ ~ (k = Key(t) /\ n = task[t].held[task[t].side])
                                     THEN deque[k][n] ELSE <<>>
    OBVIOUS
  <2>1. deque'[k][n] = IF Used(at, task', k, n) THEN With(t, <<>>)[k][n] ELSE <<>>
    BY <1>4
  <2>2. With(t, <<>>)[k][n] = IF k = Key(t) /\ n = task[t].held[task[t].side]
                              THEN <<>> ELSE deque[k][n]
    BY <1>3
  <2>3. CASE k = Key(t) /\ n = task[t].held[task[t].side]
    BY <2>1, <2>2, <2>3
  <2>4. CASE ~ (k = Key(t) /\ n = task[t].held[task[t].side])
    BY <2>1, <2>2, <2>4
  <2> QED BY <2>3, <2>4
<1>6. /\ lock' = [k \in Keys |-> IF k = Key(t) THEN Lockout ELSE lock[k]]
      /\ unpaid' = [k \in Keys |-> IF k = Key(t) THEN 0 ELSE unpaid[k]]
  BY <1>1 DEF TypeOK
<1>7. /\ \/ task[t].side = 1 /\ Went(t, "count", 2)
         \/ task[t].side = 2 /\ Ended(t)
      /\ task' \in [Workers -> Login \cup {None}]
  BY <1>1, LeaveEffect
<1> QED BY <1>1, <1>4, <1>5, <1>6, <1>7

LEMMA TolerateEffect ==
    ASSUME TypeOK, NEW t \in Workers, Tolerate(t)
    PROVE  /\ task[t] # None /\ task[t].next = "count"
           /\ \/ task[t].side = 1 /\ Went(t, "count", 2)
              \/ task[t].side = 2 /\ Ended(t)
           /\ task' \in [Workers -> Login \cup {None}]
           /\ Len(Attempts(t)) < MaxAttempts
           /\ deque' \in Deques
           /\ \A k \in Keys, n \in Names :
                 deque'[k][n] = IF Used(at, task', k, n) THEN deque[k][n] ELSE <<>>
           /\ UNCHANGED <<at, lock, log, unpaid, raced>>
<1>1. /\ task[t] # None /\ task[t].next = "count" /\ Len(Attempts(t)) < MaxAttempts
      /\ task' = Leave(t)
      /\ deque' = Collected(deque, at, task')
      /\ UNCHANGED <<at, lock, log, unpaid, raced>>
  BY DEF Tolerate, At, history
<1>2. /\ deque' \in Deques
      /\ \A k \in Keys, n \in Names :
            deque'[k][n] = IF Used(at, task', k, n) THEN deque[k][n] ELSE <<>>
  BY <1>1, CollectedFacts, DequeFacts
<1> QED BY <1>1, <1>2, LeaveEffect

LEMMA TickEffect ==
    ASSUME TypeOK, OldestFirst, Tick
    PROVE  /\ \A t \in Workers : task[t] # None => task[t].next = "check"
           /\ deque' \in Deques
           /\ \A k \in Keys, n \in Names : deque'[k][n] = Older(deque[k][n])
           /\ lock' = [k \in Keys |-> IF lock[k] = 0 THEN 0 ELSE lock[k] - 1]
           /\ log' \in [Keys -> Seq(0 .. Window)]
           /\ \A k \in Keys : log'[k] = Recent(log[k])
           /\ unpaid' = [k \in Keys |-> IF unpaid[k] > Len(log'[k]) THEN Len(log'[k])
                                        ELSE unpaid[k]]
           /\ raced' = {k \in raced : log'[k] # <<>>}
           /\ UNCHANGED <<at, task>>
<1>1. /\ \A t \in Workers : task[t] # None => task[t].next = "check"
      /\ deque' = [k \in Keys |-> [n \in Names |-> Older(deque[k][n])]]
      /\ lock' = [k \in Keys |-> IF lock[k] = 0 THEN 0 ELSE lock[k] - 1]
      /\ log' = [k \in Keys |-> Recent(log[k])]
      /\ unpaid' = [k \in Keys |-> IF unpaid[k] > Len(log'[k]) THEN Len(log'[k])
                                   ELSE unpaid[k]]
      /\ raced' = {k \in raced : log'[k] # <<>>}
      /\ UNCHANGED <<at, task>>
  BY Zenon DEF Tick
<1>2. \A k \in Keys, n \in Names : Older(deque[k][n]) \in Seq(Ages)
  BY DequeFacts, OlderIsSeq
<1>3. \A k \in Keys : Recent(log[k]) \in Seq(0 .. Window)
  BY DequeFacts, RecentIsSeq DEF OldestFirst
<1>4. deque' \in Deques /\ \A k \in Keys, n \in Names : deque'[k][n] = Older(deque[k][n])
  BY <1>1, <1>2 DEF Deques
<1>5. /\ log' \in [Keys -> Seq(0 .. Window)]
      /\ \A k \in Keys : log'[k] = Recent(log[k])
  BY <1>1, <1>3
<1> QED BY <1>1, <1>4, <1>5

-----------------------------------------------------------------------------
(* Who holds which deque.                                                  *)

LEMMA WentHolds ==
    ASSUME NEW t \in Workers, NEW s, NEW j, Went(t, s, j)
    PROVE  \A u \in Workers : \A k, n : Holds(task', u, k, n) <=> Holds(task, u, k, n)
<1>1. ASSUME NEW u \in Workers, NEW k, NEW n
      PROVE  Holds(task', u, k, n) <=> Holds(task, u, k, n)
  <2>1. CASE u = t
    BY <2>1 DEF Went, Holds
  <2>2. CASE u # t
    <3>1. task'[u] = task[u]
      BY <2>2 DEF Went, Same
    <3> QED BY <3>1 DEF Holds
  <2> QED BY <2>1, <2>2
<1> QED BY <1>1

LEMMA EndedHolds ==
    ASSUME NEW t \in Workers, Ended(t)
    PROVE  \A u \in Workers : \A k, n : Holds(task', u, k, n) <=> u # t /\ Holds(task, u, k, n)
<1>1. ASSUME NEW u \in Workers, NEW k, NEW n
      PROVE  Holds(task', u, k, n) <=> u # t /\ Holds(task, u, k, n)
  <2>1. CASE u = t
    BY <2>1 DEF Ended, Holds
  <2>2. CASE u # t
    <3>1. task'[u] = task[u]
      BY <2>2 DEF Ended, Same
    <3> QED BY <2>2, <3>1 DEF Holds
  <2> QED BY <2>1, <2>2
<1> QED BY <1>1

\* A thread inside register_failure holds one deque of each of its keys.
LEMMA HeldFacts ==
    ASSUME TypeOK, Holding, NEW t \in Workers
    PROVE  /\ \A k, n : n \in Names /\ Holds(task, t, k, n) =>
                 /\ task[t] # None /\ task[t].next \notin {"check", "look up"}
                 /\ k \in Keys /\ Mine(t, k)
           /\ \A k, n, m : Holds(task, t, k, n) /\ Holds(task, t, k, m) => n = m
           /\ task[t] # None /\ task[t].next \notin {"check", "look up"} =>
                 /\ Holds(task, t, Key(t), task[t].held[task[t].side])
                 /\ \A i \in 1 .. 2 : /\ task[t].held[i] \in Names
                                     /\ Holds(task, t, task[t].keys[i], task[t].held[i])
<1>1. ASSUME NEW k, NEW n \in Names, Holds(task, t, k, n)
      PROVE  /\ task[t] # None /\ task[t].next \notin {"check", "look up"}
             /\ k \in Keys /\ Mine(t, k)
  <2>1. PICK i \in 1 .. 2 : task[t] # None /\ task[t].keys[i] = k /\ task[t].held[i] = n
    BY <1>1 DEF Holds
  <2>2. task[t].held[i] # None
    BY <2>1, NamesAreNumbers
  <2>3. task[t].next \notin {"check", "look up"}
    BY <2>1, <2>2 DEF Holding
  <2> QED BY <2>1, <2>3, LoginFacts DEF Mine
<1>2. ASSUME NEW k, NEW n, NEW m, Holds(task, t, k, n), Holds(task, t, k, m)
      PROVE  n = m
  <2>1. task[t] # None /\ task[t].keys[1] # task[t].keys[2]
    BY <1>2, LoginFacts DEF Holds
  <2> QED BY <1>2, <2>1 DEF Holds
<1>3. ASSUME task[t] # None, task[t].next \notin {"check", "look up"}, NEW i \in 1 .. 2
      PROVE  task[t].held[i] \in Names /\ Holds(task, t, task[t].keys[i], task[t].held[i])
  <2>1. task[t].held[i] \in Names \cup {None} /\ task[t].held[i] # None
    BY <1>3, LoginFacts DEF Holding
  <2> QED BY <1>3, <2>1 DEF Holds
<1>4. task[t] # None => task[t].side \in 1 .. 2
  BY LoginFacts
<1> QED BY <1>1, <1>2, <1>3, <1>4 DEF Key

LEMMA AttemptHolds ==
    ASSUME TypeOK, NEW t \in Workers, NEW i \in Ips, NEW v \in Users, Attempt(t, i, v)
    PROVE  \A u \in Workers, k \in Keys, n \in Names : Holds(task', u, k, n) <=> Holds(task, u, k, n)
<1>1. ASSUME NEW u \in Workers, NEW k \in Keys, NEW n \in Names
      PROVE  Holds(task', u, k, n) <=> Holds(task, u, k, n)
  <2>1. CASE u = t
    BY <2>1, AttemptEffect, NamesAreNumbers DEF Holds
  <2>2. CASE u # t
    <3>1. task'[u] = task[u]
      BY <2>2, AttemptEffect DEF Same
    <3> QED BY <3>1 DEF Holds
  <2> QED BY <2>1, <2>2
<1> QED BY <1>1

LEMMA LookUpHolds ==
    ASSUME TypeOK, Holding, NEW t \in Workers, LookUp(t)
    PROVE  \A u \in Workers, k \in Keys, n \in Names :
              Holds(task', u, k, n) <=> IF u = t THEN Mine(t, k) /\ at'[k] = n
                                                 ELSE Holds(task, u, k, n)
<1>1. ASSUME NEW u \in Workers, NEW k \in Keys, NEW n \in Names
      PROVE  Holds(task', u, k, n) <=> IF u = t THEN Mine(t, k) /\ at'[k] = n
                                                 ELSE Holds(task, u, k, n)
  <2>1. CASE u = t
    <3>1. /\ task'[t] # None /\ task'[t].keys = task[t].keys
          /\ \A i \in 1 .. 2 : task'[t].held[i] = at'[task[t].keys[i]]
      BY LookUpEffect
    <3> QED BY <2>1, <3>1 DEF Holds, Mine
  <2>2. CASE u # t
    <3>1. task'[u] = task[u]
      BY <2>2, LookUpEffect DEF Same
    <3> QED BY <2>2, <3>1 DEF Holds
  <2> QED BY <2>1, <2>2
<1> QED BY <1>1

\* These leave all but the tasks alone.
Quiet == /\ UNCHANGED <<at, deque, lock, log, unpaid, raced>>
         /\ \A u \in Workers, k \in Keys, n \in Names :
               Holds(task', u, k, n) <=> Holds(task, u, k, n)

LEMMA QuietSteps ==
    ASSUME TypeOK, Holding, NEW t \in Workers,
           (\E i \in Ips, u \in Users : Attempt(t, i, u)) \/ Fail(t) \/ Prune(t)
    PROVE  Quiet
<1>1. ASSUME NEW i \in Ips, NEW v \in Users, Attempt(t, i, v) PROVE Quiet
  <2>1. UNCHANGED <<at, deque, lock, log, unpaid, raced>>
    BY <1>1, AttemptEffect
  <2>2. \A u \in Workers, k \in Keys, n \in Names :
           Holds(task', u, k, n) <=> Holds(task, u, k, n)
    BY <1>1, AttemptHolds
  <2> QED BY <2>1, <2>2 DEF Quiet
<1>2. CASE Fail(t)
  BY <1>2, FailEffect, WentHolds DEF Quiet
<1>3. CASE Prune(t)
  <2>1. \E s, j : Went(t, s, j)
    BY <1>3, PruneEffect
  <2> QED BY <1>3, <2>1, PruneEffect, WentHolds DEF Quiet
<1> QED BY <1>1, <1>2, <1>3

LEMMA HoldingStep ==
    ASSUME TypeOK, Holding, OldestFirst, Next
    PROVE  Holding'
<1> DEFINE Held(u) == task'[u] # None =>
               /\ task'[u].next = "look up" => task'[u].side = 1
               /\ \A i \in 1 .. 2 :
                     task'[u].held[i] = None <=> task'[u].next \in {"check", "look up"}
<1>1. ASSUME NEW t \in Workers, Same(t), Held(t) PROVE Holding'
  <2>1. \A u \in Workers \ {t} : task'[u] = task[u]
    BY <1>1 DEF Same
  <2>2. \A u \in Workers \ {t} : Held(u)
    BY <2>1 DEF Holding
  <2>3. \A u \in Workers : Held(u)
    BY <1>1, <2>2
  <2> QED BY <2>3 DEF Holding
<1>2. ASSUME NEW t \in Workers, Ended(t) PROVE Holding'
  BY <1>1, <1>2 DEF Ended
<1>3. ASSUME NEW t \in Workers, NEW s \in {"prune", "peek", "popping", "append", "count"}, NEW j,
             Went(t, s, j), task[t].next \notin {"check", "look up"}
      PROVE  Holding'
  <2>1. Same(t) /\ Held(t)
    BY <1>3 DEF Went, Holding
  <2> QED BY <1>1, <2>1
<1>4. ASSUME NEW t \in Workers, NEW i \in Ips, NEW v \in Users, Attempt(t, i, v)
      PROVE  Holding'
  <2>1. Same(t) /\ Held(t)
    BY <1>4, AttemptEffect
  <2> QED BY <1>1, <2>1
<1>5. ASSUME NEW t \in Workers, Fail(t) PROVE Holding'
  <2>1. Same(t) /\ Held(t)
    BY <1>5, FailEffect DEF Went, Holding
  <2> QED BY <1>1, <2>1
<1>6. ASSUME NEW t \in Workers, LookUp(t) PROVE Holding'
  <2>1. \A i \in 1 .. 2 : task'[t].held[i] \in Names
    BY <1>6, LookUpEffect
  <2>2. \A i \in 1 .. 2 : task'[t].held[i] # None
    BY <2>1, NamesAreNumbers
  <2>3. Same(t) /\ Held(t)
    BY <1>6, <2>2, LookUpEffect
  <2> QED BY <1>1, <2>3
<1>7. ASSUME NEW t \in Workers, Prune(t) PROVE Holding'
  <2>1. task[t].next \notin {"check", "look up"}
    BY <1>7, PruneEffect
  <2>2. \E s \in {"prune", "peek", "popping", "append", "count"} : \E j : Went(t, s, j)
    BY <1>7, PruneEffect
  <2> QED BY <1>3, <2>1, <2>2
<1>8. ASSUME NEW t \in Workers, PopLeft(t) PROVE Holding'
  BY <1>3, <1>8, PopLeftEffect
<1>9. ASSUME NEW t \in Workers, AppendNow(t) PROVE Holding'
  BY <1>3, <1>9, AppendEffect
<1>10. ASSUME NEW t \in Workers, LockOut(t) PROVE Holding'
  BY <1>2, <1>3, <1>10, LockOutEffect
<1>11. ASSUME NEW t \in Workers, Tolerate(t) PROVE Holding'
  BY <1>2, <1>3, <1>11, TolerateEffect
<1>12. ASSUME NEW t \in Workers, Succeed(t) PROVE Holding'
  BY <1>2, <1>12, SucceedEffect
<1>13. ASSUME NEW t \in Workers, PopFails(t) PROVE Holding'
  BY <1>2, <1>13, PopFailsEffect
<1>14. CASE Tick
  BY <1>14, TickEffect DEF Holding
<1> QED BY <1>4, <1>5, <1>6, <1>7, <1>8, <1>9, <1>10, <1>11, <1>12, <1>13, <1>14 DEF Next

-----------------------------------------------------------------------------
(* The deques of a key.                                                    *)

\* What is in a deque that nobody refers to any more is gone.
LEMMA OneDequeEnded ==
    ASSUME TypeOK, OneDeque, NEW t \in Workers, Ended(t), UNCHANGED at, raced \subseteq raced',
           \A k \in Keys, n \in Names :
              deque'[k][n] = <<>> \/ (Used(at, task', k, n) /\ deque'[k][n] = deque[k][n])
    PROVE  OneDeque'
<1>1. ASSUME NEW k \in Keys, NEW n \in Names, ~Used(at', task', k, n)
      PROVE  deque'[k][n] = <<>>
  BY <1>1
<1>2. ASSUME NEW k \in Keys \ raced', NEW n \in Names, NEW u \in Workers,
             Holds(task', u, k, n)
      PROVE  at'[k] = n
  <2>1. Holds(task, u, k, n)
    BY <1>2, EndedHolds
  <2> QED BY <1>2, <2>1 DEF OneDeque
<1> QED BY <1>1, <1>2 DEF OneDeque

\* As long as the same threads hold the same deques.
LEMMA OneDequeKept ==
    ASSUME TypeOK, OneDeque, UNCHANGED at, raced \subseteq raced',
           \A u \in Workers, k \in Keys, n \in Names :
              Holds(task', u, k, n) <=> Holds(task, u, k, n),
           \A k \in Keys, n \in Names :
              \/ deque'[k][n] = <<>> \/ deque'[k][n] = deque[k][n]
              \/ \E u \in Workers : Holds(task, u, k, n)
    PROVE  OneDeque'
<1>1. ASSUME NEW k \in Keys, NEW n \in Names, ~Used(at', task', k, n)
      PROVE  deque'[k][n] = <<>>
  <2>1. at[k] # n /\ \A u \in Workers : ~Holds(task, u, k, n)
    BY <1>1 DEF Used
  <2>2. deque[k][n] = <<>>
    BY <2>1 DEF OneDeque, Used
  <2> QED BY <2>1, <2>2
<1>2. ASSUME NEW k \in Keys \ raced', NEW n \in Names, NEW u \in Workers,
             Holds(task', u, k, n)
      PROVE  at'[k] = n
  BY <1>2 DEF OneDeque
<1> QED BY <1>1, <1>2 DEF OneDeque

LEMMA OneDequeStep ==
    ASSUME TypeOK, Inv, Next
    PROVE  OneDeque'
<1>0. Holding /\ OneDeque /\ OldestFirst
  BY DEF Inv
<1>1. ASSUME NEW t \in Workers,
             (\E i \in Ips, u \in Users : Attempt(t, i, u)) \/ Fail(t) \/ Prune(t)
      PROVE  OneDeque'
  BY <1>0, <1>1, QuietSteps, OneDequeKept DEF Quiet
<1>2. ASSUME NEW t \in Workers, Succeed(t) PROVE OneDeque'
  <2>1. ASSUME NEW k \in Keys, NEW n \in Names, ~Used(at', task', k, n)
        PROVE  deque'[k][n] = <<>>
    BY <1>2, <2>1, SucceedEffect
  <2>2. ASSUME NEW k \in Keys \ raced', NEW n \in Names, NEW u \in Workers,
               Holds(task', u, k, n)
        PROVE  at'[k] = n
    <3>1. Holds(task, u, k, n) /\ k \notin raced
      BY <1>2, <2>2, SucceedEffect, EndedHolds
    <3>2. at[k] = n /\ n # None
      BY <1>0, <3>1, NamesAreNumbers DEF OneDeque
    <3>3. ~Mine(t, k)
      BY <1>2, <3>1, <3>2, SucceedEffect
    <3>4. at'[k] = at[k]
      BY <1>2, <3>3, SucceedEffect
    <3> QED BY <3>2, <3>4
  <2> QED BY <2>1, <2>2 DEF OneDeque
<1>3. ASSUME NEW t \in Workers, LookUp(t) PROVE OneDeque'
  <2>0. UNCHANGED <<deque, raced>>
    BY <1>3, LookUpEffect
  <2>1. ASSUME NEW k \in Keys, NEW n \in Names, ~Used(at', task', k, n)
        PROVE  deque'[k][n] = <<>>
    <3>1. at[k] # n
      <4>1. at'[k] # n
        BY <2>1 DEF Used
      <4> QED BY <1>3, <4>1, LookUpEffect, NamesAreNumbers
    <3>2. ASSUME NEW u \in Workers, Holds(task, u, k, n) PROVE FALSE
      <4>1. u # t
        <5>1. task[u].next \notin {"check", "look up"}
          BY <1>0, <3>2, HeldFacts
        <5>2. task[t].next = "look up"
          BY <1>3, LookUpEffect
        <5> QED BY <5>1, <5>2
      <4>2. Holds(task', u, k, n)
        BY <1>0, <1>3, <3>2, <4>1, LookUpHolds
      <4> QED BY <2>1, <4>2 DEF Used
    <3>3. ~Used(at, task, k, n)
      BY <3>1, <3>2 DEF Used
    <3> QED BY <1>0, <2>0, <3>3 DEF OneDeque
  <2>2. ASSUME NEW k \in Keys \ raced', NEW n \in Names, NEW u \in Workers,
               Holds(task', u, k, n)
        PROVE  at'[k] = n
    <3>1. CASE u = t
      BY <1>0, <1>3, <2>2, <3>1, LookUpHolds
    <3>2. CASE u # t
      <4>1. Holds(task, u, k, n)
        BY <1>0, <1>3, <2>2, <3>2, LookUpHolds
      <4>2. at[k] = n /\ n # None
        BY <1>0, <2>0, <4>1, NamesAreNumbers DEF OneDeque
      <4> QED BY <1>3, <4>2, LookUpEffect
    <3> QED BY <3>1, <3>2
  <2> QED BY <2>1, <2>2 DEF OneDeque
<1>4. ASSUME NEW t \in Workers, PopLeft(t) PROVE OneDeque'
  <2>1. Holds(task, t, Key(t), task[t].held[task[t].side])
    BY <1>0, <1>4, PopLeftEffect, HeldFacts
  <2>2. \A k \in Keys, n \in Names :
           deque'[k][n] = deque[k][n] \/ (\E u \in Workers : Holds(task, u, k, n))
    BY <1>0, <1>4, <2>1, PopLeftEffect
  <2>3. /\ \A u \in Workers, k \in Keys, n \in Names :
              Holds(task', u, k, n) <=> Holds(task, u, k, n)
        /\ UNCHANGED at /\ raced \subseteq raced'
    BY <1>0, <1>4, PopLeftEffect, WentHolds
  <2> QED BY <1>0, <2>2, <2>3, OneDequeKept
<1>5. ASSUME NEW t \in Workers, PopFails(t) PROVE OneDeque'
  BY <1>0, <1>5, PopFailsEffect, OneDequeEnded
<1>6. ASSUME NEW t \in Workers, AppendNow(t) PROVE OneDeque'
  <2>1. \A k \in Keys, n \in Names :
           deque'[k][n] = deque[k][n] \/ (\E u \in Workers : Holds(task, u, k, n))
    BY <1>6, AppendEffect
  <2>2. /\ \A u \in Workers, k \in Keys, n \in Names :
              Holds(task', u, k, n) <=> Holds(task, u, k, n)
        /\ UNCHANGED at /\ raced \subseteq raced'
    BY <1>6, AppendEffect, WentHolds
  <2> QED BY <1>0, <2>1, <2>2, OneDequeKept
<1>7. ASSUME NEW t \in Workers, NEW s, NEW j, Went(t, s, j), UNCHANGED <<at, raced>>,
             \A k \in Keys, n \in Names :
                deque'[k][n] = <<>> \/ deque'[k][n] = deque[k][n]
      PROVE  OneDeque'
  BY <1>0, <1>7, WentHolds, OneDequeKept
<1>8. ASSUME NEW t \in Workers, LockOut(t) PROVE OneDeque'
  <2>1. /\ UNCHANGED <<at, raced>> /\ (Went(t, "count", 2) \/ Ended(t))
        /\ \A k \in Keys, n \in Names :
              deque'[k][n] = <<>> \/ (Used(at, task', k, n) /\ deque'[k][n] = deque[k][n])
    <3>1. UNCHANGED <<at, raced>> /\ (Went(t, "count", 2) \/ Ended(t))
      BY <1>0, <1>8, LockOutEffect
    <3>2. \A k \in Keys, n \in Names :
             deque'[k][n] = <<>> \/ (Used(at, task', k, n) /\ deque'[k][n] = deque[k][n])
      BY <1>0, <1>8, LockOutEffect
    <3> QED BY <3>1, <3>2
  <2>2. raced \subseteq raced' /\ at' = at
    BY <2>1
  <2> QED BY <1>0, <1>7, <2>1, <2>2, OneDequeEnded
<1>9. ASSUME NEW t \in Workers, Tolerate(t) PROVE OneDeque'
  <2>1. UNCHANGED <<at, raced>> /\ (Went(t, "count", 2) \/ Ended(t))
    BY <1>9, TolerateEffect
  <2>2. \A k \in Keys, n \in Names :
           deque'[k][n] = <<>> \/ (Used(at, task', k, n) /\ deque'[k][n] = deque[k][n])
    <3>1. at' = at
      BY <2>1
    <3> QED BY <1>9, <3>1, TolerateEffect
  <2>3. raced \subseteq raced' /\ at' = at
    BY <2>1
  <2> QED BY <1>0, <1>7, <2>1, <2>2, <2>3, OneDequeEnded
<1>10. CASE Tick
  <2>1. /\ UNCHANGED <<at, task>>
        /\ \A u \in Workers : task[u] # None => task[u].next = "check"
    BY <1>0, <1>10, TickEffect
  <2>2. \A u \in Workers, k \in Keys, n \in Names : ~Holds(task, u, k, n)
    BY <1>0, <2>1, HeldFacts
  <2>3. ASSUME NEW k \in Keys, NEW n \in Names, ~Used(at', task', k, n)
        PROVE  deque'[k][n] = <<>>
    <3>1. deque[k][n] = <<>>
      BY <1>0, <2>1, <2>3 DEF OneDeque
    <3>2. deque'[k][n] = Older(deque[k][n])
      BY <1>0, <1>10, TickEffect
    <3>3. deque'[k][n] \in Seq(Ages) /\ Len(deque'[k][n]) = 0
      <4>1. <<>> \in Seq(Ages) /\ Len(<<>>) = 0
        OBVIOUS
      <4> QED BY <3>1, <3>2, <4>1, OlderIsSeq
    <3> QED BY <3>3
  <2> QED BY <2>1, <2>2, <2>3 DEF OneDeque
<1> QED BY <1>1, <1>2, <1>3, <1>4, <1>5, <1>6, <1>8, <1>9, <1>10 DEF Next

-----------------------------------------------------------------------------
(* What the deques and the histories say of each other.                    *)

\* What a step may do to a deque, but for the passing of time and pruning.
Kept(k, n) == deque'[k][n] = deque[k][n]
Cleared(k, n) == deque'[k][n] = <<>>

LEMMA OldestFirstStep ==
    ASSUME TypeOK, Inv, Next
    PROVE  OldestFirst'
<1>0. Holding /\ OldestFirst
  BY DEF Inv
<1>1. /\ \A k \in Keys : Ordered(log[k])
      /\ \A k \in Keys, n \in Names : Ordered(deque[k][n])
  BY <1>0 DEF OldestFirst
<1>2. ASSUME \A k \in Keys : log'[k] = <<>> \/ log'[k] = log[k],
             \A k \in Keys, n \in Names : Cleared(k, n) \/ Kept(k, n)
      PROVE  OldestFirst'
  <2>1. \A k \in Keys : Ordered(log'[k])
    BY <1>1, <1>2, OrderedEmpty
  <2>2. \A k \in Keys, n \in Names : Ordered(deque'[k][n])
    BY <1>1, <1>2, OrderedEmpty DEF Cleared, Kept
  <2> QED BY <2>1, <2>2 DEF OldestFirst
<1>3. ASSUME NEW t \in Workers,
             (\E i \in Ips, u \in Users : Attempt(t, i, u)) \/ Fail(t) \/ Prune(t)
      PROVE  OldestFirst'
  <2>1. UNCHANGED <<deque, log>>
    BY <1>0, <1>3, QuietSteps DEF Quiet
  <2> QED BY <1>2, <2>1 DEF Kept
<1>4. ASSUME NEW t \in Workers, Succeed(t) PROVE OldestFirst'
  <2>1. \A k \in Keys : log'[k] = <<>> \/ log'[k] = log[k]
    BY <1>4, SucceedEffect
  <2>2. \A k \in Keys, n \in Names : Cleared(k, n) \/ Kept(k, n)
    BY <1>4, SucceedEffect DEF Cleared, Kept
  <2> QED BY <1>2, <2>1, <2>2
<1>5. ASSUME NEW t \in Workers, LookUp(t) PROVE OldestFirst'
  <2>1. UNCHANGED <<deque, log>>
    BY <1>5, LookUpEffect
  <2> QED BY <1>2, <2>1 DEF Kept
<1>6. ASSUME NEW t \in Workers, PopLeft(t) PROVE OldestFirst'
  <2>1. log' = log
    BY <1>0, <1>6, PopLeftEffect
  <2>2. ASSUME NEW k \in Keys, NEW n \in Names PROVE Ordered(deque'[k][n])
    <3>1. CASE k = Key(t) /\ n = task[t].held[task[t].side]
      <4>1. deque'[k][n] = Tail(deque[k][n]) /\ deque[k][n] # <<>>
        BY <1>0, <1>6, <3>1, PopLeftEffect DEF Attempts
      <4>2. deque[k][n] \in Seq(0 .. Window + 1) /\ Window + 1 \in Nat
        BY DequeFacts, LoginLimiterAssumption DEF Ages
      <4> QED BY <1>1, <4>1, <4>2, OrderedTail
    <3>2. CASE ~ (k = Key(t) /\ n = task[t].held[task[t].side])
      BY <1>0, <1>1, <1>6, <3>2, PopLeftEffect
    <3> QED BY <3>1, <3>2
  <2> QED BY <1>1, <2>1, <2>2 DEF OldestFirst
<1>7. ASSUME NEW t \in Workers, PopFails(t) PROVE OldestFirst'
  <2>1. log' = log
    BY <1>7, PopFailsEffect
  <2>2. \A k \in Keys, n \in Names : Cleared(k, n) \/ Kept(k, n)
    BY <1>7, PopFailsEffect DEF Cleared, Kept
  <2> QED BY <1>2, <2>1, <2>2
<1>8. ASSUME NEW t \in Workers, AppendNow(t) PROVE OldestFirst'
  <2>1. ASSUME NEW k \in Keys PROVE Ordered(log'[k])
    <3>1. log[k] \in Seq(0 .. Window) /\ Window \in Nat
      BY DequeFacts, LoginLimiterAssumption
    <3>2. Ordered(Append(log[k], 0))
      BY <1>1, <3>1, OrderedAppend
    <3> QED BY <1>1, <1>8, <3>2, AppendEffect
  <2>2. ASSUME NEW k \in Keys, NEW n \in Names PROVE Ordered(deque'[k][n])
    <3>1. deque[k][n] \in Seq(0 .. Window + 1) /\ Window + 1 \in Nat
      BY DequeFacts, LoginLimiterAssumption DEF Ages
    <3>2. Ordered(Append(deque[k][n], 0))
      BY <1>1, <3>1, OrderedAppend
    <3> QED BY <1>1, <1>8, <3>2, AppendEffect
  <2> QED BY <2>1, <2>2 DEF OldestFirst
<1>9. ASSUME NEW t \in Workers, LockOut(t) PROVE OldestFirst'
  <2>1. log' = log
    BY <1>0, <1>9, LockOutEffect
  <2>2. \A k \in Keys, n \in Names : Cleared(k, n) \/ Kept(k, n)
    BY <1>0, <1>9, LockOutEffect DEF Cleared, Kept
  <2> QED BY <1>2, <2>1, <2>2
<1>10. ASSUME NEW t \in Workers, Tolerate(t) PROVE OldestFirst'
  <2>1. log' = log
    BY <1>10, TolerateEffect
  <2>2. \A k \in Keys, n \in Names : Cleared(k, n) \/ Kept(k, n)
    BY <1>10, TolerateEffect DEF Cleared, Kept
  <2> QED BY <1>2, <2>1, <2>2
<1>11. CASE Tick
  <2>1. ASSUME NEW k \in Keys PROVE Ordered(log'[k])
    <3>1. log[k] \in Seq(0 .. Window) /\ log'[k] = Recent(log[k])
      BY <1>0, <1>11, DequeFacts, TickEffect
    <3> QED BY <1>1, <3>1, RecentIsSeq
  <2>2. ASSUME NEW k \in Keys, NEW n \in Names PROVE Ordered(deque'[k][n])
    <3>1. deque[k][n] \in Seq(Ages) /\ deque'[k][n] = Older(deque[k][n])
      BY <1>0, <1>11, DequeFacts, TickEffect
    <3> QED BY <1>1, <3>1, OlderIsSeq
  <2> QED BY <2>1, <2>2 DEF OldestFirst
<1> QED BY <1>3, <1>4, <1>5, <1>6, <1>7, <1>8, <1>9, <1>10, <1>11 DEF Next

\* The times of deque d within the window are among those of l.
Invented(d, l) == \A i \in DOMAIN d : d[i] <= Window => \E j \in DOMAIN l : l[j] = d[i]

LEMMA InventedFacts ==
    ASSUME NEW d \in Seq(Ages), NEW l \in Seq(0 .. Window), Ordered(l), Invented(d, l)
    PROVE  /\ d # <<>> => Invented(Tail(d), l)
           /\ Invented(d, Append(l, 0))
           /\ Invented(Append(d, 0), Append(l, 0))
           /\ Invented(Older(d), Recent(l))
<1>1. /\ Len(d) \in Nat /\ DOMAIN d = 1 .. Len(d)
      /\ \A i \in 1 .. Len(d) : d[i] \in 0 .. Window + 1
      /\ Len(l) \in Nat /\ DOMAIN l = 1 .. Len(l)
      /\ \A i \in 1 .. Len(l) : l[i] \in 0 .. Window
  BY LoginLimiterAssumption DEF Ages
<1>2. ASSUME d # <<>> PROVE Invented(Tail(d), l)
  <2>1. DOMAIN Tail(d) = 1 .. Len(d) - 1 /\ \A i \in 1 .. Len(d) - 1 : Tail(d)[i] = d[i + 1]
    BY <1>2
  <2> QED BY <1>1, <2>1 DEF Invented
<1> DEFINE m == Append(l, 0)
           e == Append(d, 0)
<1>3. /\ DOMAIN m = 1 .. Len(l) + 1 /\ m[Len(l) + 1] = 0
      /\ \A i \in 1 .. Len(l) : m[i] = l[i]
      /\ DOMAIN e = 1 .. Len(d) + 1 /\ e[Len(d) + 1] = 0
      /\ \A i \in 1 .. Len(d) : e[i] = d[i]
  <2>1. 0 \in 0 .. Window /\ 0 \in Ages
    BY LoginLimiterAssumption DEF Ages
  <2>2. m \in Seq(0 .. Window) /\ Len(m) = Len(l) + 1
    BY <2>1
  <2>3. e \in Seq(Ages) /\ Len(e) = Len(d) + 1
    BY <2>1
  <2>4. m[Len(l) + 1] = 0 /\ \A i \in 1 .. Len(l) : m[i] = l[i]
    BY <1>1
  <2>5. e[Len(d) + 1] = 0 /\ \A i \in 1 .. Len(d) : e[i] = d[i]
    BY <1>1
  <2> HIDE DEF m, e
  <2> QED BY <2>2, <2>3, <2>4, <2>5
<1> HIDE DEF m, e
<1>4. Invented(d, m)
  <2>1. ASSUME NEW i \in DOMAIN d, d[i] <= Window PROVE \E j \in DOMAIN m : m[j] = d[i]
    <3>1. PICK j \in DOMAIN l : l[j] = d[i]
      BY <2>1 DEF Invented
    <3>2. j \in DOMAIN m /\ m[j] = l[j]
      BY <1>1, <1>3
    <3> QED BY <3>1, <3>2
  <2> QED BY <2>1 DEF Invented
<1>5. Invented(e, m)
  <2>1. ASSUME NEW i \in DOMAIN e, e[i] <= Window PROVE \E j \in DOMAIN m : m[j] = e[i]
    <3>1. CASE i = Len(d) + 1
      <4>1. Len(l) + 1 \in DOMAIN m
        BY <1>1, <1>3
      <4> QED BY <1>3, <3>1, <4>1
    <3>2. CASE i # Len(d) + 1
      <4>1. i \in DOMAIN d /\ e[i] = d[i]
        BY <1>1, <1>3, <3>2
      <4> QED BY <1>4, <2>1, <4>1 DEF Invented
    <3> QED BY <3>1, <3>2
  <2> QED BY <2>1 DEF Invented
<1>6. Invented(Older(d), Recent(l))
  <2>1. PICK over \in 0 .. Len(l) :
           /\ \A i \in 1 .. over : l[i] >= Window
           /\ \A i \in over + 1 .. Len(l) : l[i] < Window
           /\ Recent(l) = [i \in 1 .. Len(l) - over |-> l[i + over] + 1]
    BY RecentIsSuffix
  <2> DEFINE r == Recent(l)
             o == Older(d)
  <2>2. /\ DOMAIN r = 1 .. Len(l) - over
        /\ \A i \in 1 .. Len(l) - over : r[i] = l[i + over] + 1
    BY <2>1
  <2>3. /\ DOMAIN o = DOMAIN d
        /\ \A i \in DOMAIN d : o[i] = IF d[i] > Window THEN d[i] ELSE d[i] + 1
    BY DEF Older
  <2> HIDE DEF r, o
  <2>4. ASSUME NEW i \in DOMAIN o, o[i] <= Window PROVE \E j \in DOMAIN r : r[j] = o[i]
    <3>1. d[i] \in 0 .. Window + 1 /\ i \in DOMAIN d
      BY <1>1, <2>3
    <3>2. d[i] < Window /\ o[i] = d[i] + 1
      BY <2>3, <2>4, <3>1, LoginLimiterAssumption
    <3>3. PICK j \in DOMAIN l : l[j] = d[i]
      BY <3>1, <3>2, LoginLimiterAssumption DEF Invented
    <3>4. j \in over + 1 .. Len(l)
      BY <1>1, <2>1, <3>1, <3>2, <3>3, LoginLimiterAssumption
    <3>5. j - over \in 1 .. Len(l) - over /\ (j - over) + over = j
      BY <3>4
    <3>6. r[j - over] = l[j] + 1
      BY <2>2, <3>5
    <3> QED BY <2>2, <3>2, <3>3, <3>5, <3>6
  <2>5. Invented(o, r)
    BY <2>4 DEF Invented
  <2> QED BY <2>5 DEF o, r
<1> QED BY <1>2, <1>4, <1>5, <1>6 DEF m, e

LEMMA NothingInventedStep ==
    ASSUME TypeOK, Inv, Next
    PROVE  NothingInvented'
<1>0. Holding /\ OneDeque /\ OldestFirst
  BY DEF Inv
<1>1. \A k \in Keys : /\ at[k] \in Names \cup {None}
                      /\ log[k] \in Seq(0 .. Window) /\ Ordered(log[k])
                      /\ \A n \in Names : deque[k][n] \in Seq(Ages)
                      /\ at[k] # None => Invented(deque[k][at[k]], log[k])
  <2>1. \A k \in Keys : at[k] \in Names \cup {None} /\ Ordered(log[k])
    BY <1>0 DEF TypeOK, OldestFirst
  <2>2. \A k \in Keys : at[k] # None => Invented(deque[k][at[k]], log[k])
    BY DEF Inv, NothingInvented, Invented
  <2> QED BY <2>1, <2>2, DequeFacts
<1>2. ASSUME \A k \in Keys : at'[k] # None => Invented(deque'[k][at'[k]], log'[k])
      PROVE  NothingInvented'
  BY <1>2 DEF NothingInvented, Invented
<1>3. \A l : Invented(<<>>, l)
  BY DEF Invented
<1>4. ASSUME UNCHANGED <<at, log>>,
             \A k \in Keys : at[k] # None => Cleared(k, at[k]) \/ Kept(k, at[k])
      PROVE  NothingInvented'
  BY <1>1, <1>2, <1>3, <1>4 DEF Cleared, Kept
<1>5. ASSUME NEW t \in Workers,
             (\E i \in Ips, u \in Users : Attempt(t, i, u)) \/ Fail(t) \/ Prune(t)
      PROVE  NothingInvented'
  <2>1. UNCHANGED <<at, deque, log>>
    BY <1>0, <1>5, QuietSteps DEF Quiet
  <2> QED BY <1>4, <2>1 DEF Kept
<1>6. ASSUME NEW t \in Workers, Succeed(t) PROVE NothingInvented'
  <2>1. ASSUME NEW k \in Keys, at'[k] # None PROVE Invented(deque'[k][at'[k]], log'[k])
    <3>1. at'[k] = at[k] /\ log'[k] = log[k]
      BY <1>6, <2>1, SucceedEffect
    <3>2. Used(at', task', k, at'[k]) /\ at[k] \in Names
      BY <1>1, <2>1, <3>1 DEF Used
    <3>3. deque'[k][at'[k]] = deque[k][at[k]]
      BY <1>6, <3>1, <3>2, SucceedEffect
    <3> QED BY <1>1, <2>1, <3>1, <3>3
  <2> QED BY <1>2, <2>1
<1>7. ASSUME NEW t \in Workers, LookUp(t) PROVE NothingInvented'
  <2>1. ASSUME NEW k \in Keys, at'[k] # None PROVE Invented(deque'[k][at'[k]], log'[k])
    <3>0. at' \in [Keys -> Names \cup {None}]
      BY <1>7, LookUpEffect
    <3>1. UNCHANGED <<deque, log>> /\ at'[k] \in Names
      <4>1. UNCHANGED <<deque, log>>
        BY <1>7, LookUpEffect
      <4> QED BY <2>1, <3>0, <4>1
    <3>2. CASE at[k] # None
      <4>1. at'[k] = at[k]
        BY <1>7, <3>2, LookUpEffect
      <4> QED BY <1>1, <3>1, <3>2, <4>1
    <3>3. CASE at[k] = None
      <4>1. ~Used(at, task, k, at'[k])
        BY <1>7, <2>1, <3>3, LookUpEffect
      <4>2. deque[k][at'[k]] = <<>>
        BY <1>0, <3>1, <4>1 DEF OneDeque
      <4> QED BY <1>3, <3>1, <4>2
    <3> QED BY <3>2, <3>3
  <2> QED BY <1>2, <2>1
<1>8. ASSUME NEW t \in Workers, PopLeft(t) PROVE NothingInvented'
  <2>1. ASSUME NEW k \in Keys, at[k] # None PROVE Invented(deque'[k][at[k]], log[k])
    <3>1. CASE k = Key(t) /\ at[k] = task[t].held[task[t].side]
      <4>1. deque'[k][at[k]] = Tail(deque[k][at[k]]) /\ deque[k][at[k]] # <<>>
        BY <1>0, <1>1, <1>8, <2>1, <3>1, PopLeftEffect DEF Attempts
      <4> QED BY <1>1, <2>1, <4>1, InventedFacts
    <3>2. CASE ~ (k = Key(t) /\ at[k] = task[t].held[task[t].side])
      <4>1. deque'[k][at[k]] = deque[k][at[k]]
        BY <1>0, <1>1, <1>8, <2>1, <3>2, PopLeftEffect
      <4> QED BY <1>1, <2>1, <4>1
    <3> QED BY <3>1, <3>2
  <2>2. UNCHANGED <<at, log>>
    BY <1>0, <1>8, PopLeftEffect
  <2> QED BY <1>2, <2>1, <2>2
<1>9. ASSUME NEW t \in Workers, PopFails(t) PROVE NothingInvented'
  <2>1. UNCHANGED <<at, log>>
    BY <1>9, PopFailsEffect
  <2>2. \A k \in Keys : at[k] # None => Cleared(k, at[k]) \/ Kept(k, at[k])
    BY <1>1, <1>9, PopFailsEffect DEF Cleared, Kept
  <2> QED BY <1>4, <2>1, <2>2
<1>10. ASSUME NEW t \in Workers, AppendNow(t) PROVE NothingInvented'
  <2>1. ASSUME NEW k \in Keys, at[k] # None PROVE Invented(deque'[k][at[k]], log'[k])
    <3>0. at[k] \in Names
      BY <1>1, <2>1
    <3>1. /\ Invented(deque[k][at[k]], Append(log[k], 0))
          /\ Invented(Append(deque[k][at[k]], 0), Append(log[k], 0))
      BY <1>1, <2>1, <3>0, InventedFacts
    <3>2. CASE Holds(task, t, k, at[k])
      <4>1. Mine(t, k)
        BY <3>2 DEF Holds, Mine
      <4>2. /\ deque'[k][at[k]] = Append(deque[k][at[k]], 0)
            /\ log'[k] = Append(log[k], 0)
        BY <1>10, <3>0, <3>2, <4>1, AppendEffect
      <4> QED BY <3>1, <4>2
    <3>3. CASE ~Holds(task, t, k, at[k])
      <4>1. /\ deque'[k][at[k]] = deque[k][at[k]]
            /\ log'[k] = log[k] \/ log'[k] = Append(log[k], 0)
        BY <1>10, <3>0, <3>3, AppendEffect
      <4> QED BY <1>1, <2>1, <3>1, <4>1
    <3> QED BY <3>2, <3>3
  <2>2. UNCHANGED at
    BY <1>10, AppendEffect
  <2> QED BY <1>2, <2>1, <2>2
<1>11. ASSUME NEW t \in Workers, LockOut(t) PROVE NothingInvented'
  <2>1. UNCHANGED <<at, log>>
    BY <1>0, <1>11, LockOutEffect
  <2>2. \A k \in Keys : at[k] # None => Cleared(k, at[k]) \/ Kept(k, at[k])
    BY <1>0, <1>1, <1>11, LockOutEffect DEF Cleared, Kept
  <2> QED BY <1>4, <2>1, <2>2
<1>12. ASSUME NEW t \in Workers, Tolerate(t) PROVE NothingInvented'
  <2>1. UNCHANGED <<at, log>>
    BY <1>12, TolerateEffect
  <2>2. \A k \in Keys : at[k] # None => Cleared(k, at[k]) \/ Kept(k, at[k])
    BY <1>1, <1>12, TolerateEffect DEF Cleared, Kept
  <2> QED BY <1>4, <2>1, <2>2
<1>13. CASE Tick
  <2>1. ASSUME NEW k \in Keys, at[k] # None PROVE Invented(deque'[k][at[k]], log'[k])
    <3>1. deque'[k][at[k]] = Older(deque[k][at[k]]) /\ log'[k] = Recent(log[k])
      BY <1>0, <1>1, <1>13, <2>1, TickEffect
    <3> QED BY <1>1, <2>1, <3>1, InventedFacts
  <2>2. UNCHANGED at
    BY <1>0, <1>13, TickEffect
  <2> QED BY <1>2, <2>1, <2>2
<1> QED BY <1>5, <1>6, <1>7, <1>8, <1>9, <1>10, <1>11, <1>12, <1>13 DEF Next

\* The last m times of d are those of l; the others are outdated.
Covers(d, l, m) == /\ m <= Len(d)
                   /\ \A i \in 1 .. Len(d) - m : d[i] > Window
                   /\ \A i \in 1 .. m : d[Len(d) - m + i] = l[Len(l) - m + i]

LEMMA CoversFacts ==
    ASSUME NEW d \in Seq(Ages), NEW l \in Seq(0 .. Window), NEW m \in 0 .. Len(l), Covers(d, l, m)
    PROVE  /\ d # <<>> /\ d[1] > Window => Covers(Tail(d), l, m)
           /\ Covers(Append(d, 0), Append(l, 0), m + 1)
           /\ Ordered(l) => LET r == Recent(l)
                            IN  Covers(Older(d), r, IF m > Len(r) THEN Len(r) ELSE m)
<1> DEFINE D == Len(d)
           L == Len(l)
<1>0. D \in Nat /\ L \in Nat /\ m \in Nat /\ m <= L /\ m <= D
  <2>1. D \in Nat /\ L \in Nat
    OBVIOUS
  <2>2. m <= D
    BY DEF Covers
  <2> QED BY <2>1, <2>2
<1>1. /\ DOMAIN d = 1 .. D /\ \A i \in 1 .. D : d[i] \in 0 .. Window + 1
      /\ DOMAIN l = 1 .. L /\ \A i \in 1 .. L : l[i] \in 0 .. Window
  BY LoginLimiterAssumption DEF Ages
<1>2. /\ \A i \in 1 .. D - m : d[i] > Window
      /\ \A i \in 1 .. m : d[D - m + i] = l[L - m + i]
  BY DEF Covers
<1>3. d # <<>> => Len(Tail(d)) = D - 1 /\ \A i \in 1 .. D - 1 : Tail(d)[i] = d[i + 1]
  OBVIOUS
<1>4. /\ Len(Append(d, 0)) = D + 1 /\ Len(Append(l, 0)) = L + 1
      /\ Append(d, 0)[D + 1] = 0 /\ \A i \in 1 .. D : Append(d, 0)[i] = d[i]
      /\ Append(l, 0)[L + 1] = 0 /\ \A i \in 1 .. L : Append(l, 0)[i] = l[i]
  OBVIOUS
<1>5. /\ Len(Older(d)) = D
      /\ \A i \in 1 .. D : Older(d)[i] = IF d[i] > Window THEN d[i] ELSE d[i] + 1
  BY <1>1, OlderIsSeq
<1>6. d # <<>> => D # 0
  OBVIOUS
<1>7. Ordered(l) => \E over \in 0 .. L :
          /\ \A i \in 1 .. over : l[i] >= Window
          /\ \A i \in over + 1 .. L : l[i] < Window
          /\ Len(Recent(l)) = L - over
          /\ \A i \in 1 .. L - over : Recent(l)[i] = l[i + over] + 1
  <2> SUFFICES ASSUME Ordered(l) PROVE \E over \in 0 .. L :
          /\ \A i \in 1 .. over : l[i] >= Window
          /\ \A i \in over + 1 .. L : l[i] < Window
          /\ Len(Recent(l)) = L - over
          /\ \A i \in 1 .. L - over : Recent(l)[i] = l[i + over] + 1
    OBVIOUS
  <2>1. PICK over \in 0 .. L :
           /\ \A i \in 1 .. over : l[i] >= Window
           /\ \A i \in over + 1 .. L : l[i] < Window
           /\ Recent(l) = [i \in 1 .. L - over |-> l[i + over] + 1]
    BY RecentIsSuffix
  <2>2. Len(Recent(l)) = L - over /\ \A i \in 1 .. L - over : Recent(l)[i] = l[i + over] + 1
    BY <2>1
  <2> QED BY <2>1, <2>2
<1>8. \A e, f, p : Covers(e, f, p) <=>
          /\ p <= Len(e)
          /\ \A i \in 1 .. Len(e) - p : e[i] > Window
          /\ \A i \in 1 .. p : e[Len(e) - p + i] = f[Len(f) - p + i]
  BY DEF Covers
<1> HIDE DEF D, L
<1>9. ASSUME d # <<>>, d[1] > Window PROVE Covers(Tail(d), l, m)
  <2>1. m < D
    <3> SUFFICES ASSUME m = D PROVE FALSE
      BY <1>0
    <3>1. 1 \in 1 .. m /\ D - m + 1 = 1
      BY <1>0, <1>9, <1>6
    <3>2. d[1] = l[L - m + 1] /\ L - m + 1 \in 1 .. L
      BY <1>0, <1>2, <3>1
    <3>3. l[L - m + 1] \in 0 .. Window
      BY <1>1, <3>2
    <3> QED BY <1>9, <3>2, <3>3, LoginLimiterAssumption
  <2> DEFINE e == Tail(d)
  <2>2. Len(e) = D - 1 /\ \A i \in 1 .. D - 1 : e[i] = d[i + 1]
    BY <1>9, <1>3
  <2> HIDE DEF e
  <2>3. ASSUME NEW i \in 1 .. D - 1 - m PROVE e[i] > Window
    <3>1. i \in 1 .. D - 1 /\ i + 1 \in 1 .. D - m
      BY <1>0
    <3> QED BY <1>2, <2>2, <3>1
  <2>4. ASSUME NEW i \in 1 .. m PROVE e[D - 1 - m + i] = l[L - m + i]
    <3>1. D - 1 - m + i \in 1 .. D - 1 /\ D - 1 - m + i + 1 = D - m + i
      BY <1>0, <2>1
    <3> QED BY <1>2, <2>2, <3>1
  <2>5. m <= D - 1
    BY <1>0, <2>1
  <2>6. Covers(e, l, m)
    BY <2>2, <2>3, <2>4, <2>5, <1>8 DEF L
  <2> QED BY <2>6 DEF e
<1>10. Covers(Append(d, 0), Append(l, 0), m + 1)
  <2> DEFINE e == Append(d, 0)
             f == Append(l, 0)
  <2>1. /\ Len(e) = D + 1 /\ Len(f) = L + 1
        /\ e[D + 1] = 0 /\ \A i \in 1 .. D : e[i] = d[i]
        /\ f[L + 1] = 0 /\ \A i \in 1 .. L : f[i] = l[i]
    BY <1>4
  <2> HIDE DEF e, f
  <2>2. ASSUME NEW i \in 1 .. D + 1 - (m + 1) PROVE e[i] > Window
    <3>1. i \in 1 .. D /\ i \in 1 .. D - m
      BY <1>0
    <3> QED BY <1>2, <2>1, <3>1
  <2>3. ASSUME NEW i \in 1 .. m + 1 PROVE e[D + 1 - (m + 1) + i] = f[L + 1 - (m + 1) + i]
    <3>1. CASE i = m + 1
      <4>1. D + 1 - (m + 1) + i = D + 1 /\ L + 1 - (m + 1) + i = L + 1
        BY <1>0, <3>1
      <4> QED BY <2>1, <4>1
    <3>2. CASE i # m + 1
      <4>1. i \in 1 .. m
        BY <1>0, <3>2
      <4>2. /\ D - m + i \in 1 .. D /\ D + 1 - (m + 1) + i = D - m + i
            /\ L - m + i \in 1 .. L /\ L + 1 - (m + 1) + i = L - m + i
        BY <1>0, <4>1
      <4> QED BY <1>2, <2>1, <4>1, <4>2
    <3> QED BY <3>1, <3>2
  <2>4. m + 1 <= D + 1
    BY <1>0
  <2>5. Covers(e, f, m + 1)
    <3>1. Covers(e, f, m + 1) <=>
             /\ m + 1 <= Len(e)
             /\ \A i \in 1 .. Len(e) - (m + 1) : e[i] > Window
             /\ \A i \in 1 .. m + 1 : e[Len(e) - (m + 1) + i] = f[Len(f) - (m + 1) + i]
      BY <1>8
    <3>2. Len(e) = D + 1 /\ Len(f) = L + 1
      BY <2>1
    <3>3. \A i \in 1 .. Len(e) - (m + 1) : e[i] > Window
      BY <1>0, <2>2, <3>2
    <3>4. ASSUME NEW i \in 1 .. m + 1
          PROVE  e[Len(e) - (m + 1) + i] = f[Len(f) - (m + 1) + i]
      <4> DEFINE a == D + 1 - (m + 1) + i
                 b == L + 1 - (m + 1) + i
      <4>1. e[a] = f[b]
        BY <2>3
      <4>2. Len(e) - (m + 1) + i = a /\ Len(f) - (m + 1) + i = b
        BY <1>0, <3>2
      <4> HIDE DEF a, b
      <4> QED BY <4>1, <4>2
    <3>5. m + 1 <= Len(e)
      BY <2>4, <3>2
    <3> QED BY <3>1, <3>3, <3>4, <3>5, Zenon
  <2> QED BY <2>5 DEF e, f
<1>11. ASSUME Ordered(l)
      PROVE  Covers(Older(d), Recent(l), IF m > Len(Recent(l)) THEN Len(Recent(l)) ELSE m)
  <2> DEFINE r == Recent(l)
             o == Older(d)
             R == Len(r)
             p == IF m > R THEN R ELSE m
  <2>1. PICK over \in 0 .. L :
           /\ \A i \in 1 .. over : l[i] >= Window
           /\ \A i \in over + 1 .. L : l[i] < Window
           /\ R = L - over
           /\ \A i \in 1 .. L - over : r[i] = l[i + over] + 1
    BY <1>11, <1>7
  <2>2. /\ Len(o) = D
        /\ \A i \in 1 .. D : o[i] = IF d[i] > Window THEN d[i] ELSE d[i] + 1
    BY <1>5
  <2> HIDE DEF r, o
  <2>3. R \in Nat /\ over \in Nat /\ over <= L /\ R = L - over
    <3> HIDE DEF R
    <3> QED BY <1>0, <2>1
  <2> HIDE DEF R
  <2>4. p \in Nat /\ p <= m /\ p <= R /\ (p < m => p = R)
    BY <1>0, <2>3
  <2> HIDE DEF p
  <2>5. ASSUME NEW i \in 1 .. D - p PROVE o[i] > Window
    <3>1. i \in 1 .. D
      BY <1>0, <2>4
    <3>2. d[i] \in 0 .. Window + 1
      BY <1>1, <3>1
    <3>3. CASE i <= D - m
      <4>1. i \in 1 .. D - m
        BY <1>0, <3>3
      <4>2. d[i] > Window
        BY <1>2, <4>1
      <4> QED BY <2>2, <3>1, <4>2
    <3>4. CASE ~ i <= D - m
      <4> DEFINE j == i - (D - m)
      <4>1. j \in 1 .. m /\ D - m + j = i /\ p < m /\ L - m + j \in 1 .. over
        BY <1>0, <2>3, <2>4, <3>4
      <4> HIDE DEF j
      <4>2. d[i] = l[L - m + j] /\ l[L - m + j] >= Window
        BY <1>2, <2>1, <4>1
      <4> QED BY <2>2, <3>1, <3>2, <4>2, LoginLimiterAssumption
    <3> QED BY <3>3, <3>4
  <2>6. ASSUME NEW i \in 1 .. p PROVE o[D - p + i] = r[R - p + i]
    <3> DEFINE j == m - p + i
    <3>1. j \in 1 .. m /\ D - p + i = D - m + j /\ D - m + j \in 1 .. D
      BY <1>0, <2>4
    <3>2. /\ R - p + i \in 1 .. L - over /\ R - p + i + over = L - m + j
          /\ L - m + j \in over + 1 .. L /\ L - m + j \in 1 .. L
      BY <1>0, <2>3, <2>4
    <3> HIDE DEF j
    <3>3. d[D - m + j] = l[L - m + j] /\ l[L - m + j] < Window
      BY <1>2, <2>1, <3>1, <3>2
    <3>4. r[R - p + i] = l[L - m + j] + 1
      BY <2>1, <3>2
    <3>5. l[L - m + j] \in 0 .. Window
      BY <1>1, <3>2
    <3>6. ~ d[D - m + j] > Window
      BY <3>3, <3>5, LoginLimiterAssumption
    <3>7. o[D - p + i] = d[D - m + j] + 1
      BY <2>2, <3>1, <3>6
    <3> QED BY <3>3, <3>4, <3>7
  <2>7. p <= D
    BY <1>0, <2>4
  <2>8. Covers(o, r, p)
    BY <2>2, <2>5, <2>6, <2>7, <1>8 DEF R
  <2> QED BY <2>8 DEF o, r, p, R
<1> QED BY <1>9, <1>10, <1>11

LEMMA NothingLostStep ==
    ASSUME TypeOK, Inv, Next, NothingInvented'
    PROVE  NothingLost'
<1>0. Holding /\ OneDeque /\ OldestFirst
  BY DEF Inv
<1>1. \A k \in Keys : /\ at[k] \in Names \cup {None}
                      /\ log[k] \in Seq(0 .. Window) /\ Ordered(log[k])
                      /\ unpaid[k] \in 0 .. Len(log[k])
                      /\ \A n \in Names : deque[k][n] \in Seq(Ages)
  <2>1. \A k \in Keys : at[k] \in Names \cup {None} /\ Ordered(log[k])
    BY <1>0 DEF TypeOK, OldestFirst
  <2>2. \A k \in Keys : unpaid[k] \in 0 .. Len(log[k])
    BY DequeFacts DEF TypeOK
  <2> QED BY <2>1, <2>2, DequeFacts
<1>2. \A k \in Keys \ raced :
         IF at[k] = None THEN unpaid[k] = 0 ELSE Covers(deque[k][at[k]], log[k], unpaid[k])
  BY DEF Inv, NothingLost, Covers
<1>3. ASSUME \A k \in Keys \ raced' :
                IF at'[k] = None THEN unpaid'[k] = 0
                                 ELSE Covers(deque'[k][at'[k]], log'[k], unpaid'[k])
      PROVE  NothingLost'
  BY <1>3 DEF NothingLost, Covers
<1>4. ASSUME UNCHANGED <<at, log, unpaid>>, raced \subseteq raced',
             \A k \in Keys : at[k] # None => Kept(k, at[k])
      PROVE  NothingLost'
  BY <1>2, <1>3, <1>4 DEF Kept
\* Without a race the deque a thread holds is the one in the dictionary.
<1>5. \A t \in Workers, k \in Keys \ raced, n \in Names : Holds(task, t, k, n) => at[k] = n
  BY <1>0 DEF OneDeque
<1>6. ASSUME NEW t \in Workers,
             (\E i \in Ips, u \in Users : Attempt(t, i, u)) \/ Fail(t) \/ Prune(t)
      PROVE  NothingLost'
  <2>1. UNCHANGED <<at, deque, log, unpaid, raced>>
    BY <1>0, <1>6, QuietSteps DEF Quiet
  <2> QED BY <1>4, <2>1 DEF Kept
<1>7. ASSUME NEW t \in Workers, Succeed(t) PROVE NothingLost'
  <2>1. ASSUME NEW k \in Keys \ raced'
        PROVE  IF at'[k] = None THEN unpaid'[k] = 0
                                ELSE Covers(deque'[k][at'[k]], log'[k], unpaid'[k])
    <3>1. CASE Mine(t, k)
      BY <1>7, <3>1, SucceedEffect
    <3>2. CASE ~Mine(t, k)
      <4>1. /\ k \in Keys \ raced
            /\ at'[k] = at[k] /\ log'[k] = log[k] /\ unpaid'[k] = unpaid[k]
        BY <1>7, <3>2, SucceedEffect
      <4>2. CASE at[k] = None
        BY <1>2, <4>1, <4>2
      <4>3. CASE at[k] # None
        <5>1. at[k] \in Names /\ Used(at', task', k, at[k])
          BY <1>1, <4>1, <4>3 DEF Used
        <5>2. deque'[k][at[k]] = deque[k][at[k]]
          BY <1>7, <5>1, SucceedEffect
        <5> QED BY <1>2, <4>1, <4>3, <5>2
      <4> QED BY <4>2, <4>3
    <3> QED BY <3>1, <3>2
  <2> QED BY <1>3, <2>1
<1>8. ASSUME NEW t \in Workers, LookUp(t) PROVE NothingLost'
  <2>1. UNCHANGED <<deque, log, unpaid, raced>> /\ at' \in [Keys -> Names \cup {None}]
    BY <1>8, LookUpEffect
  <2>2. ASSUME NEW k \in Keys \ raced'
        PROVE  IF at'[k] = None THEN unpaid'[k] = 0
                                ELSE Covers(deque'[k][at'[k]], log'[k], unpaid'[k])
    <3>1. CASE at[k] # None
      <4>1. at'[k] = at[k]
        BY <1>8, <3>1, LookUpEffect
      <4> QED BY <1>2, <2>1, <3>1, <4>1
    <3>2. CASE at[k] = None /\ at'[k] = None
      BY <1>2, <2>1, <3>2
    <3>3. CASE at[k] = None /\ at'[k] # None
      <4>0. \E i \in 1 .. 2 : task[t].keys[i] = k
        BY <1>8, <3>3, LookUpEffect
      <4>1. ~Used(at, task, k, at'[k]) /\ at'[k] \in Names
        BY <1>8, <3>3, <4>0, LookUpEffect
      <4>2. deque'[k][at'[k]] = <<>>
        BY <1>0, <2>1, <4>1 DEF OneDeque
      <4>3. unpaid'[k] = 0
        BY <1>2, <2>1, <3>3
      <4>4. Covers(<<>>, log'[k], 0)
        BY DEF Covers
      <4> QED BY <3>3, <4>2, <4>3, <4>4
    <3> QED BY <3>1, <3>2, <3>3
  <2> QED BY <1>3, <2>2
<1>9. ASSUME NEW t \in Workers, PopLeft(t) PROVE NothingLost'
  <2>1. /\ task[t] # None /\ task[t].next = "popping" /\ Attempts(t) # <<>>
        /\ UNCHANGED <<at, log, unpaid>> /\ raced \subseteq raced'
        /\ Key(t) \notin raced' => Attempts(t)[1] > Window
    BY <1>0, <1>9, PopLeftEffect
  <2> DEFINE n == task[t].held[task[t].side]
  <2>2. n \in Names /\ Key(t) \in Keys /\ Holds(task, t, Key(t), n)
    BY <1>0, <2>1, HeldFacts, AttemptsFacts
  <2>3. ASSUME NEW k \in Keys \ raced'
        PROVE  IF at[k] = None THEN unpaid[k] = 0
                               ELSE Covers(deque'[k][at[k]], log[k], unpaid[k])
    <3>1. CASE k = Key(t)
      <4>1. at[k] = n /\ at[k] # None
        BY <1>5, <2>1, <2>2, <2>3, <3>1, NamesAreNumbers
      <4>2. deque'[k][n] = Tail(deque[k][n])
        BY <1>0, <1>9, <2>2, <3>1, PopLeftEffect
      <4>3. deque[k][n] # <<>> /\ deque[k][n][1] > Window
        BY <2>1, <2>3, <3>1 DEF Attempts
      <4>4. Covers(deque[k][n], log[k], unpaid[k])
        BY <1>2, <2>1, <2>3, <4>1
      <4>5. Covers(Tail(deque[k][n]), log[k], unpaid[k])
        BY <1>1, <2>2, <4>3, <4>4, CoversFacts
      <4> QED BY <4>1, <4>2, <4>5
    <3>2. CASE k # Key(t)
      <4>1. at[k] # None => deque'[k][at[k]] = deque[k][at[k]]
        BY <1>0, <1>1, <1>9, <3>2, PopLeftEffect
      <4> QED BY <1>2, <2>1, <2>3, <4>1
    <3> QED BY <3>1, <3>2
  <2> QED BY <1>3, <2>1, <2>3
<1>10. ASSUME NEW t \in Workers, PopFails(t) PROVE NothingLost'
  <2>1. UNCHANGED <<at, log, unpaid>> /\ raced \subseteq raced'
    BY <1>10, PopFailsEffect
  <2>2. \A k \in Keys : at[k] # None => at[k] \in Names /\ Used(at, task', k, at[k])
    BY <1>1 DEF Used
  <2>3. \A k \in Keys : at[k] # None => Kept(k, at[k])
    BY <1>10, <2>2, PopFailsEffect DEF Kept
  <2> QED BY <1>4, <2>1, <2>3
<1>11. ASSUME NEW t \in Workers, AppendNow(t) PROVE NothingLost'
  <2>1. task[t] # None /\ task[t].next = "append" /\ UNCHANGED <<at, raced>>
    BY <1>11, AppendEffect
  <2>2. ASSUME NEW k \in Keys \ raced
        PROVE  IF at[k] = None THEN unpaid'[k] = 0
                               ELSE Covers(deque'[k][at[k]], log'[k], unpaid'[k])
    <3>1. CASE Mine(t, k)
      <4>1. PICK i \in 1 .. 2 : task[t].keys[i] = k
        BY <3>1 DEF Mine
      <4> DEFINE n == task[t].held[i]
      <4>2. n \in Names /\ Holds(task, t, k, n)
        BY <1>0, <2>1, <4>1, HeldFacts
      <4> HIDE DEF n
      <4>3. at[k] = n /\ at[k] # None
        BY <1>5, <4>2, NamesAreNumbers
      <4>4. /\ deque'[k][n] = Append(deque[k][n], 0)
            /\ log'[k] = Append(log[k], 0) /\ unpaid'[k] = unpaid[k] + 1
        BY <1>11, <3>1, <4>2, AppendEffect
      <4>5. Covers(deque[k][n], log[k], unpaid[k])
        BY <1>2, <4>3
      <4>6. Covers(Append(deque[k][n], 0), Append(log[k], 0), unpaid[k] + 1)
        BY <1>1, <4>2, <4>5, CoversFacts
      <4> QED BY <4>3, <4>4, <4>6
    <3>2. CASE ~Mine(t, k)
      <4>1. log'[k] = log[k] /\ unpaid'[k] = unpaid[k]
        BY <1>11, <3>2, AppendEffect
      <4>2. \A n : ~Holds(task, t, k, n)
        BY <3>2 DEF Holds, Mine
      <4>3. at[k] # None => deque'[k][at[k]] = deque[k][at[k]]
        BY <1>1, <1>11, <4>2, AppendEffect
      <4> QED BY <1>2, <4>1, <4>3
    <3> QED BY <3>1, <3>2
  <2> QED BY <1>3, <2>1, <2>2
<1>12. ASSUME NEW t \in Workers, LockOut(t) PROVE NothingLost'
  <2>1. task[t] # None /\ task[t].next = "count" /\ UNCHANGED <<at, log, raced>>
    BY <1>0, <1>12, LockOutEffect
  <2> DEFINE n == task[t].held[task[t].side]
  <2>2. n \in Names /\ Key(t) \in Keys /\ Holds(task, t, Key(t), n)
    BY <1>0, <2>1, HeldFacts, AttemptsFacts
  <2>3. ASSUME NEW k \in Keys \ raced
        PROVE  IF at[k] = None THEN unpaid'[k] = 0
                               ELSE Covers(deque'[k][at[k]], log[k], unpaid'[k])
    <3>1. CASE k = Key(t)
      <4>1. at[k] = n
        BY <1>5, <2>2, <3>1
      <4>2. unpaid'[k] = 0 /\ deque'[k][n] = <<>>
        BY <1>0, <1>12, <2>2, <3>1, LockOutEffect
      <4>3. Covers(<<>>, log[k], 0)
        BY DEF Covers
      <4> QED BY <4>1, <4>2, <4>3
    <3>2. CASE k # Key(t)
      <4>1. unpaid'[k] = unpaid[k]
        BY <1>0, <1>12, <3>2, LockOutEffect
      <4>2. at[k] # None => at[k] \in Names /\ Used(at, task', k, at[k])
        BY <1>1 DEF Used
      <4>3. at[k] # None => deque'[k][at[k]] = deque[k][at[k]]
        BY <1>0, <1>12, <3>2, <4>2, LockOutEffect
      <4> QED BY <1>2, <4>1, <4>3
    <3> QED BY <3>1, <3>2
  <2> QED BY <1>3, <2>1, <2>3
<1>13. ASSUME NEW t \in Workers, Tolerate(t) PROVE NothingLost'
  <2>1. UNCHANGED <<at, log, unpaid>> /\ raced \subseteq raced'
    BY <1>13, TolerateEffect
  <2>2. \A k \in Keys : at[k] # None => at[k] \in Names /\ Used(at, task', k, at[k])
    BY <1>1 DEF Used
  <2>3. \A k \in Keys : at[k] # None => Kept(k, at[k])
    BY <1>13, <2>2, TolerateEffect DEF Kept
  <2> QED BY <1>4, <2>1, <2>3
<1>14. CASE Tick
  <2>1. UNCHANGED at
    BY <1>0, <1>14, TickEffect
  <2>2. ASSUME NEW k \in Keys \ raced'
        PROVE  IF at[k] = None THEN unpaid'[k] = 0
                               ELSE Covers(deque'[k][at[k]], log'[k], unpaid'[k])
    <3>1. log'[k] = Recent(log[k]) /\ log'[k] \in Seq(0 .. Window)
      BY <1>0, <1>14, TickEffect
    <3>2. unpaid'[k] = IF unpaid[k] > Len(log'[k]) THEN Len(log'[k]) ELSE unpaid[k]
      BY <1>0, <1>14, TickEffect
    <3>3. Len(log'[k]) \in Nat /\ unpaid[k] \in Nat
      BY <1>1, <3>1, DequeFacts
    <3>4. k \notin raced \/ log'[k] = <<>>
      BY <1>0, <1>14, TickEffect
    <3>5. at[k] # None => /\ at[k] \in Names
                          /\ deque'[k][at[k]] = Older(deque[k][at[k]])
                          /\ deque'[k][at[k]] \in Seq(Ages)
      BY <1>0, <1>1, <1>14, TickEffect, OlderIsSeq
    <3>6. CASE k \notin raced
      <4>1. CASE at[k] = None
        <5>1. unpaid[k] = 0
          BY <1>2, <3>6, <4>1
        <5> QED BY <3>2, <3>3, <4>1, <5>1
      <4>2. CASE at[k] # None
        <5>1. Covers(deque[k][at[k]], log[k], unpaid[k])
          BY <1>2, <3>6, <4>2
        <5> QED BY <1>1, <3>1, <3>2, <3>5, <4>2, <5>1, CoversFacts
      <4> QED BY <4>1, <4>2
    <3>7. CASE log'[k] = <<>>
      <4>1. unpaid'[k] = 0
        BY <3>2, <3>3, <3>7
      <4>2. CASE at[k] # None
        <5> DEFINE d == deque'[k][at[k]]
        <5>1. d \in Seq(Ages) /\ DOMAIN log'[k] = {}
          BY <3>5, <3>7, <4>2
        <5>2. \A i \in DOMAIN d : d[i] <= Window => \E j \in DOMAIN log'[k] : log'[k][j] = d[i]
          BY <2>1, <4>2 DEF NothingInvented
        <5> HIDE DEF d
        <5>3. \A i \in 1 .. Len(d) - 0 : d[i] > Window
          BY <5>1, <5>2, LoginLimiterAssumption DEF Ages
        <5>4. Covers(d, log'[k], 0)
          BY <5>1, <5>3 DEF Covers
        <5> QED BY <4>1, <4>2, <5>4 DEF d
      <4> QED BY <4>1, <4>2
    <3> QED BY <3>4, <3>6, <3>7
  <2> QED BY <1>3, <2>1, <2>2
<1> QED BY <1>6, <1>7, <1>8, <1>9, <1>10, <1>11, <1>12, <1>13, <1>14 DEF Next

-----------------------------------------------------------------------------
(* Pruned deques and lockouts.                                             *)

\* Deque n of key k holds no outdated time.
Fresh(d) == \A j \in DOMAIN d : d[j] <= Window

LEMMA FreshFacts ==
    ASSUME NEW d \in Seq(Ages)
    PROVE  /\ Ordered(d) /\ (d = <<>> \/ d[1] <= Window) => Fresh(d)
           /\ Fresh(d) => Fresh(Append(d, 0)) /\ (d # <<>> => Fresh(Tail(d)))
           /\ Fresh(<<>>)
<1>1. DOMAIN d = 1 .. Len(d) /\ Len(d) \in Nat /\ \A j \in 1 .. Len(d) : d[j] \in 0 .. Window + 1
  BY LoginLimiterAssumption DEF Ages
<1>2. ASSUME Ordered(d), d = <<>> \/ d[1] <= Window PROVE Fresh(d)
  <2>1. ASSUME NEW j \in DOMAIN d PROVE d[j] <= Window
    <3>1. 1 \in DOMAIN d /\ 1 <= j /\ d # <<>>
      BY <1>1
    <3>2. d[j] <= d[1] /\ d[1] <= Window
      BY <1>2, <3>1 DEF Ordered
    <3> QED BY <1>1, <3>1, <3>2, LoginLimiterAssumption
  <2> QED BY <2>1 DEF Fresh
<1>3. ASSUME Fresh(d) PROVE Fresh(Append(d, 0))
  <2>1. DOMAIN Append(d, 0) = 1 .. Len(d) + 1 /\ Append(d, 0)[Len(d) + 1] = 0
    <3>1. 0 \in Ages
      BY LoginLimiterAssumption DEF Ages
    <3> QED BY <3>1
  <2>2. \A j \in 1 .. Len(d) : Append(d, 0)[j] = d[j]
    OBVIOUS
  <2> DEFINE e == Append(d, 0)
  <2> HIDE DEF e
  <2>3. ASSUME NEW j \in 1 .. Len(d) + 1 PROVE e[j] <= Window
    <3>1. CASE j = Len(d) + 1
      BY <2>1, <3>1, LoginLimiterAssumption DEF e
    <3>2. CASE j # Len(d) + 1
      <4>1. j \in 1 .. Len(d)
        BY <1>1, <3>2
      <4> QED BY <1>1, <1>3, <2>2, <4>1 DEF Fresh, e
    <3> QED BY <3>1, <3>2
  <2> QED BY <2>1, <2>3 DEF Fresh, e
<1>4. ASSUME Fresh(d), d # <<>> PROVE Fresh(Tail(d))
  <2>1. /\ DOMAIN Tail(d) = 1 .. Len(d) - 1
        /\ \A j \in 1 .. Len(d) - 1 : Tail(d)[j] = d[j + 1] /\ j + 1 \in DOMAIN d
    BY <1>4
  <2> QED BY <1>4, <2>1 DEF Fresh
<1>5. Fresh(<<>>)
  BY DEF Fresh
<1> QED BY <1>2, <1>3, <1>4, <1>5

\* Which of its deques thread t has pruned in state w.
Clean(w, t, i) == \/ w[t].next \in {"append", "count"}
                  \/ w[t].next \in {"prune", "peek", "popping"} /\ i < w[t].side

LEMMA PrunedStep ==
    ASSUME TypeOK, Inv, Next
    PROVE  Pruned'
<1>0. Holding /\ OneDeque /\ OldestFirst
  BY DEF Inv
<1>1. \A u \in Workers, i \in 1 .. 2 : task[u] # None /\ Clean(task, u, i) =>
         Fresh(deque[task[u].keys[i]][task[u].held[i]])
  BY DEF Inv, Pruned, Clean, Fresh
<1>2. ASSUME \A u \in Workers, i \in 1 .. 2 : task'[u] # None /\ Clean(task', u, i) =>
                Fresh(deque'[task'[u].keys[i]][task'[u].held[i]])
      PROVE  Pruned'
  BY <1>2 DEF Pruned, Clean, Fresh
\* What a thread holds.
<1>3. \A u \in Workers, i \in 1 .. 2 : task[u] # None /\ Clean(task, u, i) =>
         /\ task[u].keys[i] \in Keys /\ task[u].held[i] \in Names
         /\ Holds(task, u, task[u].keys[i], task[u].held[i])
  <2>1. ASSUME NEW u \in Workers, NEW i \in 1 .. 2, task[u] # None, Clean(task, u, i)
        PROVE  /\ task[u].keys[i] \in Keys /\ task[u].held[i] \in Names
               /\ Holds(task, u, task[u].keys[i], task[u].held[i])
    <3>1. task[u].next \notin {"check", "look up"}
      BY <2>1 DEF Clean
    <3> QED BY <1>0, <2>1, <3>1, HeldFacts, LoginFacts
  <2> QED BY <2>1
\* The other threads' deques stay fresh, and those thread t had pruned.
<1>4. ASSUME NEW t \in Workers, Same(t),
             \A u \in Workers, k \in Keys, n \in Names :
                Holds(task, u, k, n) /\ (u # t \/ task'[t] # None) =>
                   (Fresh(deque[k][n]) => Fresh(deque'[k][n])),
             task'[t] # None => \A i \in 1 .. 2 : Clean(task', t, i) =>
                /\ task[t] # None
                /\ task'[t].keys = task[t].keys /\ task'[t].held = task[t].held
                /\ \/ Clean(task, t, i)
                   \/ Fresh(deque'[task[t].keys[i]][task[t].held[i]])
      PROVE  Pruned'
  <2>1. ASSUME NEW u \in Workers, NEW i \in 1 .. 2, task'[u] # None, Clean(task', u, i)
        PROVE  Fresh(deque'[task'[u].keys[i]][task'[u].held[i]])
    <3>1. CASE u # t
      <4>1. task'[u] = task[u]
        BY <1>4, <3>1 DEF Same
      <4>2. task[u] # None /\ Clean(task, u, i)
        BY <2>1, <4>1 DEF Clean
      <4> QED BY <1>1, <1>3, <1>4, <3>1, <4>1, <4>2
    <3>2. CASE u = t
      <4>1. /\ task[t] # None
            /\ task'[t].keys = task[t].keys /\ task'[t].held = task[t].held
            /\ \/ Clean(task, t, i)
               \/ Fresh(deque'[task[t].keys[i]][task[t].held[i]])
        BY <1>4, <2>1, <3>2
      <4>2. CASE Clean(task, t, i)
        BY <1>1, <1>3, <1>4, <2>1, <3>2, <4>1, <4>2
      <4> QED BY <3>2, <4>1, <4>2
    <3> QED BY <3>1, <3>2
  <2> QED BY <1>2, <2>1
<1>5. ASSUME NEW t \in Workers, NEW i \in Ips, NEW v \in Users, Attempt(t, i, v)
      PROVE  Pruned'
  <2>1. Same(t) /\ UNCHANGED deque /\ task'[t].next = "check"
    BY <1>5, AttemptEffect
  <2>2. \A j \in 1 .. 2 : ~Clean(task', t, j)
    BY <2>1 DEF Clean
  <2> QED BY <1>4, <2>1, <2>2
<1>6. ASSUME NEW t \in Workers, Succeed(t) PROVE Pruned'
  <2>1. Same(t) /\ task'[t] = None
    BY <1>6, SucceedEffect DEF Ended
  <2>2. \A u \in Workers \ {t}, k \in Keys, n \in Names :
           Holds(task, u, k, n) => deque'[k][n] = deque[k][n]
    BY <1>6, SucceedEffect, EndedHolds DEF Used
  <2> QED BY <1>4, <2>1, <2>2
<1>7. ASSUME NEW t \in Workers, Fail(t) PROVE Pruned'
  <2>1. Same(t) /\ UNCHANGED deque /\ task'[t].next = "look up"
    BY <1>7, FailEffect DEF Went
  <2>2. \A j \in 1 .. 2 : ~Clean(task', t, j)
    BY <2>1 DEF Clean
  <2> QED BY <1>4, <2>1, <2>2
<1>8. ASSUME NEW t \in Workers, LookUp(t) PROVE Pruned'
  <2>1. /\ Same(t) /\ UNCHANGED deque /\ task'[t].next = "prune"
        /\ task'[t].side = task[t].side /\ task[t] # None /\ task[t].next = "look up"
    BY <1>8, LookUpEffect
  <2>2. task'[t].side = 1
    BY <1>0, <2>1 DEF Holding
  <2>3. \A j \in 1 .. 2 : ~ j < task'[t].side
    BY <2>2
  <2>4. \A j \in 1 .. 2 : ~Clean(task', t, j)
    BY <2>1, <2>3 DEF Clean
  <2> QED BY <1>4, <2>1, <2>4
<1>9. ASSUME NEW t \in Workers, Prune(t) PROVE Pruned'
  <2>1. /\ task[t] # None /\ task[t].next \in {"prune", "peek"} /\ UNCHANGED deque
        /\ \/ Went(t, "peek", task[t].side)
           \/ Went(t, "popping", task[t].side)
           \/ /\ Attempts(t) = <<>> \/ Attempts(t)[1] <= Window
              /\ \/ task[t].side = 1 /\ Went(t, "prune", 2)
                 \/ task[t].side = 2 /\ Went(t, "append", 1)
    BY <1>0, <1>9, PruneEffect
  <2>2. /\ Same(t) /\ task'[t] # None
        /\ task'[t].keys = task[t].keys /\ task'[t].held = task[t].held
    BY <2>1 DEF Went
  <2>3. ASSUME NEW i \in 1 .. 2, Clean(task', t, i)
        PROVE  Clean(task, t, i) \/ Fresh(deque'[task[t].keys[i]][task[t].held[i]])
    <3>1. CASE Went(t, "peek", task[t].side) \/ Went(t, "popping", task[t].side)
      BY <2>1, <2>3, <3>1 DEF Went, Clean
    <3>2. CASE /\ Attempts(t) = <<>> \/ Attempts(t)[1] <= Window
               /\ \/ task[t].side = 1 /\ Went(t, "prune", 2)
                  \/ task[t].side = 2 /\ Went(t, "append", 1)
      <4>1. i < task[t].side \/ i = task[t].side
        BY <2>3, <3>2 DEF Went, Clean
      <4>2. CASE i < task[t].side
        BY <2>1, <4>2 DEF Clean
      <4>3. CASE i = task[t].side
        <5>1. /\ Key(t) \in Keys /\ task[t].held[i] \in Names
              /\ Attempts(t) = deque[Key(t)][task[t].held[i]] /\ Attempts(t) \in Seq(Ages)
          BY <1>0, <2>1, <4>3, AttemptsFacts DEF Attempts
        <5>2. Fresh(Attempts(t))
          BY <1>0, <3>2, <5>1, FreshFacts DEF OldestFirst
        <5> QED BY <2>1, <4>3, <5>1, <5>2 DEF Key
      <4> QED BY <4>1, <4>2, <4>3
    <3> QED BY <2>1, <3>1, <3>2
  <2> QED BY <1>4, <2>1, <2>2, <2>3
<1>10. ASSUME NEW t \in Workers, PopLeft(t) PROVE Pruned'
  <2>1. /\ task[t] # None /\ task[t].next = "popping" /\ Attempts(t) # <<>>
        /\ Went(t, "prune", task[t].side)
    BY <1>0, <1>10, PopLeftEffect
  <2>2. /\ Same(t) /\ task'[t] # None
        /\ task'[t].keys = task[t].keys /\ task'[t].held = task[t].held
        /\ \A i \in 1 .. 2 : Clean(task', t, i) => Clean(task, t, i)
    BY <2>1 DEF Went, Clean
  <2>3. ASSUME NEW k \in Keys, NEW n \in Names, Fresh(deque[k][n])
        PROVE  Fresh(deque'[k][n])
    <3>1. CASE k = Key(t) /\ n = task[t].held[task[t].side]
      <4>1. deque'[k][n] = Tail(deque[k][n]) /\ deque[k][n] # <<>>
        BY <1>0, <1>10, <2>1, <3>1, PopLeftEffect DEF Attempts
      <4> QED BY <2>3, <4>1, DequeFacts, FreshFacts
    <3>2. CASE ~ (k = Key(t) /\ n = task[t].held[task[t].side])
      BY <1>0, <1>10, <2>3, <3>2, PopLeftEffect
    <3> QED BY <3>1, <3>2
  <2> QED BY <1>4, <2>1, <2>2, <2>3
<1>11. ASSUME NEW t \in Workers, PopFails(t) PROVE Pruned'
  <2>1. Same(t) /\ task'[t] = None
    BY <1>11, PopFailsEffect DEF Ended
  <2>2. \A u \in Workers \ {t}, k \in Keys, n \in Names :
           Holds(task, u, k, n) => deque'[k][n] = deque[k][n]
    BY <1>11, PopFailsEffect, EndedHolds DEF Used
  <2> QED BY <1>4, <2>1, <2>2
<1>12. ASSUME NEW t \in Workers, AppendNow(t) PROVE Pruned'
  <2>1. task[t] # None /\ task[t].next = "append" /\ Went(t, "count", 1)
    BY <1>12, AppendEffect
  <2>2. /\ Same(t) /\ task'[t] # None
        /\ task'[t].keys = task[t].keys /\ task'[t].held = task[t].held
        /\ \A i \in 1 .. 2 : Clean(task, t, i)
    BY <2>1 DEF Went, Clean
  <2>3. ASSUME NEW k \in Keys, NEW n \in Names, Fresh(deque[k][n])
        PROVE  Fresh(deque'[k][n])
    BY <1>12, <2>3, AppendEffect, DequeFacts, FreshFacts
  <2> QED BY <1>4, <2>1, <2>2, <2>3
\* The end of a count.
<1>13. ASSUME NEW t \in Workers, task[t] # None, task[t].next = "count",
              Went(t, "count", 2) \/ Ended(t),
              \A k \in Keys, n \in Names :
                 deque'[k][n] = <<>> \/ deque'[k][n] = deque[k][n]
       PROVE  Pruned'
  <2>1. /\ Same(t)
        /\ task'[t] # None => /\ task'[t].keys = task[t].keys
                              /\ task'[t].held = task[t].held
        /\ \A i \in 1 .. 2 : Clean(task, t, i)
    BY <1>13 DEF Went, Ended, Clean
  <2>2. \A k \in Keys, n \in Names : Fresh(deque[k][n]) => Fresh(deque'[k][n])
    BY <1>13 DEF Fresh
  <2> QED BY <1>4, <1>13, <2>1, <2>2
<1>14. ASSUME NEW t \in Workers, LockOut(t) PROVE Pruned'
  <2>1. task[t] # None /\ task[t].next = "count" /\ (Went(t, "count", 2) \/ Ended(t))
    BY <1>0, <1>14, LockOutEffect
  <2>2. \A k \in Keys, n \in Names : deque'[k][n] = <<>> \/ deque'[k][n] = deque[k][n]
    BY <1>0, <1>14, LockOutEffect
  <2> QED BY <1>13, <2>1, <2>2
<1>15. ASSUME NEW t \in Workers, Tolerate(t) PROVE Pruned'
  <2>1. task[t] # None /\ task[t].next = "count" /\ (Went(t, "count", 2) \/ Ended(t))
    BY <1>15, TolerateEffect
  <2>2. \A k \in Keys, n \in Names : deque'[k][n] = <<>> \/ deque'[k][n] = deque[k][n]
    BY <1>15, TolerateEffect
  <2> QED BY <1>13, <2>1, <2>2
<1>16. CASE Tick
  <2>1. UNCHANGED task /\ \A u \in Workers : task[u] # None => task[u].next = "check"
    BY <1>0, <1>16, TickEffect
  <2>2. \A u \in Workers, i \in 1 .. 2 : task'[u] # None => ~Clean(task', u, i)
    BY <2>1 DEF Clean
  <2> QED BY <1>2, <2>2
<1> QED BY <1>5, <1>6, <1>7, <1>8, <1>9, <1>10, <1>11, <1>12, <1>14, <1>15, <1>16 DEF Next

LEMMA PaidFirstStep ==
    ASSUME TypeOK, Inv, Next
    PROVE  PaidFirst'
<1>0. Holding /\ OldestFirst
  BY DEF Inv
<1> DEFINE Paid(l, m, c) == \A i \in 1 .. Len(l) - m : l[i] + c >= Lockout
<1>1. \A k \in Keys : /\ log[k] \in Seq(0 .. Window) /\ Ordered(log[k])
                      /\ Len(log[k]) \in Nat /\ \A i \in 1 .. Len(log[k]) : log[k][i] \in 0 .. Window
                      /\ unpaid[k] \in Nat /\ unpaid[k] <= Len(log[k])
                      /\ lock[k] \in 0 .. Lockout
                      /\ Paid(log[k], unpaid[k], lock[k])
  <2>1. \A k \in Keys : /\ Ordered(log[k])
                        /\ unpaid[k] \in Nat /\ unpaid[k] <= Len(log[k])
                        /\ lock[k] \in 0 .. Lockout
    BY <1>0 DEF TypeOK, OldestFirst
  <2>2. \A k \in Keys : Paid(log[k], unpaid[k], lock[k])
    BY DEF Inv, PaidFirst
  <2> HIDE DEF Paid
  <2> QED BY <2>1, <2>2, DequeFacts
<1>2. ASSUME \A k \in Keys : Paid(log'[k], unpaid'[k], lock'[k]) PROVE PaidFirst'
  BY <1>2 DEF PaidFirst
<1>3. ASSUME UNCHANGED <<log, unpaid, lock>> PROVE PaidFirst'
  BY <1>3 DEF Inv, PaidFirst
<1>4. ASSUME NEW t \in Workers,
             (\E i \in Ips, u \in Users : Attempt(t, i, u)) \/ Fail(t) \/ Prune(t)
      PROVE  PaidFirst'
  BY <1>0, <1>3, <1>4, QuietSteps DEF Quiet
<1>5. ASSUME NEW t \in Workers, Succeed(t) PROVE PaidFirst'
  <2>1. ASSUME NEW k \in Keys PROVE Paid(log'[k], unpaid'[k], lock'[k])
    <3>1. CASE Mine(t, k)
      <4>1. log'[k] = <<>> /\ unpaid'[k] = 0
        BY <1>5, <3>1, SucceedEffect
      <4> QED BY <4>1
    <3>2. CASE ~Mine(t, k)
      <4>1. log'[k] = log[k] /\ unpaid'[k] = unpaid[k] /\ lock'[k] = lock[k]
        BY <1>5, <3>2, SucceedEffect
      <4> QED BY <1>1, <4>1
    <3> QED BY <3>1, <3>2
  <2> QED BY <1>2, <2>1
<1>6. ASSUME NEW t \in Workers, LookUp(t) PROVE PaidFirst'
  BY <1>3, <1>6, LookUpEffect
<1>7. ASSUME NEW t \in Workers, PopLeft(t) PROVE PaidFirst'
  BY <1>0, <1>3, <1>7, PopLeftEffect
<1>8. ASSUME NEW t \in Workers, PopFails(t) PROVE PaidFirst'
  BY <1>3, <1>8, PopFailsEffect
<1>9. ASSUME NEW t \in Workers, AppendNow(t) PROVE PaidFirst'
  <2>1. ASSUME NEW k \in Keys PROVE Paid(log'[k], unpaid'[k], lock'[k])
    <3>0. lock'[k] = lock[k]
      BY <1>9, AppendEffect
    <3>1. CASE Mine(t, k)
      <4> DEFINE L == Len(log[k])
                 l == log'[k]
      <4>1. l = Append(log[k], 0) /\ unpaid'[k] = unpaid[k] + 1
        BY <1>9, <3>1, AppendEffect
      <4>2. Len(l) = L + 1 /\ \A i \in 1 .. L : l[i] = log[k][i]
        BY <1>1, <4>1
      <4>3. L \in Nat /\ unpaid[k] \in Nat
        BY <1>1
      <4>4. \A i \in 1 .. L - unpaid[k] : log[k][i] + lock[k] >= Lockout
        BY <1>1
      <4> HIDE DEF L, l
      <4>5. ASSUME NEW i \in 1 .. L + 1 - (unpaid[k] + 1) PROVE l[i] + lock'[k] >= Lockout
        <5>1. i \in 1 .. L /\ i \in 1 .. L - unpaid[k]
          BY <4>3
        <5> QED BY <3>0, <4>2, <4>4, <5>1
      <4>6. \A i \in 1 .. Len(l) - unpaid'[k] : l[i] + lock'[k] >= Lockout
        BY <4>1, <4>2, <4>3, <4>5
      <4> QED BY <4>6 DEF l
    <3>2. CASE ~Mine(t, k)
      <4>1. log'[k] = log[k] /\ unpaid'[k] = unpaid[k]
        BY <1>9, <3>2, AppendEffect
      <4> QED BY <1>1, <3>0, <4>1
    <3> QED BY <3>1, <3>2
  <2> QED BY <1>2, <2>1
<1>10. ASSUME NEW t \in Workers, LockOut(t) PROVE PaidFirst'
  <2>0. UNCHANGED log
    BY <1>0, <1>10, LockOutEffect
  <2>1. ASSUME NEW k \in Keys PROVE Paid(log'[k], unpaid'[k], lock'[k])
    <3>1. CASE k = Key(t)
      <4>1. unpaid'[k] = 0 /\ lock'[k] = Lockout
        BY <1>0, <1>10, <3>1, LockOutEffect
      <4> QED BY <1>1, <2>0, <4>1, LoginLimiterAssumption
    <3>2. CASE k # Key(t)
      <4>1. unpaid'[k] = unpaid[k] /\ lock'[k] = lock[k]
        BY <1>0, <1>10, <3>2, LockOutEffect
      <4> QED BY <1>1, <2>0, <4>1
    <3> QED BY <3>1, <3>2
  <2> QED BY <1>2, <2>1
<1>11. ASSUME NEW t \in Workers, Tolerate(t) PROVE PaidFirst'
  BY <1>3, <1>11, TolerateEffect
<1>12. CASE Tick
  <2>1. ASSUME NEW k \in Keys PROVE Paid(log'[k], unpaid'[k], lock'[k])
    <3> DEFINE l == log[k]
               L == Len(l)
               r == log'[k]
               R == Len(r)
               m == unpaid[k]
               p == unpaid'[k]
               c == lock[k]
    <3>1. /\ r = Recent(l) /\ p = (IF m > R THEN R ELSE m)
          /\ lock'[k] = IF c = 0 THEN 0 ELSE c - 1
      BY <1>0, <1>12, TickEffect
    <3>2. l \in Seq(0 .. Window) /\ Ordered(l)
      BY <1>1
    <3>3. PICK over \in 0 .. L :
             /\ \A i \in 1 .. over : l[i] >= Window
             /\ \A i \in over + 1 .. L : l[i] < Window
             /\ r = [i \in 1 .. L - over |-> l[i + over] + 1]
      BY <3>1, <3>2, RecentIsSuffix
    <3>4. L \in Nat /\ over \in Nat /\ over <= L /\ R = L - over
      <4>1. L \in Nat
        BY <1>1
      <4> QED BY <3>3, <4>1
    <3>5. \A i \in 1 .. R : r[i] = l[i + over] + 1
      BY <3>3, <3>4
    <3>6. /\ m \in Nat /\ c \in Nat
          /\ \A i \in 1 .. L : l[i] \in 0 .. Window
          /\ \A i \in 1 .. L - m : l[i] + c >= Lockout
      BY <1>1, LoginLimiterAssumption
    <3> HIDE DEF l, L, r, R, m, c
    <3>7. ASSUME NEW i \in 1 .. R - p PROVE r[i] + lock'[k] >= Lockout
      <4>0. R \in Nat
        BY <3>4
      <4>1. p = m
        BY <3>1, <3>6, <3>7, <4>0
      <4> HIDE DEF p
      <4>2. i \in 1 .. R /\ i + over \in 1 .. L - m /\ i + over \in 1 .. L
        BY <3>4, <3>6, <4>1
      <4>3. l[i + over] + c >= Lockout /\ l[i + over] \in 0 .. Window
        BY <3>6, <4>2
      <4>4. c # 0
        BY <4>3, LoginLimiterAssumption
      <4>5. r[i] = l[i + over] + 1 /\ lock'[k] = c - 1
        BY <3>1, <3>5, <4>2, <4>4
      <4> QED BY <3>6, <4>3, <4>5, LoginLimiterAssumption
    <3> QED BY <3>7 DEF r, R
  <2> QED BY <1>2, <2>1
<1> QED BY <1>4, <1>5, <1>6, <1>7, <1>8, <1>9, <1>10, <1>11, <1>12 DEF Next

-----------------------------------------------------------------------------
(* The limit.                                                              *)

LEMMA Threads ==
    ASSUME NEW S \in SUBSET Workers
    PROVE  /\ IsFiniteSet(S) /\ Cardinality(S) \in Nat /\ Cardinality(Workers) \in Nat
           /\ Cardinality(S) <= Cardinality(Workers)
           /\ \A R \in SUBSET S : Cardinality(R) \in Nat /\ Cardinality(R) <= Cardinality(S)
           /\ \A t : Cardinality(S \cup {t}) = IF t \in S THEN Cardinality(S)
                                                          ELSE Cardinality(S) + 1
           /\ \A R \in SUBSET Workers : R \cap S = {} =>
                 Cardinality(R) + Cardinality(S) <= Cardinality(Workers)
<1>1. /\ IsFiniteSet(S) /\ Cardinality(S) \in Nat /\ Cardinality(Workers) \in Nat
      /\ Cardinality(S) <= Cardinality(Workers)
  BY FS_Subset, FS_CardinalityType, LoginLimiterAssumption
<1>2. \A R \in SUBSET S : Cardinality(R) \in Nat /\ Cardinality(R) <= Cardinality(S)
  BY <1>1, FS_Subset, FS_CardinalityType
<1>3. \A t : Cardinality(S \cup {t}) = IF t \in S THEN Cardinality(S) ELSE Cardinality(S) + 1
  BY <1>1, FS_AddElement
<1>4. ASSUME NEW R \in SUBSET Workers, R \cap S = {}
      PROVE  Cardinality(R) + Cardinality(S) <= Cardinality(Workers)
  <2>1. IsFiniteSet(R) /\ Cardinality(R) \in Nat
    BY FS_Subset, FS_CardinalityType, LoginLimiterAssumption
  <2>2. Cardinality(R \cup S) = Cardinality(R) + Cardinality(S) - Cardinality(R \cap S)
    BY <1>1, <2>1, FS_Union
  <2>3. Cardinality(R \cap S) = 0
    BY <1>4, FS_EmptySet
  <2>4. Cardinality(R \cup S) <= Cardinality(Workers)
    <3>1. R \cup S \in SUBSET Workers
      OBVIOUS
    <3> QED BY <3>1, FS_Subset, LoginLimiterAssumption
  <2> QED BY <1>1, <2>1, <2>2, <2>3, <2>4
<1> QED BY <1>1, <1>2, <1>3, <1>4

\* Counting and Coming in state w of the tasks.
CountingIn(w, k, n) ==
    {t \in Workers : /\ w[t] # None /\ w[t].next = "count"
                     /\ \E i \in w[t].side .. 2 : w[t].keys[i] = k /\ w[t].held[i] = n}
ComingIn(w, k) ==
    {t \in Workers : /\ w[t] # None /\ w[t].next # "count"
                     /\ \E i \in 1 .. 2 : w[t].keys[i] = k}

LEMMA LimitsNow ==
    Limits <=>
       /\ \A k \in Keys, n \in Names :
             Len(deque[k][n]) < MaxAttempts + Cardinality(CountingIn(task, k, n))
       /\ \A k \in Keys \ raced : lock[k] > 0 =>
             Len(log[k]) + Cardinality(ComingIn(task, k)) < MaxAttempts + Cardinality(Workers)
BY DEF Limits, Counting, Coming, At, CountingIn, ComingIn

LEMMA LimitsThen ==
    Limits' <=>
       /\ \A k \in Keys, n \in Names :
             Len(deque'[k][n]) < MaxAttempts + Cardinality(CountingIn(task', k, n))
       /\ \A k \in Keys \ raced' : lock'[k] > 0 =>
             Len(log'[k]) + Cardinality(ComingIn(task', k)) < MaxAttempts + Cardinality(Workers)
BY DEF Limits, Counting, Coming, At, CountingIn, ComingIn

LEMMA CountingKept ==
    ASSUME NEW t \in Workers, Same(t), task[t] # None => task[t].next # "count"
    PROVE  \A k, n : CountingIn(task, k, n) \subseteq CountingIn(task', k, n)
<1>1. ASSUME NEW k, NEW n, NEW u \in CountingIn(task, k, n) PROVE u \in CountingIn(task', k, n)
  <2>1. u \in Workers /\ u # t
    BY <1>1 DEF CountingIn
  <2>2. task'[u] = task[u]
    BY <2>1 DEF Same
  <2> QED BY <2>2 DEF CountingIn
<1> QED BY <1>1

\* A thread that comes to the end of its count of key(t) leaves no other.
LEMMA CountingLeft ==
    ASSUME TypeOK, NEW t \in Workers, task[t] # None, task[t].next = "count",
           \/ task[t].side = 1 /\ Went(t, "count", 2)
           \/ task[t].side = 2 /\ Ended(t),
           NEW k, NEW n, ~ (k = Key(t) /\ n = task[t].held[task[t].side])
    PROVE  CountingIn(task, k, n) \subseteq CountingIn(task', k, n)
<1>1. ASSUME NEW u \in CountingIn(task, k, n) PROVE u \in CountingIn(task', k, n)
  <2>1. CASE u # t
    <3>1. task'[u] = task[u]
      BY <1>1, <2>1 DEF Went, Ended, Same, CountingIn
    <3> QED BY <3>1 DEF CountingIn
  <2>2. CASE u = t
    <3>1. PICK i \in task[t].side .. 2 : task[t].keys[i] = k /\ task[t].held[i] = n
      BY <1>1, <2>2 DEF CountingIn
    <3>2. i # task[t].side
      BY <3>1 DEF Key
    <3>3. task[t].side = 1 /\ i = 2 /\ Went(t, "count", 2)
      BY <3>1, <3>2
    <3>4. 2 \in 2 .. 2
      OBVIOUS
    <3>5. /\ task'[t] # None /\ task'[t].next = "count" /\ task'[t].side = 2
          /\ task'[t].keys[2] = k /\ task'[t].held[2] = n
      BY <3>1, <3>3 DEF Went
    <3> QED BY <2>2, <3>4, <3>5 DEF CountingIn
  <2> QED BY <2>1, <2>2
<1> QED BY <1>1

LEMMA ComingKept ==
    ASSUME NEW t \in Workers, Same(t), NEW k,
           /\ task'[t] # None /\ task'[t].next # "count"
           /\ \E i \in 1 .. 2 : task'[t].keys[i] = k
           => task[t] # None /\ task[t].next # "count" /\ task'[t].keys = task[t].keys
    PROVE  ComingIn(task', k) \subseteq ComingIn(task, k)
<1>1. ASSUME NEW u \in ComingIn(task', k) PROVE u \in ComingIn(task, k)
  <2>1. CASE u = t
    BY <1>1, <2>1 DEF ComingIn
  <2>2. CASE u # t
    <3>1. task'[u] = task[u]
      BY <1>1, <2>2 DEF Same, ComingIn
    <3> QED BY <1>1, <3>1 DEF ComingIn
  <2> QED BY <2>1, <2>2
<1> QED BY <1>1

\* While a key is not locked out all its failures are unpaid, and in its deque.
LEMMA UnlockedIsUnpaid ==
    ASSUME TypeOK, Inv, NEW k \in Keys \ raced, lock[k] = 0
    PROVE  /\ Len(log[k]) = unpaid[k]
           /\ at[k] = None => Len(log[k]) = 0
           /\ at[k] # None => at[k] \in Names /\ Len(log[k]) <= Len(deque[k][at[k]])
<1> DEFINE L == Len(log[k])
<1>1. unpaid[k] \in Nat /\ unpaid[k] <= L /\ L \in Nat
  BY DequeFacts DEF TypeOK
<1>2. \A i \in 1 .. L : log[k][i] \in 0 .. Window
  BY DequeFacts
<1>3. \A i \in 1 .. L - unpaid[k] : log[k][i] + 0 >= Lockout
  BY DEF Inv, PaidFirst
<1> HIDE DEF L
<1>4. L = unpaid[k]
  <2> SUFFICES ASSUME unpaid[k] < L PROVE FALSE
    BY <1>1
  <2>1. 1 \in 1 .. L - unpaid[k] /\ 1 \in 1 .. L
    BY <1>1
  <2> QED BY <1>2, <1>3, <2>1, LoginLimiterAssumption
<1>5. /\ at[k] = None => unpaid[k] = 0
      /\ at[k] # None => unpaid[k] <= Len(deque[k][at[k]])
  BY DEF Inv, NothingLost
<1> QED BY <1>4, <1>5 DEF TypeOK, L

LEMMA LimitsStep ==
    ASSUME TypeOK, Inv, Next
    PROVE  Limits'
<1>0. Holding /\ OneDeque /\ OldestFirst /\ Limits
  BY DEF Inv
<1> DEFINE A(k, n) == Cardinality(CountingIn(task, k, n))
           B(k, n) == Cardinality(CountingIn(task', k, n))
           C(k) == Cardinality(ComingIn(task, k))
           D(k) == Cardinality(ComingIn(task', k))
           W == Cardinality(Workers)
           Short(k, n) == Len(deque'[k][n]) < MaxAttempts + B(k, n)
           Few(k) == Len(log'[k]) + D(k) < MaxAttempts + W
<1>1. /\ \A k, n : A(k, n) \in Nat /\ B(k, n) \in Nat
      /\ \A k : C(k) \in Nat /\ D(k) \in Nat /\ D(k) <= W
      /\ W \in Nat
  <2>1. /\ \A k, n : /\ CountingIn(task, k, n) \in SUBSET Workers
                     /\ CountingIn(task', k, n) \in SUBSET Workers
        /\ \A k : /\ ComingIn(task, k) \in SUBSET Workers
                  /\ ComingIn(task', k) \in SUBSET Workers
        /\ {} \in SUBSET Workers
    BY DEF CountingIn, ComingIn
  <2> QED BY <2>1, Threads
<1>2. /\ \A k, n : CountingIn(task, k, n) \subseteq CountingIn(task', k, n) => A(k, n) <= B(k, n)
      /\ \A k : ComingIn(task', k) \subseteq ComingIn(task, k) => D(k) <= C(k)
  <2>1. \A k, n : CountingIn(task', k, n) \in SUBSET Workers
    BY DEF CountingIn
  <2>2. \A k : ComingIn(task, k) \in SUBSET Workers
    BY DEF ComingIn
  <2> QED BY <2>1, <2>2, Threads
<1>3. /\ \A k \in Keys, n \in Names : /\ Len(deque[k][n]) \in Nat
                                      /\ Len(deque[k][n]) < MaxAttempts + A(k, n)
      /\ \A k \in Keys : Len(log[k]) \in Nat
      /\ \A k \in Keys \ raced : lock[k] > 0 => Len(log[k]) + C(k) < MaxAttempts + W
      /\ MaxAttempts \in Nat \ {0}
  <2>1. \A k \in Keys, n \in Names : Len(deque[k][n]) < MaxAttempts + A(k, n)
    BY <1>0, LimitsNow
  <2>2. \A k \in Keys \ raced : lock[k] > 0 => Len(log[k]) + C(k) < MaxAttempts + W
    BY <1>0, LimitsNow
  <2> QED BY <2>1, <2>2, DequeFacts, LoginLimiterAssumption
<1>4. ASSUME \A k \in Keys, n \in Names : Short(k, n),
             \A k \in Keys \ raced' : lock'[k] > 0 => Few(k)
      PROVE  Limits'
  BY <1>4, LimitsThen
\* What changes nothing about the limits.
<1>5. ASSUME NEW k \in Keys, NEW n \in Names,
             Cleared(k, n) \/ (Kept(k, n) /\ CountingIn(task, k, n) \subseteq CountingIn(task', k, n))
      PROVE  Short(k, n)
  <2>1. CASE Cleared(k, n)
    <3>1. Len(deque'[k][n]) = 0 /\ B(k, n) \in Nat
      BY <1>1, <2>1 DEF Cleared
    <3> HIDE DEF B
    <3> QED BY <1>3, <3>1
  <2>2. CASE Kept(k, n) /\ CountingIn(task, k, n) \subseteq CountingIn(task', k, n)
    <3>1. A(k, n) <= B(k, n) /\ A(k, n) \in Nat /\ B(k, n) \in Nat
      BY <1>1, <1>2, <2>2
    <3>2. Len(deque'[k][n]) = Len(deque[k][n])
      BY <2>2 DEF Kept
    <3>3. Len(deque[k][n]) \in Nat /\ Len(deque[k][n]) < MaxAttempts + A(k, n)
      BY <1>3
    <3> HIDE DEF A, B
    <3> QED BY <1>3, <3>1, <3>2, <3>3
  <2> QED BY <1>5, <2>1, <2>2
<1>6. ASSUME NEW k \in Keys \ raced, lock[k] > 0, log'[k] = log[k],
             ComingIn(task', k) \subseteq ComingIn(task, k)
      PROVE  Few(k)
  <2>1. D(k) <= C(k) /\ C(k) \in Nat /\ D(k) \in Nat
    BY <1>1, <1>2, <1>6
  <2>2. Len(log[k]) \in Nat /\ Len(log[k]) + C(k) < MaxAttempts + W
    BY <1>3, <1>6
  <2> HIDE DEF C, D, W
  <2> QED BY <1>1, <1>3, <1>6, <2>1, <2>2
<1> HIDE DEF A, B, C, D, W, Short, Few
<1>7. ASSUME NEW t \in Workers, NEW i \in Ips, NEW v \in Users, Attempt(t, i, v)
      PROVE  Limits'
  <2>1. /\ task[t] = None /\ Same(t) /\ UNCHANGED <<deque, lock, log, raced>>
        /\ \A j \in 1 .. 2 : lock[task'[t].keys[j]] = 0
    BY <1>7, AttemptEffect
  <2>2. \A k \in Keys, n \in Names : Short(k, n)
    BY <1>5, <2>1, CountingKept DEF Kept
  <2>3. \A k : lock[k] > 0 => ~ \E j \in 1 .. 2 : task'[t].keys[j] = k
    BY <2>1
  <2>4. \A k \in Keys \ raced : lock[k] > 0 => Few(k)
    BY <1>6, <2>1, <2>3, ComingKept
  <2> QED BY <1>4, <2>1, <2>2, <2>4
<1>8. ASSUME NEW t \in Workers, Succeed(t) PROVE Limits'
  <2>1. Ended(t) /\ task[t].next = "check"
    BY <1>8, SucceedEffect
  <2>2. Same(t) /\ task'[t] = None
    BY <2>1 DEF Ended
  <2>3. \A k \in Keys, n \in Names : Cleared(k, n) \/ Kept(k, n)
    BY <1>8, SucceedEffect DEF Cleared, Kept
  <2>4. \A k \in Keys, n \in Names : Short(k, n)
    BY <1>5, <2>1, <2>2, <2>3, CountingKept
  <2>5. ASSUME NEW k \in Keys \ raced', lock'[k] > 0 PROVE Few(k)
    <3>1. k \notin raced /\ log'[k] = log[k] /\ lock'[k] = lock[k]
      BY <1>8, <2>5, SucceedEffect
    <3> QED BY <1>6, <2>2, <2>5, <3>1, ComingKept
  <2> QED BY <1>4, <2>4, <2>5
\* A step of a thread that is not yet to count, and adds nothing.
<1>9. ASSUME NEW t \in Workers, task[t] # None, task[t].next # "count", Same(t),
             task'[t] # None => task'[t].keys = task[t].keys,
             \A k \in Keys, n \in Names : Cleared(k, n) \/ Kept(k, n),
             UNCHANGED <<lock, log>>, raced \subseteq raced'
      PROVE  Limits'
  <2>1. \A k \in Keys, n \in Names : Short(k, n)
    BY <1>5, <1>9, CountingKept
  <2>2. \A k \in Keys \ raced' : lock[k] > 0 => Few(k)
    BY <1>6, <1>9, ComingKept
  <2> QED BY <1>4, <1>9, <2>1, <2>2
<1>10. ASSUME NEW t \in Workers, Fail(t) PROVE Limits'
  BY <1>9, <1>10, FailEffect DEF Went, Kept
<1>11. ASSUME NEW t \in Workers, LookUp(t) PROVE Limits'
  <2>1. /\ task[t] # None /\ task[t].next = "look up" /\ Same(t)
        /\ task'[t].keys = task[t].keys /\ UNCHANGED <<deque, lock, log, raced>>
    BY <1>11, LookUpEffect
  <2>2. \A k \in Keys, n \in Names : Kept(k, n)
    BY <2>1 DEF Kept
  <2> QED BY <1>9, <2>1, <2>2
<1>12. ASSUME NEW t \in Workers, Prune(t) PROVE Limits'
  <2>1. /\ task[t] # None /\ task[t].next \in {"prune", "peek"}
        /\ UNCHANGED <<deque, lock, log, raced>>
        /\ \E s, j : Went(t, s, j)
    BY <1>0, <1>12, PruneEffect
  <2>2. Same(t) /\ task'[t].keys = task[t].keys
    BY <2>1 DEF Went
  <2>3. \A k \in Keys, n \in Names : Kept(k, n)
    BY <2>1 DEF Kept
  <2> QED BY <1>9, <2>1, <2>2, <2>3
<1>13. ASSUME NEW t \in Workers, PopLeft(t) PROVE Limits'
  <2>1. /\ task[t] # None /\ task[t].next = "popping" /\ Attempts(t) # <<>>
        /\ Went(t, "prune", task[t].side) /\ UNCHANGED <<lock, log>> /\ raced \subseteq raced'
    BY <1>0, <1>13, PopLeftEffect
  <2>2. Same(t) /\ task'[t].keys = task[t].keys
    BY <2>1 DEF Went
  <2>3. ASSUME NEW k \in Keys, NEW n \in Names PROVE Short(k, n)
    <3>1. CASE k = Key(t) /\ n = task[t].held[task[t].side]
      <4>1. deque'[k][n] = Tail(deque[k][n]) /\ deque[k][n] # <<>> /\ deque[k][n] \in Seq(Ages)
        BY <1>0, <1>13, <2>1, <3>1, PopLeftEffect, DequeFacts DEF Attempts
      <4>2. Len(deque'[k][n]) = Len(deque[k][n]) - 1
        BY <4>1
      <4>3. A(k, n) <= B(k, n)
        BY <1>2, <2>1, <2>2, CountingKept DEF A, B
      <4>4. A(k, n) \in Nat /\ B(k, n) \in Nat
        BY <1>1
      <4> QED BY <1>3, <4>2, <4>3, <4>4 DEF Short
    <3>2. CASE ~ (k = Key(t) /\ n = task[t].held[task[t].side])
      <4>1. Kept(k, n)
        BY <1>0, <1>13, <3>2, PopLeftEffect DEF Kept
      <4> QED BY <1>5, <2>1, <2>2, <4>1, CountingKept
    <3> QED BY <3>1, <3>2
  <2>4. \A k \in Keys \ raced' : lock[k] > 0 => Few(k)
    BY <1>6, <2>1, <2>2, ComingKept
  <2> QED BY <1>4, <2>1, <2>3, <2>4
<1>14. ASSUME NEW t \in Workers, PopFails(t) PROVE Limits'
  <2>1. /\ task[t] # None /\ task[t].next \in {"peek", "popping"} /\ Ended(t)
        /\ UNCHANGED <<lock, log>> /\ raced \subseteq raced'
    BY <1>14, PopFailsEffect
  <2>2. \A k \in Keys, n \in Names : Cleared(k, n) \/ Kept(k, n)
    BY <1>14, PopFailsEffect DEF Cleared, Kept
  <2> QED BY <1>9, <2>1, <2>2 DEF Ended
<1>15. ASSUME NEW t \in Workers, AppendNow(t) PROVE Limits'
  <2>1. /\ task[t] # None /\ task[t].next = "append" /\ Went(t, "count", 1)
        /\ UNCHANGED <<lock, raced>>
    BY <1>15, AppendEffect
  <2>2. /\ Same(t) /\ task'[t] # None /\ task'[t].next = "count" /\ task'[t].side = 1
        /\ task'[t].keys = task[t].keys /\ task'[t].held = task[t].held
    BY <2>1 DEF Went
  <2>3. ASSUME NEW k \in Keys, NEW n \in Names PROVE Short(k, n)
    <3>1. CountingIn(task, k, n) \subseteq CountingIn(task', k, n)
      BY <2>1, <2>2, CountingKept
    <3>2. CASE Holds(task, t, k, n)
      <4>1. t \in CountingIn(task', k, n) /\ t \notin CountingIn(task, k, n)
        BY <2>1, <2>2, <3>2 DEF Holds, CountingIn
      <4>2. CountingIn(task, k, n) \cup {t} \in SUBSET CountingIn(task', k, n)
        BY <3>1, <4>1
      <4>3. /\ CountingIn(task, k, n) \in SUBSET Workers
            /\ CountingIn(task', k, n) \in SUBSET Workers
        BY DEF CountingIn
      <4>4. Cardinality(CountingIn(task, k, n) \cup {t}) = A(k, n) + 1
        BY <4>1, <4>3, Threads DEF A
      <4>5. Cardinality(CountingIn(task, k, n) \cup {t}) <= B(k, n)
        BY <4>2, <4>3, Threads DEF B
      <4>6. deque'[k][n] = Append(deque[k][n], 0) /\ deque[k][n] \in Seq(Ages)
        BY <1>15, <3>2, AppendEffect, DequeFacts
      <4>7. Len(deque'[k][n]) = Len(deque[k][n]) + 1
        BY <4>6
      <4>8. A(k, n) \in Nat /\ B(k, n) \in Nat /\ A(k, n) + 1 <= B(k, n)
        BY <1>1, <4>4, <4>5
      <4> QED BY <1>3, <4>7, <4>8 DEF Short
    <3>3. CASE ~Holds(task, t, k, n)
      <4>1. Kept(k, n)
        BY <1>15, <3>3, AppendEffect DEF Kept
      <4> QED BY <1>5, <3>1, <4>1
    <3> QED BY <3>2, <3>3
  <2>4. ASSUME NEW k \in Keys \ raced, lock[k] > 0 PROVE Few(k)
    <3>1. ComingIn(task', k) \subseteq ComingIn(task, k)
      BY <2>1, <2>2, ComingKept
    <3>2. CASE Mine(t, k)
      <4>1. t \in ComingIn(task, k) /\ t \notin ComingIn(task', k)
        BY <2>1, <2>2, <3>2 DEF Mine, ComingIn
      <4>2. ComingIn(task', k) \cup {t} \in SUBSET ComingIn(task, k)
        BY <3>1, <4>1
      <4>3. ComingIn(task, k) \in SUBSET Workers /\ ComingIn(task', k) \in SUBSET Workers
        BY DEF ComingIn
      <4>4. Cardinality(ComingIn(task', k) \cup {t}) = D(k) + 1
        BY <4>1, <4>3, Threads DEF D
      <4>5. Cardinality(ComingIn(task', k) \cup {t}) <= C(k)
        BY <4>2, <4>3, Threads DEF C
      <4>6. log'[k] = Append(log[k], 0) /\ log[k] \in Seq(0 .. Window)
        BY <1>15, <3>2, AppendEffect, DequeFacts
      <4>7. Len(log'[k]) = Len(log[k]) + 1
        BY <4>6
      <4>8. C(k) \in Nat /\ D(k) \in Nat /\ W \in Nat /\ D(k) + 1 <= C(k)
        BY <1>1, <4>4, <4>5
      <4>9. Len(log[k]) \in Nat /\ Len(log[k]) + C(k) < MaxAttempts + W
        BY <1>3, <2>4
      <4> QED BY <1>3, <4>7, <4>8, <4>9 DEF Few
    <3>3. CASE ~Mine(t, k)
      <4>1. log'[k] = log[k]
        BY <1>15, <3>3, AppendEffect
      <4> QED BY <1>6, <2>4, <3>1, <4>1
    <3> QED BY <3>2, <3>3
  <2> QED BY <1>4, <2>1, <2>3, <2>4
\* The end of a count, of a deque that was cleared or is short.
<1>16. ASSUME NEW t \in Workers, task[t] # None, task[t].next = "count",
              \/ task[t].side = 1 /\ Went(t, "count", 2)
              \/ task[t].side = 2 /\ Ended(t),
              \A k \in Keys, n \in Names : Cleared(k, n) \/ Kept(k, n),
              Short(Key(t), task[t].held[task[t].side])
       PROVE  /\ \A k \in Keys, n \in Names : Short(k, n)
              /\ \A k : ComingIn(task', k) \subseteq ComingIn(task, k)
  <2>1. ASSUME NEW k \in Keys, NEW n \in Names PROVE Short(k, n)
    <3>1. CASE k = Key(t) /\ n = task[t].held[task[t].side]
      BY <1>16, <3>1
    <3>2. CASE ~ (k = Key(t) /\ n = task[t].held[task[t].side])
      BY <1>5, <1>16, <3>2, CountingLeft
    <3> QED BY <3>1, <3>2
  <2>2. Same(t) /\ (task'[t] # None => task'[t].next = "count")
    BY <1>16 DEF Went, Ended
  <2> QED BY <2>1, <2>2, ComingKept
<1>17. ASSUME NEW t \in Workers, Tolerate(t) PROVE Limits'
  <2>1. /\ task[t] # None /\ task[t].next = "count"
        /\ \/ task[t].side = 1 /\ Went(t, "count", 2)
           \/ task[t].side = 2 /\ Ended(t)
        /\ Len(Attempts(t)) < MaxAttempts /\ UNCHANGED <<lock, log, raced>>
    BY <1>17, TolerateEffect
  <2>2. \A k \in Keys, n \in Names : Cleared(k, n) \/ Kept(k, n)
    BY <1>17, TolerateEffect DEF Cleared, Kept
  <2> DEFINE n == task[t].held[task[t].side]
  <2>3. Key(t) \in Keys /\ n \in Names
    BY <1>0, <2>1, AttemptsFacts
  <2>4. Short(Key(t), n)
    <3>1. CASE Cleared(Key(t), n)
      BY <1>5, <2>3, <3>1
    <3>2. CASE Kept(Key(t), n)
      <4>1. Len(deque'[Key(t)][n]) < MaxAttempts /\ Len(deque'[Key(t)][n]) \in Nat
        BY <1>3, <2>1, <2>3, <3>2 DEF Attempts, Kept
      <4>2. B(Key(t), n) \in Nat
        BY <1>1
      <4> QED BY <1>3, <4>1, <4>2 DEF Short
    <3> QED BY <2>2, <2>3, <3>1, <3>2
  <2>5. /\ \A k \in Keys, m \in Names : Short(k, m)
        /\ \A k : ComingIn(task', k) \subseteq ComingIn(task, k)
    BY <1>16, <2>1, <2>2, <2>4
  <2>6. \A k \in Keys \ raced : lock[k] > 0 => Few(k)
    BY <1>6, <2>1, <2>5
  <2> QED BY <1>4, <2>1, <2>5, <2>6
<1>18. ASSUME NEW t \in Workers, LockOut(t) PROVE Limits'
  <2>1. /\ task[t] # None /\ task[t].next = "count"
        /\ \/ task[t].side = 1 /\ Went(t, "count", 2)
           \/ task[t].side = 2 /\ Ended(t)
        /\ UNCHANGED <<log, raced>>
    BY <1>0, <1>18, LockOutEffect
  <2>2. \A k \in Keys, m \in Names : Cleared(k, m) \/ Kept(k, m)
    BY <1>0, <1>18, LockOutEffect DEF Cleared, Kept
  <2> DEFINE n == task[t].held[task[t].side]
  <2>3. Key(t) \in Keys /\ n \in Names /\ Holds(task, t, Key(t), n)
    BY <1>0, <2>1, AttemptsFacts, HeldFacts
  <2>4. Short(Key(t), n)
    <3>1. Cleared(Key(t), n)
      BY <1>0, <1>18, <2>3, LockOutEffect DEF Cleared
    <3> QED BY <1>5, <2>3, <3>1
  <2> HIDE DEF n
  <2>5. /\ \A k \in Keys, m \in Names : Short(k, m)
        /\ \A k : ComingIn(task', k) \subseteq ComingIn(task, k)
    BY <1>16, <2>1, <2>2, <2>4 DEF n
  <2>6. ASSUME NEW k \in Keys \ raced, lock'[k] > 0 PROVE Few(k)
    <3>1. CASE lock[k] > 0
      BY <1>6, <2>1, <2>5, <2>6, <3>1
    <3>2. CASE ~ lock[k] > 0
      <4>1. lock[k] = 0
        BY <3>2, LoginLimiterAssumption DEF TypeOK
      <4>2. k = Key(t)
        BY <1>0, <1>18, <2>6, <3>2, LockOutEffect
      <4>3. at[k] = n /\ at[k] # None
        BY <1>0, <2>3, <2>6, <4>2, NamesAreNumbers DEF OneDeque
      <4>4. Len(log[k]) <= Len(deque[k][n])
        BY <2>6, <4>1, <4>3, UnlockedIsUnpaid
      <4>5. CountingIn(task, k, n) \cap ComingIn(task, k) = {}
        BY DEF CountingIn, ComingIn
      <4>6. CountingIn(task, k, n) \in SUBSET Workers /\ ComingIn(task, k) \in SUBSET Workers
        BY DEF CountingIn, ComingIn
      <4>7. A(k, n) + C(k) <= W
        BY <4>5, <4>6, Threads DEF A, C, W
      <4>8. D(k) <= C(k)
        BY <1>2, <2>5 DEF C, D
      <4>9. A(k, n) \in Nat /\ C(k) \in Nat /\ D(k) \in Nat /\ W \in Nat
        BY <1>1
      <4>10. /\ Len(deque[k][n]) \in Nat /\ Len(log[k]) \in Nat
             /\ Len(deque[k][n]) < MaxAttempts + A(k, n)
        BY <1>3, <2>3
      <4>11. Len(log'[k]) = Len(log[k])
        BY <2>1
      <4> QED BY <1>3, <4>4, <4>7, <4>8, <4>9, <4>10, <4>11 DEF Few
    <3> QED BY <3>1, <3>2
  <2> QED BY <1>4, <2>1, <2>5, <2>6
<1>19. CASE Tick
  <2>1. UNCHANGED task
    BY <1>0, <1>19, TickEffect
  <2>2. ASSUME NEW k \in Keys, NEW n \in Names PROVE Short(k, n)
    <3>1. Len(deque'[k][n]) = Len(deque[k][n])
      <4>1. deque'[k][n] = Older(deque[k][n]) /\ deque[k][n] \in Seq(Ages)
        BY <1>0, <1>19, TickEffect, DequeFacts
      <4> QED BY <4>1, OlderIsSeq
    <3>2. A(k, n) = B(k, n)
      BY <2>1 DEF A, B
    <3> QED BY <1>3, <3>1, <3>2 DEF Short
  <2>3. ASSUME NEW k \in Keys \ raced', lock'[k] > 0 PROVE Few(k)
    <3>1. C(k) = D(k) /\ C(k) \in Nat /\ D(k) \in Nat /\ D(k) <= W /\ W \in Nat
      BY <1>1, <2>1 DEF C, D
    <3>2. lock[k] > 0
      <4>1. lock[k] \in Nat /\ lock'[k] = IF lock[k] = 0 THEN 0 ELSE lock[k] - 1
        BY <1>0, <1>19, TickEffect, LoginLimiterAssumption DEF TypeOK
      <4> QED BY <2>3, <4>1
    <3>3. log'[k] = Recent(log[k]) /\ (k \notin raced \/ log'[k] = <<>>)
      BY <1>0, <1>19, <2>3, TickEffect
    <3>4. CASE k \notin raced
      <4>1. Len(log[k]) \in Nat /\ Len(log[k]) + C(k) < MaxAttempts + W
        BY <1>3, <3>2, <3>4
      <4>2. log[k] \in Seq(0 .. Window) /\ Ordered(log[k])
        BY <1>0, DequeFacts DEF OldestFirst
      <4>3. Len(log'[k]) \in Nat /\ Len(log'[k]) <= Len(log[k])
        BY <3>3, <4>2, RecentIsSeq
      <4> QED BY <1>3, <3>1, <4>1, <4>3 DEF Few
    <3>5. CASE log'[k] = <<>>
      <4>1. Len(log'[k]) = 0
        BY <3>5
      <4> QED BY <1>3, <3>1, <4>1 DEF Few
    <3> QED BY <3>3, <3>4, <3>5
  <2> QED BY <1>4, <2>2, <2>3
<1> QED BY <1>7, <1>8, <1>10, <1>11, <1>12, <1>13, <1>14, <1>15, <1>17, <1>18, <1>19 DEF Next

-----------------------------------------------------------------------------
(* The invariant.                                                          *)

LEMMA TypeOKStep ==
    ASSUME TypeOK, Inv, Next, Limits'
    PROVE  TypeOK'
<1>0. Holding /\ OldestFirst
  BY DEF Inv
<1> DEFINE Short == \A k \in Keys, n \in Names :
               Len(deque'[k][n]) < MaxAttempts + Cardinality(Workers)
<1>1. deque' \in Deques => Short
  <2>1. ASSUME deque' \in Deques, NEW k \in Keys, NEW n \in Names
        PROVE  Len(deque'[k][n]) < MaxAttempts + Cardinality(Workers)
    <3>1. Len(deque'[k][n]) < MaxAttempts + Cardinality(CountingIn(task', k, n))
      BY LimitsThen
    <3>2. CountingIn(task', k, n) \in SUBSET Workers
      BY DEF CountingIn
    <3>3. /\ Cardinality(CountingIn(task', k, n)) \in Nat /\ Cardinality(Workers) \in Nat
          /\ Cardinality(CountingIn(task', k, n)) <= Cardinality(Workers)
      BY <3>2, Threads
    <3>4. Len(deque'[k][n]) \in Nat
      BY <2>1 DEF Deques
    <3> QED BY <3>1, <3>3, <3>4, LoginLimiterAssumption
  <2> QED BY <2>1
<1>2. \A k \in Keys : /\ log[k] \in Seq(0 .. Window) /\ Ordered(log[k]) /\ Len(log[k]) \in Nat
                      /\ unpaid[k] \in Nat /\ unpaid[k] <= Len(log[k])
                      /\ lock[k] \in 0 .. Lockout /\ at[k] \in Names \cup {None}
  BY <1>0, DequeFacts DEF TypeOK, OldestFirst
<1> HIDE DEF Short
<1>3. ASSUME at' \in [Keys -> Names \cup {None}], lock' \in [Keys -> 0 .. Lockout],
             task' \in [Workers -> Login \cup {None}], deque' \in Deques,
             log' \in [Keys -> Seq(0 .. Window)], unpaid' \in [Keys -> Nat],
             \A k \in Keys : unpaid'[k] <= Len(log'[k]), raced' \subseteq Keys
      PROVE  TypeOK'
  BY <1>1, <1>3 DEF TypeOK, Deques, Short
<1>4. ASSUME UNCHANGED <<at, lock, log, unpaid>>, raced' \subseteq Keys,
             task' \in [Workers -> Login \cup {None}], deque' \in Deques
      PROVE  TypeOK'
  BY <1>3, <1>4 DEF TypeOK
<1>5. deque \in Deques /\ raced \subseteq Keys
  BY DequeFacts DEF TypeOK
<1>6. ASSUME NEW t \in Workers, NEW i \in Ips, NEW v \in Users, Attempt(t, i, v)
      PROVE  TypeOK'
  BY <1>4, <1>5, <1>6, AttemptEffect
<1>7. ASSUME NEW t \in Workers, Succeed(t) PROVE TypeOK'
  <2>1. /\ task' \in [Workers -> Login \cup {None}] /\ deque' \in Deques /\ raced' \subseteq Keys
        /\ \A f \in {at', lock', log', unpaid'} : f = [k \in Keys |-> f[k]]
    BY <1>7, SucceedEffect
  <2>2. \A k \in Keys :
           \/ at'[k] = None /\ lock'[k] = 0 /\ log'[k] = <<>> /\ unpaid'[k] = 0
           \/ /\ at'[k] = at[k] /\ lock'[k] = lock[k]
              /\ log'[k] = log[k] /\ unpaid'[k] = unpaid[k]
    BY <1>7, SucceedEffect
  <2>3. <<>> \in Seq(0 .. Window) /\ Len(<<>>) = 0 /\ 0 \in 0 .. Lockout
    BY LoginLimiterAssumption
  <2>4. \A k \in Keys : /\ at'[k] \in Names \cup {None} /\ lock'[k] \in 0 .. Lockout
                        /\ log'[k] \in Seq(0 .. Window) /\ unpaid'[k] \in Nat
                        /\ unpaid'[k] <= Len(log'[k])
    <3> SUFFICES ASSUME NEW k \in Keys
                 PROVE  /\ at'[k] \in Names \cup {None} /\ lock'[k] \in 0 .. Lockout
                        /\ log'[k] \in Seq(0 .. Window) /\ unpaid'[k] \in Nat
                        /\ unpaid'[k] <= Len(log'[k])
      OBVIOUS
    <3>1. CASE at'[k] = None /\ lock'[k] = 0 /\ log'[k] = <<>> /\ unpaid'[k] = 0
      BY <2>3, <3>1
    <3>2. CASE /\ at'[k] = at[k] /\ lock'[k] = lock[k]
               /\ log'[k] = log[k] /\ unpaid'[k] = unpaid[k]
      BY <1>2, <3>2
    <3> QED BY <2>2, <3>1, <3>2
  <2>5. /\ at' \in [Keys -> Names \cup {None}] /\ lock' \in [Keys -> 0 .. Lockout]
        /\ log' \in [Keys -> Seq(0 .. Window)] /\ unpaid' \in [Keys -> Nat]
    BY <2>1, <2>4
  <2> QED BY <1>3, <2>1, <2>4, <2>5
<1>8. ASSUME NEW t \in Workers, Fail(t) PROVE TypeOK'
  BY <1>4, <1>5, <1>8, FailEffect
<1>9. ASSUME NEW t \in Workers, LookUp(t) PROVE TypeOK'
  <2>1. /\ at' \in [Keys -> Names \cup {None}] /\ task' \in [Workers -> Login \cup {None}]
        /\ UNCHANGED <<deque, lock, log, unpaid, raced>>
    BY <1>9, LookUpEffect
  <2> QED BY <1>3, <1>5, <2>1 DEF TypeOK
<1>10. ASSUME NEW t \in Workers, Prune(t) PROVE TypeOK'
  BY <1>0, <1>4, <1>5, <1>10, PruneEffect
<1>11. ASSUME NEW t \in Workers, PopLeft(t) PROVE TypeOK'
  BY <1>0, <1>4, <1>11, PopLeftEffect
<1>12. ASSUME NEW t \in Workers, PopFails(t) PROVE TypeOK'
  BY <1>4, <1>12, PopFailsEffect
<1>13. ASSUME NEW t \in Workers, AppendNow(t) PROVE TypeOK'
  <2>1. /\ task' \in [Workers -> Login \cup {None}] /\ deque' \in Deques
        /\ log' \in [Keys -> Seq(0 .. Window)] /\ unpaid' \in [Keys -> Nat]
        /\ UNCHANGED <<at, lock, raced>>
    BY <1>13, AppendEffect
  <2>2. ASSUME NEW k \in Keys PROVE unpaid'[k] <= Len(log'[k])
    <3>1. \/ log'[k] = log[k] /\ unpaid'[k] = unpaid[k]
          \/ log'[k] = Append(log[k], 0) /\ unpaid'[k] = unpaid[k] + 1
      BY <1>13, AppendEffect
    <3>2. Len(Append(log[k], 0)) = Len(log[k]) + 1
      BY <1>2
    <3> QED BY <1>2, <3>1, <3>2
  <2> QED BY <1>3, <1>5, <2>1, <2>2 DEF TypeOK
<1>14. ASSUME NEW t \in Workers, LockOut(t) PROVE TypeOK'
  <2>1. /\ task' \in [Workers -> Login \cup {None}] /\ deque' \in Deques
        /\ lock' = [k \in Keys |-> IF k = Key(t) THEN Lockout ELSE lock[k]]
        /\ unpaid' = [k \in Keys |-> IF k = Key(t) THEN 0 ELSE unpaid[k]]
        /\ UNCHANGED <<at, log, raced>>
    BY <1>0, <1>14, LockOutEffect
  <2>2. lock' \in [Keys -> 0 .. Lockout] /\ unpaid' \in [Keys -> Nat]
    BY <1>2, <2>1, LoginLimiterAssumption
  <2>3. \A k \in Keys : unpaid'[k] <= Len(log'[k])
    BY <1>2, <2>1
  <2> QED BY <1>3, <1>5, <2>1, <2>2, <2>3 DEF TypeOK
<1>15. ASSUME NEW t \in Workers, Tolerate(t) PROVE TypeOK'
  BY <1>4, <1>5, <1>15, TolerateEffect
<1>16. CASE Tick
  <2>1. /\ deque' \in Deques /\ log' \in [Keys -> Seq(0 .. Window)]
        /\ lock' = [k \in Keys |-> IF lock[k] = 0 THEN 0 ELSE lock[k] - 1]
        /\ unpaid' = [k \in Keys |-> IF unpaid[k] > Len(log'[k]) THEN Len(log'[k])
                                     ELSE unpaid[k]]
        /\ raced' = {k \in raced : log'[k] # <<>>}
        /\ UNCHANGED <<at, task>>
    BY <1>0, <1>16, TickEffect
  <2>2. \A k \in Keys : Len(log'[k]) \in Nat
    BY <2>1
  <2>3. unpaid' \in [Keys -> Nat] /\ \A k \in Keys : unpaid'[k] <= Len(log'[k])
    BY <1>2, <2>1, <2>2
  <2>4. lock' \in [Keys -> 0 .. Lockout]
    BY <1>2, <2>1, LoginLimiterAssumption
  <2> QED BY <1>3, <1>5, <2>1, <2>3, <2>4 DEF TypeOK
<1> QED BY <1>6, <1>7, <1>8, <1>9, <1>10, <1>11, <1>12, <1>13, <1>14, <1>15, <1>16 DEF Next

LEMMA InvInit == Init => TypeOK /\ Inv
<1> SUFFICES ASSUME Init PROVE TypeOK /\ Inv
  OBVIOUS
<1>1. /\ at = [k \in Keys |-> None] /\ lock = [k \in Keys |-> 0]
      /\ deque = [k \in Keys |-> [n \in Names |-> <<>>]]
      /\ task = [t \in Workers |-> None] /\ log = [k \in Keys |-> <<>>]
      /\ unpaid = [k \in Keys |-> 0] /\ raced = {}
  BY DEF Init
<1>2. \A k \in Keys, n \in Names : deque[k][n] = <<>>
  BY <1>1
<1>3. MaxAttempts \in Nat \ {0} /\ Cardinality(Workers) \in Nat /\ 0 \in 0 .. Lockout
  BY NamesAreNumbers, LoginLimiterAssumption
<1>4. <<>> \in Seq(Ages) /\ <<>> \in Seq(0 .. Window) /\ Len(<<>>) = 0
  OBVIOUS
<1>5. TypeOK
  <2>1. deque \in [Keys -> [Names -> Seq(Ages)]]
    BY <1>1, <1>4
  <2>2. \A k \in Keys, n \in Names : Len(deque[k][n]) < MaxAttempts + Cardinality(Workers)
    BY <1>2, <1>3, <1>4
  <2>3. \A k \in Keys : unpaid[k] <= Len(log[k])
    BY <1>1, <1>4
  <2> QED BY <1>1, <1>3, <1>4, <2>1, <2>2, <2>3 DEF TypeOK
<1>6. Holding /\ Pruned
  BY <1>1 DEF Holding, Pruned
<1>7. OneDeque
  BY <1>1, <1>2 DEF OneDeque, Holds
<1>8. OldestFirst
  BY <1>1, <1>2, OrderedEmpty DEF OldestFirst
<1>9. NothingInvented /\ NothingLost
  BY <1>1 DEF NothingInvented, NothingLost
<1>10. PaidFirst
  BY <1>1, <1>4 DEF PaidFirst
<1>11. Limits
  <2>1. ASSUME NEW k \in Keys, NEW n \in Names
        PROVE  Len(deque[k][n]) < MaxAttempts + Cardinality(CountingIn(task, k, n))
    <3>1. CountingIn(task, k, n) \in SUBSET Workers
      BY DEF CountingIn
    <3>2. Cardinality(CountingIn(task, k, n)) \in Nat
      BY <3>1, Threads
    <3> QED BY <1>2, <1>3, <1>4, <3>2
  <2>2. \A k \in Keys : ~ lock[k] > 0
    BY <1>1
  <2> QED BY <2>1, <2>2, LimitsNow
<1> QED BY <1>5, <1>6, <1>7, <1>8, <1>9, <1>10, <1>11 DEF Inv

LEMMA InvStep == TypeOK /\ Inv /\ [Next]_vars => TypeOK' /\ Inv'
<1> SUFFICES ASSUME TypeOK, Inv, [Next]_vars PROVE TypeOK' /\ Inv'
  OBVIOUS
<1>1. CASE Next
  <2>1. Holding' /\ OneDeque' /\ OldestFirst'
    BY <1>1, HoldingStep, OneDequeStep, OldestFirstStep DEF Inv
  <2>2. NothingInvented' /\ Pruned' /\ PaidFirst' /\ Limits'
    BY <1>1, NothingInventedStep, PrunedStep, PaidFirstStep, LimitsStep
  <2>3. NothingLost' /\ TypeOK'
    BY <1>1, <2>2, NothingLostStep, TypeOKStep
  <2> QED BY <2>1, <2>2, <2>3 DEF Inv
<1>2. CASE UNCHANGED vars
  <2>1. UNCHANGED <<at, deque, lock, task, log, unpaid, raced>>
    BY <1>2 DEF vars
  <2>2. TypeOK'
    BY <2>1 DEF TypeOK
  <2>3. Holding' /\ OneDeque' /\ OldestFirst'
    <3>1. Holding'
      BY <2>1 DEF Inv, Holding
    <3>2. OneDeque'
      BY <2>1 DEF Inv, OneDeque, Used, Holds
    <3>3. OldestFirst'
      BY <2>1 DEF Inv, OldestFirst
    <3> QED BY <3>1, <3>2, <3>3
  <2>4. NothingInvented' /\ NothingLost'
    BY <2>1 DEF Inv, NothingInvented, NothingLost
  <2>5. Pruned' /\ PaidFirst'
    BY <2>1 DEF Inv, Pruned, PaidFirst
  <2>6. Limits'
    BY <2>1 DEF Inv, Limits, Counting, Coming, At
  <2> QED BY <2>2, <2>3, <2>4, <2>5, <2>6 DEF Inv
<1> QED BY <1>1, <1>2

LEMMA Invariance == Spec => [](TypeOK /\ Inv)
<1> QED BY InvInit, InvStep, PTL DEF Spec

-----------------------------------------------------------------------------
(* The theorems.                                                           *)

\* Every value has its type.  In particular a deque never holds as many times as
\* the limit and the number of threads together, so that its memory is bounded
\* (auth_service.py:28-29, 49-63).
THEOREM TypeCorrect == Spec => []TypeOK
BY Invariance, PTL

\* The invariant: without a race a key's one deque holds just the failures it
\* has not been locked out for, which are those of the lockout's end on, and
\* only threads that have yet to count can take it over the limit
\* (auth_service.py:41-82).
THEOREM Consistent == Spec => []Inv
BY Invariance, PTL

\* A key sees no more failures within the window than the limit and one for
\* every other thread, unless a race has lost one (auth_service.py:45-68, 114-123).
THEOREM FailuresAreLimited == Spec => []FailuresLimited
<1>1. TypeOK /\ Inv => FailuresLimited
  <2> SUFFICES ASSUME TypeOK, Inv, NEW k \in Keys \ raced
               PROVE  Len(log[k]) < MaxAttempts + Cardinality(Workers)
    BY DEF FailuresLimited
  <2>1. /\ Len(log[k]) \in Nat /\ Cardinality(Workers) \in Nat /\ MaxAttempts \in Nat \ {0}
        /\ lock[k] \in Nat
    BY DequeFacts, NamesAreNumbers, LoginLimiterAssumption DEF TypeOK
  <2>2. CASE lock[k] > 0
    <3>1. Limits
      BY DEF Inv
    <3>2. Len(log[k]) + Cardinality(ComingIn(task, k)) < MaxAttempts + Cardinality(Workers)
      BY <2>2, <3>1, LimitsNow
    <3>3. ComingIn(task, k) \in SUBSET Workers
      BY DEF ComingIn
    <3>4. Cardinality(ComingIn(task, k)) \in Nat
      BY <3>3, Threads
    <3> QED BY <2>1, <3>2, <3>4
  <2>3. CASE lock[k] = 0
    <3>1. CASE at[k] = None
      <4>1. Len(log[k]) = 0
        BY <2>3, <3>1, UnlockedIsUnpaid
      <4> QED BY <2>1, <4>1
    <3>2. CASE at[k] # None
      <4>1. at[k] \in Names /\ Len(log[k]) <= Len(deque[k][at[k]])
        BY <2>3, <3>2, UnlockedIsUnpaid
      <4>2. /\ Len(deque[k][at[k]]) \in Nat
            /\ Len(deque[k][at[k]]) < MaxAttempts + Cardinality(Workers)
        BY <4>1, DequeFacts DEF TypeOK
      <4> QED BY <2>1, <4>1, <4>2
    <3> QED BY <3>1, <3>2
  <2> QED BY <2>1, <2>2, <2>3
<1> QED BY <1>1, Invariance, PTL

\* A key is locked out only for as many failures within the window as the limit
\* says, none of which it was locked out for before (auth_service.py:41-68).
THEOREM LockedOutForCause == Spec => LockedForCause
<1> DEFINE Cause == \A k \in Keys \ raced : lock'[k] > lock[k] => unpaid[k] >= MaxAttempts
<1>1. TypeOK /\ Inv /\ [Next]_vars => [Cause]_vars
  <2> SUFFICES ASSUME TypeOK, Inv, Next, NEW k \in Keys \ raced, lock'[k] > lock[k]
               PROVE  unpaid[k] >= MaxAttempts
    OBVIOUS
  <2>0. Holding /\ OneDeque /\ OldestFirst
    BY DEF Inv
  <2>1. lock[k] \in Nat
    BY LoginLimiterAssumption DEF TypeOK
  <2>2. PICK t \in Workers : LockOut(t)
    <3>1. lock'[k] # lock[k]
      BY <2>1
    <3>2. ASSUME NEW t \in Workers, NEW i \in Ips, NEW v \in Users, Attempt(t, i, v)
          PROVE  FALSE
      BY <3>1, <3>2, AttemptEffect
    <3>3. ASSUME NEW t \in Workers, Succeed(t) PROVE FALSE
      <4>1. lock'[k] = 0 \/ lock'[k] = lock[k]
        BY <3>3, SucceedEffect
      <4> QED BY <2>1, <3>1, <4>1
    <3>4. ASSUME NEW t \in Workers, Fail(t) PROVE FALSE
      BY <3>1, <3>4, FailEffect
    <3>5. ASSUME NEW t \in Workers, LookUp(t) PROVE FALSE
      BY <3>1, <3>5, LookUpEffect
    <3>6. ASSUME NEW t \in Workers, Prune(t) PROVE FALSE
      BY <2>0, <3>1, <3>6, PruneEffect
    <3>7. ASSUME NEW t \in Workers, PopLeft(t) PROVE FALSE
      BY <2>0, <3>1, <3>7, PopLeftEffect
    <3>8. ASSUME NEW t \in Workers, PopFails(t) PROVE FALSE
      BY <3>1, <3>8, PopFailsEffect
    <3>9. ASSUME NEW t \in Workers, AppendNow(t) PROVE FALSE
      BY <3>1, <3>9, AppendEffect
    <3>10. ASSUME NEW t \in Workers, Tolerate(t) PROVE FALSE
      BY <3>1, <3>10, TolerateEffect
    <3>11. CASE Tick
      <4>1. lock'[k] = IF lock[k] = 0 THEN 0 ELSE lock[k] - 1
        BY <2>0, <3>11, TickEffect
      <4> QED BY <2>1, <3>1, <4>1
    <3> QED BY <3>2, <3>3, <3>4, <3>5, <3>6, <3>7, <3>8, <3>9, <3>10, <3>11 DEF Next
  <2>3. /\ task[t] # None /\ task[t].next = "count" /\ Len(Attempts(t)) >= MaxAttempts
        /\ lock' = [j \in Keys |-> IF j = Key(t) THEN Lockout ELSE lock[j]]
    BY <2>0, <2>2, LockOutEffect
  <2> DEFINE n == task[t].held[task[t].side]
             d == deque[k][n]
  <2>4. k = Key(t)
    BY <2>1, <2>3
  <2>5. n \in Names /\ Holds(task, t, k, n) /\ task[t].side \in 1 .. 2
    BY <2>0, <2>3, <2>4, AttemptsFacts, HeldFacts
  <2>6. at[k] = n /\ at[k] # None
    BY <2>0, <2>5, NamesAreNumbers DEF OneDeque
  <2>7. d = Attempts(t) /\ d \in Seq(Ages)
    BY <2>4, <2>5, DequeFacts DEF Attempts
  <2>8. \A j \in DOMAIN d : d[j] <= Window
    BY <2>3, <2>4, <2>5 DEF Inv, Pruned, Key
  <2>9. unpaid[k] <= Len(d) /\ \A j \in 1 .. Len(d) - unpaid[k] : d[j] > Window
    BY <2>6 DEF Inv, NothingLost
  <2>10. unpaid[k] \in Nat
    BY DEF TypeOK
  <2> HIDE DEF d
  <2>11. Len(d) \in Nat /\ \A j \in 1 .. Len(d) : d[j] \in 0 .. Window + 1 /\ d[j] <= Window
    BY <2>7, <2>8, LoginLimiterAssumption DEF Ages
  <2>12. unpaid[k] = Len(d)
    <3> SUFFICES ASSUME unpaid[k] < Len(d) PROVE FALSE
      BY <2>9, <2>10, <2>11
    <3>1. 1 \in 1 .. Len(d) - unpaid[k] /\ 1 \in 1 .. Len(d)
      BY <2>10, <2>11
    <3> QED BY <2>9, <2>11, <3>1, LoginLimiterAssumption
  <2> QED BY <2>3, <2>7, <2>12
<1> QED BY <1>1, Invariance, PTL DEF Spec, LockedForCause
=============================================================================
