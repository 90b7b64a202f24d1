----------------------- MODULE AutoplaySchedulerProofs -----------------------
(***************************************************************************)
(* Theorems about AutoplayScheduler, for any spots, sequences, intervals,  *)
(* grace time and number of operations.                                    *)
(***************************************************************************)
EXTENDS AutoplayScheduler, TLAPS, WellFoundedInduction

\* The row with these fields.
Row(enabled, interval, seq, index, revision, due) ==
    [enabled |-> enabled, interval |-> interval, seq |-> seq, index |-> index,
     revision |-> revision, due |-> due]

\* c has the fields of the row and no other.
Whole(c) == c = Row(c.enabled, c.interval, c.seq, c.index, c.revision, c.due)

\* What this invariant needs of the types: the row keeps its fields, and its
\* times are numbers or None.
Shape ==
    /\ Whole(cfg)
    /\ cfg.interval \in Int
    /\ cfg.due \in Int \cup {None}
    /\ job \in Int \cup {None}

IInv == Shape /\ RowJobTick

LEMMA IInvInit == Init => IInv
<1> SUFFICES ASSUME Init PROVE IInv
  OBVIOUS
<1>1. /\ Whole(cfg)
      /\ cfg.enabled = FALSE /\ cfg.due = None /\ cfg.interval \in Intervals
  BY DEF Init, Whole, Row
<1>2. job = None /\ up /\ tick = "idle"
  BY DEF Init
<1>3. cfg.interval \in Int
  <2>1. cfg.interval \in Intervals
    BY <1>1, Zenon
  <2>2. Intervals \subseteq Int
    BY SchedulerAssumption
  <2> QED BY <2>1, <2>2
<1>4. Shape
  BY <1>1, <1>2, <1>3 DEF Shape
<1>5. RowJobTick
  BY <1>1, <1>2 DEF RowJobTick, DisabledNotArmed, JobMatchesConfig, ArmedOrBroken
<1> QED
  BY <1>4, <1>5 DEF IInv

\* The row with one of its fields replaced.
LEMMA SetEnabled ==
    ASSUME NEW c, Whole(c), NEW e
    PROVE  [c EXCEPT !.enabled = e] = Row(e, c.interval, c.seq, c.index, c.revision, c.due)
<1> DEFINE row == Row(c.enabled, c.interval, c.seq, c.index, c.revision, c.due)
<1>1. [c EXCEPT !.enabled = e] = [row EXCEPT !.enabled = e]
  BY Zenon DEF Whole
<1>2. [row EXCEPT !.enabled = e] = Row(e, c.interval, c.seq, c.index, c.revision, c.due)
  BY DEF Row
<1> QED BY <1>1, <1>2, Zenon

LEMMA SetDue ==
    ASSUME NEW c, Whole(c), NEW d
    PROVE  [c EXCEPT !.due = d] = Row(c.enabled, c.interval, c.seq, c.index, c.revision, d)
<1> DEFINE row == Row(c.enabled, c.interval, c.seq, c.index, c.revision, c.due)
<1>1. [c EXCEPT !.due = d] = [row EXCEPT !.due = d]
  BY Zenon DEF Whole
<1>2. [row EXCEPT !.due = d] = Row(c.enabled, c.interval, c.seq, c.index, c.revision, d)
  BY DEF Row
<1> QED BY <1>1, <1>2, Zenon

\* Arming an enabled row and disarming a stopped one establish the invariant.
LEMMA ArmInv ==
    ASSUME NEW c, Whole(c), c.enabled = TRUE, c.interval \in Int,
           Arm(c), up' = up, up, tick' # "chosen"
    PROVE  IInv'
<1>1. cfg' = Row(TRUE, c.interval, c.seq, c.index, c.revision, c.interval)
  BY SetDue DEF Arm
<1>2. job' = c.interval
  BY DEF Arm
<1> QED BY <1>1, <1>2, SchedulerAssumption
        DEF IInv, Shape, Whole, Row, RowJobTick, DisabledNotArmed, JobMatchesConfig, ArmedOrBroken

LEMMA DisarmInv ==
    ASSUME NEW c, Whole(c), c.enabled = FALSE, c.interval \in Int,
           Disarm(c), up' = up, up, tick' # "chosen"
    PROVE  IInv'
<1>1. cfg' = Row(FALSE, c.interval, c.seq, c.index, c.revision, None)
  BY SetDue DEF Disarm
<1>2. job' = None
  BY DEF Disarm
<1> QED BY <1>1, <1>2, SchedulerAssumption
        DEF IInv, Shape, Whole, Row, RowJobTick, DisabledNotArmed, JobMatchesConfig, ArmedOrBroken

\* So does a change of the row whose refresh raises: the job is left as it was.
LEMMA RefreshInv ==
    ASSUME NEW c, Whole(c), c.enabled \in BOOLEAN, c.interval \in Int,
           job \in Int \cup {None},
           RefreshFails(c), up' = up, up, tick' # "chosen"
    PROVE  IInv'
<1> DEFINE d == IF c.enabled THEN c.interval ELSE None
<1>1. cfg' = Row(c.enabled, c.interval, c.seq, c.index, c.revision, d)
  BY SetDue DEF RefreshFails
<1>2. job' = job /\ broken' = "refresh"
  BY DEF RefreshFails
<1> QED BY <1>1, <1>2, SchedulerAssumption
        DEF IInv, Shape, Whole, Row, RowJobTick, DisabledNotArmed, JobMatchesConfig, ArmedOrBroken

LEMMA IInvStep ==
    ASSUME IInv, [Next]_vars
    PROVE  IInv'
<1> USE SchedulerAssumption
<1>1. CASE StartAutoplay
  <2> DEFINE c == [cfg EXCEPT !.enabled = TRUE]
  <2>1. c = Row(TRUE, cfg.interval, cfg.seq, cfg.index, cfg.revision, cfg.due)
    BY SetEnabled DEF IInv, Shape
  <2>2. Whole(c) /\ c.enabled = TRUE /\ c.interval \in Int
    BY <2>1 DEF Row, Whole, IInv, Shape
  <2> HIDE DEF c
  <2>3. /\ Arm(c) \/ RefreshFails(c)
        /\ up' = up /\ up /\ tick' # "chosen"
    BY <1>1 DEF StartAutoplay, LoopFree, c
  <2>4. job \in Int \cup {None}
    BY DEF IInv, Shape
  <2> QED BY <2>2, <2>3, <2>4, ArmInv, RefreshInv
<1>2. CASE StopAutoplay
  <2> DEFINE c == [cfg EXCEPT !.enabled = FALSE]
  <2>1. c = Row(FALSE, cfg.interval, cfg.seq, cfg.index, cfg.revision, cfg.due)
    BY SetEnabled DEF IInv, Shape
  <2>2. Whole(c) /\ c.enabled = FALSE /\ c.interval \in Int
    BY <2>1 DEF Row, Whole, IInv, Shape
  <2> HIDE DEF c
  <2>3. /\ Disarm(c) \/ RefreshFails(c)
        /\ up' = up /\ up /\ tick' # "chosen"
    BY <1>2 DEF StopAutoplay, LoopFree, c
  <2>4. job \in Int \cup {None}
    BY DEF IInv, Shape
  <2> QED BY <2>2, <2>3, <2>4, DisarmInv, RefreshInv
<1>3. ASSUME NEW interval \in Intervals, NEW seq \in Lineups, NEW enabled \in BOOLEAN,
             UpdateConfig(interval, seq, enabled)
      PROVE  IInv'
  <2> DEFINE c == Row(enabled, interval, seq, cfg.index, cfg.revision + 1, cfg.due)
  <2>1. Whole(c) /\ c.enabled = enabled /\ c.interval \in Int
    BY SchedulerAssumption DEF Row, Whole
  <2>2. up' = up /\ up /\ tick' = tick /\ tick # "chosen"
    BY <1>3 DEF UpdateConfig, LoopFree
  <2>3. \/ UNCHANGED <<cfg, job, broken>>
        \/ enabled = TRUE /\ Arm(c)
        \/ enabled = FALSE /\ Disarm(c)
        \/ RefreshFails(c)
    BY <1>3 DEF UpdateConfig, Row
  <2> HIDE DEF c
  <2>4. CASE UNCHANGED <<cfg, job, broken>>
    BY <2>2, <2>4 DEF IInv, Shape, RowJobTick, DisabledNotArmed, JobMatchesConfig,
            ArmedOrBroken
  <2>5. job \in Int \cup {None}
    BY DEF IInv, Shape
  <2> QED BY <2>1, <2>2, <2>3, <2>4, <2>5, ArmInv, DisarmInv, RefreshInv
<1>4. CASE ManualEnds
  <2>1. up' = up /\ up /\ tick' = tick /\ tick # "chosen"
    BY <1>4 DEF ManualEnds, LoopFree
  <2>2. CASE cfg.enabled /\ Arm(cfg)
    BY <2>1, <2>2, ArmInv DEF IInv, Shape
  <2>3. CASE UNCHANGED <<cfg, job, broken>>
    BY <2>1, <2>3 DEF IInv, Shape, RowJobTick, DisabledNotArmed, JobMatchesConfig,
            ArmedOrBroken
  <2> QED BY <1>4, <2>2, <2>3 DEF ManualEnds
<1>5. CASE SkipTick
  BY <1>5, ArmInv DEF SkipTick, Due, IInv, Shape
<1>6. CASE FinishTick
  <2>1. up' = up /\ up /\ tick' = "idle"
    BY <1>6 DEF FinishTick, IInv, RowJobTick
  <2>2. CASE cfg.enabled
    <3>1. Whole(Advanced) /\ Advanced.enabled = TRUE
      BY <2>2 DEF Advanced, Row, Whole, IInv, Shape, RowJobTick
    <3>2. Advanced.interval \in Int
      BY DEF Advanced, IInv, Shape
    <3>3. Arm(Advanced)
      BY <1>6, <2>2 DEF FinishTick
    <3> QED BY <2>1, <3>1, <3>2, <3>3, ArmInv
  <2>3. CASE ~cfg.enabled
    BY <1>6, <2>1, <2>3
       DEF FinishTick, IInv, Shape, RowJobTick, DisabledNotArmed, JobMatchesConfig,
            ArmedOrBroken
  <2> QED BY <2>2, <2>3
<1>7. CASE Clock
  <2>1. cfg' = Row(cfg.enabled, cfg.interval, cfg.seq, cfg.index, cfg.revision, Earlier(cfg.due))
    BY <1>7, SetDue DEF Clock, IInv, Shape
  <2>2. /\ job' = Earlier(job)
        /\ UNCHANGED <<up, tick, broken>>
    BY <1>7 DEF Clock
  <2>3. /\ Shape'
        /\ cfg'.enabled = cfg.enabled /\ cfg'.interval = cfg.interval
        /\ cfg'.due = Earlier(cfg.due)
    BY <2>1, <2>2 DEF Earlier, Row, Whole, IInv, Shape
  <2>4. /\ Earlier(job) = None <=> job = None
        /\ Earlier(cfg.due) = None <=> cfg.due = None
        /\ cfg.due # None => Earlier(cfg.due) <= cfg.due
    BY DEF Earlier, IInv, Shape
  <2>5. RowJobTick'
    BY <2>2, <2>3, <2>4
       DEF IInv, Shape, RowJobTick, DisabledNotArmed, JobMatchesConfig, ArmedOrBroken
  <2> QED BY <2>3, <2>5 DEF IInv
<1>8. CASE \/ ReadConfig \/ BeginManual \/ ManualStarts \/ ResetFails
           \/ (\E s \in Spots : SetActive(s))
  BY <1>8 DEF ReadConfig, BeginManual, ManualStarts, ResetFails, SetActive,
              IInv, Shape, RowJobTick, DisabledNotArmed, JobMatchesConfig,
            ArmedOrBroken
<1>9. CASE TickFails \/ TickDisabled \/ ChooseSpot \/ DropJob \/ Misfire
  BY <1>9 DEF TickFails, TickDisabled, ChooseSpot, DropJob, Misfire, Due, LoopFree,
              IInv, Shape, RowJobTick, DisabledNotArmed, JobMatchesConfig,
            ArmedOrBroken
<1>10. CASE SendTick \/ TickRaises \/ CommitFails
  BY <1>10 DEF SendTick, TickRaises, CommitFails,
               IInv, Shape, RowJobTick, DisabledNotArmed, JobMatchesConfig,
            ArmedOrBroken
<1>11. CASE Crash \/ Restart
  BY <1>11 DEF Crash, Restart, IInv, Shape, RowJobTick, DisabledNotArmed, JobMatchesConfig,
               ArmedOrBroken
<1>12. CASE UNCHANGED vars
  BY <1>12 DEF vars, IInv, Shape, RowJobTick, DisabledNotArmed, JobMatchesConfig,
            ArmedOrBroken
<1> QED
  BY <1>1, <1>2, <1>3, <1>4, <1>5, <1>6, <1>7, <1>8, <1>9, <1>10, <1>11, <1>12
     DEF Next, Admin, RunJob, RunTick

LEMMA IInvHolds == Spec => []IInv
BY IInvInit, IInvStep, PTL DEF Spec

-----------------------------------------------------------------------------
(* Types.  Induction over a sequence is done with a least counterexample.  *)

LEMMA LeastElement ==
    ASSUME NEW T \in SUBSET Nat, T # {}
    PROVE  \E n \in T : \A m \in T : n <= m
<1>1. PICK n \in T : \A m \in T : <<m, n>> \notin OpToRel(<, Nat)
  BY NatLessThanWellFounded, WFMin
<1>2. \A m \in T : ~ m < n
  BY <1>1 DEF OpToRel
<1> QED BY <1>2

\* A kept sequence is one of the same elements.
LEMMA KeptIsSeq ==
    ASSUME NEW S, NEW seq \in Seq(S), NEW A
    PROVE  Kept(seq, A) \in Seq(S)
<1> DEFINE N == Len(seq)
           Step(g, i) == IF i = 0 THEN <<>>
                         ELSE IF seq[i] \in A THEN Append(g[i - 1], seq[i])
                         ELSE g[i - 1]
           Run(g, n) == g = [i \in 0 .. n |-> Step(g, i)]
<1>1. N \in Nat /\ \A i \in 1 .. N : seq[i] \in S
  OBVIOUS
<1> HIDE DEF N
<1>2. \E g : Run(g, N)
  <2> DEFINE T == {n \in 0 .. N : ~ \E g : Run(g, n)}
  <2> HIDE DEF Run
  <2>1. SUFFICES ASSUME T # {} PROVE FALSE
    BY <1>1
  <2>2. PICK n \in T : \A m \in T : n <= m
    <3>1. T \in SUBSET Nat
      BY <1>1
    <3> HIDE DEF T
    <3> QED BY <2>1, <3>1, LeastElement
  <2>3. CASE n = 0
    <3> DEFINE h == [i \in 0 .. 0 |-> <<>>]
    <3>1. Run(h, 0)
      BY DEF Run
    <3> QED BY <3>1, <2>3
  <2>4. CASE n # 0
    <3>1. n - 1 \in 0 .. N /\ n - 1 \notin T
      BY <1>1, <2>2, <2>4
    <3>2. PICK g : Run(g, n - 1)
      BY <3>1
    <3> DEFINE h == [i \in 0 .. n |-> IF i = n THEN Step(g, n) ELSE g[i]]
    <3>3. ASSUME NEW i \in 0 .. n PROVE h[i] = Step(h, i)
      <4>1. CASE i = n
        BY <4>1, <1>1, <2>4
      <4>2. CASE i # n
        <5>0. n \in Nat /\ i \in 0 .. n - 1
          BY <4>2, <1>1
        <5>1. g[i] = Step(g, i)
          BY <5>0, <3>2 DEF Run
        <5>2. h[i] = g[i] /\ (i # 0 => h[i - 1] = g[i - 1])
          BY <4>2, <1>1
        <5> QED BY <5>1, <5>2
      <4> QED BY <4>1, <4>2
    <3>4. h = [i \in 0 .. n |-> Step(h, i)]
      <4>1. h = [i \in 0 .. n |-> h[i]]
        OBVIOUS
      <4> HIDE DEF h, Step
      <4> QED BY <4>1, <3>3
    <3> HIDE DEF h, Step
    <3> QED BY <3>4, <2>2 DEF Run
  <2> QED BY <2>3, <2>4
<1>3. ASSUME NEW g, Run(g, N) PROVE g[N] \in Seq(S)
  <2> DEFINE T == {n \in 0 .. N : g[n] \notin Seq(S)}
  <2>1. SUFFICES ASSUME T # {} PROVE FALSE
    BY <1>1
  <2>2. PICK n \in T : \A m \in T : n <= m
    <3>1. T \in SUBSET Nat
      BY <1>1
    <3> HIDE DEF T
    <3> QED BY <2>1, <3>1, LeastElement
  <2>3. g[n] = Step(g, n)
    BY <1>3, <1>1
  <2>4. n # 0 => g[n - 1] \in Seq(S)
    BY <1>1, <2>2
  <2>5. g[n] \in Seq(S)
    BY <2>3, <2>4, <1>1
  <2> QED BY <2>5
<1>4. Kept(seq, A) = (CHOOSE g : Run(g, N))[N]
  BY DEF Kept, N
<1> HIDE DEF Step
<1> QED BY <1>2, <1>3, <1>4

LEMMA PlayableIsSeq ==
    ASSUME TypeOK
    PROVE  Playable(cfg.seq) \in Seq(Spots)
<1>1. cfg.seq \in Seq(Spots)
  BY SchedulerAssumption DEF TypeOK, SchedulerConfig
<1> QED BY <1>1, KeptIsSeq DEF Playable

LEMMA DelaysAreInts ==
    /\ Delays \subseteq Int
    /\ None \notin Delays
    /\ \A i \in Intervals : i \in Delays
    /\ \A d \in Delays \cup {None} : Earlier(d) \in Delays \cup {None}
<1> USE SchedulerAssumption
<1>1. Delays \subseteq Int /\ None \notin Delays
  BY DEF Delays
<1>2. \A i \in Intervals : i \in -(Grace + 1) .. i
  OBVIOUS
<1>3. ASSUME NEW d \in Delays, d # -(Grace + 1) PROVE d - 1 \in Delays
  <2>1. PICK i \in Intervals : d \in -(Grace + 1) .. i
    BY DEF Delays
  <2>2. d - 1 \in -(Grace + 1) .. i
    BY <2>1, <1>3
  <2> QED BY <2>2 DEF Delays
<1> QED BY <1>1, <1>2, <1>3 DEF Earlier, Delays

LEMMA TypeOKInit == Init => TypeOK
<1> SUFFICES ASSUME Init PROVE TypeOK
  OBVIOUS
<1>1. cfg \in SchedulerConfig
  <2>1. /\ cfg = [enabled |-> FALSE, interval |-> cfg.interval, seq |-> cfg.seq,
                 index |-> 0, revision |-> 0, due |-> None]
        /\ cfg.interval \in Intervals /\ cfg.seq \in Lineups
    BY DEF Init
  <2>2. \A i \in Intervals, q \in Lineups :
          [enabled |-> FALSE, interval |-> i, seq |-> q, index |-> 0, revision |-> 0,
           due |-> None] \in SchedulerConfig
    BY DEF SchedulerConfig
  <2> QED BY <2>1, <2>2, Zenon
<1>2. /\ up \in BOOLEAN /\ job = None /\ tick = "idle" /\ spot = None
      /\ active \subseteq Spots /\ form = None /\ manual = "none"
      /\ ops \in 0 .. MaxOps /\ broken = "no" /\ pos = 0 /\ last = 0
  BY SchedulerAssumption DEF Init
<1> QED BY <1>1, <1>2 DEF TypeOK

LEMMA ArmType ==
    ASSUME NEW c, c \in SchedulerConfig,
           job \in Delays \cup {None},
           Arm(c) \/ Disarm(c) \/ RefreshFails(c)
    PROVE  /\ cfg' \in SchedulerConfig
           /\ job' \in Delays \cup {None}
           /\ broken' \in {"no", "misfire", "raised", "refresh"}
BY DelaysAreInts DEF Arm, Disarm, RefreshFails, SchedulerConfig

LEMMA AdvancedType ==
    ASSUME TypeOK
    PROVE  /\ Advanced \in SchedulerConfig
           /\ Advanced.seq = cfg.seq
           /\ LET n == Len(Playable(cfg.seq))
              IN  n # 0 => Advanced.index = (cfg.index + 1) % n
<1> DEFINE n == Len(Playable(cfg.seq))
<1>1. n \in Nat
  BY PlayableIsSeq
<1>2. Advanced = IF n = 0 THEN cfg ELSE [cfg EXCEPT !.index = (cfg.index + 1) % n]
  BY DEF Advanced
<1> HIDE DEF n
<1>3. n # 0 => (cfg.index + 1) % n \in Nat
  BY <1>1 DEF TypeOK, SchedulerConfig
<1>4. /\ Advanced \in SchedulerConfig
      /\ Advanced.seq = cfg.seq
      /\ n # 0 => Advanced.index = (cfg.index + 1) % n
  BY <1>2, <1>3 DEF TypeOK, SchedulerConfig
<1> QED BY <1>4 DEF n

LEMMA TypeOKStep ==
    ASSUME TypeOK, [Next]_vars
    PROVE  TypeOK'
<1> USE SchedulerAssumption DEF TypeOK, SchedulerConfig, Spend
<1>1. CASE StartAutoplay \/ StopAutoplay
  <2>1. \E e \in BOOLEAN : LET c == [cfg EXCEPT !.enabled = e]
                             IN  Arm(c) \/ Disarm(c) \/ RefreshFails(c)
    BY <1>1 DEF StartAutoplay, StopAutoplay
  <2>2. \A e \in BOOLEAN : [cfg EXCEPT !.enabled = e] \in SchedulerConfig
    OBVIOUS
  <2>3. /\ cfg' \in SchedulerConfig
        /\ job' \in Delays \cup {None}
        /\ broken' \in {"no", "misfire", "raised", "refresh"}
    BY <2>1, <2>2, ArmType
  <2> QED BY <1>1, <2>3 DEF StartAutoplay, StopAutoplay, history
<1>2. ASSUME NEW interval \in Intervals, NEW seq \in Lineups, NEW enabled \in BOOLEAN,
             UpdateConfig(interval, seq, enabled)
      PROVE  TypeOK'
  <2> DEFINE c == [enabled |-> enabled, interval |-> interval, seq |-> seq,
                   index |-> cfg.index, revision |-> cfg.revision + 1, due |-> cfg.due]
  <2>1. c \in SchedulerConfig
    OBVIOUS
  <2>2. \/ UNCHANGED <<cfg, job, broken>>
        \/ Arm(c)
        \/ Disarm(c)
        \/ RefreshFails(c)
    BY <1>2 DEF UpdateConfig
  <2> HIDE DEF c
  <2>3. /\ cfg' \in SchedulerConfig
        /\ job' \in Delays \cup {None}
        /\ broken' \in {"no", "misfire", "raised", "refresh"}
    BY <2>1, <2>2, ArmType
  <2>4. pos' \in Nat /\ last' \in Nat
    BY <1>2 DEF UpdateConfig, history
  <2> QED BY <1>2, <2>3, <2>4 DEF UpdateConfig
<1>3. CASE ManualEnds
  <2>1. Arm(cfg) \/ UNCHANGED <<cfg, job, broken>>
    BY <1>3 DEF ManualEnds
  <2>2. /\ cfg' \in SchedulerConfig
        /\ job' \in Delays \cup {None}
        /\ broken' \in {"no", "misfire", "raised", "refresh"}
    BY <2>1, ArmType
  <2> QED BY <1>3, <2>2 DEF ManualEnds, history
<1>4. CASE SkipTick
  BY <1>4, ArmType DEF SkipTick, history
<1>5. CASE FinishTick
  <2>1. Arm(Advanced) \/ UNCHANGED <<cfg, job, broken>>
    BY <1>5 DEF FinishTick
  <2>2. /\ cfg' \in SchedulerConfig
        /\ job' \in Delays \cup {None}
        /\ broken' \in {"no", "misfire", "raised", "refresh"}
    BY <2>1, AdvancedType, ArmType
  <2> QED BY <1>5, <2>2 DEF FinishTick
<1>6. CASE ChooseSpot
  <2> DEFINE s == Playable(cfg.seq)
             i == cfg.index % Len(s)
  <2>1. s \in Seq(Spots) /\ s # <<>>
    BY <1>6, PlayableIsSeq DEF ChooseSpot
  <2>2. spot' = s[i + 1] /\ pos' = i + 1
    BY <1>6 DEF ChooseSpot
  <2> HIDE DEF s
  <2>3. Len(s) \in Nat \ {0}
    BY <2>1
  <2>4. i \in 0 .. Len(s) - 1
    BY <2>3
  <2> HIDE DEF i
  <2>5. spot' \in Spots /\ pos' \in Nat
    BY <2>1, <2>2, <2>3, <2>4
  <2> QED BY <1>6, <2>5 DEF ChooseSpot
<1>7. CASE Clock
  <2>1. Earlier(job) \in Delays \cup {None} /\ Earlier(cfg.due) \in Delays \cup {None}
    BY DelaysAreInts
  <2>2. cfg' \in SchedulerConfig
    BY <1>7, <2>1 DEF Clock
  <2> QED BY <1>7, <2>1, <2>2 DEF Clock, history
<1>8. CASE \/ ReadConfig \/ BeginManual \/ ManualStarts \/ ResetFails
           \/ (\E s \in Spots : SetActive(s))
  BY <1>8 DEF ReadConfig, BeginManual, ManualStarts, ResetFails, SetActive, history
<1>9. CASE \/ TickFails \/ TickDisabled \/ DropJob \/ Misfire
           \/ SendTick \/ TickRaises \/ CommitFails
  BY <1>9 DEF TickFails, TickDisabled, DropJob, Misfire, SendTick, TickRaises, CommitFails, history
<1>10. CASE Crash \/ Restart
  <2>1. job' \in Delays \cup {None}
    <3>1. cfg.due \in Delays \cup {None}
      OBVIOUS
    <3> QED BY <1>10, <3>1 DEF Crash, Restart
  <2>2. ops' \in 0 .. MaxOps /\ last' \in Nat
    BY <1>10 DEF Crash, Restart, history
  <2> QED BY <1>10, <2>1, <2>2 DEF Crash, Restart, history
<1>11. CASE UNCHANGED vars
  BY <1>11 DEF vars, history
<1> HIDE DEF TypeOK, Spend
<1> QED
  BY <1>1, <1>2, <1>3, <1>4, <1>5, <1>6, <1>7, <1>8, <1>9, <1>10, <1>11
     DEF Next, Admin, RunJob, RunTick

\* The type invariant, with what the kept sequence returns
\* (scheduler_service.py:288-292, models/scheduler.py:12-24).
THEOREM TypeCorrect == Spec => []TypeOK
BY TypeOKInit, TypeOKStep, PTL DEF Spec

-----------------------------------------------------------------------------
(* The index and the positions played.                                      *)

\* One more, modulo n.
LEMMA NextModulo ==
    ASSUME NEW i \in Nat, NEW n \in Nat \ {0}
    PROVE  ((i + 1) % n) % n = ((i % n) + 1) % n
<1> DEFINE q == i \div n
           r == i % n
<1>1. q \in Int /\ r \in 0 .. n - 1 /\ i = n * q + r
  OBVIOUS
<1> HIDE DEF q
<1>2. ASSUME NEW p \in Int, NEW m \in 0 .. n - 1
      PROVE  (n * p + m) % n = m /\ m % n = m
  OBVIOUS
<1> SUFFICES ((i + 1) % n) % n = (r + 1) % n
  OBVIOUS
<1> HIDE DEF r
<1>3. CASE r + 1 < n
  <2>1. i + 1 = n * q + (r + 1) /\ r + 1 \in 0 .. n - 1
    BY <1>1, <1>3
  <2>2. (i + 1) % n = r + 1 /\ (r + 1) % n = r + 1
    BY <1>1, <1>2, <2>1
  <2> QED BY <2>2
<1>4. CASE r + 1 = n
  <2>1. i + 1 = n * (q + 1) + 0
    BY <1>1, <1>4
  <2>2. (i + 1) % n = 0
    BY <1>1, <1>2, <2>1
  <2>3. n % n = 0
    OBVIOUS
  <2> QED BY <1>4, <2>2, <2>3
<1> QED BY <1>1, <1>3, <1>4

LEMMA PositionsInit == Init => Positions
BY DEF Init, Positions

\* Nothing that the positions are about has changed, or they start afresh.
LEMMA PositionsKept ==
    ASSUME Positions,
           \/ /\ cfg'.seq = cfg.seq /\ cfg'.index = cfg.index /\ active' = active
              /\ pos' = pos /\ last' \in {last, 0}
           \/ pos' = 0 /\ last' = 0,
           tick' \in {tick, "idle"} \/ tick # "idle"
    PROVE  Positions'
<1>1. CASE pos' = 0 /\ last' = 0
  BY <1>1 DEF Positions
<1>2. CASE /\ cfg'.seq = cfg.seq /\ cfg'.index = cfg.index /\ active' = active
           /\ pos' = pos /\ last' \in {last, 0}
  <2>1. Playable(cfg.seq)' = Playable(cfg.seq)
    BY <1>2 DEF Playable
  <2> QED BY <1>2, <2>1 DEF Positions
<1> QED BY <1>1, <1>2

LEMMA PositionsStep ==
    ASSUME TypeOK, Positions, [Next]_vars
    PROVE  Positions'
<1>1. CASE ChooseSpot
  <2>1. Playable(cfg.seq)' = Playable(cfg.seq)
    BY <1>1 DEF ChooseSpot, Playable
  <2>2. Len(Playable(cfg.seq)) # 0
    BY <1>1, PlayableIsSeq DEF ChooseSpot
  <2>3. pos' = (cfg.index % Len(Playable(cfg.seq))) + 1 /\ last' = last /\ cfg' = cfg
    BY <1>1 DEF ChooseSpot
  <2> QED BY <2>1, <2>2, <2>3 DEF Positions
<1>2. CASE FinishTick
  <2>1. CASE ~cfg.enabled
    BY <1>2, <2>1, PositionsKept DEF FinishTick
  <2>2. CASE cfg.enabled
    <3> DEFINE n == Len(Playable(cfg.seq))
    <3>1. cfg' = [Advanced EXCEPT !.due = Advanced.interval]
      BY <1>2, <2>2 DEF FinishTick, Arm
    <3>2. cfg'.seq = cfg.seq /\ cfg'.index = Advanced.index
      BY <3>1, AdvancedType
    <3>3. Playable(cfg.seq)' = Playable(cfg.seq)
      BY <1>2, <3>2 DEF FinishTick, Playable
    <3>4. last' = pos /\ pos' = pos /\ tick' = "idle" /\ tick # "idle"
      BY <1>2, <2>2 DEF FinishTick
    <3>5. n \in Nat /\ cfg.index \in Nat /\ pos \in Nat
      BY PlayableIsSeq DEF TypeOK, SchedulerConfig
    <3>6. n # 0 => cfg'.index = (cfg.index + 1) % n
      BY <3>2, AdvancedType
    <3>7. pos # 0 => n # 0 /\ pos = (cfg.index % n) + 1
      BY <3>4 DEF Positions
    <3> HIDE DEF n
    <3>8. pos # 0 => n # 0 /\ pos % n = cfg'.index % n
      BY <3>5, <3>6, <3>7, NextModulo
    <3> QED BY <3>3, <3>4, <3>8 DEF Positions, n
  <2> QED BY <2>1, <2>2
<1>3. ASSUME NEW interval \in Intervals, NEW seq \in Lineups, NEW enabled \in BOOLEAN,
             UpdateConfig(interval, seq, enabled)
      PROVE  Positions'
  <2>1. \/ cfg'.seq = cfg.seq /\ cfg'.index = cfg.index /\ pos' = pos /\ last' = last
        \/ pos' = 0 /\ last' = 0
    BY <1>3 DEF UpdateConfig, Arm, Disarm, RefreshFails, history
  <2> QED BY <1>3, <2>1, PositionsKept DEF UpdateConfig
<1>4. CASE \/ StartAutoplay \/ StopAutoplay \/ ManualEnds \/ SkipTick \/ Clock
  <2>1. cfg'.seq = cfg.seq /\ cfg'.index = cfg.index
    BY <1>4 DEF StartAutoplay, StopAutoplay, ManualEnds, SkipTick, Clock,
              Arm, Disarm, RefreshFails, TypeOK, SchedulerConfig
  <2> QED BY <1>4, <2>1, PositionsKept
          DEF StartAutoplay, StopAutoplay, ManualEnds, SkipTick, Clock, history
<1>5. CASE \/ ReadConfig \/ BeginManual \/ ManualStarts \/ ResetFails
           \/ (\E s \in Spots : SetActive(s))
  BY <1>5, PositionsKept
     DEF ReadConfig, BeginManual, ManualStarts, ResetFails, SetActive, history
<1>6. CASE \/ TickFails \/ TickDisabled \/ DropJob \/ Misfire
           \/ SendTick \/ TickRaises \/ CommitFails
  BY <1>6, PositionsKept DEF TickFails, TickDisabled, DropJob, Misfire, SendTick, TickRaises, CommitFails, history
<1>7. CASE Crash \/ Restart \/ UNCHANGED vars
  BY <1>7, PositionsKept DEF Crash, Restart, vars, history
<1> QED
  BY <1>1, <1>2, <1>3, <1>4, <1>5, <1>6, <1>7 DEF Next, Admin, RunJob, RunTick

\* Row, job, tick and positions agree in every state
\* (scheduler_service.py:66-306).
THEOREM SchedulerConsistent == Spec => []Inv
BY IInvHolds, PositionsInit, PositionsStep, TypeCorrect, PTL DEF IInv, Inv, Spec

\* A stopped autoplay has nothing armed, whatever was under way when it was
\* stopped, unless the refresh of the stop raised
\* (scheduler_service.py:164-178, 284-287).
THEOREM StoppedStaysStopped == Spec => []DisabledNotArmed
BY IInvHolds, PTL DEF IInv, RowJobTick

\* The armed job runs at the stored next_run_at, unless the refresh of an
\* admin's change raised (scheduler_service.py:100-215).
THEOREM JobIsStored == Spec => []JobMatchesConfig
BY IInvHolds, PTL DEF IInv, RowJobTick

\* The chain of ticks breaks only by a misfire, a tick that raises at any of its
\* reads, its dispatch or its commits, or a change whose refresh raises
\* (scheduler_service.py:100-162, 244-306).
THEOREM ChainUnbroken == Spec => []ArmedOrBroken
BY IInvHolds, PTL DEF IInv, RowJobTick

\* Each tick plays the position after the one before, for any sequence and any
\* index, as long as the playable sequence stays (scheduler_service.py:270-292).
THEOREM SuccessorIsPlayed == Spec => PlaysSuccessor
<1>1. TypeOK /\ Positions /\ [Next]_vars
         => [ChooseSpot /\ last # 0
               => pos' = (last % Len(Playable(cfg.seq))) + 1]_vars
  BY DEF Positions, ChooseSpot
<1> QED BY <1>1, TypeCorrect, PositionsInit, PositionsStep, PTL DEF Spec, PlaysSuccessor
=============================================================================
