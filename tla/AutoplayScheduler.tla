-------------------------- MODULE AutoplayScheduler --------------------------
(***************************************************************************)
(* Autoplay (services/scheduler_service.py): one persisted configuration   *)
(* row, one one-shot timer job in memory, and the tick that job runs.  The *)
(* job is not periodic: each tick has to arm the next one.                 *)
(*                                                                         *)
(* Times are relative: "due" is how far next_run_at lies ahead, negative   *)
(* once it has passed, and stops counting beyond the misfire grace time.   *)
(* Every method of the service is atomic on the event loop, except that a  *)
(* tick awaits its dispatch.  Spots are also changed by worker threads.    *)
(***************************************************************************)
EXTENDS Integers, Sequences

CONSTANTS
    Spots,
    Lineups,        \* the spot sequences the admin configures
    Intervals,      \* the values of interval_minutes, in clock units
    Grace,          \* misfire_grace_time, in clock units
    MaxOps,         \* bound: operations by admins, threads and crashes
    MayCrash,       \* whether the process can be killed and restarted
    None

ASSUME SchedulerAssumption ==
    /\ Lineups \subseteq Seq(Spots)
    /\ Intervals \subseteq Nat \ {0}
    /\ Grace \in Nat
    /\ MaxOps \in Nat
    /\ MayCrash \in BOOLEAN
    /\ None \notin Int \cup Spots

VARIABLES
    up,       \* the process runs
    cfg,      \* the SchedulerConfig row
    job,      \* time to the autoplay job, or None
    tick,     \* the running _autoplay_tick: "idle", "chosen", "sent"
    spot,     \* the spot it has chosen
    active,   \* the spots whose active flag is set
    form,     \* the revision of the configuration an admin is editing, or None
    manual,   \* a manual play: "none", "sent", or "started" on some node
    ops,      \* operations left
    broken,   \* history: what set the job apart from the row, or "no"
    pos,      \* history: the position the tick under way plays
    last      \* history: the position of the last tick completed since the
              \* playable sequence last changed, or 0

history == <<pos, last>>
vars == <<up, cfg, job, tick, spot, active, form, manual, ops, broken, history>>

Delays == UNION {-(Grace + 1) .. i : i \in Intervals}

SchedulerConfig ==
    [enabled : BOOLEAN, interval : Intervals, seq : Lineups, index : Nat,
     revision : Nat, due : Delays \cup {None}]

TypeOK ==
    /\ up \in BOOLEAN
    /\ cfg \in SchedulerConfig
    /\ job \in Delays \cup {None}
    /\ tick \in {"idle", "chosen", "sent"}
    /\ spot \in Spots \cup {None}
    /\ active \subseteq Spots
    /\ form \in Nat \cup {None}
    /\ manual \in {"none", "sent", "started"}
    /\ ops \in 0 .. MaxOps
    /\ broken \in {"no", "misfire", "raised", "refresh"}
    /\ pos \in Nat
    /\ last \in Nat

\* What remains of a sequence when only the elements of S are kept (SelectSeq,
\* written as a function so that it can be reasoned about).
Kept(seq, S) ==
    LET kept[i \in 0 .. Len(seq)] ==
            IF i = 0 THEN <<>>
            ELSE IF seq[i] \in S THEN Append(kept[i - 1], seq[i])
            ELSE kept[i - 1]
    IN  kept[Len(seq)]

\* _active_sequence
Playable(seq) == Kept(seq, active)

\* The row as ensure_config creates it, once the admin has set it up.
Init ==
    /\ up = TRUE
    /\ cfg \in [enabled : {FALSE}, interval : Intervals, seq : Lineups, index : {0},
                revision : {0}, due : {None}]
    /\ job = None
    /\ tick = "idle"
    /\ spot = None
    /\ active \in SUBSET Spots
    /\ form = None
    /\ manual = "none"
    /\ ops = MaxOps
    /\ broken = "no"
    /\ pos = 0
    /\ last = 0

\* No tick is between two awaits: another coroutine may take the loop.
LoopFree == up /\ tick # "chosen"

Spend == ops > 0 /\ ops' = ops - 1

\* Mutants of Arm: the row is a unit late; the job is not replaced.
MutArmLate(c) ==
    /\ cfg' = [c EXCEPT !.due = c.interval + 1]
    /\ job' = c.interval + 1
    /\ broken' = "no"
MutArmRowOnly(c) ==
    /\ cfg' = [c EXCEPT !.due = c.interval]
    /\ job' = IF job = None THEN c.interval ELSE job
    /\ broken' = "no"

\* next_run_at = now + interval, and _schedule_next_run replaces the job.
Arm(c) ==
    /\ cfg' = [c EXCEPT !.due = c.interval]
    /\ job' = c.interval
    /\ broken' = "no"

\* next_run_at = None, and _remove_autoplay_job.
Disarm(c) ==
    /\ cfg' = [c EXCEPT !.due = None]
    /\ job' = None
    /\ broken' = "no"

\* The row is committed, but db.refresh raises before the job is touched.
RefreshFails(c) ==
    /\ cfg' = [c EXCEPT !.due = IF c.enabled THEN c.interval ELSE None]
    /\ broken' = "refresh"
    /\ UNCHANGED job

-----------------------------------------------------------------------------
(* The administration of autoplay.                                         *)

StartAutoplay ==
    /\ LoopFree /\ Spend
    /\ LET c == [cfg EXCEPT !.enabled = TRUE]
       IN  Arm(c) \/ RefreshFails(c)
    /\ UNCHANGED <<up, tick, spot, active, form, manual, history>>

StopAutoplay ==
    /\ LoopFree /\ Spend
    /\ LET c == [cfg EXCEPT !.enabled = FALSE]
       IN  Disarm(c) \/ RefreshFails(c)
    /\ UNCHANGED <<up, tick, spot, active, form, manual, history>>

\* GET: an admin opens the editor.
ReadConfig ==
    /\ up /\ Spend
    /\ form' = cfg.revision
    /\ UNCHANGED <<up, cfg, job, tick, spot, active, manual, broken, history>>

\* update_config with the revision that was read, or without one, which is
\* never refused; the history of played positions starts afresh with another
\* sequence.
UpdateConfig(interval, seq, enabled) ==
    /\ LoopFree /\ Spend
    /\ form' = None
    /\ IF form # None /\ form # cfg.revision
       THEN UNCHANGED <<cfg, job, broken, history>>
       ELSE LET c == [enabled |-> enabled, interval |-> interval, seq |-> seq,
                      index |-> cfg.index, revision |-> cfg.revision + 1, due |-> cfg.due]
            IN  /\ \/ enabled /\ Arm(c)
                   \/ ~enabled /\ Disarm(c)
                   \/ RefreshFails(c)
                /\ IF seq = cfg.seq
                   THEN UNCHANGED history
                   ELSE pos' = 0 /\ last' = 0
    /\ UNCHANGED <<up, tick, spot, active, manual>>

\* Upload, replacement, deactivation and retention of spots, in any thread.
SetActive(s) ==
    /\ up /\ Spend
    /\ active' = IF s \in active THEN active \ {s} ELSE active \cup {s}
    /\ pos' = 0 /\ last' = 0
    /\ UNCHANGED <<up, cfg, job, tick, spot, form, manual, broken>>

-----------------------------------------------------------------------------
(* A manual play, as far as autoplay can tell (dispatch_play).             *)

BeginManual ==
    /\ LoopFree /\ Spend
    /\ manual = "none"
    /\ manual' = "sent"
    /\ UNCHANGED <<up, cfg, job, tick, spot, active, form, broken, history>>

\* A node has answered PLAYBACK_STARTED; other nodes are still awaited.
ManualStarts ==
    /\ LoopFree
    /\ manual = "sent"
    /\ manual' = "started"
    /\ UNCHANGED <<up, cfg, job, tick, spot, active, form, ops, broken, history>>

\* Every node has answered or timed out: reset_after_manual_play if any started.
ManualEnds ==
    /\ LoopFree
    /\ manual # "none"
    /\ manual' = "none"
    /\ IF manual = "started" /\ cfg.enabled
       THEN Arm(cfg)
       ELSE UNCHANGED <<cfg, job, broken>>
    /\ UNCHANGED <<up, tick, spot, active, form, ops, history>>

\* The reset after a manual play raises before its commit is done.
ResetFails ==
    /\ LoopFree /\ Spend
    /\ manual = "started"
    /\ manual' = "none"
    /\ UNCHANGED <<up, cfg, job, tick, spot, active, form, broken, history>>

-----------------------------------------------------------------------------
(* The tick.                                                               *)

Due == up /\ job # None /\ job <= 0 /\ job >= -Grace

\* Mutant of SkipTick: the next tick is not armed.
MutSkipForever ==
    /\ Due
    /\ tick = "idle"
    /\ cfg.enabled
    /\ Playable(cfg.seq) = <<>>
    /\ job' = None
    /\ UNCHANGED <<up, cfg, tick, spot, active, form, manual, ops, broken, history>>

\* The job runs and finds nothing it can play: try again an interval later.
SkipTick ==
    /\ Due
    /\ tick = "idle"
    /\ cfg.enabled
    /\ Playable(cfg.seq) = <<>>
    /\ Arm(cfg)
    /\ UNCHANGED <<up, tick, spot, active, form, manual, ops, history>>

\* The job runs, and a read or the commit of a skip raises.
TickFails ==
    /\ Due /\ Spend
    /\ tick = "idle"
    /\ job' = None
    /\ broken' = "raised"
    /\ UNCHANGED <<up, cfg, tick, spot, active, form, manual, history>>

\* A job that a stop has left behind runs, and sees that autoplay is stopped.
TickDisabled ==
    /\ Due
    /\ tick = "idle"
    /\ ~cfg.enabled
    /\ job' = None
    /\ UNCHANGED <<up, cfg, tick, spot, active, form, manual, ops, broken, history>>

\* The job runs and chooses a spot; the one-shot job is gone from the store.
ChooseSpot ==
    /\ Due
    /\ tick = "idle"
    /\ cfg.enabled
    /\ Playable(cfg.seq) # <<>>
    /\ LET seq == Playable(cfg.seq)
           i == cfg.index % Len(seq)
       IN  spot' = seq[i + 1] /\ pos' = i + 1
    /\ tick' = "chosen"
    /\ job' = None
    /\ UNCHANGED <<up, cfg, active, form, manual, ops, broken, last>>

\* A job due while a tick is under way is dropped (max_instances is 1).
DropJob ==
    /\ Due
    /\ tick = "sent"
    /\ job' = None
    /\ UNCHANGED <<up, cfg, tick, spot, active, form, manual, ops, broken, history>>

\* A job later than its grace time is dropped without running.
Misfire ==
    /\ LoopFree
    /\ job # None
    /\ job < -Grace
    /\ job' = None
    /\ broken' = "misfire"
    /\ UNCHANGED <<up, cfg, tick, spot, active, form, manual, ops, history>>

\* dispatch_play reads the spot again, and sends it to the target nodes.
SendTick ==
    /\ tick = "chosen"
    /\ spot \in active
    /\ tick' = "sent"
    /\ UNCHANGED <<up, cfg, job, spot, active, form, manual, ops, broken, history>>

\* The spot was deactivated in between: dispatch_play raises a 404, and so
\* does the tick.
TickRaises ==
    /\ tick = "chosen"
    /\ spot \notin active
    /\ tick' = "idle"
    /\ spot' = None
    /\ broken' = "raised"
    /\ UNCHANGED <<up, cfg, job, active, form, manual, ops, history>>

\* The tick raises after the commands are sent: the commit of dispatch_play or
\* its own failed.
CommitFails ==
    /\ tick = "sent" /\ Spend
    /\ tick' = "idle"
    /\ spot' = None
    /\ broken' = IF cfg.enabled /\ job = None THEN "raised" ELSE broken
    /\ last' = 0
    /\ UNCHANGED <<up, cfg, job, active, form, manual, pos>>

\* Mutant of Advanced: the index is not advanced.
MutNotAdvanced == cfg

\* The index moves over the sequence that is playable now.
Advanced ==
    LET n == Len(Playable(cfg.seq))
    IN  IF n = 0 THEN cfg ELSE [cfg EXCEPT !.index = (@ + 1) % n]

\* Mutants of FinishTick: enabled is not read again; nothing is armed.
MutFinishBlindly ==
    /\ tick = "sent"
    /\ tick' = "idle"
    /\ spot' = None
    /\ Arm(Advanced)
    /\ last' = pos
    /\ UNCHANGED <<up, active, form, manual, ops, pos>>
MutFinishUnarmed ==
    /\ tick = "sent"
    /\ tick' = "idle"
    /\ spot' = None
    /\ cfg' = Advanced
    /\ last' = pos
    /\ UNCHANGED <<up, job, active, form, manual, ops, broken, pos>>

\* The acknowledgements are in: advance the index and arm the next tick,
\* unless autoplay was stopped meanwhile.
FinishTick ==
    /\ tick = "sent"
    /\ tick' = "idle"
    /\ spot' = None
    /\ IF ~cfg.enabled
       THEN last' = 0 /\ UNCHANGED <<cfg, job, broken>>
       ELSE /\ Arm(Advanced)
            /\ last' = pos
    /\ UNCHANGED <<up, active, form, manual, ops, pos>>

-----------------------------------------------------------------------------
(* The process and time.                                                   *)

\* The process is killed: the row survives, the job and the coroutines do not.
Crash ==
    /\ MayCrash /\ up /\ Spend
    /\ up' = FALSE
    /\ job' = None
    /\ tick' = "idle"
    /\ spot' = None
    /\ manual' = "none"
    /\ broken' = "no"
    /\ last' = IF tick = "sent" THEN 0 ELSE last
    /\ UNCHANGED <<cfg, active, form, pos>>

\* initialize: an enabled configuration is armed at its stored next_run_at.
Restart ==
    /\ ~up
    /\ up' = TRUE
    /\ job' = IF cfg.enabled THEN cfg.due ELSE None
    /\ UNCHANGED <<cfg, tick, spot, active, form, manual, ops, broken, history>>

Earlier(d) == IF d = None \/ d = -(Grace + 1) THEN d ELSE d - 1

\* Time passes, but not beyond a due job the scheduler can run or drop now.
Clock ==
    /\ up => tick # "chosen" /\ (job # None => job > 0)
    /\ cfg' = [cfg EXCEPT !.due = Earlier(@)]
    /\ job' = Earlier(job)
    /\ UNCHANGED <<up, tick, spot, active, form, manual, ops, broken, history>>

-----------------------------------------------------------------------------
Admin ==
    \/ StartAutoplay \/ StopAutoplay \/ ReadConfig \/ BeginManual
    \/ \E i \in Intervals, seq \in Lineups, enabled \in BOOLEAN :
          UpdateConfig(i, seq, enabled)
    \/ \E s \in Spots : SetActive(s)

RunJob == SkipTick \/ TickDisabled \/ ChooseSpot \/ DropJob \/ Misfire
RunTick == SendTick \/ TickRaises \/ FinishTick

Next ==
    \/ Admin
    \/ ManualStarts \/ ManualEnds \/ ResetFails
    \/ RunJob
    \/ RunTick
    \/ TickFails \/ CommitFails
    \/ Crash \/ Restart
    \/ Clock

Spec == Init /\ [][Next]_vars

\* Time goes on, the scheduler runs what is due, and a dispatch ends because
\* each of its awaits has a timeout (CommandEnds of CommandDispatch).
Fairness ==
    /\ WF_vars(Clock)
    /\ WF_vars(RunJob)
    /\ WF_vars(RunTick)
    /\ WF_vars(ManualEnds)

FairSpec == Spec /\ Fairness

-----------------------------------------------------------------------------
(* Properties.                                                             *)

\* Once autoplay is stopped nothing is armed, whatever start, stop, edit,
\* manual play or tick was under way: a tick that outlives a stop arms nothing.
\* A job is left behind only by a stop or an edit whose refresh raised, and such
\* a job plays nothing (scheduler_service.py:164-178, 251, 284-287).
DisabledNotArmed ==
    ~cfg.enabled => cfg.due = None /\ (broken # "refresh" => job = None)

\* The armed job and the next_run_at the dashboard shows are the same time, no
\* further ahead than the interval the dashboard shows, even if the interval
\* was changed while a tick or a manual play was under way; but not if the
\* refresh of a start, stop or edit raised
\* (scheduler_service.py:100-215, 284-306).
JobMatchesConfig ==
    /\ job # None /\ broken # "refresh" => cfg.enabled /\ job = cfg.due
    /\ cfg.due # None => cfg.due <= cfg.interval

\* While autoplay is enabled a tick is armed or under way, unless the last job
\* misfired, the last tick raised, wherever it stood, or the start or edit that
\* enabled it raised between commit and refresh: nothing else breaks the chain
\* (scheduler_service.py:100-162, 244-306).
ArmedOrBroken ==
    up /\ cfg.enabled /\ tick = "idle" /\ broken = "no" => job # None

\* A stopped configuration has no next_run_at and an enabled one has, which is
\* what initialize can rely on; a tick that has just chosen its spot has seen
\* enabled, has used up its job and still holds the loop; a process that is
\* down has neither job nor tick.
RowJobTick ==
    /\ cfg.enabled \in BOOLEAN
    /\ cfg.enabled <=> cfg.due # None
    /\ DisabledNotArmed
    /\ JobMatchesConfig
    /\ ArmedOrBroken
    /\ tick = "chosen" => cfg.enabled /\ job = None
    /\ ~up => tick = "idle" /\ job = None /\ broken = "no"

\* Between ticks the index stands for the position that was played last, and
\* during a tick for the one that is being played, modulo the length of what is
\* playable.
Positions ==
    LET n == Len(Playable(cfg.seq))
    IN  /\ last # 0 => n # 0 /\ last % n = cfg.index % n
        /\ tick # "idle" /\ pos # 0 => n # 0 /\ pos = (cfg.index % n) + 1

\* The inductive invariant.
Inv == RowJobTick /\ Positions

\* As long as nothing changes the playable sequence and every tick completes,
\* each tick plays the position after the one before, across stops, manual
\* plays and restarts between ticks (scheduler_service.py:270-292).
PlaysSuccessor ==
    [][ChooseSpot /\ last # 0
         => pos' = (last % Len(Playable(cfg.seq))) + 1]_vars

\* An armed autoplay that stays enabled with something to play keeps playing
\* (scheduler_service.py:208-215, 244-306).
KeepsPlaying ==
    <>[](up /\ cfg.enabled /\ broken = "no" /\ Playable(cfg.seq) # <<>>)
        => []<>(tick = "sent")

\* Scheduler state reloads on restart: an enabled autoplay is armed again (set
\* apart from the losses by a tick or a refresh that raised).
ReloadsAfterRestart ==
    up /\ cfg.enabled /\ tick = "idle" /\ broken \notin {"raised", "refresh"}
        => job # None
=============================================================================
