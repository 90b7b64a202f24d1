------------------------------ MODULE SpotCatalog ------------------------------
(***************************************************************************)
(* The spots: rows in the database, files beside it, and the download      *)
(* links the nodes are given (services/spot_service.py,                    *)
(* services/retention_service.py).                                         *)
(*                                                                         *)
(* An upload runs on the event loop, an update in a worker thread and the  *)
(* retention sweep in a thread of the scheduler.  A file and its row are   *)
(* never changed in one step, and nothing locks a row between the moment a *)
(* transaction reads it and its commit.                                    *)
(*                                                                         *)
(* Times are relative: "age" counts from updated_at and stops at Cap,      *)
(* "offer" is what is left of the last link to a spot.                     *)
(***************************************************************************)
EXTENDS Naturals

CONSTANTS
    Spots,      \* spot ids (uuid4 in the code), each used once
    Workers,    \* threads that serve updates
    Keep,       \* inactive_spot_retention_days, in clock units
    Ttl,        \* signed_download_ttl_seconds, in clock units
    MaxOps,     \* bound: uploads, updates, failures and crashes
    None

Present == {"active", "inactive"}
Updates == [spot : Spots, set : Present, dirty : BOOLEAN, flip : BOOLEAN]
Sweeps == [doomed : SUBSET Spots, left : SUBSET Spots]

ASSUME SpotCatalogAssumption ==
    /\ Keep \in Nat
    /\ Ttl \in 0 .. Keep
    /\ MaxOps \in Nat
    /\ None \notin Spots \cup Updates \cup Sweeps

VARIABLES
    row,        \* the committed row of each spot
    age,        \* time since its updated_at
    file,       \* whether its file is in the storage directory
    offer,      \* what is left of the last download link to it
    upload,     \* the spot whose upload has its file and no row yet, or None
    work,       \* the update under way in each thread, or None
    sweep,      \* the retention sweep under way, or None
    ops,        \* operations left
    torn        \* history: spots updated under a sweep that had read them, or
                \* unlinked by a sweep that did not get to its commit

vars == <<row, age, file, offer, upload, work, sweep, ops, torn>>

Cap == Keep + 1

TypeOK ==
    /\ row \in [Spots -> Present \cup {"absent", "deleted"}]
    /\ age \in [Spots -> 0 .. Cap]
    /\ file \in [Spots -> BOOLEAN]
    /\ offer \in [Spots -> 0 .. Ttl]
    /\ upload \in Spots \cup {None}
    /\ work \in [Workers -> Updates \cup {None}]
    /\ sweep \in Sweeps \cup {None}
    /\ ops \in 0 .. MaxOps
    /\ torn \subseteq Spots

Init ==
    /\ row = [s \in Spots |-> "absent"]
    /\ age = [s \in Spots |-> 0]
    /\ file = [s \in Spots |-> FALSE]
    /\ offer = [s \in Spots |-> 0]
    /\ upload = None
    /\ work = [t \in Workers |-> None]
    /\ sweep = None
    /\ ops = MaxOps
    /\ torn = {}

Spend == ops > 0 /\ ops' = ops - 1

-----------------------------------------------------------------------------
(* Uploads.                                                                *)

\* create_spot up to its commit: the row is flushed and the file is written.
Upload(s) ==
    /\ Spend
    /\ upload = None
    /\ row[s] = "absent" /\ ~file[s]
    /\ upload' = s
    /\ file' = [file EXCEPT ![s] = TRUE]
    /\ UNCHANGED <<row, age, offer, work, sweep, torn>>

UploadCommits ==
    /\ upload # None
    /\ row' = [row EXCEPT ![upload] = "active"]
    /\ age' = [age EXCEPT ![upload] = 0]
    /\ upload' = None
    /\ UNCHANGED <<file, offer, work, sweep, ops, torn>>

\* The commit raises: the file stays behind, without a row.
UploadFails ==
    /\ Spend
    /\ upload # None
    /\ upload' = None
    /\ UNCHANGED <<row, age, file, offer, work, sweep, torn>>

-----------------------------------------------------------------------------
(* Updates.                                                                *)

\* update_spot reads the row; "title" says that the payload changes the title.
Update(t, s, set, title) ==
    /\ Spend
    /\ work[t] = None
    /\ row[s] \in Present
    /\ work' = [work EXCEPT ![t] = [spot |-> s, set |-> set, flip |-> set # row[s],
                                    dirty |-> title \/ set # row[s]]]
    /\ UNCHANGED <<row, age, file, offer, upload, sweep, torn>>

\* The commit writes the columns that have changed, and updated_at with them.
\* An UPDATE that finds no row any more raises, and so does nothing.
UpdateCommits(t) ==
    /\ work[t] # None
    /\ LET w == work[t]
           written == w.dirty /\ row[w.spot] \in Present
       IN  /\ row' = IF written /\ w.flip THEN [row EXCEPT ![w.spot] = w.set] ELSE row
           /\ age' = IF written THEN [age EXCEPT ![w.spot] = 0] ELSE age
           /\ torn' = IF written /\ sweep # None /\ w.spot \in sweep.doomed
                      THEN torn \cup {w.spot} ELSE torn
    /\ work' = [work EXCEPT ![t] = None]
    /\ UNCHANGED <<file, offer, upload, sweep, ops>>

-----------------------------------------------------------------------------
(* Links.                                                                  *)

\* Mutant of Offer: the link lives a unit longer.
MutOfferLonger ==
    /\ offer' = [s \in Spots |-> IF row[s] = "active" THEN Ttl + 1 ELSE offer[s]]
    /\ UNCHANGED <<row, age, file, upload, work, sweep, ops, torn>>

\* build_sync_payload: a fresh link to every active spot.
Offer ==
    /\ offer' = [s \in Spots |-> IF row[s] = "active" THEN Ttl ELSE offer[s]]
    /\ UNCHANGED <<row, age, file, upload, work, sweep, ops, torn>>

-----------------------------------------------------------------------------
(* The retention sweep.                                                    *)

\* Mutants of Outdated: the active flag is not looked at, or the age is not.
MutOutdatedActive(s) == row[s] \in Present /\ age[s] > Keep
MutOutdatedYoung(s) == row[s] = "inactive"

Outdated(s) == row[s] = "inactive" /\ age[s] > Keep

SweepRead ==
    /\ sweep = None
    /\ \E s \in Spots : Outdated(s)
    /\ LET doomed == {s \in Spots : Outdated(s)}
       IN  sweep' = [doomed |-> doomed, left |-> doomed]
    /\ UNCHANGED <<row, age, file, offer, upload, work, ops, torn>>

\* Mutants of SweepUnlink: the file is left where it is; a file that is
\* already gone raises, which is the end of the sweep.
MutSweepKeepsFile(s) ==
    /\ sweep # None /\ s \in sweep.left
    /\ sweep' = [sweep EXCEPT !.left = @ \ {s}]
    /\ UNCHANGED <<row, age, file, offer, upload, work, ops, torn>>
MutSweepMissesFile(s) ==
    /\ sweep # None /\ s \in sweep.left
    /\ file' = [file EXCEPT ![s] = FALSE]
    /\ sweep' = IF file[s] THEN [sweep EXCEPT !.left = @ \ {s}] ELSE None
    /\ UNCHANGED <<row, age, offer, upload, work, ops, torn>>

\* The file goes at once, if it is still there; the row waits for the commit.
SweepUnlink(s) ==
    /\ sweep # None /\ s \in sweep.left
    /\ file' = [file EXCEPT ![s] = FALSE]
    /\ sweep' = [sweep EXCEPT !.left = @ \ {s}]
    /\ UNCHANGED <<row, age, offer, upload, work, ops, torn>>

\* The rows go by their ids, whatever they hold by now.
SweepCommit ==
    /\ sweep # None /\ sweep.left = {}
    /\ row' = [s \in Spots |-> IF s \in sweep.doomed THEN "deleted" ELSE row[s]]
    /\ sweep' = None
    /\ UNCHANGED <<age, file, offer, upload, work, ops, torn>>

Unlinked == IF sweep = None THEN {} ELSE sweep.doomed \ sweep.left

\* A file cannot be unlinked, or the commit raises.
SweepFails ==
    /\ Spend
    /\ sweep # None
    /\ sweep' = None
    /\ torn' = torn \cup Unlinked
    /\ UNCHANGED <<row, age, file, offer, upload, work>>

-----------------------------------------------------------------------------
(* The process and time.                                                   *)

Crash ==
    /\ Spend
    /\ upload' = None
    /\ work' = [t \in Workers |-> None]
    /\ sweep' = None
    /\ torn' = torn \cup Unlinked
    /\ UNCHANGED <<row, age, file, offer>>

Clock ==
    /\ age' = [s \in Spots |-> IF age[s] = Cap THEN Cap ELSE age[s] + 1]
    /\ offer' = [s \in Spots |-> IF offer[s] = 0 THEN 0 ELSE offer[s] - 1]
    /\ UNCHANGED <<row, file, upload, work, sweep, ops, torn>>

-----------------------------------------------------------------------------
SweepStep == SweepRead \/ (\E s \in Spots : SweepUnlink(s)) \/ SweepCommit

Next ==
    \/ \E s \in Spots : Upload(s)
    \/ UploadCommits \/ UploadFails
    \/ \E t \in Workers :
          \/ UpdateCommits(t)
          \/ \E s \in Spots, set \in Present, title \in BOOLEAN : Update(t, s, set, title)
    \/ Offer
    \/ SweepStep \/ SweepFails
    \/ Crash
    \/ Clock

Spec == Init /\ [][Next]_vars

\* Time goes on, and the scheduler starts a sweep again and again and lets it run.
Fairness == WF_vars(Clock) /\ WF_vars(SweepStep)

FairSpec == Spec /\ Fairness

-----------------------------------------------------------------------------
(* Properties.                                                             *)

\* A spot that is played has its file, unless it was activated under a sweep
\* or after one that was cut short (spot_service.py:64-89,
\* retention_service.py:33-45).
ActiveHasFile == \A s \in Spots : row[s] = "active" /\ s \notin torn => file[s]

\* A link that has not expired leads to a row and a file, with the same
\* exception: a spot is kept for longer than the links to it live
\* (spot_service.py:114-171, retention_service.py:29-45).
OfferHonoured ==
    \A s \in Spots : offer[s] > 0 /\ s \notin torn => row[s] \in Present /\ file[s]

\* A deleted spot leaves no file behind, even if its deletion took several
\* sweeps (retention_service.py:41-53).
DeletedLeavesNoFile == \A s \in Spots : row[s] = "deleted" => ~file[s]

\* A spot does not stay inactive for ever: it is used again or it is deleted,
\* although a sweep may be cut short between file and row
\* (retention_service.py:33-53).
InactiveIsCleaned == \A s \in Spots : []<>(row[s] # "inactive")

-----------------------------------------------------------------------------
(* The inductive invariant.                                                *)

MissingFileIsKnown ==
    \A s \in Spots : row[s] \in Present /\ ~file[s] => s \in torn \cup Unlinked

SweepHolds ==
    sweep # None =>
        /\ sweep.left \subseteq sweep.doomed
        /\ \A s \in sweep.doomed :
              /\ row[s] \in Present
              /\ s \notin torn => row[s] = "inactive" /\ offer[s] = 0

UnlinkedIsGone == \A s \in Unlinked : ~file[s]

LinksExpireFirst ==
    \A s \in Spots :
        offer[s] > 0 => /\ row[s] = "inactive" => age[s] + offer[s] <= Ttl
                        /\ s \notin torn => row[s] \in Present

UploadHasFile == upload # None => row[upload] = "absent" /\ file[upload]

\* What ties rows, files, links and a sweep under way together: a missing file
\* is the work of a sweep, a sweep holds spots that nobody plays or links to,
\* and links end before retention begins (spot_service.py:52-147,
\* retention_service.py:26-54).
Inv ==
    /\ MissingFileIsKnown
    /\ SweepHolds
    /\ UnlinkedIsGone
    /\ LinksExpireFirst
    /\ UploadHasFile
    /\ DeletedLeavesNoFile
=============================================================================
