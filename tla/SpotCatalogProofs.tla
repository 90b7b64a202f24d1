-------------------------- MODULE SpotCatalogProofs --------------------------
(***************************************************************************)
(* Theorems about SpotCatalog, for any spots, threads, retention time, link *)
(* lifetime and number of operations.                                      *)
(***************************************************************************)
EXTENDS SpotCatalog, TLAPS

\* Links die before retention begins, so an outdated spot has none.
LEMMA OutdatedHasNoLink ==
    ASSUME TypeOK, LinksExpireFirst, NEW s \in Spots, Outdated(s)
    PROVE  offer[s] = 0
<1>1. offer[s] \in 0 .. Ttl /\ age[s] \in 0 .. Cap
  BY DEF TypeOK
<1>2. CASE offer[s] > 0
  <2>1. age[s] + offer[s] <= Ttl
    BY <1>2 DEF LinksExpireFirst, Outdated
  <2> QED BY <2>1, <1>1, <1>2, SpotCatalogAssumption DEF Outdated, Cap
<1> QED BY <1>1, <1>2, SpotCatalogAssumption

-----------------------------------------------------------------------------
(* Types.                                                                  *)

\* Every variable keeps its type (SpotCatalog.tla, the actions of which stand
\* for spot_service.py and retention_service.py).
THEOREM TypeCorrect == Spec => []TypeOK
<1>1. Init => TypeOK
  BY SpotCatalogAssumption DEF Init, TypeOK, Cap
<1>2. TypeOK /\ [Next]_vars => TypeOK'
  <2> SUFFICES ASSUME TypeOK, [Next]_vars
               PROVE  TypeOK'
    OBVIOUS
  <2> USE SpotCatalogAssumption
  <2>1. ASSUME NEW s \in Spots, Upload(s)
        PROVE  TypeOK'
    BY <2>1 DEF Upload, Spend, TypeOK
  <2>2. CASE UploadCommits
    BY <2>2 DEF UploadCommits, TypeOK, Present, Cap
  <2>3. CASE UploadFails
    BY <2>3 DEF UploadFails, Spend, TypeOK
  <2>4. ASSUME NEW t \in Workers, NEW s \in Spots, NEW set \in Present,
               NEW title \in BOOLEAN, Update(t, s, set, title)
        PROVE  TypeOK'
    BY <2>4 DEF Update, Spend, TypeOK, Updates
  <2>5. ASSUME NEW t \in Workers, UpdateCommits(t)
        PROVE  TypeOK'
    <3>1. work[t] \in Updates
      BY <2>5 DEF UpdateCommits, TypeOK
    <3>2. work[t].spot \in Spots /\ work[t].set \in Present
      BY <3>1 DEF Updates
    <3>3. /\ row' \in [Spots -> Present \cup {"absent", "deleted"}]
          /\ age' \in [Spots -> 0 .. Cap]
          /\ torn' \subseteq Spots
      BY <2>5, <3>2 DEF UpdateCommits, TypeOK, Cap
    <3> QED BY <2>5, <3>3 DEF UpdateCommits, TypeOK
  <2>6. CASE Offer
    BY <2>6 DEF Offer, TypeOK
  <2>7. CASE SweepRead
    <3>1. sweep' \in Sweeps
      BY <2>7 DEF SweepRead, Sweeps
    <3> QED BY <2>7, <3>1 DEF SweepRead, TypeOK
  <2>8. ASSUME NEW s \in Spots, SweepUnlink(s)
        PROVE  TypeOK'
    <3>1. sweep \in Sweeps
      BY <2>8 DEF SweepUnlink, TypeOK
    <3>2. sweep' \in Sweeps
      BY <2>8, <3>1 DEF SweepUnlink, Sweeps
    <3> QED BY <2>8, <3>2 DEF SweepUnlink, TypeOK
  <2>9. CASE SweepCommit
    BY <2>9 DEF SweepCommit, TypeOK
  <2>10. CASE SweepFails
    <3>1. Unlinked \subseteq Spots
      BY DEF Unlinked, TypeOK, Sweeps
    <3> QED BY <2>10, <3>1 DEF SweepFails, Spend, TypeOK
  <2>11. CASE Crash
    <3>1. Unlinked \subseteq Spots
      BY DEF Unlinked, TypeOK, Sweeps
    <3> QED BY <2>11, <3>1 DEF Crash, Spend, TypeOK
  <2>12. CASE Clock
    BY <2>12 DEF Clock, TypeOK, Cap
  <2>13. CASE UNCHANGED vars
    BY <2>13 DEF vars, TypeOK
  <2> QED
    BY <2>1, <2>2, <2>3, <2>4, <2>5, <2>6, <2>7, <2>8, <2>9, <2>10, <2>11, <2>12,
       <2>13 DEF Next, SweepStep
<1> QED BY <1>1, <1>2, PTL DEF Spec

-----------------------------------------------------------------------------
(* The invariant.                                                          *)

LEMMA InvInit == Init => Inv
BY DEF Init, Inv, Present, MissingFileIsKnown, SweepHolds, UnlinkedIsGone, LinksExpireFirst,
       UploadHasFile, DeletedLeavesNoFile, Unlinked

\* Uploads touch a spot that no row, link or sweep knows of.
LEMMA UploadInv ==
    ASSUME TypeOK, Inv,
           (\E s \in Spots : Upload(s)) \/ UploadCommits \/ UploadFails
    PROVE  Inv'
<1> USE SpotCatalogAssumption DEF TypeOK, Present, Sweeps
<1>1. ASSUME NEW s \in Spots, Upload(s)
      PROVE  Inv'
  <2>1. s \notin Unlinked
    BY <1>1 DEF Upload, Inv, SweepHolds, Unlinked
  <2>2. Unlinked' = Unlinked
    BY <1>1 DEF Upload, Unlinked
  <2> QED BY <1>1, <2>1, <2>2 DEF Upload, Inv, MissingFileIsKnown, SweepHolds,
             UnlinkedIsGone, LinksExpireFirst, UploadHasFile, DeletedLeavesNoFile
<1>2. CASE UploadCommits
  <2>1. upload \in Spots /\ row[upload] = "absent" /\ file[upload]
    BY <1>2 DEF UploadCommits, Inv, UploadHasFile
  <2>2. Unlinked' = Unlinked
    BY <1>2 DEF UploadCommits, Unlinked
  <2>3. sweep # None => upload \notin sweep.doomed
    BY <2>1 DEF Inv, SweepHolds
  <2> QED BY <1>2, <2>1, <2>2, <2>3 DEF UploadCommits, Inv, MissingFileIsKnown,
             SweepHolds, UnlinkedIsGone, LinksExpireFirst, UploadHasFile,
             DeletedLeavesNoFile
<1>3. CASE UploadFails
  <2>1. Unlinked' = Unlinked
    BY <1>3 DEF UploadFails, Unlinked
  <2> QED BY <1>3, <2>1 DEF UploadFails, Inv, MissingFileIsKnown, SweepHolds,
             UnlinkedIsGone, LinksExpireFirst, UploadHasFile, DeletedLeavesNoFile
<1> QED BY <1>1, <1>2, <1>3

\* What an update writes under a sweep that holds the spot counts as torn; it
\* restarts the spot's retention, which then outlives its links again.
LEMMA UpdateInv ==
    ASSUME TypeOK, Inv, NEW t \in Workers, UpdateCommits(t)
    PROVE  Inv'
<1> USE SpotCatalogAssumption
<1> DEFINE w == work[t]
           written == w.dirty /\ row[w.spot] \in Present
<1>1. w \in Updates
  BY DEF UpdateCommits, TypeOK
<1>2. w.spot \in Spots /\ w.set \in Present
  BY <1>1 DEF Updates
<1>3. CASE ~written
  <2>1. row' = row /\ age' = age /\ torn' = torn
    BY <1>3 DEF UpdateCommits
  <2> QED BY <2>1 DEF UpdateCommits, Inv, MissingFileIsKnown, SweepHolds, UnlinkedIsGone, LinksExpireFirst,
       UploadHasFile, DeletedLeavesNoFile, Unlinked
<1>4. CASE written
  <2>1. /\ \A s \in Spots : row'[s] = IF s = w.spot /\ w.flip THEN w.set ELSE row[s]
        /\ \A s \in Spots : age'[s] = IF s = w.spot THEN 0 ELSE age[s]
        /\ torn \subseteq torn'
        /\ sweep # None /\ w.spot \in sweep.doomed => w.spot \in torn'
    BY <1>2, <1>4 DEF UpdateCommits, TypeOK
  <2>2. \A s \in Spots : row'[s] \in Present <=> row[s] \in Present
    BY <1>2, <1>4, <2>1
  <2>3. \A s \in Spots : row'[s] \notin Present => row'[s] = row[s]
    BY <1>2, <1>4, <2>1
  <2>4. file' = file /\ offer' = offer /\ upload' = upload /\ sweep' = sweep
    BY DEF UpdateCommits
  <2>5. Unlinked' = Unlinked
    BY <2>4 DEF Unlinked
  <2>6. MissingFileIsKnown'
    BY <2>1, <2>2, <2>4, <2>5 DEF Inv, MissingFileIsKnown
  <2>7. SweepHolds'
    BY <2>1, <2>2, <2>4 DEF Inv, SweepHolds, TypeOK, Sweeps
  <2>8. LinksExpireFirst'
    BY <2>1, <2>2, <2>4 DEF Inv, LinksExpireFirst, TypeOK
  <2>9. UnlinkedIsGone' /\ DeletedLeavesNoFile'
    BY <2>3, <2>4, <2>5 DEF Inv, UnlinkedIsGone, DeletedLeavesNoFile, Present
  <2>10. UploadHasFile'
    <3>1. ASSUME upload # None
          PROVE  row'[upload] = "absent"
      <4>1. upload \in Spots /\ row[upload] = "absent"
        BY <3>1 DEF Inv, UploadHasFile, TypeOK
      <4>2. upload # w.spot
        BY <1>4, <4>1 DEF Present
      <4> QED BY <2>1, <4>1, <4>2
    <3> QED BY <2>4, <3>1 DEF Inv, UploadHasFile
  <2> QED BY <2>6, <2>7, <2>8, <2>9, <2>10 DEF Inv
<1> QED BY <1>3, <1>4

\* A sweep takes up outdated rows, which nothing links to, and gives them back
\* or deletes them whole.
LEMMA SweepInv ==
    ASSUME TypeOK, Inv, SweepStep \/ SweepFails \/ Crash
    PROVE  Inv'
<1> USE SpotCatalogAssumption
<1>1. CASE SweepRead
  <2> DEFINE doomed == {s \in Spots : Outdated(s)}
  <2>1. sweep' = [doomed |-> doomed, left |-> doomed] /\ sweep' # None
    BY <1>1 DEF SweepRead, Sweeps
  <2>2. Unlinked' = {} /\ Unlinked = {}
    BY <1>1, <2>1 DEF Unlinked, SweepRead
  <2>3. \A s \in doomed : row[s] = "inactive" /\ offer[s] = 0
    BY OutdatedHasNoLink DEF Outdated, Inv
  <2> QED BY <1>1, <2>1, <2>2, <2>3 DEF SweepRead, Inv, MissingFileIsKnown, SweepHolds,
             UnlinkedIsGone, LinksExpireFirst, UploadHasFile, DeletedLeavesNoFile, Present
<1>2. ASSUME NEW s \in Spots, SweepUnlink(s)
      PROVE  Inv'
  <2>1. sweep \in Sweeps /\ sweep # None /\ s \in sweep.left
    BY <1>2 DEF SweepUnlink, TypeOK
  <2>2. sweep' = [doomed |-> sweep.doomed, left |-> sweep.left \ {s}]
    BY <1>2, <2>1 DEF SweepUnlink, Sweeps
  <2>3. sweep' # None
    BY <2>1, <2>2 DEF Sweeps
  <2>4. s \in sweep.doomed /\ row[s] \in Present
    BY <2>1 DEF Inv, SweepHolds
  <2>5. Unlinked' = Unlinked \cup {s}
    BY <2>1, <2>2, <2>3, <2>4 DEF Unlinked
  <2>6. \A q \in Spots : file'[q] = (q # s /\ file[q])
    BY <1>2 DEF SweepUnlink, TypeOK
  <2>7. MissingFileIsKnown' /\ UnlinkedIsGone' /\ DeletedLeavesNoFile'
    BY <1>2, <2>5, <2>6 DEF SweepUnlink, Inv, MissingFileIsKnown, UnlinkedIsGone,
       DeletedLeavesNoFile, TypeOK
  <2>8. SweepHolds'
    BY <1>2, <2>1, <2>2 DEF SweepUnlink, Inv, SweepHolds
  <2>9. UploadHasFile'
    BY <1>2, <2>4, <2>6 DEF SweepUnlink, Inv, UploadHasFile, TypeOK, Present
  <2> QED BY <1>2, <2>7, <2>8, <2>9 DEF SweepUnlink, Inv, LinksExpireFirst
<1>3. CASE SweepCommit
  <2>1. sweep \in Sweeps /\ sweep # None /\ Unlinked = sweep.doomed /\ Unlinked' = {}
    BY <1>3 DEF SweepCommit, TypeOK, Unlinked
  <2>2. \A s \in Spots : row'[s] = IF s \in sweep.doomed THEN "deleted" ELSE row[s]
    BY <1>3 DEF SweepCommit
  <2>3. upload # None => upload \in Spots /\ upload \notin sweep.doomed
    BY <2>1 DEF Inv, SweepHolds, UploadHasFile, TypeOK, Present
  <2> QED BY <1>3, <2>1, <2>2, <2>3 DEF SweepCommit, Inv, MissingFileIsKnown, SweepHolds,
             UnlinkedIsGone, LinksExpireFirst, UploadHasFile, DeletedLeavesNoFile, Present
<1>4. CASE SweepFails \/ Crash
  <2>1. Unlinked' = {} /\ sweep' = None /\ torn' = torn \cup Unlinked
    BY <1>4 DEF SweepFails, Crash, Unlinked
  <2> QED BY <1>4, <2>1 DEF SweepFails, Crash, Inv, MissingFileIsKnown, SweepHolds,
             UnlinkedIsGone, LinksExpireFirst, UploadHasFile, DeletedLeavesNoFile
<1> QED BY <1>1, <1>2, <1>3, <1>4 DEF SweepStep

\* Links go to active spots only, and grow shorter while inactive spots age.
LEMMA LinkInv ==
    ASSUME TypeOK, Inv, Offer \/ Clock
    PROVE  Inv'
<1> USE SpotCatalogAssumption
<1>1. Unlinked' = Unlinked
  BY DEF Offer, Clock, Unlinked
<1>2. MissingFileIsKnown' /\ UnlinkedIsGone' /\ UploadHasFile' /\ DeletedLeavesNoFile'
  BY <1>1 DEF Offer, Clock, Inv, MissingFileIsKnown, UnlinkedIsGone, UploadHasFile,
     DeletedLeavesNoFile
<1>3. SweepHolds'
  <2>1. \A s \in Spots : row[s] # "active" /\ offer[s] = 0 => offer'[s] = 0
    BY DEF Offer, Clock
  <2> QED BY <2>1 DEF Offer, Clock, Inv, SweepHolds, TypeOK, Sweeps
<1>4. LinksExpireFirst'
  <2> SUFFICES ASSUME NEW s \in Spots, offer'[s] > 0
               PROVE  /\ row[s] = "inactive" => age'[s] + offer'[s] <= Ttl
                      /\ s \notin torn => row[s] \in Present
    BY DEF Offer, Clock, LinksExpireFirst
  <2>1. offer[s] \in 0 .. Ttl /\ age[s] \in 0 .. Cap
    BY DEF TypeOK
  <2>2. CASE Offer
    BY <2>2 DEF Offer, Inv, LinksExpireFirst, Present
  <2>3. CASE Clock
    <3>1. offer[s] > 0 /\ offer'[s] = offer[s] - 1
      BY <2>1, <2>3 DEF Clock
    <3>2. row[s] = "inactive" => age[s] + offer[s] <= Ttl
      BY <3>1 DEF Inv, LinksExpireFirst
    <3>3. age'[s] <= age[s] + 1
      BY <2>1, <2>3 DEF Clock
    <3>4. age'[s] \in Nat
      BY <2>1, <2>3 DEF Clock, Cap
    <3> QED BY <2>1, <3>1, <3>2, <3>3, <3>4 DEF Inv, LinksExpireFirst
  <2> QED BY <2>2, <2>3
<1> QED BY <1>2, <1>3, <1>4 DEF Inv

\* Rows, files, links and sweep stay consistent (Inv in SpotCatalog.tla;
\* spot_service.py:52-147, retention_service.py:26-54).
THEOREM CatalogConsistent == Spec => []Inv
<1>1. Init => Inv
  BY InvInit
<1>2. TypeOK /\ Inv /\ [Next]_vars => Inv'
  <2> SUFFICES ASSUME TypeOK, Inv, [Next]_vars
               PROVE  Inv'
    OBVIOUS
  <2>1. ASSUME NEW t \in Workers, NEW s \in Spots, NEW set \in Present,
               NEW title \in BOOLEAN, Update(t, s, set, title)
        PROVE  Inv'
    BY <2>1 DEF Update, Inv, MissingFileIsKnown, SweepHolds, UnlinkedIsGone, LinksExpireFirst,
       UploadHasFile, DeletedLeavesNoFile, Unlinked
  <2>2. CASE UNCHANGED vars
    BY <2>2 DEF vars, Inv, MissingFileIsKnown, SweepHolds, UnlinkedIsGone, LinksExpireFirst,
       UploadHasFile, DeletedLeavesNoFile, Unlinked
  <2> QED BY <2>1, <2>2, UploadInv, UpdateInv, SweepInv, LinkInv DEF Next
<1> QED BY <1>1, <1>2, TypeCorrect, PTL DEF Spec

\* A spot that is played has its file, unless it is torn (spot_service.py:64-89,
\* retention_service.py:33-45).
THEOREM PlayedSpotsHaveFiles == Spec => []ActiveHasFile
<1>1. TypeOK /\ Inv => ActiveHasFile
  BY DEF Inv, ActiveHasFile, MissingFileIsKnown, SweepHolds, Unlinked, Present
<1> QED BY <1>1, TypeCorrect, CatalogConsistent, PTL

\* A link that has not expired leads to a row and a file, unless the spot is
\* torn (spot_service.py:114-171, retention_service.py:29-45).
THEOREM LinksAreHonoured == Spec => []OfferHonoured
<1>1. TypeOK /\ Inv => OfferHonoured
  <2> SUFFICES ASSUME TypeOK, Inv, NEW s \in Spots, offer[s] > 0, s \notin torn
               PROVE  row[s] \in Present /\ file[s]
    BY DEF OfferHonoured
  <2>1. row[s] \in Present
    BY DEF Inv, LinksExpireFirst
  <2>2. s \notin Unlinked
    BY DEF Inv, SweepHolds, Unlinked
  <2> QED BY <2>1, <2>2 DEF Inv, MissingFileIsKnown
<1> QED BY <1>1, TypeCorrect, CatalogConsistent, PTL

\* A deleted spot leaves no file behind (retention_service.py:41-53).
THEOREM DeletedMeansGone == Spec => []DeletedLeavesNoFile
BY CatalogConsistent, PTL DEF Inv
=============================================================================
