-------------------------- MODULE RepairRun_proofs ---------------------------
(***************************************************************************)
(* What several runs of the repair script leave in one session directory,  *)
(* for any number of runs, any command lines, catalogs and verdicts, and   *)
(* any number of revisions the host appends meanwhile.                     *)
(*                                                                         *)
(* The inductive invariant relates each run's progress to the files: what  *)
(* a run knows of the revision it read, whose the staged, canonical and    *)
(* backup files are, and how long a file that one run found can be taken   *)
(* away by the run that made it.                                           *)
(***************************************************************************)
EXTENDS RepairRun, TLAPS

RunTypeOK ==
  /\ verdict \in [Revision -> Verdict] /\ source \in Revision
  /\ target \in Successor \union {Nothing}
  /\ backup \in Revision \union {Partial, Nothing}
  /\ staged \in [Run -> Successor \union {Partial, Nothing}]
  /\ run \in [Run -> Rec]
  /\ maker \in [target : Run \union {Nothing}, backup : Run \union {Nothing}]

\* The states of a run that applies a repair, and those after its last check of the log.
Applying == {"backup", "copy", "recheck", "stage", "write", "link", "cleanup", "unstage",
             "confirm", "settle", "discard"}
Publishing == {"stage", "write", "link", "cleanup", "unstage", "confirm", "settle"}
\* Before the successor and before the backup have been touched.
Unlinked == {"start", "read", "probe", "backup", "copy", "recheck", "stage", "write", "link",
             "cleanup"}
Uncopied == {"start", "read", "probe", "backup", "copy"}

Published(r) == run[r].report = "published"

\* What a run's progress says of the log it read and of its command line.
Informed(r) ==
  /\ run[r].rev # Nothing => run[r].rev <= source
  /\ run[r].report # Nothing <=> run[r].pc = "done"
  /\ run[r].pc = "read" \/ run[r].pc \in Applying \/ Published(r) =>
       /\ ~FatalProblem(run[r].opts)
       /\ run[r].catalog = ResolveCatalog(run[r].opts.found)
  /\ run[r].pc \in Applying \union {"probe"} \/ Published(r) => run[r].rev # Nothing
  /\ run[r].pc \in Applying \/ Published(r) =>
       /\ run[r].opts.apply
       /\ verdict[run[r].rev] \in {"lossy", "unpublishable", "repairable"}
       /\ verdict[run[r].rev] = "lossy" => run[r].opts.drop
  /\ run[r].pc \in Publishing \/ Published(r) => verdict[run[r].rev] # "unpublishable"
  /\ run[r].pc = "settle" => source # run[r].rev
  /\ run[r].pc = "probe" \/ run[r].report = "already" => ~run[r].opts.apply
  /\ run[r].report = "ok" => run[r].rev # Nothing /\ verdict[run[r].rev] = "ok"
  /\ run[r].exit = 0 => run[r].report \in {"ok", "already", "published"}

\* The temporary is the run's own, whole before it is linked, and gone or named after.
StagedIsOwn(r) ==
  /\ run[r].pc = "link" => staged[r] = ProductOf(r)
  /\ staged[r] # Nothing =>
       \/ run[r].pc \in {"write", "link", "cleanup", "unstage", "crashed"}
       \/ "staged" \in run[r].leftover

\* The canonical successor is whole, and that of the run that made it.
TargetIsMade ==
  target # Nothing =>
    /\ maker.target \in Run /\ run[maker.target].outcome = "created"
    /\ run[maker.target].rev # Nothing /\ target = ProductOf(maker.target)
    /\ verdict[target.rev] \in {"repairable", "lossy"}

\* A successor the run created is there until that run removes it, and stays when the
\* run's last reading fails; one it created or accepted is there while the log stays as
\* it was read.
TargetStands(r) ==
  /\ run[r].pc \in Unlinked => run[r].outcome # "created"
  /\ run[r].outcome = "created" /\ run[r].pc \in {"unstage", "confirm", "settle"} =>
       maker.target = r /\ target # Nothing
  /\ maker.target = r =>
       /\ run[r].outcome = "created" /\ target # Nothing
       /\ \/ run[r].pc \in {"unstage", "confirm", "settle", "crashed"}
          \/ run[r].stale \/ run[r].unread \/ Published(r)
  /\ run[r].stale => run[r].pc \in {"discard", "crashed"} \/ run[r].report = "stale"
  /\ run[r].pc \in {"unstage", "confirm"} \/ Published(r) =>
       (source = run[r].rev => target = ProductOf(r))

\* A copy is its maker's until it fails; an unfinished copy is being made, and one that
\* could not be removed is named in the report.
BackupIsMade(r) ==
  /\ run[r].pc \in Uncopied => ~run[r].copied
  /\ "backup" \in run[r].leftover => run[r].pc = "done"
  /\ run[r].pc = "copy" \/ (run[r].copied /\ run[r].report \notin {"failed", "stale"}) =>
       maker.backup = r
  /\ run[r].pc = "copy" => backup = Partial
  /\ maker.backup = r =>
       /\ backup # Nothing
       /\ run[r].pc \in {"copy", "crashed"} \/ run[r].copied \/ "backup" \in run[r].leftover
       /\ run[r].report \in {"failed", "stale"} => "backup" \in run[r].leftover

\* A run that made a copy may have taken it away.
CopyTaken == \E q \in Run : run[q].copied /\ run[q].report \in {"failed", "stale"}

\* A run that passed its backup has one of the revision it repairs, if the log has
\* not moved on before the last check.
BackupHolds(r) ==
  /\ run[r].opts.backup /\ run[r].pc = "recheck" =>
       CopyTaken \/ (backup \in Revision /\ run[r].rev <= backup /\ backup <= source)
  /\ run[r].opts.backup /\ (run[r].pc \in {"stage", "write", "link", "unstage", "confirm"}
                             \/ Published(r)) =>
       CopyTaken \/ backup = run[r].rev

RunInv ==
  /\ RunTypeOK
  /\ TargetIsMade
  /\ \A r \in Run : /\ Informed(r) /\ StagedIsOwn(r) /\ TargetStands(r)
                    /\ BackupIsMade(r) /\ BackupHolds(r)

-----------------------------------------------------------------------------
(* What a step leaves alone.                                               *)

\* A run that is over does not step, so a copy taken away stays taken away.
LEMMA TakenStays ==
  ASSUME RunInv, NEW r \in Run, run[r].pc # "done", CopyTaken,
         \A q \in Run \ {r} : run'[q] = run[q]
  PROVE  CopyTaken'
<1>1. PICK q \in Run : run[q].copied /\ run[q].report \in {"failed", "stale"}
  BY DEF CopyTaken
<1>2. q # r
  BY <1>1, RepairAssumption DEF RunInv, Informed, RunReport
<1>3. QED
  BY <1>1, <1>2 DEF CopyTaken

\* A step of one run that changes no file but its own temporary: what the invariant
\* says of the other runs and of the successor stays true.
LEMMA OthersUndisturbed ==
  ASSUME RunInv, RunTypeOK', NEW r \in Run, run[r].pc # "done",
         UNCHANGED <<verdict, source, target, backup, maker>>,
         \A q \in Run \ {r} : run'[q] = run[q] /\ staged'[q] = staged[q],
         run'[r].outcome = run[r].outcome \/ (run[r].outcome # "created" /\ run'[r].outcome # "created"),
         run[r].outcome = "created" => /\ run'[r].rev = run[r].rev
                                       /\ run'[r].catalog = run[r].catalog,
         Informed(r)', StagedIsOwn(r)', TargetStands(r)', BackupIsMade(r)', BackupHolds(r)'
  PROVE  RunInv'
<1>1. ASSUME NEW q \in Run, q # r
      PROVE  (Informed(q) /\ StagedIsOwn(q) /\ TargetStands(q) /\ BackupIsMade(q) /\ BackupHolds(q))'
  <2>1. run'[q] = run[q] /\ staged'[q] = staged[q]
    BY <1>1
  <2>2. Informed(q)'
    BY <2>1 DEF RunInv, Informed, Published
  <2>3. StagedIsOwn(q)'
    BY <2>1 DEF RunInv, StagedIsOwn, ProductOf
  <2>4. TargetStands(q)'
    BY <2>1 DEF RunInv, TargetStands, Published, ProductOf
  <2>5. BackupIsMade(q)'
    BY <2>1 DEF RunInv, BackupIsMade
  <2>6. BackupHolds(q)'
    BY <2>1, TakenStays DEF RunInv, BackupHolds, Published
  <2>7. QED
    BY <2>2, <2>3, <2>4, <2>5, <2>6
<1>2. TargetIsMade'
  BY DEF RunInv, TargetIsMade, ProductOf
<1>3. QED
  BY <1>1, <1>2 DEF RunInv

-----------------------------------------------------------------------------
(* The steps of one run, one lemma per action.                             *)

\* A step that ends a run before it has touched the directory, or that only moves it on.
LEMMA QuietSound ==
  ASSUME RunInv, NEW r \in Run, run[r].pc # "done", NEW new \in Rec,
         run' = [run EXCEPT ![r] = new],
         UNCHANGED <<verdict, source, target, backup, maker>>,
         staged' \in [Run -> Successor \union {Partial, Nothing}],
         \A q \in Run \ {r} : staged'[q] = staged[q],
         new.opts = run[r].opts /\ new.outcome = run[r].outcome /\ new.copied = run[r].copied,
         run[r].outcome = "created" => new.rev = run[r].rev /\ new.catalog = run[r].catalog,
         (Informed(r) /\ StagedIsOwn(r) /\ TargetStands(r) /\ BackupIsMade(r) /\ BackupHolds(r))'
  PROVE  RunInv'
<1>1. /\ run'[r] = new
      /\ \A q \in Run \ {r} : run'[q] = run[q]
  BY DEF RunInv, RunTypeOK
<1>2. RunTypeOK'
  BY DEF RunInv, RunTypeOK
<1>3. QED
  BY <1>1, <1>2, OthersUndisturbed

\* What a report leaves of a run's record.
LEMMA ReportedFields ==
  ASSUME NEW rec \in Rec, NEW report \in RunReport
  PROVE  /\ Reported(rec, report) \in Rec
         /\ Reported(rec, report).pc = "done" /\ Reported(rec, report).report = report
         /\ Reported(rec, report).exit = 0 => report \in {"ok", "already", "published"}
         /\ Reported(rec, report).exit \in {0, 1}
         /\ Reported(rec, report).opts = rec.opts
         /\ Reported(rec, report).catalog = rec.catalog
         /\ Reported(rec, report).rev = rec.rev
         /\ Reported(rec, report).outcome = rec.outcome
         /\ Reported(rec, report).copied = rec.copied
         /\ Reported(rec, report).stale = rec.stale
         /\ Reported(rec, report).unread = rec.unread
         /\ Reported(rec, report).leftover = rec.leftover
<1> DEFINE code == IF report \in {"ok", "already", "published"} /\ ~rec.strays THEN 0 ELSE 1
           new == [rec EXCEPT !.pc = "done", !.report = report, !.exit = code]
<1>1. Reported(rec, report) = new
  BY DEF Reported
<1>2. code \in {0, 1} /\ (code = 0 => report \in {"ok", "already", "published"})
  OBVIOUS
<1> HIDE DEF code
<1>3. /\ new \in Rec /\ new.pc = "done" /\ new.report = report /\ new.exit = code
      /\ new.opts = rec.opts /\ new.catalog = rec.catalog /\ new.rev = rec.rev
      /\ new.outcome = rec.outcome /\ new.copied = rec.copied
      /\ new.stale = rec.stale /\ new.unread = rec.unread /\ new.leftover = rec.leftover
  BY <1>2 DEF Rec, PC
<1> HIDE DEF new
<1>4. QED
  BY <1>1, <1>2, <1>3

\* Resolution ends with a catalog or with nothing, whatever the paths name.
LEMMA CatalogResolved ==
  ASSUME NEW found \in [CatalogSource -> Candidate \union {Nothing}]
  PROVE  ResolveCatalog(found) \in Catalog \union {Nothing}
<1>1. ASSUME NEW by \in CatalogSource
      PROVE  LoadCatalog(found[by], by) \in Catalog \union {Nothing}
  <2> DEFINE c == found[by]
  <2>1. c \in Candidate \union {Nothing}
    OBVIOUS
  <2>2. CASE c = Nothing \/ ~c.loads
    BY <2>2 DEF LoadCatalog
  <2>3. CASE ~(c = Nothing \/ ~c.loads)
    <3>1. c.current \in Nat /\ FloorOf(c) \in Nat \union {Nothing}
      BY <2>1, <2>3 DEF Candidate, FloorOf, RepairFloor
    <3>2. LoadCatalog(c, by) = [by |-> by, current |-> c.current, floor |-> FloorOf(c)]
      BY <2>3 DEF LoadCatalog
    <3> HIDE DEF c
    <3>3. QED
      BY <3>1, <3>2 DEF Catalog, c
  <2>4. QED
    BY <2>2, <2>3
<1>2. QED
  BY <1>1 DEF ResolveCatalog, CatalogSource

\* A run that is refused has touched nothing.
LEMMA RefuseSound ==
  ASSUME RunInv, NEW r \in Run, Refuse(r)
  PROVE  RunInv'
<1> DEFINE new == [run[r] EXCEPT !.pc = "done", !.report = "fatal", !.exit = 2]
<1>1. /\ run' = [run EXCEPT ![r] = new] /\ run[r] \in Rec /\ run[r].pc = "start"
      /\ UNCHANGED <<verdict, source, target, backup, maker>> /\ staged' = staged
  BY DEF RunInv, RunTypeOK, Refuse, At, files
<1>2. /\ new \in Rec /\ new.pc = "done" /\ new.report = "fatal" /\ new.exit = 2
      /\ new.opts = run[r].opts /\ new.catalog = run[r].catalog /\ new.rev = run[r].rev
      /\ new.outcome = run[r].outcome /\ new.copied = run[r].copied /\ new.stale = run[r].stale
      /\ new.unread = run[r].unread
      /\ new.leftover = run[r].leftover
  BY <1>1 DEF Rec, PC, RunReport
<1> HIDE DEF new
<1>3. run'[r] = new
  BY <1>1 DEF RunInv, RunTypeOK
<1>4. /\ staged' \in [Run -> Successor \union {Partial, Nothing}]
      /\ \A q \in Run \ {r} : run'[q] = run[q] /\ staged'[q] = staged[q]
  BY <1>1 DEF RunInv, RunTypeOK
<1>5. CopyTaken => CopyTaken'
  BY <1>1, <1>2, <1>3, <1>4, TakenStays
<1>6. Informed(r)'
  BY <1>1, <1>2, <1>3, <1>4, RepairAssumption DEF RunInv, Informed, Applying, Publishing, Published, RunReport
<1>7. StagedIsOwn(r)'
  BY <1>1, <1>2, <1>3, <1>4 DEF RunInv, StagedIsOwn, ProductOf
<1>8. TargetStands(r)'
  BY <1>1, <1>2, <1>3, <1>4, RepairAssumption
     DEF RunInv, Informed, TargetStands, Unlinked, Published, RunReport, ProductOf
<1>9. BackupIsMade(r)'
  BY <1>1, <1>2, <1>3, <1>4, RepairAssumption DEF RunInv, Informed, BackupIsMade, Uncopied, RunReport
<1>10. BackupHolds(r)'
  BY <1>1, <1>2, <1>3, <1>4, <1>5, RepairAssumption
     DEF RunInv, RunTypeOK, Informed, Applying, Publishing, BackupHolds, Published, RunReport
<1>11. QED
  BY <1>1, <1>2, <1>3, <1>4, <1>6, <1>7, <1>8, <1>9, <1>10, QuietSound

\* From here on the run knows the catalog its command line resolves to.
LEMMA DiscoverSound ==
  ASSUME RunInv, NEW r \in Run, Discover(r)
  PROVE  RunInv'
<1> DEFINE found == ResolveCatalog(run[r].opts.found)
           met == run[r].opts.irregular \/ \E q \in Run : staged[q] # Nothing
           new == [run[r] EXCEPT !.pc = "read", !.catalog = found, !.strays = met]
<1>1. /\ run' = [run EXCEPT ![r] = new] /\ run[r] \in Rec /\ run[r].pc = "start" /\ ~FatalProblem(run[r].opts)
      /\ UNCHANGED <<verdict, source, target, backup, maker>> /\ staged' = staged
  BY DEF RunInv, RunTypeOK, Discover, At, files
<1>a. found \in Catalog \union {Nothing} /\ met \in BOOLEAN
  <2>1. run[r].opts \in CommandLine /\ run[r].opts.irregular \in BOOLEAN
    BY <1>1 DEF Rec, CommandLine
  <2>2. run[r].opts.found \in [CatalogSource -> Candidate \union {Nothing}]
    BY <2>1 DEF CommandLine
  <2>3. QED
    BY <2>1, <2>2, CatalogResolved
<1>b. run[r].outcome # "created"
  BY <1>1 DEF RunInv, TargetStands, Unlinked
<1> HIDE DEF met
<1>2. /\ new \in Rec /\ new.pc = "read" /\ new.catalog = found
      /\ new.opts = run[r].opts /\ new.rev = run[r].rev /\ new.outcome = run[r].outcome
      /\ new.copied = run[r].copied /\ new.stale = run[r].stale /\ new.unread = run[r].unread
      /\ new.leftover = run[r].leftover
      /\ new.report = run[r].report /\ new.exit = run[r].exit
  BY <1>1, <1>a DEF Rec, PC
<1> HIDE DEF new
<1>3. run'[r] = new
  BY <1>1 DEF RunInv, RunTypeOK
<1>4. /\ staged' \in [Run -> Successor \union {Partial, Nothing}]
      /\ \A q \in Run \ {r} : run'[q] = run[q] /\ staged'[q] = staged[q]
  BY <1>1 DEF RunInv, RunTypeOK
<1>5. CopyTaken => CopyTaken'
  BY <1>1, <1>2, <1>3, <1>4, TakenStays
<1>6. Informed(r)'
  BY <1>1, <1>2, <1>3, <1>4, RepairAssumption DEF RunInv, Informed, Applying, Publishing, Published, RunReport
<1>7. StagedIsOwn(r)'
  BY <1>1, <1>2, <1>3, <1>4 DEF RunInv, StagedIsOwn, ProductOf
<1>8. TargetStands(r)'
  BY <1>1, <1>2, <1>3, <1>4, RepairAssumption
     DEF RunInv, Informed, TargetStands, Unlinked, Published, RunReport, ProductOf
<1>9. BackupIsMade(r)'
  BY <1>1, <1>2, <1>3, <1>4, RepairAssumption DEF RunInv, Informed, BackupIsMade, Uncopied, RunReport
<1>10. BackupHolds(r)'
  BY <1>1, <1>2, <1>3, <1>4, <1>5, RepairAssumption
     DEF RunInv, RunTypeOK, Informed, Applying, Publishing, BackupHolds, Published, RunReport
<1>11. QED
  BY <1>1, <1>2, <1>b, <1>3, <1>4, <1>6, <1>7, <1>8, <1>9, <1>10, QuietSound

\* A log that loads ends the run.
LEMMA ReadLoadsSound ==
  ASSUME RunInv, NEW r \in Run, ReadLog(r), verdict[source] = "ok",
         Finish(r, [run[r] EXCEPT !.rev = source], "ok")
  PROVE  RunInv'
<1> DEFINE rec == [run[r] EXCEPT !.rev = source]
           new == Reported(rec, "ok")
<1>1. /\ run' = [run EXCEPT ![r] = new] /\ run[r] \in Rec /\ run[r].pc = "read"
      /\ UNCHANGED <<verdict, source, target, backup, maker>> /\ staged' = staged
  BY DEF RunInv, RunTypeOK, ReadLog, At, Finish, RepairableHere, files
<1>a. run[r].outcome # "created"
  BY <1>1 DEF RunInv, TargetStands, Unlinked
<1>b. /\ rec \in Rec /\ rec.opts = run[r].opts /\ rec.catalog = run[r].catalog
          /\ rec.rev = source /\ rec.outcome = run[r].outcome /\ rec.copied = run[r].copied
          /\ rec.stale = run[r].stale /\ rec.unread = run[r].unread /\ rec.leftover = run[r].leftover
  BY <1>1 DEF Rec, RunInv, RunTypeOK
<1> HIDE DEF rec
<1>2. /\ new \in Rec /\ new.pc = "done" /\ new.report = "ok"
      /\ new.exit = 0 => new.report \in {"ok", "already", "published"}
      /\ new.opts = run[r].opts /\ new.catalog = run[r].catalog /\ new.rev = source
      /\ new.outcome = run[r].outcome /\ new.copied = run[r].copied /\ new.stale = run[r].stale
      /\ new.unread = run[r].unread
      /\ new.leftover = run[r].leftover
  BY <1>b, ReportedFields DEF RunReport
<1> HIDE DEF new
<1>3. run'[r] = new
  BY <1>1 DEF RunInv, RunTypeOK
<1>4. /\ staged' \in [Run -> Successor \union {Partial, Nothing}]
      /\ \A q \in Run \ {r} : run'[q] = run[q] /\ staged'[q] = staged[q]
  BY <1>1 DEF RunInv, RunTypeOK
<1>5. CopyTaken => CopyTaken'
  BY <1>1, <1>2, <1>3, <1>4, TakenStays
<1>6. Informed(r)'
  BY <1>1, <1>2, <1>3, <1>4, RepairAssumption DEF RunInv, Informed, Applying, Publishing, Published, RunReport, RunTypeOK, Revision
<1>7. StagedIsOwn(r)'
  BY <1>1, <1>2, <1>3, <1>4 DEF RunInv, StagedIsOwn, ProductOf
<1>8. TargetStands(r)'
  BY <1>1, <1>2, <1>3, <1>4, RepairAssumption
     DEF RunInv, Informed, TargetStands, Unlinked, Published, RunReport, ProductOf
<1>9. BackupIsMade(r)'
  BY <1>1, <1>2, <1>3, <1>4, RepairAssumption DEF RunInv, Informed, BackupIsMade, Uncopied, RunReport
<1>10. BackupHolds(r)'
  BY <1>1, <1>2, <1>3, <1>4, <1>5, RepairAssumption
     DEF RunInv, RunTypeOK, Informed, Applying, Publishing, BackupHolds, Published, RunReport
<1>11. QED
  BY <1>1, <1>a, <1>2, <1>3, <1>4, <1>6, <1>7, <1>8, <1>9, <1>10, QuietSound

\* So does one that no rule repairs.
LEMMA ReadRefusedSound ==
  ASSUME RunInv, NEW r \in Run, ReadLog(r), verdict[source] # "ok", ~RepairableHere(r, source),
         Finish(r, [run[r] EXCEPT !.rev = source], "unrepairable")
  PROVE  RunInv'
<1> DEFINE rec == [run[r] EXCEPT !.rev = source]
           new == Reported(rec, "unrepairable")
<1>1. /\ run' = [run EXCEPT ![r] = new] /\ run[r] \in Rec /\ run[r].pc = "read"
      /\ UNCHANGED <<verdict, source, target, backup, maker>> /\ staged' = staged
  BY DEF RunInv, RunTypeOK, ReadLog, At, Finish, RepairableHere, files
<1>a. run[r].outcome # "created"
  BY <1>1 DEF RunInv, TargetStands, Unlinked
<1>b. /\ rec \in Rec /\ rec.opts = run[r].opts /\ rec.catalog = run[r].catalog
          /\ rec.rev = source /\ rec.outcome = run[r].outcome /\ rec.copied = run[r].copied
          /\ rec.stale = run[r].stale /\ rec.unread = run[r].unread /\ rec.leftover = run[r].leftover
  BY <1>1 DEF Rec, RunInv, RunTypeOK
<1> HIDE DEF rec
<1>2. /\ new \in Rec /\ new.pc = "done" /\ new.report = "unrepairable"
      /\ new.exit = 0 => new.report \in {"ok", "already", "published"}
      /\ new.opts = run[r].opts /\ new.catalog = run[r].catalog /\ new.rev = source
      /\ new.outcome = run[r].outcome /\ new.copied = run[r].copied /\ new.stale = run[r].stale
      /\ new.unread = run[r].unread
      /\ new.leftover = run[r].leftover
  BY <1>b, ReportedFields DEF RunReport
<1> HIDE DEF new
<1>3. run'[r] = new
  BY <1>1 DEF RunInv, RunTypeOK
<1>4. /\ staged' \in [Run -> Successor \union {Partial, Nothing}]
      /\ \A q \in Run \ {r} : run'[q] = run[q] /\ staged'[q] = staged[q]
  BY <1>1 DEF RunInv, RunTypeOK
<1>5. CopyTaken => CopyTaken'
  BY <1>1, <1>2, <1>3, <1>4, TakenStays
<1>6. Informed(r)'
  BY <1>1, <1>2, <1>3, <1>4, RepairAssumption DEF RunInv, Informed, Applying, Publishing, Published, RunReport, RunTypeOK, Revision
<1>7. StagedIsOwn(r)'
  BY <1>1, <1>2, <1>3, <1>4 DEF RunInv, StagedIsOwn, ProductOf
<1>8. TargetStands(r)'
  BY <1>1, <1>2, <1>3, <1>4, RepairAssumption
     DEF RunInv, Informed, TargetStands, Unlinked, Published, RunReport, ProductOf
<1>9. BackupIsMade(r)'
  BY <1>1, <1>2, <1>3, <1>4, RepairAssumption DEF RunInv, Informed, BackupIsMade, Uncopied, RunReport
<1>10. BackupHolds(r)'
  BY <1>1, <1>2, <1>3, <1>4, <1>5, RepairAssumption
     DEF RunInv, RunTypeOK, Informed, Applying, Publishing, BackupHolds, Published, RunReport
<1>11. QED
  BY <1>1, <1>a, <1>2, <1>3, <1>4, <1>6, <1>7, <1>8, <1>9, <1>10, QuietSound

\* A log that can be repaired is one the command line lets the run repair.
LEMMA ReadRepairableSound ==
  ASSUME RunInv, NEW r \in Run, ReadLog(r), verdict[source] # "ok", RepairableHere(r, source),
         NEW pc, pc = (IF ~run[r].opts.apply THEN "probe"
                       ELSE IF run[r].opts.backup THEN "backup" ELSE "recheck"),
         run' = [run EXCEPT ![r] = [run[r] EXCEPT !.rev = source, !.pc = pc]]
  PROVE  RunInv'
<1> DEFINE new == [run[r] EXCEPT !.rev = source, !.pc = pc]
<1>1. /\ run' = [run EXCEPT ![r] = new] /\ run[r] \in Rec /\ run[r].pc = "read"
      /\ UNCHANGED <<verdict, source, target, backup, maker>> /\ staged' = staged
  BY DEF RunInv, RunTypeOK, ReadLog, At, files
<1>a. run[r].outcome # "created"
  BY <1>1 DEF RunInv, TargetStands, Unlinked
<1>b. /\ pc \in PC /\ pc \in {"probe", "backup", "recheck"}
      /\ pc = "probe" <=> ~run[r].opts.apply
      /\ pc = "recheck" => ~run[r].opts.backup
      /\ verdict[source] \in {"lossy", "unpublishable", "repairable"}
      /\ verdict[source] = "lossy" => run[r].opts.drop
  <2>1. run[r].opts.apply \in BOOLEAN /\ run[r].opts.backup \in BOOLEAN
    BY <1>1 DEF Rec, CommandLine
  <2>2. QED
    BY <2>1 DEF PC, RepairableHere
<1>2. /\ new \in Rec /\ new.pc = pc /\ new.rev = source
      /\ new.opts = run[r].opts /\ new.catalog = run[r].catalog /\ new.outcome = run[r].outcome
      /\ new.copied = run[r].copied /\ new.stale = run[r].stale /\ new.unread = run[r].unread
      /\ new.leftover = run[r].leftover
      /\ new.report = run[r].report /\ new.exit = run[r].exit
  BY <1>1, <1>b DEF Rec, RunInv, RunTypeOK
<1> HIDE DEF new
<1>3. run'[r] = new
  BY <1>1 DEF RunInv, RunTypeOK
<1>4. /\ staged' \in [Run -> Successor \union {Partial, Nothing}]
      /\ \A q \in Run \ {r} : run'[q] = run[q] /\ staged'[q] = staged[q]
  BY <1>1 DEF RunInv, RunTypeOK
<1>5. CopyTaken => CopyTaken'
  BY <1>1, <1>a, <1>b, <1>2, <1>3, <1>4, TakenStays
<1>6. Informed(r)'
  BY <1>1, <1>a, <1>b, <1>2, <1>3, <1>4, RepairAssumption DEF RunInv, Informed, Applying, Publishing, Published, RunReport, RunTypeOK, Revision
<1>7. StagedIsOwn(r)'
  BY <1>1, <1>a, <1>b, <1>2, <1>3, <1>4 DEF RunInv, StagedIsOwn, ProductOf
<1>8. TargetStands(r)'
  BY <1>1, <1>a, <1>b, <1>2, <1>3, <1>4, RepairAssumption
     DEF RunInv, Informed, TargetStands, Unlinked, Published, RunReport, ProductOf
<1>9. BackupIsMade(r)'
  BY <1>1, <1>a, <1>b, <1>2, <1>3, <1>4, RepairAssumption DEF RunInv, Informed, BackupIsMade, Uncopied, RunReport
<1>10. BackupHolds(r)'
  BY <1>1, <1>a, <1>b, <1>2, <1>3, <1>4, <1>5, RepairAssumption
     DEF RunInv, RunTypeOK, Informed, Applying, Publishing, BackupHolds, Published, RunReport
<1>11. QED
  BY <1>1, <1>a, <1>b, <1>2, <1>3, <1>4, <1>6, <1>7, <1>8, <1>9, <1>10, QuietSound

\* What a run knows does not change by what others do to the files it shares.
LEMMA InformedKept ==
  ASSUME NEW q \in Run, Informed(q), run'[q] = run[q], UNCHANGED <<verdict, source>>
  PROVE  Informed(q)'
BY DEF Informed, Published

\* A run that applies a repair has a catalog, so what it builds is a whole successor.
LEMMA ProductWhole ==
  ASSUME RunInv, NEW r \in Run, run[r].pc \in Applying \/ Published(r)
  PROVE  ProductOf(r) \in Successor
<1>1. /\ run[r] \in Rec /\ ~FatalProblem(run[r].opts) /\ run[r].opts.apply
      /\ run[r].catalog = ResolveCatalog(run[r].opts.found) /\ run[r].rev # Nothing
  BY DEF RunInv, RunTypeOK, Informed
<1>2. run[r].catalog \in Catalog
  BY <1>1 DEF Rec, FatalProblem
<1>3. run[r].rev \in Revision
  BY <1>1 DEF Rec
<1>4. QED
  BY <1>2, <1>3 DEF ProductOf, Successor, Catalog

\* A run that ends before it touched a file changes nothing but its report.
LEMMA QuietReportSound ==
  ASSUME RunInv, NEW r \in Run, NEW result \in {"unrepairable", "already", "repairable", "failed"},
         At(r, "read") \/ At(r, "probe") \/ At(r, "backup"), result = "already" => At(r, "probe"),
         Finish(r, run[r], result), UNCHANGED <<verdict, files>>
  PROVE  RunInv'
<1> DEFINE new == Reported(run[r], result)
<1>1. /\ run' = [run EXCEPT ![r] = new] /\ run[r] \in Rec
      /\ run[r].pc \in {"read", "probe", "backup"} /\ (result = "already" => run[r].pc = "probe")
      /\ UNCHANGED <<verdict, source, target, backup, maker>> /\ staged' = staged
  BY DEF RunInv, RunTypeOK, At, Finish, files
<1>a. result \in {"unrepairable", "already", "repairable", "failed"}
  OBVIOUS
<1>2. /\ new \in Rec /\ new.pc = "done" /\ new.report = result
      /\ new.exit = 0 => new.report \in {"ok", "already", "published"}
      /\ new.opts = run[r].opts /\ new.catalog = run[r].catalog /\ new.rev = run[r].rev
      /\ new.outcome = run[r].outcome /\ new.copied = run[r].copied /\ new.stale = run[r].stale
      /\ new.unread = run[r].unread
      /\ new.leftover = run[r].leftover
  BY <1>1, <1>a, ReportedFields DEF RunReport
<1> HIDE DEF new
<1>3. run'[r] = new
  BY <1>1 DEF RunInv, RunTypeOK
<1>4. /\ staged' \in [Run -> Successor \union {Partial, Nothing}]
      /\ \A q \in Run \ {r} : run'[q] = run[q] /\ staged'[q] = staged[q]
  BY <1>1 DEF RunInv, RunTypeOK
<1>5. CopyTaken => CopyTaken'
  BY <1>1, <1>a, <1>2, <1>3, <1>4, TakenStays
<1>6. Informed(r)'
  BY <1>1, <1>a, <1>2, <1>3, <1>4, RepairAssumption DEF RunInv, Informed, Applying, Publishing, Published, RunReport
<1>7. StagedIsOwn(r)'
  BY <1>1, <1>a, <1>2, <1>3, <1>4 DEF RunInv, StagedIsOwn, ProductOf
<1>8. TargetStands(r)'
  BY <1>1, <1>a, <1>2, <1>3, <1>4, RepairAssumption
     DEF RunInv, Informed, TargetStands, Unlinked, Published, RunReport, ProductOf
<1>9. BackupIsMade(r)'
  BY <1>1, <1>a, <1>2, <1>3, <1>4, RepairAssumption DEF RunInv, Informed, BackupIsMade, Uncopied, RunReport
<1>10. BackupHolds(r)'
  BY <1>1, <1>a, <1>2, <1>3, <1>4, <1>5, RepairAssumption
     DEF RunInv, RunTypeOK, Informed, Applying, Publishing, BackupHolds, Published, RunReport
<1>11. QED
  BY <1>1, <1>a, <1>2, <1>3, <1>4, <1>6, <1>7, <1>8, <1>9, <1>10, QuietSound

\* Report mode changes nothing, whatever it finds.
LEMMA ProbeSuccessorSound ==
  ASSUME RunInv, NEW r \in Run, ProbeSuccessor(r)
  PROVE  RunInv'
BY QuietReportSound DEF ProbeSuccessor

\* Whatever triage says of the log, reading it touches nothing but the run's report.
LEMMA ReadLogSound ==
  ASSUME RunInv, NEW r \in Run, ReadLog(r)
  PROVE  RunInv'
<1> DEFINE rec == [run[r] EXCEPT !.rev = source]
           pc == IF ~rec.opts.apply THEN "probe"
                 ELSE IF rec.opts.backup THEN "backup" ELSE "recheck"
<1>1. At(r, "read") /\ UNCHANGED <<verdict, files>>
  BY DEF ReadLog
<1>2. CASE Finish(r, run[r], "unrepairable")
  BY <1>1, <1>2, QuietReportSound
<1>3. CASE verdict[source] = "ok" /\ Finish(r, rec, "ok")
  BY <1>3, ReadLoadsSound
<1>4. CASE verdict[source] # "ok" /\ ~RepairableHere(r, source) /\ Finish(r, rec, "unrepairable")
  BY <1>4, ReadRefusedSound
<1>5. CASE verdict[source] # "ok" /\ RepairableHere(r, source)
           /\ run' = [run EXCEPT ![r] = [rec EXCEPT !.pc = pc]]
  <2>1. run[r] \in Rec
    BY DEF RunInv, RunTypeOK
  <2>2. rec.opts = run[r].opts /\ [rec EXCEPT !.pc = pc] = [run[r] EXCEPT !.rev = source, !.pc = pc]
    BY <2>1 DEF Rec
  <2>3. PICK goal : goal = pc
    OBVIOUS
  <2>4. goal = (IF ~run[r].opts.apply THEN "probe"
                ELSE IF run[r].opts.backup THEN "backup" ELSE "recheck")
    BY <2>2, <2>3
  <2>5. run' = [run EXCEPT ![r] = [run[r] EXCEPT !.rev = source, !.pc = goal]]
    BY <1>5, <2>2, <2>3
  <2>6. QED
    BY <1>5, <2>4, <2>5, ReadRepairableSound
<1>6. QED
  BY <1>2, <1>3, <1>4, <1>5 DEF ReadLog

\* An equal copy that is there already serves the repair.
LEMMA AcceptBackupSound ==
  ASSUME RunInv, NEW r \in Run, AcceptBackup(r)
  PROVE  RunInv'
<1> DEFINE new == [run[r] EXCEPT !.pc = "recheck"]
<1>1. /\ run' = [run EXCEPT ![r] = new] /\ run[r] \in Rec /\ run[r].pc = "backup" /\ backup = source
      /\ UNCHANGED <<verdict, source, target, backup, maker>> /\ staged' = staged
  BY DEF RunInv, RunTypeOK, AcceptBackup, At, Goto, files
<1>2. /\ new \in Rec /\ new.pc = "recheck"
      /\ new.opts = run[r].opts /\ new.catalog = run[r].catalog /\ new.rev = run[r].rev
      /\ new.outcome = run[r].outcome /\ new.copied = run[r].copied /\ new.stale = run[r].stale
      /\ new.unread = run[r].unread
      /\ new.leftover = run[r].leftover /\ new.report = run[r].report /\ new.exit = run[r].exit
  BY <1>1 DEF Rec, PC
<1> HIDE DEF new
<1>3. run'[r] = new
  BY <1>1 DEF RunInv, RunTypeOK
<1>4. /\ staged' \in [Run -> Successor \union {Partial, Nothing}]
      /\ \A q \in Run \ {r} : run'[q] = run[q] /\ staged'[q] = staged[q]
  BY <1>1 DEF RunInv, RunTypeOK
<1>5. CopyTaken => CopyTaken'
  BY <1>1, <1>2, <1>3, <1>4, TakenStays
<1>6. Informed(r)'
  BY <1>1, <1>2, <1>3, <1>4, RepairAssumption DEF RunInv, Informed, Applying, Publishing, Published, RunReport
<1>7. StagedIsOwn(r)'
  BY <1>1, <1>2, <1>3, <1>4 DEF RunInv, StagedIsOwn, ProductOf
<1>8. TargetStands(r)'
  BY <1>1, <1>2, <1>3, <1>4, RepairAssumption
     DEF RunInv, Informed, TargetStands, Unlinked, Published, RunReport, ProductOf
<1>9. BackupIsMade(r)'
  BY <1>1, <1>2, <1>3, <1>4, RepairAssumption DEF RunInv, Informed, BackupIsMade, Uncopied, RunReport
<1>10. BackupHolds(r)'
  BY <1>1, <1>2, <1>3, <1>4, <1>5, RepairAssumption
     DEF RunInv, RunTypeOK, Informed, Applying, Publishing, BackupHolds, Published, RunReport, Revision
<1>11. QED
  BY <1>1, <1>2, <1>3, <1>4, <1>6, <1>7, <1>8, <1>9, <1>10, QuietSound

\* Any other copy refuses it, before the run has made a file; so does a copy that
\* cannot be made.
LEMMA BackupFailsSound ==
  ASSUME RunInv, NEW r \in Run, BackupFails(r)
  PROVE  RunInv'
BY QuietReportSound DEF BackupFails

\* The run publishes what it read only while the log is what it read.
LEMMA RecheckPassesSound ==
  ASSUME RunInv, NEW r \in Run, RecheckSource(r), source = run[r].rev, verdict[source] # "unpublishable",
         Goto(r, "stage")
  PROVE  RunInv'
<1> DEFINE new == [run[r] EXCEPT !.pc = "stage"]
<1>1. /\ run' = [run EXCEPT ![r] = new] /\ run[r] \in Rec /\ run[r].pc = "recheck" /\ source = run[r].rev /\ verdict[source] # "unpublishable"
      /\ UNCHANGED <<verdict, source, target, backup, maker>> /\ staged' = staged
  BY DEF RunInv, RunTypeOK, RecheckSource, At, Goto, files
<1>2. /\ new \in Rec /\ new.pc = "stage"
      /\ new.opts = run[r].opts /\ new.catalog = run[r].catalog /\ new.rev = run[r].rev
      /\ new.outcome = run[r].outcome /\ new.copied = run[r].copied /\ new.stale = run[r].stale
      /\ new.unread = run[r].unread
      /\ new.leftover = run[r].leftover /\ new.report = run[r].report /\ new.exit = run[r].exit
  BY <1>1 DEF Rec, PC
<1> HIDE DEF new
<1>3. run'[r] = new
  BY <1>1 DEF RunInv, RunTypeOK
<1>4. /\ staged' \in [Run -> Successor \union {Partial, Nothing}]
      /\ \A q \in Run \ {r} : run'[q] = run[q] /\ staged'[q] = staged[q]
  BY <1>1 DEF RunInv, RunTypeOK
<1>5. CopyTaken => CopyTaken'
  BY <1>1, <1>2, <1>3, <1>4, TakenStays
<1>6. Informed(r)'
  BY <1>1, <1>2, <1>3, <1>4, RepairAssumption DEF RunInv, Informed, Applying, Publishing, Published, RunReport
<1>7. StagedIsOwn(r)'
  BY <1>1, <1>2, <1>3, <1>4 DEF RunInv, StagedIsOwn, ProductOf
<1>8. TargetStands(r)'
  BY <1>1, <1>2, <1>3, <1>4, RepairAssumption
     DEF RunInv, Informed, TargetStands, Unlinked, Published, RunReport, ProductOf
<1>9. BackupIsMade(r)'
  BY <1>1, <1>2, <1>3, <1>4, RepairAssumption DEF RunInv, Informed, BackupIsMade, Uncopied, RunReport
<1>10. BackupHolds(r)'
  BY <1>1, <1>2, <1>3, <1>4, <1>5, RepairAssumption
     DEF RunInv, RunTypeOK, Informed, Applying, Publishing, BackupHolds, Published, RunReport, Revision
<1>11. QED
  BY <1>1, <1>2, <1>3, <1>4, <1>6, <1>7, <1>8, <1>9, <1>10, QuietSound

\* Otherwise it goes on to remove what it made.
LEMMA RecheckFailsSound ==
  ASSUME RunInv, NEW r \in Run, RecheckSource(r), Goto(r, "discard")
  PROVE  RunInv'
<1> DEFINE new == [run[r] EXCEPT !.pc = "discard"]
<1>1. /\ run' = [run EXCEPT ![r] = new] /\ run[r] \in Rec /\ run[r].pc = "recheck"
      /\ UNCHANGED <<verdict, source, target, backup, maker>> /\ staged' = staged
  BY DEF RunInv, RunTypeOK, RecheckSource, At, Goto, files
<1>2. /\ new \in Rec /\ new.pc = "discard"
      /\ new.opts = run[r].opts /\ new.catalog = run[r].catalog /\ new.rev = run[r].rev
      /\ new.outcome = run[r].outcome /\ new.copied = run[r].copied /\ new.stale = run[r].stale
      /\ new.unread = run[r].unread
      /\ new.leftover = run[r].leftover /\ new.report = run[r].report /\ new.exit = run[r].exit
  BY <1>1 DEF Rec, PC
<1> HIDE DEF new
<1>3. run'[r] = new
  BY <1>1 DEF RunInv, RunTypeOK
<1>4. /\ staged' \in [Run -> Successor \union {Partial, Nothing}]
      /\ \A q \in Run \ {r} : run'[q] = run[q] /\ staged'[q] = staged[q]
  BY <1>1 DEF RunInv, RunTypeOK
<1>5. CopyTaken => CopyTaken'
  BY <1>1, <1>2, <1>3, <1>4, TakenStays
<1>6. Informed(r)'
  BY <1>1, <1>2, <1>3, <1>4, RepairAssumption DEF RunInv, Informed, Applying, Publishing, Published, RunReport
<1>7. StagedIsOwn(r)'
  BY <1>1, <1>2, <1>3, <1>4 DEF RunInv, StagedIsOwn, ProductOf
<1>8. TargetStands(r)'
  BY <1>1, <1>2, <1>3, <1>4, RepairAssumption
     DEF RunInv, Informed, TargetStands, Unlinked, Published, RunReport, ProductOf
<1>9. BackupIsMade(r)'
  BY <1>1, <1>2, <1>3, <1>4, RepairAssumption DEF RunInv, Informed, BackupIsMade, Uncopied, RunReport
<1>10. BackupHolds(r)'
  BY <1>1, <1>2, <1>3, <1>4, <1>5, RepairAssumption
     DEF RunInv, RunTypeOK, Informed, Applying, Publishing, BackupHolds, Published, RunReport
<1>11. QED
  BY <1>1, <1>2, <1>3, <1>4, <1>6, <1>7, <1>8, <1>9, <1>10, QuietSound

\* A publication is reported while its successor stands.
LEMMA ConfirmPublishesSound ==
  ASSUME RunInv, NEW r \in Run, ConfirmSource(r), source = run[r].rev,
         Finish(r, run[r], "published")
  PROVE  RunInv'
<1> DEFINE new == Reported(run[r], "published")
<1>1. /\ run' = [run EXCEPT ![r] = new] /\ run[r] \in Rec /\ run[r].pc = "confirm" /\ source = run[r].rev
      /\ UNCHANGED <<verdict, source, target, backup, maker>> /\ staged' = staged
  BY DEF RunInv, RunTypeOK, ConfirmSource, At, Finish, files
<1>2. /\ new \in Rec /\ new.pc = "done" /\ new.report = "published"
      /\ new.exit = 0 => new.report \in {"ok", "already", "published"}
      /\ new.opts = run[r].opts /\ new.catalog = run[r].catalog /\ new.rev = run[r].rev
      /\ new.outcome = run[r].outcome /\ new.copied = run[r].copied /\ new.stale = run[r].stale
      /\ new.unread = run[r].unread
      /\ new.leftover = run[r].leftover
  BY <1>1, ReportedFields DEF RunReport
<1> HIDE DEF new
<1>3. run'[r] = new
  BY <1>1 DEF RunInv, RunTypeOK
<1>4. /\ staged' \in [Run -> Successor \union {Partial, Nothing}]
      /\ \A q \in Run \ {r} : run'[q] = run[q] /\ staged'[q] = staged[q]
  BY <1>1 DEF RunInv, RunTypeOK
<1>5. CopyTaken => CopyTaken'
  BY <1>1, <1>2, <1>3, <1>4, TakenStays
<1>6. Informed(r)'
  BY <1>1, <1>2, <1>3, <1>4, RepairAssumption DEF RunInv, Informed, Applying, Publishing, Published, RunReport
<1>7. StagedIsOwn(r)'
  BY <1>1, <1>2, <1>3, <1>4 DEF RunInv, StagedIsOwn, ProductOf
<1>8. TargetStands(r)'
  BY <1>1, <1>2, <1>3, <1>4, RepairAssumption
     DEF RunInv, Informed, TargetStands, Unlinked, Published, RunReport, ProductOf
<1>9. BackupIsMade(r)'
  BY <1>1, <1>2, <1>3, <1>4, RepairAssumption DEF RunInv, Informed, BackupIsMade, Uncopied, RunReport
<1>10. BackupHolds(r)'
  BY <1>1, <1>2, <1>3, <1>4, <1>5, RepairAssumption
     DEF RunInv, RunTypeOK, Informed, Applying, Publishing, BackupHolds, Published, RunReport
<1>11. QED
  BY <1>1, <1>2, <1>3, <1>4, <1>6, <1>7, <1>8, <1>9, <1>10, QuietSound

\* One the log has outrun is settled.
LEMMA ConfirmMovesOnSound ==
  ASSUME RunInv, NEW r \in Run, ConfirmSource(r), source # run[r].rev, Goto(r, "settle")
  PROVE  RunInv'
<1> DEFINE new == [run[r] EXCEPT !.pc = "settle"]
<1>1. /\ run' = [run EXCEPT ![r] = new] /\ run[r] \in Rec /\ run[r].pc = "confirm" /\ source # run[r].rev
      /\ UNCHANGED <<verdict, source, target, backup, maker>> /\ staged' = staged
  BY DEF RunInv, RunTypeOK, ConfirmSource, At, Goto, files
<1>2. /\ new \in Rec /\ new.pc = "settle"
      /\ new.opts = run[r].opts /\ new.catalog = run[r].catalog /\ new.rev = run[r].rev
      /\ new.outcome = run[r].outcome /\ new.copied = run[r].copied /\ new.stale = run[r].stale
      /\ new.unread = run[r].unread
      /\ new.leftover = run[r].leftover /\ new.report = run[r].report /\ new.exit = run[r].exit
  BY <1>1 DEF Rec, PC
<1> HIDE DEF new
<1>3. run'[r] = new
  BY <1>1 DEF RunInv, RunTypeOK
<1>4. /\ staged' \in [Run -> Successor \union {Partial, Nothing}]
      /\ \A q \in Run \ {r} : run'[q] = run[q] /\ staged'[q] = staged[q]
  BY <1>1 DEF RunInv, RunTypeOK
<1>5. CopyTaken => CopyTaken'
  BY <1>1, <1>2, <1>3, <1>4, TakenStays
<1>6. Informed(r)'
  BY <1>1, <1>2, <1>3, <1>4, RepairAssumption DEF RunInv, Informed, Applying, Publishing, Published, RunReport
<1>7. StagedIsOwn(r)'
  BY <1>1, <1>2, <1>3, <1>4 DEF RunInv, StagedIsOwn, ProductOf
<1>8. TargetStands(r)'
  BY <1>1, <1>2, <1>3, <1>4, RepairAssumption
     DEF RunInv, Informed, TargetStands, Unlinked, Published, RunReport, ProductOf
<1>9. BackupIsMade(r)'
  BY <1>1, <1>2, <1>3, <1>4, RepairAssumption DEF RunInv, Informed, BackupIsMade, Uncopied, RunReport
<1>10. BackupHolds(r)'
  BY <1>1, <1>2, <1>3, <1>4, <1>5, RepairAssumption
     DEF RunInv, RunTypeOK, Informed, Applying, Publishing, BackupHolds, Published, RunReport
<1>11. QED
  BY <1>1, <1>2, <1>3, <1>4, <1>6, <1>7, <1>8, <1>9, <1>10, QuietSound

\* A run that dies leaves its files where they are.
LEMMA CrashSound ==
  ASSUME RunInv, NEW r \in Run, Crash(r)
  PROVE  RunInv'
<1> DEFINE new == [run[r] EXCEPT !.pc = "crashed"]
<1>1. /\ run' = [run EXCEPT ![r] = new] /\ run[r] \in Rec /\ run[r].pc \notin {"start", "done", "crashed"}
      /\ UNCHANGED <<verdict, source, target, backup, maker>> /\ staged' = staged
  BY DEF RunInv, RunTypeOK, Crash, At, Goto, files
<1>2. /\ new \in Rec /\ new.pc = "crashed"
      /\ new.opts = run[r].opts /\ new.catalog = run[r].catalog /\ new.rev = run[r].rev
      /\ new.outcome = run[r].outcome /\ new.copied = run[r].copied /\ new.stale = run[r].stale
      /\ new.unread = run[r].unread
      /\ new.leftover = run[r].leftover /\ new.report = run[r].report /\ new.exit = run[r].exit
  BY <1>1 DEF Rec, PC
<1> HIDE DEF new
<1>3. run'[r] = new
  BY <1>1 DEF RunInv, RunTypeOK
<1>4. /\ staged' \in [Run -> Successor \union {Partial, Nothing}]
      /\ \A q \in Run \ {r} : run'[q] = run[q] /\ staged'[q] = staged[q]
  BY <1>1 DEF RunInv, RunTypeOK
<1>5. CopyTaken => CopyTaken'
  BY <1>1, <1>2, <1>3, <1>4, TakenStays
<1>6. Informed(r)'
  BY <1>1, <1>2, <1>3, <1>4, RepairAssumption DEF RunInv, Informed, Applying, Publishing, Published, RunReport
<1>7. StagedIsOwn(r)'
  BY <1>1, <1>2, <1>3, <1>4 DEF RunInv, StagedIsOwn, ProductOf
<1>8. TargetStands(r)'
  BY <1>1, <1>2, <1>3, <1>4, RepairAssumption
     DEF RunInv, Informed, TargetStands, Unlinked, Published, RunReport, ProductOf
<1>9. BackupIsMade(r)'
  BY <1>1, <1>2, <1>3, <1>4, RepairAssumption DEF RunInv, Informed, BackupIsMade, Uncopied, RunReport
<1>10. BackupHolds(r)'
  BY <1>1, <1>2, <1>3, <1>4, <1>5, RepairAssumption
     DEF RunInv, RunTypeOK, Informed, Applying, Publishing, BackupHolds, Published, RunReport
<1>11. QED
  BY <1>1, <1>2, <1>3, <1>4, <1>6, <1>7, <1>8, <1>9, <1>10, QuietSound

\* The temporary is the run's own file.
LEMMA OpenStagedSound ==
  ASSUME RunInv, NEW r \in Run, OpenStaged(r)
  PROVE  RunInv'
<1> DEFINE new == [run[r] EXCEPT !.pc = "write"]
<1>1. /\ run' = [run EXCEPT ![r] = new] /\ run[r] \in Rec /\ run[r].pc = "stage"
      /\ UNCHANGED <<verdict, source, target, backup, maker>>
      /\ staged' = [staged EXCEPT ![r] = Partial]
  BY DEF RunInv, RunTypeOK, OpenStaged, At, Goto, files
<1>2. /\ new \in Rec /\ new.pc = "write"
      /\ new.opts = run[r].opts /\ new.catalog = run[r].catalog /\ new.rev = run[r].rev
      /\ new.outcome = run[r].outcome /\ new.copied = run[r].copied /\ new.stale = run[r].stale
      /\ new.unread = run[r].unread
      /\ new.leftover = run[r].leftover /\ new.report = run[r].report /\ new.exit = run[r].exit
  BY <1>1 DEF Rec, PC
<1> HIDE DEF new
<1>3. run'[r] = new
  BY <1>1 DEF RunInv, RunTypeOK
<1>4. /\ staged' \in [Run -> Successor \union {Partial, Nothing}]
      /\ \A q \in Run \ {r} : run'[q] = run[q] /\ staged'[q] = staged[q]
  BY <1>1 DEF RunInv, RunTypeOK
<1>5. CopyTaken => CopyTaken'
  BY <1>1, <1>2, <1>3, <1>4, TakenStays
<1>6. Informed(r)'
  BY <1>1, <1>2, <1>3, <1>4, RepairAssumption DEF RunInv, Informed, Applying, Publishing, Published, RunReport
<1>7. StagedIsOwn(r)'
  BY <1>1, <1>2, <1>3, <1>4 DEF RunInv, StagedIsOwn, ProductOf
<1>8. TargetStands(r)'
  BY <1>1, <1>2, <1>3, <1>4, RepairAssumption
     DEF RunInv, Informed, TargetStands, Unlinked, Published, RunReport, ProductOf
<1>9. BackupIsMade(r)'
  BY <1>1, <1>2, <1>3, <1>4, RepairAssumption DEF RunInv, Informed, BackupIsMade, Uncopied, RunReport
<1>10. BackupHolds(r)'
  BY <1>1, <1>2, <1>3, <1>4, <1>5, RepairAssumption
     DEF RunInv, RunTypeOK, Informed, Applying, Publishing, BackupHolds, Published, RunReport
<1>11. QED
  BY <1>1, <1>2, <1>3, <1>4, <1>6, <1>7, <1>8, <1>9, <1>10, QuietSound

\* Written whole, it holds the successor of the revision the run read.
LEMMA WriteWholeSound ==
  ASSUME RunInv, NEW r \in Run, WriteStaged(r), staged' = [staged EXCEPT ![r] = ProductOf(r)], Goto(r, "link")
  PROVE  RunInv'
<1> DEFINE new == [run[r] EXCEPT !.pc = "link"]
<1>1. /\ run' = [run EXCEPT ![r] = new] /\ run[r] \in Rec /\ run[r].pc = "write"
      /\ UNCHANGED <<verdict, source, target, backup, maker>>
      /\ staged' = [staged EXCEPT ![r] = ProductOf(r)]
  BY DEF RunInv, RunTypeOK, WriteStaged, At, Goto, files
<1>a. ProductOf(r) \in Successor
  BY <1>1, ProductWhole DEF Applying
<1>2. /\ new \in Rec /\ new.pc = "link"
      /\ new.opts = run[r].opts /\ new.catalog = run[r].catalog /\ new.rev = run[r].rev
      /\ new.outcome = run[r].outcome /\ new.copied = run[r].copied /\ new.stale = run[r].stale
      /\ new.unread = run[r].unread
      /\ new.leftover = run[r].leftover /\ new.report = run[r].report /\ new.exit = run[r].exit
  BY <1>1 DEF Rec, PC
<1> HIDE DEF new
<1>3. run'[r] = new
  BY <1>1 DEF RunInv, RunTypeOK
<1>4. /\ staged' \in [Run -> Successor \union {Partial, Nothing}]
      /\ \A q \in Run \ {r} : run'[q] = run[q] /\ staged'[q] = staged[q]
  BY <1>1, <1>a DEF RunInv, RunTypeOK
<1>5. CopyTaken => CopyTaken'
  BY <1>1, <1>2, <1>3, <1>4, TakenStays
<1>6. Informed(r)'
  BY <1>1, <1>2, <1>3, <1>4, RepairAssumption DEF RunInv, Informed, Applying, Publishing, Published, RunReport
<1>7. StagedIsOwn(r)'
  BY <1>1, <1>2, <1>3, <1>4 DEF RunInv, StagedIsOwn, ProductOf
<1>8. TargetStands(r)'
  BY <1>1, <1>2, <1>3, <1>4, RepairAssumption
     DEF RunInv, Informed, TargetStands, Unlinked, Published, RunReport, ProductOf
<1>9. BackupIsMade(r)'
  BY <1>1, <1>2, <1>3, <1>4, RepairAssumption DEF RunInv, Informed, BackupIsMade, Uncopied, RunReport
<1>10. BackupHolds(r)'
  BY <1>1, <1>2, <1>3, <1>4, <1>5, RepairAssumption
     DEF RunInv, RunTypeOK, Informed, Applying, Publishing, BackupHolds, Published, RunReport
<1>11. QED
  BY <1>1, <1>2, <1>3, <1>4, <1>6, <1>7, <1>8, <1>9, <1>10, QuietSound

\* Written in part, it is taken away.
LEMMA WriteStopsSound ==
  ASSUME RunInv, NEW r \in Run, WriteStaged(r), UNCHANGED staged, Goto(r, "cleanup")
  PROVE  RunInv'
<1> DEFINE new == [run[r] EXCEPT !.pc = "cleanup"]
<1>1. /\ run' = [run EXCEPT ![r] = new] /\ run[r] \in Rec /\ run[r].pc = "write"
      /\ UNCHANGED <<verdict, source, target, backup, maker>> /\ staged' = staged
  BY DEF RunInv, RunTypeOK, WriteStaged, At, Goto, files
<1>2. /\ new \in Rec /\ new.pc = "cleanup"
      /\ new.opts = run[r].opts /\ new.catalog = run[r].catalog /\ new.rev = run[r].rev
      /\ new.outcome = run[r].outcome /\ new.copied = run[r].copied /\ new.stale = run[r].stale
      /\ new.unread = run[r].unread
      /\ new.leftover = run[r].leftover /\ new.report = run[r].report /\ new.exit = run[r].exit
  BY <1>1 DEF Rec, PC
<1> HIDE DEF new
<1>3. run'[r] = new
  BY <1>1 DEF RunInv, RunTypeOK
<1>4. /\ staged' \in [Run -> Successor \union {Partial, Nothing}]
      /\ \A q \in Run \ {r} : run'[q] = run[q] /\ staged'[q] = staged[q]
  BY <1>1 DEF RunInv, RunTypeOK
<1>5. CopyTaken => CopyTaken'
  BY <1>1, <1>2, <1>3, <1>4, TakenStays
<1>6. Informed(r)'
  BY <1>1, <1>2, <1>3, <1>4, RepairAssumption DEF RunInv, Informed, Applying, Publishing, Published, RunReport
<1>7. StagedIsOwn(r)'
  BY <1>1, <1>2, <1>3, <1>4 DEF RunInv, StagedIsOwn, ProductOf
<1>8. TargetStands(r)'
  BY <1>1, <1>2, <1>3, <1>4, RepairAssumption
     DEF RunInv, Informed, TargetStands, Unlinked, Published, RunReport, ProductOf
<1>9. BackupIsMade(r)'
  BY <1>1, <1>2, <1>3, <1>4, RepairAssumption DEF RunInv, Informed, BackupIsMade, Uncopied, RunReport
<1>10. BackupHolds(r)'
  BY <1>1, <1>2, <1>3, <1>4, <1>5, RepairAssumption
     DEF RunInv, RunTypeOK, Informed, Applying, Publishing, BackupHolds, Published, RunReport
<1>11. QED
  BY <1>1, <1>2, <1>3, <1>4, <1>6, <1>7, <1>8, <1>9, <1>10, QuietSound

\* A temporary of a failed run is gone.
LEMMA CleanupDoneSound ==
  ASSUME RunInv, NEW r \in Run, Cleanup(r), staged' = [staged EXCEPT ![r] = Nothing], Goto(r, "discard")
  PROVE  RunInv'
<1> DEFINE new == [run[r] EXCEPT !.pc = "discard"]
<1>1. /\ run' = [run EXCEPT ![r] = new] /\ run[r] \in Rec /\ run[r].pc = "cleanup"
      /\ UNCHANGED <<verdict, source, target, backup, maker>>
      /\ staged' = [staged EXCEPT ![r] = Nothing]
  BY DEF RunInv, RunTypeOK, Cleanup, At, Goto, files
<1>2. /\ new \in Rec /\ new.pc = "discard"
      /\ new.opts = run[r].opts /\ new.catalog = run[r].catalog /\ new.rev = run[r].rev
      /\ new.outcome = run[r].outcome /\ new.copied = run[r].copied /\ new.stale = run[r].stale
      /\ new.unread = run[r].unread
      /\ new.leftover = run[r].leftover /\ new.report = run[r].report /\ new.exit = run[r].exit
  BY <1>1 DEF Rec, PC
<1> HIDE DEF new
<1>3. run'[r] = new
  BY <1>1 DEF RunInv, RunTypeOK
<1>4. /\ staged' \in [Run -> Successor \union {Partial, Nothing}]
      /\ \A q \in Run \ {r} : run'[q] = run[q] /\ staged'[q] = staged[q]
  BY <1>1 DEF RunInv, RunTypeOK
<1>5. CopyTaken => CopyTaken'
  BY <1>1, <1>2, <1>3, <1>4, TakenStays
<1>6. Informed(r)'
  BY <1>1, <1>2, <1>3, <1>4, RepairAssumption DEF RunInv, Informed, Applying, Publishing, Published, RunReport
<1>7. StagedIsOwn(r)'
  BY <1>1, <1>2, <1>3, <1>4 DEF RunInv, StagedIsOwn, ProductOf
<1>8. TargetStands(r)'
  BY <1>1, <1>2, <1>3, <1>4, RepairAssumption
     DEF RunInv, Informed, TargetStands, Unlinked, Published, RunReport, ProductOf
<1>9. BackupIsMade(r)'
  BY <1>1, <1>2, <1>3, <1>4, RepairAssumption DEF RunInv, Informed, BackupIsMade, Uncopied, RunReport
<1>10. BackupHolds(r)'
  BY <1>1, <1>2, <1>3, <1>4, <1>5, RepairAssumption
     DEF RunInv, RunTypeOK, Informed, Applying, Publishing, BackupHolds, Published, RunReport
<1>11. QED
  BY <1>1, <1>2, <1>3, <1>4, <1>6, <1>7, <1>8, <1>9, <1>10, QuietSound

\* So is that of a run that has published.
LEMMA UnstageDoneSound ==
  ASSUME RunInv, NEW r \in Run, Unstage(r), staged' = [staged EXCEPT ![r] = Nothing], Goto(r, "confirm")
  PROVE  RunInv'
<1> DEFINE new == [run[r] EXCEPT !.pc = "confirm"]
<1>1. /\ run' = [run EXCEPT ![r] = new] /\ run[r] \in Rec /\ run[r].pc = "unstage"
      /\ UNCHANGED <<verdict, source, target, backup, maker>>
      /\ staged' = [staged EXCEPT ![r] = Nothing]
  BY DEF RunInv, RunTypeOK, Unstage, At, Goto, files
<1>2. /\ new \in Rec /\ new.pc = "confirm"
      /\ new.opts = run[r].opts /\ new.catalog = run[r].catalog /\ new.rev = run[r].rev
      /\ new.outcome = run[r].outcome /\ new.copied = run[r].copied /\ new.stale = run[r].stale
      /\ new.unread = run[r].unread
      /\ new.leftover = run[r].leftover /\ new.report = run[r].report /\ new.exit = run[r].exit
  BY <1>1 DEF Rec, PC
<1> HIDE DEF new
<1>3. run'[r] = new
  BY <1>1 DEF RunInv, RunTypeOK
<1>4. /\ staged' \in [Run -> Successor \union {Partial, Nothing}]
      /\ \A q \in Run \ {r} : run'[q] = run[q] /\ staged'[q] = staged[q]
  BY <1>1 DEF RunInv, RunTypeOK
<1>5. CopyTaken => CopyTaken'
  BY <1>1, <1>2, <1>3, <1>4, TakenStays
<1>6. Informed(r)'
  BY <1>1, <1>2, <1>3, <1>4, RepairAssumption DEF RunInv, Informed, Applying, Publishing, Published, RunReport
<1>7. StagedIsOwn(r)'
  BY <1>1, <1>2, <1>3, <1>4 DEF RunInv, StagedIsOwn, ProductOf
<1>8. TargetStands(r)'
  BY <1>1, <1>2, <1>3, <1>4, RepairAssumption
     DEF RunInv, Informed, TargetStands, Unlinked, Published, RunReport, ProductOf
<1>9. BackupIsMade(r)'
  BY <1>1, <1>2, <1>3, <1>4, RepairAssumption DEF RunInv, Informed, BackupIsMade, Uncopied, RunReport
<1>10. BackupHolds(r)'
  BY <1>1, <1>2, <1>3, <1>4, <1>5, RepairAssumption
     DEF RunInv, RunTypeOK, Informed, Applying, Publishing, BackupHolds, Published, RunReport
<1>11. QED
  BY <1>1, <1>2, <1>3, <1>4, <1>6, <1>7, <1>8, <1>9, <1>10, QuietSound

\* Or it cannot be removed, and the run says so.
LEMMA CleanupFailsSound ==
  ASSUME RunInv, NEW r \in Run, Cleanup(r), UNCHANGED staged,
         run' = [run EXCEPT ![r].pc = "discard", ![r].leftover = {"staged"}]
  PROVE  RunInv'
<1> DEFINE new == [run[r] EXCEPT !.pc = "discard", !.leftover = {"staged"}]
<1>1. /\ run' = [run EXCEPT ![r] = new] /\ run[r] \in Rec /\ run[r].pc = "cleanup"
      /\ UNCHANGED <<verdict, source, target, backup, maker>> /\ staged' = staged
  BY DEF RunInv, RunTypeOK, Cleanup, At, files
<1>2. /\ new \in Rec /\ new.pc = "discard" /\ new.leftover = {"staged"}
      /\ new.opts = run[r].opts /\ new.catalog = run[r].catalog /\ new.rev = run[r].rev
      /\ new.outcome = run[r].outcome /\ new.copied = run[r].copied /\ new.stale = run[r].stale
      /\ new.unread = run[r].unread
      /\ new.report = run[r].report /\ new.exit = run[r].exit
  BY <1>1 DEF Rec, PC
<1> HIDE DEF new
<1>3. run'[r] = new
  BY <1>1 DEF RunInv, RunTypeOK
<1>4. /\ staged' \in [Run -> Successor \union {Partial, Nothing}]
      /\ \A q \in Run \ {r} : run'[q] = run[q] /\ staged'[q] = staged[q]
  BY <1>1 DEF RunInv, RunTypeOK
<1>5. CopyTaken => CopyTaken'
  BY <1>1, <1>2, <1>3, <1>4, TakenStays
<1>6. Informed(r)'
  BY <1>1, <1>2, <1>3, <1>4, RepairAssumption DEF RunInv, Informed, Applying, Publishing, Published, RunReport
<1>7. StagedIsOwn(r)'
  BY <1>1, <1>2, <1>3, <1>4 DEF RunInv, StagedIsOwn, ProductOf
<1>8. TargetStands(r)'
  BY <1>1, <1>2, <1>3, <1>4, RepairAssumption
     DEF RunInv, Informed, TargetStands, Unlinked, Published, RunReport, ProductOf
<1>9. BackupIsMade(r)'
  BY <1>1, <1>2, <1>3, <1>4, RepairAssumption DEF RunInv, Informed, BackupIsMade, Uncopied, RunReport
<1>10. BackupHolds(r)'
  BY <1>1, <1>2, <1>3, <1>4, <1>5, RepairAssumption
     DEF RunInv, RunTypeOK, Informed, Applying, Publishing, BackupHolds, Published, RunReport
<1>11. QED
  BY <1>1, <1>2, <1>3, <1>4, <1>6, <1>7, <1>8, <1>9, <1>10, QuietSound

\* The one that stays after the publication is named too.
LEMMA UnstageFailsSound ==
  ASSUME RunInv, NEW r \in Run, Unstage(r), UNCHANGED staged,
         run' = [run EXCEPT ![r].pc = "confirm", ![r].leftover = {"staged"}]
  PROVE  RunInv'
<1> DEFINE new == [run[r] EXCEPT !.pc = "confirm", !.leftover = {"staged"}]
<1>1. /\ run' = [run EXCEPT ![r] = new] /\ run[r] \in Rec /\ run[r].pc = "unstage"
      /\ UNCHANGED <<verdict, source, target, backup, maker>> /\ staged' = staged
  BY DEF RunInv, RunTypeOK, Unstage, At, files
<1>2. /\ new \in Rec /\ new.pc = "confirm" /\ new.leftover = {"staged"}
      /\ new.opts = run[r].opts /\ new.catalog = run[r].catalog /\ new.rev = run[r].rev
      /\ new.outcome = run[r].outcome /\ new.copied = run[r].copied /\ new.stale = run[r].stale
      /\ new.unread = run[r].unread
      /\ new.report = run[r].report /\ new.exit = run[r].exit
  BY <1>1 DEF Rec, PC
<1> HIDE DEF new
<1>3. run'[r] = new
  BY <1>1 DEF RunInv, RunTypeOK
<1>4. /\ staged' \in [Run -> Successor \union {Partial, Nothing}]
      /\ \A q \in Run \ {r} : run'[q] = run[q] /\ staged'[q] = staged[q]
  BY <1>1 DEF RunInv, RunTypeOK
<1>5. CopyTaken => CopyTaken'
  BY <1>1, <1>2, <1>3, <1>4, TakenStays
<1>6. Informed(r)'
  BY <1>1, <1>2, <1>3, <1>4, RepairAssumption DEF RunInv, Informed, Applying, Publishing, Published, RunReport
<1>7. StagedIsOwn(r)'
  BY <1>1, <1>2, <1>3, <1>4 DEF RunInv, StagedIsOwn, ProductOf
<1>8. TargetStands(r)'
  BY <1>1, <1>2, <1>3, <1>4, RepairAssumption
     DEF RunInv, Informed, TargetStands, Unlinked, Published, RunReport, ProductOf
<1>9. BackupIsMade(r)'
  BY <1>1, <1>2, <1>3, <1>4, RepairAssumption DEF RunInv, Informed, BackupIsMade, Uncopied, RunReport
<1>10. BackupHolds(r)'
  BY <1>1, <1>2, <1>3, <1>4, <1>5, RepairAssumption
     DEF RunInv, RunTypeOK, Informed, Applying, Publishing, BackupHolds, Published, RunReport
<1>11. QED
  BY <1>1, <1>2, <1>3, <1>4, <1>6, <1>7, <1>8, <1>9, <1>10, QuietSound

\* A file that is there already and differs is never replaced, and a failing link or
\* reading makes none.
LEMMA PublishRefusedSound ==
  ASSUME RunInv, NEW r \in Run, PublishExclusive(r), Goto(r, "cleanup"),
         UNCHANGED <<target, maker>>
  PROVE  RunInv'
<1> DEFINE new == [run[r] EXCEPT !.pc = "cleanup"]
<1>1. /\ run' = [run EXCEPT ![r] = new] /\ run[r] \in Rec /\ run[r].pc = "link"
      /\ UNCHANGED <<verdict, source, target, backup, maker>> /\ staged' = staged
  BY DEF RunInv, RunTypeOK, PublishExclusive, At, Goto, files
<1>2. /\ new \in Rec /\ new.pc = "cleanup"
      /\ new.opts = run[r].opts /\ new.catalog = run[r].catalog /\ new.rev = run[r].rev
      /\ new.outcome = run[r].outcome /\ new.copied = run[r].copied /\ new.stale = run[r].stale
      /\ new.unread = run[r].unread
      /\ new.leftover = run[r].leftover /\ new.report = run[r].report /\ new.exit = run[r].exit
  BY <1>1 DEF Rec, PC
<1> HIDE DEF new
<1>3. run'[r] = new
  BY <1>1 DEF RunInv, RunTypeOK
<1>4. /\ staged' \in [Run -> Successor \union {Partial, Nothing}]
      /\ \A q \in Run \ {r} : run'[q] = run[q] /\ staged'[q] = staged[q]
  BY <1>1 DEF RunInv, RunTypeOK
<1>5. CopyTaken => CopyTaken'
  BY <1>1, <1>2, <1>3, <1>4, TakenStays
<1>6. Informed(r)'
  BY <1>1, <1>2, <1>3, <1>4, RepairAssumption DEF RunInv, Informed, Applying, Publishing, Published, RunReport
<1>7. StagedIsOwn(r)'
  BY <1>1, <1>2, <1>3, <1>4 DEF RunInv, StagedIsOwn, ProductOf
<1>8. TargetStands(r)'
  BY <1>1, <1>2, <1>3, <1>4, RepairAssumption
     DEF RunInv, Informed, TargetStands, Unlinked, Published, RunReport, ProductOf
<1>9. BackupIsMade(r)'
  BY <1>1, <1>2, <1>3, <1>4, RepairAssumption DEF RunInv, Informed, BackupIsMade, Uncopied, RunReport
<1>10. BackupHolds(r)'
  BY <1>1, <1>2, <1>3, <1>4, <1>5, RepairAssumption
     DEF RunInv, RunTypeOK, Informed, Applying, Publishing, BackupHolds, Published, RunReport
<1>11. QED
  BY <1>1, <1>2, <1>3, <1>4, <1>6, <1>7, <1>8, <1>9, <1>10, QuietSound

\* A last reading that fails leaves what the run linked, and the run takes note of it.
LEMMA ConfirmUnreadSound ==
  ASSUME RunInv, NEW r \in Run, ConfirmSource(r),
         run' = [run EXCEPT ![r].pc = "discard", ![r].unread = TRUE]
  PROVE  RunInv'
<1> DEFINE new == [run[r] EXCEPT !.pc = "discard", !.unread = TRUE]
<1>1. /\ run' = [run EXCEPT ![r] = new] /\ run[r] \in Rec /\ run[r].pc = "confirm"
      /\ UNCHANGED <<verdict, source, target, backup, maker>> /\ staged' = staged
  BY DEF RunInv, RunTypeOK, ConfirmSource, At, files
<1>2. /\ new \in Rec /\ new.pc = "discard" /\ new.stale = run[r].stale /\ new.unread
      /\ new.opts = run[r].opts /\ new.catalog = run[r].catalog /\ new.rev = run[r].rev
      /\ new.outcome = run[r].outcome /\ new.copied = run[r].copied /\ new.leftover = run[r].leftover
      /\ new.report = run[r].report /\ new.exit = run[r].exit
  BY <1>1 DEF Rec, PC
<1> HIDE DEF new
<1>3. run'[r] = new
  BY <1>1 DEF RunInv, RunTypeOK
<1>4. /\ staged' \in [Run -> Successor \union {Partial, Nothing}]
      /\ \A q \in Run \ {r} : run'[q] = run[q] /\ staged'[q] = staged[q]
  BY <1>1 DEF RunInv, RunTypeOK
<1>5. CopyTaken => CopyTaken'
  BY <1>1, <1>2, <1>3, <1>4, TakenStays
<1>6. Informed(r)'
  BY <1>1, <1>2, <1>3, <1>4, RepairAssumption DEF RunInv, Informed, Applying, Publishing, Published, RunReport
<1>7. StagedIsOwn(r)'
  BY <1>1, <1>2, <1>3, <1>4 DEF RunInv, StagedIsOwn, ProductOf
<1>8. TargetStands(r)'
  BY <1>1, <1>2, <1>3, <1>4, RepairAssumption
     DEF RunInv, Informed, TargetStands, Unlinked, Published, RunReport, ProductOf
<1>9. BackupIsMade(r)'
  BY <1>1, <1>2, <1>3, <1>4, RepairAssumption DEF RunInv, Informed, BackupIsMade, Uncopied, RunReport
<1>10. BackupHolds(r)'
  BY <1>1, <1>2, <1>3, <1>4, <1>5, RepairAssumption
     DEF RunInv, RunTypeOK, Informed, Applying, Publishing, BackupHolds, Published, RunReport
<1>11. QED
  BY <1>1, <1>2, <1>3, <1>4, <1>6, <1>7, <1>8, <1>9, <1>10, QuietSound

\* What the run leaves under the canonical name it names in its report.
LEMMA SettleStaleSound ==
  ASSUME RunInv, NEW r \in Run, SettleStalePublication(r),
         run' = [run EXCEPT ![r].pc = "discard", ![r].stale = TRUE], UNCHANGED <<target, maker>>
  PROVE  RunInv'
<1> DEFINE new == [run[r] EXCEPT !.pc = "discard", !.stale = TRUE]
<1>1. /\ run' = [run EXCEPT ![r] = new] /\ run[r] \in Rec /\ run[r].pc = "settle"
      /\ UNCHANGED <<verdict, source, target, backup, maker>> /\ staged' = staged
  BY DEF RunInv, RunTypeOK, SettleStalePublication, At, files
<1>2. /\ new \in Rec /\ new.pc = "discard" /\ new.stale /\ new.unread = run[r].unread
      /\ new.opts = run[r].opts /\ new.catalog = run[r].catalog /\ new.rev = run[r].rev
      /\ new.outcome = run[r].outcome /\ new.copied = run[r].copied /\ new.leftover = run[r].leftover
      /\ new.report = run[r].report /\ new.exit = run[r].exit
  BY <1>1 DEF Rec, PC
<1> HIDE DEF new
<1>3. run'[r] = new
  BY <1>1 DEF RunInv, RunTypeOK
<1>4. /\ staged' \in [Run -> Successor \union {Partial, Nothing}]
      /\ \A q \in Run \ {r} : run'[q] = run[q] /\ staged'[q] = staged[q]
  BY <1>1 DEF RunInv, RunTypeOK
<1>5. CopyTaken => CopyTaken'
  BY <1>1, <1>2, <1>3, <1>4, TakenStays
<1>6. Informed(r)'
  BY <1>1, <1>2, <1>3, <1>4, RepairAssumption DEF RunInv, Informed, Applying, Publishing, Published, RunReport
<1>7. StagedIsOwn(r)'
  BY <1>1, <1>2, <1>3, <1>4 DEF RunInv, StagedIsOwn, ProductOf
<1>8. TargetStands(r)'
  BY <1>1, <1>2, <1>3, <1>4, RepairAssumption
     DEF RunInv, Informed, TargetStands, Unlinked, Published, RunReport, ProductOf
<1>9. BackupIsMade(r)'
  BY <1>1, <1>2, <1>3, <1>4, RepairAssumption DEF RunInv, Informed, BackupIsMade, Uncopied, RunReport
<1>10. BackupHolds(r)'
  BY <1>1, <1>2, <1>3, <1>4, <1>5, RepairAssumption
     DEF RunInv, RunTypeOK, Informed, Applying, Publishing, BackupHolds, Published, RunReport
<1>11. QED
  BY <1>1, <1>2, <1>3, <1>4, <1>6, <1>7, <1>8, <1>9, <1>10, QuietSound

\* A run that made no copy has none to take away.
LEMMA DiscardNothingSound ==
  ASSUME RunInv, NEW r \in Run, DiscardCreatedBackup(r), ~run[r].copied
  PROVE  RunInv'
<1> DEFINE report == IF run[r].stale THEN "stale" ELSE "failed"
           new == Reported(run[r], report)
<1>1. /\ run' = [run EXCEPT ![r] = new] /\ run[r] \in Rec /\ run[r].pc = "discard" /\ ~run[r].copied
      /\ UNCHANGED <<verdict, source, target, backup, maker>> /\ staged' = staged
  BY DEF RunInv, RunTypeOK, DiscardCreatedBackup, At, Finish, files
<1>a. /\ report \in {"stale", "failed"} /\ report \in RunReport
      /\ run[r].stale <=> report = "stale"
  BY <1>1 DEF RunReport, Rec
<1> HIDE DEF report
<1>2. /\ new \in Rec /\ new.pc = "done" /\ new.report = report
      /\ new.exit = 0 => new.report \in {"ok", "already", "published"}
      /\ new.opts = run[r].opts /\ new.catalog = run[r].catalog /\ new.rev = run[r].rev
      /\ new.outcome = run[r].outcome /\ new.copied = run[r].copied /\ new.stale = run[r].stale
      /\ new.unread = run[r].unread
      /\ new.leftover = run[r].leftover
  BY <1>1, <1>a, ReportedFields
<1> HIDE DEF new
<1>3. run'[r] = new
  BY <1>1 DEF RunInv, RunTypeOK
<1>4. /\ staged' \in [Run -> Successor \union {Partial, Nothing}]
      /\ \A q \in Run \ {r} : run'[q] = run[q] /\ staged'[q] = staged[q]
  BY <1>1 DEF RunInv, RunTypeOK
<1>5. CopyTaken => CopyTaken'
  BY <1>1, <1>a, <1>2, <1>3, <1>4, TakenStays
<1>6. Informed(r)'
  BY <1>1, <1>a, <1>2, <1>3, <1>4, RepairAssumption DEF RunInv, Informed, Applying, Publishing, Published, RunReport
<1>7. StagedIsOwn(r)'
  BY <1>1, <1>a, <1>2, <1>3, <1>4 DEF RunInv, StagedIsOwn, ProductOf
<1>8. TargetStands(r)'
  BY <1>1, <1>a, <1>2, <1>3, <1>4, RepairAssumption
     DEF RunInv, Informed, TargetStands, Unlinked, Published, RunReport, ProductOf
<1>9. BackupIsMade(r)'
  BY <1>1, <1>a, <1>2, <1>3, <1>4, RepairAssumption DEF RunInv, Informed, BackupIsMade, Uncopied, RunReport
<1>10. BackupHolds(r)'
  BY <1>1, <1>a, <1>2, <1>3, <1>4, <1>5, RepairAssumption
     DEF RunInv, RunTypeOK, Informed, Applying, Publishing, BackupHolds, Published, RunReport
<1>11. QED
  BY <1>1, <1>a, <1>2, <1>3, <1>4, <1>6, <1>7, <1>8, <1>9, <1>10, QuietSound

\* A copy that cannot be removed is named.
LEMMA DiscardFailsSound ==
  ASSUME RunInv, NEW r \in Run, DiscardCreatedBackup(r), run[r].copied, UNCHANGED <<backup, maker>>,
         Finish(r, [run[r] EXCEPT !.leftover = @ \union {"backup"}], IF run[r].stale THEN "stale" ELSE "failed")
  PROVE  RunInv'
<1> DEFINE report == IF run[r].stale THEN "stale" ELSE "failed"
           rec == [run[r] EXCEPT !.leftover = @ \union {"backup"}]
           new == Reported(rec, report)
<1>1. /\ run' = [run EXCEPT ![r] = new] /\ run[r] \in Rec /\ run[r].pc = "discard" /\ run[r].copied
      /\ UNCHANGED <<verdict, source, target, backup, maker>> /\ staged' = staged
  BY DEF RunInv, RunTypeOK, DiscardCreatedBackup, At, Finish, files
<1>b. /\ rec \in Rec /\ rec.opts = run[r].opts /\ rec.catalog = run[r].catalog
      /\ rec.rev = run[r].rev /\ rec.outcome = run[r].outcome /\ rec.copied = run[r].copied
      /\ rec.stale = run[r].stale /\ rec.unread = run[r].unread /\ rec.leftover = run[r].leftover \union {"backup"}
  BY <1>1 DEF Rec
<1> HIDE DEF rec
<1>a. /\ report \in {"stale", "failed"} /\ report \in RunReport
      /\ run[r].stale <=> report = "stale"
  BY <1>1 DEF RunReport, Rec
<1> HIDE DEF report
<1>2. /\ new \in Rec /\ new.pc = "done" /\ new.report = report
      /\ new.exit = 0 => new.report \in {"ok", "already", "published"}
      /\ new.opts = run[r].opts /\ new.catalog = run[r].catalog /\ new.rev = run[r].rev
      /\ new.outcome = run[r].outcome /\ new.copied = run[r].copied /\ new.stale = run[r].stale
      /\ new.unread = run[r].unread
      /\ new.leftover = run[r].leftover \union {"backup"}
      /\ "backup" \in new.leftover
  BY <1>b, <1>a, ReportedFields
<1> HIDE DEF new
<1>3. run'[r] = new
  BY <1>1 DEF RunInv, RunTypeOK
<1>4. /\ staged' \in [Run -> Successor \union {Partial, Nothing}]
      /\ \A q \in Run \ {r} : run'[q] = run[q] /\ staged'[q] = staged[q]
  BY <1>1 DEF RunInv, RunTypeOK
<1>5. CopyTaken => CopyTaken'
  BY <1>1, <1>a, <1>2, <1>3, <1>4, TakenStays
<1>6. Informed(r)'
  BY <1>1, <1>a, <1>2, <1>3, <1>4, RepairAssumption DEF RunInv, Informed, Applying, Publishing, Published, RunReport
<1>7. StagedIsOwn(r)'
  BY <1>1, <1>a, <1>2, <1>3, <1>4 DEF RunInv, StagedIsOwn, ProductOf
<1>8. TargetStands(r)'
  BY <1>1, <1>a, <1>2, <1>3, <1>4, RepairAssumption
     DEF RunInv, Informed, TargetStands, Unlinked, Published, RunReport, ProductOf
<1>9. BackupIsMade(r)'
  <2>1. run'[r].copied /\ run'[r].pc = "done" /\ "backup" \in run'[r].leftover
    BY <1>1, <1>2, <1>3
  <2>2. run'[r].report \in {"failed", "stale"} /\ (maker.backup = r => backup # Nothing)
    BY <1>a, <1>2, <1>3 DEF RunInv, BackupIsMade
  <2>3. QED
    BY <1>1, <2>1, <2>2 DEF BackupIsMade, Uncopied
<1>10. BackupHolds(r)'
  BY <1>1, <1>a, <1>2, <1>3, <1>4, <1>5, RepairAssumption
     DEF RunInv, RunTypeOK, Informed, Applying, Publishing, BackupHolds, Published, RunReport
<1>11. QED
  BY <1>1, <1>a, <1>2, <1>3, <1>4, <1>6, <1>7, <1>8, <1>9, <1>10, QuietSound

-----------------------------------------------------------------------------
(* The steps that change a file the runs share.                            *)

\* link creates the successor where there was none: no other run has published one.
LEMMA PublishCreatesSound ==
  ASSUME RunInv, NEW r \in Run, PublishExclusive(r), staged[r] \in Successor, target = Nothing,
         target' = staged[r], maker' = [maker EXCEPT !.target = r],
         run' = [run EXCEPT ![r].pc = "unstage", ![r].outcome = "created"]
  PROVE  RunInv'
<1> DEFINE new == [run[r] EXCEPT !.pc = "unstage", !.outcome = "created"]
<1>1. /\ run' = [run EXCEPT ![r] = new] /\ run[r] \in Rec /\ run[r].pc = "link"
      /\ UNCHANGED <<verdict, source, backup, staged>>
  BY DEF RunInv, RunTypeOK, PublishExclusive, At
<1>2. /\ new \in Rec /\ new.pc = "unstage" /\ new.outcome = "created"
      /\ new.opts = run[r].opts /\ new.catalog = run[r].catalog /\ new.rev = run[r].rev
      /\ new.copied = run[r].copied /\ new.stale = run[r].stale /\ new.unread = run[r].unread
      /\ new.leftover = run[r].leftover
      /\ new.report = run[r].report /\ new.exit = run[r].exit
  BY <1>1 DEF Rec, PC, RunOutcome
<1> HIDE DEF new
<1>3. run'[r] = new /\ \A q \in Run \ {r} : run'[q] = run[q]
  BY <1>1 DEF RunInv, RunTypeOK
<1>4. /\ maker'.target = r /\ maker'.backup = maker.backup /\ target' = ProductOf(r)
      /\ maker' \in [target : Run \union {Nothing}, backup : Run \union {Nothing}]
  BY <1>1 DEF RunInv, RunTypeOK, StagedIsOwn
<1>5. RunTypeOK'
  BY <1>1, <1>2, <1>4 DEF RunInv, RunTypeOK
<1>6. CopyTaken => CopyTaken'
  BY <1>1, <1>3, TakenStays
<1>7. ASSUME NEW q \in Run, q # r
      PROVE  (Informed(q) /\ StagedIsOwn(q) /\ TargetStands(q) /\ BackupIsMade(q) /\ BackupHolds(q))'
  <2>1. run'[q] = run[q] /\ staged'[q] = staged[q] /\ verdict' = verdict /\ source' = source
    BY <1>1, <1>3, <1>7
  <2>2. Informed(q)'
    BY <2>1, InformedKept DEF RunInv
  <2>3. StagedIsOwn(q)'
    BY <2>1 DEF RunInv, StagedIsOwn, ProductOf
  <2>4. TargetStands(q)'
    <3>1. run[q].pc \in Applying \/ Published(q) => ProductOf(q) # Nothing
      BY ProductWhole, RepairAssumption
    <3>2. ~(run[q].outcome = "created" /\ run[q].pc \in {"unstage", "confirm", "settle"})
      BY DEF RunInv, TargetStands
    <3>3. (run[q].pc \in {"unstage", "confirm"} \/ Published(q)) => source # run[q].rev
      BY <3>1 DEF RunInv, TargetStands, Applying
    <3>4. QED
      BY <1>1, <1>4, <1>7, <2>1, <3>2, <3>3 DEF RunInv, TargetStands, Published
  <2>5. BackupIsMade(q)'
    BY <1>1, <1>4, <2>1 DEF RunInv, BackupIsMade
  <2>6. BackupHolds(q)'
    BY <1>1, <1>6, <2>1 DEF RunInv, BackupHolds, Published
  <2>7. QED
    BY <2>2, <2>3, <2>4, <2>5, <2>6
<1>8. TargetIsMade'
  <2>1. run[r].rev # Nothing /\ verdict[run[r].rev] \in {"repairable", "lossy"}
    BY <1>1 DEF RunInv, Informed, Applying, Publishing
  <2>2. ProductOf(r)' = ProductOf(r) /\ ProductOf(r).rev = run[r].rev
    BY <1>2, <1>3 DEF ProductOf
  <2>3. QED
    BY <1>1, <1>2, <1>3, <1>4, <2>1, <2>2 DEF TargetIsMade
<1>9. Informed(r)'
  BY <1>1, <1>2, <1>3, RepairAssumption DEF RunInv, Informed, Applying, Publishing, Published, RunReport
<1>10. StagedIsOwn(r)'
  BY <1>1, <1>2, <1>3 DEF RunInv, StagedIsOwn
<1>11. TargetStands(r)'
  <2>1. ~run[r].stale /\ target' # Nothing
    BY <1>1, RepairAssumption DEF RunInv, TargetStands, Informed, RunReport
  <2>2. ProductOf(r)' = ProductOf(r)
    BY <1>2, <1>3 DEF ProductOf
  <2>3. QED
    BY <1>1, <1>2, <1>3, <1>4, <2>1, <2>2 DEF TargetStands, Unlinked
<1>12. BackupIsMade(r)'
  BY <1>1, <1>2, <1>3, <1>4, RepairAssumption DEF RunInv, Informed, BackupIsMade, Uncopied, RunReport
<1>13. BackupHolds(r)'
  BY <1>1, <1>2, <1>3, <1>6, RepairAssumption DEF RunInv, Informed, BackupHolds, Published, RunReport
<1>14. QED
  BY <1>5, <1>7, <1>8, <1>9, <1>10, <1>11, <1>12, <1>13 DEF RunInv

\* A successor with the same bytes is accepted as the run's own.
LEMMA PublishAcceptsSound ==
  ASSUME RunInv, NEW r \in Run, PublishExclusive(r), target = staged[r], UNCHANGED <<target, maker>>,
         run' = [run EXCEPT ![r].pc = "unstage", ![r].outcome = "accepted"]
  PROVE  RunInv'
<1> DEFINE new == [run[r] EXCEPT !.pc = "unstage", !.outcome = "accepted"]
<1>1. /\ run' = [run EXCEPT ![r] = new] /\ run[r] \in Rec /\ run[r].pc = "link"
      /\ UNCHANGED <<verdict, source, target, backup, staged, maker>> /\ target = ProductOf(r)
  BY DEF RunInv, RunTypeOK, PublishExclusive, At, StagedIsOwn
<1>2. /\ new \in Rec /\ new.pc = "unstage" /\ new.outcome = "accepted"
      /\ new.opts = run[r].opts /\ new.catalog = run[r].catalog /\ new.rev = run[r].rev
      /\ new.copied = run[r].copied /\ new.stale = run[r].stale /\ new.unread = run[r].unread
      /\ new.leftover = run[r].leftover
      /\ new.report = run[r].report /\ new.exit = run[r].exit
  BY <1>1 DEF Rec, PC, RunOutcome
<1> HIDE DEF new
<1>3. /\ run'[r] = new /\ \A q \in Run \ {r} : run'[q] = run[q]
      /\ run[r].outcome # "created" /\ maker.target # r
  BY <1>1 DEF RunInv, RunTypeOK, TargetStands, Unlinked
<1>4. RunTypeOK'
  BY <1>1, <1>2 DEF RunInv, RunTypeOK
<1>5. CopyTaken => CopyTaken'
  BY <1>1, <1>3, TakenStays
<1>6. Informed(r)'
  BY <1>1, <1>2, <1>3, RepairAssumption DEF RunInv, Informed, Applying, Publishing, Published, RunReport
<1>7. StagedIsOwn(r)'
  BY <1>1, <1>2, <1>3 DEF RunInv, StagedIsOwn
<1>8. TargetStands(r)'
  BY <1>1, <1>2, <1>3, RepairAssumption
     DEF RunInv, Informed, TargetStands, Unlinked, Published, RunReport, ProductOf
<1>9. BackupIsMade(r)'
  BY <1>1, <1>2, <1>3, RepairAssumption DEF RunInv, Informed, BackupIsMade, Uncopied, RunReport
<1>10. BackupHolds(r)'
  BY <1>1, <1>2, <1>3, <1>5, RepairAssumption DEF RunInv, Informed, BackupHolds, Published, RunReport
<1>11. QED
  BY <1>1, <1>2, <1>3, <1>4, <1>6, <1>7, <1>8, <1>9, <1>10, OthersUndisturbed

\* The three outcomes of a link.
LEMMA PublishExclusiveSound ==
  ASSUME RunInv, NEW r \in Run, PublishExclusive(r)
  PROVE  RunInv'
BY PublishCreatesSound, PublishAcceptsSound, PublishRefusedSound DEF PublishExclusive

\* A run that outran its log removes what it created, which no other run has published:
\* theirs would be of a revision the log is at.
LEMMA SettleRemovesSound ==
  ASSUME RunInv, NEW r \in Run, SettleStalePublication(r), run[r].outcome = "created",
         target' = Nothing, maker' = [maker EXCEPT !.target = Nothing], Goto(r, "discard")
  PROVE  RunInv'
<1> DEFINE new == [run[r] EXCEPT !.pc = "discard"]
<1>1. /\ run' = [run EXCEPT ![r] = new] /\ run[r] \in Rec /\ run[r].pc = "settle"
      /\ UNCHANGED <<verdict, source, backup, staged>>
  BY DEF RunInv, RunTypeOK, SettleStalePublication, At, Goto
<1>2. /\ new \in Rec /\ new.pc = "discard"
      /\ new.opts = run[r].opts /\ new.catalog = run[r].catalog /\ new.rev = run[r].rev
      /\ new.outcome = run[r].outcome /\ new.copied = run[r].copied /\ new.stale = run[r].stale
      /\ new.unread = run[r].unread
      /\ new.leftover = run[r].leftover /\ new.report = run[r].report /\ new.exit = run[r].exit
  BY <1>1 DEF Rec, PC
<1> HIDE DEF new
<1>3. run'[r] = new /\ \A q \in Run \ {r} : run'[q] = run[q]
  BY <1>1 DEF RunInv, RunTypeOK
<1>4. /\ maker'.target = Nothing /\ maker'.backup = maker.backup
      /\ maker' \in [target : Run \union {Nothing}, backup : Run \union {Nothing}]
  BY DEF RunInv, RunTypeOK
<1>5. RunTypeOK'
  BY <1>1, <1>2, <1>4 DEF RunInv, RunTypeOK
<1>6. CopyTaken => CopyTaken'
  BY <1>1, <1>3, TakenStays
<1>7. maker.target = r /\ target = ProductOf(r) /\ source # run[r].rev
  BY <1>1 DEF RunInv, TargetStands, TargetIsMade, Informed
<1>8. ASSUME NEW q \in Run, q # r
      PROVE  (Informed(q) /\ StagedIsOwn(q) /\ TargetStands(q) /\ BackupIsMade(q) /\ BackupHolds(q))'
  <2>1. run'[q] = run[q] /\ staged'[q] = staged[q]
    BY <1>1, <1>3, <1>8
  <2>2. Informed(q)'
    BY <1>1, <2>1 DEF RunInv, Informed, Published
  <2>3. StagedIsOwn(q)'
    BY <2>1 DEF RunInv, StagedIsOwn, ProductOf
  <2>4. TargetStands(q)'
    <3>1. ~(run[q].outcome = "created" /\ run[q].pc \in {"unstage", "confirm", "settle"})
      BY <1>7, <1>8 DEF RunInv, TargetStands
    <3>2. target.rev = run[r].rev
      BY <1>7 DEF ProductOf
    <3>3. (run[q].pc \in {"unstage", "confirm"} \/ Published(q)) => source # run[q].rev
      BY <1>7, <3>2 DEF RunInv, TargetStands, ProductOf
    <3>4. QED
      BY <1>1, <1>4, <2>1, <3>1, <3>3, RepairAssumption DEF RunInv, TargetStands, Published
  <2>5. BackupIsMade(q)'
    BY <1>1, <1>4, <2>1 DEF RunInv, BackupIsMade
  <2>6. BackupHolds(q)'
    BY <1>1, <1>6, <2>1 DEF RunInv, BackupHolds, Published
  <2>7. QED
    BY <2>2, <2>3, <2>4, <2>5, <2>6
<1>9. TargetIsMade'
  BY DEF TargetIsMade
<1>10. Informed(r)'
  BY <1>1, <1>2, <1>3, RepairAssumption DEF RunInv, Informed, Applying, Publishing, Published, RunReport
<1>11. StagedIsOwn(r)'
  BY <1>1, <1>2, <1>3 DEF RunInv, StagedIsOwn
<1>12. TargetStands(r)'
  BY <1>1, <1>2, <1>3, <1>4, RepairAssumption
     DEF RunInv, Informed, TargetStands, Unlinked, Published, RunReport
<1>13. BackupIsMade(r)'
  BY <1>1, <1>2, <1>3, <1>4, RepairAssumption DEF RunInv, Informed, BackupIsMade, Uncopied, RunReport
<1>14. BackupHolds(r)'
  BY <1>1, <1>2, <1>3, <1>6, RepairAssumption DEF RunInv, Informed, BackupHolds, Published, RunReport
<1>15. QED
  BY <1>5, <1>8, <1>9, <1>10, <1>11, <1>12, <1>13, <1>14 DEF RunInv

\* Either way the directory names what stands in it.
LEMMA SettleStalePublicationSound ==
  ASSUME RunInv, NEW r \in Run, SettleStalePublication(r)
  PROVE  RunInv'
BY SettleRemovesSound, SettleStaleSound DEF SettleStalePublication

\* The copy begins as an empty file nobody else has made.
LEMMA CreateBackupSound ==
  ASSUME RunInv, NEW r \in Run, CreateBackup(r)
  PROVE  RunInv'
<1> DEFINE new == [run[r] EXCEPT !.pc = "copy"]
<1>1. /\ run' = [run EXCEPT ![r] = new] /\ run[r] \in Rec /\ run[r].pc = "backup"
      /\ UNCHANGED <<verdict, source, target, staged>>
  BY DEF RunInv, RunTypeOK, CreateBackup, At, Goto
<1>2. /\ new \in Rec /\ new.pc = "copy"
      /\ new.opts = run[r].opts /\ new.catalog = run[r].catalog /\ new.rev = run[r].rev
      /\ new.outcome = run[r].outcome /\ new.copied = run[r].copied /\ new.stale = run[r].stale
      /\ new.unread = run[r].unread
      /\ new.leftover = run[r].leftover /\ new.report = run[r].report /\ new.exit = run[r].exit
  BY <1>1 DEF Rec, PC
<1> HIDE DEF new
<1>3. run'[r] = new /\ \A q \in Run \ {r} : run'[q] = run[q]
  BY <1>1 DEF RunInv, RunTypeOK
<1>4. /\ backup = Nothing /\ backup' = Partial /\ maker'.backup = r
      /\ maker'.target = maker.target
      /\ maker' \in [target : Run \union {Nothing}, backup : Run \union {Nothing}]
  BY <1>1 DEF RunInv, RunTypeOK, CreateBackup, At, Goto
<1>5. RunTypeOK'
  BY <1>1, <1>2, <1>4 DEF RunInv, RunTypeOK
<1>6. CopyTaken => CopyTaken'
  BY <1>1, <1>3, TakenStays
<1>7. ASSUME NEW q \in Run, q # r
      PROVE  (Informed(q) /\ StagedIsOwn(q) /\ TargetStands(q) /\ BackupIsMade(q) /\ BackupHolds(q))'
  <2>1. /\ run'[q] = run[q] /\ staged'[q] = staged[q] /\ verdict' = verdict
        /\ source' = source /\ target' = target /\ maker'.target = maker.target
    BY <1>1, <1>3, <1>4, <1>7
  <2>2. Informed(q)'
    BY <2>1, InformedKept DEF RunInv
  <2>3. StagedIsOwn(q)'
    BY <2>1 DEF RunInv, StagedIsOwn, ProductOf
  <2>4. TargetStands(q)'
    BY <2>1 DEF RunInv, TargetStands, Published, ProductOf
  <2>5. BackupIsMade(q)'
    BY <1>4, <1>7, <2>1 DEF RunInv, BackupIsMade
  <2>6. BackupHolds(q)'
    BY <1>4, <1>6, <2>1, RepairAssumption DEF RunInv, BackupHolds, Informed, Applying, Published, RunTypeOK, Rec, Revision
  <2>7. QED
    BY <2>2, <2>3, <2>4, <2>5, <2>6
<1>8. TargetIsMade'
  BY <1>1, <1>2, <1>3, <1>4 DEF RunInv, RunTypeOK, TargetIsMade, ProductOf
<1>9. Informed(r)'
  BY <1>1, <1>2, <1>3, RepairAssumption DEF RunInv, Informed, Applying, Publishing, Published, RunReport
<1>10. StagedIsOwn(r)'
  BY <1>1, <1>2, <1>3 DEF RunInv, StagedIsOwn
<1>11. TargetStands(r)'
  BY <1>1, <1>2, <1>3, <1>4, RepairAssumption
     DEF RunInv, Informed, TargetStands, Unlinked, Published, RunReport, ProductOf
<1>12. BackupIsMade(r)'
  BY <1>1, <1>2, <1>3, <1>4, RepairAssumption DEF RunInv, Informed, BackupIsMade, Uncopied, RunReport
<1>13. BackupHolds(r)'
  BY <1>1, <1>2, <1>3, RepairAssumption DEF RunInv, Informed, BackupHolds, Published, RunReport
<1>14. QED
  BY <1>5, <1>7, <1>8, <1>9, <1>10, <1>11, <1>12, <1>13 DEF RunInv

\* It ends as the revision the log is at, which is the one the run read or a later one.
LEMMA FillBackupSound ==
  ASSUME RunInv, NEW r \in Run, FillBackup(r)
  PROVE  RunInv'
<1> DEFINE new == [run[r] EXCEPT !.pc = "recheck", !.copied = TRUE]
<1>1. /\ run' = [run EXCEPT ![r] = new] /\ run[r] \in Rec /\ run[r].pc = "copy"
      /\ UNCHANGED <<verdict, source, target, staged>>
  BY DEF RunInv, RunTypeOK, FillBackup, At
<1>2. /\ new \in Rec /\ new.pc = "recheck" /\ new.copied
      /\ new.opts = run[r].opts /\ new.catalog = run[r].catalog /\ new.rev = run[r].rev
      /\ new.outcome = run[r].outcome /\ new.stale = run[r].stale /\ new.unread = run[r].unread
      /\ new.leftover = run[r].leftover
      /\ new.report = run[r].report /\ new.exit = run[r].exit
  BY <1>1 DEF Rec, PC
<1> HIDE DEF new
<1>3. run'[r] = new /\ \A q \in Run \ {r} : run'[q] = run[q]
  BY <1>1 DEF RunInv, RunTypeOK
<1>4. /\ backup = Partial /\ backup' = source /\ maker.backup = r /\ maker'.backup = r
      /\ maker'.target = maker.target
      /\ maker' \in [target : Run \union {Nothing}, backup : Run \union {Nothing}]
  BY <1>1 DEF RunInv, RunTypeOK, FillBackup, BackupIsMade
<1>5. RunTypeOK'
  BY <1>1, <1>2, <1>4 DEF RunInv, RunTypeOK
<1>6. CopyTaken => CopyTaken'
  BY <1>1, <1>3, TakenStays
<1>7. ASSUME NEW q \in Run, q # r
      PROVE  (Informed(q) /\ StagedIsOwn(q) /\ TargetStands(q) /\ BackupIsMade(q) /\ BackupHolds(q))'
  <2>1. /\ run'[q] = run[q] /\ staged'[q] = staged[q] /\ verdict' = verdict
        /\ source' = source /\ target' = target /\ maker'.target = maker.target
    BY <1>1, <1>3, <1>4, <1>7
  <2>2. Informed(q)'
    BY <2>1, InformedKept DEF RunInv
  <2>3. StagedIsOwn(q)'
    BY <2>1 DEF RunInv, StagedIsOwn, ProductOf
  <2>4. TargetStands(q)'
    BY <2>1 DEF RunInv, TargetStands, Published, ProductOf
  <2>5. BackupIsMade(q)'
    BY <1>4, <1>7, <2>1 DEF RunInv, BackupIsMade
  <2>6. BackupHolds(q)'
    BY <1>4, <1>6, <2>1, RepairAssumption DEF RunInv, BackupHolds, Published, RunTypeOK, Rec
  <2>7. QED
    BY <2>2, <2>3, <2>4, <2>5, <2>6
<1>8. TargetIsMade'
  BY <1>1, <1>2, <1>3, <1>4 DEF RunInv, RunTypeOK, TargetIsMade, ProductOf
<1>9. Informed(r)'
  BY <1>1, <1>2, <1>3, RepairAssumption DEF RunInv, Informed, Applying, Publishing, Published, RunReport
<1>10. StagedIsOwn(r)'
  BY <1>1, <1>2, <1>3 DEF RunInv, StagedIsOwn
<1>11. TargetStands(r)'
  BY <1>1, <1>2, <1>3, <1>4, RepairAssumption
     DEF RunInv, Informed, TargetStands, Unlinked, Published, RunReport, ProductOf
<1>12. BackupIsMade(r)'
  BY <1>1, <1>2, <1>3, <1>4, <1>5, RepairAssumption DEF RunInv, RunTypeOK, Informed, BackupIsMade, Uncopied, RunReport, Revision
<1>13. BackupHolds(r)'
  BY <1>1, <1>2, <1>3, <1>4, RepairAssumption DEF RunInv, RunTypeOK, Informed, Applying, BackupHolds, Published, RunReport, Revision
<1>14. QED
  BY <1>5, <1>7, <1>8, <1>9, <1>10, <1>11, <1>12, <1>13 DEF RunInv

\* A copy that stops short is removed: no run has relied on one that is not whole.
LEMMA CopyFailsRemovedSound ==
  ASSUME RunInv, NEW r \in Run, CopyFails(r), backup' = Nothing,
         maker' = [maker EXCEPT !.backup = Nothing],
         Finish(r, run[r], "failed")
  PROVE  RunInv'
<1> DEFINE new == Reported(run[r], "failed")
<1>1. /\ run' = [run EXCEPT ![r] = new] /\ run[r] \in Rec /\ run[r].pc = "copy"
      /\ UNCHANGED <<verdict, source, target, staged>>
  BY DEF RunInv, RunTypeOK, CopyFails, At, Finish
<1>2. /\ new \in Rec /\ new.pc = "done" /\ new.report = "failed"
      /\ new.exit = 0 => new.report \in {"ok", "already", "published"}
      /\ new.opts = run[r].opts /\ new.catalog = run[r].catalog /\ new.rev = run[r].rev
      /\ new.outcome = run[r].outcome /\ new.copied = run[r].copied /\ new.stale = run[r].stale
      /\ new.unread = run[r].unread
      /\ new.leftover = run[r].leftover
  BY <1>1, ReportedFields DEF RunReport
<1> HIDE DEF new
<1>3. run'[r] = new /\ \A q \in Run \ {r} : run'[q] = run[q]
  BY <1>1 DEF RunInv, RunTypeOK
<1>4. /\ backup = Partial /\ backup' = Nothing /\ maker.backup = r /\ maker'.backup = Nothing
      /\ maker'.target = maker.target
      /\ maker' \in [target : Run \union {Nothing}, backup : Run \union {Nothing}]
  BY <1>1, RepairAssumption DEF RunInv, RunTypeOK, Informed, BackupIsMade, RunReport
<1>5. RunTypeOK'
  BY <1>1, <1>2, <1>4 DEF RunInv, RunTypeOK
<1>6. CopyTaken => CopyTaken'
  BY <1>1, <1>3, TakenStays
<1>7. ASSUME NEW q \in Run, q # r
      PROVE  (Informed(q) /\ StagedIsOwn(q) /\ TargetStands(q) /\ BackupIsMade(q) /\ BackupHolds(q))'
  <2>1. /\ run'[q] = run[q] /\ staged'[q] = staged[q] /\ verdict' = verdict
        /\ source' = source /\ target' = target /\ maker'.target = maker.target
    BY <1>1, <1>3, <1>4, <1>7
  <2>2. Informed(q)'
    BY <2>1, InformedKept DEF RunInv
  <2>3. StagedIsOwn(q)'
    BY <2>1 DEF RunInv, StagedIsOwn, ProductOf
  <2>4. TargetStands(q)'
    BY <2>1 DEF RunInv, TargetStands, Published, ProductOf
  <2>5. BackupIsMade(q)'
    BY <1>4, <1>7, <2>1, RepairAssumption DEF RunInv, BackupIsMade
  <2>6. BackupHolds(q)'
    BY <1>4, <1>6, <2>1, RepairAssumption
       DEF RunInv, BackupHolds, Informed, Applying, Published, RunTypeOK, Rec, Revision
  <2>7. QED
    BY <2>2, <2>3, <2>4, <2>5, <2>6
<1>8. TargetIsMade'
  BY <1>1, <1>2, <1>3, <1>4 DEF RunInv, RunTypeOK, TargetIsMade, ProductOf
<1>9. Informed(r)'
  BY <1>1, <1>2, <1>3, RepairAssumption DEF RunInv, Informed, Applying, Publishing, Published, RunReport
<1>10. StagedIsOwn(r)'
  BY <1>1, <1>2, <1>3 DEF RunInv, StagedIsOwn
<1>11. TargetStands(r)'
  BY <1>1, <1>2, <1>3, <1>4, RepairAssumption
     DEF RunInv, Informed, TargetStands, Unlinked, Published, RunReport, ProductOf
<1>12. BackupIsMade(r)'
  BY <1>1, <1>2, <1>3, <1>4, RepairAssumption DEF BackupIsMade, Uncopied, RunInv
<1>13. BackupHolds(r)'
  BY <1>2, <1>3 DEF BackupHolds, Published
<1>14. QED
  BY <1>5, <1>7, <1>8, <1>9, <1>10, <1>11, <1>12, <1>13 DEF RunInv

\* A copy that stops short and cannot be removed is named.
LEMMA CopyFailsLeftSound ==
  ASSUME RunInv, NEW r \in Run, CopyFails(r), UNCHANGED <<backup, maker>>,
         Finish(r, [run[r] EXCEPT !.leftover = @ \union {"backup"}], "failed")
  PROVE  RunInv'
<1> DEFINE rec == [run[r] EXCEPT !.leftover = @ \union {"backup"}]
           new == Reported(rec, "failed")
<1>1. /\ run' = [run EXCEPT ![r] = new] /\ run[r] \in Rec /\ run[r].pc = "copy"
      /\ UNCHANGED <<verdict, source, target, backup, maker>> /\ staged' = staged
  BY DEF RunInv, RunTypeOK, CopyFails, At, Finish, files
<1>b. /\ rec \in Rec /\ rec.opts = run[r].opts /\ rec.catalog = run[r].catalog
      /\ rec.rev = run[r].rev /\ rec.outcome = run[r].outcome /\ rec.copied = run[r].copied
      /\ rec.stale = run[r].stale /\ rec.unread = run[r].unread /\ rec.leftover = run[r].leftover \union {"backup"}
  BY <1>1 DEF Rec
<1> HIDE DEF rec
<1>2. /\ new \in Rec /\ new.pc = "done" /\ new.report = "failed"
      /\ new.exit = 0 => new.report \in {"ok", "already", "published"}
      /\ new.opts = run[r].opts /\ new.catalog = run[r].catalog /\ new.rev = run[r].rev
      /\ new.outcome = run[r].outcome /\ new.copied = run[r].copied /\ new.stale = run[r].stale
      /\ new.unread = run[r].unread
      /\ new.leftover = run[r].leftover \union {"backup"}
      /\ "backup" \in new.leftover
  BY <1>b, ReportedFields DEF RunReport
<1> HIDE DEF new
<1>3. run'[r] = new
  BY <1>1 DEF RunInv, RunTypeOK
<1>4. /\ staged' \in [Run -> Successor \union {Partial, Nothing}]
      /\ \A q \in Run \ {r} : run'[q] = run[q] /\ staged'[q] = staged[q]
  BY <1>1 DEF RunInv, RunTypeOK
<1>5. CopyTaken => CopyTaken'
  BY <1>1, <1>2, <1>3, <1>4, TakenStays
<1>6. Informed(r)'
  BY <1>1, <1>2, <1>3, <1>4, RepairAssumption DEF RunInv, Informed, Applying, Publishing, Published, RunReport
<1>7. StagedIsOwn(r)'
  BY <1>1, <1>2, <1>3, <1>4 DEF RunInv, StagedIsOwn, ProductOf
<1>8. TargetStands(r)'
  BY <1>1, <1>2, <1>3, <1>4, RepairAssumption
     DEF RunInv, Informed, TargetStands, Unlinked, Published, RunReport, ProductOf
<1>9. BackupIsMade(r)'
  <2>1. run'[r].copied = run[r].copied /\ run'[r].pc = "done" /\ "backup" \in run'[r].leftover
    BY <1>1, <1>2, <1>3
  <2>2. run'[r].report = "failed" /\ (maker.backup = r => backup # Nothing)
    BY <1>2, <1>3 DEF RunInv, BackupIsMade
  <2>3. QED
    BY <1>1, <2>1, <2>2 DEF BackupIsMade, Uncopied
<1>10. BackupHolds(r)'
  BY <1>1, <1>2, <1>3, <1>4, <1>5, RepairAssumption
     DEF RunInv, RunTypeOK, Informed, Applying, Publishing, BackupHolds, Published, RunReport
<1>11. QED
  BY <1>1, <1>2, <1>3, <1>4, <1>6, <1>7, <1>8, <1>9, <1>10, QuietSound

\* Either way nothing of it is left that the run does not name.
LEMMA CopyFailsSound ==
  ASSUME RunInv, NEW r \in Run, CopyFails(r)
  PROVE  RunInv'
BY CopyFailsRemovedSound, CopyFailsLeftSound DEF CopyFails

\* A failed run takes away the copy it made; who relied on it is counted in CopyTaken.
LEMMA DiscardRemovesSound ==
  ASSUME RunInv, NEW r \in Run, DiscardCreatedBackup(r), run[r].copied, backup' = Nothing,
         maker' = [maker EXCEPT !.backup = Nothing],
         Finish(r, run[r], IF run[r].stale THEN "stale" ELSE "failed")
  PROVE  RunInv'
<1> DEFINE report == IF run[r].stale THEN "stale" ELSE "failed"
           new == Reported(run[r], report)
<1>1. /\ run' = [run EXCEPT ![r] = new] /\ run[r] \in Rec /\ run[r].pc = "discard" /\ run[r].copied
      /\ UNCHANGED <<verdict, source, target, staged>>
  BY DEF RunInv, RunTypeOK, DiscardCreatedBackup, At, Finish
<1>a. /\ report \in {"stale", "failed"} /\ report \in RunReport
      /\ run[r].stale <=> report = "stale"
  BY <1>1 DEF RunReport, Rec
<1> HIDE DEF report
<1>2. /\ new \in Rec /\ new.pc = "done" /\ new.report = report
      /\ new.exit = 0 => new.report \in {"ok", "already", "published"}
      /\ new.opts = run[r].opts /\ new.catalog = run[r].catalog /\ new.rev = run[r].rev
      /\ new.outcome = run[r].outcome /\ new.copied = run[r].copied /\ new.stale = run[r].stale
      /\ new.unread = run[r].unread
      /\ new.leftover = run[r].leftover
  BY <1>1, <1>a, ReportedFields
<1> HIDE DEF new
<1>3. run'[r] = new /\ \A q \in Run \ {r} : run'[q] = run[q]
  BY <1>1 DEF RunInv, RunTypeOK
<1>4. /\ backup' = Nothing /\ maker.backup = r /\ maker'.backup = Nothing
      /\ maker'.target = maker.target
      /\ maker' \in [target : Run \union {Nothing}, backup : Run \union {Nothing}]
  BY <1>1, RepairAssumption DEF RunInv, RunTypeOK, Informed, BackupIsMade, RunReport
<1>5. RunTypeOK'
  BY <1>1, <1>2, <1>4 DEF RunInv, RunTypeOK
<1>6. CopyTaken'
  BY <1>1, <1>a, <1>2, <1>3 DEF CopyTaken
<1>7. ASSUME NEW q \in Run, q # r
      PROVE  (Informed(q) /\ StagedIsOwn(q) /\ TargetStands(q) /\ BackupIsMade(q) /\ BackupHolds(q))'
  <2>1. /\ run'[q] = run[q] /\ staged'[q] = staged[q] /\ verdict' = verdict
        /\ source' = source /\ target' = target /\ maker'.target = maker.target
    BY <1>1, <1>3, <1>4, <1>7
  <2>2. Informed(q)'
    BY <2>1, InformedKept DEF RunInv
  <2>3. StagedIsOwn(q)'
    BY <2>1 DEF RunInv, StagedIsOwn, ProductOf
  <2>4. TargetStands(q)'
    BY <2>1 DEF RunInv, TargetStands, Published, ProductOf
  <2>5. BackupIsMade(q)'
    BY <1>4, <1>7, <2>1, RepairAssumption DEF RunInv, BackupIsMade
  <2>6. BackupHolds(q)'
    BY <1>6 DEF BackupHolds
  <2>7. QED
    BY <2>2, <2>3, <2>4, <2>5, <2>6
<1>8. TargetIsMade'
  BY <1>1, <1>2, <1>3, <1>4 DEF RunInv, RunTypeOK, TargetIsMade, ProductOf
<1>9. Informed(r)'
  BY <1>1, <1>a, <1>2, <1>3, RepairAssumption DEF RunInv, Informed, Applying, Publishing, Published, RunReport
<1>10. StagedIsOwn(r)'
  BY <1>1, <1>2, <1>3 DEF RunInv, StagedIsOwn
<1>11. TargetStands(r)'
  BY <1>1, <1>a, <1>2, <1>3, <1>4, RepairAssumption
     DEF RunInv, Informed, TargetStands, Unlinked, Published, RunReport, ProductOf
<1>12. BackupIsMade(r)'
  BY <1>1, <1>a, <1>2, <1>3, <1>4, RepairAssumption DEF BackupIsMade, Uncopied
<1>13. BackupHolds(r)'
  BY <1>6 DEF BackupHolds
<1>14. QED
  BY <1>5, <1>7, <1>8, <1>9, <1>10, <1>11, <1>12, <1>13 DEF RunInv

\* What is left of a failed run's copy is named.
LEMMA DiscardCreatedBackupSound ==
  ASSUME RunInv, NEW r \in Run, DiscardCreatedBackup(r)
  PROVE  RunInv'
BY DiscardNothingSound, DiscardFailsSound, DiscardRemovesSound DEF DiscardCreatedBackup

\* The host may append at any time: every run's revision is then an earlier one.
LEMMA HostAppendsSound ==
  ASSUME RunInv, HostAppends
  PROVE  RunInv'
<1>1. /\ source \in Revision /\ source' = source + 1 /\ source' \in Revision
      /\ UNCHANGED <<verdict, target, backup, staged, run, maker>>
  BY RepairAssumption DEF RunInv, RunTypeOK, HostAppends, Revision
<1>2. RunTypeOK' /\ TargetIsMade'
  BY <1>1 DEF RunInv, RunTypeOK, TargetIsMade, ProductOf
<1>3. ASSUME NEW q \in Run
      PROVE  (Informed(q) /\ StagedIsOwn(q) /\ TargetStands(q) /\ BackupIsMade(q) /\ BackupHolds(q))'
  <2>1. run[q].rev # Nothing => run[q].rev \in Nat /\ run[q].rev <= source /\ run[q].rev # source'
    BY <1>1 DEF RunInv, RunTypeOK, Informed, Rec, Revision
  <2>2. Informed(q)'
    BY <1>1, <2>1 DEF RunInv, Informed, Published, Applying, Revision
  <2>3. StagedIsOwn(q)'
    BY <1>1 DEF RunInv, StagedIsOwn, ProductOf
  <2>4. TargetStands(q)'
    BY <1>1, <2>1 DEF RunInv, Informed, Applying, TargetStands, Published, ProductOf
  <2>5. BackupIsMade(q)'
    BY <1>1 DEF RunInv, BackupIsMade
  <2>6. BackupHolds(q)'
    BY <1>1, <2>1 DEF RunInv, Informed, Applying, BackupHolds, Published, CopyTaken, Revision
  <2>7. QED
    BY <2>2, <2>3, <2>4, <2>5, <2>6
<1>4. QED
  BY <1>2, <1>3 DEF RunInv

-----------------------------------------------------------------------------
(* The invariant and what it gives.                                        *)

\* Every step keeps the invariant, whichever run or the host takes it.
LEMMA StepSound ==
  ASSUME RunInv, [RunNext]_runVars
  PROVE  RunInv'
<1>1. CASE UNCHANGED runVars
  BY <1>1 DEF runVars, RunInv, RunTypeOK, TargetIsMade, Informed, StagedIsOwn, TargetStands,
              BackupIsMade, BackupHolds, CopyTaken, Published, ProductOf
<1>2. CASE HostAppends
  BY <1>2, HostAppendsSound
<1>3. ASSUME NEW r \in Run, RunStep(r)
      PROVE  RunInv'
  <2>1. CASE RecheckSource(r)
    BY <2>1, RecheckPassesSound, RecheckFailsSound DEF RecheckSource
  <2>2. CASE WriteStaged(r)
    BY <2>2, WriteWholeSound, WriteStopsSound DEF WriteStaged
  <2>3. CASE Cleanup(r)
    BY <2>3, CleanupDoneSound, CleanupFailsSound DEF Cleanup
  <2>4. CASE Unstage(r)
    BY <2>4, UnstageDoneSound, UnstageFailsSound DEF Unstage
  <2>5. CASE ConfirmSource(r)
    BY <2>5, ConfirmPublishesSound, ConfirmMovesOnSound, ConfirmUnreadSound DEF ConfirmSource
  <2>6. QED
    BY <1>3, <2>1, <2>2, <2>3, <2>4, <2>5, RefuseSound, DiscoverSound, ReadLogSound,
       ProbeSuccessorSound, CreateBackupSound, FillBackupSound, CopyFailsSound, AcceptBackupSound,
       BackupFailsSound, OpenStagedSound,
       PublishExclusiveSound, SettleStalePublicationSound, DiscardCreatedBackupSound DEF RunStep
<1>4. QED
  BY <1>1, <1>2, <1>3, CrashSound DEF RunNext

\* A run that has not started has made nothing.
LEMMA StartSound ==
  ASSUME RunInit
  PROVE  RunInv
<1>1. ASSUME NEW r \in Run
      PROVE  \E o \in Options : run[r] = NotStarted(o)
  BY <1>1 DEF RunInit
<1>2. ASSUME NEW o \in Options
      PROVE  NotStarted(o) \in Rec
  BY RepairAssumption DEF NotStarted, Rec, PC
<1>3. RunTypeOK
  <2>1. run \in [Run -> Rec]
    BY <1>2 DEF RunInit
  <2>2. QED
    BY <2>1, RepairAssumption DEF RunInit, RunTypeOK, Revision
<1>4. TargetIsMade
  BY DEF RunInit, TargetIsMade
<1>5. ASSUME NEW r \in Run
      PROVE  Informed(r) /\ StagedIsOwn(r) /\ TargetStands(r) /\ BackupIsMade(r) /\ BackupHolds(r)
  <2>1. /\ run[r].pc = "start" /\ run[r].rev = Nothing /\ run[r].report = Nothing
        /\ run[r].exit = Nothing /\ run[r].outcome = Nothing /\ ~run[r].copied /\ ~run[r].stale
        /\ ~run[r].unread /\ run[r].leftover = {}
        /\ staged[r] = Nothing /\ target = Nothing /\ maker.target = Nothing /\ maker.backup = Nothing
    BY <1>1 DEF NotStarted, RunInit
  <2>2. /\ Nothing \notin RunReport /\ Nothing # "created" /\ Nothing # 0 /\ r # Nothing
    BY RepairAssumption DEF RunOutcome
  <2>3. QED
    BY <2>1, <2>2 DEF Informed, StagedIsOwn, TargetStands, BackupIsMade, BackupHolds, Applying,
       Publishing, Unlinked, Uncopied, Published, RunReport
<1>6. QED
  BY <1>3, <1>4, <1>5 DEF RunInv

\* What each run knows and whose every file is, in every state the runs reach together
\* with a host that still writes the log.
THEOREM RunsStayInformed == RunSpec => []RunInv
<1>1. RunInit => RunInv
  BY StartSound
<1>2. RunInv /\ [RunNext]_runVars => RunInv'
  BY StepSound
<1>3. QED
  BY <1>1, <1>2, PTL DEF RunSpec

\* Publication fails closed: under the canonical name is a whole generation that the strict
\* restore accepts or nothing, and of a run that failed nothing is left but what it names
\* and, when its last reading of the log failed, the successor it had linked, wherever
\* runs crash, reads fail, writes stop short and the host appends.
THEOREM PublicationFailsClosedAlways == RunSpec => []PublicationFailsClosed
<1>1. RunInv => PublicationFailsClosed
  <2> SUFFICES ASSUME RunInv
               PROVE  PublicationFailsClosed
    OBVIOUS
  <2>1. CanonicalIsWhole
    BY RepairAssumption DEF RunInv, RunTypeOK, TargetIsMade, CanonicalIsWhole
  <2>2. ASSUME NEW r \in Run, run[r].report = "failed"
        PROVE  /\ maker.target = r => run[r].unread
               /\ staged[r] # Nothing => "staged" \in run[r].leftover
               /\ maker.backup = r => "backup" \in run[r].leftover
    <3>1. run[r].pc = "done"
      BY <2>2, RepairAssumption DEF RunInv, Informed, RunReport
    <3>2. QED
      BY <2>2, <3>1 DEF RunInv, StagedIsOwn, TargetStands, BackupIsMade, Published
  <2>3. QED
    BY <2>1, <2>2 DEF PublicationFailsClosed, StoreIsAsFound
<1>2. QED
  BY <1>1, RunsStayInformed, PTL

\* A publication that is reported stands while the log is at the revision it repaired:
\* no other run removes or replaces the successor, also not one that settles its own.
THEOREM PublicationStandsAlways == RunSpec => []PublicationStands
<1>1. RunInv => PublicationStands
  BY DEF RunInv, TargetStands, Published, PublicationStands
<1>2. QED
  BY <1>1, RunsStayInformed, PTL

\* A lossy publication keeps a byte copy of the generation with the dropped rows, unless
\* the run that made the copy failed and took it away.
THEOREM LossKeepsItsBackup == RunSpec => []LossHasItsBackup
<1>1. RunInv => LossHasItsBackup
  <2> SUFFICES ASSUME RunInv, \A q \in Run : run[q].copied => run[q].report \notin {"failed", "stale"},
                      NEW r \in Run, run[r].report = "published", verdict[run[r].rev] = "lossy"
               PROVE  backup = run[r].rev
    BY DEF LossHasItsBackup
  <2>1. run[r].opts.apply /\ run[r].opts.drop /\ ~FatalProblem(run[r].opts)
    BY DEF RunInv, Informed, Published
  <2>2. run[r].opts.backup
    BY <2>1 DEF FatalProblem
  <2>3. QED
    BY <2>2 DEF RunInv, BackupHolds, Published, CopyTaken
<1>2. QED
  BY <1>1, RunsStayInformed, PTL

\* Exit code 0 of an applying run means a session that loads, while the log is the one the
\* run read: it loaded as it was, or the successor is there.
THEOREM CleanExitMeansLoads == RunSpec => []CleanExitLoads
<1>1. RunInv => CleanExitLoads
  <2> SUFFICES ASSUME RunInv, NEW r \in Run, run[r].exit = 0, run[r].opts.apply,
                      source = run[r].rev
               PROVE  verdict[source] = "ok" \/ target \in Successor
    BY DEF CleanExitLoads
  <2>1. run[r].report \in {"ok", "published"}
    BY DEF RunInv, Informed
  <2>2. CASE run[r].report = "ok"
    BY <2>2 DEF RunInv, Informed
  <2>3. CASE run[r].report = "published"
    BY <2>3, ProductWhole DEF RunInv, TargetStands, Published
  <2>4. QED
    BY <2>1, <2>2, <2>3
<1>2. QED
  BY <1>1, RunsStayInformed, PTL

=============================================================================
