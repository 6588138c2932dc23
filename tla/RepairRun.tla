------------------------------ MODULE RepairRun ------------------------------
(***************************************************************************)
(* Several runs of scripts/repair-session-logs.ts over one session         *)
(* directory, at the grain of their file operations: the source log that a *)
(* host may still append to, the successor generation published beside it, *)
(* the staged temporaries and the backup.  What the rules make of the log  *)
(* is LogTriage's; here every revision of the log has a verdict.           *)
(*                                                                         *)
(* The bytes of a successor are those of the revision it was built from,   *)
(* encoded by one build of the released catalog.                           *)
(***************************************************************************)
EXTENDS Integers, FiniteSets

CONSTANTS
  Run,       \* the processes
  Options,   \* their command lines, with the catalogs each can find
  Verdicts,  \* for every revision, what triage says of it
  MaxRev,    \* bound: revisions of the source log
  Nothing, Partial  \* no file, and one whose write stopped short

RepairFloor == 3  \* REQUIRED_CATALOG_VERSION
Revision == 1..MaxRev

(***************************************************************************)
(* lossy: repairable with --drop-legacy-events only.  unpublishable: the   *)
(* report calls it repairable and the strict restore refuses it.           *)
(***************************************************************************)
Verdict == {"ok", "refused", "unpublishable", "lossy", "repairable"}

\* A catalog module one resolution step names; it may fail to load.
Candidate == [loads : BOOLEAN, current : Nat, historical : Nat \union {Nothing}]
CatalogSource == {"option", "env", "dsh-path", "npx-store"}
CommandLine == [apply : BOOLEAN, backup : BOOLEAN, drop : BOOLEAN, irregular : BOOLEAN,
           runtime : BOOLEAN, found : [CatalogSource -> Candidate \union {Nothing}]]
Successor == [rev : Revision, build : CatalogSource]
RunOutcome == {"created", "accepted"}
RunReport == {"fatal", "ok", "unrepairable", "repairable", "already", "published", "stale", "failed"}

ASSUME RepairAssumption ==
  /\ MaxRev \in Nat \ {0}
  /\ Nothing \notin Run \union Nat \union Successor \union RunOutcome \union RunReport
  /\ Partial \notin Revision \union Successor \union {Nothing}
  /\ Options \subseteq CommandLine
  /\ Verdicts \subseteq [Revision -> Verdict]

VARIABLES
  verdict,  \* what triage says of each revision
  source,   \* revision of the source log
  target,   \* the canonical successor: Nothing, Partial or a Successor
  backup,   \* the .bak beside the source: Nothing, Partial or a Revision
  staged,   \* each run's session.repair.*.tmp: Nothing, Partial or a Successor
  run,      \* each run's progress and report
  maker     \* who made the target, and who the backup

runVars == <<verdict, source, target, backup, staged, run, maker>>
files == <<source, target, backup, staged, maker>>

-----------------------------------------------------------------------------
(* The catalog *)

\* The generation a build repairs to: its own, or the historical catalog of a
\* build that is newer than the floor.
FloorOf(c) ==
  IF c.current <= RepairFloor THEN c.current
  ELSE IF c.historical = RepairFloor THEN RepairFloor ELSE Nothing

LoadCatalog(c, by) ==
  IF c = Nothing THEN Nothing
  ELSE IF ~c.loads THEN Nothing
  ELSE [by |-> by, current |-> c.current, floor |-> FloorOf(c)]

\* A path that was named decides, also when it does not load.
ResolveCatalog(found) ==
  LET Load(by) == LoadCatalog(found[by], by)
  IN IF found["option"] # Nothing THEN Load("option")
     ELSE IF found["env"] # Nothing THEN Load("env")
     ELSE IF Load("dsh-path") # Nothing THEN Load("dsh-path") ELSE Load("npx-store")

CatalogVersionRefused(h) ==
  ~(/\ h.current >= RepairFloor /\ h.floor # Nothing
    /\ RepairFloor <= h.floor /\ h.floor <= h.current)

-----------------------------------------------------------------------------
(* One run *)

NotStarted(o) ==
  [opts |-> o, pc |-> "start", catalog |-> Nothing, rev |-> Nothing, strays |-> FALSE,
   outcome |-> Nothing, copied |-> FALSE, stale |-> FALSE, unread |-> FALSE, leftover |-> {},
   report |-> Nothing, exit |-> Nothing]

RunInit ==
  /\ verdict \in Verdicts
  /\ run \in [Run -> {NotStarted(o) : o \in Options}]
  /\ source = 1
  /\ target = Nothing /\ backup = Nothing
  /\ staged = [r \in Run |-> Nothing]
  /\ maker = [target |-> Nothing, backup |-> Nothing]

At(r, pc) == run[r].pc = pc
Goto(r, pc) == run' = [run EXCEPT ![r].pc = pc]

FatalProblem(o) ==
  LET h == ResolveCatalog(o.found)
  IN \/ o.apply /\ o.drop /\ ~o.backup
     \/ ~o.runtime
     \/ h = Nothing /\ o.apply
     \/ h # Nothing /\ CatalogVersionRefused(h)

Refuse(r) ==
  /\ At(r, "start") /\ FatalProblem(run[r].opts)
  /\ run' = [run EXCEPT ![r].pc = "done", ![r].report = "fatal", ![r].exit = 2]
  /\ UNCHANGED <<verdict, files>>

\* The walk names what it will not read and every temporary it meets, also one
\* of a run that is still at work.
Discover(r) ==
  /\ At(r, "start") /\ ~FatalProblem(run[r].opts)
  /\ run' = [run EXCEPT ![r].pc = "read",
               ![r].catalog = ResolveCatalog(run[r].opts.found),
               ![r].strays = run[r].opts.irregular \/ \E q \in Run : staged[q] # Nothing]
  /\ UNCHANGED <<verdict, files>>

RepairableHere(r, rev) ==
  \/ verdict[rev] \in {"repairable", "unpublishable"}
  \/ verdict[rev] = "lossy" /\ run[r].opts.drop /\ run[r].catalog # Nothing

\* Mutant: only a log without a repair fails the run.
ReportedLightly(rec, report) ==
  [rec EXCEPT !.pc = "done", !.report = report,
     !.exit = IF report # "unrepairable" /\ ~rec.strays THEN 0 ELSE 1]

\* A log that loads, or a published or proven successor, is no refusal.
Reported(rec, report) ==
  [rec EXCEPT !.pc = "done", !.report = report,
     !.exit = IF report \in {"ok", "already", "published"} /\ ~rec.strays THEN 0 ELSE 1]
Finish(r, rec, report) == run' = [run EXCEPT ![r] = Reported(rec, report)]

\* readFile, which may fail, and what analyzeLog makes of the bytes.
ReadLog(r) ==
  LET rec == [run[r] EXCEPT !.rev = source]
  IN /\ At(r, "read")
     /\ \/ Finish(r, run[r], "unrepairable")
        \/ /\ verdict[source] = "ok" /\ Finish(r, rec, "ok")
        \/ /\ verdict[source] # "ok" /\ ~RepairableHere(r, source)
           /\ Finish(r, rec, "unrepairable")
        \/ /\ verdict[source] # "ok" /\ RepairableHere(r, source)
           /\ run' = [run EXCEPT ![r] =
                [rec EXCEPT !.pc = IF ~rec.opts.apply THEN "probe"
                                   ELSE IF rec.opts.backup THEN "backup" ELSE "recheck"]]
     /\ UNCHANGED <<verdict, files>>

\* Report mode reads an existing successor back through the oracle; one that
\* cannot be read counts as refused.
ProbeSuccessor(r) ==
  /\ At(r, "probe")
  /\ \/ target \in Successor /\ run[r].catalog # Nothing /\ Finish(r, run[r], "already")
     \/ Finish(r, run[r], "repairable")
  /\ UNCHANGED <<verdict, files>>

-----------------------------------------------------------------------------
(* The backup *)

\* copyFile with COPYFILE_EXCL makes the file first and fills it then.
CreateBackup(r) ==
  /\ At(r, "backup") /\ backup = Nothing
  /\ backup' = Partial /\ maker' = [maker EXCEPT !.backup = r]
  /\ Goto(r, "copy")
  /\ UNCHANGED <<verdict, source, target, staged>>

FillBackup(r) ==
  /\ At(r, "copy")
  /\ backup' = source
  /\ run' = [run EXCEPT ![r].pc = "recheck", ![r].copied = TRUE]
  /\ UNCHANGED <<verdict, source, target, staged, maker>>

\* The copy fails: its beginning is removed, or stays when that fails too.
CopyFails(r) ==
  /\ At(r, "copy")
  /\ \/ /\ backup' = Nothing /\ maker' = [maker EXCEPT !.backup = Nothing]
        /\ Finish(r, run[r], "failed")
     \/ /\ Finish(r, [run[r] EXCEPT !.leftover = @ \union {"backup"}], "failed")
        /\ UNCHANGED <<backup, maker>>
  /\ UNCHANGED <<verdict, source, target, staged>>

\* Mutant: any copy will do.
AcceptAnyBackup(r) ==
  /\ At(r, "backup") /\ backup # Nothing
  /\ Goto(r, "recheck")
  /\ UNCHANGED <<verdict, files>>

\* An equal copy is accepted.  The two files are read at once and compared here in
\* one step: had the log changed in between, RecheckSource would end the run.
AcceptBackup(r) ==
  /\ At(r, "backup") /\ backup = source
  /\ Goto(r, "recheck")
  /\ UNCHANGED <<verdict, files>>

\* A copy that differs, or a copy or a reading that fails, refuses the repair.
BackupFails(r) ==
  /\ At(r, "backup")
  /\ Finish(r, run[r], "failed")
  /\ UNCHANGED <<verdict, files>>

-----------------------------------------------------------------------------
(* publishSuccessor *)

ProductOf(r) == [rev |-> run[r].rev, build |-> run[r].catalog.by]

\* The digest of the decoded bytes, then the strict restore, before any write.
RecheckSource(r) ==
  /\ At(r, "recheck")
  /\ \/ /\ source = run[r].rev /\ verdict[source] # "unpublishable"
        /\ Goto(r, "stage")
     \/ Goto(r, "discard")
  /\ UNCHANGED <<verdict, files>>

\* Mutant: the successor is written under its own name.
OpenInPlace(r) ==
  /\ At(r, "stage")
  /\ staged' = [staged EXCEPT ![r] = Partial]
  /\ target' = IF target = Nothing THEN Partial ELSE target
  /\ Goto(r, "write")
  /\ UNCHANGED <<verdict, source, backup, maker>>

OpenStaged(r) ==
  /\ At(r, "stage")
  /\ staged' = [staged EXCEPT ![r] = Partial]
  /\ Goto(r, "write")
  /\ UNCHANGED <<verdict, source, target, backup, maker>>

\* The write may stop short (ENOSPC, quota).
WriteStaged(r) ==
  /\ At(r, "write")
  /\ \/ /\ staged' = [staged EXCEPT ![r] = ProductOf(r)]
        /\ Goto(r, "link")
     \/ Goto(r, "cleanup") /\ UNCHANGED staged
  /\ UNCHANGED <<verdict, source, target, backup, maker>>

\* Mutant: an existing successor is replaced.
RenameOver(r) ==
  /\ At(r, "link")
  /\ target' = staged[r]
  /\ maker' = [maker EXCEPT !.target = r]
  /\ run' = [run EXCEPT ![r].pc = "unstage", ![r].outcome = "created"]
  /\ UNCHANGED <<verdict, source, backup, staged>>

\* verifyGeneration reads the staged bytes back; link never replaces a file.
\* An existing successor is accepted when it has the same bytes; other bytes, or a
\* reading or a link that fails, end the publication.
PublishExclusive(r) ==
  /\ At(r, "link")
  /\ \/ /\ staged[r] \in Successor /\ target = Nothing
        /\ target' = staged[r]
        /\ maker' = [maker EXCEPT !.target = r]
        /\ run' = [run EXCEPT ![r].pc = "unstage", ![r].outcome = "created"]
     \/ /\ staged[r] \in Successor /\ target = staged[r]
        /\ run' = [run EXCEPT ![r].pc = "unstage", ![r].outcome = "accepted"]
        /\ UNCHANGED <<target, maker>>
     \/ Goto(r, "cleanup") /\ UNCHANGED <<target, maker>>
  /\ UNCHANGED <<verdict, source, backup, staged>>

\* A temporary that cannot be removed fails a failed run twice.
Cleanup(r) ==
  /\ At(r, "cleanup")
  /\ \/ staged' = [staged EXCEPT ![r] = Nothing] /\ Goto(r, "discard")
     \/ /\ run' = [run EXCEPT ![r].pc = "discard", ![r].leftover = {"staged"}]
        /\ UNCHANGED staged
  /\ UNCHANGED <<verdict, source, target, backup, maker>>

\* After the publication the failure to remove it is ignored.
Unstage(r) ==
  /\ At(r, "unstage")
  /\ \/ staged' = [staged EXCEPT ![r] = Nothing] /\ Goto(r, "confirm")
     \/ /\ run' = [run EXCEPT ![r].pc = "confirm", ![r].leftover = {"staged"}]
        /\ UNCHANGED staged
  /\ UNCHANGED <<verdict, source, target, backup, maker>>

\* The last reading of the log.  When it fails, what this call linked stays, and
\* the failure is reported as any other.
ConfirmSource(r) ==
  /\ At(r, "confirm")
  /\ \/ source = run[r].rev /\ Finish(r, run[r], "published")
     \/ source # run[r].rev /\ Goto(r, "settle")
     \/ run' = [run EXCEPT ![r].pc = "discard", ![r].unread = TRUE]
  /\ UNCHANGED <<verdict, files>>

\* What this call created is removed; what it accepted is left and named.
SettleStalePublication(r) ==
  /\ At(r, "settle")
  /\ \/ /\ run[r].outcome = "created"
        /\ target' = Nothing /\ maker' = [maker EXCEPT !.target = Nothing]
        /\ Goto(r, "discard")
     \/ /\ run' = [run EXCEPT ![r].pc = "discard", ![r].stale = TRUE]
        /\ UNCHANGED <<target, maker>>
  /\ UNCHANGED <<verdict, source, backup, staged>>

\* discardCreatedBackup and the report of the failure.
DiscardCreatedBackup(r) ==
  /\ At(r, "discard")
  /\ LET report == IF run[r].stale THEN "stale" ELSE "failed"
     IN \/ /\ run[r].copied
           /\ backup' = Nothing /\ maker' = [maker EXCEPT !.backup = Nothing]
           /\ Finish(r, run[r], report)
        \/ /\ run[r].copied
           /\ Finish(r, [run[r] EXCEPT !.leftover = @ \union {"backup"}], report)
           /\ UNCHANGED <<backup, maker>>
        \/ /\ ~run[r].copied
           /\ Finish(r, run[r], report)
           /\ UNCHANGED <<backup, maker>>
  /\ UNCHANGED <<verdict, source, target, staged>>

-----------------------------------------------------------------------------
(* Surroundings *)

\* The precondition "no dsh instance is writing" is printed, never enforced.
HostAppends ==
  /\ source < MaxRev
  /\ source' = source + 1
  /\ UNCHANGED <<verdict, target, backup, staged, run, maker>>

\* The process dies; what it wrote stays.
Crash(r) ==
  /\ run[r].pc \notin {"start", "done", "crashed"}
  /\ Goto(r, "crashed")
  /\ UNCHANGED <<verdict, files>>

RunStep(r) ==
  \/ Refuse(r) \/ Discover(r) \/ ReadLog(r) \/ ProbeSuccessor(r)
  \/ CreateBackup(r) \/ FillBackup(r) \/ CopyFails(r) \/ AcceptBackup(r) \/ BackupFails(r)
  \/ RecheckSource(r) \/ OpenStaged(r) \/ WriteStaged(r) \/ PublishExclusive(r)
  \/ Cleanup(r) \/ Unstage(r) \/ ConfirmSource(r) \/ SettleStalePublication(r)
  \/ DiscardCreatedBackup(r)

RunNext == HostAppends \/ \E r \in Run : RunStep(r) \/ Crash(r)

RunSpec == RunInit /\ [][RunNext]_runVars

-----------------------------------------------------------------------------
(* Properties *)

\* Types of the state.
PC == {"start", "read", "probe", "backup", "copy", "recheck", "stage", "write",
       "link", "cleanup", "unstage", "confirm", "settle", "discard", "done", "crashed"}
Catalog == [by : CatalogSource, current : Nat, floor : Nat \union {Nothing}]
Rec == [opts : CommandLine, pc : PC, catalog : Catalog \union {Nothing},
        rev : Revision \union {Nothing}, strays : BOOLEAN,
        outcome : RunOutcome \union {Nothing}, copied : BOOLEAN, stale : BOOLEAN,
        unread : BOOLEAN,
        leftover : SUBSET {"staged", "backup"}, report : RunReport \union {Nothing},
        exit : {0, 1, 2, Nothing}]

\* Whatever crashes, and wherever a write stops: under the canonical name is
\* nothing or a whole generation, of a revision the strict restore accepts.
CanonicalIsWhole ==
  target # Nothing => target \in Successor /\ verdict[target.rev] \in {"repairable", "lossy"}

\* A run that reports a publication has one that stands: as long as the log is
\* at the revision it repaired, its successor is there, whatever other runs do.
PublicationStands ==
  \A r \in Run :
    run[r].report = "published" /\ source = run[r].rev => target = ProductOf(r)

\* A run that fails and names no successor leaves none of its files, but those
\* it could not remove: not its temporary, not the copy it made, and not the
\* successor it created, unless its last reading of the log failed
\* (NothingPublishedIsTrue).
StoreIsAsFound ==
  \A r \in Run :
    run[r].report = "failed" =>
      /\ maker.target = r => run[r].unread
      /\ staged[r] # Nothing => "staged" \in run[r].leftover
      /\ maker.backup = r => "backup" \in run[r].leftover

\* What the comment before the report of a failure promises (analyzeLog of
\* repair-session-logs.ts: a publication that happened is never reported as
\* "nothing was published"): a run that reports so made no successor that is
\* still there.
NothingPublishedIsTrue == \A r \in Run : run[r].report = "failed" => maker.target # r

\* Publication fails closed: whatever happens to a run, the directory holds a
\* whole successor or none, and of a run that failed nothing but what
\* StoreIsAsFound excepts.
PublicationFailsClosed == CanonicalIsWhole /\ StoreIsAsFound

\* A lossy publication has a byte copy of the only generation that still holds
\* the dropped rows.  Another run that made the copy and failed takes it away.
LossHasItsBackup ==
  (\A q \in Run : run[q].copied => run[q].report \notin {"failed", "stale"})
    => \A r \in Run :
         run[r].report = "published" /\ verdict[run[r].rev] = "lossy"
           => backup = run[r].rev

\* An applying run that exits clean leaves a session that loads, while the log
\* is the one it read.
CleanExitLoads ==
  \A r \in Run :
    run[r].exit = 0 /\ run[r].opts.apply /\ source = run[r].rev
      => verdict[source] = "ok" \/ target \in Successor

=============================================================================
