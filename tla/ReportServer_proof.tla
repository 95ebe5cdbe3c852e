-------------------------- MODULE ReportServer_proof --------------------------
(* A server only runs on the newest schema, and a database is whatever its     *)
(* version says; archives grow, nothing is left out of them, and what a user   *)
(* is shown is what was archived for him: for any users, measurements and      *)
(* faults.                                                                     *)
EXTENDS ReportServer, Folds_proof

(* What the open transaction has come to, in each state of migrate_db: it      *)
(* believes what the database says unless a failed renewal was not noticed.    *)
TxInv ==
  /\ mpc \in {"prepare", "step", "commit"} => tx.version = Target
  /\ mpc = "prepare" =>
       start >= 2 /\ tx.steps = {s \in 3 .. Import : s <= start}
  /\ mpc = "step" => tx.steps = {s \in 3 .. Import : s < step}
  /\ mpc = "commit" => tx.steps = Schema(Target)

TxTypes ==
  /\ mpc \in {"prepare", "step", "commit"} => tx \in Databases
  /\ mpc = "prepare" => start \in -1 .. Target - 1
  /\ mpc = "step" => step \in 3 .. Import

MigInv ==
  /\ db \in Databases
  /\ TxTypes
  /\ unread \in BOOLEAN
  /\ mpc # "down" => db.triggers
  /\ ~unread => /\ db.steps = Schema(db.version)
                /\ mpc = "running" => db.version = Target
                /\ TxInv

LEMMA InitMigInv == ASSUME MigInit PROVE MigInv
<1> USE VersionsAssumption
<1>1. PICK v \in Versions :
        db = [version |-> v, steps |-> Schema(v), prev |-> v >= 3, triggers |-> v # Target]
  BY DEF MigInit
<1>2. v \in 2 .. 7
  OBVIOUS
<1>3. Schema(v) \in SUBSET (3 .. 7)
  BY DEF Schema, Import
<1>4. db \in Databases
  BY <1>1, <1>2, <1>3 DEF Databases
<1>5. db.steps = Schema(db.version)
  BY <1>1
<1> QED BY <1>4, <1>5 DEF MigInit, MigInv, TxTypes, TxInv

LEMMA StepMigInv ==
  ASSUME MigInv, [MigNext]_<<migration, faults>>
  PROVE  MigInv'
<1> USE DEF Target, Import
<1>0. CASE UNCHANGED <<migration, faults>>
  BY <1>0 DEF MigInv, TxTypes, TxInv, migration
<1>1. CASE Open
  BY <1>1 DEF Open, MigInv, TxTypes, TxInv, Databases
<1>2. CASE Compatibility
  BY <1>2 DEF Compatibility, Ends, MigInv, TxTypes, TxInv, Databases
<1>3. CASE RenewVersion
  <2>1. db.version \in 2 .. 7 /\ db' = db /\ unread' = unread /\ db.triggers
    BY <1>3 DEF RenewVersion, MigInv, Databases
  <2>2. CASE db.version = Target
    BY <1>3, <2>1, <2>2 DEF RenewVersion, Decide, Runs, MigInv, TxTypes, TxInv
  <2>3. CASE db.version > Target
    BY <1>3, <2>1, <2>3 DEF RenewVersion, Decide, Newest, Ends, MigInv, TxTypes, TxInv
  <2>4. CASE db.version < Target
    <3>1. /\ start' = db.version
          /\ tx' = [db EXCEPT !.version = Target]
          /\ mpc' = "prepare"
      BY <1>3, <2>1, <2>4 DEF RenewVersion, Decide, Newest
    <3>2. tx' \in Databases /\ tx'.version = Target /\ tx'.steps = db.steps
      BY <3>1 DEF MigInv, Databases
    <3>3. Schema(db.version) = {s \in 3 .. Import : s <= db.version}
      BY <2>1, <2>4 DEF Schema
    <3> QED BY <2>1, <2>4, <3>1, <3>2, <3>3 DEF MigInv, TxTypes, TxInv
  <2> QED BY <2>1, <2>2, <2>3, <2>4
<1>4. CASE RenewVersionFails
  <2>1. unread' /\ db' = db /\ db.triggers
    BY <1>4 DEF RenewVersionFails, MigInv
  <2>2. PICK from \in -1 .. Target + 1, to \in {Target - 1, Target} : Decide(from, to, db)
    BY <1>4 DEF RenewVersionFails
  <2>3. TxTypes'
    BY <2>1, <2>2 DEF Decide, Runs, Ends, TxTypes, MigInv
  <2> QED BY <2>1, <2>3 DEF MigInv
<1>5. CASE Prepare
  <2>1. /\ tx' = [tx EXCEPT !.triggers = FALSE] /\ db' = db /\ unread' = unread
        /\ tx \in Databases /\ start \in -1 .. Target - 1
        /\ mpc = "prepare" /\ mpc' \in {"commit", "step"}
    BY <1>5 DEF Prepare, MigInv, TxTypes
  <2>2. tx' \in Databases /\ tx'.version = tx.version /\ tx'.steps = tx.steps
    BY <2>1 DEF Databases
  <2>3. mpc' = "step" => step' = IF start < 3 THEN 3 ELSE start + 1
    BY <1>5 DEF Prepare
  <2>4. TxTypes'
    BY <2>1, <2>2, <2>3 DEF TxTypes
  <2>5. ASSUME ~unread PROVE TxInv'
    <3>1. /\ tx.version = Target /\ start >= 2
          /\ tx.steps = {s \in 3 .. Import : s <= start}
      BY <2>1, <2>5 DEF MigInv, TxInv
    <3>2. mpc' = "step" /\ step' = start + 1
      BY <1>5, <2>1, <3>1 DEF Prepare
    <3> QED BY <2>1, <2>2, <3>1, <3>2 DEF TxInv
  <2> QED BY <2>1, <2>4, <2>5 DEF MigInv
<1>6. CASE Apply
  <2>1. /\ db' = db /\ unread' = unread /\ tx \in Databases /\ step \in 3 .. Import
        /\ mpc = "step" /\ mpc' \in {"commit", "step", "rollback"}
    BY <1>6 DEF Apply, MigInv, TxTypes
  <2>2. CASE mpc' = "rollback"
    BY <2>1, <2>2 DEF MigInv, TxTypes, TxInv
  <2>3. CASE mpc' # "rollback"
    <3>1. /\ tx' = [tx EXCEPT !.steps = @ \union {step}]
          /\ mpc' = IF step = Import THEN "commit" ELSE "step"
          /\ step' = step + 1
      BY <1>6, <2>3 DEF Apply
    <3>2. /\ tx' \in Databases /\ tx'.version = tx.version
          /\ tx'.steps = tx.steps \union {step}
      BY <2>1, <3>1 DEF Databases
    <3>3. TxTypes'
      BY <2>1, <3>1, <3>2 DEF TxTypes
    <3>4. ASSUME ~unread PROVE TxInv'
      <4>1. tx.version = Target /\ tx.steps = {s \in 3 .. Import : s < step}
        BY <2>1, <3>4 DEF MigInv, TxInv
      <4>2. tx'.steps = {s \in 3 .. Import : s < step + 1}
        BY <2>1, <3>2, <4>1
      <4>3. mpc' = "commit" => tx'.steps = Schema(Target)
        BY <2>1, <3>1, <4>2 DEF Schema
      <4> QED BY <3>1, <3>2, <4>1, <4>2, <4>3 DEF TxInv
    <3> QED BY <2>1, <3>3, <3>4 DEF MigInv
  <2> QED BY <2>2, <2>3
<1>7. CASE ApplyFails
  BY <1>7 DEF ApplyFails, MigInv, TxTypes, TxInv
<1>8. CASE Commit
  BY <1>8 DEF Commit, Ends, MigInv, TxTypes, TxInv
<1>9. CASE Rollback
  BY <1>9 DEF Rollback, Ends, MigInv, TxTypes, TxInv
<1>10. CASE MigKilled
  BY <1>10 DEF MigKilled, Ends, MigInv, TxTypes, TxInv
<1> QED BY <1>0, <1>1, <1>2, <1>3, <1>4, <1>5, <1>6, <1>7, <1>8, <1>9, <1>10
        DEF MigNext, Migrate

(* The reports leave the database alone, but for its records; a process that   *)
(* is killed in a round takes nothing of it along.                             *)
LEMMA NextMigInv == ASSUME MigInv, [Next]_vars PROVE MigInv'
<1>1. CASE MigNext
  BY <1>1, StepMigInv
<1>2. CASE UNCHANGED migration
  BY <1>2 DEF migration, MigInv, TxTypes, TxInv
<1>3. CASE Killed
  BY <1>3 DEF Killed, MigInv, TxTypes, TxInv
<1>4. CASE UNCHANGED vars
  BY <1>2, <1>4 DEF vars
<1>5. CASE Boot
  BY <1>2, <1>5 DEF Boot
<1> QED BY <1>1, <1>2, <1>3, <1>4, <1>5 DEF Next

LEMMA Migrated == Spec => []MigInv
<1>1. Init => MigInv
  BY InitMigInv DEF Init
<1>2. MigInv /\ [Next]_vars => MigInv'
  BY NextMigInv
<1> QED BY <1>1, <1>2, PTL DEF Spec

(* Whenever a migration is killed, fails or is tried again, the stored version *)
(* tells which tables there are (migrate.cpp:57-178).                          *)
THEOREM VersionTells == Spec => []SchemaMatches
<1>1. MigInv => SchemaMatches
  BY DEF MigInv, SchemaMatches
<1> QED BY <1>1, Migrated, PTL

(* A server comes to its rounds on the newest schema only, with the triggers   *)
(* that a migration drops (main.cpp:90-125, migrate.cpp:42-56 and 178).        *)
THEOREM RunsOnTarget == Spec => []RunsMigrated
<1>1. MigInv => RunsMigrated
  BY DEF MigInv, RunsMigrated
<1> QED BY <1>1, Migrated, PTL

TypeInv ==
  /\ MigTypeOK
  /\ TxTypes

LEMMA FaultCounted ==
  ASSUME faults \in 0 .. MaxFaults, Fault PROVE faults' \in 0 .. MaxFaults
BY FaultsAssumption DEF Fault

LEMMA StepTypeInv ==
  ASSUME TypeInv, [MigNext]_<<migration, faults>>
  PROVE  TypeInv'
<1> USE DEF Target, Import, TypeInv, MigTypeOK, TxTypes
<1>0. CASE UNCHANGED <<migration, faults>>
  BY <1>0 DEF migration
<1>1. CASE Open
  BY <1>1 DEF Open, Databases
<1>2. CASE Compatibility
  <2>1. [db EXCEPT !.prev = TRUE] \in Databases
    BY DEF Databases
  <2>2. CASE db.prev
    BY <1>2, <2>2 DEF Compatibility, Ends
  <2>3. CASE ~db.prev
    BY <1>2, <2>1, <2>3 DEF Compatibility
  <2> QED BY <2>2, <2>3
<1>3. CASE RenewVersion
  <2>1. [db EXCEPT !.version = Newest(@)] \in Databases
    BY DEF Databases, Newest
  <2>2. db.version \in 2 .. 7
    BY DEF Databases
  <2> QED BY <1>3, <2>1, <2>2 DEF RenewVersion, Decide, Newest, Runs, Ends
<1>4. CASE RenewVersionFails
  <2>1. PICK from \in -1 .. Target + 1, to \in {Target - 1, Target} : Decide(from, to, db)
    BY <1>4 DEF RenewVersionFails
  <2>2. unread' /\ db' = db /\ Fault /\ mpc = "renew"
    BY <1>4 DEF RenewVersionFails
  <2> QED BY <2>1, <2>2, FaultCounted DEF Decide, Runs, Ends
<1>5. CASE Prepare
  <2>1. [tx EXCEPT !.triggers = FALSE] \in Databases
    BY <1>5 DEF Prepare, Databases
  <2> QED BY <1>5, <2>1 DEF Prepare
<1>6. CASE Apply
  <2>1. [tx EXCEPT !.steps = @ \union {step}] \in Databases
    BY <1>6 DEF Apply, Databases
  <2> QED BY <1>6, <2>1 DEF Apply
<1>7. CASE ApplyFails
  BY <1>7, FaultCounted DEF ApplyFails
<1>8. CASE Commit
  BY <1>8 DEF Commit, Ends
<1>9. CASE Rollback
  BY <1>9 DEF Rollback, Ends
<1>10. CASE MigKilled
  BY <1>10, FaultCounted DEF MigKilled, Ends
<1> QED BY <1>0, <1>1, <1>2, <1>3, <1>4, <1>5, <1>6, <1>7, <1>8, <1>9, <1>10
        DEF MigNext, Migrate

(* What the reports do counts faults one by one, if at all.                    *)
LEMMA ReportFaults ==
  ASSUME Boot \/ Measure \/ Tick \/ Analyze \/ AnalyzeFails \/ Killed \/ Web \/ CrashWeb
  PROVE  Fault \/ UNCHANGED faults
<1>1. ASSUME NEW p, Load(p) \/ LoadFails(p) PROVE Fault \/ UNCHANGED faults
  BY <1>1 DEF Load, LoadFails
<1>2. CASE Web
  BY <1>1, <1>2 DEF Web, ReadDir, LoadListed, AddWatch, Reload, RemoveRenew
<1>3. CASE Analyze \/ AnalyzeFails
  BY <1>3 DEF Analyze, AnalyzeFails, RenewOffset, Tar, Rename, Notify,
              RenewFails, ListFails, TarFails
<1> QED BY <1>2, <1>3 DEF Boot, StartAnalyzer, Measure, Tick, Killed, CrashAnalyzer, CrashWeb

(* The database, the transaction and the locals of migrate_db keep their       *)
(* types, whatever else runs (migrate.cpp:22-178).                             *)
THEOREM MigrationTyped == Spec => []MigTypeOK
<1>1. Init => TypeInv
  <2> SUFFICES ASSUME Init PROVE TypeInv
    OBVIOUS
  <2>1. db \in Databases
    BY InitMigInv DEF Init, MigInv
  <2>2. /\ tx = NoTx /\ mpc = "down" /\ start = 0 /\ step = 0
        /\ unread \in BOOLEAN /\ faults = 0
    BY DEF Init, MigInit
  <2> QED BY <2>1, <2>2, FaultsAssumption
          DEF TypeInv, MigTypeOK, TxTypes, Target, Import
<1>2. TypeInv /\ [Next]_vars => TypeInv'
  <2> SUFFICES ASSUME TypeInv, [Next]_vars PROVE TypeInv'
    OBVIOUS
  <2> USE DEF TypeInv, MigTypeOK, TxTypes
  <2>1. CASE MigNext
    BY <2>1, StepTypeInv
  <2>2. CASE UNCHANGED vars
    BY <2>2 DEF vars, migration
  <2>3. CASE Killed
    <3>1. faults' \in 0 .. MaxFaults
      BY <2>3, ReportFaults, FaultCounted
    <3> QED BY <2>3, <3>1 DEF Killed
  <2>4. CASE Boot \/ ((Measure \/ Tick \/ Analyze \/ AnalyzeFails) /\ UNCHANGED migration)
             \/ ((Web \/ CrashWeb) /\ UNCHANGED migration)
    <3>1. faults' \in 0 .. MaxFaults
      BY <2>4, ReportFaults, FaultCounted
    <3>2. UNCHANGED migration
      BY <2>4 DEF Boot
    <3> QED BY <3>1, <3>2 DEF migration
  <2> QED BY <2>1, <2>2, <2>3, <2>4 DEF Next
<1>3. TypeInv => MigTypeOK
  BY DEF TypeInv
<1> QED BY <1>1, <1>2, <1>3, PTL DEF Spec

-----------------------------------------------------------------------------
(* The reports.  The analyzer: where its rounds and the offset are, and what   *)
(* it is about to publish.                                                     *)
BoundsInv ==
  /\ records \in 0 .. MaxRecords
  /\ analysis_offset \in 0 .. records
  /\ offset_start \in 0 .. records /\ offset_end \in offset_start .. records
  /\ next_period_update \in {"unset", "ahead", "past"}
  /\ apc \in {"down", "idle", "renewed", "archived", "renamed"}
  /\ apc = "archived" => tmp \in Archives(Measured(offset_start, offset_end))

AllArchives == UNION {Archives(about) : about \in SUBSET Records}

(* An archive is about the measurements from the start of its period to some   *)
(* later one.  The round that goes on knows of no fewer, unless the process    *)
(* has not had its bounds yet.                                                 *)
DirInv ==
  /\ dir \in [Periods -> {None} \union AllArchives]
  /\ \A p \in Periods : dir[p] # None =>
       \E end \in 0 .. records : dir[p].about = Measured(p, end)
  /\ offset_end = 0 \/ dir[offset_start] = None
       \/ dir[offset_start].about \subseteq Measured(offset_start, offset_end)
  /\ apc = "renamed" => dir[offset_start] # None

(* What the round has yet to publish is not missing.                           *)
InRound == IF apc \in {"renewed", "archived"} THEN Unpublished ELSE {}

CoverInv ==
  /\ lost \subseteq 1 .. records
  /\ 1 .. analysis_offset \subseteq Published \union lost \union InRound

(* The web server is notified of what is there, of each period once.           *)
WebInv ==
  /\ wpc \in {"down", "load", "wait", "remove"}
  /\ renew \subseteq {p \in Periods : dir[p] # None}
  /\ dirlist \subseteq {p \in Periods : dir[p] # None}
  /\ events \in Seq(Periods)
  /\ Range(events) \subseteq renew
  /\ IsInjective(events)
  /\ wpc = "remove" => events # <<>>

(* What is served is an archive, or the beginning of one.                      *)
MadeOf(archive) ==
  {LoadResultTar(archive)} \union {LoadUntil(archive, n) : n \in DOMAIN archive.entries}

ServedInv ==
  /\ resultsAvailable \subseteq Periods
  /\ Results \in [Periods -> {None} \union UNION {MadeOf(archive) : archive \in AllArchives}]
  /\ \A p \in resultsAvailable : Results[p] # None

ReportsInv == BoundsInv /\ DirInv /\ CoverInv /\ WebInv /\ ServedInv

LEMMA ArchivesAbout ==
  ASSUME NEW about \in SUBSET Records, NEW archive \in Archives(about)
  PROVE  archive.about = about /\ archive # None /\ archive \in AllArchives
<1>1. archive.about = about
  <2>1. PICK users \in SetToSeqs({Owner[r] : r \in about}) :
          archive = [about |-> about,
                     entries |-> FlattenSeq([i \in DOMAIN users |-> Letter(users[i], about)])]
    BY DEF Archives
  <2> QED BY <2>1
<1>2. archive # None
  BY NoneAssumption
<1> QED BY <1>1, <1>2 DEF AllArchives

LEMMA ArchiveOf ==
  ASSUME NEW archive \in AllArchives
  PROVE  /\ archive.about \in SUBSET Records /\ archive \in Archives(archive.about)
         /\ archive # None
<1>1. PICK about \in SUBSET Records : archive \in Archives(about)
  BY DEF AllArchives
<1> QED BY <1>1, ArchivesAbout

LEMMA MeasuredIn ==
  ASSUME NEW from, NEW to PROVE Measured(from, to) \in SUBSET Records
BY DEF Measured

(* What a step of the server is for the reports.                               *)
ReportStep ==
  \/ UNCHANGED reports
  \/ StartAnalyzer \/ Measure \/ Tick
  \/ RenewOffset \/ Tar \/ Rename \/ Notify
  \/ RenewFails \/ ListFails \/ TarFails
  \/ CrashAnalyzer
  \/ ReadDir \/ (\E p \in Periods : LoadListed(p)) \/ AddWatch \/ Reload \/ RemoveRenew
  \/ CrashWeb

LEMMA NextReportStep == ASSUME [Next]_vars PROVE ReportStep
BY DEF Next, vars, Boot, Killed, Analyze, AnalyzeFails, Web, ReportStep

LEMMA BoundsStep == ASSUME BoundsInv, ReportStep PROVE BoundsInv'
<1> USE DEF BoundsInv
<1>0. MaxRecords \in Nat
  BY ReportsAssumption
<1>1. CASE UNCHANGED reports
  BY <1>1 DEF reports, analysis, files, web
<1>2. CASE StartAnalyzer
  BY <1>2 DEF StartAnalyzer, files
<1>3. CASE Measure
  BY <1>0, <1>3 DEF Measure, analysis, files
<1>4. CASE Tick
  BY <1>4 DEF Tick, files
<1>5. CASE RenewOffset
  BY <1>0, <1>5 DEF RenewOffset, Bounds, NextPeriod, Expired
<1>6. CASE Tar
  BY <1>6 DEF Tar
<1>7. CASE Rename
  BY <1>7 DEF Rename
<1>8. CASE Notify
  BY <1>8 DEF Notify
<1>9. CASE RenewFails
  BY <1>9 DEF RenewFails, NextPeriod
<1>10. CASE ListFails
  BY <1>10 DEF ListFails
<1>11. CASE TarFails
  BY <1>11 DEF TarFails
<1>12. CASE CrashAnalyzer
  BY <1>0, <1>12 DEF CrashAnalyzer
<1>13. CASE \/ ReadDir \/ (\E p \in Periods : LoadListed(p)) \/ AddWatch \/ Reload
            \/ RemoveRenew \/ CrashWeb
  <2>1. UNCHANGED <<records, analysis_offset, analysis, tmp>>
    BY <1>13 DEF ReadDir, LoadListed, AddWatch, Reload, RemoveRenew, CrashWeb, files
  <2> QED BY <2>1 DEF analysis
<1> QED BY <1>1, <1>2, <1>3, <1>4, <1>5, <1>6, <1>7, <1>8, <1>9, <1>10, <1>11, <1>12, <1>13
        DEF ReportStep

(* Only Rename publishes; the others change what DirInv says of the round.     *)
LEMMA DirStep == ASSUME BoundsInv, DirInv, ReportStep PROVE DirInv'
<1> USE DEF BoundsInv, DirInv
<1>0. MaxRecords \in Nat
  BY ReportsAssumption
<1>1. CASE UNCHANGED <<records, offset_start, offset_end, dir>> /\ (apc' # "renamed" \/ apc' = apc)
  BY <1>1
<1>2. CASE Measure
  BY <1>0, <1>2 DEF Measure, analysis, files
<1>3. CASE RenewOffset
  <2>1. /\ offset_start' = analysis_offset /\ offset_end' = records
        /\ UNCHANGED <<records, dir>> /\ apc' = "renewed"
    BY <1>3 DEF RenewOffset, Bounds, files
  <2>2. analysis_offset \in Periods
    BY <1>0 DEF Periods
  <2>3. ASSUME dir[analysis_offset] # None
        PROVE  dir[analysis_offset].about \subseteq Measured(analysis_offset, records)
    <3>1. PICK end \in 0 .. records : dir[analysis_offset].about = Measured(analysis_offset, end)
      BY <2>2, <2>3
    <3> QED BY <1>0, <3>1 DEF Measured, InPeriod, Records
  <2> QED BY <2>1, <2>3
<1>4. CASE Rename
  <2>1. /\ apc = "archived" /\ dir' = [dir EXCEPT ![offset_start] = tmp] /\ apc' = "renamed"
        /\ UNCHANGED <<records, offset_start, offset_end>>
    BY <1>4 DEF Rename
  <2>2. tmp \in Archives(Measured(offset_start, offset_end)) /\ offset_start \in Periods
    BY <1>0, <2>1 DEF Periods
  <2>3. tmp.about = Measured(offset_start, offset_end) /\ tmp # None /\ tmp \in AllArchives
    BY <2>2, MeasuredIn, ArchivesAbout
  <2>4. dir'[offset_start] = tmp /\ \A p \in Periods \ {offset_start} : dir'[p] = dir[p]
    BY <2>1, <2>2
  <2>5. dir' \in [Periods -> {None} \union AllArchives]
    BY <2>1, <2>3
  <2>6. ASSUME NEW p \in Periods, dir'[p] # None
        PROVE  \E end \in 0 .. records : dir'[p].about = Measured(p, end)
    <3>1. CASE p = offset_start
      BY <1>0, <2>3, <2>4, <3>1
    <3>2. CASE p # offset_start
      BY <2>4, <2>6, <3>2
    <3> QED BY <3>1, <3>2
  <2> QED BY <2>1, <2>3, <2>4, <2>5, <2>6
<1>5. CASE CrashAnalyzer
  BY <1>5 DEF CrashAnalyzer
<1>6. \/ UNCHANGED reports
      \/ StartAnalyzer \/ Tick \/ Tar \/ Notify \/ RenewFails \/ ListFails \/ TarFails
      \/ ReadDir \/ (\E p \in Periods : LoadListed(p)) \/ AddWatch \/ Reload \/ RemoveRenew
      \/ CrashWeb
      => UNCHANGED <<records, offset_start, offset_end, dir>> /\ (apc' # "renamed" \/ apc' = apc)
  BY DEF reports, analysis, files, web, StartAnalyzer, Tick, Tar, Notify, RenewFails, ListFails,
         TarFails, ReadDir, LoadListed, AddWatch, Reload, RemoveRenew, CrashWeb
<1> QED BY <1>1, <1>2, <1>3, <1>4, <1>5, <1>6 DEF ReportStep

LEMMA GivenUp ==
  ASSUME Give(Unpublished), dir' = dir, analysis_offset' = analysis_offset, records' = records,
         BoundsInv, CoverInv, apc' \notin {"renewed", "archived"},
         apc \in {"renewed", "archived"}
  PROVE  CoverInv'
<1>1. Published' = Published
  BY DEF Published
<1>2. lost' = lost \union (Unpublished \ Published) /\ InRound = Unpublished /\ InRound' = {}
  BY DEF Give, InRound
<1>3. Unpublished \subseteq 1 .. records
  <2>1. MaxRecords \in Nat
    BY ReportsAssumption
  <2> QED BY <2>1 DEF Unpublished, Measured, InPeriod, Records, BoundsInv
<1> QED BY <1>1, <1>2, <1>3 DEF CoverInv

(* A round that ends early gives up what it has not published; the others      *)
(* either leave it for later or publish it.                                    *)
LEMMA CoverStep == ASSUME BoundsInv, DirInv, CoverInv, ReportStep PROVE CoverInv'
<1>0. MaxRecords \in Nat
  BY ReportsAssumption
<1>1. CASE /\ UNCHANGED <<analysis_offset, dir, lost>> /\ records' \in {records, records + 1}
           /\ InRound' = InRound \/ InRound = {}
  <2>1. Published' = Published
    BY <1>1 DEF Published
  <2> QED BY <1>0, <1>1, <2>1 DEF CoverInv, BoundsInv
<1>2. CASE RenewOffset
  <2>1. /\ offset_start' = analysis_offset /\ offset_end' = records
        /\ analysis_offset' = IF Expired THEN records ELSE analysis_offset
        /\ UNCHANGED <<records, dir, lost>> /\ apc' = "renewed" /\ apc = "idle"
    BY <1>2 DEF RenewOffset, Bounds, files
  <2>2. Published' = Published
    BY <2>1 DEF Published
  <2>3. 1 .. analysis_offset \subseteq Published \union lost
    BY <2>1 DEF CoverInv, InRound
  <2>4. InRound' = {r \in Measured(analysis_offset, records) : r <= analysis_offset'}
    BY <2>1 DEF InRound, Unpublished
  <2>5. ASSUME NEW r \in 1 .. analysis_offset', r \notin 1 .. analysis_offset
        PROVE  r \in InRound'
    <3>1. r \in Measured(analysis_offset, records) /\ r <= analysis_offset'
      BY <1>0, <2>1, <2>5 DEF Measured, InPeriod, Records, BoundsInv
    <3> QED BY <2>4, <3>1
  <2> QED BY <2>1, <2>2, <2>3, <2>5 DEF CoverInv
<1>3. CASE Rename
  <2>1. /\ apc = "archived" /\ dir' = [dir EXCEPT ![offset_start] = tmp] /\ apc' = "renamed"
        /\ lost' = lost \union IF dir[offset_start] = None THEN {}
                               ELSE dir[offset_start].about \ tmp.about
        /\ UNCHANGED <<records, analysis_offset>>
    BY <1>3 DEF Rename
  <2>2. tmp \in Archives(Measured(offset_start, offset_end)) /\ offset_start \in Periods
    BY <1>0, <2>1 DEF Periods, BoundsInv
  <2>3. tmp.about = Measured(offset_start, offset_end) /\ tmp # None
    BY <2>2, MeasuredIn, ArchivesAbout
  <2>4. dir'[offset_start] = tmp /\ \A p \in Periods \ {offset_start} : dir'[p] = dir[p]
    BY <2>1, <2>2 DEF DirInv
  <2>5. InRound \subseteq Published'
    <3>1. InRound \subseteq tmp.about
      BY <2>1, <2>3 DEF InRound, Unpublished
    <3>2. tmp.about \subseteq Published'
      BY <2>2, <2>3, <2>4 DEF Published
    <3> QED BY <3>1, <3>2
  <2>6. Published \subseteq Published' \union lost'
    <3> SUFFICES ASSUME NEW p \in Periods, dir[p] # None, NEW r \in dir[p].about
                 PROVE  r \in Published' \union lost'
      BY DEF Published
    <3>1. CASE p = offset_start
      <4>1. tmp.about \subseteq Published'
        BY <2>2, <2>3, <2>4 DEF Published
      <4> QED BY <2>1, <3>1, <4>1
    <3>2. CASE p # offset_start
      BY <2>4, <3>2 DEF Published
    <3> QED BY <3>1, <3>2
  <2>7. lost' \subseteq 1 .. records
    <3>1. dir[offset_start] # None => dir[offset_start].about \subseteq 1 .. records
      <4> SUFFICES ASSUME dir[offset_start] # None
                   PROVE  dir[offset_start].about \subseteq 1 .. records
        OBVIOUS
      <4>1. PICK end \in 0 .. records : dir[offset_start].about = Measured(offset_start, end)
        BY <2>2 DEF DirInv
      <4> QED BY <1>0, <4>1 DEF Measured, InPeriod, Records, BoundsInv
    <3> QED BY <2>1, <3>1 DEF CoverInv
  <2> QED BY <2>1, <2>5, <2>6, <2>7 DEF CoverInv
<1>4. CASE ListFails \/ TarFails
  BY <1>4, GivenUp DEF ListFails, TarFails, files
<1>5. CASE CrashAnalyzer
  <2>1. CASE apc \in {"renewed", "archived"}
    BY <1>5, <2>1, GivenUp DEF CrashAnalyzer
  <2>2. CASE apc \notin {"renewed", "archived"}
    BY <1>1, <1>5, <2>2 DEF CrashAnalyzer, InRound
  <2> QED BY <2>1, <2>2
<1>6. CASE RenewFails \/ StartAnalyzer \/ Measure \/ Tick
  <2>1. InRound = {}
    BY <1>6 DEF RenewFails, StartAnalyzer, Measure, Tick, InRound
  <2>2. UNCHANGED <<analysis_offset, dir, lost>> /\ records' \in {records, records + 1}
    BY <1>6 DEF RenewFails, StartAnalyzer, Measure, Tick, files, analysis
  <2> QED BY <1>1, <2>1, <2>2
<1>7. CASE \/ UNCHANGED reports \/ Tar \/ Notify
           \/ ReadDir \/ (\E p \in Periods : LoadListed(p)) \/ AddWatch \/ Reload
           \/ RemoveRenew \/ CrashWeb
  <2>1. /\ UNCHANGED <<records, analysis_offset, offset_start, offset_end, dir, lost>>
        /\ \/ apc' = apc
           \/ apc = "renewed" /\ apc' = "archived"
           \/ apc = "renamed" /\ apc' = "idle"
    BY <1>7 DEF reports, analysis, files, web, Tar, Notify, ReadDir, LoadListed, AddWatch, Reload,
                RemoveRenew, CrashWeb
  <2>2. InRound' = InRound
    BY <2>1 DEF InRound, Unpublished
  <2> QED BY <1>1, <2>1, <2>2
<1> QED BY <1>2, <1>3, <1>4, <1>5, <1>6, <1>7 DEF ReportStep

LEMMA NotifiedOnce ==
  ASSUME NEW S, NEW e \in Seq(S), NEW x \in S, IsInjective(e), x \notin Range(e)
  PROVE  /\ Append(e, x) \in Seq(S) /\ IsInjective(Append(e, x))
         /\ Range(Append(e, x)) = Range(e) \union {x}
<1>1. /\ Append(e, x) \in Seq(S) /\ Len(Append(e, x)) = Len(e) + 1 /\ Append(e, x)[Len(e) + 1] = x
      /\ \A i \in 1 .. Len(e) : Append(e, x)[i] = e[i]
  OBVIOUS
<1>2. DOMAIN Append(e, x) = 1 .. Len(e) + 1 /\ DOMAIN e = 1 .. Len(e) /\ Len(e) \in Nat
  BY <1>1
<1>3. IsInjective(Append(e, x))
  BY <1>1, <1>2 DEF IsInjective, Range
<1>4. Range(Append(e, x)) = Range(e) \union {x}
  <2> HIDE DEF IsInjective
  <2> QED BY <1>1, <1>2 DEF Range
<1> QED BY <1>1, <1>3, <1>4

LEMMA HandledOnce ==
  ASSUME NEW S, NEW e \in Seq(S), e # <<>>, IsInjective(e)
  PROVE  /\ Tail(e) \in Seq(S) /\ IsInjective(Tail(e)) /\ Head(e) \in Range(e)
         /\ Range(Tail(e)) \subseteq Range(e) \ {Head(e)}
<1>1. /\ Tail(e) \in Seq(S) /\ Len(Tail(e)) = Len(e) - 1 /\ Len(e) \in Nat \ {0} /\ Head(e) = e[1]
      /\ \A i \in 1 .. Len(e) - 1 : Tail(e)[i] = e[i + 1]
  OBVIOUS
<1>2. DOMAIN Tail(e) = 1 .. Len(e) - 1 /\ DOMAIN e = 1 .. Len(e)
  BY <1>1
<1> QED BY <1>1, <1>2 DEF IsInjective, Range

LEMMA WebStep == ASSUME BoundsInv, DirInv, WebInv, ReportStep PROVE WebInv'
<1> USE DEF WebInv
<1>0. MaxRecords \in Nat
  BY ReportsAssumption
<1>1. CASE UNCHANGED <<renew, dirlist, events, wpc, dir>>
  BY <1>1
<1>2. CASE Rename
  <2>1. /\ apc = "archived" /\ dir' = [dir EXCEPT ![offset_start] = tmp]
        /\ UNCHANGED <<renew, wpc, dirlist, events>>
    BY <1>2 DEF Rename, web
  <2>2. tmp # None
    BY <2>1, MeasuredIn, ArchivesAbout DEF BoundsInv
  <2>3. \A p \in Periods : dir[p] # None => dir'[p] # None
    BY <2>1, <2>2 DEF DirInv
  <2> QED BY <2>1, <2>3
<1>3. CASE Notify
  <2>1. /\ apc = "renamed" /\ renew' = renew \union {offset_start} /\ UNCHANGED <<wpc, dirlist, dir>>
        /\ events' = IF Watching /\ offset_start \notin renew THEN Append(events, offset_start)
                     ELSE events
    BY <1>3 DEF Notify
  <2>2. offset_start \in Periods /\ dir[offset_start] # None
    BY <1>0, <2>1 DEF Periods, BoundsInv, DirInv
  <2>3. CASE events' = events
    BY <2>1, <2>2, <2>3
  <2>4. CASE events' = Append(events, offset_start) /\ offset_start \notin renew
    <3>1. /\ events' \in Seq(Periods) /\ IsInjective(events') /\ events' # <<>>
          /\ Range(events') = Range(events) \union {offset_start}
      BY <2>2, <2>4, NotifiedOnce
    <3> QED BY <2>1, <2>2, <3>1
  <2> QED BY <2>1, <2>3, <2>4
<1>4. CASE ReadDir
  BY <1>4 DEF ReadDir, files
<1>5. CASE \E p \in Periods : LoadListed(p)
  BY <1>5 DEF LoadListed, files
<1>6. CASE AddWatch
  BY <1>6 DEF AddWatch, files
<1>7. CASE Reload
  BY <1>7 DEF Reload, files
<1>8. CASE RemoveRenew
  <2>1. /\ wpc = "remove" /\ renew' = renew \ {Head(events)} /\ events' = Tail(events)
        /\ wpc' = "wait" /\ UNCHANGED <<dir, dirlist>>
    BY <1>8 DEF RemoveRenew
  <2>2. /\ Tail(events) \in Seq(Periods) /\ IsInjective(Tail(events))
        /\ Range(Tail(events)) \subseteq Range(events) \ {Head(events)}
    BY <2>1, HandledOnce
  <2> QED BY <2>1, <2>2
<1>9. CASE CrashWeb
  BY <1>9 DEF CrashWeb, files, IsInjective, Range
<1>10. \/ UNCHANGED reports
       \/ StartAnalyzer \/ Measure \/ Tick \/ RenewOffset \/ Tar
       \/ RenewFails \/ ListFails \/ TarFails \/ CrashAnalyzer
       => UNCHANGED <<renew, dirlist, events, wpc, dir>>
  BY DEF reports, files, web, StartAnalyzer, Measure, Tick, RenewOffset, Tar, RenewFails, ListFails,
         TarFails, CrashAnalyzer
<1> QED BY <1>1, <1>2, <1>3, <1>4, <1>5, <1>6, <1>7, <1>8, <1>9, <1>10 DEF ReportStep

(* What the web server loads is there, and it is made of an archive.           *)
LEMMA LoadServed ==
  ASSUME DirInv, ServedInv, NEW p \in Periods, dir[p] # None, Load(p) \/ LoadFails(p)
  PROVE  ServedInv'
<1>1. dir[p] \in AllArchives
  BY DEF DirInv
<1>2. \A made \in MadeOf(dir[p]) :
        made # None /\ made \in UNION {MadeOf(archive) : archive \in AllArchives}
  <2> SUFFICES ASSUME NEW made \in MadeOf(dir[p])
               PROVE  made # None /\ made \in UNION {MadeOf(archive) : archive \in AllArchives}
    OBVIOUS
  <2>1. dir[p].about \in SUBSET Records /\ dir[p] \in Archives(dir[p].about)
    BY <1>1, ArchiveOf
  <2>2. made # None
    BY <2>1, NoneAssumption DEF MadeOf
  <2> QED BY <1>1, <2>2
<1>3. CASE Load(p)
  <2>1. /\ Results' = [Results EXCEPT ![p] = LoadResultTar(dir[p])]
        /\ resultsAvailable' = resultsAvailable \union {p}
    BY <1>3 DEF Load
  <2>2. LoadResultTar(dir[p]) \in MadeOf(dir[p])
    BY DEF MadeOf
  <2> QED BY <1>2, <2>1, <2>2 DEF ServedInv
<1>4. CASE LoadFails(p)
  <2>1. PICK n \in DOMAIN dir[p].entries : Results' = [Results EXCEPT ![p] = LoadUntil(dir[p], n)]
    BY <1>4 DEF LoadFails
  <2>2. LoadUntil(dir[p], n) \in MadeOf(dir[p]) /\ resultsAvailable' = resultsAvailable
    BY <1>4 DEF MadeOf, LoadFails
  <2> QED BY <1>2, <2>1, <2>2 DEF ServedInv
<1> QED BY <1>3, <1>4

LEMMA ServedStep == ASSUME DirInv, WebInv, ServedInv, ReportStep PROVE ServedInv'
<1>1. CASE UNCHANGED <<Results, resultsAvailable>>
  BY <1>1 DEF ServedInv
<1>2. CASE \E p \in Periods : LoadListed(p)
  BY <1>2, LoadServed DEF LoadListed, WebInv
<1>3. CASE Reload
  <2>1. /\ events # <<>> /\ (Load(Head(events)) \/ LoadFails(Head(events)))
    BY <1>3 DEF Reload
  <2>2. Head(events) \in Range(events)
    BY <2>1, HandledOnce DEF WebInv
  <2>3. Head(events) \in Periods /\ dir[Head(events)] # None
    BY <2>2 DEF WebInv
  <2> QED BY <2>1, <2>3, LoadServed
<1>4. CASE CrashWeb
  BY <1>4 DEF CrashWeb, ServedInv
<1>5. \/ UNCHANGED reports
      \/ StartAnalyzer \/ Measure \/ Tick
      \/ RenewOffset \/ Tar \/ Rename \/ Notify
      \/ RenewFails \/ ListFails \/ TarFails
      \/ CrashAnalyzer \/ ReadDir \/ AddWatch \/ RemoveRenew
      => UNCHANGED <<Results, resultsAvailable>>
  BY DEF reports, files, web, StartAnalyzer, Measure, Tick, RenewOffset, Tar, Rename, Notify,
         RenewFails, ListFails, TarFails, CrashAnalyzer, ReadDir, AddWatch, RemoveRenew
<1> QED BY <1>1, <1>2, <1>3, <1>4, <1>5 DEF ReportStep

LEMMA InitReportsInv == ASSUME ReportInit PROVE ReportsInv
<1>0. MaxRecords \in Nat \ {0}
  BY ReportsAssumption
<1>1. BoundsInv
  BY <1>0 DEF ReportInit, BoundsInv
<1>2. DirInv
  BY <1>0 DEF ReportInit, DirInv, Periods
<1>3. CoverInv
  BY DEF ReportInit, CoverInv, InRound
<1>4. WebInv
  BY DEF ReportInit, WebInv, IsInjective, Range
<1>5. ServedInv
  BY DEF ReportInit, ServedInv
<1> QED BY <1>1, <1>2, <1>3, <1>4, <1>5 DEF ReportsInv

LEMMA Reporting == Spec => []ReportsInv
<1>1. Init => ReportsInv
  BY InitReportsInv DEF Init
<1>2. ReportsInv /\ [Next]_vars => ReportsInv'
  BY NextReportStep, BoundsStep, DirStep, CoverStep, WebStep, ServedStep DEF ReportsInv
<1> QED BY <1>1, <1>2, PTL DEF Spec

(* The types of the analyzer, the directory and the web server; among them:    *)
(* whoever is notified finds a file, and is notified of a period once.         *)
THEOREM ReportsTyped == Spec => []ReportsTypeOK
<1>1. ReportsInv => ReportsTypeOK
  <2> SUFFICES ASSUME ReportsInv PROVE ReportsTypeOK
    OBVIOUS
  <2> USE DEF ReportsInv
  <2>0. MaxRecords \in Nat
    BY ReportsAssumption
  <2>1. apc = "archived" => tmp # None
    BY MeasuredIn, ArchivesAbout DEF BoundsInv
  <2>2. \A p \in Periods : dir[p] # None => dir[p].about \subseteq 1 .. records
    BY <2>0 DEF BoundsInv, DirInv, Measured, InPeriod, Records
  <2> QED BY <2>1, <2>2 DEF ReportsTypeOK, BoundsInv, CoverInv, WebInv, ServedInv
<1> QED BY <1>1, Reporting, PTL

(* Whichever rounds fail or are cut off, a measurement up to the committed     *)
(* offset is in an archive unless the round that closed its period gave up.    *)
THEOREM NothingSkipped == Spec => []PeriodsCover
<1>1. ReportsInv => PeriodsCover
  BY DEF ReportsInv, CoverInv, InRound, PeriodsCover
<1> QED BY <1>1, Reporting, PTL

(* Publishing a period again only adds to what is published of it.             *)
THEOREM ArchivesGrow == Spec => NeverShrinks
<1>1. ReportsInv /\ [Next]_vars =>
        [\A p \in Periods :
           \/ dir[p] = None
           \/ dir[p].about \subseteq dir'[p].about
           \/ p = 0 /\ offset_end = 0]_dir
  <2> SUFFICES ASSUME ReportsInv, [Next]_vars, dir' # dir,
                      NEW p \in Periods, dir[p] # None
               PROVE  \/ dir[p].about \subseteq dir'[p].about
                      \/ p = 0 /\ offset_end = 0
    OBVIOUS
  <2> USE DEF ReportsInv
  <2>1. Rename
    BY NextReportStep
       DEF ReportStep, reports, analysis, files, web, StartAnalyzer, Measure, Tick, RenewOffset, Tar,
           Notify, RenewFails, ListFails, TarFails, CrashAnalyzer, ReadDir, LoadListed, AddWatch,
           Reload, RemoveRenew, CrashWeb
  <2>2. apc = "archived" /\ dir' = [dir EXCEPT ![offset_start] = tmp]
    BY <2>1 DEF Rename
  <2>3. CASE p # offset_start
    BY <2>2, <2>3 DEF DirInv
  <2>4. CASE p = offset_start
    <3>1. tmp.about = Measured(offset_start, offset_end)
      BY <2>2, MeasuredIn, ArchivesAbout DEF BoundsInv
    <3>2. dir'[p] = tmp
      BY <2>2, <2>4 DEF DirInv
    <3>3. offset_end = 0 => offset_start = 0
      BY DEF BoundsInv
    <3> QED BY <2>4, <3>1, <3>2, <3>3 DEF DirInv
  <2> QED BY <2>3, <2>4
<1> QED BY <1>1, Reporting, PTL DEF Spec, NeverShrinks
-----------------------------------------------------------------------------
(* Archives and their readers.                                                 *)

Owners(about) == {Owner[r] : r \in about}
Files == [user : Users, ext : {"header", "mail", "empty"}]
Parts(users, about) == [i \in DOMAIN users |-> Letter(users[i], about)]

(* The users of an archive come in some order, each once.                      *)
Listed(users, about) ==
  /\ users \in Seq(Users)
  /\ Range(users) = Owners(about)
  /\ \A i, j \in 1 .. Len(users) : i # j => users[i] # users[j]

LEMMA UsersListed ==
  ASSUME NEW about \in SUBSET Records, NEW users \in SetToSeqs(Owners(about))
  PROVE  Listed(users, about)
<1> DEFINE owner == [r \in about |-> Owner[r]]
           n == Cardinality(Owners(about))
<1>1. IsFiniteSet(Owners(about)) /\ Owners(about) \subseteq Users
  <2>1. owner \in Surjection(about, Owners(about))
    BY DEF Surjection, Owners
  <2>2. IsFiniteSet(Records)
    BY ReportsAssumption, FS_Interval DEF Records
  <2>3. IsFiniteSet(about)
    BY <2>2, FS_Subset
  <2>4. Owners(about) \subseteq Users
    BY ReportsAssumption DEF Owners
  <2> HIDE DEF owner
  <2> QED BY <2>1, <2>3, <2>4, FS_Surjection
<1>2. n \in Nat /\ IsFiniteSet(1 .. n) /\ Cardinality(1 .. n) = n
  <2>1. n \in Nat
    BY <1>1, FS_CardinalityType
  <2> HIDE DEF n
  <2> QED BY <2>1, FS_Interval
<1>3. users \in [1 .. n -> Owners(about)] /\ \A i, j \in 1 .. n : i # j => users[i] # users[j]
  BY DEF SetToSeqs
<1>4. users \in Injection(1 .. n, Owners(about))
  BY <1>3 DEF Injection, IsInjective
<1>5. users \in Surjection(1 .. n, Owners(about))
  BY <1>1, <1>2, <1>4, FS_Injection
<1>6. Range(users) = Owners(about)
  BY <1>3, <1>5 DEF Surjection, Range
<1> HIDE DEF n
<1>7. users \in Seq(Users) /\ Len(users) = n
  BY <1>1, <1>2, <1>3
<1> QED BY <1>3, <1>6, <1>7 DEF Listed

(* header and mail, and empty when there is nothing to tell.                   *)
LEMMA LetterFiles ==
  ASSUME NEW about, NEW u \in Users
  PROVE  /\ Letter(u, about) \in Seq(Files)
         /\ Letter(u, about)[1] = File(u, "header")
         /\ Letter(u, about)[2] = File(u, "mail")
         /\ IF u \in Told(about) THEN Len(Letter(u, about)) = 2
            ELSE Len(Letter(u, about)) = 3 /\ Letter(u, about)[3] = File(u, "empty")
<1> DEFINE head == <<File(u, "header"), File(u, "mail")>>
<1>1. /\ head \in Seq(Files) /\ Len(head) = 2
      /\ head[1] = File(u, "header") /\ head[2] = File(u, "mail")
  BY DEF File, Files
<1>2. CASE u \in Told(about)
  <2>1. Letter(u, about) = head \o <<>>
    BY <1>2 DEF Letter
  <2> HIDE DEF head
  <2>2. Letter(u, about) = head
    BY <1>1, <2>1, ConcatEmptySeq
  <2> QED BY <1>1, <1>2, <2>2
<1>3. CASE u \notin Told(about)
  <2> DEFINE tail == <<File(u, "empty")>>
  <2>1. Letter(u, about) = head \o tail
    BY <1>3 DEF Letter
  <2>2. tail \in Seq(Files) /\ Len(tail) = 1 /\ tail[1] = File(u, "empty")
    BY DEF File, Files
  <2> HIDE DEF head, tail
  <2>3. /\ head \o tail \in Seq(Files)
        /\ Len(head \o tail) = 3
        /\ \A i \in 1 .. 3 : (head \o tail)[i] = IF i <= 2 THEN head[i] ELSE tail[i - 2]
    <3>1. /\ head \o tail \in Seq(Files)
          /\ Len(head \o tail) = Len(head) + Len(tail)
          /\ \A i \in 1 .. Len(head) + Len(tail) :
               (head \o tail)[i] = IF i <= Len(head) THEN head[i] ELSE tail[i - Len(head)]
      BY <1>1, <2>2, ConcatProperties
    <3>2. Len(head) + Len(tail) = 3 /\ Len(head) = 2
      BY <1>1, <2>2
    <3> QED BY <3>1, <3>2
  <2>4. 1 \in 1 .. 3 /\ 2 \in 1 .. 3 /\ 3 \in 1 .. 3
    OBVIOUS
  <2>5. (head \o tail)[1] = head[1] /\ (head \o tail)[2] = head[2] /\ (head \o tail)[3] = tail[1]
    BY <2>3, <2>4
  <2> QED BY <1>1, <1>3, <2>1, <2>2, <2>3, <2>5
<1> QED BY <1>2, <1>3

(* The files of an archive are the letters of its users, one after the other.  *)
Assembled(archive, about, users, g) ==
  /\ Listed(users, about)
  /\ Parts(users, about) \in Seq(Seq(Files)) /\ Len(Parts(users, about)) = Len(users)
  /\ g \in [0 .. Len(users) -> Seq(Files)]
  /\ Flattens(Parts(users, about), g)
  /\ archive.entries = g[Len(users)]

LEMMA ArchiveAssembled ==
  ASSUME NEW about \in SUBSET Records, NEW archive \in Archives(about)
  PROVE  \E users, g : Assembled(archive, about, users, g)
<1>1. PICK users \in SetToSeqs(Owners(about)) :
        archive.entries = FlattenSeq(Parts(users, about))
  <2>1. PICK users \in SetToSeqs(Owners(about)) :
          archive = [about |-> about,
                     entries |-> FlattenSeq([i \in DOMAIN users |-> Letter(users[i], about)])]
    BY DEF Archives, Owners
  <2>2. archive.entries = FlattenSeq(Parts(users, about))
    BY <2>1 DEF Parts
  <2> QED BY <2>2
<1>2. Listed(users, about)
  BY <1>1, UsersListed
<1> DEFINE parts == Parts(users, about)
<1>3. parts \in Seq(Seq(Files)) /\ Len(parts) = Len(users)
  <2>1. Len(users) \in Nat /\ DOMAIN users = 1 .. Len(users)
        /\ \A i \in 1 .. Len(users) : users[i] \in Users
    BY <1>2, ElementOfSeq, LenProperties DEF Listed
  <2>2. \A i \in 1 .. Len(users) : Letter(users[i], about) \in Seq(Files)
    BY <2>1, LetterFiles
  <2>3. parts = [i \in 1 .. Len(users) |-> Letter(users[i], about)]
    BY <2>1 DEF Parts
  <2> QED BY <2>1, <2>2, <2>3
<1> HIDE DEF parts
<1>4. PICK g \in [0 .. Len(parts) -> Seq(Files)] :
        Flattens(parts, g) /\ FlattenSeq(parts) = g[Len(parts)]
  BY <1>3, FlattenParts
<1>5. Assembled(archive, about, users, g)
  BY <1>1, <1>2, <1>3, <1>4 DEF Assembled, parts
<1> QED BY <1>5

LEMMA MailsWritten ==
  ASSUME NEW about \in SUBSET Records, NEW archive \in Archives(about)
  PROVE  {e.user : e \in {f \in Range(archive.entries) : f.ext = "mail"}} = Owners(about)
<1>1. PICK users, g : Assembled(archive, about, users, g)
  BY ArchiveAssembled
<1> DEFINE parts == Parts(users, about)
           n == Len(users)
           mails == {f \in Range(archive.entries) : f.ext = "mail"}
<1>2. /\ n \in Nat /\ DOMAIN users = 1 .. n /\ Len(parts) = n
      /\ \A i \in 1 .. n : users[i] \in Users /\ parts[i] = Letter(users[i], about)
  BY <1>1, ElementOfSeq, LenProperties DEF Assembled, Listed, Parts
<1>3. Range(archive.entries) = UNION {Range(parts[i]) : i \in 1 .. n}
  <2>1. parts \in Seq(Seq(Files)) /\ g \in [0 .. Len(parts) -> Seq(Files)] /\ Flattens(parts, g)
        /\ archive.entries = g[Len(parts)]
    BY <1>1 DEF Assembled
  <2> HIDE DEF parts
  <2>2. Range(g[Len(parts)]) = UNION {Range(parts[i]) : i \in 1 .. Len(parts)}
    BY <2>1, FlattenRange
  <2> QED BY <1>2, <2>1, <2>2
<1>4. ASSUME NEW i \in 1 .. n
      PROVE  /\ File(users[i], "mail") \in Range(parts[i])
             /\ \A f \in Range(parts[i]) : f.ext = "mail" => f.user = users[i]
  <2> DEFINE letter == Letter(users[i], about)
  <2>1. parts[i] = letter /\ users[i] \in Users
    BY <1>2
  <2>2. /\ letter \in Seq(Files) /\ Len(letter) \in {2, 3}
        /\ letter[1] = File(users[i], "header") /\ letter[2] = File(users[i], "mail")
        /\ Len(letter) = 3 => letter[3] = File(users[i], "empty")
    BY <2>1, LetterFiles
  <2> HIDE DEF letter, parts
  <2>3. Range(letter) = {letter[k] : k \in 1 .. Len(letter)}
    BY <2>2, LenProperties DEF Range
  <2>4. letter[2] \in Range(letter)
    BY <2>2, <2>3
  <2>5. ASSUME NEW f \in Range(letter), f.ext = "mail" PROVE f.user = users[i]
    <3>1. PICK k \in 1 .. Len(letter) : f = letter[k]
      BY <2>3
    <3>2. k \in {1, 2, 3} /\ (k = 3 => Len(letter) = 3)
      <4>1. CASE Len(letter) = 2
        BY <4>1
      <4>2. CASE Len(letter) = 3
        BY <4>2
      <4> QED BY <2>2, <4>1, <4>2
    <3> QED BY <2>2, <2>5, <3>1, <3>2 DEF File
  <2> QED BY <2>1, <2>2, <2>4, <2>5
<1>5. Owners(about) = {users[i] : i \in 1 .. n}
  BY <1>1, <1>2 DEF Assembled, Listed, Range
<1> HIDE DEF parts, n
<1>6. ASSUME NEW f \in mails PROVE f.user \in Owners(about)
  <2>1. PICK i \in 1 .. n : f \in Range(parts[i])
    BY <1>3
  <2>2. f.user = users[i]
    BY <1>4, <2>1
  <2> QED BY <1>5, <2>2
<1>7. ASSUME NEW u \in Owners(about) PROVE \E f \in mails : f.user = u
  <2>1. PICK i \in 1 .. n : u = users[i]
    BY <1>5
  <2> DEFINE f == File(users[i], "mail")
  <2>2. f.ext = "mail" /\ f.user = u
    BY <2>1 DEF File
  <2>3. f \in Range(archive.entries)
    BY <1>3, <1>4
  <2>4. f \in mails
    BY <2>2, <2>3
  <2> HIDE DEF f, mails
  <2> QED BY <2>2, <2>4
<1> HIDE DEF mails
<1>8. {e.user : e \in mails} = Owners(about)
  BY <1>6, <1>7
<1> QED BY <1>8 DEF mails
Named == Users \union {NoUser}
Readers == [curName : Named, headerText : Named, bodyText : Named,
            letters : SUBSET [name : Named, headerText : Named, bodyText : Named]]

LEMMA ReadType ==
  ASSUME NEW r \in Readers, NEW f \in Files
  PROVE  ReadEntry(r, f) \in Readers /\ Flush(r) \in Readers
<1>1. Flush(r) \in Readers
  BY DEF Flush, Readers
<1>2. f.user \in Named /\ f.ext \in {"header", "mail", "empty"}
  BY DEF Files, Named
<1>3. CASE f.ext = "header"
  <2>1. Header(r, f.user) \in Readers
    BY <1>1, <1>2 DEF Header, Readers
  <2> QED BY <1>1, <1>3, <2>1 DEF ReadEntry
<1>4. CASE f.ext = "mail"
  BY <1>1, <1>2, <1>4 DEF ReadEntry, Readers
<1>5. CASE f.ext = "empty"
  BY <1>1, <1>5 DEF ReadEntry, Readers, Named
<1> QED BY <1>2, <1>3, <1>4, <1>5

(* The reader after each file.                                                 *)
ReadAll(entries) == FoldLeft(ReadEntry, NoReader, entries)
Reads(entries, R) ==
  /\ R[0] = NoReader
  /\ \A k \in 1 .. Len(entries) : R[k] = ReadEntry(R[k - 1], entries[k])
  /\ R[Len(entries)] = ReadAll(entries)

ReadUpto(entries, g) ==
  [s \in SUBSET (DOMAIN entries) |->
     IF s = {} THEN NoReader ELSE ReadEntry(g[s \ {Max(s)}], entries[Max(s)])]

LEMMA ReadParts ==
  ASSUME NEW entries \in Seq(Files)
  PROVE  \E R : Reads(entries, R)
<1> DEFINE n == Len(entries)
           H == [p \in Readers \X (1 .. n) |-> ReadEntry(p[1], entries[p[2]])]
           g == CHOOSE g : g = ReadUpto(entries, g)
<1>1. n \in Nat /\ DOMAIN entries = 1 .. n /\ \A k \in 1 .. n : entries[k] \in Files
  BY ElementOfSeq, LenProperties
<1> HIDE DEF n
<1>2. H \in [Readers \X (1 .. n) -> Readers]
  <2> SUFFICES ASSUME NEW p \in Readers \X (1 .. n) PROVE ReadEntry(p[1], entries[p[2]]) \in Readers
    OBVIOUS
  <2>1. p[1] \in Readers /\ p[2] \in 1 .. n
    OBVIOUS
  <2> QED BY <1>1, <2>1, ReadType
<1>3. NoReader \in Readers
  BY DEF NoReader, Readers, Named
<1>4. PICK h \in [SUBSET (1 .. n) -> Readers] : h = Folding(n, NoReader, H, h)
  <2> HIDE DEF H
  <2>1. Folds(n, Readers, NoReader, H)
    BY <1>1, <1>2, <1>3, FoldsExist
  <2> QED BY <2>1 DEF Folds
<1>5. Folding(n, NoReader, H, h) = ReadUpto(entries, h)
  <2>1. ASSUME NEW s \in SUBSET (1 .. n), s # {}
        PROVE  H[<<h[s \ {Max(s)}], Max(s)>>] = ReadEntry(h[s \ {Max(s)}], entries[Max(s)])
    <3>1. Max(s) \in 1 .. n /\ h[s \ {Max(s)}] \in Readers
      BY <1>1, <1>4, <2>1, MaxIn
    <3> QED BY <3>1
  <2> HIDE DEF H
  <2> QED BY <1>1, <2>1 DEF Folding, ReadUpto
<1>6. g = ReadUpto(entries, g)
  BY <1>4, <1>5
<1>7. ReadAll(entries) = g[DOMAIN entries]
  BY DEF ReadAll, FoldLeft, MapThenFoldSet, ReadUpto
<1> HIDE DEF g
<1> DEFINE R == [k \in 0 .. n |-> g[1 .. k]]
<1>8. \A s \in SUBSET (1 .. n) :
        g[s] = IF s = {} THEN NoReader ELSE ReadEntry(g[s \ {Max(s)}], entries[Max(s)])
  BY <1>1, <1>6 DEF ReadUpto
<1>9. R[0] = NoReader
  <2>1. 1 .. 0 = {} /\ 0 \in 0 .. n
    BY <1>1
  <2> QED BY <1>8, <2>1
<1>10. ASSUME NEW k \in 1 .. n PROVE R[k] = ReadEntry(R[k - 1], entries[k])
  <2>1. k \in 0 .. n /\ k - 1 \in 0 .. n
    BY <1>1
  <2>2. /\ 1 .. k \in SUBSET (1 .. n) /\ 1 .. k # {} /\ Max(1 .. k) = k
        /\ (1 .. k) \ {k} = 1 .. (k - 1)
    BY <1>1, MaxUpto
  <2>3. g[1 .. k] = ReadEntry(g[1 .. (k - 1)], entries[k])
    BY <1>8, <2>2
  <2> QED BY <2>1, <2>3
<1>11. R[n] = ReadAll(entries)
  BY <1>1, <1>7
<1> HIDE DEF R
<1>12. Reads(entries, R)
  BY <1>9, <1>10, <1>11 DEF Reads, n
<1> QED BY <1>12
(* The files of one letter: what was read of the user before is written out,   *)
(* and his own letter is when the next one comes, unless it is empty.          *)
Mine(u) == [name |-> u, headerText |-> u, bodyText |-> u]

LEMMA OneLetter ==
  ASSUME NEW u \in Users, NEW r0 \in Readers, r0.curName # u,
         NEW r1, r1 = ReadEntry(r0, File(u, "header")),
         NEW r2, r2 = ReadEntry(r1, File(u, "mail")),
         NEW r3, r3 = ReadEntry(r2, File(u, "empty"))
  PROVE  /\ r2 \in Readers /\ r2.curName = u
         /\ Flush(r2).letters = Flush(r0).letters \union {Mine(u)}
         /\ r3 \in Readers /\ r3.curName = NoUser
         /\ Flush(r3).letters = Flush(r0).letters
<1>0. u # NoUser
  BY ReportsAssumption
<1> DEFINE f == Flush(r0)
<1>1. f \in Readers
  <2>1. File(u, "mail") \in Files
    BY DEF File, Files
  <2> QED BY <2>1, ReadType
<1>2. r1 = [f EXCEPT !.curName = u, !.headerText = u]
  BY DEF ReadEntry, File, Header
<1>3. r2 = [r1 EXCEPT !.bodyText = u]
  BY DEF ReadEntry, File
<1>4. r3 = [r2 EXCEPT !.curName = NoUser]
  BY DEF ReadEntry, File
<1> HIDE DEF f
<1>5. u \in Named /\ NoUser \in Named
  BY DEF Named
<1>6. r1 \in Readers /\ r1.curName = u /\ r1.headerText = u /\ r1.letters = f.letters
  BY <1>1, <1>2, <1>5 DEF Readers
<1>7. /\ r2 \in Readers /\ r2.curName = u /\ r2.headerText = u /\ r2.bodyText = u
      /\ r2.letters = f.letters
  BY <1>3, <1>5, <1>6 DEF Readers
<1>8. r3 \in Readers /\ r3.curName = NoUser /\ r3.letters = f.letters
  BY <1>4, <1>5, <1>7 DEF Readers
<1>9. Flush(r2).letters = f.letters \union {Mine(u)}
  <2>1. Flush(r2) = [r2 EXCEPT !.letters = @ \union {Mine(u)}]
    BY <1>0, <1>7 DEF Flush, Mine
  <2> QED BY <1>7, <2>1 DEF Readers
<1>10. Flush(r3).letters = f.letters
  BY <1>8 DEF Flush
<1> QED BY <1>7, <1>8, <1>9, <1>10 DEF f

(* After the first i letters those with something to tell are there, and the   *)
(* reader waits for a file of somebody else.                                   *)
ReadSoFar(users, about, i, r) ==
  /\ r \in Readers
  /\ r.curName \in {NoUser} \union {users[j] : j \in 1 .. i}
  /\ Flush(r).letters = {Mine(u) : u \in {users[j] : j \in 1 .. i} \intersect Told(about)}

LEMMA NextLetter ==
  ASSUME NEW about \in SUBSET Records, NEW archive, NEW users, NEW g,
         Assembled(archive, about, users, g),
         NEW R, Reads(archive.entries, R),
         NEW i \in 1 .. Len(users), ReadSoFar(users, about, i - 1, R[Len(g[i - 1])])
  PROVE  ReadSoFar(users, about, i, R[Len(g[i])])
<1> DEFINE parts == Parts(users, about)
           n == Len(users)
           entries == archive.entries
           b == Len(g[i - 1])
           u == users[i]
           letter == Letter(u, about)
<1>1. /\ n \in Nat /\ DOMAIN users = 1 .. n /\ u \in Users
      /\ \A j \in 1 .. n : j # i => users[j] # u
  BY ElementOfSeq, LenProperties DEF Assembled, Listed
<1>2. parts[i] = letter
  BY <1>1 DEF Parts
<1>3. /\ b \in Nat /\ Len(g[i]) = b + Len(letter) /\ b + Len(letter) <= Len(entries)
      /\ \A j \in 1 .. Len(letter) : entries[b + j] = letter[j]
      /\ Len(entries) \in Nat
  <2>1. /\ parts \in Seq(Seq(Files)) /\ Len(parts) = n /\ g \in [0 .. Len(parts) -> Seq(Files)]
        /\ Flattens(parts, g) /\ entries = g[n]
    BY DEF Assembled
  <2>2. i \in 1 .. Len(parts) /\ n \in 0 .. Len(parts)
    BY <1>1, <2>1
  <2>3. Len(entries) \in Nat
    BY <2>1, <2>2, LenProperties
  <2> HIDE DEF parts, n, letter, entries, b
  <2>4. /\ Len(g[i - 1]) \in Nat /\ Len(parts[i]) \in Nat
        /\ Len(g[i]) = Len(g[i - 1]) + Len(parts[i])
        /\ Len(g[i]) <= Len(g[Len(parts)])
        /\ \A j \in 1 .. Len(parts[i]) : g[Len(parts)][Len(g[i - 1]) + j] = parts[i][j]
    <3>1. \A k \in 1 .. Len(parts) : PartAt(parts, g, k)
      BY <2>1, FlattenAt
    <3>2. PartAt(parts, g, i)
      BY <2>2, <3>1
    <3> QED BY <3>2 DEF PartAt
  <2> QED BY <1>2, <2>1, <2>3, <2>4 DEF b
<1>4. /\ letter[1] = File(u, "header") /\ letter[2] = File(u, "mail")
      /\ IF u \in Told(about) THEN Len(letter) = 2
         ELSE Len(letter) = 3 /\ letter[3] = File(u, "empty")
  BY <1>1, LetterFiles
<1>5. \A k \in 1 .. Len(entries) : R[k] = ReadEntry(R[k - 1], entries[k])
  BY DEF Reads
<1>6. ReadSoFar(users, about, i - 1, R[b])
  OBVIOUS
<1> DEFINE l == Len(letter)
           r1 == ReadEntry(R[b], File(u, "header"))
           r2 == ReadEntry(r1, File(u, "mail"))
           r3 == ReadEntry(r2, File(u, "empty"))
<1>7. /\ R[b + 2] = r2
      /\ l = 3 => R[b + 3] = r3
  <2>0. l \in {2, 3} /\ b + l <= Len(entries)
    BY <1>3, <1>4
  <2>1. /\ b + 1 \in 1 .. Len(entries) /\ (b + 1) - 1 = b
        /\ b + 2 \in 1 .. Len(entries) /\ (b + 2) - 1 = b + 1
        /\ l = 3 => b + 3 \in 1 .. Len(entries) /\ (b + 3) - 1 = b + 2
    <3> HIDE DEF b, l, entries
    <3> QED BY <1>3, <2>0
  <2>2. /\ entries[b + 1] = File(u, "header") /\ entries[b + 2] = File(u, "mail")
        /\ l = 3 => entries[b + 3] = File(u, "empty")
    <3>1. 1 \in 1 .. l /\ 2 \in 1 .. l /\ (l = 3 => 3 \in 1 .. l)
      <4> HIDE DEF l
      <4> QED BY <2>0
    <3>2. l = 3 => letter[3] = File(u, "empty")
      BY <1>4
    <3> QED BY <1>3, <1>4, <3>1, <3>2
  <2> HIDE DEF b, l, entries, letter
  <2>3. R[b + 1] = r1
    BY <1>5, <2>1, <2>2
  <2>4. R[b + 2] = r2
    BY <1>5, <2>1, <2>2, <2>3
  <2>5. l = 3 => R[b + 3] = r3
    BY <1>5, <2>1, <2>2, <2>4
  <2> QED BY <2>4, <2>5
<1> DEFINE before == {users[j] : j \in 1 .. i - 1}
           after  == {users[j] : j \in 1 .. i}
<1>8. after = before \union {u} /\ u \notin before
  <2>1. 1 .. i = (1 .. i - 1) \union {i} /\ \A j \in 1 .. i - 1 : j \in 1 .. n /\ j # i
    BY <1>1
  <2> HIDE DEF n
  <2> QED BY <1>1, <2>1
<1>9. /\ R[b] \in Readers /\ R[b].curName \in {NoUser} \union before
      /\ Flush(R[b]).letters = {Mine(v) : v \in before \intersect Told(about)}
  BY <1>6 DEF ReadSoFar
<1>10. R[b].curName # u
  <2>1. u # NoUser
    BY <1>1, ReportsAssumption
  <2> QED BY <1>8, <1>9, <2>1
<1> HIDE DEF before, after, r1, b, letter, n, u
<1>11. /\ r2 \in Readers /\ r2.curName = u
       /\ Flush(r2).letters = Flush(R[b]).letters \union {Mine(u)}
       /\ r3 \in Readers /\ r3.curName = NoUser
       /\ Flush(r3).letters = Flush(R[b]).letters
  <2> HIDE DEF r2, r3
  <2> QED BY <1>1, <1>9, <1>10, OneLetter DEF r1, r2, r3
<1>12. CASE u \in Told(about)
  <2>1. R[Len(g[i])] = r2
    <3>1. Len(g[i]) = b + 2
      BY <1>3, <1>4, <1>12
    <3> QED BY <1>7, <3>1
  <2>2. Flush(r2).letters = {Mine(v) : v \in after \intersect Told(about)}
    <3>1. after \intersect Told(about) = (before \intersect Told(about)) \union {u}
      BY <1>8, <1>12
    <3> QED BY <1>9, <1>11, <3>1
  <2> HIDE DEF r2
  <2> QED BY <1>8, <1>11, <2>1, <2>2 DEF ReadSoFar, after
<1>13. CASE u \notin Told(about)
  <2>1. R[Len(g[i])] = r3
    <3>1. l = 3 /\ Len(g[i]) = b + 3
      BY <1>3, <1>4, <1>13
    <3> QED BY <1>7, <3>1
  <2>2. Flush(r3).letters = {Mine(v) : v \in after \intersect Told(about)}
    <3>1. after \intersect Told(about) = before \intersect Told(about)
      BY <1>8, <1>13
    <3> QED BY <1>9, <1>11, <3>1
  <2> HIDE DEF r3
  <2> QED BY <1>8, <1>11, <2>1, <2>2 DEF ReadSoFar, after
<1> QED BY <1>12, <1>13

LEMMA LettersRead ==
  ASSUME NEW about \in SUBSET Records, NEW archive \in Archives(about)
  PROVE  LoadResultTar(archive).letters = Letters(about)
<1>1. PICK users, g : Assembled(archive, about, users, g)
  BY ArchiveAssembled
<1> DEFINE n == Len(users)
<1>2. n \in Nat /\ DOMAIN users = 1 .. n /\ g[0] = <<>> /\ archive.entries = g[n]
      /\ archive.entries \in Seq(Files) /\ Range(users) = Owners(about)
  BY <1>1, LenProperties DEF Assembled, Listed, Flattens
<1>3. PICK R : Reads(archive.entries, R)
  BY <1>2, ReadParts
<1> DEFINE T == {i \in 0 .. n : ReadSoFar(users, about, i, R[Len(g[i])])}
<1>4. 0 \in T
  <2>1. R[Len(g[0])] = NoReader
    BY <1>2, <1>3 DEF Reads
  <2>2. 1 .. 0 = {}
    OBVIOUS
  <2>3. NoReader \in Readers /\ NoReader.curName = NoUser /\ Flush(NoReader).letters = {}
    BY DEF NoReader, Readers, Named, Flush
  <2>4. {Mine(u) : u \in {users[j] : j \in {}} \intersect Told(about)} = {}
    OBVIOUS
  <2>5. ReadSoFar(users, about, 0, NoReader)
    BY <2>2, <2>3, <2>4 DEF ReadSoFar
  <2> QED BY <1>2, <2>1, <2>5
<1>5. ASSUME NEW i \in 1 .. n, i - 1 \in T PROVE i \in T
  <2>1. i \in 0 .. n
    BY <1>2
  <2> QED BY <1>1, <1>3, <1>5, <2>1, NextLetter
<1> HIDE DEF T
<1>6. 0 .. n \subseteq T
  <2> HIDE DEF n
  <2> QED BY <1>2, <1>4, <1>5, StepsTo
<1>7. ReadSoFar(users, about, n, ReadAll(archive.entries))
  <2>1. n \in T
    BY <1>2, <1>6
  <2> QED BY <1>2, <1>3, <2>1 DEF T, Reads
<1>8. {users[j] : j \in 1 .. n} = Owners(about) /\ Told(about) \subseteq Owners(about)
  BY <1>2 DEF Range, Told, Owners
<1>9. Flush(ReadAll(archive.entries)).letters = {Mine(u) : u \in Told(about)}
  <2>1. {users[j] : j \in 1 .. n} \intersect Told(about) = Told(about)
    BY <1>8
  <2> QED BY <1>7, <2>1 DEF ReadSoFar
<1>10. LoadResultTar(archive).letters = Flush(ReadAll(archive.entries)).letters
  BY DEF LoadResultTar, ReadAll, FoldLeft, MapThenFoldSet
<1> QED BY <1>9, <1>10 DEF Letters, Mine

(* What is in an archive that can be seen is complete: each user whose         *)
(* measurements it is about has his letter in it, whichever runs of tar or of  *)
(* the server failed before (analyzer.cpp:874).                                *)
THEOREM ArchivesWhole == Spec => []VisibleWhole
<1>1. ReportsInv => VisibleWhole
  <2> SUFFICES ASSUME ReportsInv, NEW p \in Periods, dir[p] # None
               PROVE  {e.user : e \in {f \in Range(dir[p].entries) : f.ext = "mail"}}
                        = {Owner[r] : r \in dir[p].about}
    BY DEF VisibleWhole
  <2>1. dir[p] \in AllArchives
    BY DEF ReportsInv, DirInv
  <2>2. dir[p].about \in SUBSET Records /\ dir[p] \in Archives(dir[p].about)
    BY <2>1, ArchiveOf
  <2> QED BY <2>2, MailsWritten DEF Owners
<1> QED BY <1>1, Reporting, PTL

(* However many users an archive has, in whatever order, loadResultTar puts    *)
(* together the files of one user only, forgets none and shows nobody a letter *)
(* without anything to tell (main.go:195-251).                                 *)
THEOREM LettersSeen == Spec => []SeenRight
<1>1. ReportsInv => SeenRight
  <2> SUFFICES ASSUME ReportsInv, NEW p \in resultsAvailable, Results[p].whole
               PROVE  \A u \in Users :
                        Report(u, p) = {l \in Letters(Results[p].about) : l.name = u}
    BY DEF SeenRight
  <2>1. p \in Periods /\ Results[p] # None
    BY DEF ReportsInv, ServedInv
  <2>2. PICK archive \in AllArchives : Results[p] \in MadeOf(archive)
    BY <2>1 DEF ReportsInv, ServedInv
  <2>3. Results[p] = LoadResultTar(archive)
    <3>1. \A n : LoadUntil(archive, n).whole = FALSE
      BY DEF LoadUntil
    <3> QED BY <2>2, <3>1 DEF MadeOf
  <2>4. archive.about \in SUBSET Records /\ archive \in Archives(archive.about)
    BY ArchiveOf
  <2>5. Results[p].about = archive.about
    BY <2>3 DEF LoadResultTar
  <2>6. Results[p].letters = Letters(archive.about)
    BY <2>3, <2>4, LettersRead
  <2> QED BY <2>5, <2>6 DEF Report
<1> QED BY <1>1, Reporting, PTL
=============================================================================
