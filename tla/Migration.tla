------------------------------ MODULE Migration ------------------------------
(* The start of a server on a database of any schema version: sql/migrate.cpp *)
(* and the part of main.cpp that calls it.  Steps 3 to 6 alter tables, one    *)
(* after the other in a single transaction; step 7 stands for the import and  *)
(* the backfill that follow them.                                             *)
EXTENDS Integers, Faults

CONSTANTS
  NoTx,           \* no transaction is open
  Versions        \* the schema versions a database may have at first

Target == 6       \* MIGRATE_TARGET_DB_SCHEMA_VERSION, DB_SCHEMA_VERSION
Import == 7

ASSUME VersionsAssumption == Versions \subseteq 2 .. 7

VARIABLES
  db,             \* what is committed: see Databases
  tx,             \* what the open transaction sees, or NoTx
  mpc,            \* where the process is
  start,          \* migrate_db's local
  step,           \* the case of its switch that comes next
  unread          \* some process has used start and end without setting them

migration == <<db, tx, mpc, start, step, unread>>

(* version: worker_task_info.schema_version; steps: the alterations its tables *)
(* have; prev: there is a column prev_schema_version; triggers: those of       *)
(* measurements exist.                                                         *)
Databases ==
  [version : 2 .. 7, steps : SUBSET (3 .. 7), prev : BOOLEAN, triggers : BOOLEAN]

(* What a database of version v consists of.  A new one, which has no triggers *)
(* yet, takes version 6.                                                       *)
Schema(v) == {s \in 3 .. Import : s <= v \/ v >= Target}

MigInit ==
  /\ db \in {[version |-> v, steps |-> Schema(v), prev |-> v >= 3,
              triggers |-> v # Target] : v \in Versions}
  /\ tx = NoTx
  /\ mpc = "down"
  /\ start = 0
  /\ step = 0
  /\ unread = FALSE
  /\ faults = 0

-----------------------------------------------------------------------------

(* The process is gone, and its transaction and locals with it.                *)
Ends ==
  /\ tx' = NoTx
  /\ mpc' = "down"
  /\ start' = 0
  /\ step' = 0

Runs ==
  /\ mpc' = "running"
  /\ UNCHANGED <<tx, start, step>>

(* Also for a version that has the column. *)
NeedsCompatibility3(v) == v <= 3

(* Columns that are altered without asking whether they are there.             *)
NeedsCompatibility(v) == v < 3

(* INIT_DB_SQL creates what is missing, triggers too.                          *)
Open ==
  /\ mpc = "down"
  /\ db' = [db EXCEPT !.triggers = TRUE]
  /\ mpc' = IF NeedsCompatibility(db.version) THEN "compatibility" ELSE "renew"
  /\ UNCHANGED <<tx, start, step, unread, faults>>

(* Outside of the transaction, and an error when the column exists.            *)
Compatibility ==
  /\ mpc = "compatibility"
  /\ IF db.prev
       THEN Ends /\ UNCHANGED db
       ELSE /\ db' = [db EXCEPT !.prev = TRUE]
            /\ mpc' = "renew"
            /\ UNCHANGED <<tx, start, step>>
  /\ UNCHANGED <<unread, faults>>

(* A version this software does not know is migrated like an old one. *)
DecideAny(from, to, seen) ==
  IF from = Target
    THEN Runs
    ELSE start' = from /\ tx' = seen /\ mpc' = "prepare" /\ UNCHANGED step

(* What migrate_db does with the versions it believes were the old and the new. *)
Decide(from, to, seen) ==
  CASE from = Target -> Runs
    [] from # Target /\ (from > to \/ to # Target) -> Ends
    [] OTHER -> /\ start' = from
                /\ tx' = seen
                /\ mpc' = "prepare"
                /\ UNCHANGED step

Newest(v) == IF v > Target THEN v ELSE Target

RenewVersion ==
  /\ mpc = "renew"
  /\ Decide(db.version, Newest(db.version), [db EXCEPT !.version = Newest(@)])
  /\ UNCHANGED <<db, unread, faults>>

(* Another program has locked the database: the result of step_renew is not    *)
(* looked at, and start and end hold anything.                                 *)
RenewVersionFails ==
  /\ mpc = "renew"
  /\ Fault
  /\ unread' = TRUE
  /\ \E from \in -1 .. Target + 1, to \in {Target - 1, Target} : Decide(from, to, db)
  /\ UNCHANGED db

(* The triggers would refuse the backfill.  To drop them is an error when they *)
(* are not there, but Open has made them.  The switch has no case below 0.     *)
Prepare ==
  /\ mpc = "prepare"
  /\ tx.triggers
  /\ tx' = [tx EXCEPT !.triggers = FALSE]
  /\ IF start < 0
       THEN mpc' = "commit" /\ UNCHANGED step
       ELSE mpc' = "step" /\ step' = IF start < 3 THEN 3 ELSE start + 1
  /\ UNCHANGED <<db, start, unread, faults>>

(* A column is added once, and steps 4 and 5 drop columns that step 3 adds.    *)
Applicable(k, steps) == k \notin steps /\ (k \in {4, 5} => 3 \in steps)

(* A case of the switch: it falls through to the next one.                     *)
Apply ==
  /\ mpc = "step"
  /\ IF Applicable(step, tx.steps)
       THEN /\ tx' = [tx EXCEPT !.steps = @ \union {step}]
            /\ mpc' = IF step = Import THEN "commit" ELSE "step"
            /\ step' = step + 1
       ELSE /\ mpc' = "rollback"
            /\ UNCHANGED <<tx, step>>
  /\ UNCHANGED <<db, start, unread, faults>>

ApplyFails ==
  /\ mpc = "step"
  /\ Fault
  /\ mpc' = "rollback"
  /\ UNCHANGED <<db, tx, start, step, unread>>

(* The process goes on after it has migrated. *)
CommitAndRun ==
  /\ mpc = "commit"
  /\ db' = tx
  /\ tx' = NoTx
  /\ mpc' = "running"
  /\ UNCHANGED <<start, step, unread, faults>>

(* exit(2): the software has to be run again.                                  *)
Commit ==
  /\ mpc = "commit"
  /\ db' = tx
  /\ Ends
  /\ UNCHANGED <<unread, faults>>

(* A failed step ends the transaction like any other. *)
EndTransaction == mpc = "rollback" /\ db' = tx /\ Ends /\ UNCHANGED <<unread, faults>>

Rollback ==
  /\ mpc = "rollback"
  /\ Ends
  /\ UNCHANGED <<db, unread, faults>>

(* The process is killed, or a statement fails where the code calls exit(1).   *)
MigKilled ==
  /\ mpc \notin {"down", "running"}
  /\ Fault
  /\ Ends
  /\ UNCHANGED <<db, unread>>

Migrate ==
  \/ Open
  \/ Compatibility
  \/ RenewVersion
  \/ Prepare
  \/ Apply
  \/ Commit
  \/ Rollback

MigNext ==
  \/ Migrate
  \/ RenewVersionFails
  \/ ApplyFails
  \/ MigKilled

MigSpec == MigInit /\ [][MigNext]_<<migration, faults>>

-----------------------------------------------------------------------------
(* Properties.                                                                *)

MigTypeOK ==
  /\ db \in Databases
  /\ tx \in Databases \union {NoTx}
  /\ mpc \in {"down", "compatibility", "renew", "prepare", "step", "commit",
              "rollback", "running"}
  /\ start \in -1 .. Target - 1
  /\ step \in 0 .. Import + 1
  /\ unread \in BOOLEAN
  /\ faults \in 0 .. MaxFaults

(* Wherever a migration is killed or fails, the version that is stored and    *)
(* the tables that are there go together: a later start neither skips a step  *)
(* nor repeats one.                                                           *)
SchemaMatches == ~unread => db.steps = Schema(db.version)

(* A server does its work on the newest schema only, and never without the    *)
(* triggers that guard the measurements: a migration drops them, which is why *)
(* it ends the process.                                                       *)
RunsMigrated ==
  mpc = "running" /\ ~unread =>
    /\ db.version = Target
    /\ db.steps = Schema(Target)
    /\ db.triggers

=============================================================================
