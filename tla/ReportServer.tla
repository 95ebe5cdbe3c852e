---------------------------- MODULE ReportServer ----------------------------
(* A server from the start of its process to the reports on the web: the       *)
(* database is migrated before the first round, and every process that starts  *)
(* after the end of another goes through migrate_db again.                     *)
EXTENDS Migration, Reports

Init == MigInit /\ ReportInit

vars == <<migration, reports, faults>>

(* The analyzer is a function of the process that has passed migrate_db.       *)
Boot == mpc = "running" /\ StartAnalyzer /\ UNCHANGED migration

Killed ==
  /\ CrashAnalyzer
  /\ mpc' = "down"
  /\ UNCHANGED <<db, tx, start, step, unread>>

Next ==
  \/ MigNext /\ UNCHANGED reports
  \/ Boot
  \/ (Measure \/ Tick \/ Analyze \/ AnalyzeFails) /\ UNCHANGED migration
  \/ Killed
  \/ (Web \/ CrashWeb) /\ UNCHANGED migration

Spec == Init /\ [][Next]_vars

(* The software is run again whenever it ended, as it asks for after a         *)
(* migration; rounds go on, and so does the web server.                        *)
Fairness ==
  /\ WF_vars(Migrate /\ UNCHANGED reports)
  /\ WF_vars(Boot)
  /\ WF_vars(Analyze /\ UNCHANGED migration)
  /\ WF_vars(Web /\ UNCHANGED migration)

FairSpec == Spec /\ Fairness

-----------------------------------------------------------------------------
(* Properties.                                                                 *)

(* Every measurement of a database that can be migrated is published some      *)
(* time, through migrations, ends of the process and ends of a period, unless  *)
(* a round that closed its period failed, or a failed renewal replaced its     *)
(* archive.  (A database of version 2 cannot, once a first attempt has failed: *)
(* the column it added is in the way of the next.)                             *)
PublishedInTheEnd ==
  \A r \in Records :
    r <= records /\ db.version \in 3 .. Target
      ~> r \in Published \union lost \/ unread
=============================================================================
