---------------------------- MODULE MCReportServer ----------------------------
(* ReportServer with two users and up to two measurements.                    *)
EXTENDS ReportServer

CONSTANTS u1, u2

MCOwner == [r \in Records |-> IF r = 1 THEN u1 ELSE u2]
=============================================================================
