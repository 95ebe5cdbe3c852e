------------------------------ MODULE MCScraper ------------------------------
(* Scraper on a node with up to three processes, in four instances.           *)
EXTENDS Scraper

CONSTANTS j1, j2

(* One step, whose processes have pids on both sides of slurmstepd or below    *)
(* it; CPU time is spent.                                                      *)
OneStep(stepd) ==
  [job |-> stepd :> j1, watching |-> AnyJob, gpu_provider_job_mapped |-> FALSE,
   scrape_cnt |-> 1, ticks |-> 1, readings |-> 0]

(* Two steps with one more process, twice: of one job whose GPU readings are   *)
(* known, of two jobs of which one is watched.                                 *)
TwoSteps(other, watching, mapped) ==
  [job |-> 2 :> j1 @@ 3 :> other, watching |-> watching,
   gpu_provider_job_mapped |-> mapped, scrape_cnt |-> 2, ticks |-> 0, readings |-> 1]

MCSettings ==
  {OneStep(2), OneStep(3), TwoSteps(j1, AnyJob, TRUE), TwoSteps(j1, AnyJob, FALSE),
   TwoSteps(j2, j2, FALSE)}
=============================================================================
