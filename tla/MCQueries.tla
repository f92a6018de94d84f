------------------------------ MODULE MCQueries ------------------------------
(****************************************************************************)
(* What only reads, side by side: the summary, the inspection behind it,    *)
(* paging, and the load test's report.  None of them shows to another, so   *)
(* a behaviour moves in one of the four and the others stay as they began.  *)
(****************************************************************************)
EXTENDS Monitoring, Telemetry, Listing, LoadReport, TLC

QueriesInit == MonitorInit /\ TelemetryInit /\ ListingInit /\ ReportInit

QueriesNext ==
  \/ /\ TelemetryInit /\ ListingInit /\ ReportInit
     /\ MonitorNext
     /\ UNCHANGED <<telemetryVars, listingVars, loadReportVars>>
  \/ /\ MonitorInit /\ ListingInit /\ ReportInit
     /\ TelemetryNext
     /\ UNCHANGED <<monitorVars, listingVars, loadReportVars>>
  \/ /\ MonitorInit /\ TelemetryInit /\ ReportInit
     /\ ListingNext
     /\ UNCHANGED <<monitorVars, telemetryVars, loadReportVars>>
  \/ /\ MonitorInit /\ TelemetryInit /\ ListingInit
     /\ ReportNext
     /\ UNCHANGED <<monitorVars, telemetryVars, listingVars>>

QueriesSpec ==
  /\ QueriesInit
  /\ [][QueriesNext]_<<monitorVars, telemetryVars, listingVars, loadReportVars>>

Symmetry == Permutations(Copies) \cup Permutations(Nodes)
=============================================================================
