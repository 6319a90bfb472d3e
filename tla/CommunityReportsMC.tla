------------------------- MODULE CommunityReportsMC -------------------------
(***************************************************************************)
(* Symmetry for the runs of CommunityReports. Requests and devices are     *)
(* interchangeable: no definition names one, and none chooses among them.  *)
(***************************************************************************)
EXTENDS CommunityReports, TLC

MCSymmetry == Permutations(Requests) \cup Permutations(Devices)
=============================================================================
