------------------------------- MODULE MCReports -------------------------------
(***************************************************************************)
(* Pages of one row over two days; the whole report, a status, and a range *)
(* of dates.                                                               *)
(***************************************************************************)
EXTENDS Reports

MCFilters   == {NoFilter, [NoFilter EXCEPT !.status = "CONFIRMED"], [NoFilter EXCEPT !.from = 1]}
=============================================================================
