----------------------------- MODULE MCSchedule -----------------------------
(***************************************************************************)
(* Two keys, one request for the catalog at a time, and calls of up to one *)
(* unit: a round may last four units, twice the probe interval, while keys *)
(* become due, are refused, used and listed.                               *)
(***************************************************************************)
EXTENDS Schedule
CONSTANTS r1
=============================================================================
