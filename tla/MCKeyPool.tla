----------------------------- MODULE MCKeyPool -----------------------------
(***************************************************************************)
(* The pool with its admins, tests and scheduler.  Two slots and two admin *)
(* handlers at most; a run takes those that its question needs.            *)
(***************************************************************************)
EXTENDS KeyPool
CONSTANTS s1, s2, a1, a2
=============================================================================
