------------------------------ MODULE MCAccess ------------------------------
(***************************************************************************)
(* Two requests at a time, two secrets of each kind, one token more than   *)
(* the limit admits, and a ticket.  Secrets and handlers are only compared,*)
(* so exchanging two of a kind changes nothing.                            *)
(***************************************************************************)
EXTENDS Access, TLC
CONSTANTS h1, h2, k1, k2, m1, m2, t1, t2, t3, x1

Exchanges == UNION {Permutations(S) : S \in {Handlers, AccessKeys, Masters, TokenIds}}
=============================================================================
