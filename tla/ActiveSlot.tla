----------------------------- MODULE ActiveSlot -----------------------------
(***************************************************************************)
(* What the pool promises about its active key, and nothing else: there is *)
(* one slot, held by an enabled key or empty.  A key takes it over from    *)
(* any other in a single step; it is emptied when its holder fails, is     *)
(* disabled or is deleted; and nobody but an enabled key is ever put in.   *)
(***************************************************************************)
CONSTANTS Keys, None

VARIABLES slot, enabled

Init == slot = None /\ enabled \subseteq Keys

TakeOver(k) == k \in enabled /\ slot' = k /\ UNCHANGED enabled

Vacate == slot' = None /\ UNCHANGED enabled

Enable(k) == enabled' = enabled \cup {k} /\ UNCHANGED slot

\* Disabled or deleted: the key leaves the slot in the same step.
Withdraw(k) == /\ enabled' = enabled \ {k}
               /\ slot' = IF slot = k THEN None ELSE slot

Next == Vacate \/ \E k \in Keys : TakeOver(k) \/ Enable(k) \/ Withdraw(k)

Spec == Init /\ [][Next]_<<slot, enabled>>
=============================================================================
