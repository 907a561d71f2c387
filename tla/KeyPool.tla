------------------------------ MODULE KeyPool ------------------------------
(***************************************************************************)
(* The whole pool: inference handlers, admin handlers, key tests and the   *)
(* scheduler over one store, with a clock and crashes.  Only the handlers  *)
(* of module Inference take Service.mu; the others change the same table   *)
(* between any two of their statements.                                    *)
(***************************************************************************)
EXTENDS Inference, KeyAdmin

poolVars == <<vars, probeVars, adminVars>>

PoolInit == Init /\ ProbeInit /\ AdminInit

\* The process dies and starts again on the same file.
CrashAll ==
    /\ Crash
    /\ probe'  = NoProber
    /\ ppc'    = [p \in Probers |-> "idle"]
    /\ target' = [p \in Probers |-> NoKey]
    /\ full'   = [p \in Probers |-> FALSE]
    /\ spc'    = "sleep"
    /\ batch'  = {}
    /\ apc'    = [a \in Admins |-> "idle"]
    /\ form'   = [a \in Admins |-> NoForm]
    /\ UNCHANGED <<calls, lastId>>

PoolNext ==
    \/ InferenceStep /\ UNCHANGED <<probeVars, adminVars>>
    \/ ProbeStep /\ UNCHANGED <<telemetryVars, inferenceVars, adminVars>>
    \/ \E a \in Admins : AdminHandler(a) /\ UNCHANGED inferenceVars
    \/ \E k \in KeyIds : Clock(k) /\ UNCHANGED <<probeVars, adminVars>>
    \/ CrashAll

PoolSpec == PoolInit /\ [][PoolNext]_poolVars

\* Fairness.  A handler goes on by itself; the upstream answers or the client
\* timeout (RequestTimeout) ends the call, its body included; Go's mutexes hand
\* over to a waiter that has starved; the ticker fires; time passes.
Fairness ==
    /\ \A s \in Slots :
          /\ WF_poolVars(Working(s) /\ UNCHANGED <<probeVars, adminVars>>)
          /\ WF_poolVars(Upstream(s) /\ UNCHANGED <<probeVars, adminVars>>)
          /\ SF_poolVars(Locking(s) /\ UNCHANGED <<probeVars, adminVars>>)
    /\ \A p \in Probers :
          /\ SF_poolVars(LockProbe(p) /\ UNCHANGED <<telemetryVars, inferenceVars, adminVars>>)
          /\ WF_poolVars(Testing(p) /\ UNCHANGED <<telemetryVars, inferenceVars, adminVars>>)
    /\ WF_poolVars(SchedulerStep /\ UNCHANGED <<telemetryVars, inferenceVars, adminVars>>)
    /\ \A k \in KeyIds : WF_poolVars(Clock(k) /\ UNCHANGED <<probeVars, adminVars>>)

FairPoolSpec == PoolSpec /\ Fairness

PoolTypeOK == TypeOK /\ ProbeTypeOK /\ AdminTypeOK

\* The inductive invariant of the pool: that of the handlers, the mutex of the
\* tests, and what an admin handler holds while it is under way.
PoolInv ==
    /\ InferenceInv
    /\ ProbeTypeOK
    /\ AdminTypeOK
    /\ \A p \in Probers : ppc[p] \in {"models", "inference"} => probe = p
    /\ \A a \in Admins : apc[a] = "update" => form[a] \in Form
    /\ \A k \in DOMAIN keys : k <= lastId

-----------------------------------------------------------------------------
(* The active key, as ActiveSlot sees it. *)

ActiveKeys(t) == {k \in DOMAIN t : t[k].role = "active"}

ActiveKey(t) == IF ActiveKeys(t) = {} THEN NoKey ELSE CHOOSE k \in ActiveKeys(t) : TRUE

EnabledKeys(t) == {k \in DOMAIN t : t[k].enabled}

Slot == INSTANCE ActiveSlot WITH
    Keys <- KeyIds, None <- NoKey, slot <- ActiveKey(keys), enabled <- EnabledKeys(keys)

-----------------------------------------------------------------------------
(* Properties *)

\* The pool implements ActiveSlot: whatever overlaps, the active key changes
\* hands in one step and to an enabled key, and a key that is disabled or
\* deleted leaves the slot in the step that does it.
ImplementsActiveSlot == Slot!Spec

\* A promotion or activation that comes too late, its key disabled or deleted
\* meanwhile, leaves the slot to its holder: the transaction that has already
\* demoted it is rolled back.
PromotionKeepsSlotFilled ==
    [][(\/ \E s \in Slots  : pc[s] = "promote" /\ pc'[s] # "promote"
        \/ \E a \in Admins : apc[a] = "activate" /\ apc'[a] = "idle")
       => (ActiveKeys(keys) # {} => ActiveKeys(keys') # {})]_poolVars

\* TestKey runs under Service.probe: two tests never call the upstream at once.
OneTestAtATime ==
    \A p, q \in Probers :
        ppc[p] \in {"models", "inference"} /\ ppc[q] \in {"models", "inference"} => p = q

\* Every request comes to its end, whatever the other handlers hold.
RequestsTerminate == \A s \in Slots : pc[s] # "idle" ~> pc[s] = "idle"

\* No key cools for ever: handlers that selected it before may push its
\* deadline back, but only so often, and the scheduler then finds it due.
CoolingEnds ==
    \A k \in KeyIds :
        (k \in DOMAIN keys /\ keys[k].quota = "cooling")
            ~> (k \in DOMAIN keys => keys[k].quota # "cooling")

\* Every test ends and gives Service.probe back.
TestsTerminate == \A p \in Probers : ppc[p] # "idle" ~> ppc[p] = "idle"

-----------------------------------------------------------------------------
(* What the repository says of the pool and the code does not keep to. *)

\* api.go, activateKey: a key that is disabled, invalid or cooling is refused
\* with "key is not eligible for activation".  No activation should then make
\* such a key the active one.
ActivationOnlyOfEligible ==
    [][\A a \in Admins, k \in DOMAIN keys \cap DOMAIN keys' :
         (/\ apc[a] = "activate" /\ apc'[a] = "idle"
          /\ keys[k].role # "active" /\ keys'[k].role = "active")
         => Eligible(keys'[k])]_poolVars
=============================================================================
