------------------------------ MODULE KeyAdmin ------------------------------
(***************************************************************************)
(* The admin handlers of internal/httpapi/api.go that change keys.  They   *)
(* take no mutex: updateKey writes back a row it read before, activateKey  *)
(* checks a row and then activates it in a second statement, and createKey *)
(* and testKey go on to test the key (module Probe).                       *)
(***************************************************************************)
EXTENDS Telemetry, Probe

CONSTANT MaxCalls   \* bound: admin requests in a behaviour

ASSUME AdminAssumption == MaxCalls \in Nat

VARIABLES
    calls,    \* admin requests so far (bounded by MaxCalls)
    lastId,   \* the last id handed out by AUTOINCREMENT
    apc,      \* next step of each admin handler
    form      \* the row it is about to write: id, priority, admin_enabled

adminVars == <<calls, lastId, apc, form>>

Form == [key : KeyIds, priority : Priorities, enabled : BOOLEAN]
NoForm == [key |-> NoKey, priority |-> 0, enabled |-> FALSE]

AdminTypeOK ==
    /\ calls \in 0..MaxCalls
    /\ lastId \in Nat
    /\ apc \in [Admins -> {"idle", "update", "activate"}]
    /\ form \in [Admins -> Form \cup {NoForm}]

AdminInit ==
    /\ calls = 0
    /\ lastId \in InitialKeys \cup {0}
    /\ \A k \in InitialKeys : k <= lastId
    /\ apc  = [a \in Admins |-> "idle"]
    /\ form = [a \in Admins |-> NoForm]

\* The handler of admin a is between two requests and takes the next one.
Request(a) == /\ apc[a] = "idle"
              /\ ppc[a] = "idle"
              /\ calls < MaxCalls
              /\ calls' = calls + 1

Back(a) == /\ apc'  = [apc  EXCEPT ![a] = "idle"]
           /\ form' = [form EXCEPT ![a] = NoForm]

-----------------------------------------------------------------------------
\* createKey, and one line of importKeys, which may ask for no test: the id is
\* new, since AUTOINCREMENT never reuses one.
CreateAndTest(a, p, test) ==
    LET k == lastId + 1
    IN  /\ Request(a)
        /\ k \in KeyIds
        /\ lastId' = k
        /\ keys' = CreateKey(keys, k, p)
        /\ IF test = "none" THEN UNCHANGED probeVars
           ELSE StartTest(a, k, test = "inference") /\ UNCHANGED <<spc, batch>>
        /\ UNCHANGED <<telemetryVars, apc, form>>

\* testKey
Test(a, k, inference) ==
    /\ Request(a)
    /\ k \in DOMAIN keys
    /\ StartTest(a, k, inference)
    /\ UNCHANGED <<keys, telemetryVars, lastId, apc, form, spc, batch>>

\* updateKey reads the row; a field the input leaves out keeps the value read
\* here, so any combination may be written back.
ReadForUpdate(a, k, p, e) ==
    /\ Request(a)
    /\ k \in DOMAIN keys
    /\ apc'  = [apc  EXCEPT ![a] = "update"]
    /\ form' = [form EXCEPT ![a] = [key |-> k, priority |-> p, enabled |-> e]]
    /\ UNCHANGED <<keys, telemetryVars, lastId, probeVars>>

Update(a) ==
    /\ apc[a] = "update"
    /\ keys' = UpdateKey(keys, form[a].key, form[a].priority, form[a].enabled)
    /\ Back(a)
    /\ UNCHANGED <<telemetryVars, calls, lastId, probeVars>>

Delete(a, k) ==
    /\ Request(a)
    /\ k \in DOMAIN keys
    /\ keys' = DeleteKey(keys, k)
    /\ ForgetKey(k)
    /\ UNCHANGED <<lastId, apc, form, probeVars>>

\* activateKey answers 409 to a key that is not eligible.
CheckActivation(a, k) ==
    /\ Request(a)
    /\ k \in EligibleKeys(keys)
    /\ apc'  = [apc  EXCEPT ![a] = "activate"]
    /\ form' = [form EXCEPT ![a] = [key |-> k, priority |-> keys[k].priority,
                                    enabled |-> TRUE]]
    /\ UNCHANGED <<keys, telemetryVars, lastId, probeVars>>

Activate(a) ==
    /\ apc[a] = "activate"
    /\ keys' = SetActive(keys, form[a].key)
    /\ Back(a)
    /\ UNCHANGED <<telemetryVars, calls, lastId, probeVars>>

AdminHandler(a) ==
    \/ \E p \in Priorities, test \in {"none", "models", "inference"} :
          CreateAndTest(a, p, test)
    \/ \E k \in KeyIds :
          \/ \E inference \in BOOLEAN : Test(a, k, inference)
          \/ \E p \in Priorities, e \in BOOLEAN : ReadForUpdate(a, k, p, e)
          \/ Delete(a, k)
          \/ CheckActivation(a, k)
    \/ Update(a)
    \/ Activate(a)
=============================================================================
