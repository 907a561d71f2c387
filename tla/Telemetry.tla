----------------------------- MODULE Telemetry -----------------------------
(***************************************************************************)
(* The usage records of the store: one row of `proxy_requests' for each    *)
(* request a handler serves and the rows of `proxy_attempts' that go with  *)
(* it, with their foreign keys.  A handler's errors here are logged or     *)
(* dropped, so a statement that fails leaves both tables as they were.     *)
(*                                                                         *)
(* A slot of `Slots' is a running handler; requests[s] and attempts[s] are *)
(* the rows of the request that slot s is serving or served last.          *)
(* Latencies, tokens and client names are left out.                        *)
(***************************************************************************)
EXTENDS Store

CONSTANT Slots    \* inference handlers that may run at once (bound)

VARIABLES
    requests,     \* slot -> row of proxy_requests
    attempts      \* slot -> rows of proxy_attempts for that request

telemetryVars == <<requests, attempts>>

NoKey == 0        \* a NULL final_key_id; ids start at 1

RequestRow == [state : {"none", "open", "success", "error"},
               final : KeyIds \cup {NoKey}, count : Nat]

AttemptRow == [no : Nat, key : KeyIds,
               outcome : {"failover", "error", "success"}]

TelemetryTypeOK == /\ requests \in [Slots -> RequestRow]
                   /\ attempts \in [Slots -> SUBSET AttemptRow]

NoRow == [state |-> "none", final |-> NoKey, count |-> 0]

TelemetryInit == /\ requests = [s \in Slots |-> NoRow]
                 /\ attempts = [s \in Slots |-> {}]

-----------------------------------------------------------------------------
BeginRequest(s) ==
    /\ requests' = [requests EXCEPT ![s] = [NoRow EXCEPT !.state = "open"]]
    /\ attempts' = [attempts EXCEPT ![s] = {}]

\* request_id and key_id are NOT NULL foreign keys.
AddAttempt(s, attempt) ==
    /\ attempts' = IF requests[s].state # "none" /\ attempt.key \in DOMAIN keys
                   THEN [attempts EXCEPT ![s] = @ \cup {attempt}]
                   ELSE attempts
    /\ UNCHANGED requests

\* final_key_id is a foreign key too: the UPDATE fails when the key is gone.
FinishRequest(s, outcome, final, count) ==
    /\ requests' = IF /\ requests[s].state # "none"
                      /\ final \in DOMAIN keys \cup {NoKey}
                   THEN [requests EXCEPT ![s] = [state |-> outcome,
                                                 final |-> final,
                                                 count |-> count]]
                   ELSE requests
    /\ UNCHANGED attempts

\* (Mutant: final_key_id without ON DELETE SET NULL.)
ForgetKeyBug(k) ==
    /\ attempts' = [s \in Slots |-> {a \in attempts[s] : a.key # k}]
    /\ UNCHANGED requests

\* What DELETE FROM keys does here: ON DELETE SET NULL for the requests and
\* ON DELETE CASCADE for the attempts.
ForgetKey(k) ==
    /\ requests' = [s \in Slots |->
                      IF requests[s].final = k
                      THEN [requests[s] EXCEPT !.final = NoKey]
                      ELSE requests[s]]
    /\ attempts' = [s \in Slots |-> {a \in attempts[s] : a.key # k}]
=============================================================================
