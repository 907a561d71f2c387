------------------------------- MODULE Probe -------------------------------
(***************************************************************************)
(* TestKey of internal/proxy/service.go, the test of one key by a call for *)
(* the model list and, if asked, a minimal inference; and the scheduler of *)
(* internal/scheduler/scheduler.go, which tests half-open keys.            *)
(*                                                                         *)
(* A test uses only the id and the secret of the key it was given, and     *)
(* waits for Service.probe first: by the time it records anything, the key *)
(* may be in another state than the one that made it worth testing.  An    *)
(* answer of the upstream and the statement that records it are one step.  *)
(***************************************************************************)
EXTENDS Store

CONSTANTS
    NoProber,    \* Service.probe is free
    Admins,      \* admin handlers that may run at once (bound)
    Scheduler,   \* the goroutine of Scheduler.Run
    AutoProbe    \* are keys tested automatically (setting or override)?

Probers == Admins \cup {Scheduler}

ASSUME ProbeAssumption == NoProber \notin Probers /\ Scheduler \notin Admins /\ AutoProbe \in BOOLEAN

VARIABLES
    probe,     \* holder of Service.probe
    ppc,       \* next step of each test
    target,    \* the key it tests
    full,      \* is an inference asked for?
    spc,       \* next step of Scheduler.run
    batch      \* keys of its snapshot it still has to test

probeVars == <<probe, ppc, target, full, spc, batch>>

ProbeTypeOK ==
    /\ probe \in Probers \cup {NoProber}
    /\ ppc \in [Probers -> {"idle", "wait", "models", "inference"}]
    /\ target \in [Probers -> KeyIds \cup {0}]
    /\ full \in [Probers -> BOOLEAN]
    /\ spc \in {"sleep", "list", "run"}
    /\ batch \subseteq KeyIds

ProbeInit ==
    /\ probe  = NoProber
    /\ ppc    = [p \in Probers |-> "idle"]
    /\ target = [p \in Probers |-> 0]
    /\ full   = [p \in Probers |-> FALSE]
    /\ spc    = "sleep"
    /\ batch  = {}

-----------------------------------------------------------------------------
(* TestKey *)

\* The call of TestKey(key k, inference inf) by p.
StartTest(p, k, inf) ==
    /\ ppc'    = [ppc    EXCEPT ![p] = "wait"]
    /\ target' = [target EXCEPT ![p] = k]
    /\ full'   = [full   EXCEPT ![p] = inf]
    /\ UNCHANGED probe

\* (Mutant: no unlock.)
EndTestBug(p) ==
    /\ ppc'    = [ppc    EXCEPT ![p] = "idle"]
    /\ target' = [target EXCEPT ![p] = 0]
    /\ full'   = [full   EXCEPT ![p] = FALSE]
    /\ UNCHANGED probe

\* The return of TestKey, with the deferred unlock.
EndTest(p) ==
    /\ probe'  = NoProber
    /\ ppc'    = [ppc    EXCEPT ![p] = "idle"]
    /\ target' = [target EXCEPT ![p] = 0]
    /\ full'   = [full   EXCEPT ![p] = FALSE]

\* (Mutant: tests do not wait for each other.)
LockProbeBug(p) ==
    /\ ppc[p] = "wait"
    /\ probe' = p
    /\ ppc' = [ppc EXCEPT ![p] = "models"]
    /\ UNCHANGED <<target, full, keys, spc, batch>>

LockProbe(p) ==
    /\ ppc[p] = "wait"
    /\ probe = NoProber
    /\ IF target[p] \in Undecryptable
       THEN EndTest(p)
       ELSE /\ probe' = p
            /\ ppc' = [ppc EXCEPT ![p] = "models"]
            /\ UNCHANGED <<target, full>>
    /\ UNCHANGED <<keys, spc, batch>>

\* "nothing" stands for every way in which no statement takes effect: a status
\* that says nothing of the key, or a caller whose context is cancelled.
ModelsAnswer(p, answer) ==
    LET k == target[p]
    IN  /\ ppc[p] = "models"
        /\ keys' = CASE answer = "network" -> MarkChecked(keys, k, "unknown")
                     [] answer = "auth"    -> MarkInvalid(keys, k)
                     [] answer = "ok"      -> MarkChecked(keys, k, "valid")
                     [] answer = "nothing" -> keys
        /\ IF answer = "ok" /\ full[p]
           THEN ppc' = [ppc EXCEPT ![p] = "inference"] /\ UNCHANGED <<probe, target, full>>
           ELSE EndTest(p)
        /\ UNCHANGED <<spc, batch>>

InferenceAnswer(p, answer, reset) ==
    LET k == target[p]
    IN  /\ ppc[p] = "inference"
        /\ keys' = CASE answer = "quota"   -> MarkQuota(keys, k, reset)
                     [] answer = "auth"    -> MarkInvalid(keys, k)
                     [] answer = "ok"      -> MarkUsed(keys, k)
                     [] answer = "nothing" -> keys
        /\ EndTest(p)
        /\ UNCHANGED <<spc, batch>>

Testing(p) ==
    \/ \E answer \in {"network", "auth", "ok", "nothing"} : ModelsAnswer(p, answer)
    \/ \E answer \in {"quota", "auth", "ok", "nothing"}, reset \in Deadlines :
          InferenceAnswer(p, answer, reset)

-----------------------------------------------------------------------------
(* Scheduler.run, every 30 seconds *)

Tick ==
    /\ spc = "sleep"
    /\ keys' = MarkHalfOpenDue(keys)
    /\ spc' = "list"
    /\ UNCHANGED <<probe, ppc, target, full, batch>>

\* If keys are tested automatically at all, an override by key and the age of
\* its last check decide which of the enabled half-open keys are tested now:
\* any subset.  The order within a round (priority, id) is left open too.
List ==
    /\ spc = "list"
    /\ batch' \in SUBSET {k \in DOMAIN keys : /\ AutoProbe
                                              /\ keys[k].quota = "half_open"
                                              /\ keys[k].enabled}
    /\ spc' = "run"
    /\ UNCHANGED <<keys, probe, ppc, target, full>>

TestNext ==
    /\ spc = "run"
    /\ ppc[Scheduler] = "idle"
    /\ \E k \in batch : StartTest(Scheduler, k, TRUE) /\ batch' = batch \ {k}
    /\ UNCHANGED <<keys, spc>>

\* The round ends with PurgeBefore, which touches telemetry that is long over.
RoundEnds ==
    /\ spc = "run"
    /\ ppc[Scheduler] = "idle"
    /\ batch = {}
    /\ spc' = "sleep"
    /\ UNCHANGED <<keys, probe, ppc, target, full, batch>>

SchedulerStep == Tick \/ List \/ TestNext \/ RoundEnds

ProbeStep == SchedulerStep \/ \E p \in Probers : LockProbe(p) \/ Testing(p)
=============================================================================
