------------------------------ MODULE Schedule ------------------------------
(***************************************************************************)
(* The scheduler and its tests against a clock, with the two things that   *)
(* share its timestamps: the model catalog (HandleModels), which marks the *)
(* key that answers as checked, and the purge of old requests.             *)
(*                                                                         *)
(* Probe lets a round test any half-open keys; here last_checked_at        *)
(* decides.  The unit of time is the scheduler's period of 30 seconds, and *)
(* everything happens at whole units: all comparisons of the code are of   *)
(* the form "at least so long ago", which rounding preserves.  Timestamps  *)
(* are kept as the time since then, up to where nothing tells them apart;  *)
(* a NULL counts as long ago, as it does in Scheduler.run.                 *)
(*                                                                         *)
(* A request is one step here (its own races are Inference's subject), and *)
(* keys are not edited.                                                    *)
(***************************************************************************)
EXTENDS Probe, FiniteSets

CONSTANTS
    ProbeInterval,  \* settings.ProbeIntervalSec, 60 seconds at least
    CacheTime,      \* settings.ModelsCacheSec, 30 seconds at least
    Retention,      \* cfg.EventRetention
    LongestCall,    \* bound of an upstream call (REQUEST_TIMEOUT), rounded up
    LongestRequest, \* bound of a request, failover included
    LongestCooling, \* bound of the resets that the upstream names
    Readers,        \* requests for the catalog served at the same time
    Watched         \* any key, whose times the properties follow

ASSUME ScheduleAssumption ==
    /\ ProbeInterval \in Nat \ {0, 1}
    /\ CacheTime \in Nat \ {0}
    /\ LongestCall \in Nat \ {0}
    /\ {Retention, LongestRequest, LongestCooling} \subseteq Nat
    /\ Watched \in KeyIds
    /\ IsFiniteSet(KeyIds) /\ IsFiniteSet(Readers)
    /\ Scheduler \notin Readers

VARIABLES
    ticked,   \* a tick is in the channel of the ticker
    wait,     \* time until cooling_until
    age,      \* time since last_checked_at
    fetched,  \* time since model_cache.fetched_at, or Absent
    rpc,      \* next step of each reader
    todo,     \* keys of AuthValidKeys it has not asked yet
    spent,    \* time that the scheduler's or a reader's call has taken
    request,  \* time since the request now served began, or Absent
    row,      \* does its row exist?
    late,     \* how long Watched has been due and cooling
    untested, \* how long Watched has been half-open and not tested
    gap       \* time since Watched was tested by an inference

tableVars    == <<wait, age>>
catalogVars  == <<fetched, rpc, todo>>
requestVars  == <<request, row>>
watchVars    == <<late, untested, gap>>
scheduleVars == <<keys, probeVars, ticked, tableVars, catalogVars, spent,
                  requestVars, watchVars>>

Absent == -1
Callers == Readers \cup {Scheduler}

\* (Mutant: for ever.)
OlderBug(t, cap) == t + 1

\* Time since something, one unit later; beyond cap nothing tells it apart.
Older(t, cap) == IF t = Absent \/ t >= cap THEN t ELSE t + 1

RoundTime == 2 * LongestCall * Cardinality(KeyIds)

\* The tests of the other keys, and what is left of them when a key becomes due
\* that the round has passed over.
OthersTime  == RoundTime - 2 * LongestCall
MissedRound == IF OthersTime = 0 THEN 0 ELSE OthersTime - 1

\* A key is listed at the latest one probe interval and such a round after it was
\* marked as checked.  Between two tests that happens at most so often: a refusal,
\* and for each request for the catalog under way an answer and one more refusal.
\* In the round that lists it the others may be tested first.
ListBound == ProbeInterval + MissedRound
TestBound == (2 * Cardinality(Readers) + 2) * ListBound + OthersTime

ScheduleTypeOK ==
    /\ IsKeyTable(keys)
    /\ ProbeTypeOK
    /\ ticked \in BOOLEAN
    /\ wait \in [KeyIds -> 0..(LongestCooling + ProbeInterval)]
    /\ age \in [KeyIds -> 0..ProbeInterval]
    /\ fetched \in 0..CacheTime \cup {Absent}
    /\ rpc \in [Readers -> {"idle", "ask"}]
    /\ todo \in [Readers -> SUBSET KeyIds]
    /\ spent \in [Callers -> 0..LongestCall]
    /\ request \in 0..LongestRequest \cup {Absent}
    /\ row \in BOOLEAN
    /\ late \in 0..(RoundTime + 1)
    /\ untested \in 0..(TestBound + 1)
    /\ gap \in 0..ProbeInterval

ScheduleInit ==
    /\ StoreInit
    /\ ProbeInit
    /\ ticked   = TRUE     \* Run starts with a round
    /\ wait     = [k \in KeyIds |-> 0]
    /\ age      = [k \in KeyIds |-> ProbeInterval]
    /\ fetched  = Absent
    /\ rpc      = [r \in Readers |-> "idle"]
    /\ todo     = [r \in Readers |-> {}]
    /\ spent    = [c \in Callers |-> 0]
    /\ request  = Absent
    /\ row      = FALSE
    /\ late     = 0
    /\ untested = 0
    /\ gap      = ProbeInterval

\* What happens to Watched in a step that takes the time d.
Watch(d) ==
    LET is(q) == Watched \in DOMAIN keys' /\ keys'[Watched].quota = q
        more(t, cap) == IF t + d > cap THEN cap ELSE t + d
    IN  /\ late' = IF is("cooling") /\ keys'[Watched].until = "due"
                   THEN more(late, RoundTime + 1) ELSE 0
        /\ untested' = IF is("half_open") /\ target'[Scheduler] # Watched
                       THEN more(untested, TestBound + 1) ELSE 0

-----------------------------------------------------------------------------
(* Scheduler.Run *)

\* (Mutant: nobody wakes.)
TimedTickBug ==
    /\ ticked
    /\ spc = "sleep"
    /\ spc' = "list"
    /\ ticked' = FALSE
    /\ UNCHANGED <<keys, probe, ppc, target, full, batch, tableVars, catalogVars, spent,
                   requestVars, gap>>
    /\ Watch(0)

\* A round begins when the ticker has fired.
TimedTick ==
    /\ ticked
    /\ Tick
    /\ ticked' = FALSE
    /\ UNCHANGED <<tableVars, catalogVars, spent, requestVars, gap>>
    /\ Watch(0)

\* (Mutants: whenever they were checked; the setting is inverted.)
TimedListIgnoresAge ==
    /\ List
    /\ batch' = {k \in DOMAIN keys : /\ AutoProbe
                                     /\ keys[k].quota = "half_open"
                                     /\ keys[k].enabled}
    /\ UNCHANGED <<ticked, tableVars, catalogVars, spent, requestVars, gap>>
    /\ Watch(0)

TimedListInverted ==
    /\ List
    /\ batch' = {k \in DOMAIN keys : /\ ~AutoProbe
                                     /\ keys[k].quota = "half_open"
                                     /\ keys[k].enabled
                                     /\ age[k] >= ProbeInterval}
    /\ UNCHANGED <<ticked, tableVars, catalogVars, spent, requestVars, gap>>
    /\ Watch(0)

\* Keys that were checked less than a probe interval ago are passed over.
TimedList ==
    /\ List
    /\ batch' = {k \in DOMAIN keys : /\ AutoProbe
                                     /\ keys[k].quota = "half_open"
                                     /\ keys[k].enabled
                                     /\ age[k] >= ProbeInterval}
    /\ UNCHANGED <<ticked, tableVars, catalogVars, spent, requestVars, gap>>
    /\ Watch(0)

TimedTestNext ==
    /\ TestNext
    /\ UNCHANGED <<ticked, tableVars, catalogVars, spent, requestVars, gap>>
    /\ Watch(0)

\* (Mutant: one unit too early.)
PurgeBug == row' = (row /\ request < Retention)

\* PurgeBefore deletes the rows of requests that began before now - Retention.
Purge == row' = (row /\ request <= Retention)

TimedRoundEnds ==
    /\ RoundEnds
    /\ Purge
    /\ UNCHANGED <<ticked, tableVars, catalogVars, spent, request, gap>>
    /\ Watch(0)

-----------------------------------------------------------------------------
(* TestKey for the scheduler: which answers it records with a time. *)

CallBegins(c) == spent' = [spent EXCEPT ![c] = 0]
Checked(k)    == age' = [age EXCEPT ![k] = 0]

TimedLockProbe ==
    /\ LockProbe(Scheduler)
    /\ UNCHANGED <<ticked, tableVars, catalogVars, spent, requestVars, gap>>
    /\ Watch(0)

TimedModelsAnswer(answer) ==
    LET k == target[Scheduler]
    IN  /\ ModelsAnswer(Scheduler, answer)
        /\ IF answer = "nothing" THEN UNCHANGED age ELSE Checked(k)
        /\ CallBegins(Scheduler)
        /\ gap' = IF answer = "ok" /\ k = Watched THEN 0 ELSE gap
        /\ UNCHANGED <<ticked, wait, catalogVars, requestVars>>
        /\ Watch(0)

\* A deadline: named by the upstream, reached or to come, or one probe interval
\* away if it names none (recordKeyFailure).
Resets == 0..LongestCooling \cup {ProbeInterval}

Cools(k, d) == /\ keys' = MarkQuota(keys, k, IF d = 0 THEN "due" ELSE "future")
               /\ wait' = [wait EXCEPT ![k] = d]
               /\ Checked(k)

TimedInferenceAnswer(answer, d) ==
    LET k == target[Scheduler]
    IN  /\ InferenceAnswer(Scheduler, answer, IF d = 0 THEN "due" ELSE "future")
        /\ CASE answer = "quota" -> Cools(k, d)
             [] answer = "auth"  -> Checked(k) /\ UNCHANGED wait
             [] answer = "ok"    -> wait' = [wait EXCEPT ![k] = 0] /\ UNCHANGED age
             [] answer = "nothing" -> UNCHANGED tableVars
        /\ CallBegins(Scheduler)
        /\ UNCHANGED <<ticked, catalogVars, requestVars, gap>>
        /\ Watch(0)

-----------------------------------------------------------------------------
(* HandleModels.  A hit answers from the cache and changes nothing. *)

\* No catalog, or one as old as CacheTime; then AuthValidKeys, the cooling keys
\* among them.  The order in which they are asked is left open.
AskCatalog(r) ==
    /\ rpc[r] = "idle"
    /\ fetched = Absent \/ fetched >= CacheTime
    /\ todo' = [todo EXCEPT ![r] = {k \in DOMAIN keys : keys[k].enabled /\ keys[k].auth # "invalid"}
                                   \ Undecryptable]
    /\ rpc' = [rpc EXCEPT ![r] = "ask"]
    /\ CallBegins(r)
    /\ UNCHANGED <<keys, probeVars, ticked, tableVars, fetched, requestVars, watchVars>>

\* A key answers, MarkChecked and SaveModelCache; or refuses; or "nothing": a
\* network error, or an answer that says nothing of the key.
SourceAnswers(r, k, answer) ==
    /\ rpc[r] = "ask"
    /\ k \in todo[r]
    /\ keys' = CASE answer = "ok"      -> MarkChecked(keys, k, "valid")
                 [] answer = "auth"    -> MarkInvalid(keys, k)
                 [] answer = "nothing" -> keys
    /\ IF answer = "nothing" THEN UNCHANGED age ELSE Checked(k)
    /\ IF answer = "ok"
       THEN /\ fetched' = 0
            /\ todo' = [todo EXCEPT ![r] = {}]
            /\ rpc' = [rpc EXCEPT ![r] = "idle"]
       ELSE /\ todo' = [todo EXCEPT ![r] = @ \ {k}]
            /\ UNCHANGED <<fetched, rpc>>
    /\ CallBegins(r)
    /\ UNCHANGED <<probeVars, ticked, wait, requestVars, gap>>
    /\ Watch(0)

\* No key has answered: the stale catalog, or 503.
NoSourceLeft(r) ==
    /\ rpc[r] = "ask"
    /\ todo[r] = {}
    /\ rpc' = [rpc EXCEPT ![r] = "idle"]
    /\ UNCHANGED <<keys, probeVars, ticked, tableVars, fetched, todo, spent, requestVars, watchVars>>

-----------------------------------------------------------------------------
(* Requests, and the rows they leave *)

\* BeginRequest.  The row of the previous request is forgotten here.
RequestBegins ==
    /\ request = Absent
    /\ request' = 0
    /\ row' = TRUE
    /\ UNCHANGED <<keys, probeVars, ticked, tableVars, catalogVars, spent, watchVars>>

\* What the answer for a selected key does to it; then FinishRequest, which
\* updates the row if there is one.
RequestEnds(k, answer, d) ==
    /\ request # Absent
    /\ k \in EligibleKeys(keys)
    /\ CASE answer = "used"  -> /\ keys' = MarkUsed(keys, k)
                                /\ wait' = [wait EXCEPT ![k] = 0]
                                /\ UNCHANGED age
         [] answer = "quota" -> Cools(k, d)
         [] answer = "auth"  -> keys' = MarkInvalid(keys, k) /\ Checked(k) /\ UNCHANGED wait
    /\ request' = Absent
    /\ row' = FALSE
    /\ UNCHANGED <<probeVars, ticked, catalogVars, spent, gap>>
    /\ Watch(0)

\* It finds no key, or an answer that says nothing of one.
RequestFails ==
    /\ request # Absent
    /\ request' = Absent
    /\ row' = FALSE
    /\ UNCHANGED <<keys, probeVars, ticked, tableVars, catalogVars, spent, watchVars>>

-----------------------------------------------------------------------------
(* Time *)

\* The scheduler and the readers need no time for what they do themselves.
SchedulerIdle ==
    \/ spc = "sleep" /\ ~ticked
    \/ ppc[Scheduler] \in {"models", "inference"} /\ spent[Scheduler] < LongestCall

ReaderIdle(r) ==
    \/ rpc[r] = "idle"
    \/ rpc[r] = "ask" /\ todo[r] # {} /\ spent[r] < LongestCall

\* The ticker drops a tick that nobody has taken by the next.
TimePasses ==
    /\ SchedulerIdle
    /\ \A r \in Readers : ReaderIdle(r)
    /\ request # Absent => request < LongestRequest
    /\ ticked' = TRUE
    /\ keys' = [k \in DOMAIN keys |->
                   IF keys[k].until = "future" /\ wait[k] <= 1
                   THEN [keys[k] EXCEPT !.until = "due"] ELSE keys[k]]
    /\ wait' = [k \in KeyIds |-> IF wait[k] > 0 THEN wait[k] - 1 ELSE 0]
    /\ age' = [k \in KeyIds |-> Older(age[k], ProbeInterval)]
    /\ fetched' = Older(fetched, CacheTime)
    /\ spent' = [c \in Callers |->
                    IF \/ c = Scheduler /\ ppc[c] \in {"models", "inference"}
                       \/ c # Scheduler /\ rpc[c] = "ask"
                    THEN spent[c] + 1 ELSE 0]
    /\ request' = Older(request, LongestRequest)
    /\ gap' = Older(gap, ProbeInterval)
    /\ UNCHANGED <<probeVars, rpc, todo, row>>
    /\ Watch(1)

SchedulerNext ==
    \/ TimedTick \/ TimedList \/ TimedTestNext \/ TimedRoundEnds \/ TimedLockProbe
    \/ \E answer \in {"network", "auth", "ok", "nothing"} : TimedModelsAnswer(answer)
    \/ \E answer \in {"quota", "auth", "ok", "nothing"}, d \in Resets :
           TimedInferenceAnswer(answer, d)

CatalogNext ==
    \E r \in Readers :
        \/ AskCatalog(r) \/ NoSourceLeft(r)
        \/ \E k \in KeyIds, answer \in {"ok", "auth", "nothing"} : SourceAnswers(r, k, answer)

RequestNext ==
    \/ RequestBegins \/ RequestFails
    \/ \E k \in KeyIds, answer \in {"used", "quota", "auth"}, d \in Resets :
           RequestEnds(k, answer, d)

ScheduleNext == SchedulerNext \/ CatalogNext \/ RequestNext \/ TimePasses

ScheduleSpec == ScheduleInit /\ [][ScheduleNext]_scheduleVars

-----------------------------------------------------------------------------
\* A key whose cooling is over waits for the scheduler at most as long as one
\* round of tests takes, whatever is being tested meanwhile (scheduler.go:24-62,
\* where a round blocks the next one and the ticker drops ticks).
WakesInTime == late <= RoundTime

\* No key spends quota on automatic tests more often than the probe interval
\* allows, although the decision is taken some calls before the test and other
\* handlers move last_checked_at (scheduler.go:57).
ProbesAreSpaced ==
    [][ppc[Scheduler] = "models" /\ ppc'[Scheduler] = "inference" /\ target[Scheduler] = Watched
       => gap >= ProbeInterval]_scheduleVars

\* Where keys are tested automatically, a half-open key is tested in time, though
\* requests for the catalog and refused requests mark it as checked, if the catalog
\* is kept longer than it takes to list a key.  (It is not by default, 600 seconds
\* against 900: a key that answers for the catalog every ten minutes is never due,
\* and waits for a request or for a manual test as if automatic tests were off,
\* main.tsx:1391.)
TestedInTime ==
    AutoProbe /\ CacheTime > ListBound => untested <= TestBound

\* PurgeBefore does not take the row from under a request that is still served
\* (its attempts would violate a foreign key), if no request outlives the retention.
OpenRequestHasItsRow ==
    LongestRequest <= Retention /\ request # Absent => row
=============================================================================
