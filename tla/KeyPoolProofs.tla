--------------------------- MODULE KeyPoolProofs ---------------------------
(***************************************************************************)
(* The whole pool keeps PoolInv, from which the invariants of the key      *)
(* table follow under every interleaving of handlers, admins, tests,       *)
(* scheduler, clock and crashes.                                           *)
(***************************************************************************)
EXTENDS KeyPool, InferenceProofs

\* The handlers do not notice a step that leaves their variables alone and
\* keeps both tables well-formed.
LEMMA OthersInv ==
    ASSUME InferenceInv, UNCHANGED inferenceVars, TableInv(keys'), TelemetryTypeOK'
    PROVE  InferenceInv'
<1>1. InferenceTypeOK' /\ HandlerInv'
      BY DEF InferenceInv, inferenceVars, handlerVars, InferenceTypeOK, HandlerInv, IsSnapshot
<1> QED BY <1>1 DEF InferenceInv

LEMMA TelemetryUnchanged ==
    ASSUME TelemetryTypeOK, UNCHANGED telemetryVars PROVE TelemetryTypeOK'
BY DEF TelemetryTypeOK, telemetryVars

\* A statement adds no row but that of CreateKey.
LEMMA SameDomain ==
    ASSUME NEW t, NEW k
    PROVE  /\ DOMAIN MarkUsed(t, k) = DOMAIN t
           /\ DOMAIN MarkInvalid(t, k) = DOMAIN t
           /\ \A auth : DOMAIN MarkChecked(t, k, auth) = DOMAIN t
           /\ \A until : DOMAIN MarkQuota(t, k, until) = DOMAIN t
           /\ DOMAIN MarkHalfOpenDue(t) = DOMAIN t
           /\ DOMAIN SetActive(t, k) = DOMAIN t
           /\ \A p, e : DOMAIN UpdateKey(t, k, p, e) = DOMAIN t
           /\ DOMAIN DeleteKey(t, k) \subseteq DOMAIN t
BY DEF MarkUsed, MarkInvalid, MarkChecked, MarkQuota, MarkHalfOpenDue, SetActive, UpdateKey,
       DeleteKey

-----------------------------------------------------------------------------
\* The first state.
LEMMA PoolInitInv == PoolInit => PoolInv
<1> SUFFICES ASSUME PoolInit PROVE PoolInv
    OBVIOUS
<1>1. InferenceInv
      BY InferenceInitInv DEF PoolInit
<1>2. ProbeTypeOK
      BY DEF PoolInit, ProbeInit, ProbeTypeOK
<1>3. AdminTypeOK
      BY StoreAssumption, AdminAssumption DEF PoolInit, AdminInit, AdminTypeOK
<1>4. DOMAIN keys = InitialKeys
      BY DEF PoolInit, Init, StoreInit
<1> QED BY <1>1, <1>2, <1>3, <1>4 DEF PoolInit, ProbeInit, AdminInit, PoolInv

\* The handlers never create a key.
LEMMA HandlersDomain ==
    ASSUME InferenceStep PROVE DOMAIN keys' = DOMAIN keys
<1>1. PICK s \in Slots : Arrive(s) \/ Disconnect(s) \/ Handler(s)
      BY DEF InferenceStep
<1>2. CASE Locking(s)
      BY <1>2, SameDomain DEF Locking, Lock, Promote, Exec
<1>3. CASE Upstream(s)
      BY <1>3 DEF Upstream, Answer, StreamEnds, StreamStarts, FirstReadFails, Unreadable
<1>4. CASE Working(s)
  <2>1. CASE \E reset \in Deadlines : RecordKeyFailure(s, reset)
        BY <2>1, SameDomain DEF RecordKeyFailure, Exec
  <2>2. CASE Use(s)
        BY <2>2, SameDomain DEF Use, Exec
  <2>3. CASE Begin(s) \/ Select(s) \/ Pick(s) \/ Exhaust(s) \/ Attempt(s) \/ Finish(s)
        BY <2>3 DEF Begin, Select, Pick, Exhaust, Attempt, Finish
  <2> QED BY <1>4, <2>1, <2>2, <2>3 DEF Working
<1> QED BY <1>1, <1>2, <1>3, <1>4 DEF Handler, Arrive, Disconnect

LEMMA HandlersInv ==
    ASSUME PoolInv, InferenceStep, UNCHANGED <<probeVars, adminVars>>
    PROVE  PoolInv'
<1>1. InferenceInv'
      BY InferenceStepInv DEF PoolInv
<1> QED
    BY <1>1, HandlersDomain
    DEF PoolInv, probeVars, adminVars, ProbeTypeOK, AdminTypeOK

\* Tests and scheduler.
LEMMA ProbeInv ==
    ASSUME PoolInv, ProbeStep, UNCHANGED <<telemetryVars, inferenceVars, adminVars>>
    PROVE  PoolInv'
<1> USE DEF PoolInv
<1>1. ASSUME TableInv(keys'), DOMAIN keys' = DOMAIN keys, ProbeTypeOK',
             \A p \in Probers : ppc'[p] \in {"models", "inference"} => probe' = p
      PROVE  PoolInv'
  <2>1. InferenceInv'
        BY <1>1, OthersInv, TelemetryUnchanged DEF InferenceInv
  <2> QED BY <1>1, <2>1 DEF adminVars, AdminTypeOK
<1>2. TableInv(keys)
      BY DEF InferenceInv
<1>3. ASSUME NEW p \in Probers, LockProbe(p) PROVE PoolInv'
  <2>1. ProbeTypeOK'
        BY <1>3 DEF LockProbe, EndTest, ProbeTypeOK
  <2>2. \A q \in Probers : ppc'[q] \in {"models", "inference"} => probe' = q
        BY <1>3, ProbeAssumption DEF LockProbe, EndTest, ProbeTypeOK
  <2> QED BY <1>1, <1>2, <1>3, <2>1, <2>2 DEF LockProbe
<1>4. ASSUME NEW p \in Probers, NEW answer \in {"network", "auth", "ok", "nothing"},
             ModelsAnswer(p, answer)
      PROVE  PoolInv'
  <2>1. TableInv(keys') /\ DOMAIN keys' = DOMAIN keys
    <3>1. TableInv(MarkChecked(keys, target[p], "unknown"))
          BY <1>2, MarkInv DEF AuthStates
    <3>2. TableInv(MarkChecked(keys, target[p], "valid"))
          BY <1>2, MarkInv DEF AuthStates
    <3>3. TableInv(MarkInvalid(keys, target[p]))
          BY <1>2, MarkInv
    <3> QED BY <1>2, <1>4, <3>1, <3>2, <3>3, SameDomain DEF ModelsAnswer
  <2>2. ProbeTypeOK'
        BY <1>4 DEF ModelsAnswer, EndTest, ProbeTypeOK
  <2>3. \A q \in Probers : ppc'[q] \in {"models", "inference"} => probe' = q
        BY <1>4, ProbeAssumption DEF ModelsAnswer, EndTest, ProbeTypeOK
  <2> QED BY <1>1, <2>1, <2>2, <2>3
<1>5. ASSUME NEW p \in Probers, NEW answer \in {"quota", "auth", "ok", "nothing"},
             NEW reset \in Deadlines, InferenceAnswer(p, answer, reset)
      PROVE  PoolInv'
  <2>1. TableInv(keys') /\ DOMAIN keys' = DOMAIN keys
    <3>1. TableInv(MarkQuota(keys, target[p], reset))
          BY <1>2, MarkInv
    <3>2. TableInv(MarkInvalid(keys, target[p])) /\ TableInv(MarkUsed(keys, target[p]))
          BY <1>2, MarkInv
    <3> QED BY <1>2, <1>5, <3>1, <3>2, SameDomain DEF InferenceAnswer
  <2>2. ProbeTypeOK'
        BY <1>5 DEF InferenceAnswer, EndTest, ProbeTypeOK
  <2>3. \A q \in Probers : ppc'[q] \in {"models", "inference"} => probe' = q
        BY <1>5, ProbeAssumption DEF InferenceAnswer, EndTest, ProbeTypeOK
  <2> QED BY <1>1, <2>1, <2>2, <2>3
<1>6. CASE Tick
  <2>1. TableInv(keys') /\ DOMAIN keys' = DOMAIN keys
        BY <1>2, <1>6, MarkHalfOpenDueInv, SameDomain DEF Tick
  <2> QED BY <1>1, <1>6, <2>1 DEF Tick, ProbeTypeOK
<1>7. CASE List
  <2>1. batch' \subseteq KeyIds
        BY <1>2, <1>7 DEF List, TableInv, IsKeyTable
  <2> QED BY <1>1, <1>2, <1>7, <2>1 DEF List, ProbeTypeOK
<1>8. CASE TestNext
  <2>1. PICK k \in batch : StartTest(Scheduler, k, TRUE) /\ batch' = batch \ {k}
        BY <1>8 DEF TestNext
  <2>2. ProbeTypeOK'
        BY <1>8, <2>1 DEF TestNext, StartTest, ProbeTypeOK, Probers
  <2>3. \A q \in Probers : ppc'[q] \in {"models", "inference"} => probe' = q
        BY <2>1 DEF StartTest, ProbeTypeOK
  <2> QED BY <1>1, <1>2, <1>8, <2>2, <2>3 DEF TestNext
<1>9. CASE RoundEnds
      BY <1>1, <1>2, <1>9 DEF RoundEnds, ProbeTypeOK
<1> QED BY <1>3, <1>4, <1>5, <1>6, <1>7, <1>8, <1>9 DEF ProbeStep, Testing, SchedulerStep

\* The admin handlers.
LEMMA AdminInv ==
    ASSUME PoolInv, NEW a \in Admins, AdminHandler(a), UNCHANGED inferenceVars
    PROVE  PoolInv'
<1> USE DEF PoolInv
<1>1. TableInv(keys) /\ TelemetryTypeOK
      BY DEF InferenceInv
<1>2. a \in Probers
      BY DEF Probers
<1>3. ASSUME UNCHANGED <<keys, telemetryVars, lastId>>, ProbeTypeOK', AdminTypeOK',
             \A p \in Probers : ppc'[p] \in {"models", "inference"} => probe' = p,
             \A b \in Admins : apc'[b] = "update" => form'[b] \in Form
      PROVE  PoolInv'
      BY <1>1, <1>3, OthersInv, TelemetryUnchanged
<1>4. ASSUME NEW p \in Priorities, NEW test \in {"none", "models", "inference"},
             CreateAndTest(a, p, test)
      PROVE  PoolInv'
  <2>1. TableInv(keys')
        BY <1>1, <1>4, CreateKeyInv DEF CreateAndTest
  <2>2. InferenceInv'
        BY <1>1, <1>4, <2>1, OthersInv, TelemetryUnchanged DEF CreateAndTest
  <2>3. ProbeTypeOK' /\ \A q \in Probers : ppc'[q] \in {"models", "inference"} => probe' = q
    <3>1. CASE UNCHANGED probeVars
          BY <3>1 DEF probeVars, ProbeTypeOK
    <3>2. CASE StartTest(a, lastId + 1, test = "inference") /\ UNCHANGED <<spc, batch>>
          BY <1>2, <1>4, <3>2 DEF CreateAndTest, StartTest, ProbeTypeOK
    <3> QED BY <1>4, <3>1, <3>2 DEF CreateAndTest
  <2>4. AdminTypeOK'
        BY <1>4, AdminAssumption DEF CreateAndTest, Request, AdminTypeOK
  <2>5. \A k \in DOMAIN keys' : k <= lastId'
    <3>1. /\ DOMAIN keys' = DOMAIN keys \cup {lastId + 1}
          /\ lastId' = lastId + 1 /\ lastId \in Nat
          BY <1>4 DEF CreateAndTest, CreateKey, AdminTypeOK
    <3>2. DOMAIN keys \subseteq Nat
          BY <1>1, StoreAssumption DEF TableInv, IsKeyTable
    <3> QED BY <3>1, <3>2
  <2>6. \A b \in Admins : apc'[b] = "update" => form'[b] \in Form
        BY <1>4 DEF CreateAndTest
  <2> QED BY <2>2, <2>3, <2>4, <2>5, <2>6
<1>5. ASSUME NEW k \in KeyIds, NEW inference \in BOOLEAN, Test(a, k, inference)
      PROVE  PoolInv'
  <2>1. ProbeTypeOK' /\ \A q \in Probers : ppc'[q] \in {"models", "inference"} => probe' = q
        BY <1>2, <1>5 DEF Test, StartTest, ProbeTypeOK
  <2>2. AdminTypeOK'
        BY <1>5, AdminAssumption DEF Test, Request, AdminTypeOK
  <2> QED BY <1>3, <1>5, <2>1, <2>2 DEF Test
<1>6. ASSUME NEW k \in KeyIds, NEW p \in Priorities, NEW e \in BOOLEAN,
             ReadForUpdate(a, k, p, e)
      PROVE  PoolInv'
  <2>1. [key |-> k, priority |-> p, enabled |-> e] \in Form
        BY DEF Form
  <2>2. AdminTypeOK'
        BY <1>6, <2>1, AdminAssumption DEF ReadForUpdate, Request, AdminTypeOK, Form
  <2>3. \A b \in Admins : apc'[b] = "update" => form'[b] \in Form
        BY <1>6, <2>1 DEF ReadForUpdate, AdminTypeOK
  <2> QED BY <1>3, <1>6, <2>2, <2>3 DEF ReadForUpdate, probeVars, ProbeTypeOK
<1>7. ASSUME NEW k \in KeyIds, CheckActivation(a, k) PROVE PoolInv'
  <2>1. keys[k].priority \in Priorities
        BY <1>1, <1>7 DEF CheckActivation, EligibleKeys, TableInv, IsKeyTable, KeyRow
  <2>2. AdminTypeOK'
        BY <1>7, <2>1, AdminAssumption DEF CheckActivation, Request, AdminTypeOK, Form
  <2>3. \A b \in Admins : apc'[b] = "update" => form'[b] \in Form
        BY <1>7 DEF CheckActivation, AdminTypeOK
  <2> QED BY <1>3, <1>7, <2>2, <2>3 DEF CheckActivation, probeVars, ProbeTypeOK
<1>8. ASSUME NEW k \in KeyIds, Delete(a, k) PROVE PoolInv'
  <2>1. TableInv(keys') /\ DOMAIN keys' \subseteq DOMAIN keys
        BY <1>1, <1>8, DeleteKeyInv, SameDomain DEF Delete
  <2>2. TelemetryTypeOK'
        BY <1>1, <1>8 DEF Delete, ForgetKey, TelemetryTypeOK, RequestRow
  <2>3. InferenceInv'
        BY <2>1, <2>2, OthersInv
  <2>4. AdminTypeOK'
        BY <1>8, AdminAssumption DEF Delete, Request, AdminTypeOK
  <2> QED BY <1>8, <2>1, <2>3, <2>4 DEF Delete, probeVars, ProbeTypeOK
<1>9. CASE Update(a)
  <2>1. form[a].priority \in Priorities /\ form[a].enabled \in BOOLEAN
        BY <1>9 DEF Update, Form
  <2>2. TableInv(keys') /\ DOMAIN keys' = DOMAIN keys
    <3>1. keys' = UpdateKey(keys, form[a].key, form[a].priority, form[a].enabled)
          BY <1>9 DEF Update
    <3>2. TableInv(UpdateKey(keys, form[a].key, form[a].priority, form[a].enabled))
          BY <1>1, <2>1, UpdateKeyInv
    <3> QED BY <3>1, <3>2 DEF UpdateKey
  <2>3. InferenceInv'
        BY <1>1, <1>9, <2>2, OthersInv, TelemetryUnchanged DEF Update
  <2>4. AdminTypeOK' /\ \A b \in Admins : apc'[b] = "update" => form'[b] \in Form
        BY <1>9 DEF Update, Back, AdminTypeOK
  <2> QED BY <1>9, <2>2, <2>3, <2>4 DEF Update, probeVars, ProbeTypeOK
<1>10. CASE Activate(a)
  <2>1. TableInv(keys') /\ DOMAIN keys' = DOMAIN keys
        BY <1>1, <1>10, SetActiveInv, SameDomain DEF Activate
  <2>2. InferenceInv'
        BY <1>1, <1>10, <2>1, OthersInv, TelemetryUnchanged DEF Activate
  <2>3. AdminTypeOK' /\ \A b \in Admins : apc'[b] = "update" => form'[b] \in Form
        BY <1>10 DEF Activate, Back, AdminTypeOK
  <2> QED BY <1>10, <2>1, <2>2, <2>3 DEF Activate, probeVars, ProbeTypeOK
<1> QED
    BY <1>4, <1>5, <1>6, <1>7, <1>8, <1>9, <1>10 DEF AdminHandler

\* Clock, crash and stuttering.
LEMMA PoolClockInv ==
    ASSUME PoolInv, NEW k \in KeyIds, Clock(k), UNCHANGED <<probeVars, adminVars>>
    PROVE  PoolInv'
<1>1. InferenceInv'
      BY ClockInv DEF PoolInv
<1>2. DOMAIN keys' = DOMAIN keys
      BY DEF Clock, CoolingElapses
<1> QED BY <1>1, <1>2 DEF PoolInv, probeVars, adminVars, ProbeTypeOK, AdminTypeOK

LEMMA PoolCrashInv == PoolInv /\ CrashAll => PoolInv'
<1> SUFFICES ASSUME PoolInv, CrashAll PROVE PoolInv'
    OBVIOUS
<1>1. InferenceInv'
      BY CrashInv DEF PoolInv, CrashAll
<1>2. ProbeTypeOK' /\ \A p \in Probers : ppc'[p] \notin {"models", "inference"}
      BY DEF CrashAll, ProbeTypeOK, NoKey
<1>3. AdminTypeOK' /\ \A a \in Admins : apc'[a] # "update"
      BY DEF PoolInv, CrashAll, AdminTypeOK
<1>4. UNCHANGED <<keys, lastId>>
      BY DEF CrashAll, Crash
<1> QED BY <1>1, <1>2, <1>3, <1>4 DEF PoolInv

LEMMA PoolStepInv == PoolInv /\ [PoolNext]_poolVars => PoolInv'
<1> SUFFICES ASSUME PoolInv, [PoolNext]_poolVars PROVE PoolInv'
    OBVIOUS
<1>1. CASE UNCHANGED poolVars
  <2>1. InferenceInv'
        BY <1>1, InferenceStutterInv DEF poolVars, PoolInv
  <2> QED BY <1>1, <2>1
          DEF poolVars, vars, PoolInv, probeVars, adminVars, ProbeTypeOK, AdminTypeOK
<1>2. CASE PoolNext
      BY <1>2, HandlersInv, ProbeInv, AdminInv, PoolClockInv, PoolCrashInv DEF PoolNext
<1> QED BY <1>1, <1>2

\* The invariant of the pool.
THEOREM PoolInvariant == PoolSpec => []PoolInv
BY PoolInitInv, PoolStepInv, PTL DEF PoolSpec

-----------------------------------------------------------------------------
\* Types, for any number of handlers, admins and keys.
THEOREM PoolTypeCorrect == PoolSpec => []PoolTypeOK
<1>1. PoolInv => PoolTypeOK
      BY DEF PoolInv, InferenceInv, TableInv, PoolTypeOK, TypeOK
<1> QED BY PoolInvariant, <1>1, PTL

\* Promotions, activations, updates and deletions that overlap never leave two
\* active keys.
THEOREM PoolOneActiveKey == PoolSpec => []AtMostOneActive
<1>1. PoolInv => AtMostOneActive
      BY DEF PoolInv, InferenceInv, TableInv, AtMostOneActive
<1> QED BY PoolInvariant, <1>1, PTL

\* Nor do they leave a disabled key active.
THEOREM PoolActiveIsEnabled == PoolSpec => []ActiveIsEnabled
<1>1. PoolInv => ActiveIsEnabled
      BY DEF PoolInv, InferenceInv, TableInv, ActiveIsEnabled
<1> QED BY PoolInvariant, <1>1, PTL

\* No key is left cooling without the deadline that ends it.
THEOREM PoolDeadlines == PoolSpec => []DeadlineMatchesQuota
<1>1. PoolInv => DeadlineMatchesQuota
      BY DEF PoolInv, InferenceInv, TableInv, DeadlineMatchesQuota
<1> QED BY PoolInvariant, <1>1, PTL

\* Service.probe keeps tests apart.
THEOREM PoolOneTest == PoolSpec => []OneTestAtATime
<1>1. PoolInv => OneTestAtATime
      BY DEF PoolInv, OneTestAtATime
<1> QED BY PoolInvariant, <1>1, PTL
=============================================================================
