-------------------------- MODULE InferenceProofs --------------------------
(***************************************************************************)
(* The inference handlers keep InferenceInv: types, a well-formed key      *)
(* table, and what the pc of each handler says.  It follows that a handler *)
(* leaves a key only for a quota or auth failure and before any output.    *)
(***************************************************************************)
EXTENDS Inference, StoreProofs, FiniteSetTheorems

\* attemptNo is a number.
LEMMA TriedType ==
    ASSUME InferenceTypeOK, NEW s \in Slots
    PROVE  Tried(s) \in Nat
<1>1. DOMAIN pool[s] \ todo[s] \subseteq KeyIds
      BY DEF InferenceTypeOK, IsSnapshot
<1>2. IsFiniteSet(DOMAIN pool[s] \ todo[s])
      BY <1>1, InferenceAssumption, FS_Subset
<1> QED BY <1>2, FS_CardinalityType DEF Tried

\* A cancelled statement leaves the table alone.
LEMMA ExecInv ==
    ASSUME TableInv(keys), NEW s, NEW table, TableInv(table), Exec(s, table)
    PROVE  TableInv(keys')
BY DEF Exec

\* A handler that returns leaves nothing behind.
LEMMA ReturnInv ==
    ASSUME InferenceTypeOK, HandlerInv, NEW s \in Slots, pc[s] # "select",
           Return(s), UNCHANGED mu
    PROVE  InferenceTypeOK' /\ HandlerInv'
<1>1. NoSnapshot \in [{} -> SnapshotRow] /\ IsSnapshot(NoSnapshot)
      BY DEF NoSnapshot, IsSnapshot
<1>2. InferenceTypeOK'
  <2>1. DOMAIN pool' = Slots /\ \A r \in Slots : IsSnapshot(pool'[r])
        BY <1>1 DEF Return, InferenceTypeOK
  <2>2. \A r \in Slots : IsSnapshot(pool[r])' <=> IsSnapshot(pool'[r])
        BY DEF IsSnapshot
  <2> QED BY <2>1, <2>2 DEF Return, Goto, InferenceTypeOK, Steps, Verdicts
<1>3. HandlerInv'
      BY DEF Return, Goto, InferenceTypeOK, HandlerInv
<1> QED BY <1>2, <1>3

-----------------------------------------------------------------------------
\* The first state.
LEMMA InferenceInitInv == Init => InferenceInv
<1> SUFFICES ASSUME Init PROVE InferenceInv
    OBVIOUS
<1>1. TableInv(keys)
      BY StoreInitInv DEF Init
<1>2. TelemetryTypeOK
      BY DEF Init, TelemetryInit, TelemetryTypeOK, NoRow, RequestRow
<1>3. InferenceTypeOK
      BY DEF Init, InferenceInit, InferenceTypeOK, Steps, Verdicts, IsSnapshot, NoSnapshot
<1>4. HandlerInv
      BY InferenceAssumption DEF Init, InferenceInit, HandlerInv
<1> QED BY <1>1, <1>2, <1>3, <1>4 DEF InferenceInv

\* The way of a request up to the call of a key.
LEMMA SelectionInv ==
    ASSUME InferenceInv, NEW s \in Slots,
           Arrive(s) \/ Disconnect(s) \/ Begin(s) \/ Lock(s) \/ Select(s) \/ Pick(s) \/ Exhaust(s)
    PROVE  InferenceInv'
<1> USE DEF InferenceInv
<1>1. CASE Arrive(s)
  <2>1. TableInv(keys)' /\ TelemetryTypeOK'
        BY <1>1 DEF Arrive, TableInv, IsKeyTable, AtMostOneActiveIn, ActiveIsEnabledIn,
                    DeadlineMatchesQuotaIn, TelemetryTypeOK, telemetryVars
  <2>2. InferenceTypeOK' /\ HandlerInv'
        BY <1>1 DEF Arrive, Goto, UnchangedBut_pc, InferenceTypeOK, HandlerInv, Steps, IsSnapshot
  <2> QED BY <2>1, <2>2
<1>2. CASE Disconnect(s)
  <2>1. TableInv(keys)' /\ TelemetryTypeOK'
        BY <1>2 DEF Disconnect, TelemetryTypeOK, telemetryVars
  <2>2. InferenceTypeOK' /\ HandlerInv'
        BY <1>2 DEF Disconnect, InferenceTypeOK, HandlerInv, IsSnapshot
  <2> QED BY <2>1, <2>2
<1>3. CASE Begin(s)
  <2>1. TableInv(keys)' /\ TelemetryTypeOK'
        BY <1>3 DEF Begin, BeginRequest, TelemetryTypeOK, NoRow, RequestRow
  <2>2. InferenceTypeOK' /\ HandlerInv'
        BY <1>3 DEF Begin, Goto, UnchangedBut_pc, InferenceTypeOK, HandlerInv, Steps, IsSnapshot
  <2> QED BY <2>1, <2>2
<1>4. CASE Lock(s)
  <2>1. TableInv(keys)'
        BY <1>4, ExecInv, MarkHalfOpenDueInv DEF Lock
  <2>2. TelemetryTypeOK'
        BY <1>4 DEF Lock, TelemetryTypeOK, telemetryVars
  <2>3. InferenceTypeOK' /\ HandlerInv'
        BY <1>4, InferenceAssumption
        DEF Lock, Goto, UnchangedBut_pc, InferenceTypeOK, HandlerInv, Steps, IsSnapshot
  <2> QED BY <2>1, <2>2, <2>3
<1>5. CASE Select(s)
  <2> DEFINE eligible == IF gone[s] THEN {} ELSE EligibleKeys(keys)
             snapshot == [k \in eligible |-> [role     |-> keys[k].role,
                                              priority |-> keys[k].priority]]
  <2>1. TableInv(keys)' /\ TelemetryTypeOK'
        BY <1>5 DEF Select, TelemetryTypeOK, telemetryVars
  <2>2. eligible \subseteq DOMAIN keys /\ DOMAIN keys \subseteq KeyIds
        BY DEF EligibleKeys, TableInv, IsKeyTable
  <2>3. \A k \in DOMAIN keys : keys[k] \in KeyRow
        BY DEF TableInv, IsKeyTable
  <2>4. IsSnapshot(snapshot)
        BY <2>2, <2>3 DEF IsSnapshot, SnapshotRow, KeyRow
  <2>5. pool' = [pool EXCEPT ![s] = snapshot] /\ todo' = [todo EXCEPT ![s] = eligible]
        BY <1>5 DEF Select
  <2>6. DOMAIN pool' = Slots /\ \A r \in Slots : IsSnapshot(pool'[r])
        BY <2>4, <2>5 DEF InferenceTypeOK
  <2>7. InferenceTypeOK'
        BY <1>5, <2>2, <2>5, <2>6 DEF Select, Goto, InferenceTypeOK, Steps, IsSnapshot
  <2>8. HandlerInv'
        BY <1>5, InferenceAssumption DEF Select, Goto, InferenceTypeOK, HandlerInv
  <2> QED BY <2>1, <2>7, <2>8
<1>6. CASE Pick(s)
  <2>1. TableInv(keys)' /\ TelemetryTypeOK'
        BY <1>6 DEF Pick, TelemetryTypeOK, telemetryVars
  <2>2. InferenceTypeOK'
        BY <1>6 DEF Pick, Goto, InferenceTypeOK, Steps, IsSnapshot
  <2>3. HandlerInv'
        BY <1>6 DEF Pick, Goto, InferenceTypeOK, HandlerInv, KeyFailures, EndOfStream
  <2> QED BY <2>1, <2>2, <2>3
<1>7. CASE Exhaust(s)
  <2>1. TableInv(keys)' /\ TelemetryTypeOK'
        BY <1>7 DEF Exhaust, TelemetryTypeOK, telemetryVars
  <2>2. InferenceTypeOK' /\ HandlerInv'
        BY <1>7 DEF Exhaust, Goto, UnchangedBut_pc, InferenceTypeOK, HandlerInv, Steps,
                    IsSnapshot, KeyFailures, EndOfStream
  <2> QED BY <2>1, <2>2
<1> QED BY <1>1, <1>2, <1>3, <1>4, <1>5, <1>6, <1>7

\* What the upstream answers changes no table.
LEMMA UpstreamInv ==
    ASSUME InferenceInv, NEW s \in Slots, Upstream(s)
    PROVE  InferenceInv'
<1> USE DEF InferenceInv
<1>1. ASSUME NEW v \in UpstreamSays, Answer(s, v) PROVE InferenceInv'
  <2>1. TableInv(keys)' /\ TelemetryTypeOK'
        BY <1>1 DEF Answer, TelemetryTypeOK, telemetryVars
  <2>2. InferenceTypeOK'
        BY <1>1 DEF Answer, Goto, InferenceTypeOK, Steps, IsSnapshot, Verdicts
  <2>3. HandlerInv'
        BY <1>1 DEF Answer, Goto, InferenceTypeOK, HandlerInv
  <2> QED BY <2>1, <2>2, <2>3
<1>2. ASSUME NEW v \in UpstreamSays, StreamEnds(s, v) PROVE InferenceInv'
  <2>1. TableInv(keys)' /\ TelemetryTypeOK'
        BY <1>2 DEF StreamEnds, TelemetryTypeOK, telemetryVars
  <2>2. InferenceTypeOK'
        BY <1>2 DEF StreamEnds, Goto, InferenceTypeOK, Steps, IsSnapshot, Verdicts
  <2>3. HandlerInv'
        BY <1>2 DEF StreamEnds, Goto, InferenceTypeOK, HandlerInv
  <2> QED BY <2>1, <2>2, <2>3
<1>3. CASE Unreadable(s)
  <2>1. TableInv(keys)' /\ TelemetryTypeOK'
        BY <1>3 DEF Unreadable, TelemetryTypeOK, telemetryVars
  <2>2. InferenceTypeOK' /\ HandlerInv'
        BY <1>3, ReturnInv DEF Unreadable
  <2> QED BY <2>1, <2>2
<1>4. CASE FirstReadFails(s)
  <2>1. TableInv(keys)' /\ TelemetryTypeOK'
        BY <1>4 DEF FirstReadFails, TelemetryTypeOK, telemetryVars
  <2>2. InferenceTypeOK' /\ HandlerInv'
        BY <1>4 DEF FirstReadFails, Goto, InferenceTypeOK, HandlerInv, Steps, IsSnapshot, Verdicts
  <2> QED BY <2>1, <2>2
<1>5. CASE StreamStarts(s)
  <2>1. TableInv(keys)' /\ TelemetryTypeOK'
        BY <1>5 DEF StreamStarts, TelemetryTypeOK, telemetryVars
  <2>2. InferenceTypeOK' /\ HandlerInv'
        BY <1>5 DEF StreamStarts, Goto, InferenceTypeOK, HandlerInv, Steps, IsSnapshot
  <2> QED BY <2>1, <2>2
<1> QED BY <1>1, <1>2, <1>3, <1>4, <1>5 DEF Upstream

\* What the handler makes of the answer.
LEMMA ResultInv ==
    ASSUME InferenceInv, NEW s \in Slots,
           \/ \E reset \in Deadlines : RecordKeyFailure(s, reset)
           \/ Use(s) \/ Promote(s) \/ Attempt(s) \/ Finish(s)
    PROVE  InferenceInv'
<1> USE DEF InferenceInv
<1>1. ASSUME NEW reset \in Deadlines, RecordKeyFailure(s, reset) PROVE InferenceInv'
  <2>1. TableInv(keys)'
        BY <1>1, ExecInv, MarkInv DEF RecordKeyFailure
  <2>2. TelemetryTypeOK'
        BY <1>1 DEF RecordKeyFailure, TelemetryTypeOK, telemetryVars
  <2>3. InferenceTypeOK' /\ HandlerInv'
        BY <1>1 DEF RecordKeyFailure, Goto, UnchangedBut_pc, InferenceTypeOK, HandlerInv,
                    Steps, IsSnapshot
  <2> QED BY <2>1, <2>2, <2>3
<1>2. CASE Use(s)
  <2>1. TableInv(keys)'
        BY <1>2, ExecInv, MarkInv DEF Use
  <2>2. TelemetryTypeOK'
        BY <1>2 DEF Use, TelemetryTypeOK, telemetryVars
  <2>3. InferenceTypeOK' /\ HandlerInv'
        BY <1>2 DEF Use, AfterUse, Goto, UnchangedBut_pc, InferenceTypeOK, HandlerInv,
                    Steps, IsSnapshot
  <2> QED BY <2>1, <2>2, <2>3
<1>3. CASE Promote(s)
  <2>1. TableInv(keys)'
        BY <1>3, ExecInv, SetActiveInv DEF Promote
  <2>2. TelemetryTypeOK'
        BY <1>3 DEF Promote, TelemetryTypeOK, telemetryVars
  <2>3. InferenceTypeOK' /\ HandlerInv'
        BY <1>3 DEF Promote, AfterUse, Goto, UnchangedBut_pc, InferenceTypeOK, HandlerInv,
                    Steps, IsSnapshot
  <2> QED BY <2>1, <2>2, <2>3
<1>4. CASE Attempt(s)
  <2>1. TableInv(keys)'
        BY <1>4 DEF Attempt
  <2>2. TelemetryTypeOK'
    <3> DEFINE attempt == [no |-> Tried(s), key |-> cur[s], outcome |-> Outcome(verdict[s])]
    <3>1. Outcome(verdict[s]) \in {"failover", "error", "success"}
          BY DEF Outcome
    <3>2. attempt.key \in DOMAIN keys => attempt \in AttemptRow
          BY <3>1, TriedType DEF AttemptRow, TableInv, IsKeyTable
    <3>3. UNCHANGED telemetryVars \/ AddAttempt(s, attempt)
          BY <1>4 DEF Attempt
    <3> HIDE DEF attempt
    <3> QED BY <3>2, <3>3 DEF AddAttempt, TelemetryTypeOK, telemetryVars
  <2>3. InferenceTypeOK'
        BY <1>4 DEF Attempt, Goto, UnchangedBut_pc, InferenceTypeOK, Steps, IsSnapshot
  <2>4. HandlerInv'
        BY <1>4 DEF Attempt, Goto, UnchangedBut_pc, InferenceTypeOK, HandlerInv,
                    KeyFailures, EndOfStream
  <2> QED BY <2>1, <2>2, <2>3, <2>4
<1>5. CASE Finish(s)
  <2>1. TableInv(keys)'
        BY <1>5 DEF Finish
  <2>2. TelemetryTypeOK'
    <3>1. Tried(s) \in Nat
          BY TriedType
    <3>2. DOMAIN keys \subseteq KeyIds
          BY DEF TableInv, IsKeyTable
    <3> QED BY <1>5, <3>1, <3>2
            DEF Finish, FinishRequest, TelemetryTypeOK, telemetryVars, RequestRow
  <2>3. InferenceTypeOK' /\ HandlerInv'
        BY <1>5, ReturnInv DEF Finish
  <2> QED BY <2>1, <2>2, <2>3
<1> QED BY <1>1, <1>2, <1>3, <1>4, <1>5

\* A crash forgets the handlers and keeps the file.
LEMMA CrashInv == InferenceInv /\ Crash => InferenceInv'
<1> SUFFICES ASSUME InferenceInv, Crash PROVE InferenceInv'
    OBVIOUS
<1>1. TableInv(keys)' /\ TelemetryTypeOK'
      BY DEF Crash, InferenceInv, TelemetryTypeOK, telemetryVars
<1>2. InferenceTypeOK'
      BY DEF Crash, InferenceInv, InferenceTypeOK, Steps, Verdicts, IsSnapshot, NoSnapshot
<1>3. HandlerInv'
      BY InferenceAssumption DEF Crash, HandlerInv
<1> QED BY <1>1, <1>2, <1>3 DEF InferenceInv

\* Only the table notices that time passes.
LEMMA ClockInv == ASSUME InferenceInv, NEW k \in KeyIds, Clock(k) PROVE InferenceInv'
<1>1. TableInv(keys)'
      BY CoolingElapsesInv DEF InferenceInv, Clock
<1>2. TelemetryTypeOK' /\ InferenceTypeOK' /\ HandlerInv'
      BY DEF Clock, InferenceInv, inferenceVars, handlerVars, telemetryVars, TelemetryTypeOK,
             InferenceTypeOK, HandlerInv, IsSnapshot
<1> QED BY <1>1, <1>2 DEF InferenceInv

\* Every step of the handlers.
LEMMA InferenceStepInv == InferenceInv /\ InferenceStep => InferenceInv'
BY SelectionInv, UpstreamInv, ResultInv
DEF InferenceStep, Handler, Locking, Working

LEMMA InferenceStutterInv == InferenceInv /\ UNCHANGED vars => InferenceInv'
BY DEF vars, InferenceInv, inferenceVars, handlerVars, telemetryVars, TelemetryTypeOK,
       InferenceTypeOK, HandlerInv, IsSnapshot

\* The invariant of the handlers.
THEOREM InferenceInvariant == Spec => []InferenceInv
<1>1. InferenceInv /\ [Next]_vars => InferenceInv'
      BY InferenceStepInv, InferenceStutterInv, CrashInv, ClockInv DEF Next
<1> QED BY InferenceInitInv, <1>1, PTL DEF Spec

-----------------------------------------------------------------------------
\* Types, for any number of handlers and keys.
THEOREM InferenceTypeCorrect == Spec => []TypeOK
<1>1. InferenceInv => TypeOK
      BY DEF InferenceInv, TypeOK, TableInv
<1> QED BY InferenceInvariant, <1>1, PTL

\* However many handlers promote keys at once, one key at most is active.
THEOREM OneActiveKey == Spec => []AtMostOneActive
<1>1. InferenceInv => AtMostOneActive
      BY DEF InferenceInv, TableInv, AtMostOneActive
<1> QED BY InferenceInvariant, <1>1, PTL

\* No handler leaves a key without the deadline that ends its cooling.
THEOREM CoolingHasItsDeadline == Spec => []DeadlineMatchesQuota
<1>1. InferenceInv => DeadlineMatchesQuota
      BY DEF InferenceInv, TableInv, DeadlineMatchesQuota
<1> QED BY InferenceInvariant, <1>1, PTL

\* Only Pick sets cur to another key, and HandlerInv says what it knows then.
LEMMA SwitchStep ==
    ASSUME InferenceInv, [Next]_vars, NEW s \in Slots,
           cur[s] # NoKey, cur'[s] \notin {cur[s], NoKey}
    PROVE  verdict[s] \in KeyFailures /\ ~sent[s]
<1> USE DEF InferenceInv
<1>1. ASSUME NEW r \in Slots, Pick(r) PROVE verdict[s] \in KeyFailures /\ ~sent[s]
  <2>1. r = s /\ pc[s] = "pick"
        BY <1>1 DEF Pick, InferenceTypeOK
  <2> QED BY <2>1 DEF HandlerInv
<1>2. ASSUME NEW r \in Slots, Arrive(r) \/ Disconnect(r) \/ Begin(r) \/ Locking(r)
                              \/ Select(r) \/ Exhaust(r)
      PROVE  FALSE
      BY <1>2 DEF Arrive, Disconnect, Begin, Locking, Lock, Promote, Select, Exhaust,
                  UnchangedBut_pc
<1>3. ASSUME NEW r \in Slots, Upstream(r) PROVE FALSE
      BY <1>3 DEF Upstream, Answer, StreamEnds, StreamStarts, FirstReadFails, Unreadable,
                  Return, InferenceTypeOK
<1>4. ASSUME NEW r \in Slots,
             \/ \E reset \in Deadlines : RecordKeyFailure(r, reset)
             \/ Use(r) \/ Attempt(r) \/ Finish(r)
      PROVE  FALSE
      BY <1>4 DEF RecordKeyFailure, Use, Attempt, Finish, Return, UnchangedBut_pc, InferenceTypeOK
<1>5. CASE Crash
      BY <1>5 DEF Crash
<1>6. CASE \E k \in KeyIds : Clock(k)
      BY <1>6 DEF Clock, inferenceVars, handlerVars
<1>7. CASE UNCHANGED vars
      BY <1>7 DEF vars, inferenceVars, handlerVars
<1> QED BY <1>1, <1>2, <1>3, <1>4, <1>5, <1>6, <1>7 DEF Next, InferenceStep, Handler, Working

\* The proxy moves on to another key only for a quota or auth failure of the
\* one it called, and never after a part of an answer reached the client.
THEOREM FailoverIsJustified == Spec => SwitchOnlyOnKeyFailure
<1>1. InferenceInv /\ [Next]_vars =>
        [\A s \in Slots :
           cur[s] # NoKey /\ cur'[s] \notin {cur[s], NoKey}
              => verdict[s] \in KeyFailures /\ ~sent[s]]_vars
      BY SwitchStep
<1> QED BY InferenceInvariant, <1>1, PTL DEF Spec, SwitchOnlyOnKeyFailure
=============================================================================
