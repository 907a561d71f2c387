---------------------------- MODULE RecordProofs ----------------------------
(***************************************************************************)
(* What the rows of a request say of its handler.  A row that a handler    *)
(* closes agrees with the attempts it left, and a handler that gives up    *)
(* has a failover on record for every key it could try, with admins that   *)
(* create and delete keys meanwhile, clients that leave and crashes.       *)
(***************************************************************************)
EXTENDS KeyPoolProofs

Unanswered == KeyFailures \cup {"none"}

\* The attempt of the key called last is still to be recorded, or was.
Pending(s) == \/ pc[s] \in {"call", "stream", "record", "attempt"}
              \/ pc[s] \in {"used", "promote"} /\ verdict[s] # "answered"
Recorded(s) == \/ pc[s] = "finish"
               \/ pc[s] \in {"used", "promote"} /\ verdict[s] = "answered"

\* The row of slot s agrees with its attempts: RowsTellTheAttempts at s.
RowAgrees(s) ==
    /\ requests[s].state = "success" /\ requests[s].final # NoKey =>
          [no |-> requests[s].count, key |-> requests[s].final, outcome |-> "success"]
              \in attempts[s]
    /\ requests[s].state = "error" => \A a \in attempts[s] : a.outcome # "success"
    /\ requests[s].state # "open" =>
          \A a \in attempts[s] : /\ a.no <= requests[s].count
                                 /\ a.no < requests[s].count => a.outcome = "failover"

\* From BeginRequest to FinishRequest the row is open, unless the client had
\* left before it: then there is none and nothing refers to it.
RowIsOpen(s) ==
    /\ requests[s].state = "none" => attempts[s] = {}
    /\ pc[s] \notin {"idle", "begin"} =>
          requests[s].state = "open" \/ (requests[s].state = "none" /\ gone[s])

\* What pc says of the snapshot and of the last call.
CallIsKnown(s) ==
    /\ todo[s] \subseteq DOMAIN pool[s]
    /\ cur[s] \in DOMAIN pool[s] \cup {NoKey}
    /\ pc[s] \in {"idle", "begin", "lock", "select"} => verdict[s] = "none"
    /\ pc[s] \in {"lock", "select"} => attempts[s] = {}
    /\ pc[s] = "pick" => verdict[s] \in Unanswered
    /\ pc[s] = "record" => verdict[s] \in KeyFailures \cup {"late"}
    /\ pc[s] \in {"used", "promote", "attempt"} => verdict[s] # "none"
    /\ pc[s] = "finish" /\ verdict[s] \in Unanswered => todo[s] = {}

\* Attempts are numbered by the keys tried, and all before the last call are
\* failovers.
AttemptsInOrder(s) ==
    /\ pc[s] = "pick" =>
          \A a \in attempts[s] : a.no <= Tried(s) /\ a.outcome = "failover"
    /\ Pending(s) =>
          \A a \in attempts[s] : a.no < Tried(s) /\ a.outcome = "failover"
    /\ Recorded(s) =>
          /\ \A a \in attempts[s] :
                /\ a.no <= Tried(s)
                /\ a.no < Tried(s) => a.outcome = "failover"
                /\ Outcome(verdict[s]) # "success" => a.outcome # "success"
          /\ Outcome(verdict[s]) = "success" /\ ~gone[s] /\ cur[s] \in DOMAIN keys =>
                [no |-> Tried(s), key |-> cur[s], outcome |-> "success"] \in attempts[s]

\* Key k has a failover on record, or nobody can tell any more.
Failed(s, k) == \/ k \notin DOMAIN keys
                \/ gone[s]
                \/ \E a \in attempts[s] : a.key = k /\ a.outcome = "failover"

\* Every key of the snapshot that was called and is not the one at hand failed.
TriedHaveFailed(s) ==
    \A k \in DOMAIN pool[s] \ (todo[s] \cup Undecryptable) :
        /\ pc[s] = "pick" => Failed(s, k)
        /\ Pending(s) /\ k # cur[s] => Failed(s, k)
        /\ pc[s] = "finish" /\ verdict[s] \in Unanswered => Failed(s, k)

SlotInv(s) == /\ RowAgrees(s)
              /\ RowIsOpen(s)
              /\ CallIsKnown(s)
              /\ AttemptsInOrder(s)
              /\ TriedHaveFailed(s)

RecordInv == \A s \in Slots : SlotInv(s)

-----------------------------------------------------------------------------
\* A step that leaves slot s alone and brings none of its keys back.
SlotUnchanged(s) ==
    /\ pc'[s] = pc[s] /\ pool'[s] = pool[s] /\ todo'[s] = todo[s] /\ cur'[s] = cur[s]
    /\ verdict'[s] = verdict[s] /\ gone'[s] = gone[s]

KeysStayGone(s) == \A k \in DOMAIN pool[s] : k \in DOMAIN keys' => k \in DOMAIN keys

\* Such a step, if it also leaves the rows alone, keeps what is known of s.
LEMMA SlotFrame ==
    ASSUME NEW s \in Slots, SlotInv(s), TableInv(keys'),
           SlotUnchanged(s), KeysStayGone(s),
           requests'[s] = requests[s], attempts'[s] = attempts[s]
    PROVE  SlotInv(s)'
<1> USE DEF SlotUnchanged, SlotInv
<1>1. RowAgrees(s)' /\ RowIsOpen(s)'
      BY DEF RowAgrees, RowIsOpen
<1>2. CallIsKnown(s)'
      BY DEF CallIsKnown
<1>3. Tried(s)' = Tried(s) /\ (Pending(s)' <=> Pending(s)) /\ (Recorded(s)' <=> Recorded(s))
      BY DEF Tried, Pending, Recorded
<1>4. NoKey \notin DOMAIN keys'
      BY StoreAssumption DEF TableInv, IsKeyTable, NoKey
<1>5. AttemptsInOrder(s)'
      BY <1>3, <1>4 DEF AttemptsInOrder, KeysStayGone, CallIsKnown
<1>6. TriedHaveFailed(s)'
  <2>1. ASSUME NEW k \in DOMAIN pool[s], Failed(s, k) PROVE Failed(s, k)'
        BY <2>1 DEF Failed, KeysStayGone
  <2> QED BY <1>3, <2>1 DEF TriedHaveFailed
<1> QED BY <1>1, <1>2, <1>5, <1>6

\* One more key is tried.
LEMMA TriedRises ==
    ASSUME InferenceTypeOK, NEW s \in Slots, NEW k \in todo[s], todo[s] \subseteq DOMAIN pool[s],
           pool' = pool, todo' = [todo EXCEPT ![s] = @ \ {k}]
    PROVE  Tried(s)' = Tried(s) + 1 /\ Tried(s) \in Nat
<1> DEFINE T == DOMAIN pool[s] \ todo[s]
<1>1. T \subseteq KeyIds /\ k \notin T
      BY DEF InferenceTypeOK, IsSnapshot
<1>2. IsFiniteSet(T)
      BY <1>1, InferenceAssumption, FS_Subset
<1>3. DOMAIN pool'[s] \ todo'[s] = T \cup {k}
      BY DEF InferenceTypeOK
<1>4. Cardinality(T \cup {k}) = Cardinality(T) + 1
      BY <1>1, <1>2, FS_AddElement
<1> QED BY <1>3, <1>4, TriedType DEF Tried

\* Attempt numbers are numbers.
LEMMA AttemptTypes ==
    ASSUME TelemetryTypeOK, NEW s \in Slots
    PROVE  /\ attempts[s] \subseteq AttemptRow /\ requests[s] \in RequestRow
           /\ \A a \in attempts[s] : a.no \in Nat
BY DEF TelemetryTypeOK, AttemptRow

-----------------------------------------------------------------------------
\* A handler touches no other slot.
LEMMA OtherSlots ==
    ASSUME InferenceInv, NEW r \in Slots, NEW s \in Slots, r # s,
           Arrive(r) \/ Disconnect(r) \/ Handler(r)
    PROVE  SlotUnchanged(s) /\ requests'[s] = requests[s] /\ attempts'[s] = attempts[s]
<1> USE DEF InferenceInv, InferenceTypeOK, TelemetryTypeOK, telemetryVars, SlotUnchanged, Goto,
            UnchangedBut_pc
<1>1. CASE Arrive(r) \/ Disconnect(r) \/ Locking(r)
      BY <1>1 DEF Arrive, Disconnect, Locking, Lock, Promote
<1>2. CASE Upstream(r)
  <2>1. ASSUME NEW v \in UpstreamSays, Answer(r, v) \/ StreamEnds(r, v)
        PROVE  SlotUnchanged(s) /\ UNCHANGED telemetryVars
        BY <2>1 DEF Answer, StreamEnds
  <2>2. CASE Unreadable(r)
        BY <2>2 DEF Unreadable, Return
  <2>3. CASE FirstReadFails(r) \/ StreamStarts(r)
        BY <2>3 DEF FirstReadFails, StreamStarts
  <2> QED BY <1>2, <2>1, <2>2, <2>3 DEF Upstream
<1>3. CASE Begin(r) \/ Select(r) \/ Pick(r) \/ Exhaust(r)
  <2>1. CASE Begin(r)
        BY <2>1 DEF Begin, BeginRequest
  <2>2. CASE Select(r)
        BY <2>2 DEF Select
  <2>3. CASE Pick(r) \/ Exhaust(r)
        BY <2>3 DEF Pick, Exhaust
  <2> QED BY <1>3, <2>1, <2>2, <2>3
<1>4. CASE \/ \E reset \in Deadlines : RecordKeyFailure(r, reset)
           \/ Use(r) \/ Attempt(r) \/ Finish(r)
  <2>1. ASSUME NEW reset \in Deadlines, RecordKeyFailure(r, reset)
        PROVE  SlotUnchanged(s) /\ UNCHANGED telemetryVars
        BY <2>1 DEF RecordKeyFailure
  <2>2. CASE Use(r)
        BY <2>2 DEF Use
  <2>3. CASE Attempt(r)
        BY <2>3 DEF Attempt, AddAttempt
  <2>4. CASE Finish(r)
        BY <2>4 DEF Finish, FinishRequest, Return
  <2> QED BY <1>4, <2>1, <2>2, <2>3, <2>4
<1> QED BY <1>1, <1>2, <1>3, <1>4 DEF Handler, Working

-----------------------------------------------------------------------------
(* What the handler of slot s does to its own rows and counts. *)

\* A step of pc alone changes neither the count nor what failed.
LEMMA SameSnapshot ==
    ASSUME NEW s \in Slots, UNCHANGED <<pool, todo, cur, gone, telemetryVars>>,
           DOMAIN keys' = DOMAIN keys
    PROVE  /\ Tried(s)' = Tried(s)
           /\ \A k : Failed(s, k)' <=> Failed(s, k)
           /\ RowAgrees(s)' <=> RowAgrees(s)
BY DEF Tried, Failed, RowAgrees, telemetryVars

\* Which verdicts are written down as what.
LEMMA Outcomes ==
    ASSUME NEW v
    PROVE  /\ v \in KeyFailures => Outcome(v) = "failover"
           /\ v = "none" => Outcome(v) = "error"
           /\ v = "answered" => Outcome(v) = "success"
           /\ v \in Unanswered => Outcome(v) # "success"
           /\ v = "late" => Outcome(v) = "error"
<1>1. v \in KeyFailures => Outcome(v) = "failover"
      BY DEF Outcome, KeyFailures
<1>2. v = "none" => Outcome(v) = "error"
      BY DEF Outcome, KeyFailures
<1>3. v = "answered" => Outcome(v) = "success"
      BY DEF Outcome, KeyFailures
<1>4. v = "late" => Outcome(v) = "error"
      BY DEF Outcome, KeyFailures
<1> QED BY <1>1, <1>2, <1>3, <1>4 DEF Unanswered

\* Up to the choice of a key.
LEMMA SelectionRecord ==
    ASSUME InferenceInv, NEW s \in Slots, SlotInv(s), DOMAIN keys' = DOMAIN keys,
           Arrive(s) \/ Disconnect(s) \/ Begin(s) \/ Lock(s) \/ Select(s) \/ Exhaust(s)
    PROVE  SlotInv(s)'
<1> USE DEF InferenceInv, InferenceTypeOK, SlotInv
<1>1. CASE Arrive(s)
  <2>1. UNCHANGED <<pool, todo, cur, gone, telemetryVars>> /\ pc' = [pc EXCEPT ![s] = "begin"]
        BY <1>1 DEF Arrive, Goto, UnchangedBut_pc
  <2>2. RowAgrees(s)'
        BY <2>1, SameSnapshot
  <2>3. RowIsOpen(s)' /\ CallIsKnown(s)' /\ AttemptsInOrder(s)' /\ TriedHaveFailed(s)'
        BY <1>1, <2>1 DEF Arrive, Goto, UnchangedBut_pc, telemetryVars, RowIsOpen, CallIsKnown,
                          AttemptsInOrder, TriedHaveFailed, Pending, Recorded
  <2> QED BY <2>2, <2>3
<1>2. CASE Disconnect(s)
  <2>1. /\ UNCHANGED <<telemetryVars, pc, pool, todo, cur, verdict>>
        /\ gone' = [gone EXCEPT ![s] = TRUE]
        BY <1>2 DEF Disconnect
  <2>2. RowAgrees(s)' /\ RowIsOpen(s)' /\ CallIsKnown(s)'
        BY <2>1 DEF RowAgrees, RowIsOpen, CallIsKnown, telemetryVars
  <2>3. AttemptsInOrder(s)'
    <3>1. Tried(s)' = Tried(s) /\ (Pending(s)' <=> Pending(s)) /\ (Recorded(s)' <=> Recorded(s))
          BY <2>1 DEF Tried, Pending, Recorded
    <3> QED BY <2>1, <3>1 DEF AttemptsInOrder, telemetryVars
  <2>4. TriedHaveFailed(s)'
        BY <2>1 DEF TriedHaveFailed, Failed
  <2> QED BY <2>2, <2>3, <2>4
<1>3. CASE Begin(s)
  <2>1. /\ pc' = [pc EXCEPT ![s] = "lock"] /\ pc[s] = "begin"
        /\ UNCHANGED <<pool, todo, cur, verdict, gone>>
        /\ attempts' = [attempts EXCEPT ![s] = {}]
        /\ \/ requests'[s].state = "open"
           \/ requests'[s].state = "none" /\ gone[s]
        BY <1>3 DEF Begin, BeginRequest, Goto, UnchangedBut_pc, NoRow, TelemetryTypeOK
  <2>2. attempts'[s] = {}
        BY <2>1 DEF TelemetryTypeOK
  <2> QED BY <2>1, <2>2 DEF RowAgrees, RowIsOpen, CallIsKnown, AttemptsInOrder, TriedHaveFailed,
                            Pending, Recorded
<1>4. CASE Lock(s)
  <2>1. /\ UNCHANGED <<pool, todo, cur, gone, verdict, telemetryVars>>
        /\ pc' = [pc EXCEPT ![s] = "select"] /\ pc[s] = "lock"
        BY <1>4 DEF Lock, Goto, UnchangedBut_pc
  <2>2. RowAgrees(s)'
        BY <2>1, SameSnapshot
  <2>3. RowIsOpen(s)' /\ CallIsKnown(s)' /\ AttemptsInOrder(s)' /\ TriedHaveFailed(s)'
        BY <2>1 DEF telemetryVars, RowIsOpen, CallIsKnown, AttemptsInOrder, TriedHaveFailed,
                    Pending, Recorded
  <2> QED BY <2>2, <2>3
<1>5. CASE Select(s)
  <2> DEFINE eligible == IF gone[s] THEN {} ELSE EligibleKeys(keys)
  <2>1. /\ UNCHANGED <<cur, gone, verdict, telemetryVars>> /\ pc[s] = "select"
        /\ pc' = [pc EXCEPT ![s] = IF eligible = {} THEN "finish" ELSE "pick"]
        /\ todo' = [todo EXCEPT ![s] = eligible]
        BY <1>5 DEF Select, Goto
  <2>2. DOMAIN pool'[s] = eligible
        BY <1>5 DEF Select
  <2>3. attempts'[s] = {} /\ verdict'[s] = "none" /\ todo'[s] = eligible /\ cur'[s] = NoKey
        BY <2>1 DEF CallIsKnown, telemetryVars, HandlerInv
  <2>4. RowAgrees(s)' /\ RowIsOpen(s)'
        BY <2>1 DEF RowAgrees, RowIsOpen, telemetryVars
  <2>5. CallIsKnown(s)' /\ TriedHaveFailed(s)'
        BY <2>1, <2>2, <2>3 DEF CallIsKnown, TriedHaveFailed, Unanswered, Pending
  <2>6. AttemptsInOrder(s)'
        BY <2>1, <2>3, Outcomes DEF AttemptsInOrder
  <2> QED BY <2>4, <2>5, <2>6
<1>6. CASE Exhaust(s)
  <2>1. /\ UNCHANGED <<pool, todo, cur, gone, verdict, telemetryVars>>
        /\ pc' = [pc EXCEPT ![s] = "finish"] /\ pc[s] = "pick" /\ todo[s] = {}
        BY <1>6 DEF Exhaust, Goto, UnchangedBut_pc
  <2>2. /\ RowAgrees(s)' /\ Tried(s)' = Tried(s) /\ pc'[s] = "finish"
        /\ \A k : Failed(s, k)' <=> Failed(s, k)
        BY <2>1, SameSnapshot
  <2>3. RowIsOpen(s)' /\ CallIsKnown(s)'
        BY <2>1 DEF telemetryVars, RowIsOpen, CallIsKnown
  <2>4. AttemptsInOrder(s)'
    <3>1. Outcome(verdict[s]) # "success"
          BY <2>1, Outcomes DEF CallIsKnown
    <3> QED BY <2>1, <2>2, <3>1 DEF AttemptsInOrder, Pending, telemetryVars
  <2>5. TriedHaveFailed(s)'
        BY <2>1, <2>2 DEF TriedHaveFailed, Pending, CallIsKnown
  <2> QED BY <2>2, <2>3, <2>4, <2>5
<1> QED BY <1>1, <1>2, <1>3, <1>4, <1>5, <1>6

\* A key is called or skipped: the attempts on record all come before it.
LEMMA PickRecord ==
    ASSUME InferenceInv, NEW s \in Slots, SlotInv(s), Pick(s)
    PROVE  SlotInv(s)'
<1> USE DEF InferenceInv, InferenceTypeOK, SlotInv
<1>1. PICK k \in todo[s] :
        /\ todo' = [todo EXCEPT ![s] = @ \ {k}]
        /\ IF k \in Undecryptable
           THEN UNCHANGED <<pc, cur>>
           ELSE Goto(s, "call") /\ cur' = [cur EXCEPT ![s] = k]
      BY DEF Pick
<1>2. pc[s] = "pick" /\ UNCHANGED <<keys, telemetryVars, pool, verdict, gone>>
      BY DEF Pick
<1>3. Tried(s)' = Tried(s) + 1 /\ Tried(s) \in Nat
      BY <1>1, <1>2, TriedRises DEF CallIsKnown
<1>4. RowAgrees(s)'
      BY <1>2 DEF RowAgrees, telemetryVars
<1>5. \/ k \in Undecryptable /\ UNCHANGED <<pc, cur>>
      \/ k \notin Undecryptable /\ pc'[s] = "call" /\ cur'[s] = k
      BY <1>1 DEF Goto
<1>6. RowIsOpen(s)'
      BY <1>2, <1>5 DEF RowIsOpen, telemetryVars
<1>7. CallIsKnown(s)'
      BY <1>1, <1>2, <1>5 DEF CallIsKnown
<1>8. AttemptsInOrder(s)'
  <2>1. \A a \in attempts'[s] : a.no \in Nat /\ a.no <= Tried(s) /\ a.outcome = "failover"
        BY <1>2, AttemptTypes DEF AttemptsInOrder, telemetryVars
  <2>2. \A a \in attempts'[s] : a.no < Tried(s)' /\ a.no <= Tried(s)'
        BY <1>3, <2>1
  <2> QED BY <1>2, <1>5, <2>1, <2>2 DEF AttemptsInOrder, Recorded
<1>9. TriedHaveFailed(s)'
  <2>1. \A j : Failed(s, j)' <=> Failed(s, j)
        BY <1>2 DEF Failed, telemetryVars
  <2> QED BY <1>1, <1>2, <1>5, <2>1 DEF TriedHaveFailed, Pending
<1> QED BY <1>4, <1>6, <1>7, <1>8, <1>9

\* The answer of the upstream leaves the attempt of the call to be recorded.
LEMMA AnswerRecord ==
    ASSUME InferenceInv, NEW s \in Slots, SlotInv(s), Upstream(s), ~Unreadable(s)
    PROVE  SlotInv(s)'
<1> USE DEF InferenceInv, InferenceTypeOK, SlotInv
<1>1. /\ UNCHANGED <<keys, telemetryVars, pool, todo, cur, gone>>
      /\ pc[s] \in {"call", "stream"}
      /\ \/ pc'[s] = "stream"
         \/ pc'[s] = "record" /\ verdict'[s] \in KeyFailures \cup {"late"}
         \/ pc'[s] = "used" /\ verdict'[s] \notin {"answered", "none"}
         \/ pc'[s] = "attempt" /\ verdict'[s] # "none"
  <2>1. ASSUME NEW v \in UpstreamSays, Answer(s, v) PROVE <1>1
        BY <2>1 DEF Answer, Goto, PlainVerdicts, KeyFailures
  <2>2. ASSUME NEW v \in UpstreamSays, StreamEnds(s, v) PROVE <1>1
        BY <2>2 DEF StreamEnds, Goto, EndOfStream
  <2>3. CASE FirstReadFails(s) \/ StreamStarts(s)
        BY <2>3 DEF FirstReadFails, StreamStarts, Goto
  <2> QED BY <2>1, <2>2, <2>3 DEF Upstream
<1>2. Pending(s) /\ Pending(s)' /\ ~Recorded(s)'
      BY <1>1 DEF Pending, Recorded
<1>3. /\ Tried(s)' = Tried(s) /\ RowAgrees(s)'
      /\ \A k : Failed(s, k)' <=> Failed(s, k)
      BY <1>1, SameSnapshot
<1>4. RowIsOpen(s)' /\ CallIsKnown(s)'
      BY <1>1 DEF RowIsOpen, CallIsKnown, telemetryVars
<1>5. AttemptsInOrder(s)' /\ TriedHaveFailed(s)'
      BY <1>1, <1>2, <1>3 DEF AttemptsInOrder, TriedHaveFailed, telemetryVars
<1> QED BY <1>3, <1>4, <1>5

-----------------------------------------------------------------------------
\* A handler that returns leaves its rows, and nothing else.
LEMMA ReturnRecord ==
    ASSUME InferenceTypeOK, NEW s \in Slots, Return(s), RowAgrees(s)',
           requests'[s].state = "none" => attempts'[s] = {}
    PROVE  SlotInv(s)'
<1>1. /\ pc'[s] = "idle" /\ DOMAIN pool'[s] = {} /\ todo'[s] = {} /\ cur'[s] = NoKey
      /\ verdict'[s] = "none"
      BY DEF Return, Goto, InferenceTypeOK, NoSnapshot
<1> QED BY <1>1 DEF SlotInv, RowIsOpen, CallIsKnown, AttemptsInOrder, TriedHaveFailed,
                    Pending, Recorded

\* A body that cannot be read: the row stays open.
LEMMA UnreadableRecord ==
    ASSUME InferenceInv, NEW s \in Slots, SlotInv(s), Unreadable(s)
    PROVE  SlotInv(s)'
<1>1. RowAgrees(s)' /\ (requests'[s].state = "none" => attempts'[s] = {})
      BY DEF Unreadable, SlotInv, RowAgrees, RowIsOpen, telemetryVars
<1> QED BY <1>1, ReturnRecord DEF Unreadable, InferenceInv

\* The steps that change the key table: the attempt at hand stays at hand, or
\* it is on record already.
LEMMA MarkRecord ==
    ASSUME InferenceInv, NEW s \in Slots, SlotInv(s), DOMAIN keys' = DOMAIN keys,
           \/ \E reset \in Deadlines : RecordKeyFailure(s, reset)
           \/ Use(s) \/ Promote(s)
    PROVE  SlotInv(s)'
<1> USE DEF InferenceInv, InferenceTypeOK, SlotInv
<1>1. /\ UNCHANGED <<telemetryVars, pool, todo, cur, gone, verdict>>
      /\ \/ /\ pc[s] = "record" /\ pc'[s] = "attempt"
         \/ /\ pc[s] \in {"used", "promote"} /\ verdict[s] = "answered"
            /\ pc'[s] \in {"promote", "finish"}
         \/ /\ pc[s] \in {"used", "promote"} /\ verdict[s] # "answered"
            /\ pc'[s] \in {"promote", "attempt"}
  <2>1. ASSUME NEW reset \in Deadlines, RecordKeyFailure(s, reset) PROVE <1>1
        BY <2>1 DEF RecordKeyFailure, Goto, UnchangedBut_pc
  <2>2. CASE Use(s)
        BY <2>2 DEF Use, AfterUse, Goto, UnchangedBut_pc
  <2>3. CASE Promote(s)
        BY <2>3 DEF Promote, AfterUse, Goto, UnchangedBut_pc
  <2> QED BY <2>1, <2>2, <2>3
<1>2. (Pending(s)' <=> Pending(s)) /\ (Recorded(s)' <=> Recorded(s))
      BY <1>1 DEF Pending, Recorded
<1>3. /\ Tried(s)' = Tried(s) /\ RowAgrees(s)'
      /\ \A k : Failed(s, k)' <=> Failed(s, k)
      BY <1>1, SameSnapshot
<1>4. verdict[s] # "none" /\ (pc'[s] = "finish" => verdict[s] \notin Unanswered)
      BY <1>1 DEF CallIsKnown, KeyFailures, Unanswered
<1>5. RowIsOpen(s)' /\ CallIsKnown(s)'
      BY <1>1, <1>4 DEF RowIsOpen, CallIsKnown, telemetryVars
<1>6. AttemptsInOrder(s)'
      BY <1>1, <1>2, <1>3 DEF AttemptsInOrder, telemetryVars
<1>7. TriedHaveFailed(s)'
      BY <1>1, <1>2, <1>3, <1>4 DEF TriedHaveFailed
<1> QED BY <1>3, <1>5, <1>6, <1>7

\* The attempt of the call is recorded, unless the client has left or the key
\* is gone.
LEMMA AttemptRecord ==
    ASSUME InferenceInv, NEW s \in Slots, SlotInv(s), Attempt(s)
    PROVE  SlotInv(s)'
<1> USE DEF InferenceInv, InferenceTypeOK, SlotInv
<1> DEFINE new == [no |-> Tried(s), key |-> cur[s], outcome |-> Outcome(verdict[s])]
<1>1. /\ UNCHANGED <<keys, requests, pool, todo, cur, gone, verdict>>
      /\ pc[s] = "attempt" /\ Pending(s)
      BY DEF Attempt, UnchangedBut_pc, Pending, telemetryVars, AddAttempt
<1>2. /\ attempts[s] \subseteq attempts'[s] /\ attempts'[s] \subseteq attempts[s] \cup {new}
      /\ gone[s] => attempts'[s] = attempts[s]
      /\ ~gone[s] /\ cur[s] \in DOMAIN keys => new \in attempts'[s]
  <2>1. CASE gone[s]
        BY <2>1 DEF Attempt, telemetryVars
  <2>2. CASE ~gone[s]
    <3>1. AddAttempt(s, new)
          BY <2>2 DEF Attempt
    <3>2. requests[s].state # "none" /\ new.key = cur[s]
          BY <1>1, <2>2 DEF RowIsOpen
    <3> HIDE DEF new
    <3> QED BY <2>2, <3>1, <3>2 DEF AddAttempt, TelemetryTypeOK
  <2> QED BY <2>1, <2>2
<1>3. \/ pc'[s] = "pick" /\ verdict[s] \in KeyFailures
      \/ pc'[s] = "used" /\ verdict[s] = "answered"
      \/ pc'[s] = "finish" /\ verdict[s] \notin KeyFailures
  <2>1. CASE verdict[s] \in KeyFailures
        BY <2>1 DEF Attempt, Goto
  <2>2. CASE verdict[s] = "answered"
        BY <2>2 DEF Attempt, Goto, KeyFailures
  <2>3. CASE verdict[s] \notin KeyFailures \cup {"answered"}
        BY <2>3 DEF Attempt, Goto, KeyFailures
  <2> QED BY <2>1, <2>2, <2>3
<1>4. /\ new.no = Tried(s) /\ new.key = cur[s] /\ new.outcome = Outcome(verdict[s])
      /\ Tried(s) \in Nat /\ \A a \in attempts[s] : a.no \in Nat
      BY TriedType, AttemptTypes
<1> HIDE DEF new
<1>5. verdict[s] # "none"
      BY <1>1 DEF CallIsKnown
<1>6. \A a \in attempts[s] : a.no < Tried(s) /\ a.outcome = "failover"
      BY <1>1 DEF AttemptsInOrder
<1>7. Tried(s)' = Tried(s)
      BY <1>1 DEF Tried
<1>8. RowAgrees(s)' /\ RowIsOpen(s)'
      BY <1>1, <1>2, <1>3 DEF RowAgrees, RowIsOpen
<1>9. CallIsKnown(s)'
      BY <1>1, <1>3, <1>5 DEF CallIsKnown, Unanswered
<1>10. AttemptsInOrder(s)'
  <2>1. \A a \in attempts'[s] : /\ a.no <= Tried(s)
                                /\ a.no < Tried(s) => a.outcome = "failover"
                                /\ a.outcome \in {"failover", Outcome(verdict[s])}
        BY <1>2, <1>4, <1>6
  <2>2. CASE pc'[s] = "pick"
    <3>1. Outcome(verdict[s]) = "failover"
          BY <1>3, <2>2, Outcomes
    <3>2. ~Pending(s)' /\ ~Recorded(s)'
          BY <2>2 DEF Pending, Recorded
    <3> QED BY <1>7, <2>1, <2>2, <3>1, <3>2 DEF AttemptsInOrder
  <2>3. CASE pc'[s] \in {"used", "finish"}
    <3>1. ~Pending(s)'
          BY <1>1, <1>3, <2>3 DEF Pending
    <3>2. Outcome(verdict[s]) = "success" /\ ~gone[s] /\ cur[s] \in DOMAIN keys =>
             [no |-> Tried(s), key |-> cur[s], outcome |-> "success"] \in attempts'[s]
          BY <1>2 DEF new
    <3>3. Outcome(verdict[s])' = Outcome(verdict[s])
          BY <1>1
    <3> QED BY <1>1, <1>7, <2>1, <2>3, <3>1, <3>2, <3>3 DEF AttemptsInOrder
  <2> QED BY <1>3, <2>2, <2>3
<1>11. TriedHaveFailed(s)'
  <2>1. ASSUME NEW k \in DOMAIN pool[s] \ (todo[s] \cup Undecryptable), pc'[s] = "pick"
        PROVE  Failed(s, k)'
    <3>1. CASE k = cur[s]
          BY <1>1, <1>2, <1>3, <1>4, <2>1, <3>1, Outcomes DEF Failed
    <3>2. CASE k # cur[s]
          BY <1>1, <1>2, <3>2 DEF TriedHaveFailed, Failed
    <3> QED BY <3>1, <3>2
  <2> QED BY <1>1, <1>3, <1>5, <2>1 DEF TriedHaveFailed, Pending, Unanswered
<1> QED BY <1>8, <1>9, <1>10, <1>11

\* The row is closed with what the attempts say.
LEMMA FinishRecord ==
    ASSUME InferenceInv, NEW s \in Slots, SlotInv(s), Finish(s)
    PROVE  SlotInv(s)'
<1> USE DEF InferenceInv, InferenceTypeOK, SlotInv
<1>1. pc[s] = "finish" /\ Recorded(s) /\ attempts' = attempts /\ Return(s)
      BY DEF Finish, Recorded, FinishRequest, telemetryVars
<1>2. \/ requests'[s] = requests[s]
      \/ /\ ~gone[s] /\ cur[s] \in DOMAIN keys \cup {NoKey}
         /\ requests'[s] = [state |-> IF Outcome(verdict[s]) = "success"
                                      THEN "success" ELSE "error",
                            final |-> cur[s], count |-> Tried(s)]
      BY DEF Finish, FinishRequest, telemetryVars, TelemetryTypeOK
<1>3. RowAgrees(s)'
  <2>1. CASE requests'[s] = requests[s]
        BY <1>1, <2>1 DEF RowAgrees
  <2>2. CASE requests'[s] # requests[s]
        BY <1>1, <1>2, <2>2 DEF RowAgrees, AttemptsInOrder
  <2> QED BY <2>1, <2>2
<1>4. requests'[s].state = "none" => attempts'[s] = {}
      BY <1>1, <1>2 DEF RowIsOpen
<1> QED BY <1>1, <1>3, <1>4, ReturnRecord

\* Every step of every handler.
LEMMA RecordStep ==
    ASSUME InferenceInv, RecordInv, InferenceStep
    PROVE  RecordInv'
<1>1. PICK r \in Slots : Arrive(r) \/ Disconnect(r) \/ Handler(r)
      BY DEF InferenceStep
<1>2. DOMAIN keys' = DOMAIN keys /\ InferenceInv'
      BY HandlersDomain, InferenceStepInv
<1>3. ASSUME NEW s \in Slots, s # r PROVE SlotInv(s)'
  <2>1. SlotUnchanged(s) /\ requests'[s] = requests[s] /\ attempts'[s] = attempts[s]
        BY <1>1, <1>3, OtherSlots
  <2> QED BY <1>2, <2>1, SlotFrame DEF RecordInv, KeysStayGone, InferenceInv
<1>4. SlotInv(r)
      BY DEF RecordInv
<1>5. SlotInv(r)'
  <2>1. CASE Arrive(r) \/ Disconnect(r) \/ Begin(r) \/ Lock(r) \/ Select(r) \/ Exhaust(r)
        BY <1>2, <1>4, <2>1, SelectionRecord
  <2>2. CASE Pick(r) \/ Attempt(r) \/ Finish(r) \/ Upstream(r)
        BY <1>4, <2>2, PickRecord, AttemptRecord, FinishRecord, AnswerRecord, UnreadableRecord
  <2>3. CASE \/ \E reset \in Deadlines : RecordKeyFailure(r, reset)
             \/ Use(r) \/ Promote(r)
        BY <1>2, <1>4, <2>3, MarkRecord
  <2> QED BY <1>1, <2>1, <2>2, <2>3 DEF Handler, Locking, Working
<1> QED BY <1>3, <1>5 DEF RecordInv

-----------------------------------------------------------------------------
(* The handlers by themselves. *)

\* At the start nothing is on record.
LEMMA RecordInitInv == Init => RecordInv
BY DEF Init, TelemetryInit, NoRow, InferenceInit, NoSnapshot, RecordInv, SlotInv, RowAgrees,
       RowIsOpen, CallIsKnown, AttemptsInOrder, TriedHaveFailed, Pending, Recorded

\* A crash closes no row: it leaves the ones of its handlers open.
LEMMA RecordCrash == RecordInv /\ Crash => RecordInv'
<1> SUFFICES ASSUME RecordInv, Crash, NEW s \in Slots PROVE SlotInv(s)'
    BY DEF RecordInv
<1>1. /\ pc'[s] = "idle" /\ DOMAIN pool'[s] = {} /\ todo'[s] = {} /\ cur'[s] = NoKey
      /\ verdict'[s] = "none"
      BY DEF Crash, NoSnapshot
<1>2. RowAgrees(s)' /\ (requests'[s].state = "none" => attempts'[s] = {})
      BY DEF Crash, telemetryVars, RecordInv, SlotInv, RowAgrees, RowIsOpen
<1> QED BY <1>1, <1>2 DEF SlotInv, RowIsOpen, CallIsKnown, AttemptsInOrder, TriedHaveFailed,
                          Pending, Recorded

\* A step of somebody else that leaves the rows alone.
LEMMA RecordFrame ==
    ASSUME RecordInv, UNCHANGED <<telemetryVars, inferenceVars>>, TableInv(keys'),
           \A s \in Slots : KeysStayGone(s)
    PROVE  RecordInv'
<1> SUFFICES ASSUME NEW s \in Slots PROVE SlotInv(s)'
    BY DEF RecordInv
<1>1. SlotUnchanged(s) /\ requests'[s] = requests[s] /\ attempts'[s] = attempts[s]
      BY DEF SlotUnchanged, telemetryVars, inferenceVars, handlerVars
<1> QED BY <1>1, SlotFrame DEF RecordInv

\* The invariant of the records, the pool being the handlers alone.
THEOREM RecordInvariant == Spec => []RecordInv
<1>1. InferenceInv /\ InferenceInv' /\ RecordInv /\ [Next]_vars => RecordInv'
  <2> SUFFICES ASSUME InferenceInv, InferenceInv', RecordInv, [Next]_vars PROVE RecordInv'
      OBVIOUS
  <2>1. CASE \E k \in KeyIds : Clock(k)
    <3>1. DOMAIN keys' = DOMAIN keys /\ UNCHANGED <<telemetryVars, inferenceVars>>
          BY <2>1 DEF Clock, CoolingElapses
    <3> QED BY <3>1, RecordFrame DEF KeysStayGone, InferenceInv
  <2>2. CASE UNCHANGED vars
        BY <2>2, RecordFrame DEF vars, KeysStayGone, InferenceInv
  <2> QED BY <2>1, <2>2, RecordStep, RecordCrash DEF Next
<1> QED BY InferenceInvariant, RecordInitInv, <1>1, PTL DEF Spec

\* What the invariant says of a row, and of a handler that gives up.
LEMMA RecordsTell ==
    ASSUME RecordInv PROVE RowsTellTheAttempts /\ GivesUpOnlyWhenAllFailed
<1>1. RowsTellTheAttempts
      BY DEF RecordInv, SlotInv, RowAgrees, RowsTellTheAttempts
<1>2. GivesUpOnlyWhenAllFailed
      BY DEF RecordInv, SlotInv, CallIsKnown, TriedHaveFailed, Failed, Unanswered,
             GivesUpOnlyWhenAllFailed
<1> QED BY <1>1, <1>2

\* A closed row agrees with the attempts of its request.
THEOREM RowsAgree == Spec => []RowsTellTheAttempts
BY RecordInvariant, RecordsTell, PTL

\* A handler gives up on a key failure only after every key it selected, and
\* could decrypt, has a failover on record.
THEOREM GivingUpIsJustified == Spec => []GivesUpOnlyWhenAllFailed
BY RecordInvariant, RecordsTell, PTL

-----------------------------------------------------------------------------
(* The whole pool: keys are created and deleted under the handlers. *)

\* AUTOINCREMENT never reuses an id, so a key that is created now is in no
\* snapshot.
SnapshotsAreOld == \A s \in Slots : \A k \in DOMAIN pool[s] : k <= lastId

\* A snapshot is taken from the table.
LEMMA SnapshotStep ==
    ASSUME InferenceTypeOK, InferenceStep, NEW s \in Slots
    PROVE  DOMAIN pool'[s] \subseteq DOMAIN pool[s] \cup DOMAIN keys
<1> USE DEF InferenceTypeOK, UnchangedBut_pc
<1>1. PICK r \in Slots : Arrive(r) \/ Disconnect(r) \/ Handler(r)
      BY DEF InferenceStep
<1>2. CASE Select(r)
  <2> DEFINE eligible == IF gone[r] THEN {} ELSE EligibleKeys(keys)
  <2>1. pool' = [pool EXCEPT ![r] = [k \in eligible |-> [role     |-> keys[k].role,
                                                       priority |-> keys[k].priority]]]
        BY <1>2 DEF Select
  <2>2. eligible \subseteq DOMAIN keys
        BY DEF EligibleKeys
  <2> QED BY <2>1, <2>2
<1>3. CASE Unreadable(r) \/ Finish(r)
      BY <1>3 DEF Unreadable, Finish, Return, NoSnapshot
<1>4. CASE Arrive(r) \/ Disconnect(r) \/ Begin(r) \/ Locking(r) \/ Pick(r) \/ Exhaust(r)
      BY <1>4 DEF Arrive, Disconnect, Begin, Locking, Lock, Promote, Pick, Exhaust
<1>5. CASE Upstream(r) /\ ~Unreadable(r)
      BY <1>5 DEF Upstream, Answer, StreamEnds, FirstReadFails, StreamStarts
<1>6. CASE \/ \E reset \in Deadlines : RecordKeyFailure(r, reset)
           \/ Use(r) \/ Attempt(r)
      BY <1>6 DEF RecordKeyFailure, Use, Attempt
<1> QED BY <1>1, <1>2, <1>3, <1>4, <1>5, <1>6 DEF Handler, Working

\* Tests and the scheduler neither create nor delete a key.
LEMMA ProbeDomain == ASSUME ProbeStep PROVE DOMAIN keys' = DOMAIN keys
<1>1. ASSUME NEW p \in Probers, NEW answer \in {"network", "auth", "ok", "nothing"},
             ModelsAnswer(p, answer)
      PROVE  DOMAIN keys' = DOMAIN keys
  <2>1. /\ \A auth : DOMAIN MarkChecked(keys, target[p], auth) = DOMAIN keys
        /\ DOMAIN MarkInvalid(keys, target[p]) = DOMAIN keys
        BY DEF MarkChecked, MarkInvalid
  <2>2. \/ keys' = keys
        \/ keys' = MarkChecked(keys, target[p], "unknown")
        \/ keys' = MarkChecked(keys, target[p], "valid")
        \/ keys' = MarkInvalid(keys, target[p])
        BY <1>1 DEF ModelsAnswer
  <2> QED BY <2>1, <2>2
<1>2. ASSUME NEW p \in Probers, NEW answer \in {"quota", "auth", "ok", "nothing"},
             NEW reset \in Deadlines, InferenceAnswer(p, answer, reset)
      PROVE  DOMAIN keys' = DOMAIN keys
  <2>1. /\ DOMAIN MarkQuota(keys, target[p], reset) = DOMAIN keys
        /\ DOMAIN MarkInvalid(keys, target[p]) = DOMAIN keys
        /\ DOMAIN MarkUsed(keys, target[p]) = DOMAIN keys
        BY DEF MarkQuota, MarkInvalid, MarkUsed
  <2>2. \/ keys' = keys
        \/ keys' = MarkQuota(keys, target[p], reset)
        \/ keys' = MarkInvalid(keys, target[p])
        \/ keys' = MarkUsed(keys, target[p])
        BY <1>2 DEF InferenceAnswer
  <2> QED BY <2>1, <2>2
<1>3. ASSUME NEW p \in Probers, LockProbe(p) PROVE DOMAIN keys' = DOMAIN keys
      BY <1>3 DEF LockProbe
<1>4. CASE SchedulerStep
      BY <1>4, SameDomain DEF SchedulerStep, Tick, List, TestNext, RoundEnds
<1> QED BY <1>1, <1>2, <1>3, <1>4 DEF ProbeStep, Testing

\* DELETE FROM keys takes the attempts of the key and its name from the rows.
LEMMA ForgetRecord ==
    ASSUME PoolInv, RecordInv, NEW k \in KeyIds, ForgetKey(k), UNCHANGED inferenceVars,
           keys' = DeleteKey(keys, k)
    PROVE  RecordInv'
<1> SUFFICES ASSUME NEW s \in Slots PROVE SlotInv(s)'
    BY DEF RecordInv
<1> USE DEF SlotInv
<1>1. SlotInv(s) /\ requests[s] \in RequestRow
      BY DEF RecordInv, PoolInv, InferenceInv, TelemetryTypeOK
<1>2. /\ pc'[s] = pc[s] /\ pool'[s] = pool[s] /\ todo'[s] = todo[s] /\ cur'[s] = cur[s]
      /\ verdict'[s] = verdict[s] /\ gone'[s] = gone[s]
      BY DEF inferenceVars, handlerVars
<1>3. DOMAIN keys' = DOMAIN keys \ {k} /\ k # NoKey
      BY StoreAssumption DEF DeleteKey, NoKey
<1>4. /\ attempts'[s] = {a \in attempts[s] : a.key # k}
      /\ requests'[s].state = requests[s].state /\ requests'[s].count = requests[s].count
      /\ requests'[s].final \in {requests[s].final, NoKey} \ {k}
      BY <1>1, <1>3 DEF ForgetKey, RequestRow
<1>5. RowAgrees(s)' /\ RowIsOpen(s)'
      BY <1>1, <1>2, <1>4 DEF RowAgrees, RowIsOpen
<1>6. CallIsKnown(s)'
      BY <1>1, <1>2, <1>4 DEF CallIsKnown
<1>7. Tried(s)' = Tried(s) /\ (Pending(s)' <=> Pending(s)) /\ (Recorded(s)' <=> Recorded(s))
      BY <1>2 DEF Tried, Pending, Recorded
<1>8. AttemptsInOrder(s)'
      BY <1>1, <1>2, <1>3, <1>4, <1>7 DEF AttemptsInOrder
<1>9. TriedHaveFailed(s)'
  <2>1. ASSUME NEW j, Failed(s, j) PROVE Failed(s, j)'
        BY <1>2, <1>3, <1>4, <2>1 DEF Failed
  <2> QED BY <1>1, <1>2, <1>7, <2>1 DEF TriedHaveFailed
<1> QED BY <1>5, <1>6, <1>8, <1>9

\* The admin handlers.
LEMMA RecordAdmin ==
    ASSUME PoolInv, PoolInv', RecordInv, SnapshotsAreOld, NEW a \in Admins, AdminHandler(a),
           UNCHANGED inferenceVars
    PROVE  RecordInv' /\ SnapshotsAreOld'
<1> USE DEF PoolInv, InferenceInv
<1>1. ASSUME NEW p \in Priorities, NEW test \in {"none", "models", "inference"},
             CreateAndTest(a, p, test)
      PROVE  RecordInv' /\ SnapshotsAreOld'
  <2>1. /\ DOMAIN keys' = DOMAIN keys \cup {lastId + 1} /\ lastId' = lastId + 1
        /\ lastId \in Nat /\ UNCHANGED telemetryVars
        BY <1>1 DEF CreateAndTest, CreateKey, AdminTypeOK
  <2>2. \A s \in Slots : \A k \in DOMAIN pool[s] : k \in Nat /\ k <= lastId
        BY StoreAssumption DEF SnapshotsAreOld, InferenceTypeOK, IsSnapshot
  <2>3. \A s \in Slots : KeysStayGone(s)
        BY <2>1, <2>2 DEF KeysStayGone
  <2>4. SnapshotsAreOld'
        BY <2>1, <2>2 DEF SnapshotsAreOld, inferenceVars, handlerVars
  <2> QED BY <2>1, <2>3, <2>4, RecordFrame
<1>2. ASSUME NEW k \in KeyIds, Delete(a, k) PROVE RecordInv' /\ SnapshotsAreOld'
  <2>1. RecordInv'
        BY <1>2, ForgetRecord DEF Delete
  <2> QED BY <1>2, <2>1 DEF Delete, SnapshotsAreOld, inferenceVars, handlerVars
<1>3. ASSUME DOMAIN keys' = DOMAIN keys, UNCHANGED <<telemetryVars, lastId>>
      PROVE  RecordInv' /\ SnapshotsAreOld'
  <2>1. RecordInv'
        BY <1>3, RecordFrame DEF KeysStayGone
  <2> QED BY <1>3, <2>1 DEF SnapshotsAreOld, inferenceVars, handlerVars
<1>4. ASSUME NEW k \in KeyIds,
             \/ \E inference \in BOOLEAN : Test(a, k, inference)
             \/ \E p \in Priorities, e \in BOOLEAN : ReadForUpdate(a, k, p, e)
             \/ CheckActivation(a, k)
      PROVE  RecordInv' /\ SnapshotsAreOld'
      BY <1>3, <1>4 DEF Test, ReadForUpdate, CheckActivation
<1>5. CASE Update(a) \/ Activate(a)
  <2>1. UNCHANGED <<telemetryVars, lastId>>
        BY <1>5 DEF Update, Activate
  <2>2. \/ keys' = UpdateKey(keys, form[a].key, form[a].priority, form[a].enabled)
        \/ keys' = SetActive(keys, form[a].key)
        BY <1>5 DEF Update, Activate
  <2>3. /\ DOMAIN UpdateKey(keys, form[a].key, form[a].priority, form[a].enabled) = DOMAIN keys
        /\ DOMAIN SetActive(keys, form[a].key) = DOMAIN keys
        BY DEF UpdateKey, SetActive
  <2> QED BY <1>3, <2>1, <2>2, <2>3
<1> QED BY <1>1, <1>2, <1>4, <1>5 DEF AdminHandler

\* Every step of the pool.
LEMMA PoolRecordStep ==
    ASSUME PoolInv, PoolInv', RecordInv, SnapshotsAreOld, [PoolNext]_poolVars
    PROVE  RecordInv' /\ SnapshotsAreOld'
<1> USE DEF PoolInv, InferenceInv
<1>1. ASSUME UNCHANGED <<telemetryVars, inferenceVars, lastId>>, DOMAIN keys' = DOMAIN keys
      PROVE  RecordInv' /\ SnapshotsAreOld'
  <2>1. RecordInv'
        BY <1>1, RecordFrame DEF KeysStayGone
  <2> QED BY <1>1, <2>1 DEF SnapshotsAreOld, inferenceVars, handlerVars
<1>2. CASE InferenceStep /\ UNCHANGED <<probeVars, adminVars>>
  <2>1. RecordInv'
        BY <1>2, RecordStep
  <2>2. SnapshotsAreOld'
        BY <1>2, SnapshotStep DEF SnapshotsAreOld, adminVars
  <2> QED BY <2>1, <2>2
<1>3. CASE ProbeStep /\ UNCHANGED <<telemetryVars, inferenceVars, adminVars>>
      BY <1>1, <1>3, ProbeDomain DEF adminVars
<1>4. ASSUME NEW a \in Admins, AdminHandler(a), UNCHANGED inferenceVars
      PROVE  RecordInv' /\ SnapshotsAreOld'
      BY <1>4, RecordAdmin
<1>5. CASE \E k \in KeyIds : Clock(k) /\ UNCHANGED <<probeVars, adminVars>>
      BY <1>1, <1>5 DEF Clock, CoolingElapses, adminVars
<1>6. CASE CrashAll
      BY <1>6, RecordCrash DEF CrashAll, Crash, NoSnapshot, SnapshotsAreOld
<1>7. CASE UNCHANGED poolVars
      BY <1>1, <1>7 DEF poolVars, vars, adminVars
<1> QED BY <1>2, <1>3, <1>4, <1>5, <1>6, <1>7 DEF PoolNext

\* The invariant of the records under everything that happens to the pool.
THEOREM PoolRecordInvariant == PoolSpec => []RecordInv
<1>1. PoolInit => RecordInv /\ SnapshotsAreOld
  <2>1. PoolInit => SnapshotsAreOld
        BY DEF PoolInit, Init, InferenceInit, NoSnapshot, SnapshotsAreOld
  <2> QED BY <2>1, RecordInitInv DEF PoolInit
<1>2. PoolInv /\ PoolInv' /\ RecordInv /\ SnapshotsAreOld /\ [PoolNext]_poolVars
         => RecordInv' /\ SnapshotsAreOld'
      BY PoolRecordStep
<1> QED BY PoolInvariant, <1>1, <1>2, PTL DEF PoolSpec

\* A closed row agrees with the attempts of its request, also when its keys
\* are deleted meanwhile or afterwards.
THEOREM PoolRowsAgree == PoolSpec => []RowsTellTheAttempts
BY PoolRecordInvariant, RecordsTell, PTL

\* Nor do admins, tests and crashes make a handler give up too early.
THEOREM PoolGivingUpIsJustified == PoolSpec => []GivesUpOnlyWhenAllFailed
BY PoolRecordInvariant, RecordsTell, PTL
=============================================================================
