--------------------------- MODULE ScheduleProofs ---------------------------
(***************************************************************************)
(* Types of the timed scheduler, the spacing of its tests, the time a key  *)
(* waits to be woken and to be tested, and the rows of open requests, for  *)
(* any intervals, bounds, keys and readers.                                *)
(***************************************************************************)
EXTENDS Schedule, StoreProofs, FiniteSetTheorems

\* The time that the tests of the keys in b may take.
Work(b) == 2 * LongestCall * Cardinality(b)

\* Work counts the tests one by one.
LEMMA WorkOf ==
    /\ Work({}) = 0
    /\ RoundTime = Work(KeyIds) /\ OthersTime = Work(KeyIds \ {Watched})
    /\ \A b \in SUBSET KeyIds :
          /\ Work(b) \in Nat /\ Work(b) <= RoundTime
          /\ Watched \notin b => Work(b) <= OthersTime
          /\ \A k \in b : Work(b) = Work(b \ {k}) + 2 * LongestCall
<1> DEFINE c == 2 * LongestCall
<1>1. c \in Nat
  BY ScheduleAssumption
<1>2. \A b : Work(b) = c * Cardinality(b)
  BY DEF Work
<1> HIDE DEF c
<1>3. \A m, n \in Nat : c * m \in Nat /\ (m <= n => c * m <= c * n) /\ c * (m + 1) = c * m + c
  BY <1>1
<1>4. \A b \in SUBSET KeyIds : IsFiniteSet(b) /\ Cardinality(b) \in Nat
  BY ScheduleAssumption, FS_Subset, FS_CardinalityType
<1>5. ASSUME NEW b \in SUBSET KeyIds, NEW k \in b PROVE Work(b) = Work(b \ {k}) + c
  <2>1. IsFiniteSet(b \ {k}) /\ Cardinality(b \ {k}) \in Nat /\ (b \ {k}) \cup {k} = b
    BY <1>4
  <2>2. Cardinality(b) = Cardinality(b \ {k}) + 1
    BY <2>1, FS_AddElement
  <2> QED
    BY <1>2, <1>3, <2>1, <2>2
<1>6. ASSUME NEW d \in SUBSET KeyIds, NEW b \in SUBSET d PROVE Work(b) <= Work(d)
  <2>1. Cardinality(b) <= Cardinality(d)
    BY <1>4, FS_Subset
  <2> QED
    BY <1>2, <1>3, <1>4, <2>1
<1>7. Work({}) = 0
  BY <1>1, <1>2, FS_EmptySet
<1>8. RoundTime = Work(KeyIds)
  BY DEF RoundTime, Work
<1>9. Work(KeyIds \ {Watched}) \in Nat /\ OthersTime = Work(KeyIds \ {Watched})
  <2>1. Work(KeyIds) = Work(KeyIds \ {Watched}) + c
    BY <1>5, ScheduleAssumption
  <2>2. Work(KeyIds \ {Watched}) \in Nat
    BY <1>2, <1>3, <1>4
  <2> QED
    BY <1>1, <1>8, <2>1, <2>2 DEF OthersTime, c
<1>10. ASSUME NEW b \in SUBSET KeyIds
       PROVE  /\ Work(b) \in Nat /\ Work(b) <= RoundTime
              /\ Watched \notin b => Work(b) <= OthersTime
  <2>1. Work(b) \in Nat
    BY <1>2, <1>3, <1>4
  <2>2. Work(b) <= RoundTime
    BY <1>6, <1>8
  <2>3. Watched \notin b => Work(b) <= OthersTime
    BY <1>6, <1>9
  <2> QED
    BY <2>1, <2>2, <2>3
<1> QED
  BY <1>5, <1>7, <1>8, <1>9, <1>10 DEF c

\* The bounds are numbers.
LEMMA Bounds ==
    /\ RoundTime \in Nat /\ RoundTime = OthersTime + 2 * LongestCall
    /\ OthersTime \in Nat /\ MissedRound \in Nat /\ ListBound \in Nat /\ TestBound \in Nat
    /\ OthersTime <= MissedRound + 1
    /\ Cardinality(Readers) \in Nat
    /\ LongestCall \in Nat \ {0} /\ ProbeInterval \in Nat \ {0, 1}
<1>1. LongestCall \in Nat \ {0} /\ ProbeInterval \in Nat \ {0, 1}
  BY ScheduleAssumption
<1>2. RoundTime \in Nat /\ OthersTime \in Nat
  BY WorkOf
<1>3. MissedRound \in Nat /\ OthersTime <= MissedRound + 1
  BY <1>2 DEF MissedRound
<1>4. ListBound \in Nat
  BY <1>1, <1>3 DEF ListBound
<1>5. Cardinality(Readers) \in Nat
  BY ScheduleAssumption, FS_CardinalityType
<1>6. (2 * Cardinality(Readers) + 2) * ListBound \in Nat
  <2>1. \A m, n \in Nat : m * n \in Nat
    OBVIOUS
  <2>2. 2 * Cardinality(Readers) + 2 \in Nat
    BY <1>5
  <2> QED
    BY <1>4, <2>1, <2>2
<1>7. TestBound \in Nat
  BY <1>2, <1>6 DEF TestBound
<1>8. RoundTime = OthersTime + 2 * LongestCall
  BY <1>1, <1>2 DEF OthersTime
<1> QED
  BY <1>1, <1>2, <1>3, <1>4, <1>5, <1>7, <1>8

-----------------------------------------------------------------------------
\* What time and the catalog keep, apart from the table and the test.
ClockTypeOK ==
    /\ ticked \in BOOLEAN
    /\ wait \in [KeyIds -> 0..(LongestCooling + ProbeInterval)]
    /\ age \in [KeyIds -> 0..ProbeInterval]
    /\ fetched \in 0..CacheTime \cup {Absent}
    /\ rpc \in [Readers -> {"idle", "ask"}]
    /\ todo \in [Readers -> SUBSET KeyIds]
    /\ spent \in [Callers -> 0..LongestCall]
    /\ request \in 0..LongestRequest \cup {Absent}
    /\ row \in BOOLEAN
    /\ gap \in 0..ProbeInterval

WatchTypeOK == late \in 0..(RoundTime + 1) /\ untested \in 0..(TestBound + 1)

\* The scheduler is in a round while it tests, and no round tests a key twice.
Round ==
    /\ ppc[Scheduler] # "idle" => spc = "run" /\ target[Scheduler] \notin batch
    /\ spc # "run" => batch = {}

\* Whoever is still to be tested in this round has not been tested lately.
Spaced ==
    /\ age[Watched] <= gap
    /\ Watched \in batch => gap >= ProbeInterval
    /\ ppc[Scheduler] \in {"wait", "models"} /\ target[Scheduler] = Watched
          => gap >= ProbeInterval

ScheduleInv == TableInv(keys) /\ ProbeTypeOK /\ ClockTypeOK /\ WatchTypeOK

\* A watch never runs past its bound.
LEMMA WatchTypes ==
    ASSUME WatchTypeOK, NEW d \in {0, 1}, Watch(d)
    PROVE  WatchTypeOK'
<1> DEFINE more(t, cap) == IF t + d > cap THEN cap ELSE t + d
<1>1. ASSUME NEW cap \in Nat, NEW t \in 0..cap PROVE more(t, cap) \in 0..cap
  OBVIOUS
<1>2. RoundTime + 1 \in Nat /\ TestBound + 1 \in Nat
  BY Bounds
<1>3. more(late, RoundTime + 1) \in 0..(RoundTime + 1)
  BY <1>1, <1>2 DEF WatchTypeOK
<1>4. more(untested, TestBound + 1) \in 0..(TestBound + 1)
  BY <1>1, <1>2 DEF WatchTypeOK
<1>5. late' \in {0, more(late, RoundTime + 1)} /\ untested' \in {0, more(untested, TestBound + 1)}
  BY DEF Watch
<1> HIDE DEF more
<1>6. 0 \in 0..(RoundTime + 1) /\ 0 \in 0..(TestBound + 1)
  BY <1>2
<1> QED
  BY <1>3, <1>4, <1>5, <1>6 DEF WatchTypeOK

\* Time that passes stays below its cap, and what is absent stays so.
LEMMA OlderTypes ==
    ASSUME NEW cap \in Nat, NEW t \in 0..cap \cup {Absent}
    PROVE  /\ Older(t, cap) \in 0..cap \cup {Absent}
           /\ Older(t, cap) = Absent <=> t = Absent
BY DEF Older, Absent

-----------------------------------------------------------------------------
\* The scheduler's steps keep the table and the state of its test well-formed.
LEMMA SchedulerTable ==
    ASSUME TableInv(keys), ProbeTypeOK,
           \/ SchedulerStep \/ LockProbe(Scheduler)
           \/ \E answer \in {"network", "auth", "ok", "nothing"} : ModelsAnswer(Scheduler, answer)
           \/ \E answer \in {"quota", "auth", "ok", "nothing"}, reset \in Deadlines :
                  InferenceAnswer(Scheduler, answer, reset)
    PROVE  TableInv(keys') /\ ProbeTypeOK'
<1>0. Scheduler \in Probers
  BY DEF Probers
<1>1. CASE Tick
  BY <1>1, MarkHalfOpenDueInv DEF Tick, ProbeTypeOK
<1>2. CASE List
  <2>1. DOMAIN keys \subseteq KeyIds
    BY DEF TableInv, IsKeyTable
  <2> QED
    BY <1>2, <2>1 DEF List, ProbeTypeOK
<1>3. CASE TestNext
  <2>1. PICK k \in batch : StartTest(Scheduler, k, TRUE) /\ batch' = batch \ {k}
    BY <1>3 DEF TestNext
  <2> QED
    BY <1>0, <1>3, <2>1 DEF TestNext, StartTest, ProbeTypeOK
<1>4. CASE RoundEnds
  BY <1>4 DEF RoundEnds, ProbeTypeOK
<1>5. CASE LockProbe(Scheduler)
  BY <1>0, <1>5 DEF LockProbe, EndTest, ProbeTypeOK
<1>6. ASSUME NEW answer \in {"network", "auth", "ok", "nothing"}, ModelsAnswer(Scheduler, answer)
      PROVE  TableInv(keys') /\ ProbeTypeOK'
  <2>1. TableInv(MarkChecked(keys, target[Scheduler], "unknown"))
    BY MarkInv DEF AuthStates
  <2>2. TableInv(MarkChecked(keys, target[Scheduler], "valid"))
    BY MarkInv DEF AuthStates
  <2>3. TableInv(MarkInvalid(keys, target[Scheduler]))
    BY MarkInv
  <2>4. TableInv(keys')
    BY <1>6, <2>1, <2>2, <2>3 DEF ModelsAnswer
  <2> QED
    BY <1>0, <1>6, <2>4 DEF ModelsAnswer, EndTest, ProbeTypeOK
<1>7. ASSUME NEW answer \in {"quota", "auth", "ok", "nothing"}, NEW reset \in Deadlines,
             InferenceAnswer(Scheduler, answer, reset)
      PROVE  TableInv(keys') /\ ProbeTypeOK'
  <2>1. TableInv(MarkQuota(keys, target[Scheduler], reset))
    BY MarkInv
  <2>2. TableInv(MarkInvalid(keys, target[Scheduler])) /\ TableInv(MarkUsed(keys, target[Scheduler]))
    BY MarkInv
  <2>3. TableInv(keys')
    BY <1>7, <2>1, <2>2 DEF InferenceAnswer
  <2> QED
    BY <1>0, <1>7, <2>3 DEF InferenceAnswer, EndTest, ProbeTypeOK
<1> QED
  BY <1>1, <1>2, <1>3, <1>4, <1>5, <1>6, <1>7 DEF SchedulerStep

\* The steps of the scheduler and of its tests.
LEMMA SchedulerInv == ScheduleInv /\ SchedulerNext => ScheduleInv'
<1> SUFFICES ASSUME ScheduleInv, SchedulerNext PROVE ScheduleInv'
  OBVIOUS
<1>0. TableInv(keys) /\ ProbeTypeOK /\ ClockTypeOK /\ WatchTypeOK
  BY DEF ScheduleInv
<1>a. /\ ProbeInterval \in Nat /\ LongestCall \in Nat /\ LongestCooling \in Nat
      /\ Scheduler \in Callers
  BY ScheduleAssumption DEF Callers
<1>b. target[Scheduler] \in KeyIds \cup {0}
  BY <1>0 DEF ProbeTypeOK, Probers
<1>1. CASE TimedTick
  <2>1. TableInv(keys') /\ ProbeTypeOK'
    BY <1>0, <1>1, SchedulerTable DEF TimedTick, SchedulerStep
  <2>2. ClockTypeOK'
    BY <1>0, <1>1 DEF TimedTick, ClockTypeOK, tableVars, catalogVars, requestVars
  <2>3. WatchTypeOK'
    BY <1>0, <1>1, WatchTypes DEF TimedTick
  <2> QED
    BY <2>1, <2>2, <2>3 DEF ScheduleInv
<1>2. CASE TimedList
  <2>1. TableInv(keys') /\ ProbeTypeOK'
    BY <1>0, <1>2, SchedulerTable DEF TimedList, SchedulerStep
  <2>2. ClockTypeOK'
    BY <1>0, <1>2 DEF TimedList, ClockTypeOK, tableVars, catalogVars, requestVars
  <2>3. WatchTypeOK'
    BY <1>0, <1>2, WatchTypes DEF TimedList
  <2> QED
    BY <2>1, <2>2, <2>3 DEF ScheduleInv
<1>3. CASE TimedTestNext
  <2>1. TableInv(keys') /\ ProbeTypeOK'
    BY <1>0, <1>3, SchedulerTable DEF TimedTestNext, SchedulerStep
  <2>2. ClockTypeOK'
    BY <1>0, <1>3 DEF TimedTestNext, ClockTypeOK, tableVars, catalogVars, requestVars
  <2>3. WatchTypeOK'
    BY <1>0, <1>3, WatchTypes DEF TimedTestNext
  <2> QED
    BY <2>1, <2>2, <2>3 DEF ScheduleInv
<1>4. CASE TimedRoundEnds
  <2>1. TableInv(keys') /\ ProbeTypeOK'
    BY <1>0, <1>4, SchedulerTable DEF TimedRoundEnds, SchedulerStep
  <2>2. row' \in BOOLEAN
    BY <1>4, Zenon DEF TimedRoundEnds, Purge
  <2>3. ClockTypeOK'
    BY <1>0, <1>4, <2>2 DEF TimedRoundEnds, ClockTypeOK, tableVars, catalogVars
  <2>4. WatchTypeOK'
    BY <1>0, <1>4, WatchTypes DEF TimedRoundEnds
  <2> QED
    BY <2>1, <2>3, <2>4 DEF ScheduleInv
<1>5. CASE TimedLockProbe
  <2>1. TableInv(keys') /\ ProbeTypeOK'
    BY <1>0, <1>5, SchedulerTable DEF TimedLockProbe
  <2>2. ClockTypeOK'
    BY <1>0, <1>5 DEF TimedLockProbe, ClockTypeOK, tableVars, catalogVars, requestVars
  <2>3. WatchTypeOK'
    BY <1>0, <1>5, WatchTypes DEF TimedLockProbe
  <2> QED
    BY <2>1, <2>2, <2>3 DEF ScheduleInv
<1>6. ASSUME NEW answer \in {"network", "auth", "ok", "nothing"}, TimedModelsAnswer(answer)
      PROVE  ScheduleInv'
  <2>1. TableInv(keys') /\ ProbeTypeOK'
    BY <1>0, <1>6, SchedulerTable DEF TimedModelsAnswer
  <2>2. ClockTypeOK'
    BY <1>0, <1>a, <1>b, <1>6
       DEF TimedModelsAnswer, CallBegins, Checked, ClockTypeOK, catalogVars, requestVars
  <2>3. WatchTypeOK'
    BY <1>0, <1>6, WatchTypes DEF TimedModelsAnswer
  <2> QED
    BY <2>1, <2>2, <2>3 DEF ScheduleInv
<1>7. ASSUME NEW answer \in {"quota", "auth", "ok", "nothing"}, NEW d \in Resets,
             TimedInferenceAnswer(answer, d)
      PROVE  ScheduleInv'
  <2>1. TableInv(keys') /\ ProbeTypeOK'
    <3>1. (IF d = 0 THEN "due" ELSE "future") \in Deadlines
      BY DEF Deadlines
    <3> QED
      BY <1>0, <1>7, <3>1, SchedulerTable DEF TimedInferenceAnswer
  <2>2. d \in 0..(LongestCooling + ProbeInterval)
    BY <1>a DEF Resets
  <2>3. ClockTypeOK'
    <3>1. /\ wait' \in [KeyIds -> 0..(LongestCooling + ProbeInterval)]
          /\ age' \in [KeyIds -> 0..ProbeInterval]
      <4>0. /\ wait \in [KeyIds -> 0..(LongestCooling + ProbeInterval)]
            /\ age \in [KeyIds -> 0..ProbeInterval]
            /\ 0 \in 0..(LongestCooling + ProbeInterval) /\ 0 \in 0..ProbeInterval
        BY <1>0, <1>a DEF ClockTypeOK
      <4>1. CASE answer = "quota"
        <5>1. Cools(target[Scheduler], d)
          BY <1>7, <4>1 DEF TimedInferenceAnswer
        <5> QED
          BY <4>0, <5>1, <2>2 DEF Cools, Checked
      <4>2. CASE answer = "auth"
        <5>1. Checked(target[Scheduler]) /\ UNCHANGED wait
          BY <1>7, <4>2 DEF TimedInferenceAnswer
        <5> QED
          BY <4>0, <5>1 DEF Checked
      <4>3. CASE answer = "ok"
        <5>1. wait' = [wait EXCEPT ![target[Scheduler]] = 0] /\ UNCHANGED age
          BY <1>7, <4>3 DEF TimedInferenceAnswer
        <5> QED
          BY <4>0, <5>1
      <4>4. CASE answer = "nothing"
        <5>1. UNCHANGED tableVars
          BY <1>7, <4>4 DEF TimedInferenceAnswer
        <5> QED
          BY <4>0, <5>1 DEF tableVars
      <4> QED
        BY <4>1, <4>2, <4>3, <4>4
    <3>2. spent' \in [Callers -> 0..LongestCall]
      BY <1>0, <1>a, <1>7 DEF TimedInferenceAnswer, CallBegins, ClockTypeOK
    <3> QED
      BY <1>0, <1>7, <3>1, <3>2
         DEF TimedInferenceAnswer, ClockTypeOK, catalogVars, requestVars
  <2>4. WatchTypeOK'
    BY <1>0, <1>7, WatchTypes DEF TimedInferenceAnswer
  <2> QED
    BY <2>1, <2>3, <2>4 DEF ScheduleInv
<1> QED
  BY <1>1, <1>2, <1>3, <1>4, <1>5, <1>6, <1>7 DEF SchedulerNext

\* The requests for the catalog.
LEMMA CatalogInv == ScheduleInv /\ CatalogNext => ScheduleInv'
<1> SUFFICES ASSUME ScheduleInv, NEW r \in Readers,
                    \/ AskCatalog(r) \/ NoSourceLeft(r)
                    \/ \E k \in KeyIds, answer \in {"ok", "auth", "nothing"} :
                           SourceAnswers(r, k, answer)
             PROVE  ScheduleInv'
  BY DEF CatalogNext
<1>0. TableInv(keys) /\ ProbeTypeOK /\ ClockTypeOK /\ WatchTypeOK
  BY DEF ScheduleInv
<1>a. r \in Callers /\ 0 \in 0..LongestCall /\ 0 \in 0..ProbeInterval /\ 0 \in 0..CacheTime
  BY ScheduleAssumption DEF Callers
<1>b. DOMAIN keys \subseteq KeyIds
  BY <1>0 DEF TableInv, IsKeyTable
<1>1. CASE AskCatalog(r)
  <2>1. TableInv(keys') /\ ProbeTypeOK' /\ WatchTypeOK'
    BY <1>0, <1>1 DEF AskCatalog, ProbeTypeOK, probeVars, WatchTypeOK, watchVars
  <2>2. ClockTypeOK'
    BY <1>0, <1>a, <1>b, <1>1
       DEF AskCatalog, CallBegins, ClockTypeOK, tableVars, requestVars, watchVars
  <2> QED
    BY <2>1, <2>2 DEF ScheduleInv
<1>2. CASE NoSourceLeft(r)
  <2>1. TableInv(keys') /\ ProbeTypeOK' /\ WatchTypeOK'
    BY <1>0, <1>2 DEF NoSourceLeft, ProbeTypeOK, probeVars, WatchTypeOK, watchVars
  <2>2. ClockTypeOK'
    BY <1>0, <1>2 DEF NoSourceLeft, ClockTypeOK, tableVars, requestVars, watchVars
  <2> QED
    BY <2>1, <2>2 DEF ScheduleInv
<1>3. ASSUME NEW k \in KeyIds, NEW answer \in {"ok", "auth", "nothing"}, SourceAnswers(r, k, answer)
      PROVE  ScheduleInv'
  <2>1. TableInv(MarkChecked(keys, k, "valid")) /\ TableInv(MarkInvalid(keys, k))
    BY <1>0, MarkInv DEF AuthStates
  <2>2. TableInv(keys') /\ ProbeTypeOK'
    BY <1>0, <1>3, <2>1 DEF SourceAnswers, ProbeTypeOK, probeVars
  <2>3. age' \in [KeyIds -> 0..ProbeInterval] /\ spent' \in [Callers -> 0..LongestCall]
    BY <1>0, <1>a, <1>3 DEF SourceAnswers, Checked, CallBegins, ClockTypeOK
  <2>4. /\ fetched' \in 0..CacheTime \cup {Absent}
        /\ todo' \in [Readers -> SUBSET KeyIds]
        /\ rpc' \in [Readers -> {"idle", "ask"}]
    BY <1>0, <1>a, <1>3 DEF SourceAnswers, ClockTypeOK
  <2>5. ClockTypeOK'
    BY <1>0, <1>3, <2>3, <2>4 DEF SourceAnswers, ClockTypeOK, requestVars
  <2>6. WatchTypeOK'
    BY <1>0, <1>3, WatchTypes DEF SourceAnswers
  <2> QED
    BY <2>2, <2>5, <2>6 DEF ScheduleInv
<1> QED
  BY <1>1, <1>2, <1>3

\* The requests.
LEMMA RequestInv == ScheduleInv /\ RequestNext => ScheduleInv'
<1> SUFFICES ASSUME ScheduleInv, RequestNext PROVE ScheduleInv'
  OBVIOUS
<1>0. TableInv(keys) /\ ProbeTypeOK /\ ClockTypeOK /\ WatchTypeOK
  BY DEF ScheduleInv
<1>a. /\ 0 \in 0..LongestRequest /\ 0 \in 0..ProbeInterval
      /\ 0 \in 0..(LongestCooling + ProbeInterval)
  BY ScheduleAssumption
<1>1. CASE RequestBegins \/ RequestFails
  <2>1. TableInv(keys') /\ ProbeTypeOK' /\ WatchTypeOK'
    BY <1>0, <1>1 DEF RequestBegins, RequestFails, ProbeTypeOK, probeVars, WatchTypeOK, watchVars
  <2>2. ClockTypeOK'
    BY <1>0, <1>a, <1>1
       DEF RequestBegins, RequestFails, ClockTypeOK, tableVars, catalogVars, watchVars
  <2> QED
    BY <2>1, <2>2 DEF ScheduleInv
<1>2. ASSUME NEW k \in KeyIds, NEW answer \in {"used", "quota", "auth"}, NEW d \in Resets,
             RequestEnds(k, answer, d)
      PROVE  ScheduleInv'
  <2>0. /\ wait \in [KeyIds -> 0..(LongestCooling + ProbeInterval)]
        /\ age \in [KeyIds -> 0..ProbeInterval]
    BY <1>0 DEF ClockTypeOK
  <2>1. d \in 0..(LongestCooling + ProbeInterval)
    BY ScheduleAssumption DEF Resets
  <2>2. /\ TableInv(keys')
        /\ wait' \in [KeyIds -> 0..(LongestCooling + ProbeInterval)]
        /\ age' \in [KeyIds -> 0..ProbeInterval]
    <3>1. CASE answer = "used"
      <4>1. keys' = MarkUsed(keys, k) /\ wait' = [wait EXCEPT ![k] = 0] /\ UNCHANGED age
        BY <1>2, <3>1 DEF RequestEnds
      <4> QED
        BY <1>0, <1>a, <2>0, <4>1, MarkInv
    <3>2. CASE answer = "quota"
      <4>1. Cools(k, d)
        BY <1>2, <3>2 DEF RequestEnds
      <4>2. TableInv(keys')
        BY <1>0, <4>1, MarkInv DEF Cools, Deadlines
      <4> QED
        BY <1>a, <2>0, <2>1, <4>1, <4>2 DEF Cools, Checked
    <3>3. CASE answer = "auth"
      <4>1. keys' = MarkInvalid(keys, k) /\ Checked(k) /\ UNCHANGED wait
        BY <1>2, <3>3 DEF RequestEnds
      <4>2. TableInv(keys')
        BY <1>0, <4>1, MarkInv
      <4> QED
        BY <1>a, <2>0, <4>1, <4>2 DEF Checked
    <3> QED
      BY <3>1, <3>2, <3>3
  <2>3. ClockTypeOK'
    BY <1>0, <1>2, <2>2 DEF RequestEnds, ClockTypeOK, catalogVars
  <2>4. ProbeTypeOK'
    BY <1>0, <1>2 DEF RequestEnds, ProbeTypeOK, probeVars
  <2>5. WatchTypeOK'
    BY <1>0, <1>2, WatchTypes DEF RequestEnds
  <2> QED
    BY <2>2, <2>3, <2>4, <2>5 DEF ScheduleInv
<1> QED
  BY <1>1, <1>2 DEF RequestNext

\* The clock.
LEMMA TimeInv == ScheduleInv /\ Round /\ TimePasses => ScheduleInv'
<1> SUFFICES ASSUME ScheduleInv, Round, TimePasses PROVE ScheduleInv'
  OBVIOUS
<1>0. TableInv(keys) /\ ProbeTypeOK /\ ClockTypeOK /\ WatchTypeOK
  BY DEF ScheduleInv
<1>a. /\ ProbeInterval \in Nat /\ CacheTime \in Nat /\ LongestCall \in Nat
      /\ LongestRequest \in Nat /\ LongestCooling \in Nat
  BY ScheduleAssumption
<1>1. TableInv(keys')
  <2> DEFINE new(k) == IF keys[k].until = "future" /\ wait[k] <= 1
                       THEN [keys[k] EXCEPT !.until = "due"] ELSE keys[k]
  <2>1. keys' = [k \in DOMAIN keys |-> new(k)]
    BY DEF TimePasses
  <2>2. \A i \in DOMAIN keys :
           /\ keys[i] \in KeyRow
           /\ keys[i].quota \in {"cooling", "half_open"} <=> keys[i].until # "null"
           /\ keys[i].quota = "half_open" => keys[i].until = "due"
    BY <1>0 DEF TableInv, IsKeyTable, DeadlineMatchesQuotaIn
  <2>3. \A i \in DOMAIN keys :
           new(i) \in {keys[i], IF keys[i].until = "future"
                                THEN [keys[i] EXCEPT !.until = "due"] ELSE keys[i]}
    OBVIOUS
  <2> HIDE DEF new
  <2>4. \A i \in DOMAIN keys :
           /\ new(i) \in KeyRow
           /\ new(i).enabled = keys[i].enabled
           /\ new(i).role = keys[i].role
           /\ new(i).quota \in {"cooling", "half_open"} <=> new(i).until # "null"
           /\ new(i).quota = "half_open" => new(i).until = "due"
    BY <2>2, <2>3 DEF KeyRow, Deadlines
  <2>5. /\ DOMAIN keys' = DOMAIN keys
        /\ keys' \in [DOMAIN keys -> KeyRow]
        /\ \A i \in DOMAIN keys : keys'[i] = new(i)
    BY <2>1, <2>4
  <2> QED
    BY <1>0, <2>4, <2>5, UpdateInv
<1>2. wait' \in [KeyIds -> 0..(LongestCooling + ProbeInterval)]
  <2>1. \A k \in KeyIds : wait[k] \in 0..(LongestCooling + ProbeInterval)
    BY <1>0 DEF ClockTypeOK
  <2> QED
    BY <1>a, <2>1 DEF TimePasses
<1>3. age' \in [KeyIds -> 0..ProbeInterval]
  <2>1. \A k \in KeyIds : age[k] \in 0..ProbeInterval
    BY <1>0 DEF ClockTypeOK
  <2>2. \A k \in KeyIds : Older(age[k], ProbeInterval) \in 0..ProbeInterval
    <3>1. \A t \in 0..ProbeInterval : Older(t, ProbeInterval) \in 0..ProbeInterval
      BY <1>a DEF Older, Absent
    <3> QED
      BY <2>1, <3>1
  <2> QED
    BY <2>2 DEF TimePasses
<1>4. fetched' \in 0..CacheTime \cup {Absent}
  BY <1>0, <1>a, OlderTypes DEF TimePasses, ClockTypeOK
<1>5. spent' \in [Callers -> 0..LongestCall]
  <2> DEFINE open(c) == \/ c = Scheduler /\ ppc[c] \in {"models", "inference"}
                        \/ c # Scheduler /\ rpc[c] = "ask"
  <2>1. \A c \in Callers : spent[c] \in 0..LongestCall
    BY <1>0 DEF ClockTypeOK
  <2>2. ppc[Scheduler] \in {"models", "inference"} => spent[Scheduler] < LongestCall
    <3>1. SchedulerIdle
      BY DEF TimePasses
    <3> QED
      BY <3>1 DEF Round, SchedulerIdle
  <2>3. \A c \in Callers : open(c) => spent[c] < LongestCall
    BY <2>2 DEF TimePasses, ReaderIdle, Callers
  <2>4. \A c \in Callers : (IF open(c) THEN spent[c] + 1 ELSE 0) \in 0..LongestCall
    <3> HIDE DEF open
    <3> QED
      BY <1>a, <2>1, <2>3
  <2>5. spent' = [c \in Callers |-> IF open(c) THEN spent[c] + 1 ELSE 0]
    BY DEF TimePasses
  <2> QED
    BY <2>4, <2>5
<1>6. request' \in 0..LongestRequest \cup {Absent}
  BY <1>0, <1>a, OlderTypes DEF TimePasses, ClockTypeOK
<1>7. gap' \in 0..ProbeInterval
  BY <1>0, <1>a DEF TimePasses, ClockTypeOK, Older
<1>8. ClockTypeOK'
  BY <1>0, <1>2, <1>3, <1>4, <1>5, <1>6, <1>7 DEF TimePasses, ClockTypeOK
<1>9. ProbeTypeOK' /\ WatchTypeOK'
  <2>1. ProbeTypeOK'
    BY <1>0 DEF TimePasses, ProbeTypeOK, probeVars
  <2>2. WatchTypeOK'
    BY <1>0, WatchTypes DEF TimePasses
  <2> QED
    BY <2>1, <2>2
<1> QED
  BY <1>1, <1>8, <1>9 DEF ScheduleInv

-----------------------------------------------------------------------------
\* What the steps do to the state of the scheduler.
LEMMA RoundStep ==
    ASSUME ProbeTypeOK, Round, ScheduleNext PROVE Round'
<1>0. Scheduler \in Probers /\ ppc \in [Probers -> {"idle", "wait", "models", "inference"}]
      /\ target \in [Probers -> KeyIds \cup {0}]
  BY DEF Probers, ProbeTypeOK
<1>1. CASE TimedTick \/ TimedList
  BY <1>0, <1>1 DEF TimedTick, TimedList, Tick, List, Round
<1>2. CASE TimedTestNext
  <2>1. PICK k \in batch : StartTest(Scheduler, k, TRUE) /\ batch' = batch \ {k}
    BY <1>2 DEF TimedTestNext, TestNext
  <2> QED
    BY <1>0, <1>2, <2>1 DEF TimedTestNext, TestNext, StartTest, Round
<1>3. CASE TimedRoundEnds
  BY <1>3 DEF TimedRoundEnds, RoundEnds, Round
<1>4. CASE TimedLockProbe
  BY <1>0, <1>4 DEF TimedLockProbe, LockProbe, EndTest, Round
<1>5. ASSUME NEW answer \in {"network", "auth", "ok", "nothing"}, TimedModelsAnswer(answer)
      PROVE  Round'
  BY <1>0, <1>5 DEF TimedModelsAnswer, ModelsAnswer, EndTest, Round
<1>6. ASSUME NEW answer \in {"quota", "auth", "ok", "nothing"}, NEW d \in Resets,
             TimedInferenceAnswer(answer, d)
      PROVE  Round'
  BY <1>0, <1>6 DEF TimedInferenceAnswer, InferenceAnswer, EndTest, Round
<1>7. CASE CatalogNext
  <2>1. UNCHANGED probeVars
    BY <1>7 DEF CatalogNext, AskCatalog, SourceAnswers, NoSourceLeft
  <2> QED
    BY <2>1 DEF probeVars, Round
<1>8. CASE RequestNext \/ TimePasses
  <2>1. UNCHANGED probeVars
    BY <1>8 DEF RequestNext, RequestBegins, RequestEnds, RequestFails, TimePasses
  <2> QED
    BY <2>1 DEF probeVars, Round
<1> QED
  BY <1>1, <1>2, <1>3, <1>4, <1>5, <1>6, <1>7, <1>8 DEF ScheduleNext, SchedulerNext

\* What the steps do to the time since Watched was tested.
LEMMA SpacedStep ==
    ASSUME ScheduleInv, Round, Spaced, ScheduleNext PROVE Spaced'
<1>0. /\ Scheduler \in Probers /\ ppc \in [Probers -> {"idle", "wait", "models", "inference"}]
      /\ target \in [Probers -> KeyIds \cup {0}]
      /\ Watched \in KeyIds /\ ProbeInterval \in Nat
      /\ age \in [KeyIds -> 0..ProbeInterval] /\ gap \in 0..ProbeInterval
  BY ScheduleAssumption DEF Probers, ScheduleInv, ProbeTypeOK, ClockTypeOK
<1>a. age[Watched] \in 0..ProbeInterval
  BY <1>0
<1>1. CASE TimedTick
  BY <1>0, <1>1 DEF TimedTick, Tick, tableVars, Spaced
<1>2. CASE TimedList
  <2>1. Watched \in batch' => age[Watched] >= ProbeInterval
    BY <1>2 DEF TimedList
  <2>2. UNCHANGED <<age, gap, ppc, target>>
    BY <1>2 DEF TimedList, List, tableVars
  <2> QED
    BY <1>0, <1>a, <2>1, <2>2 DEF Spaced
<1>3. CASE TimedTestNext
  <2>1. PICK k \in batch : StartTest(Scheduler, k, TRUE) /\ batch' = batch \ {k}
    BY <1>3 DEF TimedTestNext, TestNext
  <2>2. UNCHANGED <<age, gap>>
    BY <1>3 DEF TimedTestNext, tableVars
  <2>3. target'[Scheduler] = k
    BY <1>0, <2>1 DEF StartTest
  <2> QED
    BY <2>1, <2>2, <2>3 DEF Spaced
<1>4. CASE TimedRoundEnds
  BY <1>4 DEF TimedRoundEnds, RoundEnds, tableVars, Spaced
<1>5. CASE TimedLockProbe
  <2>1. UNCHANGED <<age, gap, batch>>
    BY <1>5 DEF TimedLockProbe, LockProbe, tableVars
  <2>2. ppc[Scheduler] = "wait"
    BY <1>5 DEF TimedLockProbe, LockProbe
  <2>3. ppc'[Scheduler] = "idle" \/ target' = target
    BY <1>0, <1>5 DEF TimedLockProbe, LockProbe, EndTest
  <2> QED
    BY <2>1, <2>2, <2>3 DEF Spaced
<1>6. ASSUME NEW answer \in {"network", "auth", "ok", "nothing"}, TimedModelsAnswer(answer)
      PROVE  Spaced'
  <2>1. UNCHANGED batch /\ ppc[Scheduler] = "models" /\ ppc'[Scheduler] \in {"idle", "inference"}
    BY <1>0, <1>6 DEF TimedModelsAnswer, ModelsAnswer, EndTest
  <2>2. gap' = IF answer = "ok" /\ target[Scheduler] = Watched THEN 0 ELSE gap
    BY <1>6 DEF TimedModelsAnswer
  <2>3. age' = [age EXCEPT ![target[Scheduler]] = 0] \/ (answer = "nothing" /\ UNCHANGED age)
    BY <1>6 DEF TimedModelsAnswer, Checked
  <2>4. target[Scheduler] \notin batch
    BY <2>1 DEF Round
  <2>5. age'[Watched] <= gap'
    BY <1>0, <1>a, <2>2, <2>3 DEF Spaced
  <2> QED
    BY <2>1, <2>2, <2>4, <2>5 DEF Spaced
<1>7. ASSUME NEW answer \in {"quota", "auth", "ok", "nothing"}, NEW d \in Resets,
             TimedInferenceAnswer(answer, d)
      PROVE  Spaced'
  <2>1. UNCHANGED <<batch, gap>> /\ ppc'[Scheduler] = "idle"
    BY <1>0, <1>7 DEF TimedInferenceAnswer, InferenceAnswer, EndTest
  <2>2. age' = [age EXCEPT ![target[Scheduler]] = 0] \/ UNCHANGED age
    BY <1>7 DEF TimedInferenceAnswer, Cools, Checked, tableVars
  <2>3. age'[Watched] <= gap'
    BY <1>0, <1>a, <2>1, <2>2 DEF Spaced
  <2> QED
    BY <2>1, <2>3 DEF Spaced
<1>8. CASE CatalogNext
  <2>1. UNCHANGED <<batch, gap, ppc, target>>
    BY <1>8 DEF CatalogNext, AskCatalog, SourceAnswers, NoSourceLeft, probeVars, watchVars
  <2>2. (\E k \in KeyIds : age' = [age EXCEPT ![k] = 0]) \/ UNCHANGED age
    BY <1>8 DEF CatalogNext, AskCatalog, SourceAnswers, NoSourceLeft, Checked, tableVars
  <2>3. age'[Watched] <= gap'
    BY <1>0, <1>a, <2>1, <2>2 DEF Spaced
  <2> QED
    BY <2>1, <2>3 DEF Spaced
<1>9. CASE RequestNext
  <2>1. UNCHANGED <<batch, gap, ppc, target>>
    BY <1>9 DEF RequestNext, RequestBegins, RequestEnds, RequestFails, probeVars, watchVars
  <2>2. (\E k \in KeyIds : age' = [age EXCEPT ![k] = 0]) \/ UNCHANGED age
    BY <1>9 DEF RequestNext, RequestBegins, RequestEnds, RequestFails, Cools, Checked, tableVars
  <2>3. age'[Watched] <= gap'
    BY <1>0, <1>a, <2>1, <2>2 DEF Spaced
  <2> QED
    BY <2>1, <2>3 DEF Spaced
<1>10. CASE TimePasses
  <2>1. UNCHANGED <<batch, ppc, target>>
    BY <1>10 DEF TimePasses, probeVars
  <2>2. age'[Watched] = Older(age[Watched], ProbeInterval) /\ gap' = Older(gap, ProbeInterval)
    BY <1>0, <1>10 DEF TimePasses
  <2>3. age'[Watched] <= gap' /\ gap' >= gap
    BY <1>0, <1>a, <2>2 DEF Older, Absent, Spaced
  <2>4. gap >= ProbeInterval => gap' >= ProbeInterval
    BY <1>0, <2>2 DEF Older
  <2> QED
    BY <2>1, <2>3, <2>4 DEF Spaced
<1> QED
  BY <1>1, <1>2, <1>3, <1>4, <1>5, <1>6, <1>7, <1>8, <1>9, <1>10 DEF ScheduleNext, SchedulerNext

\* Only requests that began longer ago than one can last lose their row.
LEMMA RowStep ==
    ASSUME ScheduleInv, OpenRequestHasItsRow, ScheduleNext PROVE OpenRequestHasItsRow'
<1>1. CASE UNCHANGED <<request, row>>
  BY <1>1, Zenon DEF OpenRequestHasItsRow
<1>2. CASE request' = Absent
  BY <1>2 DEF OpenRequestHasItsRow
<1>3. CASE RequestBegins
  BY <1>3 DEF RequestBegins, OpenRequestHasItsRow
<1>4. CASE TimedRoundEnds
  <2>1. LongestRequest <= Retention /\ request # Absent => request <= Retention
    BY ScheduleAssumption DEF ScheduleInv, ClockTypeOK
  <2>2. request' = request /\ row' = (row /\ request <= Retention)
    BY <1>4 DEF TimedRoundEnds, Purge
  <2> QED
    BY <2>1, <2>2, Zenon DEF OpenRequestHasItsRow
<1>5. CASE TimePasses
  <2>1. UNCHANGED row /\ (request' # Absent => request # Absent)
    BY <1>5 DEF TimePasses, Older
  <2> QED
    BY <2>1, Zenon DEF OpenRequestHasItsRow
<1>6. TimedRoundEnds \/ RequestBegins \/ TimePasses \/ request' = Absent \/ UNCHANGED <<request, row>>
  BY DEF ScheduleNext, SchedulerNext, CatalogNext, RequestNext, TimedTick, TimedList, TimedTestNext,
         TimedLockProbe, TimedModelsAnswer, TimedInferenceAnswer, AskCatalog, SourceAnswers,
         NoSourceLeft, RequestEnds, RequestFails, requestVars
<1> QED
  BY <1>1, <1>2, <1>3, <1>4, <1>5, <1>6

-----------------------------------------------------------------------------
(* How long a round still takes. *)

\* No call is under way while the scheduler tests nothing or waits for Service.probe.
Calls ==
    /\ ppc[Scheduler] \in {"idle", "wait"} => spent[Scheduler] = 0
    /\ ppc[Scheduler] = "idle" => target[Scheduler] = 0

\* The longest that the test at hand, and with it the round, still takes.
Current == IF ppc[Scheduler] = "wait"      THEN 2 * LongestCall ELSE
           IF ppc[Scheduler] = "models"    THEN 2 * LongestCall - spent[Scheduler] ELSE
           IF ppc[Scheduler] = "inference" THEN LongestCall - spent[Scheduler] ELSE 0

Left == Work(batch) + Current

\* What the lemmas below need of the types.
LEMMA WorkTypes ==
    ASSUME ScheduleInv, Round
    PROVE  /\ Scheduler \in Probers /\ Scheduler \in Callers
           /\ ppc \in [Probers -> {"idle", "wait", "models", "inference"}]
           /\ target \in [Probers -> KeyIds \cup {0}]
           /\ spent \in [Callers -> 0..LongestCall] /\ spent[Scheduler] \in 0..LongestCall
           /\ batch \in SUBSET KeyIds
           /\ Work(batch) \in Nat /\ Current \in Nat /\ Left \in Nat
           /\ spc # "run" => Left = 0
           /\ ppc[Scheduler] \in {"wait", "models", "inference"} => spc = "run"
<1>1. /\ Scheduler \in Probers /\ Scheduler \in Callers
      /\ ppc \in [Probers -> {"idle", "wait", "models", "inference"}]
      /\ target \in [Probers -> KeyIds \cup {0}]
      /\ spent \in [Callers -> 0..LongestCall]
      /\ batch \in SUBSET KeyIds
  BY DEF ScheduleInv, ProbeTypeOK, ClockTypeOK, Probers, Callers
<1>2. spent[Scheduler] \in 0..LongestCall
  BY <1>1
<1>3. Work(batch) \in Nat
  BY <1>1, WorkOf
<1>4. Current \in Nat
  BY <1>2, Bounds DEF Current
<1>5. spc # "run" => Work(batch) = 0 /\ Current = 0
  BY WorkOf DEF Current, Round
<1> QED
  BY <1>1, <1>2, <1>3, <1>4, <1>5 DEF Left, Round

\* What is left after a step is a time, too.
LEMMA LeftNext ==
    ASSUME ScheduleInv', Round'
    PROVE  Left' \in Nat /\ (spc' # "run" => Left' = 0)
<1>1. batch' \in SUBSET KeyIds
  BY DEF ScheduleInv, ProbeTypeOK
<1>2. spent'[Scheduler] \in 0..LongestCall
  BY DEF ScheduleInv, ClockTypeOK, Callers
<1>3. Work(batch)' = Work(batch')
  BY DEF Work
<1>4. Current' \in Nat
  BY <1>2, Bounds DEF Current
<1>5. spc' # "run" => Work(batch') = 0 /\ Current' = 0
  BY WorkOf DEF Current, Round
<1> QED
  BY <1>1, <1>3, <1>4, <1>5, WorkOf DEF Left

\* A test that begins or gets on takes no more than was foreseen.
LEMMA TestWork ==
    ASSUME ScheduleInv, Round, Calls,
           \/ TimedTestNext \/ TimedLockProbe
           \/ \E answer \in {"network", "auth", "ok", "nothing"} : TimedModelsAnswer(answer)
           \/ \E answer \in {"quota", "auth", "ok", "nothing"}, d \in Resets :
                  TimedInferenceAnswer(answer, d)
    PROVE  Left' <= Left /\ UNCHANGED <<ticked, spc>> /\ spc = "run" /\ Calls'
<1>0. /\ Scheduler \in Probers /\ Scheduler \in Callers
      /\ ppc \in [Probers -> {"idle", "wait", "models", "inference"}]
      /\ target \in [Probers -> KeyIds \cup {0}]
      /\ spent \in [Callers -> 0..LongestCall] /\ spent[Scheduler] \in 0..LongestCall
      /\ batch \in SUBSET KeyIds
      /\ Work(batch) \in Nat /\ Current \in Nat
      /\ ppc[Scheduler] \in {"wait", "models", "inference"} => spc = "run"
  BY WorkTypes
<1>a. LongestCall \in Nat
  BY Bounds
<1>1. CASE TimedTestNext
  <2>1. PICK k \in batch : StartTest(Scheduler, k, TRUE) /\ batch' = batch \ {k}
    BY <1>1 DEF TimedTestNext, TestNext
  <2>2. /\ UNCHANGED <<ticked, spc, spent>> /\ spc = "run" /\ ppc[Scheduler] = "idle"
        /\ ppc'[Scheduler] = "wait"
    BY <1>0, <1>1, <2>1 DEF TimedTestNext, TestNext, StartTest
  <2>3. Current = 0 /\ Current' = 2 * LongestCall
    BY <2>2 DEF Current
  <2>4. Work(batch) = Work(batch') + 2 * LongestCall
    BY <1>0, <2>1, WorkOf
  <2>5. Work(batch)' = Work(batch')
    BY DEF Work
  <2>6. Work(batch') \in Nat
    BY <1>0, <2>1, WorkOf
  <2> QED
    BY <1>a, <2>2, <2>3, <2>4, <2>5, <2>6 DEF Left, Calls
<1>2. ASSUME UNCHANGED <<ticked, spc, batch>>, spc = "run", Current' <= Current, Current' \in Nat, Calls'
      PROVE  Left' <= Left /\ UNCHANGED <<ticked, spc>> /\ spc = "run" /\ Calls'
  <2>1. Work(batch)' = Work(batch)
    BY <1>2 DEF Work
  <2> QED
    BY <1>0, <1>2, <2>1 DEF Left
<1>3. CASE TimedLockProbe
  <2>1. UNCHANGED <<ticked, spc, batch, spent>> /\ ppc[Scheduler] = "wait"
    BY <1>3 DEF TimedLockProbe, LockProbe
  <2>2. \/ ppc'[Scheduler] = "models"
        \/ ppc'[Scheduler] = "idle" /\ target'[Scheduler] = 0
    BY <1>0, <1>3 DEF TimedLockProbe, LockProbe, EndTest
  <2>3. Current' <= Current /\ Current' \in Nat /\ Calls'
    BY <1>a, <2>1, <2>2 DEF Current, Calls
  <2> QED
    BY <1>0, <1>2, <2>1, <2>3
<1>4. ASSUME NEW answer \in {"network", "auth", "ok", "nothing"}, TimedModelsAnswer(answer)
      PROVE  Left' <= Left /\ UNCHANGED <<ticked, spc>> /\ spc = "run" /\ Calls'
  <2>1. /\ UNCHANGED <<ticked, spc, batch>> /\ ppc[Scheduler] = "models"
        /\ spent'[Scheduler] = 0
    BY <1>0, <1>4 DEF TimedModelsAnswer, ModelsAnswer, CallBegins
  <2>2. \/ ppc'[Scheduler] = "inference"
        \/ ppc'[Scheduler] = "idle" /\ target'[Scheduler] = 0
    BY <1>0, <1>4 DEF TimedModelsAnswer, ModelsAnswer, EndTest
  <2>3. Current' <= Current /\ Current' \in Nat /\ Calls'
    BY <1>0, <1>a, <2>1, <2>2 DEF Current, Calls
  <2> QED
    BY <1>0, <1>2, <2>1, <2>3
<1>5. ASSUME NEW answer \in {"quota", "auth", "ok", "nothing"}, NEW d \in Resets,
             TimedInferenceAnswer(answer, d)
      PROVE  Left' <= Left /\ UNCHANGED <<ticked, spc>> /\ spc = "run" /\ Calls'
  <2>1. /\ UNCHANGED <<ticked, spc, batch>> /\ ppc[Scheduler] = "inference"
        /\ spent'[Scheduler] = 0
    BY <1>0, <1>5 DEF TimedInferenceAnswer, InferenceAnswer, CallBegins
  <2>2. ppc'[Scheduler] = "idle" /\ target'[Scheduler] = 0
    BY <1>0, <1>5 DEF TimedInferenceAnswer, InferenceAnswer, EndTest
  <2>3. Current' <= Current /\ Current' \in Nat /\ Calls'
    BY <1>0, <1>a, <2>1, <2>2 DEF Current, Calls
  <2> QED
    BY <1>0, <1>2, <2>1, <2>3
<1> QED
  BY <1>1, <1>3, <1>4, <1>5

\* Readers and requests leave the scheduler alone.
LEMMA OthersWork ==
    ASSUME ScheduleInv, Round, Calls, CatalogNext \/ RequestNext
    PROVE  Left' = Left /\ UNCHANGED <<ticked, probeVars>> /\ Calls'
<1>1. UNCHANGED <<ticked, probeVars>>
  BY DEF CatalogNext, AskCatalog, SourceAnswers, NoSourceLeft,
         RequestNext, RequestBegins, RequestEnds, RequestFails
<1>2. spent'[Scheduler] = spent[Scheduler]
  <2>1. CASE RequestNext
    BY <2>1 DEF RequestNext, RequestBegins, RequestEnds, RequestFails
  <2>2. CASE CatalogNext
    <3>1. PICK r \in Readers : CallBegins(r) \/ UNCHANGED spent
      BY <2>2 DEF CatalogNext, AskCatalog, SourceAnswers, NoSourceLeft
    <3>2. r # Scheduler
      BY ScheduleAssumption
    <3> QED
      BY <3>1, <3>2, WorkTypes DEF CallBegins
  <2> QED
    BY <2>1, <2>2
<1> QED
  BY <1>1, <1>2 DEF probeVars, Left, Current, Work, Calls

\* Time passes for a test, or there is none and the tick comes.
LEMMA TimeWork ==
    ASSUME ScheduleInv, Round, Calls, TimePasses
    PROVE  /\ UNCHANGED probeVars /\ ticked' = TRUE /\ Calls'
           /\ \/ spc = "sleep" /\ ~ticked /\ Left = 0 /\ Left' = 0
              \/ spc = "run" /\ Left' = Left - 1
<1>0. /\ Scheduler \in Callers /\ spent[Scheduler] \in 0..LongestCall
      /\ Work(batch) \in Nat /\ Current \in Nat
      /\ spc # "run" => Left = 0
      /\ ppc[Scheduler] \in {"wait", "models", "inference"} => spc = "run"
  BY WorkTypes
<1>a. LongestCall \in Nat
  BY Bounds
<1>1. UNCHANGED probeVars /\ ticked' = TRUE /\ SchedulerIdle
  BY DEF TimePasses
<1>2. spent'[Scheduler] = IF ppc[Scheduler] \in {"models", "inference"}
                          THEN spent[Scheduler] + 1 ELSE 0
  BY <1>0 DEF TimePasses
<1>3. Work(batch)' = Work(batch)
  BY <1>1 DEF probeVars, Work
<1>4. CASE ppc[Scheduler] \in {"models", "inference"}
  <2>1. Current' = Current - 1
    BY <1>0, <1>a, <1>1, <1>2, <1>4 DEF probeVars, Current
  <2> QED
    BY <1>0, <1>1, <1>3, <1>4, <2>1 DEF probeVars, Left, Calls
<1>5. CASE ppc[Scheduler] \notin {"models", "inference"}
  <2>1. spc = "sleep" /\ ~ticked
    BY <1>1, <1>5 DEF SchedulerIdle
  <2>2. ppc[Scheduler] = "idle"
    BY <2>1 DEF Round
  <2>3. Left = 0 /\ Left' = Left
    BY <1>0, <1>1, <1>3, <2>1, <2>2 DEF probeVars, Left, Current
  <2> QED
    BY <1>1, <1>2, <1>5, <2>1, <2>3 DEF probeVars, Calls
<1> QED
  BY <1>4, <1>5

\* The deadline of Watched is reached and nobody has noticed.
Due == /\ Watched \in DOMAIN keys
       /\ keys[Watched].quota = "cooling"
       /\ keys[Watched].until = "due"

HalfOpen == /\ Watched \in DOMAIN keys
            /\ keys[Watched].quota = "half_open"
            /\ target[Scheduler] # Watched

\* The watches follow these two states.
LEMMA WatchStep ==
    ASSUME WatchTypeOK, NEW d \in {0, 1}, Watch(d)
    PROVE  /\ late' \in Nat /\ late' <= late + d /\ (~Due' => late' = 0)
           /\ untested' \in Nat /\ untested' <= untested + d /\ (~HalfOpen' => untested' = 0)
<1> DEFINE more(t, cap) == IF t + d > cap THEN cap ELSE t + d
<1>1. /\ late \in Nat /\ untested \in Nat
      /\ more(late, RoundTime + 1) \in Nat /\ more(late, RoundTime + 1) <= late + d
      /\ more(untested, TestBound + 1) \in Nat /\ more(untested, TestBound + 1) <= untested + d
  BY Bounds DEF WatchTypeOK
<1>2. /\ late' = IF Due' THEN more(late, RoundTime + 1) ELSE 0
      /\ untested' = IF HalfOpen' THEN more(untested, TestBound + 1) ELSE 0
  BY DEF Watch, Due, HalfOpen
<1> HIDE DEF more
<1> QED
  BY <1>1, <1>2

-----------------------------------------------------------------------------
(* How long a key waits to be woken. *)

\* A tick wakes every key that is due.  Without one no time has passed since the
\* last, and a round cannot outlast RoundTime.
WakeInv ==
    /\ Calls
    /\ spc = "list" \/ ~ticked => late = 0
    /\ late + Left <= RoundTime

\* What the steps do to the time that a due key has waited.
LEMMA WakeStep ==
    ASSUME ScheduleInv, ScheduleInv', Round, Round', WakeInv, ScheduleNext
    PROVE  WakeInv'
<1>0. /\ RoundTime \in Nat /\ RoundTime >= 1 /\ WatchTypeOK
      /\ late \in Nat /\ late' \in Nat /\ Left \in Nat /\ Left' \in Nat
      /\ spc # "run" => Left = 0
      /\ spc' # "run" => Left' = 0
  <2>1. Left' \in Nat /\ (spc' # "run" => Left' = 0)
    BY LeftNext
  <2>2. RoundTime >= 1
    BY Bounds
  <2> QED
    BY <2>1, <2>2, Bounds, WorkTypes DEF ScheduleInv, WatchTypeOK
<1>a. Calls /\ (spc = "list" \/ ~ticked => late = 0)
  BY DEF WakeInv
<1>b. \A l, r \in Nat : \/ l <= late /\ r <= Left
                        \/ l <= late + 1 /\ r = Left - 1
                        \/ l <= 1 /\ r = 0
                        \/ l = 0 /\ r <= RoundTime
                        => l + r <= RoundTime
  BY <1>0 DEF WakeInv
<1>c. ASSUME Calls', spc' = "list" \/ ~ticked' => late' = 0, late' + Left' <= RoundTime
      PROVE  WakeInv'
  BY <1>c DEF WakeInv
<1>1. CASE TimedTick
  <2>1. /\ spc = "sleep" /\ spc' = "list" /\ keys' = MarkHalfOpenDue(keys)
        /\ UNCHANGED <<ppc, target, spent>> /\ Watch(0)
    BY <1>1 DEF TimedTick, Tick
  <2>2. ~Due'
    BY <2>1 DEF Due, MarkHalfOpenDue
  <2>3. late' = 0 /\ Left' = 0 /\ Calls'
    BY <1>0, <1>a, <2>1, <2>2, WatchStep DEF Calls
  <2> QED
    BY <1>0, <1>c, <2>3
<1>2. CASE TimedList
  <2>1. /\ spc = "list" /\ spc' = "run" /\ UNCHANGED <<ppc, target, spent, ticked>> /\ Watch(0)
    BY <1>2 DEF TimedList, List
  <2>2. late' = 0 /\ Calls'
    BY <1>0, <1>a, <2>1, WatchStep DEF Calls
  <2>3. Left' <= RoundTime
    <3>1. ppc[Scheduler] = "idle"
      BY <2>1 DEF Round
    <3>2. Current' = 0
      BY <2>1, <3>1 DEF Current
    <3>3. batch' \in SUBSET KeyIds
      BY DEF ScheduleInv, ProbeTypeOK
    <3>4. Work(batch') \in Nat /\ Work(batch') <= RoundTime
      BY <3>3, WorkOf
    <3>5. Work(batch)' = Work(batch')
      BY DEF Work
    <3> QED
      BY <3>2, <3>4, <3>5 DEF Left
  <2>4. late' + Left' <= RoundTime
    BY <1>0, <1>b, <2>2, <2>3, Zenon
  <2> QED
    BY <1>c, <2>2, <2>4
<1>3. ASSUME Watch(0) \/ UNCHANGED late, Left' <= Left, Calls', UNCHANGED ticked, spc' # "list"
      PROVE  WakeInv'
  <2>1. late' <= late
    BY <1>0, <1>3, WatchStep
  <2>2. ~ticked' => late' = 0
    BY <1>0, <1>3, <1>a, <2>1
  <2>3. late' + Left' <= RoundTime
    BY <1>0, <1>3, <1>b, <2>1, Zenon
  <2> QED
    BY <1>3, <1>c, <2>2, <2>3, Zenon
<1>4. CASE \/ TimedTestNext \/ TimedLockProbe
           \/ \E answer \in {"network", "auth", "ok", "nothing"} : TimedModelsAnswer(answer)
           \/ \E answer \in {"quota", "auth", "ok", "nothing"}, d \in Resets :
                  TimedInferenceAnswer(answer, d)
  <2>1. Left' <= Left /\ UNCHANGED <<ticked, spc>> /\ spc = "run" /\ Calls'
    BY <1>4, <1>a, TestWork
  <2>2. Watch(0)
    BY <1>4 DEF TimedTestNext, TimedLockProbe, TimedModelsAnswer, TimedInferenceAnswer
  <2> QED
    BY <1>3, <2>1, <2>2
<1>5. CASE TimedRoundEnds
  <2>1. /\ spc' = "sleep" /\ UNCHANGED <<ppc, target, spent, ticked>> /\ Watch(0)
    BY <1>5 DEF TimedRoundEnds, RoundEnds
  <2>2. Left' <= Left /\ Calls'
    BY <1>0, <1>a, <2>1 DEF Calls
  <2> QED
    BY <1>3, <2>1, <2>2
<1>6. CASE CatalogNext \/ RequestNext
  <2>1. Left' = Left /\ UNCHANGED <<ticked, probeVars>> /\ Calls'
    BY <1>6, <1>a, OthersWork
  <2>2. Watch(0) \/ UNCHANGED late
    BY <1>6 DEF CatalogNext, AskCatalog, SourceAnswers, NoSourceLeft,
                RequestNext, RequestBegins, RequestEnds, RequestFails, watchVars
  <2>3. CASE spc = "list"
    <3>1. late' = 0
      BY <1>0, <1>a, <2>2, <2>3, WatchStep
    <3>2. late' + Left' <= RoundTime
      <4>1. late' <= late /\ Left' <= Left
        BY <1>0, <1>a, <2>1, <2>3, <3>1
      <4> QED
        BY <1>0, <1>b, <4>1, Zenon
    <3> QED
      BY <1>c, <2>1, <3>1, <3>2
  <2> QED
    BY <1>0, <1>3, <2>1, <2>2, <2>3 DEF probeVars
<1>7. CASE TimePasses
  <2>1. /\ UNCHANGED probeVars /\ ticked' = TRUE /\ Calls'
        /\ \/ spc = "sleep" /\ ~ticked /\ Left = 0 /\ Left' = 0
           \/ spc = "run" /\ Left' = Left - 1
    BY <1>7, <1>a, TimeWork
  <2>2. late' <= late + 1
    BY <1>0, <1>7, WatchStep DEF TimePasses
  <2>3. late' + Left' <= RoundTime
    <3>1. CASE spc = "sleep" /\ ~ticked /\ Left = 0 /\ Left' = 0
      <4>1. late' <= 1
        BY <1>0, <1>a, <2>2, <3>1
      <4> QED
        BY <1>0, <1>b, <3>1, <4>1, Zenon
    <3>2. CASE spc = "run" /\ Left' = Left - 1
      BY <1>0, <1>b, <2>2, <3>2, Zenon
    <3> QED
      BY <2>1, <3>1, <3>2
  <2> QED
    BY <1>c, <2>1, <2>3 DEF probeVars
<1> QED
  BY <1>1, <1>2, <1>4, <1>5, <1>6, <1>7 DEF ScheduleNext, SchedulerNext

-----------------------------------------------------------------------------
(* How long a half-open key waits to be tested. *)

Refused == Watched \in DOMAIN keys /\ keys[Watched].auth = "invalid"

\* The requests for the catalog that may still mark it as checked.
Armed == {r \in Readers : Watched \in todo[r]}

\* Time until a round lists it, if nothing marks it as checked before.
ToList == IF age[Watched] < ProbeInterval THEN ProbeInterval - age[Watched] + MissedRound
          ELSE IF spc = "list" THEN 0
          ELSE Left + (IF ticked THEN 0 ELSE 1)

\* No request for the catalog that begins before it is listed asks it.
Closed == Refused \/ (fetched # Absent /\ ToList < CacheTime - fetched)

\* How often it may still be marked as checked before it is listed.
Events == IF Closed THEN 2 * Cardinality(Armed) + (IF Refused THEN 0 ELSE 1)
          ELSE 2 * Cardinality(Readers) + 1

\* u units untested, t until it is listed and e events that put that off.
Waits(u, t, e) == t <= ListBound /\ u + t + e * ListBound + OthersTime <= TestBound

\* If it is not in the round, the others are soon done; if it is, they are done by
\* the bound; and until it is listed there is time for the events to come.
Budget ==
    HalfOpen => /\ Watched \notin batch /\ spc = "run" => Left <= OthersTime
                /\ Watched \in batch => untested + Left <= TestBound + 2 * LongestCall
                /\ Watched \notin batch => Waits(untested, ToList, Events)

TestInv ==
    /\ Watched \in DOMAIN keys => keys[Watched].enabled
    /\ \A r \in Readers : rpc[r] = "idle" => todo[r] = {}
    /\ ~HalfOpen => untested = 0
    /\ Budget

\* The arithmetic of waiting: time passes or not, or an event happens, for which
\* there was a provision; how it begins, and what is left when it is listed.
LEMMA Waiting ==
    /\ \A u, t, e, v, s, f \in Nat :
          /\ Waits(u, t, e)
          /\ \/ v <= u /\ s <= t /\ f <= e
             \/ v <= u + 1 /\ s <= t - 1 /\ f <= e
             \/ v <= u /\ s <= ListBound /\ f <= e - 1
          => Waits(v, s, f)
    /\ \A t, e \in Nat :
          t <= ListBound /\ e <= 2 * Cardinality(Readers) + 1 => Waits(0, t, e)
    /\ \A u, t, e \in Nat : Waits(u, t, e) => u + OthersTime <= TestBound
<1> DEFINE l == ListBound
<1> DEFINE n == 2 * Cardinality(Readers) + 2
<1>1. l \in Nat /\ n \in Nat /\ OthersTime \in Nat /\ TestBound \in Nat
  BY Bounds
<1>2. TestBound = n * l + OthersTime
  BY DEF TestBound
<1>3. \A u, t, e : Waits(u, t, e) <=> t <= l /\ u + t + e * l + OthersTime <= TestBound
  BY DEF Waits
<1>4. \A e \in Nat : e <= 2 * Cardinality(Readers) + 1 <=> e <= n - 1
  BY Bounds
<1> HIDE DEF l, n
<1>5. \A e, f \in Nat : /\ e * l \in Nat
                        /\ f <= e => f * l <= e * l
                        /\ f <= e - 1 => f * l + l <= e * l
  <2>1. \A e, f \in Nat : e * l \in Nat /\ (f <= e => f * l <= e * l)
    BY <1>1
  <2>2. ASSUME NEW e \in Nat, NEW f \in Nat, f <= e - 1 PROVE f * l + l <= e * l
    <3>1. (f + 1) * l <= e * l
      BY <2>1, <2>2
    <3>2. (f + 1) * l = f * l + l
      BY <1>1
    <3> QED
      BY <3>1, <3>2
  <2> QED
    BY <2>1, <2>2
<1>6. ASSUME NEW u \in Nat, NEW t \in Nat, NEW e \in Nat, NEW v \in Nat, NEW s \in Nat, NEW f \in Nat,
             Waits(u, t, e),
             \/ v <= u /\ s <= t /\ f <= e
             \/ v <= u + 1 /\ s <= t - 1 /\ f <= e
             \/ v <= u /\ s <= l /\ f <= e - 1
      PROVE  Waits(v, s, f)
  <2>1. /\ e * l \in Nat /\ f * l \in Nat
        /\ f <= e => f * l <= e * l
        /\ f <= e - 1 => f * l + l <= e * l
    BY <1>5
  <2>2. t <= l /\ u + t + e * l + OthersTime <= TestBound
    BY <1>3, <1>6
  <2> DEFINE x == e * l
  <2> DEFINE y == f * l
  <2> HIDE DEF x, y
  <2>3. s <= l /\ v + s + y + OthersTime <= TestBound
    BY <1>1, <1>6, <2>1, <2>2 DEF x, y
  <2> QED
    BY <1>3, <2>3 DEF y
<1>7. ASSUME NEW t \in Nat, NEW e \in Nat, t <= l, e <= n - 1 PROVE Waits(0, t, e)
  <2>1. e * l + l <= n * l /\ e * l \in Nat /\ n * l \in Nat
    BY <1>1, <1>5, <1>7
  <2> QED
    BY <1>1, <1>2, <1>3, <1>7, <2>1
<1>8. ASSUME NEW u \in Nat, NEW t \in Nat, NEW e \in Nat, Waits(u, t, e)
      PROVE  u + OthersTime <= TestBound
  <2>1. e * l \in Nat
    BY <1>5
  <2> QED
    BY <1>1, <1>3, <1>8, <2>1
<1> QED
  BY <1>4, <1>6, <1>7, <1>8 DEF l

\* Sets of readers are finite.
LEMMA ReaderSets ==
    \A s \in SUBSET Readers :
        /\ Cardinality(s) \in Nat /\ Cardinality(s) <= Cardinality(Readers)
        /\ \A t \in SUBSET s : Cardinality(t) <= Cardinality(s)
        /\ \A r \in s : \A t \in SUBSET (s \ {r}) : Cardinality(t) <= Cardinality(s) - 1
<1> SUFFICES ASSUME NEW s \in SUBSET Readers
             PROVE  /\ Cardinality(s) \in Nat /\ Cardinality(s) <= Cardinality(Readers)
                    /\ \A t \in SUBSET s : Cardinality(t) <= Cardinality(s)
                    /\ \A r \in s : \A t \in SUBSET (s \ {r}) : Cardinality(t) <= Cardinality(s) - 1
  OBVIOUS
<1>1. IsFiniteSet(s) /\ Cardinality(s) \in Nat /\ Cardinality(s) <= Cardinality(Readers)
  BY ScheduleAssumption, FS_Subset, FS_CardinalityType
<1>2. \A t \in SUBSET s : Cardinality(t) <= Cardinality(s)
  BY <1>1, FS_Subset
<1>3. ASSUME NEW r \in s, NEW t \in SUBSET (s \ {r}) PROVE Cardinality(t) <= Cardinality(s) - 1
  <2>1. IsFiniteSet(s \ {r}) /\ Cardinality(s \ {r}) \in Nat
    BY <1>1, FS_Subset, FS_CardinalityType
  <2>2. Cardinality(s) = Cardinality(s \ {r}) + 1
    <3>1. (s \ {r}) \cup {r} = s
      OBVIOUS
    <3> QED
      BY <2>1, <3>1, FS_AddElement
  <2>3. Cardinality(t) <= Cardinality(s \ {r}) /\ Cardinality(t) \in Nat
    BY <2>1, FS_Subset, FS_CardinalityType
  <2> QED
    BY <2>1, <2>2, <2>3
<1> QED
  BY <1>1, <1>2, <1>3

\* There are never more events to come than the readers can cause.
LEMMA EventsMost ==
    /\ Events \in Nat /\ Events <= 2 * Cardinality(Readers) + 1
    /\ Events' \in Nat /\ Events' <= 2 * Cardinality(Readers) + 1
<1>1. Armed \in SUBSET Readers /\ Armed' \in SUBSET Readers
  BY DEF Armed
<1>2. /\ Cardinality(Armed) \in Nat /\ Cardinality(Armed) <= Cardinality(Readers)
      /\ Cardinality(Armed') \in Nat /\ Cardinality(Armed') <= Cardinality(Readers)
      /\ Cardinality(Readers) \in Nat
  BY <1>1, ReaderSets, Bounds
<1> QED
  BY <1>2 DEF Events

\* A reader that asks no more, or a refusal, makes them fewer.
LEMMA EventsLess ==
    /\ Armed' \subseteq Armed /\ (Closed => Closed') /\ (Refused => Refused') => Events' <= Events
    /\ Armed' \subseteq Armed /\ Closed' /\ ~Refused /\ Refused' => Events' <= Events - 1
    /\ \A r \in Armed : Armed' \subseteq Armed \ {r} /\ Closed' => Events' <= Events - 1
<1> DEFINE a == Cardinality(Armed)
<1> DEFINE b == Cardinality(Armed')
<1> DEFINE n == Cardinality(Readers)
<1>1. Armed \in SUBSET Readers /\ Armed' \in SUBSET Readers
  BY DEF Armed
<1>2. a \in Nat /\ b \in Nat /\ n \in Nat /\ a <= n /\ b <= n
  BY <1>1, ReaderSets, Bounds
<1>3. Armed' \subseteq Armed => b <= a
  BY <1>1, ReaderSets
<1>4. \A r \in Armed : Armed' \subseteq Armed \ {r} => b <= a - 1
  BY <1>1, ReaderSets
<1>5. /\ Events = IF Closed THEN 2 * a + (IF Refused THEN 0 ELSE 1) ELSE 2 * n + 1
      /\ Events' = IF Closed' THEN 2 * b + (IF Refused' THEN 0 ELSE 1) ELSE 2 * n + 1
  BY DEF Events
<1> HIDE DEF a, b, n
<1>6. ASSUME Armed' \subseteq Armed, Closed => Closed', Refused => Refused' PROVE Events' <= Events
  BY <1>2, <1>3, <1>5, <1>6
<1>7. ASSUME Armed' \subseteq Armed, Closed', ~Refused, Refused' PROVE Events' <= Events - 1
  BY <1>2, <1>3, <1>5, <1>7
<1>8. ASSUME NEW r \in Armed, Armed' \subseteq Armed \ {r}, Closed' PROVE Events' <= Events - 1
  <2>1. b <= a - 1
    BY <1>4, <1>8
  <2> QED
    BY <1>2, <1>5, <1>8, <2>1
<1> QED
  BY <1>6, <1>7, <1>8

\* How long it takes to list a key that the round at hand has passed over.
LEMMA ListTypes ==
    ASSUME ScheduleInv, Round
    PROVE  ToList \in Nat /\ (Left <= OthersTime => ToList <= ListBound)
<1>1. age[Watched] \in 0..ProbeInterval /\ Left \in Nat
  BY ScheduleAssumption, WorkTypes DEF ScheduleInv, ClockTypeOK
<1> QED
  BY <1>1, Bounds DEF ToList, ListBound

\* The same after a step.
LEMMA ListTypesNext ==
    ASSUME ScheduleInv', Round'
    PROVE  ToList' \in Nat /\ (Left' <= OthersTime => ToList' <= ListBound)
<1>1. age'[Watched] \in 0..ProbeInterval /\ Left' \in Nat
  BY ScheduleAssumption, LeftNext DEF ScheduleInv, ClockTypeOK
<1> DEFINE list(a, s, l, t) == IF a < ProbeInterval THEN ProbeInterval - a + MissedRound
                               ELSE IF s = "list" THEN 0
                               ELSE l + (IF t THEN 0 ELSE 1)
<1>2. ASSUME NEW a \in 0..ProbeInterval, NEW l \in Nat, NEW s, NEW t
      PROVE  list(a, s, l, t) \in Nat /\ (l <= OthersTime => list(a, s, l, t) <= ListBound)
  BY Bounds DEF ListBound
<1>3. ToList' = list(age'[Watched], spc', Left', ticked')
  BY DEF ToList
<1> HIDE DEF list
<1> QED
  BY <1>1, <1>2, <1>3

\* A round that gets on brings the next one closer, and closes the catalog no later.
LEMMA ListLess ==
    ASSUME ScheduleInv, ScheduleInv', Round, Round', Left' <= Left,
           age'[Watched] = age[Watched], ticked' = ticked \/ spc' = "list",
           spc = "list" => spc' = "list"
    PROVE  /\ ToList' <= ToList
           /\ UNCHANGED fetched /\ (Refused => Refused') => (Closed => Closed')
<1>1. /\ age[Watched] \in 0..ProbeInterval /\ Left \in Nat /\ Left' \in Nat
      /\ fetched \in 0..CacheTime \cup {Absent}
  BY ScheduleAssumption, WorkTypes, LeftNext DEF ScheduleInv, ClockTypeOK
<1>2. ToList' <= ToList
  BY <1>1, Bounds DEF ToList
<1>3. ASSUME UNCHANGED fetched, Refused => Refused', Closed PROVE Closed'
  <2>1. ToList \in Nat /\ ToList' \in Nat /\ CacheTime \in Nat
    BY ListTypes, ListTypesNext, ScheduleAssumption
  <2>2. CASE Refused
    BY <1>3, <2>2 DEF Closed
  <2>3. CASE fetched # Absent /\ ToList < CacheTime - fetched
    BY <1>1, <1>2, <1>3, <2>1, <2>3 DEF Closed, Absent
  <2> QED
    BY <1>3, <2>2, <2>3 DEF Closed
<1> QED
  BY <1>2, <1>3

\* What is written to other keys does not concern it.
SameRow == /\ DOMAIN keys' = DOMAIN keys
           /\ Watched \in DOMAIN keys => keys'[Watched] = keys[Watched]

\* A step writes at most one key of the table, apart from MarkHalfOpenDue and time.
Marks(k) == \/ keys' \in {keys, MarkUsed(keys, k), MarkInvalid(keys, k)}
            \/ \E auth : keys' = MarkChecked(keys, k, auth)
            \/ \E until : keys' = MarkQuota(keys, k, until)

\* Such a write to another key leaves the watched one as it is.
LEMMA MarkOthers ==
    ASSUME NEW k, k # Watched, Marks(k) PROVE SameRow
BY DEF Marks, SameRow, MarkUsed, MarkInvalid, MarkChecked, MarkQuota

\* What the handlers write, by key.
LEMMA MarkSteps ==
    /\ \A answer \in {"network", "auth", "ok", "nothing"} :
          TimedModelsAnswer(answer) => Marks(target[Scheduler])
    /\ \A answer \in {"quota", "auth", "ok", "nothing"} : \A d :
          TimedInferenceAnswer(answer, d) => Marks(target[Scheduler])
    /\ \A r, k : \A answer \in {"ok", "auth", "nothing"} : SourceAnswers(r, k, answer) => Marks(k)
    /\ \A k, d : \A answer \in {"used", "quota", "auth"} : RequestEnds(k, answer, d) => Marks(k)
<1>1. ASSUME NEW answer \in {"network", "auth", "ok", "nothing"}, TimedModelsAnswer(answer)
      PROVE  Marks(target[Scheduler])
  <2>1. \/ keys' = keys
        \/ keys' = MarkInvalid(keys, target[Scheduler])
        \/ keys' = MarkChecked(keys, target[Scheduler], "unknown")
        \/ keys' = MarkChecked(keys, target[Scheduler], "valid")
    BY <1>1 DEF TimedModelsAnswer, ModelsAnswer
  <2> QED
    BY <2>1 DEF Marks
<1>2. ASSUME NEW answer \in {"quota", "auth", "ok", "nothing"}, NEW d,
             TimedInferenceAnswer(answer, d)
      PROVE  Marks(target[Scheduler])
  <2>1. \/ keys' \in {keys, MarkUsed(keys, target[Scheduler]), MarkInvalid(keys, target[Scheduler])}
        \/ keys' = MarkQuota(keys, target[Scheduler], IF d = 0 THEN "due" ELSE "future")
    BY <1>2 DEF TimedInferenceAnswer, InferenceAnswer
  <2> QED
    BY <2>1 DEF Marks
<1>3. ASSUME NEW r, NEW k, NEW answer \in {"ok", "auth", "nothing"}, SourceAnswers(r, k, answer)
      PROVE  Marks(k)
  <2>1. keys' \in {keys, MarkInvalid(keys, k), MarkChecked(keys, k, "valid")}
    BY <1>3 DEF SourceAnswers
  <2> QED
    BY <2>1 DEF Marks
<1>4. ASSUME NEW k, NEW d, NEW answer \in {"used", "quota", "auth"}, RequestEnds(k, answer, d)
      PROVE  Marks(k)
  <2>1. \/ keys' \in {MarkUsed(keys, k), MarkInvalid(keys, k)}
        \/ keys' = MarkQuota(keys, k, IF d = 0 THEN "due" ELSE "future")
    BY <1>4 DEF RequestEnds, Cools
  <2> QED
    BY <2>1 DEF Marks
<1> QED
  BY <1>1, <1>2, <1>3, <1>4

\* The other writes to the table.
LEMMA TableMoves ==
    ASSUME ScheduleNext
    PROVE  TimePasses \/ keys' = MarkHalfOpenDue(keys) \/ \E k : Marks(k)
<1>1. CASE UNCHANGED keys
  BY <1>1 DEF Marks
<1> QED
  BY <1>1, MarkSteps
     DEF ScheduleNext, SchedulerNext, CatalogNext, RequestNext, TimedTick, Tick, TimedList, List,
         TimedTestNext, TestNext, TimedRoundEnds, RoundEnds, TimedLockProbe, LockProbe,
         AskCatalog, NoSourceLeft, RequestBegins, RequestFails

\* Neither is it tested or refused by that.
LEMMA SameWatched ==
    ASSUME SameRow, target'[Scheduler] = Watched <=> target[Scheduler] = Watched
    PROVE  /\ HalfOpen' <=> HalfOpen
           /\ Refused' <=> Refused
           /\ Watched \in DOMAIN keys' => keys'[Watched].enabled = keys[Watched].enabled
BY DEF SameRow, HalfOpen, Refused

\* Which steps let the watches run, and which touch nothing they look at.
LEMMA Watches ==
    ASSUME ScheduleNext
    PROVE  \/ TimePasses /\ Watch(1)
           \/ Watch(0)
           \/ UNCHANGED <<late, untested, keys, probeVars>>
BY DEF ScheduleNext, SchedulerNext, CatalogNext, RequestNext, TimePasses, TimedTick, TimedList,
       TimedTestNext, TimedRoundEnds, TimedLockProbe, TimedModelsAnswer, TimedInferenceAnswer,
       AskCatalog, SourceAnswers, NoSourceLeft, RequestBegins, RequestEnds, RequestFails, watchVars

\* Nothing disables a key, no reader that is idle asks one, and only a half-open
\* key is watched.
LEMMA TestFrame ==
    ASSUME ScheduleInv, TestInv, ScheduleNext
    PROVE  /\ Watched \in DOMAIN keys' => keys'[Watched].enabled
           /\ \A r \in Readers : rpc'[r] = "idle" => todo'[r] = {}
           /\ ~HalfOpen' => untested' = 0
<1>0. /\ \A i \in DOMAIN keys : keys[i] \in KeyRow
      /\ todo \in [Readers -> SUBSET KeyIds] /\ rpc \in [Readers -> {"idle", "ask"}]
      /\ WatchTypeOK
  BY DEF ScheduleInv, TableInv, IsKeyTable, ClockTypeOK
<1>1. Watched \in DOMAIN keys' => keys'[Watched].enabled
  <2>1. \A k, x : /\ DOMAIN MarkUsed(keys, k) = DOMAIN keys
                  /\ DOMAIN MarkInvalid(keys, k) = DOMAIN keys
                  /\ DOMAIN MarkChecked(keys, k, x) = DOMAIN keys
                  /\ DOMAIN MarkQuota(keys, k, x) = DOMAIN keys
    BY DEF MarkUsed, MarkInvalid, MarkChecked, MarkQuota
  <2>2. \A k, x : \A i \in DOMAIN keys :
              /\ MarkUsed(keys, k)[i].enabled = keys[i].enabled
              /\ MarkInvalid(keys, k)[i].enabled = keys[i].enabled
              /\ MarkChecked(keys, k, x)[i].enabled = keys[i].enabled
              /\ MarkQuota(keys, k, x)[i].enabled = keys[i].enabled
    BY <1>0 DEF KeyRow, MarkUsed, MarkInvalid, MarkChecked, MarkQuota
  <2>3. \A i \in DOMAIN keys' : i \in DOMAIN keys /\ keys'[i].enabled = keys[i].enabled
    <3>1. CASE keys' = keys
      BY <3>1
    <3>2. CASE \E k : keys' \in {MarkUsed(keys, k), MarkInvalid(keys, k)}
      BY <2>1, <2>2, <3>2
    <3>3. CASE \E k, x : keys' \in {MarkChecked(keys, k, x), MarkQuota(keys, k, x)}
      BY <2>1, <2>2, <3>3
    <3>4. CASE keys' = MarkHalfOpenDue(keys)
      BY <1>0, <3>4 DEF KeyRow, MarkHalfOpenDue
    <3>5. CASE TimePasses
      BY <1>0, <3>5 DEF KeyRow, TimePasses
    <3> QED
      BY <3>1, <3>2, <3>3, <3>4, <3>5, TableMoves DEF Marks
  <2> QED
    BY <2>3 DEF TestInv
<1>2. ASSUME NEW r \in Readers, rpc'[r] = "idle" PROVE todo'[r] = {}
  <2>1. rpc[r] = "idle" => todo[r] = {}
    BY DEF TestInv
  <2>2. CASE UNCHANGED <<rpc, todo>>
    BY <1>2, <2>1, <2>2
  <2>3. CASE \E s \in Readers : AskCatalog(s)
    BY <1>0, <1>2, <2>1, <2>3 DEF AskCatalog
  <2>4. CASE \E s \in Readers : NoSourceLeft(s)
    BY <1>0, <1>2, <2>1, <2>4 DEF NoSourceLeft
  <2>5. ASSUME NEW s \in Readers, NEW k \in KeyIds, NEW answer, SourceAnswers(s, k, answer)
        PROVE  todo'[r] = {}
    <3>1. \/ todo' = [todo EXCEPT ![s] = {}] /\ rpc' = [rpc EXCEPT ![s] = "idle"]
          \/ rpc[s] = "ask" /\ todo' = [todo EXCEPT ![s] = @ \ {k}] /\ UNCHANGED rpc
      BY <2>5 DEF SourceAnswers
    <3> QED
      BY <1>0, <1>2, <2>1, <3>1
  <2> QED
    BY <2>2, <2>3, <2>4, <2>5
       DEF ScheduleNext, SchedulerNext, CatalogNext, RequestNext, TimePasses, TimedTick, TimedList,
           TimedTestNext, TimedRoundEnds, TimedLockProbe, TimedModelsAnswer, TimedInferenceAnswer,
           RequestBegins, RequestEnds, RequestFails, catalogVars
<1>3. ASSUME ~HalfOpen' PROVE untested' = 0
  <2>1. CASE UNCHANGED <<late, untested, keys, probeVars>>
    BY <1>3, <2>1 DEF TestInv, HalfOpen, probeVars
  <2>2. CASE Watch(0) \/ Watch(1)
    BY <1>0, <1>3, <2>2, WatchStep
  <2> QED
    BY <2>1, <2>2, Watches
<1> QED
  BY <1>1, <1>2, <1>3

\* Whoever has just been checked is listed one probe interval and a round later.
LEMMA JustChecked ==
    ASSUME age'[Watched] = 0
    PROVE  ToList' = ListBound
<1> DEFINE list(a) == IF a < ProbeInterval THEN ProbeInterval - a + MissedRound
                      ELSE IF spc' = "list" THEN 0
                      ELSE Left' + (IF ticked' THEN 0 ELSE 1)
<1>1. ToList' = list(age'[Watched])
  BY DEF ToList
<1>2. list(0) = ListBound
  BY Bounds DEF ListBound
<1> HIDE DEF list
<1> QED
  BY <1>1, <1>2

\* What the steps do to the time that is left for the test of a half-open key: one
\* step for each way to keep within it, and then one for each action.
LEMMA TestStep ==
    ASSUME ScheduleInv, ScheduleInv', Round, Round', WakeInv, TestInv, ScheduleNext,
           AutoProbe, CacheTime > ListBound
    PROVE  Budget'
<1> SUFFICES ASSUME HalfOpen' PROVE Budget'
  BY DEF Budget
<1>0. /\ Left \in Nat /\ Left' \in Nat /\ ToList \in Nat /\ ToList' \in Nat
      /\ Events \in Nat /\ Events' \in Nat /\ WatchTypeOK
      /\ untested \in Nat /\ untested' \in Nat
      /\ Left' <= OthersTime => ToList' <= ListBound
      /\ spc' # "run" => Left' = 0
      /\ Calls
  BY WorkTypes, LeftNext, ListTypes, ListTypesNext, EventsMost, Bounds
     DEF ScheduleInv, WatchTypeOK, WakeInv
<1>a. /\ Scheduler \in Probers /\ Watched \in KeyIds /\ Watched # 0
      /\ ppc \in [Probers -> {"idle", "wait", "models", "inference"}]
      /\ target \in [Probers -> KeyIds \cup {0}]
      /\ batch \in SUBSET KeyIds /\ batch' \in SUBSET KeyIds
      /\ age \in [KeyIds -> 0..ProbeInterval] /\ fetched \in 0..CacheTime \cup {Absent}
      /\ todo \in [Readers -> SUBSET KeyIds]
      /\ OthersTime \in Nat /\ TestBound \in Nat /\ ListBound \in Nat /\ CacheTime \in Nat
      /\ LongestCall \in Nat
  BY ScheduleAssumption, StoreAssumption, WorkTypes, Bounds
     DEF ScheduleInv, ProbeTypeOK, ClockTypeOK
<1>b. /\ HalfOpen /\ Watched \notin batch /\ spc = "run" => Left <= OthersTime
      /\ HalfOpen /\ Watched \in batch => untested + Left <= TestBound + 2 * LongestCall
      /\ HalfOpen /\ Watched \notin batch => Waits(untested, ToList, Events)
      /\ ~HalfOpen => untested = 0
  BY DEF TestInv, Budget
<1>1. ASSUME HalfOpen, Watched \notin batch, Watched \notin batch', spc' = "run" => Left' <= OthersTime,
             untested' <= untested,
             \/ ToList' <= ToList /\ Events' <= Events
             \/ ToList' <= ListBound /\ Events' <= Events - 1
      PROVE  Budget'
  <2>0. ASSUME NEW v \in Nat, NEW x \in Nat, NEW f \in Nat, v <= untested,
               \/ x <= ToList /\ f <= Events
               \/ x <= ListBound /\ f <= Events - 1
        PROVE  Waits(v, x, f)
    <3>1. /\ Waits(untested, ToList, Events)
          /\ untested \in Nat /\ ToList \in Nat /\ Events \in Nat
      BY <1>0, <1>b, <1>1
    <3> QED
      BY <2>0, <3>1, Waiting
  <2>1. Waits(untested', ToList', Events')
    BY <1>0, <1>1, <2>0, Zenon
  <2>2. Waits(untested, ToList, Events)' <=> Waits(untested', ToList', Events')
    BY DEF Waits
  <2> QED
    BY <1>1, <2>1, <2>2, Zenon DEF Budget
<1>2. ASSUME HalfOpen, Watched \in batch, Watched \in batch', untested' <= untested, Left' <= Left
      PROVE  Budget'
  <2>1. \A u, l \in Nat : u <= untested /\ l <= Left => u + l <= TestBound + 2 * LongestCall
    BY <1>0, <1>a, <1>b, <1>2
  <2>2. untested' + Left' <= TestBound + 2 * LongestCall
    BY <1>0, <1>2, <2>1, Zenon
  <2> QED
    BY <1>2, <2>2, Zenon DEF Budget
<1>3. ASSUME untested' = 0, Watched \notin batch', Left' <= OthersTime
      PROVE  Budget'
  <2>1. ToList' <= ListBound /\ Events' <= 2 * Cardinality(Readers) + 1
    BY <1>0, <1>3, EventsMost
  <2>2. Waits(0, ToList', Events')
    BY <1>0, <2>1, Waiting
  <2>3. Waits(untested, ToList, Events)' <=> Waits(untested', ToList', Events')
    BY DEF Waits
  <2> QED
    BY <1>3, <2>2, <2>3, Zenon DEF Budget
<1>4. ASSUME HalfOpen, Watched \in batch' <=> Watched \in batch, untested' <= untested,
             Left' <= Left, spc' = "run" => spc = "run",
             ticked' = ticked \/ spc' = "list", age'[Watched] = age[Watched],
             spc = "list" => spc' = "list",
             \/ Events' <= Events
             \/ UNCHANGED <<todo, fetched>> /\ (Refused => Refused')
      PROVE  Budget'
  <2>1. ToList' <= ToList /\ (UNCHANGED fetched /\ (Refused => Refused') => (Closed => Closed'))
    BY <1>4, ListLess
  <2>2. UNCHANGED todo => Armed' \subseteq Armed
    BY DEF Armed
  <2>3. Events' <= Events
    BY <1>4, <2>1, <2>2, EventsLess
  <2>4. spc' = "run" /\ Watched \notin batch => Left' <= OthersTime
    BY <1>0, <1>a, <1>b, <1>4
  <2> QED
    BY <1>1, <1>2, <1>4, <2>1, <2>3, <2>4
<1>5. CASE TimedTick
  <2>1. /\ spc = "sleep" /\ spc' = "list" /\ keys' = MarkHalfOpenDue(keys) /\ Watch(0)
        /\ UNCHANGED <<target, batch, age, todo, fetched>>
    BY <1>5 DEF TimedTick, Tick, tableVars, catalogVars
  <2>2. untested' <= untested
    BY <1>0, <2>1, WatchStep
  <2>3. Watched \notin batch' /\ Left' = 0
    BY <1>0, <2>1 DEF Round
  <2>4. Refused => Refused'
    BY <2>1 DEF Refused, MarkHalfOpenDue, ScheduleInv, TableInv, IsKeyTable, KeyRow
  <2>5. CASE HalfOpen
    BY <1>0, <1>4, <2>1, <2>2, <2>3, <2>4, <2>5
  <2>6. CASE ~HalfOpen
    BY <1>0, <1>a, <1>b, <1>3, <2>2, <2>3, <2>6
  <2> QED
    BY <2>5, <2>6
<1>6. CASE TimedList
  <2>1. /\ spc = "list" /\ spc' = "run" /\ Watch(0)
        /\ UNCHANGED <<keys, target, ppc, spent, ticked, age, todo, fetched>>
        /\ Watched \in batch' <=> /\ Watched \in DOMAIN keys /\ keys[Watched].quota = "half_open"
                                  /\ keys[Watched].enabled /\ age[Watched] >= ProbeInterval
    BY <1>6 DEF TimedList, List, tableVars, catalogVars
  <2>2. untested' <= untested
    BY <1>0, <2>1, WatchStep
  <2>3. HalfOpen /\ batch = {} /\ Watched \in DOMAIN keys /\ keys[Watched].quota = "half_open"
    BY <2>1 DEF HalfOpen, Round
  <2>4. Left' = Work(batch')
    <3>1. Current' = 0
      BY <2>1 DEF Round, Current
    <3>2. Work(batch)' = Work(batch') /\ Work(batch') \in Nat
      BY <1>a, WorkOf DEF Work
    <3> QED
      BY <3>1, <3>2 DEF Left
  <2>5. CASE Watched \in batch'
    <3>1. untested + OthersTime <= TestBound
      BY <1>0, <1>b, <2>3, Waiting
    <3>2. Left' <= OthersTime + 2 * LongestCall
      BY <1>a, <2>4, WorkOf, Bounds
    <3>3. \A u, l \in Nat : u <= untested /\ l <= OthersTime + 2 * LongestCall
                            => u + l <= TestBound + 2 * LongestCall
      BY <1>0, <1>a, <3>1
    <3>4. untested' + Left' <= TestBound + 2 * LongestCall
      BY <1>0, <2>2, <3>2, <3>3, Zenon
    <3> QED
      BY <2>5, <3>4, Zenon DEF Budget
  <2>6. CASE Watched \notin batch'
    <3>1. Left' <= OthersTime
      BY <1>a, <2>4, <2>6, WorkOf
    <3>2. age[Watched] < ProbeInterval
      <4>1. age[Watched] \in Nat /\ ProbeInterval \in Nat
        BY <1>a, Bounds
      <4>2. keys[Watched].enabled
        BY <2>3 DEF TestInv
      <4> QED
        BY <2>1, <2>3, <2>6, <4>1, <4>2
    <3>3. ToList' = ToList
      BY <2>1, <3>2 DEF ToList
    <3>4. (Refused => Refused') /\ (Closed => Closed') /\ Armed' = Armed
      BY <2>1, <3>3 DEF Refused, Closed, Armed
    <3>5. Events' <= Events
      BY <3>4, EventsLess
    <3> QED
      BY <1>0, <1>1, <2>2, <2>3, <2>6, <3>1, <3>3, <3>5
  <2> QED
    BY <2>5, <2>6
<1>7. CASE TimedTestNext
  <2>1. PICK k \in batch : StartTest(Scheduler, k, TRUE) /\ batch' = batch \ {k}
    BY <1>7 DEF TimedTestNext, TestNext
  <2>2. /\ Watch(0) /\ UNCHANGED <<keys, age, todo, fetched, ticked, spc>>
        /\ ppc[Scheduler] = "idle"
    BY <1>7 DEF TimedTestNext, TestNext, tableVars, catalogVars
  <2>3. target[Scheduler] = 0 /\ target'[Scheduler] = k
    BY <1>0, <1>a, <2>1, <2>2 DEF StartTest, Calls
  <2>4. k # Watched
    BY <2>3 DEF HalfOpen
  <2>5. SameRow /\ (target'[Scheduler] = Watched <=> target[Scheduler] = Watched)
    BY <1>a, <2>2, <2>3, <2>4 DEF SameRow
  <2>6. HalfOpen /\ (Refused => Refused')
    BY <2>5, SameWatched
  <2>7. Left' <= Left
    BY <1>0, <1>7, TestWork
  <2>8. untested' <= untested
    BY <1>0, <2>2, WatchStep
  <2> QED
    BY <1>4, <2>1, <2>2, <2>4, <2>6, <2>7, <2>8
<1>8. ASSUME \/ TimedLockProbe
             \/ \E answer \in {"network", "auth", "ok", "nothing"} : TimedModelsAnswer(answer)
             \/ \E answer \in {"quota", "auth", "ok", "nothing"}, d \in Resets :
                    TimedInferenceAnswer(answer, d)
      PROVE  Budget'
  <2> DEFINE k == target[Scheduler]
  <2>1. /\ Watch(0) /\ UNCHANGED <<batch, todo, fetched, ticked, spc>>
        /\ ppc[Scheduler] \in {"wait", "models", "inference"}
        /\ \/ ppc'[Scheduler] = "idle" /\ target'[Scheduler] = 0
           \/ UNCHANGED target
    BY <1>8, <1>a DEF TimedLockProbe, TimedModelsAnswer, TimedInferenceAnswer,
                      LockProbe, ModelsAnswer, InferenceAnswer, EndTest, catalogVars
  <2>2. Left' <= Left /\ spc = "run"
    BY <1>0, <1>8, TestWork
  <2>3. untested' <= untested
    BY <1>0, <2>1, WatchStep
  <2>4. CASE k = Watched
    <3>1. ~HalfOpen /\ Watched \notin batch'
      BY <2>1, <2>4 DEF HalfOpen, Round
    <3>2. ppc'[Scheduler] = "idle"
      BY <2>1, <2>4 DEF HalfOpen
    <3>3. Left' <= OthersTime
      <4>1. Current' = 0
        BY <3>2 DEF Current
      <4>2. Work(batch)' = Work(batch') /\ Work(batch') \in Nat /\ Work(batch') <= OthersTime
        BY <1>a, <3>1, WorkOf DEF Work
      <4> QED
        BY <4>1, <4>2 DEF Left
    <3>4. untested' = 0
      BY <1>0, <1>b, <2>3, <3>1
    <3> QED
      BY <1>3, <3>1, <3>3, <3>4
  <2>5. CASE k # Watched
    <3>1. Marks(k)
      BY <1>8, MarkSteps DEF TimedLockProbe, LockProbe, Marks
    <3>2. SameRow
      BY <2>5, <3>1, MarkOthers
    <3>3. HalfOpen /\ (Refused => Refused')
      BY <1>a, <2>1, <2>5, <3>2, SameWatched
    <3>4. age'[Watched] = age[Watched]
      <4>1. UNCHANGED age \/ age' = [age EXCEPT ![k] = 0]
        BY <1>8 DEF TimedLockProbe, TimedModelsAnswer, TimedInferenceAnswer, Cools, Checked, tableVars
      <4> QED
        BY <1>a, <2>5, <4>1
    <3> QED
      BY <1>4, <2>1, <2>2, <2>3, <3>3, <3>4
  <2> QED
    BY <2>4, <2>5
<1>9. CASE TimedRoundEnds
  <2>1. /\ Watch(0) /\ UNCHANGED <<keys, target, batch, age, todo, fetched, ticked>>
        /\ spc = "run" /\ spc' = "sleep"
    BY <1>9 DEF TimedRoundEnds, RoundEnds, tableVars, catalogVars
  <2>2. untested' <= untested /\ Left' <= Left
    BY <1>0, <2>1, WatchStep
  <2>3. HalfOpen /\ (Refused => Refused')
    BY <2>1 DEF HalfOpen, Refused
  <2> QED
    BY <1>4, <2>1, <2>2, <2>3
<1>10. ASSUME Left' = Left, UNCHANGED <<ticked, probeVars>>
       PROVE  UNCHANGED <<target, batch, spc, ticked>> /\ Left' <= Left
  BY <1>0, <1>10 DEF probeVars
<1>11. ASSUME NEW r \in Readers, AskCatalog(r) PROVE Budget'
  <2> DEFINE asked == {k \in DOMAIN keys : keys[k].enabled /\ keys[k].auth # "invalid"}
                      \ Undecryptable
  <2>1. /\ UNCHANGED <<keys, age, fetched, untested>>
        /\ fetched = Absent \/ fetched >= CacheTime
        /\ todo' = [todo EXCEPT ![r] = asked]
    BY <1>11 DEF AskCatalog, tableVars, watchVars
  <2>a. Refused => Watched \notin asked
    BY DEF Refused
  <2> HIDE DEF asked
  <2>2. UNCHANGED <<target, batch, spc, ticked>> /\ Left' <= Left
    BY <1>0, <1>10, <1>11, OthersWork DEF CatalogNext
  <2>3. HalfOpen /\ (Refused <=> Refused')
    BY <2>1, <2>2 DEF HalfOpen, Refused
  <2>4. Events' <= Events
    <3>1. CASE Refused
      <4>1. Armed' \subseteq Armed
        BY <1>a, <2>a, <2>1, <3>1 DEF Armed
      <4>2. Closed'
        BY <2>3, <3>1 DEF Closed
      <4> QED
        BY <2>3, <4>1, <4>2, EventsLess
    <3>2. CASE ~Refused
      <4>1. ~Closed
        BY <1>0, <1>a, <2>1, <3>2 DEF Closed, Absent
      <4>2. Events = 2 * Cardinality(Readers) + 1
        BY <4>1 DEF Events
      <4> QED
        BY <4>2, EventsMost
    <3> QED
      BY <3>1, <3>2
  <2>5. untested' <= untested
    BY <1>0, <2>1
  <2> QED
    BY <1>4, <2>1, <2>2, <2>3, <2>4, <2>5
<1>12. CASE UNCHANGED <<keys, age, fetched, todo, untested>> /\ (CatalogNext \/ RequestNext)
  <2>1. UNCHANGED <<target, batch, spc, ticked>> /\ Left' <= Left
    BY <1>0, <1>10, <1>12, OthersWork
  <2>2. HalfOpen /\ (Refused => Refused') /\ untested' <= untested
    BY <1>0, <1>12, <2>1 DEF HalfOpen, Refused
  <2> QED
    BY <1>4, <1>12, <2>1, <2>2
<1>13. ASSUME NEW r \in Readers, NEW k \in KeyIds, NEW answer \in {"ok", "auth", "nothing"},
              SourceAnswers(r, k, answer)
       PROVE  Budget'
  <2>1. UNCHANGED <<target, batch, spc, ticked>> /\ Left' <= Left
    BY <1>0, <1>10, <1>13, OthersWork DEF CatalogNext
  <2>2. untested' <= untested
    BY <1>0, <1>13, WatchStep DEF SourceAnswers
  <2>3. /\ answer = "ok"      => keys' = MarkChecked(keys, k, "valid")
        /\ answer = "auth"    => keys' = MarkInvalid(keys, k)
        /\ answer = "nothing" => UNCHANGED <<keys, age>>
        /\ answer # "nothing" => age' = [age EXCEPT ![k] = 0]
        /\ k \in todo[r]
        /\ answer = "ok" => fetched' = 0 /\ todo' = [todo EXCEPT ![r] = {}]
        /\ answer # "ok" => UNCHANGED fetched /\ todo' = [todo EXCEPT ![r] = @ \ {k}]
    BY <1>13 DEF SourceAnswers, Checked
  <2>4. Armed' \subseteq Armed /\ (k = Watched => r \in Armed /\ Armed' \subseteq Armed \ {r})
    BY <1>a, <2>3 DEF Armed
  <2>5. HalfOpen
    <3>1. \A i \in DOMAIN keys : keys[i] \in KeyRow
      BY DEF ScheduleInv, TableInv, IsKeyTable
    <3>2. Watched \in DOMAIN keys' /\ keys'[Watched].quota = "half_open"
      BY DEF HalfOpen
    <3>3. CASE keys' = MarkChecked(keys, k, "valid")
      BY <2>1, <3>1, <3>2, <3>3 DEF HalfOpen, MarkChecked, KeyRow
    <3>4. CASE keys' = MarkInvalid(keys, k)
      BY <2>1, <3>1, <3>2, <3>4 DEF HalfOpen, MarkInvalid, KeyRow
    <3>5. CASE keys' = keys
      BY <2>1, <3>2, <3>5 DEF HalfOpen
    <3> QED
      BY <2>3, <3>3, <3>4, <3>5
  <2>6. CASE Watched \in batch
    BY <1>2, <2>1, <2>2, <2>5, <2>6
  <2>7. ASSUME Watched \notin batch,
               \/ ToList' <= ToList /\ Events' <= Events
               \/ ToList' <= ListBound /\ Events' <= Events - 1
        PROVE  Budget'
    BY <1>0, <1>a, <1>1, <1>b, <2>1, <2>2, <2>5, <2>7
  <2>8. CASE Watched \notin batch /\ k = Watched /\ answer # "nothing"
    <3>1. ToList' = ListBound
      BY <1>a, <2>3, <2>8, JustChecked
    <3>2. Closed'
      <4>1. CASE answer = "ok"
        BY <1>a, <2>3, <3>1, <4>1 DEF Closed, Absent
      <4>2. CASE answer = "auth"
        <5>1. Watched \in DOMAIN keys
          BY <2>5 DEF HalfOpen
        <5>2. Refused'
          BY <2>3, <2>8, <4>2, <5>1
             DEF Refused, MarkInvalid, ScheduleInv, TableInv, IsKeyTable, KeyRow
        <5> QED
          BY <5>2 DEF Closed
      <4> QED
        BY <2>8, <4>1, <4>2
    <3>3. Events' <= Events - 1
      BY <2>4, <2>8, <3>2, EventsLess
    <3> QED
      BY <1>0, <1>a, <2>7, <2>8, <3>1, <3>3
  <2>9. CASE Watched \notin batch /\ (k # Watched \/ answer = "nothing")
    <3>1. age'[Watched] = age[Watched]
      BY <1>a, <2>3, <2>9
    <3>2. Refused => Refused'
      BY <2>3, <2>9 DEF Refused, MarkChecked, MarkInvalid
    <3>3. ToList' <= ToList /\ (UNCHANGED fetched => (Closed => Closed'))
      BY <2>1, <3>1, <3>2, ListLess
    <3>4. answer = "ok" => Closed'
      <4>1. ToList <= ListBound
        BY <1>b, <2>5, <2>9 DEF Waits
      <4> QED
        BY <1>0, <1>a, <2>3, <3>3, <4>1 DEF Closed, Absent
    <3>5. Events' <= Events
      BY <2>3, <2>4, <3>2, <3>3, <3>4, EventsLess
    <3> QED
      BY <2>7, <2>9, <3>3, <3>5
  <2> QED
    BY <2>6, <2>8, <2>9
<1>14. ASSUME NEW k \in KeyIds, NEW answer \in {"used", "quota", "auth"}, NEW d \in Resets,
              RequestEnds(k, answer, d)
       PROVE  Budget'
  <2>1. UNCHANGED <<target, batch, spc, ticked>> /\ Left' <= Left
    BY <1>0, <1>10, <1>14, OthersWork DEF RequestNext
  <2>2. UNCHANGED <<todo, fetched>> /\ Watch(0) /\ k \in EligibleKeys(keys)
    BY <1>14 DEF RequestEnds, catalogVars
  <2>3. untested' <= untested
    BY <1>0, <2>2, WatchStep
  <2>4. CASE k # Watched
    <3>1. SameRow
      BY <1>14, <2>4, MarkSteps, MarkOthers
    <3>2. HalfOpen /\ (Refused => Refused')
      BY <2>1, <3>1, SameWatched
    <3>3. UNCHANGED age \/ age' = [age EXCEPT ![k] = 0]
      BY <1>14 DEF RequestEnds, Cools, Checked
    <3>4. age'[Watched] = age[Watched]
      BY <1>a, <2>4, <3>3
    <3> QED
      BY <1>4, <2>1, <2>2, <2>3, <3>2, <3>4
  <2>5. CASE k = Watched
    <3>1. answer = "auth"
      <4>1. \/ answer = "auth" \/ keys' = MarkUsed(keys, Watched)
            \/ keys' = MarkQuota(keys, Watched, IF d = 0 THEN "due" ELSE "future")
        BY <1>14, <2>5 DEF RequestEnds, Cools
      <4>2. Watched \in DOMAIN keys' /\ keys'[Watched].quota = "half_open"
        BY DEF HalfOpen
      <4>3. \A i \in DOMAIN keys : keys[i] \in KeyRow
        BY DEF ScheduleInv, TableInv, IsKeyTable
      <4>4. CASE keys' = MarkUsed(keys, Watched)
        BY <4>2, <4>3, <4>4 DEF MarkUsed, KeyRow
      <4>5. CASE keys' = MarkQuota(keys, Watched, IF d = 0 THEN "due" ELSE "future")
        BY <4>2, <4>3, <4>5 DEF MarkQuota, KeyRow
      <4> QED
        BY <4>1, <4>4, <4>5
    <3>2. keys' = MarkInvalid(keys, Watched) /\ age' = [age EXCEPT ![Watched] = 0]
      BY <1>14, <2>5, <3>1 DEF RequestEnds, Checked
    <3>3. HalfOpen /\ ~Refused /\ Refused'
      BY <2>1, <2>2, <2>5, <3>2
         DEF HalfOpen, Refused, MarkInvalid, EligibleKeys, Eligible, ScheduleInv, TableInv,
             IsKeyTable, KeyRow
    <3>4. ToList' = ListBound
      BY <1>a, <3>2, JustChecked
    <3>5. Armed' = Armed /\ Closed'
      BY <2>2, <3>3 DEF Armed, Closed
    <3>6. Events' <= Events - 1
      BY <3>3, <3>5, EventsLess
    <3>7. CASE Watched \in batch
      BY <1>2, <2>1, <2>3, <3>3, <3>7
    <3>8. CASE Watched \notin batch
      BY <1>0, <1>a, <1>1, <1>b, <2>1, <2>3, <3>3, <3>4, <3>6, <3>8
    <3> QED
      BY <3>7, <3>8
  <2> QED
    BY <2>4, <2>5
<1>15. CASE TimePasses
  <2>1. /\ UNCHANGED <<target, batch, spc, rpc, todo>> /\ ticked' = TRUE
        /\ \/ spc = "sleep" /\ ~ticked /\ Left = 0 /\ Left' = 0
           \/ spc = "run" /\ Left' = Left - 1
    BY <1>0, <1>15, TimeWork DEF probeVars, TimePasses
  <2>2. untested' <= untested + 1
    BY <1>0, <1>15, WatchStep DEF TimePasses
  <2>3. HalfOpen /\ (Refused <=> Refused')
    <3>1. \A i \in DOMAIN keys : keys[i] \in KeyRow
      BY DEF ScheduleInv, TableInv, IsKeyTable
    <3>2. /\ DOMAIN keys' = DOMAIN keys
          /\ \A i \in DOMAIN keys : /\ keys'[i].quota = keys[i].quota
                                    /\ keys'[i].auth = keys[i].auth
      BY <1>15, <3>1 DEF TimePasses, KeyRow
    <3> QED
      BY <2>1, <3>2 DEF HalfOpen, Refused
  <2>4. CASE Watched \in batch
    <3>1. Left' = Left - 1
      BY <2>1, <2>4 DEF Round
    <3>2. \A u, l \in Nat : u <= untested + 1 /\ l = Left - 1
                            => u + l <= TestBound + 2 * LongestCall
      BY <1>0, <1>a, <1>b, <2>3, <2>4
    <3>3. untested' + Left' <= TestBound + 2 * LongestCall
      BY <1>0, <2>2, <3>1, <3>2, Zenon
    <3>4. Watched \in batch'
      BY <2>1, <2>4
    <3> QED
      BY <3>3, <3>4, Zenon DEF Budget
  <2>5. CASE Watched \notin batch
    <3>1. Left <= OthersTime \/ Left = 0
      BY <1>b, <2>1, <2>3, <2>5
    <3>2. ToList' <= ToList - 1
      <4>1. /\ age[Watched] \in 0..ProbeInterval
            /\ age'[Watched] = IF age[Watched] >= ProbeInterval THEN age[Watched]
                               ELSE age[Watched] + 1
        BY <1>a, <1>15 DEF TimePasses, Older, Absent
      <4> DEFINE list(a, s, l, t) == IF a < ProbeInterval THEN ProbeInterval - a + MissedRound
                                     ELSE IF s = "list" THEN 0
                                     ELSE l + (IF t THEN 0 ELSE 1)
      <4>2. /\ ToList' = list(age'[Watched], spc', Left', ticked')
            /\ spc' # "list" /\ ticked' = TRUE
        BY <2>1 DEF ToList
      <4>3. /\ \A s, t : \A l \in Nat : s # "list" /\ t = TRUE => list(ProbeInterval, s, l, t) = l
            /\ \A s, t : \A l, a \in Nat :
                  a < ProbeInterval - 1
                  => list(a + 1, s, l, t) = ProbeInterval - a + MissedRound - 1
        BY Bounds
      <4> HIDE DEF list
      <4>4. CASE age[Watched] >= ProbeInterval
        <5>1. age'[Watched] = ProbeInterval /\ ToList = Left + (IF ticked THEN 0 ELSE 1)
          BY <2>1, <4>1, <4>4, Bounds DEF ToList
        <5>2. ToList' = Left'
          BY <1>0, <4>2, <4>3, <5>1
        <5> QED
          BY <1>0, <2>1, <5>1, <5>2
      <4>5. CASE age[Watched] = ProbeInterval - 1
        <5>1. age'[Watched] = ProbeInterval /\ ToList = 1 + MissedRound
          BY <4>1, <4>5, Bounds DEF ToList
        <5>2. ToList' = Left'
          BY <1>0, <4>2, <4>3, <5>1
        <5> QED
          BY <1>0, <2>1, <3>1, <5>1, <5>2, Bounds
      <4>6. CASE age[Watched] < ProbeInterval - 1
        <5>1. age'[Watched] = age[Watched] + 1 /\ ToList = ProbeInterval - age[Watched] + MissedRound
          BY <4>1, <4>6, Bounds DEF ToList
        <5>2. ToList' = ProbeInterval - age[Watched] + MissedRound - 1
          <6>1. age[Watched] \in Nat
            BY <4>1, Bounds
          <6>2. ToList' = list(age[Watched] + 1, spc', Left', ticked')
            BY <4>2, <5>1, Zenon
          <6>3. list(age[Watched] + 1, spc', Left', ticked')
                   = ProbeInterval - age[Watched] + MissedRound - 1
            BY <1>0, <4>3, <4>6, <6>1
          <6> QED
            BY <6>2, <6>3
        <5> QED
          BY <1>0, <4>1, <5>1, <5>2, Bounds
      <4> QED
        BY <4>1, <4>4, <4>5, <4>6, Bounds
    <3>3. Closed => Closed'
      <4>1. CASE Refused
        BY <2>3, <4>1 DEF Closed
      <4>2. CASE fetched # Absent /\ ToList < CacheTime - fetched
        <5>1. fetched' # Absent /\ fetched' \in Int /\ fetched' <= fetched + 1
          BY <1>a, <1>15, <4>2 DEF TimePasses, Older, Absent
        <5>2. ToList' < CacheTime - fetched'
          <6>1. \A t, f \in Int : t <= ToList - 1 /\ f <= fetched + 1 => t < CacheTime - f
            BY <1>0, <1>a, <4>2 DEF Absent
          <6> QED
            BY <1>0, <3>2, <5>1, <6>1
        <5> QED
          BY <5>1, <5>2 DEF Closed
      <4> QED
        BY <4>1, <4>2 DEF Closed
    <3>4. Events' <= Events
      <4>1. Armed' = Armed
        BY <2>1 DEF Armed
      <4> QED
        BY <2>3, <3>3, <4>1, EventsLess
    <3>5. Waits(untested', ToList', Events')
      <4>1. /\ Waits(untested, ToList, Events)
            /\ untested \in Nat /\ ToList \in Nat /\ Events \in Nat
        BY <1>0, <1>b, <2>3, <2>5
      <4>2. ASSUME NEW v \in Nat, NEW x \in Nat, NEW f \in Nat,
                   v <= untested + 1, x <= ToList - 1, f <= Events
            PROVE  Waits(v, x, f)
        BY <4>1, <4>2, Waiting
      <4> QED
        BY <1>0, <2>2, <3>2, <3>4, <4>2, Zenon
    <3>6. spc' = "run" => Left' <= OthersTime
      BY <1>0, <1>a, <1>b, <2>1, <2>3, <2>5
    <3>7. Waits(untested, ToList, Events)' <=> Waits(untested', ToList', Events')
      BY DEF Waits
    <3>8. Watched \notin batch'
      BY <2>1, <2>5
    <3> QED
      BY <3>5, <3>6, <3>7, <3>8, Zenon DEF Budget
  <2> QED
    BY <2>4, <2>5
<1> QED
  <2>1. RequestBegins \/ RequestFails => UNCHANGED <<keys, age, fetched, todo, untested>>
    BY DEF RequestBegins, RequestFails, tableVars, catalogVars, watchVars
  <2>2. ASSUME NEW r \in Readers, NoSourceLeft(r)
        PROVE  UNCHANGED <<keys, age, fetched, todo, untested>>
    BY <2>2 DEF NoSourceLeft, tableVars, watchVars
  <2>3. CatalogNext => Budget'
    BY <1>11, <1>12, <1>13, <2>2 DEF CatalogNext
  <2>4. RequestNext => Budget'
    BY <1>12, <1>14, <2>1 DEF RequestNext
  <2>5. SchedulerNext => Budget'
    BY <1>5, <1>6, <1>7, <1>8, <1>9 DEF SchedulerNext
  <2> QED
    BY <1>15, <2>3, <2>4, <2>5 DEF ScheduleNext

\* The bound of the property, as long as a key can be half-open.
LEMMA TestedWithin ==
    ASSUME ScheduleInv, Round, TestInv
    PROVE  untested <= TestBound
<1>1. /\ untested \in Nat /\ TestBound \in Nat /\ Left \in Nat /\ LongestCall \in Nat
      /\ ToList \in Nat /\ Events \in Nat /\ batch \in SUBSET KeyIds
      /\ OthersTime \in Nat
  BY Bounds, WorkTypes, ListTypes, EventsMost DEF ScheduleInv, WatchTypeOK
<1>2. CASE ~HalfOpen
  BY <1>1, <1>2 DEF TestInv
<1>3. CASE HalfOpen /\ Watched \in batch
  <2>1. Left >= 2 * LongestCall
    <3>1. Work(batch) = Work(batch \ {Watched}) + 2 * LongestCall /\ Work(batch \ {Watched}) \in Nat
      BY <1>1, <1>3, WorkOf
    <3>2. Current \in Nat
      BY WorkTypes
    <3> QED
      BY <1>1, <3>1, <3>2 DEF Left
  <2>2. untested + Left <= TestBound + 2 * LongestCall
    BY <1>3 DEF TestInv, Budget
  <2> QED
    BY <1>1, <2>1, <2>2
<1>4. CASE HalfOpen /\ Watched \notin batch
  <2>1. Waits(untested, ToList, Events)
    BY <1>4 DEF TestInv, Budget
  <2>2. untested + OthersTime <= TestBound
    BY <1>1, <2>1, Waiting
  <2> QED
    BY <1>1, <2>2
<1> QED
  BY <1>2, <1>3, <1>4

-----------------------------------------------------------------------------
\* The inductive invariant of these theorems.
TimingInv == ScheduleInv /\ Round /\ Spaced /\ OpenRequestHasItsRow /\ WakeInv

\* The inductive invariant holds at the start and is kept by every step.
LEMMA TimingAlways == ScheduleSpec => []TimingInv
<1>1. ScheduleInit => TimingInv
  <2> SUFFICES ASSUME ScheduleInit PROVE TimingInv
    OBVIOUS
  <2>1. TableInv(keys)
    BY StoreInitInv DEF ScheduleInit
  <2>2. ProbeTypeOK /\ Round
    BY DEF ScheduleInit, ProbeInit, ProbeTypeOK, Round, Probers
  <2>3. ClockTypeOK
    <3>1. /\ ProbeInterval \in 0..ProbeInterval /\ 0 \in 0..LongestCall
          /\ 0 \in 0..(LongestCooling + ProbeInterval)
      BY ScheduleAssumption
    <3> QED
      BY <3>1 DEF ScheduleInit, ClockTypeOK
  <2>4. WatchTypeOK
    BY Bounds DEF ScheduleInit, WatchTypeOK
  <2>5. Spaced
    BY ScheduleAssumption DEF ScheduleInit, ProbeInit, Spaced, Probers
  <2>6. OpenRequestHasItsRow
    BY DEF ScheduleInit, OpenRequestHasItsRow
  <2>7. WakeInv
    <3>1. ppc[Scheduler] = "idle" /\ spent[Scheduler] = 0 /\ target[Scheduler] = 0
      BY DEF ScheduleInit, ProbeInit, Probers, Callers
    <3>2. Left = 0
      BY <3>1, WorkOf DEF ScheduleInit, ProbeInit, Left, Current
    <3>3. late = 0 /\ late + Left <= RoundTime
      BY <3>2, Bounds DEF ScheduleInit
    <3> QED
      BY <3>1, <3>3 DEF WakeInv, Calls
  <2> QED
    BY <2>1, <2>2, <2>3, <2>4, <2>5, <2>6, <2>7 DEF TimingInv, ScheduleInv
<1>2. TimingInv /\ [ScheduleNext]_scheduleVars => TimingInv'
  <2> SUFFICES ASSUME TimingInv, [ScheduleNext]_scheduleVars PROVE TimingInv'
    OBVIOUS
  <2>1. CASE ScheduleNext
    <3>1. ScheduleInv'
      BY <2>1, SchedulerInv, CatalogInv, RequestInv, TimeInv DEF TimingInv, ScheduleNext
    <3>2. Round'
      BY <2>1, RoundStep DEF TimingInv, ScheduleInv
    <3>3. Spaced' /\ OpenRequestHasItsRow'
      BY <2>1, SpacedStep, RowStep DEF TimingInv
    <3>4. WakeInv'
      BY <2>1, <3>1, <3>2, WakeStep DEF TimingInv
    <3> QED
      BY <3>1, <3>2, <3>3, <3>4 DEF TimingInv
  <2>2. CASE UNCHANGED scheduleVars
    BY <2>2 DEF scheduleVars, probeVars, tableVars, catalogVars, requestVars, watchVars,
                TimingInv, ScheduleInv, ProbeTypeOK, ClockTypeOK, WatchTypeOK, Round, Spaced,
                OpenRequestHasItsRow, WakeInv, Calls, Left, Work, Current
  <2> QED
    BY <2>1, <2>2
<1> QED
  BY <1>1, <1>2, PTL DEF ScheduleSpec

\* The state of the scheduler, of the catalog and of the clock stays within its
\* types and bounds (scheduler.go:35, service.go:321).
THEOREM ScheduleTypeCorrect == ScheduleSpec => []ScheduleTypeOK
<1>1. TimingInv => ScheduleTypeOK
  BY DEF TimingInv, ScheduleInv, TableInv, ClockTypeOK, WatchTypeOK, ScheduleTypeOK
<1> QED
  BY <1>1, TimingAlways, PTL

\* Two automatic tests of a key by inference are at least one probe interval apart,
\* whatever other handlers do to the time of its last check (scheduler.go:57).
THEOREM TestsKeepTheInterval == ScheduleSpec => ProbesAreSpaced
<1>1. TimingInv =>
        (ppc[Scheduler] = "models" /\ ppc'[Scheduler] = "inference" /\ target[Scheduler] = Watched
           => gap >= ProbeInterval)
  BY DEF TimingInv, Spaced
<1> QED
  BY <1>1, TimingAlways, PTL DEF ScheduleSpec, ProbesAreSpaced

\* A key whose cooling is over is woken after one round of tests at the latest, for
\* any number of keys and any bound on a call (scheduler.go:24).
THEOREM KeysWakeInTime == ScheduleSpec => []WakesInTime
<1>1. TimingInv => WakesInTime
  <2> SUFFICES ASSUME TimingInv PROVE late <= RoundTime
    BY DEF WakesInTime
  <2>1. Left \in Nat
    BY WorkTypes DEF TimingInv
  <2> QED
    BY <2>1, Bounds DEF TimingInv, WakeInv, ScheduleInv, WatchTypeOK
<1> QED
  BY <1>1, TimingAlways, PTL

\* What TestedInTime needs, where it claims something.
TestingInv == AutoProbe /\ CacheTime > ListBound => TestInv

\* Where keys are tested automatically and the catalog is kept long enough, a
\* half-open key is tested within the bound, for any number of keys and of requests
\* for the catalog, though these mark it as checked (scheduler.go:57, service.go:318).
THEOREM TestsComeInTime == ScheduleSpec => []TestedInTime
<1>1. ScheduleInit => TestingInv
  <2> SUFFICES ASSUME ScheduleInit PROVE TestInv
    BY DEF TestingInv
  <2>1. \A k \in DOMAIN keys : keys[k].enabled /\ keys[k].quota = "unknown"
    <3>1. PICK p \in [InitialKeys -> Priorities] : keys = [k \in InitialKeys |-> NewRow(p[k])]
      BY DEF ScheduleInit, StoreInit
    <3> QED
      BY <3>1 DEF NewRow
  <2>2. ~HalfOpen
    BY <2>1 DEF HalfOpen
  <2> QED
    BY <2>1, <2>2 DEF TestInv, Budget, ScheduleInit
<1>2. TimingInv /\ TimingInv' /\ TestingInv /\ [ScheduleNext]_scheduleVars => TestingInv'
  <2> SUFFICES ASSUME TimingInv, TimingInv', TestInv, [ScheduleNext]_scheduleVars,
                      AutoProbe, CacheTime > ListBound
               PROVE  TestInv'
    BY DEF TestingInv
  <2>1. CASE ScheduleNext
    BY <2>1, TestFrame, TestStep DEF TimingInv, TestInv
  <2>2. CASE UNCHANGED scheduleVars
    BY <2>2 DEF scheduleVars, probeVars, tableVars, catalogVars, requestVars, watchVars,
                TestInv, Budget, HalfOpen, Waits, ToList, Events, Closed, Refused, Armed,
                Left, Work, Current
  <2> QED
    BY <2>1, <2>2
<1>3. TimingInv /\ TestingInv => TestedInTime
  BY TestedWithin DEF TimingInv, TestingInv, TestedInTime
<1> QED
  BY <1>1, <1>2, <1>3, TimingAlways, PTL DEF ScheduleSpec

\* The purge leaves the rows of open requests alone if no request outlives the
\* retention (scheduler.go:64, sqlite.go:571).
THEOREM PurgeSparesOpenRequests == ScheduleSpec => []OpenRequestHasItsRow
<1>1. TimingInv => OpenRequestHasItsRow
  BY DEF TimingInv
<1> QED
  BY <1>1, TimingAlways, PTL
=============================================================================
