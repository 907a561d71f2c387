----------------------------- MODULE SlotProofs -----------------------------
(***************************************************************************)
(* The pool implements ActiveSlot, whatever overlaps: each statement is a  *)
(* step of the slot or leaves it alone.                                    *)
(***************************************************************************)
EXTENDS KeyPoolProofs

\* The holder of the slot is the active key.
LEMMA ActiveKeyIs ==
    ASSUME NEW t, AtMostOneActiveIn(t), NEW k \in ActiveKeys(t)
    PROVE  ActiveKey(t) = k
BY DEF ActiveKey, ActiveKeys, AtMostOneActiveIn

LEMMA ActiveKeyNone ==
    ASSUME NEW t, ActiveKeys(t) = {} PROVE ActiveKey(t) = NoKey
BY DEF ActiveKey

\* A key that is neither enabled nor active any more has been withdrawn.
LEMMA SlotWithout ==
    ASSUME TableInv(keys), NEW k \in KeyIds,
           ActiveKey(keys)' = ActiveKey(keys'),
           EnabledKeys(keys)' = EnabledKeys(keys) \ {k},
           ActiveKeys(keys') = ActiveKeys(keys) \ {k}
    PROVE  Slot!Next
<1>1. ActiveKey(keys)' = IF ActiveKey(keys) = k THEN NoKey ELSE ActiveKey(keys)
  <2>1. CASE ActiveKeys(keys) = {}
    <3>1. ActiveKeys(keys') = {} /\ ActiveKey(keys) = NoKey /\ k # NoKey
          BY <2>1, ActiveKeyNone, StoreAssumption DEF NoKey
    <3> QED BY <3>1, ActiveKeyNone
  <2>2. ASSUME NEW j \in ActiveKeys(keys)
        PROVE  ActiveKey(keys)' = IF ActiveKey(keys) = k THEN NoKey ELSE ActiveKey(keys)
    <3>1. ActiveKey(keys) = j /\ ActiveKeys(keys) = {j}
          BY <2>2, ActiveKeyIs DEF TableInv, ActiveKeys, AtMostOneActiveIn
    <3>2. CASE j = k
          BY <3>1, <3>2, ActiveKeyNone
    <3>3. CASE j # k
      <4>1. ActiveKeys(keys') = ActiveKeys(keys)
            BY <3>1, <3>3
      <4> QED BY <3>1, <3>3, <4>1 DEF ActiveKey
    <3> QED BY <3>2, <3>3
  <2> QED BY <2>1, <2>2
<1>2. Slot!Withdraw(k)
      BY <1>1 DEF Slot!Withdraw
<1> QED BY <1>2 DEF Slot!Next

\* A statement that neither enables nor activates a key keeps the holder of
\* the slot or empties it.
LEMMA QuietStep ==
    ASSUME TableInv(keys), TableInv(keys'), DOMAIN keys' = DOMAIN keys,
           \A i \in DOMAIN keys : /\ keys'[i].enabled = keys[i].enabled
                                  /\ keys'[i].role = "active" => keys[i].role = "active"
    PROVE  [Slot!Next]_<<ActiveKey(keys), EnabledKeys(keys)>>
<1>1. EnabledKeys(keys)' = EnabledKeys(keys)
      BY DEF EnabledKeys
<1>2. ActiveKeys(keys') \subseteq ActiveKeys(keys)
      BY DEF ActiveKeys
<1>3. ActiveKey(keys)' = ActiveKey(keys')
      BY DEF ActiveKey, ActiveKeys
<1>4. CASE ActiveKeys(keys') = {}
  <2>1. Slot!Vacate
        BY <1>1, <1>3, <1>4, ActiveKeyNone DEF Slot!Vacate
  <2> QED BY <2>1 DEF Slot!Next
<1>5. ASSUME NEW k \in ActiveKeys(keys') PROVE UNCHANGED <<ActiveKey(keys), EnabledKeys(keys)>>
  <2>1. ActiveKey(keys') = k /\ ActiveKey(keys) = k
        BY <1>2, <1>5, ActiveKeyIs DEF TableInv
  <2> QED BY <1>1, <1>3, <2>1
<1> QED BY <1>4, <1>5

\* The statements of handlers, tests and scheduler.
LEMMA QuietStatements ==
    ASSUME TableInv(keys), TableInv(keys'), NEW k,
           \/ keys' = keys
           \/ keys' = MarkUsed(keys, k)
           \/ keys' = MarkInvalid(keys, k)
           \/ \E auth : keys' = MarkChecked(keys, k, auth)
           \/ \E until : keys' = MarkQuota(keys, k, until)
           \/ keys' = MarkHalfOpenDue(keys)
    PROVE  [Slot!Next]_<<ActiveKey(keys), EnabledKeys(keys)>>
<1>1. \A i \in DOMAIN keys : keys[i] \in KeyRow
      BY DEF TableInv, IsKeyTable
<1>2. DOMAIN keys' = DOMAIN keys
      BY SameDomain
<1>3. \A i \in DOMAIN keys : /\ keys'[i].enabled = keys[i].enabled
                             /\ keys'[i].role = "active" => keys[i].role = "active"
      BY <1>1 DEF MarkUsed, MarkInvalid, MarkChecked, MarkQuota, MarkHalfOpenDue, KeyRow
<1> QED BY <1>2, <1>3, QuietStep

\* Promotion and activation.
LEMMA SetActiveStep ==
    ASSUME TableInv(keys), NEW k, keys' = SetActive(keys, k)
    PROVE  /\ [Slot!Next]_<<ActiveKey(keys), EnabledKeys(keys)>>
           /\ ActiveKeys(keys) # {} => ActiveKeys(keys') # {}
<1>1. CASE ~(k \in DOMAIN keys /\ keys[k].enabled)
  <2>1. keys' = keys
        BY <1>1 DEF SetActive
  <2>2. UNCHANGED <<ActiveKey(keys), EnabledKeys(keys)>>
        BY <2>1 DEF ActiveKey, ActiveKeys, EnabledKeys
  <2> QED BY <2>1, <2>2
<1>2. CASE k \in DOMAIN keys /\ keys[k].enabled
  <2>1. /\ DOMAIN keys' = DOMAIN keys
        /\ \A i \in DOMAIN keys : /\ keys'[i].enabled = keys[i].enabled
                                  /\ keys'[i].role = "active" <=> i = k
        BY <1>2 DEF SetActive, TableInv, IsKeyTable, KeyRow
  <2>2. TableInv(keys')
        BY SetActiveInv
  <2>3. k \in ActiveKeys(keys')
        BY <1>2, <2>1 DEF ActiveKeys
  <2>4. ActiveKey(keys') = k
        BY <2>2, <2>3, ActiveKeyIs DEF TableInv
  <2>5. EnabledKeys(keys)' = EnabledKeys(keys) /\ k \in EnabledKeys(keys)
        BY <1>2, <2>1 DEF EnabledKeys
  <2>6. ActiveKey(keys)' = k
        BY <2>4 DEF ActiveKey, ActiveKeys
  <2>7. k \in KeyIds
        BY <1>2 DEF TableInv, IsKeyTable
  <2>8. Slot!TakeOver(k)
        BY <2>5, <2>6 DEF Slot!TakeOver
  <2> QED BY <2>3, <2>7, <2>8 DEF Slot!Next
<1> QED BY <1>1, <1>2

\* An update that leaves its key enabled changes at most the set of enabled
\* keys; one that disables it withdraws it.
LEMMA UpdateKeyStep ==
    ASSUME TableInv(keys), NEW k \in KeyIds, NEW p \in Priorities, NEW e \in BOOLEAN,
           keys' = UpdateKey(keys, k, p, e)
    PROVE  [Slot!Next]_<<ActiveKey(keys), EnabledKeys(keys)>>
<1>1. /\ DOMAIN keys' = DOMAIN keys
      /\ \A i \in DOMAIN keys :
            /\ keys'[i].enabled = IF i = k THEN e ELSE keys[i].enabled
            /\ keys'[i].role = IF i = k /\ ~e THEN "standby" ELSE keys[i].role
      BY DEF UpdateKey, TableInv, IsKeyTable, KeyRow
<1>2. ActiveKey(keys)' = ActiveKey(keys')
      BY DEF ActiveKey, ActiveKeys
<1>3. TableInv(keys')
      BY UpdateKeyInv
<1>4. CASE k \notin DOMAIN keys
  <2>1. keys' = keys
        BY <1>4 DEF UpdateKey, TableInv, IsKeyTable
  <2> QED BY <2>1 DEF ActiveKey, ActiveKeys, EnabledKeys
<1>5. CASE k \in DOMAIN keys /\ e
  <2>1. EnabledKeys(keys)' = EnabledKeys(keys) \cup {k}
        BY <1>1, <1>5 DEF EnabledKeys
  <2>2. ActiveKeys(keys') = ActiveKeys(keys)
        BY <1>1, <1>5 DEF ActiveKeys
  <2>3. ActiveKey(keys)' = ActiveKey(keys)
        BY <1>2, <2>2 DEF ActiveKey
  <2> QED BY <2>1, <2>3 DEF Slot!Next, Slot!Enable
<1>6. CASE k \in DOMAIN keys /\ ~e
  <2>1. EnabledKeys(keys)' = EnabledKeys(keys) \ {k}
        BY <1>1, <1>6 DEF EnabledKeys
  <2>2. ActiveKeys(keys') = ActiveKeys(keys) \ {k}
        BY <1>1, <1>6 DEF ActiveKeys
  <2> QED BY <1>2, <2>1, <2>2, SlotWithout
<1> QED BY <1>4, <1>5, <1>6

\* A deleted key is withdrawn.
LEMMA DeleteKeyStep ==
    ASSUME TableInv(keys), NEW k \in KeyIds, keys' = DeleteKey(keys, k)
    PROVE  [Slot!Next]_<<ActiveKey(keys), EnabledKeys(keys)>>
<1>1. ActiveKey(keys)' = ActiveKey(keys')
      BY DEF ActiveKey, ActiveKeys
<1>2. /\ DOMAIN keys' = DOMAIN keys \ {k}
      /\ \A i \in DOMAIN keys' : keys'[i] = keys[i]
      BY DEF DeleteKey
<1>3. EnabledKeys(keys)' = EnabledKeys(keys) \ {k}
      BY <1>2 DEF EnabledKeys
<1>4. ActiveKeys(keys') = ActiveKeys(keys) \ {k}
      BY <1>2 DEF ActiveKeys
<1> QED BY <1>1, <1>3, <1>4, SlotWithout

\* A new key, whose id no row has, is enabled and stands by.
LEMMA CreateKeyStep ==
    ASSUME TableInv(keys), NEW k \in KeyIds, k \notin DOMAIN keys, NEW p \in Priorities,
           keys' = CreateKey(keys, k, p)
    PROVE  [Slot!Next]_<<ActiveKey(keys), EnabledKeys(keys)>>
<1>1. ActiveKey(keys)' = ActiveKey(keys')
      BY DEF ActiveKey, ActiveKeys
<1>2. /\ DOMAIN keys' = DOMAIN keys \cup {k}
      /\ \A i \in DOMAIN keys : keys'[i] = keys[i]
      /\ keys'[k].enabled /\ keys'[k].role = "standby"
      BY DEF CreateKey, NewRow
<1>3. EnabledKeys(keys)' = EnabledKeys(keys) \cup {k}
      BY <1>2 DEF EnabledKeys
<1>4. ActiveKeys(keys') = ActiveKeys(keys)
      BY <1>2 DEF ActiveKeys
<1>5. ActiveKey(keys)' = ActiveKey(keys)
      BY <1>1, <1>4 DEF ActiveKey
<1> QED BY <1>3, <1>5 DEF Slot!Next, Slot!Enable

-----------------------------------------------------------------------------
(* The steps of the pool. *)

slotVars == <<ActiveKey(keys), EnabledKeys(keys)>>

LEMMA SlotUnchanged == ASSUME UNCHANGED keys PROVE UNCHANGED slotVars
BY DEF slotVars, ActiveKey, ActiveKeys, EnabledKeys

\* A handler changes the table with four statements, and Promote is the only
\* step that leaves `promote'.
LEMMA HandlersSlot ==
    ASSUME PoolInv, TableInv(keys'), InferenceStep
    PROVE  /\ [Slot!Next]_slotVars
           /\ \A s \in Slots : pc[s] = "promote" /\ pc'[s] # "promote"
                 => (ActiveKeys(keys) # {} => ActiveKeys(keys') # {})
<1> DEFINE filled == ActiveKeys(keys) # {} => ActiveKeys(keys') # {}
<1>1. TableInv(keys) /\ pc \in [Slots -> Steps]
      BY DEF PoolInv, InferenceInv, InferenceTypeOK
<1>2. PICK s \in Slots : Arrive(s) \/ Disconnect(s) \/ Handler(s)
      BY DEF InferenceStep
<1>3. \A r \in Slots \ {s} : pc'[r] = pc[r]
  <2>1. CASE Arrive(s) \/ Disconnect(s) \/ Locking(s)
        BY <1>1, <2>1 DEF Arrive, Disconnect, Locking, Lock, Promote, Goto
  <2>2. CASE Upstream(s)
        BY <1>1, <2>2 DEF Upstream, Answer, StreamEnds, StreamStarts, FirstReadFails, Unreadable,
                          Goto, Return
  <2>3. CASE Working(s)
        BY <1>1, <2>3 DEF Working, Begin, Select, Pick, Exhaust, RecordKeyFailure, Use, Attempt,
                          Finish, Goto, Return
  <2> QED BY <1>2, <2>1, <2>2, <2>3 DEF Handler
<1>4. ASSUME UNCHANGED keys PROVE [Slot!Next]_slotVars /\ filled
      BY <1>4, SlotUnchanged
<1>5. CASE Promote(s)
  <2>1. keys' = keys \/ keys' = SetActive(keys, cur[s])
        BY <1>5 DEF Promote, Exec
  <2>2. [Slot!Next]_slotVars /\ filled
        BY <1>1, <1>4, <2>1, SetActiveStep DEF slotVars
  <2> QED BY <2>2
<1>6. ASSUME pc[s] # "promote" \/ pc'[s] = "promote", [Slot!Next]_slotVars
      PROVE  /\ [Slot!Next]_slotVars
             /\ \A r \in Slots : pc[r] = "promote" /\ pc'[r] # "promote" => filled
      BY <1>3, <1>6
<1>7. CASE Arrive(s) \/ Disconnect(s)
  <2>1. UNCHANGED keys
        BY <1>7 DEF Arrive, Disconnect
  <2> QED BY <1>4, <2>1
<1>8. CASE Upstream(s)
  <2>1. UNCHANGED keys
        BY <1>8 DEF Upstream, Answer, StreamEnds, StreamStarts, FirstReadFails, Unreadable
  <2> QED BY <1>4, <2>1
<1>9. CASE Lock(s)
  <2>1. pc[s] # "promote" /\ (keys' = keys \/ keys' = MarkHalfOpenDue(keys))
        BY <1>9 DEF Lock, Exec
  <2> QED BY <1>1, <1>6, <2>1, QuietStatements DEF slotVars
<1>10. CASE Begin(s) \/ Select(s) \/ Pick(s) \/ Exhaust(s) \/ Attempt(s) \/ Finish(s)
  <2>1. UNCHANGED keys
        BY <1>10 DEF Begin, Select, Pick, Exhaust, Attempt, Finish
  <2> QED BY <1>4, <2>1
<1>11. CASE Use(s)
  <2>1. pc[s] # "promote" /\ (keys' = keys \/ keys' = MarkUsed(keys, cur[s]))
        BY <1>11 DEF Use, Exec
  <2> QED BY <1>1, <1>6, <2>1, QuietStatements DEF slotVars
<1>12. ASSUME NEW reset \in Deadlines, RecordKeyFailure(s, reset)
       PROVE  pc[s] # "promote" /\ [Slot!Next]_slotVars
  <2>1. /\ pc[s] # "promote"
        /\ \/ keys' = keys \/ keys' = MarkInvalid(keys, cur[s])
           \/ keys' = MarkQuota(keys, cur[s], reset)
        BY <1>12 DEF RecordKeyFailure, Exec
  <2>2. [Slot!Next]_slotVars
    <3>1. CASE keys' = keys \/ keys' = MarkInvalid(keys, cur[s])
          BY <1>1, <3>1, QuietStatements DEF slotVars
    <3>2. CASE keys' = MarkQuota(keys, cur[s], reset)
      <4>1. \E until : keys' = MarkQuota(keys, cur[s], until)
            BY <3>2
      <4> QED BY <1>1, <4>1, QuietStatements DEF slotVars
    <3> QED BY <2>1, <3>1, <3>2
  <2> QED BY <2>1, <2>2
<1> QED
    BY <1>2, <1>3, <1>5, <1>6, <1>7, <1>8, <1>9, <1>10, <1>11, <1>12
    DEF Handler, Locking, Working

\* Tests and scheduler neither enable nor activate a key.
LEMMA ProbeSlot ==
    ASSUME TableInv(keys), TableInv(keys'), ProbeStep PROVE [Slot!Next]_slotVars
<1> SUFFICES \E k : \/ keys' = keys
                     \/ keys' = MarkUsed(keys, k)
                     \/ keys' = MarkInvalid(keys, k)
                     \/ \E auth : keys' = MarkChecked(keys, k, auth)
                     \/ \E until : keys' = MarkQuota(keys, k, until)
                     \/ keys' = MarkHalfOpenDue(keys)
    BY QuietStatements DEF slotVars
<1>1. CASE SchedulerStep
      BY <1>1 DEF SchedulerStep, Tick, List, TestNext, RoundEnds
<1>2. ASSUME NEW p \in Probers, LockProbe(p) PROVE keys' = keys
      BY <1>2 DEF LockProbe
<1>3. ASSUME NEW p \in Probers, NEW answer \in {"network", "auth", "ok", "nothing"},
             ModelsAnswer(p, answer)
      PROVE  \/ keys' = keys
             \/ keys' = MarkInvalid(keys, target[p])
             \/ \E auth : keys' = MarkChecked(keys, target[p], auth)
      BY <1>3 DEF ModelsAnswer
<1>4. ASSUME NEW p \in Probers, NEW answer \in {"quota", "auth", "ok", "nothing"},
             NEW reset \in Deadlines, InferenceAnswer(p, answer, reset)
      PROVE  \/ keys' = keys
             \/ keys' = MarkUsed(keys, target[p])
             \/ keys' = MarkInvalid(keys, target[p])
             \/ \E until : keys' = MarkQuota(keys, target[p], until)
      BY <1>4 DEF InferenceAnswer
<1> QED BY <1>1, <1>2, <1>3, <1>4 DEF ProbeStep, Testing

\* What admins do to the slot.
LEMMA AdminSlot ==
    ASSUME PoolInv, NEW a \in Admins, AdminHandler(a)
    PROVE  /\ [Slot!Next]_slotVars
           /\ \A b \in Admins : apc[b] = "activate" /\ apc'[b] = "idle"
                 => (ActiveKeys(keys) # {} => ActiveKeys(keys') # {})
<1> DEFINE others == \A b \in Admins : apc[b] = "activate" => apc'[b] # "idle"
<1>1. TableInv(keys) /\ apc \in [Admins -> {"idle", "update", "activate"}]
      BY DEF PoolInv, InferenceInv, AdminTypeOK
<1>2. ASSUME NEW p \in Priorities, NEW test \in {"none", "models", "inference"},
             CreateAndTest(a, p, test)
      PROVE  [Slot!Next]_slotVars /\ others
  <2>1. lastId + 1 \in KeyIds /\ keys' = CreateKey(keys, lastId + 1, p) /\ UNCHANGED apc
        BY <1>2 DEF CreateAndTest
  <2>2. lastId + 1 \notin DOMAIN keys
    <3>1. lastId \in Nat /\ \A k \in DOMAIN keys : k <= lastId
          BY DEF PoolInv, AdminTypeOK
    <3> QED BY <3>1
  <2> QED BY <1>1, <2>1, <2>2, CreateKeyStep DEF slotVars
<1>3. ASSUME NEW k \in KeyIds, NEW inference \in BOOLEAN, Test(a, k, inference)
      PROVE  [Slot!Next]_slotVars /\ others
  <2>1. UNCHANGED <<keys, apc>>
        BY <1>3 DEF Test
  <2> QED BY <2>1, SlotUnchanged
<1>4. ASSUME NEW k \in KeyIds, NEW p \in Priorities, NEW e \in BOOLEAN,
             ReadForUpdate(a, k, p, e)
      PROVE  [Slot!Next]_slotVars /\ others
  <2>1. UNCHANGED keys /\ others
        BY <1>1, <1>4 DEF ReadForUpdate
  <2> QED BY <2>1, SlotUnchanged
<1>5. ASSUME NEW k \in KeyIds, CheckActivation(a, k)
      PROVE  [Slot!Next]_slotVars /\ others
  <2>1. UNCHANGED keys /\ others
        BY <1>1, <1>5 DEF CheckActivation
  <2> QED BY <2>1, SlotUnchanged
<1>6. ASSUME NEW k \in KeyIds, Delete(a, k) PROVE [Slot!Next]_slotVars /\ others
  <2>1. keys' = DeleteKey(keys, k) /\ UNCHANGED apc
        BY <1>6 DEF Delete
  <2> QED BY <1>1, <2>1, DeleteKeyStep DEF slotVars
<1>7. CASE Update(a)
  <2>1. others
        BY <1>1, <1>7 DEF Update, Back
  <2>2. form[a].key \in KeyIds /\ form[a].priority \in Priorities /\ form[a].enabled \in BOOLEAN
        BY <1>7 DEF Update, PoolInv, Form
  <2>3. keys' = UpdateKey(keys, form[a].key, form[a].priority, form[a].enabled)
        BY <1>7 DEF Update
  <2> QED BY <1>1, <2>1, <2>2, <2>3, UpdateKeyStep DEF slotVars
<1>8. CASE Activate(a)
  <2>1. keys' = SetActive(keys, form[a].key)
        BY <1>8 DEF Activate
  <2> QED BY <1>1, <2>1, SetActiveStep DEF slotVars
<1> QED BY <1>2, <1>3, <1>4, <1>5, <1>6, <1>7, <1>8 DEF AdminHandler

\* Every step of the pool is a step of the slot, and a late promotion or
\* activation does not empty it.
LEMMA PoolStepSlot ==
    ASSUME PoolInv, PoolInv', [PoolNext]_poolVars
    PROVE  /\ [Slot!Next]_slotVars
           /\ (\/ \E s \in Slots  : pc[s] = "promote" /\ pc'[s] # "promote"
               \/ \E a \in Admins : apc[a] = "activate" /\ apc'[a] = "idle")
              => (ActiveKeys(keys) # {} => ActiveKeys(keys') # {})
<1>1. TableInv(keys) /\ TableInv(keys')
      BY DEF PoolInv, InferenceInv
<1>2. CASE InferenceStep /\ UNCHANGED <<probeVars, adminVars>>
  <2>1. UNCHANGED apc
        BY <1>2 DEF adminVars
  <2> QED BY <1>1, <1>2, <2>1, HandlersSlot
<1>3. CASE ProbeStep /\ UNCHANGED <<telemetryVars, inferenceVars, adminVars>>
  <2>1. UNCHANGED <<pc, apc>>
        BY <1>3 DEF inferenceVars, handlerVars, adminVars
  <2> QED BY <1>1, <1>3, <2>1, ProbeSlot
<1>4. ASSUME NEW a \in Admins, AdminHandler(a), UNCHANGED inferenceVars
      PROVE  /\ [Slot!Next]_slotVars
             /\ UNCHANGED pc
             /\ \A b \in Admins : apc[b] = "activate" /\ apc'[b] = "idle"
                   => (ActiveKeys(keys) # {} => ActiveKeys(keys') # {})
      BY <1>4, AdminSlot DEF inferenceVars, handlerVars
<1>5. ASSUME NEW k \in KeyIds, Clock(k), UNCHANGED <<probeVars, adminVars>>
      PROVE  [Slot!Next]_slotVars /\ UNCHANGED <<pc, apc>>
  <2>1. k \in DOMAIN keys /\ keys' = [keys EXCEPT ![k].until = "due"]
        BY <1>5 DEF Clock, CoolingElapses
  <2>2. /\ DOMAIN keys' = DOMAIN keys
        /\ \A i \in DOMAIN keys : /\ keys'[i].enabled = keys[i].enabled
                                  /\ keys'[i].role = keys[i].role
        BY <1>1, <2>1 DEF TableInv, IsKeyTable, KeyRow
  <2> QED BY <1>1, <1>5, <2>2, QuietStep
          DEF slotVars, Clock, inferenceVars, handlerVars, adminVars
<1>6. CASE CrashAll
  <2>1. UNCHANGED keys
        BY <1>6 DEF CrashAll, Crash
  <2> QED BY <2>1, SlotUnchanged
<1>7. CASE UNCHANGED poolVars
  <2>1. UNCHANGED keys
        BY <1>7 DEF poolVars, vars
  <2> QED BY <2>1, SlotUnchanged
<1> QED BY <1>2, <1>3, <1>4, <1>5, <1>6, <1>7 DEF PoolNext

\* The slot starts empty: keys stand by until one is promoted.
LEMMA PoolInitSlot == PoolInit => Slot!Init
<1> SUFFICES ASSUME PoolInit PROVE Slot!Init
    OBVIOUS
<1>1. PICK p \in [InitialKeys -> Priorities] : keys = [k \in InitialKeys |-> NewRow(p[k])]
      BY DEF PoolInit, Init, StoreInit
<1>2. ActiveKeys(keys) = {}
      BY <1>1 DEF ActiveKeys, NewRow
<1>3. EnabledKeys(keys) \subseteq KeyIds
      BY <1>1, StoreAssumption DEF EnabledKeys
<1> QED BY <1>2, <1>3, ActiveKeyNone DEF Slot!Init

\* The whole pool implements the slot, for any number of handlers, admins and
\* keys.
THEOREM PoolImplementsSlot == PoolSpec => ImplementsActiveSlot
<1>1. PoolInv /\ PoolInv' /\ [PoolNext]_poolVars
         => [Slot!Next]_<<ActiveKey(keys), EnabledKeys(keys)>>
      BY PoolStepSlot DEF slotVars
<1> QED BY PoolInvariant, PoolInitSlot, <1>1, PTL DEF PoolSpec, ImplementsActiveSlot, Slot!Spec

\* A promotion or activation that lost its key to an admin meanwhile does not
\* empty the slot.
THEOREM LatePromotionIsHarmless == PoolSpec => PromotionKeepsSlotFilled
<1>1. PoolInv /\ PoolInv' /\ [PoolNext]_poolVars
         => [(\/ \E s \in Slots  : pc[s] = "promote" /\ pc'[s] # "promote"
              \/ \E a \in Admins : apc[a] = "activate" /\ apc'[a] = "idle")
             => (ActiveKeys(keys) # {} => ActiveKeys(keys') # {})]_poolVars
      BY PoolStepSlot
<1> QED BY PoolInvariant, <1>1, PTL DEF PoolSpec, PromotionKeepsSlotFilled

=============================================================================
