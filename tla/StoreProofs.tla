---------------------------- MODULE StoreProofs ----------------------------
(***************************************************************************)
(* Every statement of the store keeps the key table well-formed: rows of   *)
(* the right type, at most one active key and that one enabled, and a      *)
(* deadline exactly for the keys that wait for one.                        *)
(***************************************************************************)
EXTENDS Store, TLAPS

\* The table an operator starts with is well-formed.
LEMMA StoreInitInv ==
    ASSUME StoreInit PROVE TableInv(keys)
<1>1. PICK p \in [InitialKeys -> Priorities] :
          keys = [k \in InitialKeys |-> NewRow(p[k])]
      BY DEF StoreInit
<1>2. DOMAIN keys \subseteq KeyIds
      BY <1>1, StoreAssumption
<1>3. \A k \in DOMAIN keys : keys[k] = NewRow(p[k]) /\ p[k] \in Priorities
      BY <1>1
<1> QED
    BY <1>1, <1>2, <1>3
    DEF TableInv, IsKeyTable, AtMostOneActiveIn, ActiveIsEnabledIn,
        DeadlineMatchesQuotaIn, NewRow, KeyRow, AuthStates, QuotaStates, Roles, Deadlines

\* INSERT: the new key is enabled, standby and not cooling.
LEMMA CreateKeyInv ==
    ASSUME NEW t, TableInv(t), NEW k \in KeyIds, NEW p \in Priorities
    PROVE  TableInv(CreateKey(t, k, p))
<1> DEFINE u == CreateKey(t, k, p)
<1>1. DOMAIN u = DOMAIN t \cup {k}
      BY DEF CreateKey
<1>2. \A i \in DOMAIN u : u[i] = IF i = k THEN NewRow(p) ELSE t[i]
      BY DEF CreateKey
<1>3. NewRow(p) \in KeyRow
      BY DEF NewRow, KeyRow, AuthStates, QuotaStates, Roles, Deadlines
<1>4. IsKeyTable(u)
      BY <1>3 DEF CreateKey, TableInv, IsKeyTable
<1>5. AtMostOneActiveIn(u) /\ ActiveIsEnabledIn(u) /\ DeadlineMatchesQuotaIn(u)
      BY <1>1, <1>2
      DEF TableInv, AtMostOneActiveIn, ActiveIsEnabledIn, DeadlineMatchesQuotaIn, NewRow
<1> QED BY <1>4, <1>5 DEF TableInv

\* DELETE
LEMMA DeleteKeyInv ==
    ASSUME NEW t, TableInv(t), NEW k
    PROVE  TableInv(DeleteKey(t, k))
BY DEF DeleteKey, TableInv, IsKeyTable, AtMostOneActiveIn, ActiveIsEnabledIn,
       DeadlineMatchesQuotaIn

\* UpdateKey demotes the key it disables.
LEMMA UpdateKeyInv ==
    ASSUME NEW t, TableInv(t), NEW k, NEW p \in Priorities, NEW e \in BOOLEAN
    PROVE  TableInv(UpdateKey(t, k, p, e))
<1> DEFINE u == UpdateKey(t, k, p, e)
<1>1. DOMAIN u = DOMAIN t
      BY DEF UpdateKey
<1>2. \A i \in DOMAIN t : t[i] \in KeyRow
      BY DEF TableInv, IsKeyTable
<1>3. \A i \in DOMAIN t : /\ u[i] \in KeyRow
                          /\ u[i].quota = t[i].quota
                          /\ u[i].until = t[i].until
                          /\ u[i].role = "active" => t[i].role = "active" /\ u[i].enabled
      BY <1>2 DEF UpdateKey, KeyRow, Roles, TableInv, ActiveIsEnabledIn
<1>4. IsKeyTable(u)
      BY <1>1, <1>3 DEF TableInv, IsKeyTable, UpdateKey
<1>5. AtMostOneActiveIn(u) /\ ActiveIsEnabledIn(u) /\ DeadlineMatchesQuotaIn(u)
      BY <1>1, <1>3
      DEF TableInv, AtMostOneActiveIn, ActiveIsEnabledIn, DeadlineMatchesQuotaIn
<1> QED BY <1>4, <1>5 DEF TableInv

\* SetActive, committed or rolled back.
LEMMA SetActiveInv ==
    ASSUME NEW t, TableInv(t), NEW k
    PROVE  TableInv(SetActive(t, k))
<1> DEFINE u == SetActive(t, k)
<1>1. CASE ~(k \in DOMAIN t /\ t[k].enabled)
      BY <1>1 DEF SetActive
<1>2. CASE k \in DOMAIN t /\ t[k].enabled
  <2>1. \A i \in DOMAIN t : t[i] \in KeyRow
        BY DEF TableInv, IsKeyTable
  <2>2. /\ DOMAIN u = DOMAIN t
        /\ \A i \in DOMAIN t :
              u[i] = [t[i] EXCEPT !.role = IF i = k THEN "active" ELSE "standby"]
        BY <1>2 DEF SetActive
  <2>3. \A i \in DOMAIN t : /\ u[i] \in KeyRow
                            /\ u[i].role = "active" <=> i = k
                            /\ u[i].enabled = t[i].enabled
                            /\ u[i].quota = t[i].quota
                            /\ u[i].until = t[i].until
        BY <2>1, <2>2 DEF KeyRow, Roles
  <2>4. IsKeyTable(u)
        BY <1>2, <2>3 DEF TableInv, IsKeyTable, SetActive
  <2>5. AtMostOneActiveIn(u) /\ ActiveIsEnabledIn(u) /\ DeadlineMatchesQuotaIn(u)
        BY <1>2, <2>2, <2>3
        DEF TableInv, AtMostOneActiveIn, ActiveIsEnabledIn, DeadlineMatchesQuotaIn
  <2> QED BY <2>4, <2>5 DEF TableInv
<1> QED BY <1>1, <1>2

\* An UPDATE that neither activates nor enables nor disables a key, and leaves
\* quota and deadline in step, keeps the table well-formed.
LEMMA UpdateInv ==
    ASSUME NEW t, TableInv(t), NEW u,
           DOMAIN u = DOMAIN t, u \in [DOMAIN t -> KeyRow],
           \A i \in DOMAIN t :
              /\ u[i].enabled = t[i].enabled
              /\ u[i].role = "active" => t[i].role = "active"
              /\ u[i].quota \in {"cooling", "half_open"} <=> u[i].until # "null"
              /\ u[i].quota = "half_open" => u[i].until = "due"
    PROVE  TableInv(u)
BY DEF TableInv, IsKeyTable, AtMostOneActiveIn, ActiveIsEnabledIn, DeadlineMatchesQuotaIn

\* The four statements that record what a call revealed of a key.
LEMMA MarkInv ==
    ASSUME NEW t, TableInv(t), NEW k
    PROVE  /\ TableInv(MarkUsed(t, k))
           /\ TableInv(MarkInvalid(t, k))
           /\ \A auth \in AuthStates : TableInv(MarkChecked(t, k, auth))
           /\ \A until \in Deadlines : TableInv(MarkQuota(t, k, until))
<1>1. \A i \in DOMAIN t :
         /\ t[i] \in KeyRow
         /\ t[i].quota \in {"cooling", "half_open"} <=> t[i].until # "null"
         /\ t[i].quota = "half_open" => t[i].until = "due"
      BY DEF TableInv, IsKeyTable, DeadlineMatchesQuotaIn
<1>2. TableInv(MarkUsed(t, k))
  <2> DEFINE u == MarkUsed(t, k)
  <2>1. DOMAIN u = DOMAIN t /\ u \in [DOMAIN t -> KeyRow]
        BY <1>1 DEF MarkUsed, KeyRow, AuthStates, QuotaStates
  <2>2. \A i \in DOMAIN t :
           /\ u[i].enabled = t[i].enabled
           /\ u[i].role = "active" => t[i].role = "active"
           /\ u[i].quota \in {"cooling", "half_open"} <=> u[i].until # "null"
           /\ u[i].quota = "half_open" => u[i].until = "due"
        BY <1>1 DEF MarkUsed, KeyRow
  <2> QED BY <2>1, <2>2, UpdateInv
<1>3. TableInv(MarkInvalid(t, k))
  <2> DEFINE u == MarkInvalid(t, k)
  <2>1. DOMAIN u = DOMAIN t /\ u \in [DOMAIN t -> KeyRow]
        BY <1>1 DEF MarkInvalid, KeyRow, AuthStates, Roles
  <2>2. \A i \in DOMAIN t :
           /\ u[i].enabled = t[i].enabled
           /\ u[i].role = "active" => t[i].role = "active"
           /\ u[i].quota \in {"cooling", "half_open"} <=> u[i].until # "null"
           /\ u[i].quota = "half_open" => u[i].until = "due"
        BY <1>1 DEF MarkInvalid, KeyRow
  <2> QED BY <2>1, <2>2, UpdateInv
<1>4. ASSUME NEW auth \in AuthStates PROVE TableInv(MarkChecked(t, k, auth))
  <2> DEFINE u == MarkChecked(t, k, auth)
  <2>1. DOMAIN u = DOMAIN t /\ u \in [DOMAIN t -> KeyRow]
        BY <1>1 DEF MarkChecked, KeyRow
  <2>2. \A i \in DOMAIN t :
           /\ u[i].enabled = t[i].enabled
           /\ u[i].role = "active" => t[i].role = "active"
           /\ u[i].quota \in {"cooling", "half_open"} <=> u[i].until # "null"
           /\ u[i].quota = "half_open" => u[i].until = "due"
        BY <1>1 DEF MarkChecked, KeyRow
  <2> QED BY <2>1, <2>2, UpdateInv
<1>5. ASSUME NEW until \in Deadlines PROVE TableInv(MarkQuota(t, k, until))
  <2> DEFINE u == MarkQuota(t, k, until)
  <2>1. DOMAIN u = DOMAIN t /\ u \in [DOMAIN t -> KeyRow]
        BY <1>1 DEF MarkQuota, KeyRow, QuotaStates, Roles
  <2>2. \A i \in DOMAIN t :
           /\ u[i].enabled = t[i].enabled
           /\ u[i].role = "active" => t[i].role = "active"
           /\ u[i].quota \in {"cooling", "half_open"} <=> u[i].until # "null"
           /\ u[i].quota = "half_open" => u[i].until = "due"
        BY <1>1 DEF MarkQuota, KeyRow, Deadlines
  <2> QED BY <2>1, <2>2, UpdateInv
<1> QED BY <1>2, <1>3, <1>4, <1>5

\* Waking the keys that are due.
LEMMA MarkHalfOpenDueInv ==
    ASSUME NEW t, TableInv(t)
    PROVE  TableInv(MarkHalfOpenDue(t))
<1> DEFINE u == MarkHalfOpenDue(t)
<1>1. \A i \in DOMAIN t :
         /\ t[i] \in KeyRow
         /\ t[i].quota \in {"cooling", "half_open"} <=> t[i].until # "null"
         /\ t[i].quota = "half_open" => t[i].until = "due"
      BY DEF TableInv, IsKeyTable, DeadlineMatchesQuotaIn
<1>2. DOMAIN u = DOMAIN t /\ u \in [DOMAIN t -> KeyRow]
      BY <1>1 DEF MarkHalfOpenDue, KeyRow, QuotaStates
<1>3. \A i \in DOMAIN t :
         /\ u[i].enabled = t[i].enabled
         /\ u[i].role = "active" => t[i].role = "active"
         /\ u[i].quota \in {"cooling", "half_open"} <=> u[i].until # "null"
         /\ u[i].quota = "half_open" => u[i].until = "due"
      BY <1>1 DEF MarkHalfOpenDue, KeyRow
<1> QED BY <1>2, <1>3, UpdateInv

\* The passing of time.
LEMMA CoolingElapsesInv ==
    ASSUME TableInv(keys), NEW k, CoolingElapses(k)
    PROVE  TableInv(keys')
<1>1. \A i \in DOMAIN keys :
         /\ keys[i] \in KeyRow
         /\ keys[i].quota \in {"cooling", "half_open"} <=> keys[i].until # "null"
         /\ keys[i].quota = "half_open" => keys[i].until = "due"
      BY DEF TableInv, IsKeyTable, DeadlineMatchesQuotaIn
<1>2. DOMAIN keys' = DOMAIN keys /\ keys' \in [DOMAIN keys -> KeyRow]
      BY <1>1 DEF CoolingElapses, KeyRow, Deadlines
<1>3. \A i \in DOMAIN keys :
         /\ keys'[i].enabled = keys[i].enabled
         /\ keys'[i].role = "active" => keys[i].role = "active"
         /\ keys'[i].quota \in {"cooling", "half_open"} <=> keys'[i].until # "null"
         /\ keys'[i].quota = "half_open" => keys'[i].until = "due"
      BY <1>1 DEF CoolingElapses, KeyRow
<1> QED BY <1>2, <1>3, UpdateInv
=============================================================================
