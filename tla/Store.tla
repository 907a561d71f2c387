------------------------------- MODULE Store -------------------------------
(***************************************************************************)
(* The SQLite store of the proxy (internal/store/sqlite.go): the `keys'    *)
(* table and the statements that change it.                                *)
(*                                                                         *)
(* The pool is opened with SetMaxOpenConns(1), so statements and           *)
(* transactions never overlap: each method of Store that runs one of them  *)
(* is an operator from the table before to the table after.  A statement   *)
(* whose WHERE clause matches no row leaves the table as it was.           *)
(*                                                                         *)
(* Time is abstract.  cooling_until is NULL, a moment still to come        *)
(* ("future") or one that has been reached ("due"); CoolingElapses is the  *)
(* clock.  Names, ciphertexts, messages, windows and the *_at columns that *)
(* no decision modelled here reads are left out, and so is control_state,  *)
(* which only orders AuthValidKeys.                                        *)
(***************************************************************************)
EXTENDS Integers

CONSTANTS
    KeyIds,       \* the ids AUTOINCREMENT may hand out (bound: their number)
    Priorities,   \* the priorities an operator gives to keys
    InitialKeys,  \* the keys stored before the behaviour starts
    Undecryptable \* keys whose stored secret does not decrypt

ASSUME StoreAssumption ==
    /\ KeyIds \subseteq Nat \ {0}
    /\ InitialKeys \subseteq KeyIds
    /\ Undecryptable \subseteq KeyIds
    /\ Priorities \subseteq Int

VARIABLE keys     \* the table: a function from the ids of its rows

AuthStates  == {"unknown", "valid", "invalid"}
QuotaStates == {"unknown", "available", "cooling", "half_open"}
Roles       == {"active", "standby"}
Deadlines   == {"future", "due"}

KeyRow == [enabled : BOOLEAN, auth : AuthStates, quota : QuotaStates,
           role : Roles, until : {"null"} \cup Deadlines,
           priority : Priorities]

IsKeyTable(t) == /\ DOMAIN t \subseteq KeyIds
                 /\ t \in [DOMAIN t -> KeyRow]

NewRow(p) == [enabled |-> TRUE, auth |-> "unknown", quota |-> "unknown",
              role |-> "standby", until |-> "null", priority |-> p]

StoreInit ==
    \E p \in [InitialKeys -> Priorities] :
        keys = [k \in InitialKeys |-> NewRow(p[k])]

-----------------------------------------------------------------------------
(* Statements. *)

CreateKey(t, k, p) ==
    [i \in DOMAIN t \cup {k} |-> IF i = k THEN NewRow(p) ELSE t[i]]

DeleteKey(t, k) == [i \in DOMAIN t \ {k} |-> t[i]]

\* (Mutant: forgets the role.)
UpdateKeyBug(t, k, p, e) ==
    [i \in DOMAIN t |->
        IF i = k THEN [t[i] EXCEPT !.priority = p, !.enabled = e] ELSE t[i]]

\* Disabling a key also takes it out of the active slot.
UpdateKey(t, k, p, e) ==
    [i \in DOMAIN t |->
        IF i = k
        THEN [t[i] EXCEPT !.priority = p, !.enabled = e,
                          !.role = IF e THEN @ ELSE "standby"]
        ELSE t[i]]

\* (Mutants: nobody steps down; a disabled key may take over; no rollback.)
SetActiveBesideOthers(t, k) ==
    IF k \in DOMAIN t /\ t[k].enabled THEN [t EXCEPT ![k].role = "active"] ELSE t

SetActiveUnchecked(t, k) ==
    IF k \in DOMAIN t
    THEN [i \in DOMAIN t |->
            [t[i] EXCEPT !.role = IF i = k THEN "active" ELSE "standby"]]
    ELSE t

SetActiveNoRollback(t, k) ==
    [i \in DOMAIN t |->
        [t[i] EXCEPT !.role = IF i = k /\ t[i].enabled THEN "active" ELSE "standby"]]

\* One transaction: all active keys step down, then k takes over if it is
\* enabled.  When the second UPDATE does not hit exactly one row, the
\* transaction is rolled back and the first one is undone with it.
SetActive(t, k) ==
    IF k \in DOMAIN t /\ t[k].enabled
    THEN [i \in DOMAIN t |->
            [t[i] EXCEPT !.role = IF i = k THEN "active" ELSE "standby"]]
    ELSE t

\* (Mutant: the two columns are swapped.)
MarkCheckedBug(t, k, auth) ==
    [i \in DOMAIN t |-> IF i = k THEN [t[i] EXCEPT !.quota = auth] ELSE t[i]]

\* Both callers pass an empty quota state, which keeps the stored one.
MarkChecked(t, k, auth) ==
    [i \in DOMAIN t |-> IF i = k THEN [t[i] EXCEPT !.auth = auth] ELSE t[i]]

\* (Mutant: cooling_until is not reset.)
MarkUsedBug(t, k) ==
    [i \in DOMAIN t |->
        IF i = k THEN [t[i] EXCEPT !.auth = "valid", !.quota = "available"] ELSE t[i]]

MarkUsed(t, k) ==
    [i \in DOMAIN t |->
        IF i = k
        THEN [t[i] EXCEPT !.auth = "valid", !.quota = "available",
                          !.until = "null"]
        ELSE t[i]]

\* (Mutant: the two columns are swapped.)
MarkInvalidBug(t, k) ==
    [i \in DOMAIN t |->
        IF i = k THEN [t[i] EXCEPT !.auth = "standby", !.role = "invalid"] ELSE t[i]]

MarkInvalid(t, k) ==
    [i \in DOMAIN t |->
        IF i = k
        THEN [t[i] EXCEPT !.auth = "invalid", !.role = "standby"]
        ELSE t[i]]

\* (Mutant: the deadline is stored only when the upstream names one.)
MarkQuotaBug(t, k, until) ==
    [i \in DOMAIN t |->
        IF i = k
        THEN [t[i] EXCEPT !.quota = "cooling", !.role = "standby",
                          !.until = IF until = "due" THEN "due" ELSE "null"]
        ELSE t[i]]

\* One transaction with the INSERT into quota_events, whose foreign key makes
\* both fail when the key is gone: there is then no row to update either.
MarkQuota(t, k, until) ==
    [i \in DOMAIN t |->
        IF i = k
        THEN [t[i] EXCEPT !.quota = "cooling", !.role = "standby",
                          !.until = until]
        ELSE t[i]]

\* (Mutant: does not compare the deadline with the clock.)
MarkHalfOpenDueBug(t) ==
    [i \in DOMAIN t |->
        IF t[i].quota = "cooling" THEN [t[i] EXCEPT !.quota = "half_open"] ELSE t[i]]

MarkHalfOpenDue(t) ==
    [i \in DOMAIN t |->
        IF t[i].quota = "cooling" /\ t[i].until = "due"
        THEN [t[i] EXCEPT !.quota = "half_open"]
        ELSE t[i]]

-----------------------------------------------------------------------------
(* Queries. *)

Eligible(row) == row.enabled /\ row.auth # "invalid" /\ row.quota # "cooling"

EligibleKeys(t) == {k \in DOMAIN t : Eligible(t[k])}

\* ORDER BY role (active first), priority, id
Before(t, i, j) ==
    LET rank(k) == IF t[k].role = "active" THEN 0 ELSE 1
    IN \/ rank(i) < rank(j)
       \/ rank(i) = rank(j) /\ t[i].priority < t[j].priority
       \/ rank(i) = rank(j) /\ t[i].priority = t[j].priority /\ i < j

-----------------------------------------------------------------------------
\* The clock reaches the deadline of a key.
CoolingElapses(k) ==
    /\ k \in DOMAIN keys
    /\ keys[k].until = "future"
    /\ keys' = [keys EXCEPT ![k].until = "due"]

-----------------------------------------------------------------------------
(* What every reachable table satisfies. *)

AtMostOneActiveIn(t) ==
    \A i, j \in DOMAIN t : t[i].role = "active" /\ t[j].role = "active" => i = j

ActiveIsEnabledIn(t) ==
    \A k \in DOMAIN t : t[k].role = "active" => t[k].enabled

DeadlineMatchesQuotaIn(t) ==
    \A k \in DOMAIN t :
        /\ t[k].quota \in {"cooling", "half_open"} <=> t[k].until # "null"
        /\ t[k].quota = "half_open" => t[k].until = "due"

\* The pool has at most one active key, whatever the handlers that promote,
\* activate, demote or disable keys do at once.
AtMostOneActive == AtMostOneActiveIn(keys)

\* A disabled key is never the active one: neither a promotion decided before
\* the key was disabled nor an update that overlaps one can bring it back.
ActiveIsEnabled == ActiveIsEnabledIn(keys)

\* A key that cools has a deadline, without which MarkHalfOpenDue would never
\* wake it; a key is half-open only after its deadline; and no deadline
\* outlives the state it belongs to.
DeadlineMatchesQuota == DeadlineMatchesQuotaIn(keys)

TableInv(t) == /\ IsKeyTable(t)
               /\ AtMostOneActiveIn(t)
               /\ ActiveIsEnabledIn(t)
               /\ DeadlineMatchesQuotaIn(t)
=============================================================================
