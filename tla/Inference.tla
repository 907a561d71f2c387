----------------------------- MODULE Inference -----------------------------
(***************************************************************************)
(* HandleInference of internal/proxy/service.go, run by several handlers   *)
(* at once over one store.                                                 *)
(*                                                                         *)
(* A handler takes a snapshot of the eligible keys under Service.mu and    *)
(* tries them in order with no lock held, so every statement it makes      *)
(* afterwards may act on a key that others have changed since.  One action *)
(* is one statement of the store, one critical section or one answer of    *)
(* the upstream; pc[s] names the step that handler s takes next:           *)
(*                                                                         *)
(*   idle -> begin -> lock -> select -> pick -> call -> (stream) ->        *)
(*   record | used -> promote -> attempt, in the order of the branch       *)
(*   -> pick again, or finish -> idle                                      *)
(*                                                                         *)
(* A client that goes away cancels r.Context(), and with it every later    *)
(* statement of that handler and its call to the upstream.                 *)
(***************************************************************************)
EXTENDS Telemetry, FiniteSets

CONSTANTS
    NoSlot,          \* Service.mu is free
    Streamers,       \* the slots whose requests ask for a stream
    Fickle,          \* the slots whose clients may go away
    UpstreamSays     \* the verdicts the upstream may cause in this run

ASSUME InferenceAssumption ==
    /\ IsFiniteSet(KeyIds)
    /\ NoSlot \notin Slots
    /\ Streamers \subseteq Slots
    /\ Fickle \subseteq Slots

VARIABLES
    mu,        \* holder of Service.mu
    pc,        \* next step of each handler
    pool,      \* snapshot: key -> its role and priority when selected
    todo,      \* keys of the snapshot not tried yet
    cur,       \* the key called last (record.FinalKeyID)
    verdict,   \* what became of that call
    sent,      \* has the client received a part of an answer?
    gone       \* has the client gone away?

handlerVars   == <<pc, pool, todo, cur, verdict, sent, gone>>
inferenceVars == <<mu, handlerVars>>
vars          == <<keys, telemetryVars, inferenceVars>>

Steps == {"idle", "begin", "lock", "select", "pick", "call", "stream",
          "record", "used", "promote", "attempt", "finish"}

\* Classify sees status 401 or 403 before it answers `auth', so a stream,
\* which has a 2xx status, can only fail with `quota'.
KeyFailures   == {"quota", "auth"}      \* before any output: try the next key
PlainVerdicts == KeyFailures \cup
    {"answered",      \* a status below 400
     "refused",       \* a status of 400 or more that is no key failure
     "network"}       \* no response
EndOfStream ==
    {"streamed",      \* forwarded to its end
     "cut",           \* a read or a write failed after the first event
     "late"}          \* an event after the first was a quota error
Verdicts == PlainVerdicts \cup EndOfStream \cup
    {"none",
     "unread",        \* the first event of a stream could not be read
     "unreadable"}    \* the body of a plain response could not be read

SnapshotRow == [role : Roles, priority : Priorities]
IsSnapshot(t) == DOMAIN t \subseteq KeyIds /\ t \in [DOMAIN t -> SnapshotRow]

InferenceTypeOK ==
    /\ mu \in Slots \cup {NoSlot}
    /\ pc \in [Slots -> Steps]
    /\ DOMAIN pool = Slots /\ \A s \in Slots : IsSnapshot(pool[s])
    /\ todo \in [Slots -> SUBSET KeyIds]
    /\ cur \in [Slots -> KeyIds \cup {NoKey}]
    /\ verdict \in [Slots -> Verdicts]
    /\ sent \in [Slots -> BOOLEAN]
    /\ gone \in [Slots -> BOOLEAN]

TypeOK == IsKeyTable(keys) /\ TelemetryTypeOK /\ InferenceTypeOK

NoSnapshot == [k \in {} |-> k]

InferenceInit ==
    /\ mu      = NoSlot
    /\ pc      = [s \in Slots |-> "idle"]
    /\ pool    = [s \in Slots |-> NoSnapshot]
    /\ todo    = [s \in Slots |-> {}]
    /\ cur     = [s \in Slots |-> NoKey]
    /\ verdict = [s \in Slots |-> "none"]
    /\ sent    = [s \in Slots |-> FALSE]
    /\ gone    = [s \in Slots |-> FALSE]

Init == StoreInit /\ TelemetryInit /\ InferenceInit

-----------------------------------------------------------------------------
(* Steps shared by the actions. *)

Goto(s, step) == pc' = [pc EXCEPT ![s] = step]

\* The handler of slot s returns: nothing of it is left but its rows.
Return(s) ==
    /\ Goto(s, "idle")
    /\ pool'    = [pool    EXCEPT ![s] = NoSnapshot]
    /\ todo'    = [todo    EXCEPT ![s] = {}]
    /\ cur'     = [cur     EXCEPT ![s] = NoKey]
    /\ verdict' = [verdict EXCEPT ![s] = "none"]
    /\ sent'    = [sent    EXCEPT ![s] = FALSE]
    /\ gone'    = [gone    EXCEPT ![s] = FALSE]

\* A statement on the keys table, made with the request's context.
Exec(s, table) == keys' = IF gone[s] THEN keys ELSE table

\* attemptNo, and at the end record.AttemptCount
Tried(s) == Cardinality(DOMAIN pool[s] \ todo[s])

UnchangedBut_pc == UNCHANGED <<pool, todo, cur, verdict, sent, gone>>

-----------------------------------------------------------------------------
Arrive(s) ==
    /\ pc[s] = "idle"
    /\ Goto(s, "begin")
    /\ UnchangedBut_pc
    /\ UNCHANGED <<keys, telemetryVars, mu>>

Disconnect(s) ==
    /\ s \in Fickle
    /\ pc[s] # "idle"
    /\ ~gone[s]
    /\ gone' = [gone EXCEPT ![s] = TRUE]
    /\ UNCHANGED <<keys, telemetryVars, mu, pc, pool, todo, cur, verdict, sent>>

\* A cancelled BeginRequest inserts nothing; the row of the request that used
\* the slot before is then no longer of interest.
Begin(s) ==
    /\ pc[s] = "begin"
    /\ IF gone[s]
       THEN /\ requests' = [requests EXCEPT ![s] = NoRow]
            /\ attempts' = [attempts EXCEPT ![s] = {}]
       ELSE BeginRequest(s)
    /\ Goto(s, "lock")
    /\ UnchangedBut_pc
    /\ UNCHANGED <<keys, mu>>

Lock(s) ==
    /\ pc[s] = "lock"
    /\ mu = NoSlot
    /\ mu' = s
    /\ Exec(s, MarkHalfOpenDue(keys))
    /\ Goto(s, "select")
    /\ UnchangedBut_pc
    /\ UNCHANGED telemetryVars

\* (Mutant: returns with the mutex when there is no key.)
SelectBug(s) ==
    LET eligible == IF gone[s] THEN {} ELSE EligibleKeys(keys)
    IN  /\ pc[s] = "select"
        /\ mu' = IF eligible = {} THEN mu ELSE NoSlot
        /\ pool' = [pool EXCEPT ![s] =
                      [k \in eligible |-> [role     |-> keys[k].role,
                                           priority |-> keys[k].priority]]]
        /\ todo' = [todo EXCEPT ![s] = eligible]
        /\ Goto(s, IF eligible = {} THEN "finish" ELSE "pick")
        /\ UNCHANGED <<keys, telemetryVars, cur, verdict, sent, gone>>

\* EligibleKeys fails when the context is cancelled.
Select(s) ==
    LET eligible == IF gone[s] THEN {} ELSE EligibleKeys(keys)
    IN  /\ pc[s] = "select"
        /\ mu' = NoSlot
        /\ pool' = [pool EXCEPT ![s] =
                      [k \in eligible |-> [role     |-> keys[k].role,
                                           priority |-> keys[k].priority]]]
        /\ todo' = [todo EXCEPT ![s] = eligible]
        /\ Goto(s, IF eligible = {} THEN "finish" ELSE "pick")
        /\ UNCHANGED <<keys, telemetryVars, cur, verdict, sent, gone>>

\* The head of the loop: the next key is called, or skipped when its secret
\* does not decrypt.
Pick(s) ==
    /\ pc[s] = "pick"
    /\ \E k \in todo[s] :
        /\ \A j \in todo[s] \ {k} : Before(pool[s], k, j)
        /\ todo' = [todo EXCEPT ![s] = @ \ {k}]
        /\ IF k \in Undecryptable
           THEN UNCHANGED <<pc, cur>>
           ELSE Goto(s, "call") /\ cur' = [cur EXCEPT ![s] = k]
    /\ UNCHANGED <<keys, telemetryVars, mu, pool, verdict, sent, gone>>

\* (Mutant: gives up with a key left.)
ExhaustBug(s) ==
    /\ pc[s] = "pick"
    /\ Cardinality(todo[s]) <= 1
    /\ Goto(s, "finish")
    /\ UnchangedBut_pc
    /\ UNCHANGED <<keys, telemetryVars, mu>>

Exhaust(s) ==
    /\ pc[s] = "pick"
    /\ todo[s] = {}
    /\ Goto(s, "finish")
    /\ UnchangedBut_pc
    /\ UNCHANGED <<keys, telemetryVars, mu>>

-----------------------------------------------------------------------------
(* What the upstream answers. *)

\* The call is over before any output.  The first event of a stream may carry
\* a quota error as well as the body of a plain response does.
Answer(s, v) ==
    /\ pc[s] = "call"
    /\ v \in PlainVerdicts
    /\ gone[s] => v = "network"
    /\ verdict' = [verdict EXCEPT ![s] = v]
    /\ Goto(s, IF v \in KeyFailures THEN "record" ELSE "attempt")
    /\ UNCHANGED <<keys, telemetryVars, mu, pool, todo, cur, sent, gone>>

\* The handler answers 502 and returns with no further statement.
Unreadable(s) ==
    /\ pc[s] = "call"
    /\ Return(s)
    /\ UNCHANGED <<keys, telemetryVars, mu>>

\* forwardStream reports a copy error and no late error: the handler goes the
\* way of a success.
FirstReadFails(s) ==
    /\ pc[s] = "call"
    /\ s \in Streamers
    /\ verdict' = [verdict EXCEPT ![s] = "unread"]
    /\ Goto(s, "used")
    /\ UNCHANGED <<keys, telemetryVars, mu, pool, todo, cur, sent, gone>>

StreamStarts(s) ==
    /\ pc[s] = "call"
    /\ s \in Streamers
    /\ ~gone[s]
    /\ sent' = [sent EXCEPT ![s] = TRUE]
    /\ Goto(s, "stream")
    /\ UNCHANGED <<keys, telemetryVars, mu, pool, todo, cur, verdict, gone>>

StreamEnds(s, v) ==
    /\ pc[s] = "stream"
    /\ v \in EndOfStream
    /\ verdict' = [verdict EXCEPT ![s] = v]
    /\ Goto(s, IF v = "late" THEN "record" ELSE "used")
    /\ UNCHANGED <<keys, telemetryVars, mu, pool, todo, cur, sent, gone>>

-----------------------------------------------------------------------------
(* What the handler makes of it. *)

\* recordKeyFailure: without a reset of the upstream the deadline is a probe
\* interval ahead, so one is always stored.  A Retry-After of 0 or of a past
\* date gives a deadline that is due at once.
RecordKeyFailure(s, reset) ==
    /\ pc[s] = "record"
    /\ Exec(s, IF verdict[s] = "auth" THEN MarkInvalid(keys, cur[s])
                                      ELSE MarkQuota(keys, cur[s], reset))
    /\ Goto(s, "attempt")
    /\ UnchangedBut_pc
    /\ UNCHANGED <<telemetryVars, mu>>

\* A plain answer has its attempt on record before its key is marked; a
\* stream has it afterwards.
AfterUse(s) == IF verdict[s] = "answered" THEN "finish" ELSE "attempt"

Use(s) ==
    /\ pc[s] = "used"
    /\ Exec(s, MarkUsed(keys, cur[s]))
    /\ Goto(s, IF pool[s][cur[s]].role = "active" THEN AfterUse(s) ELSE "promote")
    /\ UnchangedBut_pc
    /\ UNCHANGED <<telemetryVars, mu>>

\* promoteIfNeeded, decided by the role in the snapshot
Promote(s) ==
    /\ pc[s] = "promote"
    /\ mu = NoSlot
    /\ Exec(s, SetActive(keys, cur[s]))
    /\ Goto(s, AfterUse(s))
    /\ UnchangedBut_pc
    /\ UNCHANGED <<telemetryVars, mu>>

Outcome(v) == CASE v \in KeyFailures               -> "failover"
                [] v \in {"answered", "streamed"}  -> "success"
                [] OTHER                           -> "error"

\* (Mutants: attempts counted from 0; the next key tried after a network error.)
AttemptFromZero(s) ==
    /\ pc[s] = "attempt"
    /\ IF gone[s]
       THEN UNCHANGED telemetryVars
       ELSE AddAttempt(s, [no |-> Tried(s) - 1, key |-> cur[s],
                           outcome |-> Outcome(verdict[s])])
    /\ Goto(s, CASE verdict[s] \in KeyFailures -> "pick"
                 [] verdict[s] = "answered"    -> "used"
                 [] OTHER                      -> "finish")
    /\ UnchangedBut_pc
    /\ UNCHANGED <<keys, mu>>

AttemptRetriesNetwork(s) ==
    /\ pc[s] = "attempt"
    /\ IF gone[s]
       THEN UNCHANGED telemetryVars
       ELSE AddAttempt(s, [no |-> Tried(s), key |-> cur[s],
                           outcome |-> Outcome(verdict[s])])
    /\ Goto(s, CASE verdict[s] \in KeyFailures \cup {"network"} -> "pick"
                 [] verdict[s] = "answered"                   -> "used"
                 [] OTHER                                     -> "finish")
    /\ UnchangedBut_pc
    /\ UNCHANGED <<keys, mu>>

Attempt(s) ==
    /\ pc[s] = "attempt"
    /\ IF gone[s]
       THEN UNCHANGED telemetryVars
       ELSE AddAttempt(s, [no |-> Tried(s), key |-> cur[s],
                           outcome |-> Outcome(verdict[s])])
    /\ Goto(s, CASE verdict[s] \in KeyFailures -> "pick"
                 [] verdict[s] = "answered"    -> "used"
                 [] OTHER                      -> "finish")
    /\ UnchangedBut_pc
    /\ UNCHANGED <<keys, mu>>

\* The handler closes its row, answers what it has not streamed and returns.
Finish(s) ==
    /\ pc[s] = "finish"
    /\ IF gone[s]
       THEN UNCHANGED telemetryVars
       ELSE FinishRequest(s, IF Outcome(verdict[s]) = "success"
                             THEN "success" ELSE "error",
                          cur[s], Tried(s))
    /\ Return(s)
    /\ UNCHANGED <<keys, mu>>

-----------------------------------------------------------------------------
(* A handler: its own steps, those that wait for Service.mu, and the answers *)
(* it waits for.                                                             *)

Locking(s) == Lock(s) \/ Promote(s)

Working(s) ==
    \/ Begin(s) \/ Select(s) \/ Pick(s) \/ Exhaust(s)
    \/ \E reset \in Deadlines : RecordKeyFailure(s, reset)
    \/ Use(s) \/ Attempt(s) \/ Finish(s)

Upstream(s) ==
    \/ \E v \in UpstreamSays : Answer(s, v) \/ StreamEnds(s, v)
    \/ "unreadable" \in UpstreamSays /\ Unreadable(s)
    \/ "unread" \in UpstreamSays /\ FirstReadFails(s)
    \/ StreamStarts(s)

Handler(s) == Locking(s) \/ Working(s) \/ Upstream(s)

\* The process dies: its handlers and its mutex are gone, the file is not.
Crash ==
    /\ mu' = NoSlot
    /\ pc'      = [s \in Slots |-> "idle"]
    /\ pool'    = [s \in Slots |-> NoSnapshot]
    /\ todo'    = [s \in Slots |-> {}]
    /\ cur'     = [s \in Slots |-> NoKey]
    /\ verdict' = [s \in Slots |-> "none"]
    /\ sent'    = [s \in Slots |-> FALSE]
    /\ gone'    = [s \in Slots |-> FALSE]
    /\ UNCHANGED <<keys, telemetryVars>>

InferenceStep == \E s \in Slots : Arrive(s) \/ Disconnect(s) \/ Handler(s)

Clock(k) == CoolingElapses(k) /\ UNCHANGED <<telemetryVars, inferenceVars>>

Next == InferenceStep \/ Crash \/ \E k \in KeyIds : Clock(k)

Spec == Init /\ [][Next]_vars

-----------------------------------------------------------------------------
(* Properties *)

\* README.md:3 and 118: the proxy moves on to another key only when the one it called is
\* exhausted or its credential is invalid, and never once a part of an answer
\* went to the client (no replay after the first event of a stream).
SwitchOnlyOnKeyFailure ==
    [][\A s \in Slots :
         cur[s] # NoKey /\ cur'[s] \notin {cur[s], NoKey}
            => verdict[s] \in KeyFailures /\ ~sent[s]]_vars

\* A handler gives up on a key failure only after every key it selected has
\* failed: each one it could decrypt has a failover on record, unless it was
\* deleted meanwhile or the client is gone.
GivesUpOnlyWhenAllFailed ==
    \A s \in Slots :
        pc[s] = "finish" /\ verdict[s] \in KeyFailures \cup {"none"} /\ ~gone[s]
            => \A k \in DOMAIN pool[s] \ Undecryptable :
                 \/ k \notin DOMAIN keys
                 \/ \E a \in attempts[s] : a.key = k /\ a.outcome = "failover"

\* A closed row agrees with the attempts of its request: a success is the
\* last attempt and on the final key, a failure has no success among its
\* attempts, and every attempt before the last was a failover.
RowsTellTheAttempts ==
    \A s \in Slots :
        LET row == requests[s]
        IN  /\ row.state = "success" /\ row.final # NoKey =>
                  [no |-> row.count, key |-> row.final, outcome |-> "success"]
                      \in attempts[s]
            /\ row.state = "error" =>
                  \A a \in attempts[s] : a.outcome # "success"
            /\ row.state # "open" =>
                  \A a \in attempts[s] :
                     a.no <= row.count /\ (a.no < row.count => a.outcome = "failover")

\* Why SwitchOnlyOnKeyFailure holds: what the pc of a handler says of its last
\* call, of its output and of the mutex.
HandlerInv ==
    \A s \in Slots :
        /\ pc[s] \in {"idle", "begin", "lock", "select"} => cur[s] = NoKey /\ ~sent[s]
        /\ pc[s] = "pick" => cur[s] = NoKey \/ verdict[s] \in KeyFailures
        /\ sent[s] => \/ pc[s] = "stream"
                      \/ /\ pc[s] \in {"record", "used", "promote", "attempt", "finish"}
                         /\ verdict[s] \in EndOfStream
        /\ pc[s] = "select" <=> mu = s

\* The inductive invariant of the handlers.
InferenceInv == /\ TableInv(keys)
                /\ TelemetryTypeOK
                /\ InferenceTypeOK
                /\ HandlerInv

-----------------------------------------------------------------------------
(* What the repository says of the handler and the code does not keep to. *)

\* README: the proxy stays with its active key and leaves it only when that
\* key is exhausted or invalid.  Such a key has left the slot already when its
\* failure was recorded, so a promotion should never find another key there.
PromotionFillsVacancy ==
    [][\A s \in Slots :
         pc[s] = "promote" /\ pc'[s] # "promote"
            => \A k \in DOMAIN keys : keys[k].role = "active" /\ k # cur[s]
                                        => keys'[k].role = "active"]_vars

\* README: once it has cooled, a key is available again only after a minimal
\* inference or a real request succeeded.  A handler may therefore make a key
\* available only on an answer, whole or in part.
RecoversOnlyOnSuccess ==
    [][\A k \in DOMAIN keys \cap DOMAIN keys' :
         keys[k].quota = "half_open" /\ keys'[k].quota = "available"
            => \E s \in Slots : /\ pc[s] = "used"
                                /\ cur[s] = k
                                /\ verdict[s] \in {"answered", "streamed", "cut"}]_vars

\* service.go, forwardStream: after a quota error in the middle of a stream
\* subsequent requests must not select the key.  When the handler that saw the
\* error returns, the key is not eligible.
LateFailureExcludesKey ==
    [][\A s \in Slots :
         pc[s] = "finish" /\ pc'[s] = "idle" /\ verdict[s] = "late"
            => cur[s] \notin EligibleKeys(keys')]_vars
=============================================================================
