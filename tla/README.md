# OpencodeProxy in TLA+

OpencodeProxy forwards inference requests to one upstream with one key of a
pool: the *active* key, until its quota is exhausted or its credential refused;
then the next one. This directory models that pool and everything that changes
it, also against a clock; the identity of the instance (master key, access key,
client tokens); and the pure algorithms that classify answers, count tokens and
accept a configuration. It checks the models with TLC and proves their main
properties with TLAPS.

## 1. Inventory

| Component | State | Operations | Hard parts |
|---|---|---|---|
| Key table (`internal/store/sqlite.go`) | `keys` | CreateKey, UpdateKey, DeleteKey, SetActive, Mark*, EligibleKeys | every caller decides on a row it read earlier; SetActive may have to roll back |
| Usage records (same file) | `proxy_requests`, `proxy_attempts`, `quota_events` | BeginRequest, AddAttempt, FinishRequest, PurgeBefore, queries | foreign keys to keys that are deleted meanwhile; cancelled contexts |
| Inference handler (`internal/proxy/service.go`) | `Service.mu`, the handler's locals | HandleInference, forwardStream, recordKeyFailure, promoteIfNeeded | many at once; stale snapshots; streams that fail half-way; clients that leave |
| Key tests (same file) | `Service.probe` | TestKey | waits for a mutex with a key read before; long calls under the mutex |
| Scheduler (`internal/scheduler/scheduler.go`) | the list of its round | run, every 30 s | races with admins and handlers; depends on clocks |
| Key administration (`internal/httpapi/api.go`) | the row a handler holds | create, import, update, delete, activate, test | read-check-write in several statements |
| Model catalog (`service.go`, `sqlite.go`) | `model_cache` | HandleModels | marks keys checked, which delays their tests |
| Classifier (`classifier.go`) | none | Classify, parseReset | patterns that overlap, zero durations, the order of a JSON object's members |
| Usage accumulator (`usage.go`, fed by `service.go`) | token counts of one answer | ObserveJSON, observeUsage, Usage | counts that come in several events, at two places, or not at all; streams that break |
| Configuration and start-up (`internal/config/config.go`, Open of `identity/manager.go`) | none | Load, bootstrap | old and new names of the same credentials |
| Identity (`internal/identity/manager.go`) | master key, tokens, file | Initialize, Rotate, Issue, Rename, Revoke | persistence before or after memory; crash between two steps |
| Sessions, enrollment (`internal/httpapi`) | sessions, tickets | login, rotate, create, consume | check-then-act across stores; expiry |
| Settings, queries, ciphers, console, scripts | rows, files | plain reads and writes | none that lasts over time |

Handlers, tests, scheduler and admins are goroutines that share one SQLite
connection (`SetMaxOpenConns(1)`), so statements and transactions are atomic;
between two of them anything may happen. Only the selection of keys and the
promotion of a key take `Service.mu`, and only tests take `Service.probe`.

What must be right: at most one active key, and an enabled one; a cooling key
always has the deadline that wakes it; the proxy changes keys only for a key
failure and never after output; it gives up only when every key has failed; the
records say what happened; nobody waits for ever, and with a clock: not longer than
a bound, nor is anybody tested too often. What an answer says is judged alike in
whatever order it is read. Of the identity: memory and file
agree about whatever a user was told, through failing writes and restarts.

The hazards, each at its line, are listed in `PROJECT.json`.

## 2. Modules

| Module | Models | Builds on |
|---|---|---|
| `Store` | the table `keys`: each statement is an operator from table to table | |
| `Telemetry` | the rows of a request and of its attempts, with their foreign keys | `Store` |
| `Inference` | HandleInference by several handlers | `Telemetry` |
| `Probe` | TestKey and the scheduler | `Store` |
| `KeyAdmin` | the admin handlers that change keys | `Telemetry`, `Probe` |
| `KeyPool` | all of them over one store, a clock and crashes; fairness | `Inference`, `KeyAdmin` |
| `ActiveSlot` | abstract: the slot of the active key | |
| `Identity` | Manager: its state in memory and in the file; one operator per method | |
| `Access` | the handlers of setup, enrollment, client tokens, access key and encryption; restarts | `Identity` |
| `Schedule` | the scheduler and its tests against a clock, with the model catalog (HandleModels) and the purge | `Probe` |
| `Classifier` | Classify, parseReset, the time a key cools, and what each caller makes of a verdict | |
| `Usage` | the accumulator of token counts, for both protocols | |
| `Stream` | forwardStream event by event | `Classifier`, `Usage` |
| `Config` | Load, and the bootstrap of Open | |
| `Algorithms` | all pure functions over the inputs they may get | `Stream`, `Config` |
| `MCInference`, `MCKeyPool`, `MCAccess`, `MCSchedule`, `MCAlgorithms` | the small instances of the runs | |
| `StoreProofs`, `InferenceProofs`, `KeyPoolProofs`, `RecordProofs`, `SlotProofs`, `ScheduleProofs`, `AlgorithmProofs`, `AccessProofs` | theorems | |

`Access` shares no state with `KeyPool`: the only thing a key's row takes from the
identity is the master key that encrypted it, which is what `sealed` keeps.

**Steps.** One action is one statement of the store, one critical section or one
answer of the upstream. `pc[s]` names the next step of handler `s`; its other
variables are the locals that later steps read: `pool` is the snapshot of
`EligibleKeys` (with the *old* role, which `promoteIfNeeded` uses), `todo` what the
loop has left, `cur` is `record.FinalKeyID`, `verdict` the outcome of the last
call, `sent` whether output reached the client, `gone` whether `r.Context()` is
cancelled. In `Probe`, `target` is the key value that TestKey was called with, read
before it waits for the mutex. In `KeyAdmin`, `form` is the row that updateKey or
activateKey has read and is about to write.

In `Access` each method of Manager is one step, since it holds its lock to the end.
`memory` and `disk` are its state and the file; `Persist` is persistLocked with three
ends: written, not written, or renamed into place with an error after that, upon
which the caller restores its memory and not the file. `hpc[h]` and `hold[h]` are the
next step of a handler and the ticket or secret it carries between two of them.
`told`, `handed`, `asked`, `revoked`, `retired` and `sealed` only record what users
were told, for the properties; `minted` and `origin` make random tokens distinct.

`Schedule` takes the actions of `Probe` as they are and adds to each what it does to
the timestamps. Its unit of time is the ticker's period of 30 seconds; `wait[k]` is
what is left until `cooling_until`, `age[k]` the time since `last_checked_at`,
`fetched` the age of the catalog, `request` the age of a request. Time passes when
nobody has anything left to do but to wait: the code needs no time of its own. `late`,
`untested` and `gap` are watches that the properties read and no step asks for. The
catalog's readers (`rpc`, `todo`) are the goroutines of HandleModels that found the
cache missing or stale.

`Algorithms` starts with one of its three inputs varying: an answer of the upstream,
the events of a stream, or an environment; only the stream takes steps. One event is
read, observed, classified and written per step of `Stream`, which may break at
either end. It is what one `StreamStarts` and one `StreamEnds` of `Inference` stand
for: `first` is the failure that makes `StreamStarts` try the next key with nothing
sent, `late` the one that `StreamEnds` records.

**Abstractions.**

- *Time.* `cooling_until` is NULL, `"future"` or `"due"`; the clock turns the second
  into the third at any moment. A reset that the upstream puts in the past or at
  zero is due at once. `last_checked_at` is left out, but for `Schedule`: the
  scheduler may test any subset of the half-open keys in a round.
- *The clock of `Schedule`.* All its comparisons ask whether something is at least so
  long ago; rounding both sides to whole units keeps the answer. A time beyond the
  largest that is compared stays there. A request is one step, for its races are
  `Inference`'s. Manual tests, edits of keys and restarts are left out: a manual test
  holds `Service.probe`, so each would lengthen the round by its own two calls, and the
  bounds are for the scheduler undisturbed by operators.
- *Texts.* A string of an answer is what the patterns find in it: their words, a
  phrase that announces a reset, the durations after it, and where its sentence ends.
  The order of a JSON object's members is any permutation.
- *Usage objects* have the counts that are added up or compared; reasoning tokens, the
  total that OpenAI names and the raw JSON are copied. An event has two places for one,
  its root and its message, which ObserveJSON visits in this order.
- *Answers.* What `Classify` finds is an input: a plain answer is a key failure
  (`quota`, `auth`), a success, a refusal, a network error or an unreadable body; a
  stream fails at its first event, later, or never. A stream cannot yield `auth`,
  because `Classify` wants status 401 or 403 for that and a stream has 2xx.
- *Contexts.* A client that leaves makes every later statement and call of its
  handler fail. In `Probe` the answer `"nothing"` covers it: no statement takes effect.
- *Ids* are never reused (`AUTOINCREMENT`): `lastId` outlives deletions.
- *A test's* answer and the statement that records it are one step. Nothing but the
  upstream's answer happens between them, and the row is not read again.
- *Left out:* names, ciphertexts, tokens, latencies, `control_state` (orders the
  model catalog only), 413 for an oversized body (it changes nothing), the
  settings row (`AutoProbe` is a constant), the order of keys in a scheduler round.
- *Secrets* stand for their hashes, a client token for its id, and a master key for its
  cipher. Random tokens and tickets never collide; master and access keys may.
- A *rename of the file* survives a crash of the process (a power failure, which
  may undo it since the directory is not synced, is not modelled).
- A *crash* may come at any moment; what was committed stays, the rest is gone.

**Operators under a comment *Mutant*** (most of them named `...Bug`)
are small faults, never used by the models. Each property is known to fail
when one of them stands in for the definition below it; `PROJECT.json` pairs them.

## 3. Runs

| Run | Instance | Question |
|---|---|---|
| `MCHandlers` | 2 handlers (one streams), 2 keys, 5 verdicts | do racing handlers with stale snapshots keep the table well-formed? |
| `MCFailover` | 1 streaming handler, 3 keys (one undecryptable), 2 priorities, all verdicts, a client that may leave | does failover go on for the right reason, as long as it should, and is it recorded? |
| `MCPool` | 1 handler, 2 admins with 2 requests in all, 1 key and the id of a second | is the active key one slot under promotions, activations, updates and deletions that overlap? |
| `MCProbe` | 1 handler, 1 admin request, automatic tests, 1 key and the id of a second | do tests exclude each other, and do their late results keep deadlines right? |
| `MCLiveness` | 2 handlers, 1 key, automatic tests | does everything that starts come to an end? |
| `MCAccess` | 2 handlers, 2 master keys, 2 access keys, 3 tokens with a limit of 2, 1 ticket | do racing setups, failing writes and restarts leave what users were told true; does a ticket give one token, and does a token work until it is revoked? |
| `MCSchedule` | 2 keys, 1 reader of the catalog, calls of 1 unit, probe interval 2, cache 4 | how long does a key wait to be woken and to be tested, and how often is it tested? |
| `MCAlgorithms` | streams of 4 events of 10 kinds; some 30,000 answers of up to 3 strings, in every order; 324 environments | are tokens counted and failures judged right, and does an accepted configuration start? |

The violation runs each find a behaviour in which the code departs from what the
repository says of it:

| Run | Statement | What the code does |
|---|---|---|
| `VPromotion` | README.md:3, the active key is left only when exhausted or invalid | two handlers select with the slot empty; the first to succeed promotes its key, and a later success on another key takes the slot from it, because `promoteIfNeeded` looks at the old role |
| `VRecovery` | README.md:116, a cooled key recovers only by a success | a stream that breaks before its first event runs into `MarkUsed` |
| `VLateFailure` | service.go:272, later requests must not select the key | the client leaves before `recordKeyFailure`, whose context is then cancelled |
| `VActivation` | api.go:430, an ineligible key is not activated | the key fails between the check and `SetActive`, which asks only for `admin_enabled` |

**Bounds.** Two handlers are enough for every race of a stale snapshot with a newer
decision, since a step acts on one key and reads the snapshot of one handler;
three keys make a failover after a failover and a skipped key; two admin requests
give one that overlaps another (an activation and the update or deletion of its
key). `MaxCalls` counts admin requests and `KeyIds` bounds the ids that
`AUTOINCREMENT` may hand out; nothing else is cut off. Retries of the clock and of
requests are unbounded. In `Access` two handlers make every race of a check with an
act, and one token more than the limit reaches it; tokens and tickets run out
(`TokenIds`, `Tickets`), failing writes and restarts never do. Its run takes handlers
and secrets of a kind as symmetric, which is sound since the model only compares them
and the properties are invariants. In `Schedule` a round over two keys can last four
units (`2 * LongestCall` per key), twice the probe interval: a round is missed, ticks
are dropped, and a key becomes due after the round has passed it over. `TestedInTime`
says nothing unless the catalog is kept longer than it takes to list a key
(`ListBound`, here 3), hence 4. `MaxEvents` bounds a stream; four events give a count, a later one
that replaces it in part, a failure between them and a break. Deadlock is checked in
every run but `MCAlgorithms`, where a stream ends and an answer takes no step.

**What the runs show beside the properties.** Between two tests of
a half-open key it may be marked as checked, and its turn put off by up to `ListBound`
(the probe interval and a round that has just passed it over), by a refused request, and
for each request for the catalog under way by its answer and by one more refusal; in the
round that lists it the other keys may come first. That is `TestBound`, which
`TestsComeInTime` proves; on the small instance a test waits 12 of its 14 units. With the defaults the premise of `TestedInTime` is false (the catalog is kept
600 seconds, the interval is 900): a key that answers for the catalog every ten
minutes is never due for a test. In `Classifier`, the words of a quota count at every
status, so a successful answer that quotes them cools its key. In `Stream`, a complete
usage turns partial again when a later event counts the output alone, and its counts
are right all the same.

**Fairness** (`FairPoolSpec`). A goroutine that can run does (weak fairness of a
handler's steps and of the scheduler's). The upstream answers or the HTTP client's
timeout, which covers the body too, ends the call (weak fairness of `Upstream` and
`Testing`). Go hands a mutex over to a waiter that has starved for a millisecond, so
waiting for `Service.mu` and `Service.probe` is strongly fair. Time passes (weak
fairness of `Clock`) and the ticker fires. A client reads what it is sent or goes away:
the server has no write timeout (main.go:41), so one that does neither would hold its
handler for ever. Arrivals, departures, admins and crashes
are not fair: they need not happen. `CoolingEnds` has to survive crashes and
handlers that push a deadline back; `RequestsTerminate` and `TestsTerminate` count a
crash as an end, for it ends the goroutine.

## 4. Proofs

TLAPS proves the following for any number of handlers, admins, keys and priorities;
the assumptions are those named in the modules (`StoreAssumption`: ids are positive;
`InferenceAssumption`: finitely many ids, the free mutex is no handler;
`ProbeAssumption`, `AdminAssumption`: the like for tests and admins).

- `StoreProofs`: every statement keeps `TableInv`, the conjunction of the row types,
  `AtMostOneActiveIn`, `ActiveIsEnabledIn` and `DeadlineMatchesQuotaIn`. None of these
  needs the callers to behave: whatever stale decision calls the statement, the
  table stays well-formed. The second conjunct needs SetActive to demote first; the
  third needs it to test `admin_enabled` in the same transaction and UpdateKey to
  demote with the flag; the fourth needs MarkUsed to wipe the deadline and
  recordKeyFailure to supply one.
- `InferenceProofs`: `InferenceInv` is inductive. To `TableInv` and the types it adds
  `HandlerInv`, which says what the step of a handler implies for its last verdict,
  its output and the mutex. `SwitchOnlyOnKeyFailure` is not inductive without it:
  that a handler that picks another key has seen a key failure is known from the
  branch it came by, and that nothing was sent because every step after a stream
  leads to the end. From it: `InferenceTypeCorrect`, `OneActiveKey`,
  `CoolingHasItsDeadline`, `FailoverIsJustified`.
- `KeyPoolProofs`: `PoolInv` is inductive for the whole pool. It adds the mutex of the
  tests, the row an update holds and that no id exceeds the last one handed out
  (without which creating a key could overwrite one). From it: `PoolTypeCorrect`,
  `PoolOneActiveKey`, `PoolActiveIsEnabled`, `PoolDeadlines`, `PoolOneTest`.
- `SlotProofs`: `PoolSpec` implements `ActiveSlot` with the slot mapped to the active
  key and `enabled` to the enabled keys (`PoolImplementsSlot`). Statements that neither
  enable nor activate a key leave the slot alone or vacate it (`QuietStep`), UpdateKey
  and DeleteKey withdraw or enable a key, CreateKey enables one whose id is new (this
  is where `PoolInv` is needed), SetActive takes over or does nothing.
  `LatePromotionIsHarmless` is the action property `PromotionKeepsSlotFilled`.

- `ScheduleProofs`: `TimingInv` is inductive for any intervals, bounds, readers and
  finitely many keys (`ScheduleAssumption`). `ScheduleInv` has the types, with
  `TableInv`; that a call in flight has time left (`spent`) needs `Round`, which says
  that the scheduler is in a round while it tests. `Spaced` is what makes
  `ProbesAreSpaced` hold although the decision is old when the test is sent: a key in
  the batch has not been tested lately, and a key leaves the batch when its test
  begins, so that no round tests it twice (`Round`). From it: `ScheduleTypeCorrect`,
  `TestsKeepTheInterval`, `PurgeSparesOpenRequests`.

  The two bounds on waiting are safety properties of a clock, and need a measure. `Left`
  is the time that the calls a round still has to make can take, two per key in the
  batch; no step but the start of a round adds to it, and a unit of time takes one away.
  `WakeInv`: a due key has waited no longer than what the round has used up, for a tick
  without a round wakes it (`KeysWakeInTime`). `TestInv` does the same for a half-open
  key that is not in the batch, with a budget (`Budget`): the time until it is listed
  (`ToList`) and, for each event that may still put that off (`Events`), one `ListBound`.
  An event that happens is one less to come. That there are not infinitely many is
  `Closed`: once the catalog has been filled, or the key refused, no new reader asks it
  before the key is listed, since the catalog outlives that (the premise of
  `TestedInTime`). From it: `TestsComeInTime`. Both hold for any number of keys and
  readers. `ScheduleAssumption` has it that a call takes at least one unit when rounded
  up, that the readers are finitely many and that the scheduler is none of them.
- `RecordProofs`: `RecordInv` is inductive, over the handlers alone and over the whole
  pool. Neither property is inductive by itself: that a closed row agrees with its
  attempts depends on what each step between the last call and FinishRequest has recorded
  (`AttemptsInOrder`: attempts are numbered by the keys tried, all before the last are
  failovers), on the row staying open in between (`RowIsOpen`), and on the deletion of a
  key taking it out of the row and of the attempts at once, for good. That a handler which gives up has a failover
  for every key follows from the keys it has still to try and those it has tried making
  up its snapshot. From it: `RowsAgree`, `GivingUpIsJustified` and, with admins that
  delete keys, tests and crashes, `PoolRowsAgree`, `PoolGivingUpIsJustified`.
- `AlgorithmProofs`: for any set of answers and of events, of any length.
  `CoolingTakesTime` and `RefusalsInvalidate` follow from the definitions;
  `OrderDoesNotMatter` shows that each pattern is found in every permutation of the
  strings or in none, but for the one that spans strings; `QuotaIsNoticed` needs
  `StreamInv`, which carries the failures noticed so far from event to event.
  `CountsAreTheLast` needs `CountInv`: the stored row follows from the record of the
  counts given so far (`Follows`), whatever one more object holds (`ObjectFollows`), and
  that record is extended by each event (`LastGivenNext`, which also carries along that
  there is a last event with a count). `StreamsAreTyped` says with it that no count
  becomes negative. `AcceptedConfigBoots` rests on the counting of the credentials: none
  or three out of three is none or all of them.
- `AccessProofs`: `AccessInv` is inductive for any number of handlers, secrets, tokens
  and tickets (`IdentityAssumption`: finitely many tokens, the limit is a number, `None`
  is no secret and no state; `AccessAssumption`: nor a ticket). The five properties
  are not inductive alone. `OneMaster` ties cipher, memory and file to one master key
  from the first setup on and says that nothing was done before it; `HoldInv` and
  `HandWorks` say that what a handler is about to answer is already true;
  `TokensMinted` makes a fresh token different from every revoked one, and
  `TicketInv` keeps a held ticket out of the map and out of other hands.

Only model-checked: the liveness properties (`RequestsTerminate`, `CoolingEnds`,
`TestsTerminate`), since fairness is beyond the prover. The statements of the
violation runs are false of the code, so there is nothing to prove.

## 5. Not modelled

- *Sessions and authentication.* A session is a row looked up by a hash. Its one hard
  case is a login that races a rotation of the access key, and no document or test says
  which of them should win. The rotation itself is in `Access`.
- *Settings.* One row, read and written whole; its values are the constants `AutoProbe`,
  `ProbeInterval` and `CacheTime`, which do not change during a behaviour.
- *Ciphers.* Library calls without state; `Undecryptable` is their error.
- *Dashboard queries and events, web console, deployment scripts.* They report or run
  once, and change nothing that is modelled.
- *Of the usage records:* RenameRequestClient, which rewrites names after the client's
  own rename. *Of the enrollment:* the install scripts and the client's file on disk.
- *Of start-up:* paths, addresses, durations and limits, which have defaults.
- *The format of timestamps.* Times are stored as RFC 3339 texts whose fraction has no
  trailing zeros and compared as texts, so that two moments within one second may
  compare the wrong way; all models take them as numbers. What depends on it is less
  than a second.
- *Statements inside a transaction.* SetActive and MarkQuota are one step each, with
  their rollback: the pool has one connection.
