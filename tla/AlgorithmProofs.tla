-------------------------- MODULE AlgorithmProofs --------------------------
(***************************************************************************)
(* The verdict on any answer with any number of strings, and any stream:   *)
(* what TLC checks of Algorithms for a few of them.                        *)
(***************************************************************************)
EXTENDS Algorithms, FiniteSetTheorems, TLAPS

InputsOK == reply \in Reply /\ env \in Environment

\* Which inputs vary, and that nothing else moves them: every reply and every
\* environment is one the assumptions speak of.
THEOREM InputsTyped == AlgorithmsSpec => []InputsOK
<1>1. AlgorithmsInit => InputsOK
  <2>1. NoReply \in Reply
    <3>1. <<>> \in Seq(Text) /\ NoReset \in Int \cup {NoReset} /\ 0 \in Nat
      OBVIOUS
    <3> QED
      BY <3>1 DEF NoReply, Reply
  <2>2. Bare \in Environment
    BY DEF Bare, Environment, MasterKeys
  <2> QED
    BY <2>1, <2>2, AlgorithmsAssumption DEF AlgorithmsInit, InputsOK
<1>2. InputsOK /\ [AlgorithmsNext]_algorithmVars => InputsOK'
  BY DEF InputsOK, AlgorithmsNext, algorithmVars
<1> QED
  BY <1>1, <1>2, PTL DEF AlgorithmsSpec

-----------------------------------------------------------------------------
\* Whatever the strings of an answer are, one that speaks of a quota and comes
\* without Retry-After cools its key for some time.
THEOREM CoolingTakesTime == AlgorithmsSpec => []NeverCoolsForNothing
<1>1. ASSUME NEW r, r.retry = NoReset
      PROVE  CoolingTime(r, Interval) > 0
  <2>1. CASE ParseReset(r) = NoReset
    BY <2>1, AlgorithmsAssumption DEF CoolingTime
  <2>2. CASE ParseReset(r) # NoReset
    BY <1>1, <2>2 DEF CoolingTime, ParseReset
  <2> QED
    BY <2>1, <2>2
<1>2. InputsOK => NeverCoolsForNothing
  <2> SUFFICES ASSUME InputsOK, reply.retry = NoReset, NEW p \in Orders(reply)
               PROVE  CoolingTime(Reordered(reply, p), Interval) > 0
    BY DEF NeverCoolsForNothing
  <2>1. Reordered(reply, p).retry = NoReset
    BY DEF Reordered, InputsOK, Reply
  <2> QED
    BY <1>1, <2>1
<1> QED
  BY <1>2, InputsTyped, PTL

\* No success and no answer that speaks of a quota costs a key its validity.
THEOREM RefusalsInvalidate == AlgorithmsSpec => []OnlyRefusalsInvalidate
<1>1. Kind(reply) = "auth" => Refused(reply) /\ ~OutOfQuota(reply.texts)
  BY DEF Kind
<1>2. Refused(reply) => ~Success(reply)
  <2>1. 401 \notin 200..299 /\ 403 \notin 200..299
    OBVIOUS
  <2> QED
    BY <2>1 DEF Refused, Success
<1>3. "auth" \in {ModelsVerdict(reply), InferenceVerdict(reply), RequestVerdict(reply)}
        => Kind(reply) = "auth"
  BY DEF ModelsVerdict, InferenceVerdict, RequestVerdict
<1>4. OnlyRefusalsInvalidate
  BY <1>1, <1>2, <1>3 DEF OnlyRefusalsInvalidate
<1> QED
  BY <1>4, PTL

-----------------------------------------------------------------------------
\* A word is in the strings of an answer in every order or in none.
LEMMA SaysInAnyOrder ==
    ASSUME NEW r \in Reply, NEW p \in Orders(r), NEW word
    PROVE  Says(Reordered(r, p).texts, word) <=> Says(r.texts, word)
<1> DEFINE new == [i \in DOMAIN r.texts |-> r.texts[p[i]]]
<1>1. Reordered(r, p).texts = new
  BY DEF Reordered, Reply
<1>2. /\ p \in [DOMAIN r.texts -> DOMAIN r.texts]
      /\ \A j \in DOMAIN r.texts : \E i \in DOMAIN r.texts : p[i] = j
  BY DEF Orders
<1>3. /\ DOMAIN new = DOMAIN r.texts
      /\ \A i \in DOMAIN r.texts : new[i] = r.texts[p[i]]
  OBVIOUS
<1> HIDE DEF new
<1>4. ASSUME Says(r.texts, word) PROVE Says(new, word)
  <2>1. PICK j \in DOMAIN r.texts : word \in r.texts[j].words
    BY <1>4 DEF Says
  <2>2. PICK i \in DOMAIN r.texts : p[i] = j
    BY <1>2
  <2> QED
    BY <1>3, <2>1, <2>2 DEF Says
<1>5. ASSUME Says(new, word) PROVE Says(r.texts, word)
  <2>1. PICK i \in DOMAIN r.texts : word \in r.texts[p[i]].words
    BY <1>3, <1>5 DEF Says
  <2>2. p[i] \in DOMAIN r.texts
    BY <1>2
  <2> QED
    BY <2>1, <2>2 DEF Says
<1> QED
  BY <1>1, <1>4, <1>5

\* Unless its two ends are split, the spanning pattern is found in every order too.
LEMMA BalanceInAnyOrder ==
    ASSUME NEW r \in Reply, NEW p \in Orders(r), ~BillingIsSplit(r)
    PROVE  Balance(Reordered(r, p).texts) <=> Balance(r.texts)
<1> DEFINE new == [i \in DOMAIN r.texts |-> r.texts[p[i]]]
           both(texts) == \E i \in DOMAIN texts :
                             {"creditserror", "billing"} \subseteq texts[i].words
<1>1. Reordered(r, p).texts = new
  BY DEF Reordered, Reply
<1>2. /\ p \in [DOMAIN r.texts -> DOMAIN r.texts]
      /\ \A j \in DOMAIN r.texts : \E i \in DOMAIN r.texts : p[i] = j
  BY DEF Orders
<1>3. /\ DOMAIN new = DOMAIN r.texts
      /\ \A i \in DOMAIN r.texts : new[i] = r.texts[p[i]]
  OBVIOUS
<1>4. /\ Says(new, "balance") <=> Says(r.texts, "balance")
      /\ Says(new, "creditserror") <=> Says(r.texts, "creditserror")
      /\ Says(new, "billing") <=> Says(r.texts, "billing")
  BY <1>1, SaysInAnyOrder
<1>5. DOMAIN r.texts \subseteq Int
  BY DEF Reply
<1> HIDE DEF new
<1>6. CASE Says(r.texts, "balance")
  BY <1>1, <1>4, <1>6 DEF Balance
<1>7. CASE \E i \in DOMAIN r.texts : {"creditserror", "billing"} \subseteq r.texts[i].words
  <2>1. PICK j \in DOMAIN r.texts : {"creditserror", "billing"} \subseteq r.texts[j].words
    BY <1>7
  <2>2. PICK i \in DOMAIN r.texts : p[i] = j
    BY <1>2
  <2>3. Balance(r.texts)
    BY <1>5, <2>1 DEF Balance
  <2>4. Balance(new)
    BY <1>3, <1>5, <2>1, <2>2 DEF Balance
  <2> QED
    BY <1>1, <2>3, <2>4
<1>8. CASE ~Says(r.texts, "creditserror") \/ ~Says(r.texts, "billing")
  <2>1. ASSUME NEW texts, ~Says(texts, "creditserror") \/ ~Says(texts, "billing")
        PROVE  Balance(texts) <=> Says(texts, "balance")
    BY <2>1 DEF Balance, Says
  <2> QED
    BY <1>1, <1>4, <1>8, <2>1
<1> QED
  BY <1>6, <1>7, <1>8 DEF BillingIsSplit

\* What an answer says of its key does not depend on the order of its strings.
THEOREM OrderDoesNotMatter == AlgorithmsSpec => []KindIgnoresOrder
<1>1. InputsOK => KindIgnoresOrder
  <2> SUFFICES ASSUME reply \in Reply, ~BillingIsSplit(reply), NEW p \in Orders(reply)
               PROVE  /\ Kind(Reordered(reply, p)) = Kind(reply)
                      /\ Window(Reordered(reply, p).texts) = Window(reply.texts)
    BY DEF KindIgnoresOrder, InputsOK
  <2> DEFINE new == Reordered(reply, p)
  <2>1. \A word : Says(new.texts, word) <=> Says(reply.texts, word)
    BY SaysInAnyOrder
  <2>2. Balance(new.texts) <=> Balance(reply.texts)
    BY BalanceInAnyOrder
  <2>3. new.status = reply.status
    BY DEF Reordered, Reply
  <2> HIDE DEF new
  <2>4. Kind(new) = Kind(reply)
    <3>1. OutOfQuota(new.texts) <=> OutOfQuota(reply.texts)
      BY <2>1, <2>2 DEF OutOfQuota
    <3>2. Refused(new) <=> Refused(reply)
      BY <2>1, <2>3 DEF Refused
    <3>3. Says(new.texts, "rate") <=> Says(reply.texts, "rate")
      BY <2>1
    <3> QED
      BY <2>3, <3>1, <3>2, <3>3 DEF Kind
  <2>5. Window(new.texts) = Window(reply.texts)
    BY <2>1, <2>2 DEF Window
  <2> QED
    BY <2>4, <2>5 DEF new
<1> QED
  BY <1>1, InputsTyped, PTL

-----------------------------------------------------------------------------
\* What the stage of a stream says of the rest: nothing has happened before the
\* first event, and a stream that goes on has had one that did not fail.
StreamShape ==
    /\ received \in Seq(Events)
    /\ stage = "first" => /\ received = <<>> /\ written = 0 /\ usage = NoUsage
                          /\ first = "none" /\ late = "none"
    /\ stage = "open" => first = "none" /\ Len(received) \in Nat \ {0}

\* Which events have been noticed as failures, for any three values.
Noticed(events, f, l) ==
    \A i \in 1..Len(events) : Failure(events[i]) # "none" => IF i = 1 THEN f # "none" ELSE l # "none"

ReplayIsSafe == first # "none" => written = 0 /\ usage = NoUsage /\ late = "none"

StreamInv == StreamShape /\ ReplayIsSafe /\ Noticed(received, first, late)

\* What Append and a sequence of one element are.
LEMMA SequenceFacts ==
    ASSUME NEW S, NEW seq \in Seq(S), NEW e \in S
    PROVE  /\ <<e>> \in Seq(S) /\ Len(<<e>>) = 1 /\ <<e>>[1] = e
           /\ Append(seq, e) \in Seq(S)
           /\ Len(seq) \in Nat
           /\ Len(Append(seq, e)) = Len(seq) + 1
           /\ \A i \in 1..Len(seq) : Append(seq, e)[i] = seq[i]
           /\ Append(seq, e)[Len(seq) + 1] = e
OBVIOUS

\* The first event is noticed if its failure is kept.
LEMMA NoticedFirst ==
    ASSUME NEW e \in Events, NEW f, NEW l, Failure(e) # "none" => f # "none"
    PROVE  Noticed(<<e>>, f, l)
<1>1. <<e>>[1] = e /\ \A i \in 1..Len(<<e>>) : i = 1
  OBVIOUS
<1> QED
  BY <1>1, Zenon DEF Noticed

\* A later event is noticed if its failure is kept and no other is forgotten.
LEMMA NoticedNext ==
    ASSUME NEW seq \in Seq(Events), NEW e \in Events, NEW f, NEW l, NEW m,
           Len(seq) # 0, Noticed(seq, f, l), Failure(e) # "none" => m # "none", l # "none" => m # "none"
    PROVE  Noticed(Append(seq, e), f, m)
<1>1. /\ Len(seq) \in Nat /\ Len(Append(seq, e)) = Len(seq) + 1
      /\ \A i \in 1..Len(seq) : Append(seq, e)[i] = seq[i]
      /\ Append(seq, e)[Len(seq) + 1] = e
  OBVIOUS
<1> DEFINE n == Len(seq)
           new == Append(seq, e)
<1> HIDE DEF n, new
<1> SUFFICES ASSUME NEW i \in 1..(n + 1), Failure(new[i]) # "none"
             PROVE  IF i = 1 THEN f # "none" ELSE m # "none"
  BY <1>1, Zenon DEF Noticed, n, new
<1>a. n \in Nat /\ n # 0 /\ new[n + 1] = e /\ \A j \in 1..n : new[j] = seq[j]
  BY <1>1, Zenon DEF n, new
<1>b. \A j \in 1..n : Failure(seq[j]) # "none" => IF j = 1 THEN f # "none" ELSE l # "none"
  BY Zenon DEF Noticed, n
<1>2. CASE i = n + 1
  BY <1>a, <1>2
<1>3. CASE i # n + 1
  <2>1. i \in 1..n
    BY <1>a, <1>3
  <2> QED
    BY <1>a, <1>b, <2>1
<1> QED
  BY <1>2, <1>3

\* The inductive invariant of a stream.
LEMMA StreamInvInductive == StreamInv /\ [StreamNext]_streamVars => StreamInv'
<1> SUFFICES ASSUME StreamInv, [StreamNext]_streamVars
             PROVE  StreamInv'
  OBVIOUS
<1>0. received \in Seq(Events)
  BY DEF StreamInv, StreamShape
<1>1. ASSUME received' = received, first' = first, late' = late
      PROVE  Noticed(received, first, late)'
  <2>1. Noticed(received, first, late)
    BY DEF StreamInv
  <2> QED
    BY <1>1, <2>1
<1>2. CASE FirstReadBreaks
  BY <1>1, <1>2 DEF FirstReadBreaks, StreamInv, StreamShape, ReplayIsSafe
<1>3. ASSUME NEW ok \in BOOLEAN, ReadEnds(ok)
      PROVE  StreamInv'
  BY <1>1, <1>3 DEF ReadEnds, StreamInv, StreamShape, ReplayIsSafe
<1>4. ASSUME NEW ok \in BOOLEAN, NEW e \in Events, FirstEvent(e, ok)
      PROVE  StreamInv'
  <2>1. /\ stage = "first" /\ written = 0 /\ usage = NoUsage /\ first = "none" /\ late = "none"
        /\ received' = <<e>> /\ late' = late
    BY <1>4 DEF FirstEvent, StreamInv, StreamShape
  <2>2. received' \in Seq(Events) /\ Len(received') = 1
    BY <1>0, <2>1, SequenceFacts
  <2>3. first' = Failure(e)
    BY <1>4, <2>1 DEF FirstEvent
  <2>4. Noticed(received', first', late')
    BY <2>1, <2>3, NoticedFirst
  <2>5. CASE Failure(e) # "none"
    <3>1. stage' = "ended" /\ written' = 0 /\ usage' = NoUsage /\ late' = "none"
      BY <1>4, <2>1, <2>5 DEF FirstEvent
    <3> QED
      BY <2>2, <2>4, <3>1 DEF StreamInv, StreamShape, ReplayIsSafe
  <2>6. CASE Failure(e) = "none"
    <3>1. first' = "none" /\ stage' \in {"open", "ended"}
      BY <1>4, <2>3, <2>6 DEF FirstEvent, Write
    <3> QED
      BY <2>2, <2>4, <3>1 DEF StreamInv, StreamShape, ReplayIsSafe
  <2> QED
    BY <2>5, <2>6
<1>5. ASSUME NEW ok \in BOOLEAN, NEW e \in Events, NextEvent(e, ok)
      PROVE  StreamInv'
  <2>1. /\ stage = "open" /\ first = "none" /\ Len(received) \in Nat \ {0}
        /\ received' = Append(received, e) /\ first' = first
        /\ late' = IF Failure(e) # "none" THEN Failure(e) ELSE late
        /\ stage' \in {"open", "ended"}
    BY <1>5 DEF NextEvent, Write, StreamInv, StreamShape
  <2>2. received' \in Seq(Events) /\ Len(received') \in Nat \ {0}
    <3>1. Append(received, e) \in Seq(Events) /\ Len(Append(received, e)) = Len(received) + 1
      BY <1>0
    <3>2. Len(received) + 1 \in Nat \ {0}
      BY <2>1
    <3> QED
      BY <2>1, <3>1, <3>2, Zenon
  <2>3. Noticed(received', first', late')
    <3>1. Noticed(received, first, late)
      BY DEF StreamInv
    <3>2. (Failure(e) # "none" => late' # "none") /\ (late # "none" => late' # "none")
      BY <2>1
    <3>3. Noticed(Append(received, e), first, late')
      BY <1>0, <2>1, <3>1, <3>2, NoticedNext
    <3> QED
      BY <2>1, <3>3
  <2>4. ReplayIsSafe'
    BY <2>1 DEF ReplayIsSafe
  <2>5. StreamShape'
    BY <2>1, <2>2, Zenon DEF StreamShape
  <2> QED
    BY <2>3, <2>4, <2>5 DEF StreamInv
<1>6. CASE UNCHANGED streamVars
  BY <1>1, <1>6 DEF streamVars, StreamInv, StreamShape, ReplayIsSafe
<1> QED
  BY <1>2, <1>3, <1>4, <1>5, <1>6 DEF StreamNext

\* A key failure in a stream of any length is noticed whatever else the stream holds
\* and wherever it breaks; in the first event before the client has seen anything.
THEOREM QuotaIsNoticed == AlgorithmsSpec => []QuotaIsNeverMissed
<1>1. AlgorithmsInit => StreamInv
  <2> SUFFICES ASSUME StreamInit PROVE StreamInv
    BY DEF AlgorithmsInit
  <2>1. <<>> \in Seq(Events) /\ \A i \in 1..Len(<<>>) : FALSE
    OBVIOUS
  <2>2. Noticed(<<>>, first, late)
    BY <2>1, Zenon DEF Noticed
  <2> QED
    BY <2>1, <2>2 DEF StreamInit, StreamInv, StreamShape, ReplayIsSafe
<1>2. [AlgorithmsNext]_algorithmVars => [StreamNext]_streamVars
  BY DEF AlgorithmsNext, algorithmVars
<1>3. StreamInv => QuotaIsNeverMissed
  BY DEF StreamInv, ReplayIsSafe, Noticed, QuotaIsNeverMissed
<1> QED
  BY <1>1, <1>2, <1>3, StreamInvInductive, PTL DEF AlgorithmsSpec

-----------------------------------------------------------------------------
\* An event of an answer with status 200 never accuses its key of being invalid.
LEMMA FailureIsQuota ==
    ASSUME NEW e \in Events
    PROVE  Failure(e) \in {"none", "quota"}
<1> DEFINE r == [status |-> 200, retry |-> NoReset, texts |-> e.texts]
<1>1. ~Refused(r)
  BY DEF Refused
<1>2. Kind(r) # "auth"
  BY <1>1 DEF Kind
<1> QED
  BY <1>2 DEF Failure

\* What ObserveJSON does with one of the two places of an event.
Seen(p, u, o) == IF o = Absent THEN u ELSE Observe(p, u, o)

SeenInEvent(p, u, e) == Seen(p, Seen(p, u, e.root), e.message)

\* A row stays a row: no count falls below zero.
LEMMA SeenTyped ==
    ASSUME NEW p, NEW u \in UsageRow, NEW o \in UsageObject \cup {Absent}
    PROVE  Seen(p, u, o) \in UsageRow
<1> SUFFICES ASSUME o \in UsageObject PROVE Observe(p, u, o) \in UsageRow
  BY DEF Seen
<1>1. /\ {o.input, o.read, o.write, o.output} \subseteq Count
      /\ {u.uncached, u.read, u.write, u.output, u.total} \subseteq Count
  BY DEF UsageObject, UsageRow
<1>2. StateAfter(o) \in UsageStates
  BY DEF StateAfter, UsageStates
<1>3. \A a, b \in Count : Update(a, b) \in Count /\ Value(a) \in Nat
  BY DEF Update, Value, Count, Given
<1>4. \A a, b, c \in Nat : a + b + c \in Nat
  OBVIOUS
<1>5. ObserveAnthropic(u, o) \in UsageRow
  <2> DEFINE uncached == Update(u.uncached, o.input)
             read == Update(u.read, o.read)
             write == Update(u.write, o.write)
             total == IF Given(o.input) \/ Given(o.read) \/ Given(o.write)
                      THEN Value(uncached) + Value(read) + Value(write)
                      ELSE u.total
  <2>1. {uncached, read, write, Update(u.output, o.output)} \subseteq Count
    BY <1>1, <1>3
  <2>2. total \in Count
    <3>1. Value(uncached) + Value(read) + Value(write) \in Count
      <4> HIDE DEF uncached, read, write
      <4> QED
        BY <1>3, <1>4, <2>1 DEF Count
    <3> QED
      BY <1>1, <3>1
  <2>3. ObserveAnthropic(u, o) =
          [state |-> StateAfter(o), uncached |-> uncached, read |-> read, write |-> write,
           output |-> Update(u.output, o.output), total |-> total]
    BY DEF ObserveAnthropic
  <2> HIDE DEF uncached, read, write, total
  <2> QED
    BY <1>2, <2>1, <2>2, <2>3 DEF UsageRow
<1>6. ObserveOpenAI(u, o) \in UsageRow
  <2> DEFINE uncached == IF ~Given(o.input) THEN u.uncached
                         ELSE IF Value(o.read) > o.input THEN 0
                         ELSE o.input - Value(o.read)
  <2>1. uncached \in Count
    <3>1. Given(o.input) => o.input \in Nat
      BY <1>1 DEF Given, Count
    <3>2. Value(o.read) \in Nat
      BY <1>1, <1>3
    <3>3. \A a, b \in Nat : b > a \/ a - b \in Nat
      OBVIOUS
    <3> QED
      BY <1>1, <3>1, <3>2, <3>3 DEF Count
  <2>2. {Update(u.read, o.read), Update(u.output, o.output), Update(u.total, o.input)}
          \subseteq Count
    BY <1>1, <1>3
  <2>3. ObserveOpenAI(u, o) =
          [u EXCEPT !.state = StateAfter(o), !.uncached = uncached,
                    !.read = Update(u.read, o.read), !.output = Update(u.output, o.output),
                    !.total = Update(u.total, o.input)]
    BY DEF ObserveOpenAI
  <2> HIDE DEF uncached
  <2> QED
    BY <1>2, <2>1, <2>2, <2>3 DEF UsageRow
<1> QED
  BY <1>5, <1>6 DEF Observe

\* So does it over the two places of an event.
LEMMA EventTyped ==
    ASSUME NEW e \in Events, NEW p, NEW u \in UsageRow
    PROVE  SeenInEvent(p, u, e) \in UsageRow
<1>1. e.root \in UsageObject \cup {Absent} /\ e.message \in UsageObject \cup {Absent}
  BY StreamAssumption DEF Event
<1> QED
  BY <1>1, SeenTyped DEF SeenInEvent

\* The type invariant is inductive together with that of the stages.
LEMMA StreamTypedInductive ==
    StreamInv /\ StreamTypeOK /\ [StreamNext]_streamVars => StreamTypeOK'
<1> SUFFICES ASSUME StreamInv, StreamTypeOK, StreamNext \/ UNCHANGED streamVars
             PROVE  StreamTypeOK'
  OBVIOUS
<1>0. /\ received \in Seq(Events) /\ Len(received) \in Nat
      /\ written \in Nat /\ written <= Len(received)
  BY DEF StreamTypeOK
<1>1. ASSUME received' = received, written' = written, usage' = usage, protocol' = protocol,
             UNCHANGED <<first, late>>, stage' = "ended", copyErr' \in BOOLEAN
      PROVE  StreamTypeOK'
  BY <1>1 DEF StreamTypeOK
<1>2. CASE FirstReadBreaks
  BY <1>1, <1>2 DEF FirstReadBreaks
<1>3. ASSUME NEW ok \in BOOLEAN, ReadEnds(ok)
      PROVE  StreamTypeOK'
  <2>1. copyErr' \in BOOLEAN
    BY <1>3, Zenon DEF ReadEnds
  <2> QED
    BY <1>1, <1>3, <2>1 DEF ReadEnds
<1>4. ASSUME NEW e \in Events, NEW ok \in BOOLEAN, received' \in Seq(Events),
             Len(received') = Len(received) + 1,
             Write(ok) \/ (written' = written /\ stage' = "ended" /\ copyErr' = copyErr),
             ObserveJSON(e) \/ usage' = usage,
             first' \in {"none", "quota"}, late' \in {"none", "quota"}, protocol' = protocol
      PROVE  StreamTypeOK'
  <2>1. usage' \in UsageRow
    <3>1. usage' = usage \/ usage' = SeenInEvent(protocol, usage, e)
      BY <1>4 DEF ObserveJSON, SeenInEvent, Seen
    <3> QED
      BY <3>1, EventTyped DEF StreamTypeOK
  <2>2. /\ stage' \in {"open", "ended"}
        /\ written' = written \/ written' = written + 1
    BY <1>4 DEF Write
  <2>3. copyErr' \in BOOLEAN
    BY <1>4, Zenon DEF Write, StreamTypeOK
  <2>4. written' \in 0..Len(received')
    <3>1. \A w, n \in Nat : w <= n => w \in 0..(n + 1) /\ w + 1 \in 0..(n + 1)
      OBVIOUS
    <3> QED
      BY <1>0, <1>4, <2>2, <3>1, Zenon
  <2> QED
    BY <1>4, <2>1, <2>2, <2>3, <2>4 DEF StreamTypeOK
<1>5. ASSUME NEW ok \in BOOLEAN, NEW e \in Events, FirstEvent(e, ok)
      PROVE  StreamTypeOK'
  <2>1. /\ received = <<>> /\ first = "none" /\ received' = <<e>>
        /\ protocol' = protocol /\ late' = late
    BY <1>5 DEF FirstEvent, StreamInv, StreamShape
  <2>2. /\ received' \in Seq(Events) /\ Len(received') = Len(received) + 1
    BY <2>1
  <2>3. first' \in {"none", "quota"} /\ late' \in {"none", "quota"}
    BY <1>5, <2>1, FailureIsQuota DEF FirstEvent, StreamTypeOK
  <2>4. /\ Write(ok) \/ (written' = written /\ stage' = "ended" /\ copyErr' = copyErr)
        /\ ObserveJSON(e) \/ usage' = usage
    BY <1>5 DEF FirstEvent
  <2> QED
    BY <1>4, <2>1, <2>2, <2>3, <2>4
<1>6. ASSUME NEW ok \in BOOLEAN, NEW e \in Events, NextEvent(e, ok)
      PROVE  StreamTypeOK'
  <2>1. /\ received' = Append(received, e) /\ UNCHANGED <<protocol, first>>
        /\ Write(ok) /\ ObserveJSON(e)
        /\ late' = IF Failure(e) # "none" THEN Failure(e) ELSE late
    BY <1>6 DEF NextEvent
  <2>2. received' \in Seq(Events) /\ Len(received') = Len(received) + 1
    BY <1>0, <2>1
  <2>3. first' \in {"none", "quota"} /\ late' \in {"none", "quota"}
    BY <2>1, FailureIsQuota DEF StreamTypeOK
  <2> QED
    BY <1>4, <2>1, <2>2, <2>3
<1>7. CASE UNCHANGED streamVars
  BY <1>7 DEF streamVars, StreamTypeOK
<1> QED
  BY <1>2, <1>3, <1>5, <1>6, <1>7 DEF StreamNext

\* A stream starts in the invariants.
LEMMA StreamStarts == StreamInit => StreamInv /\ StreamTypeOK
<1> SUFFICES ASSUME StreamInit PROVE StreamInv /\ StreamTypeOK
  OBVIOUS
<1>1. /\ <<>> \in Seq(Events) /\ Len(<<>>) = 0
      /\ \A i \in 1..Len(<<>>) : FALSE
  OBVIOUS
<1>2. Noticed(<<>>, first, late)
  BY <1>1, Zenon DEF Noticed
<1>3. NoUsage \in UsageRow
  BY DEF NoUsage, UsageRow, UsageStates, Count
<1>4. 0 \in 0..0
  OBVIOUS
<1> QED
  BY <1>1, <1>2, <1>3, <1>4
     DEF StreamInit, StreamInv, StreamShape, ReplayIsSafe, StreamTypeOK

\* Whatever an upstream counts, in a stream of any length, no count that is stored
\* is negative, and the client has got no event that was not read.
THEOREM StreamsAreTyped == AlgorithmsSpec => []StreamTypeOK
<1>1. AlgorithmsInit => StreamInv /\ StreamTypeOK
  BY StreamStarts DEF AlgorithmsInit
<1>2. [AlgorithmsNext]_algorithmVars => [StreamNext]_streamVars
  BY DEF AlgorithmsNext, algorithmVars
<1> QED
  BY <1>1, <1>2, StreamInvInductive, StreamTypedInductive, PTL DEF AlgorithmsSpec

-----------------------------------------------------------------------------
(* The counts that the upstream has given are kept in a record of their own, *)
(* as an object: the invariant says how the stored row follows from it.      *)

Names == {"input", "read", "write", "output"}

Known(events) == [input |-> LastGiven(events, "input"), read |-> LastGiven(events, "read"),
                  write |-> LastGiven(events, "write"), output |-> LastGiven(events, "output")]

NothingGiven == [input |-> Absent, read |-> Absent, write |-> Absent, output |-> Absent]

\* What is known after an object, if there is one.
Told(k, o) ==
    IF o = Absent THEN k
    ELSE [input |-> Update(k.input, o.input), read |-> Update(k.read, o.read),
          write |-> Update(k.write, o.write), output |-> Update(k.output, o.output)]

\* The row u follows from the known counts k; seen: there has been an object;
\* fit: and each was consistent.
Follows(p, u, k, seen, fit) ==
    /\ u.output = k.output
    /\ u.read = k.read
    /\ u.state = "complete" => Given(u.total) /\ Given(u.output)
    /\ u.state = "unavailable" <=> ~seen
    /\ p = "anthropic" =>
          /\ u.uncached = k.input
          /\ u.write = k.write
          /\ Value(u.total) = Value(u.uncached) + Value(u.read) + Value(u.write)
    /\ p = "openai" =>
          /\ u.total = k.input
          /\ fit => Value(u.uncached) + Value(u.read) = Value(u.total)

\* One object that is observed keeps the row in step with what is known.
LEMMA ObjectFollows ==
    ASSUME NEW p \in Protocols, NEW u \in UsageRow, NEW k \in UsageObject,
           NEW o \in UsageObject, NEW seen \in BOOLEAN, NEW fit \in BOOLEAN,
           Follows(p, u, k, seen, fit)
    PROVE  Follows(p, Observe(p, u, o), Told(k, o), TRUE, fit /\ Consistent(o))
<1> DEFINE new == Observe(p, u, o)
           told == Told(k, o)
<1>1. /\ o.input \in Count /\ o.read \in Count /\ o.write \in Count /\ o.output \in Count
      /\ k.input \in Count /\ k.read \in Count /\ k.write \in Count /\ k.output \in Count
      /\ u.uncached \in Count /\ u.read \in Count /\ u.write \in Count
      /\ u.output \in Count /\ u.total \in Count
  BY DEF UsageObject, UsageRow
<1>2. \A a, b \in Count : Update(a, b) \in Count /\ Value(a) \in Nat
  BY DEF Update, Value, Count, Given
<1>3. /\ told.input = Update(k.input, o.input) /\ told.read = Update(k.read, o.read)
      /\ told.write = Update(k.write, o.write) /\ told.output = Update(k.output, o.output)
  BY UsageAssumption DEF Told
<1>4. StateAfter(o) # "unavailable"
      /\ (StateAfter(o) = "complete" => Given(o.input) /\ Given(o.output))
  BY DEF StateAfter
<1>5. \A a \in Count : \A b : Given(b) => Update(a, b) = b /\ Given(Update(a, b))
  BY DEF Update
<1>6. \A a \in Count : \A b : ~Given(b) => Update(a, b) = a
  BY DEF Update
<1>7. CASE p = "anthropic"
  <2> DEFINE uncached == Update(u.uncached, o.input)
             read == Update(u.read, o.read)
             write == Update(u.write, o.write)
             some == Given(o.input) \/ Given(o.read) \/ Given(o.write)
             total == IF some THEN Value(uncached) + Value(read) + Value(write) ELSE u.total
  <2>1. new = [state |-> StateAfter(o), uncached |-> uncached, read |-> read,
               write |-> write, output |-> Update(u.output, o.output), total |-> total]
    BY <1>7 DEF Observe, ObserveAnthropic
  <2>2. Value(total) = Value(uncached) + Value(read) + Value(write)
    <3>1. CASE some
      <4>1. Value(uncached) + Value(read) + Value(write) \in Nat
        <5>1. Value(uncached) \in Nat /\ Value(read) \in Nat /\ Value(write) \in Nat
          BY <1>1, <1>2
        <5> HIDE DEF uncached, read, write
        <5> QED
          BY <5>1
      <4>2. total = Value(uncached) + Value(read) + Value(write)
        BY <3>1
      <4> HIDE DEF uncached, read, write, total
      <4> QED
        BY <4>1, <4>2, UsageAssumption DEF Value, Given
    <3>2. CASE ~some
      <4>1. uncached = u.uncached /\ read = u.read /\ write = u.write /\ total = u.total
        BY <1>1, <1>6, <3>2
      <4> HIDE DEF uncached, read, write, total
      <4> QED
        BY <1>7, <4>1 DEF Follows
    <3> QED
      BY <3>1, <3>2
  <2>3. StateAfter(o) = "complete" => Given(total)
    <3>1. ASSUME Given(o.input) PROVE Given(total)
      <4>1. Value(uncached) \in Nat /\ Value(read) \in Nat /\ Value(write) \in Nat
        BY <1>1, <1>2
      <4>2. total = Value(uncached) + Value(read) + Value(write)
        BY <3>1
      <4> HIDE DEF uncached, read, write, total
      <4> QED
        BY <4>1, <4>2, UsageAssumption DEF Given
    <3> QED
      BY <1>4, <3>1
  <2>4. uncached = told.input /\ read = told.read /\ write = told.write
        /\ Update(u.output, o.output) = told.output
    BY <1>3, <1>7 DEF Follows
  <2>5. StateAfter(o) = "complete" => Given(Update(u.output, o.output))
    BY <1>1, <1>4, <1>5
  <2>6. Follows(p, new, told, TRUE, fit /\ Consistent(o))
    <3>1. /\ new.state = StateAfter(o) /\ new.uncached = uncached /\ new.read = read
          /\ new.write = write /\ new.output = Update(u.output, o.output)
          /\ new.total = total
      BY <2>1
    <3> HIDE DEF new, uncached, read, write, total, told
    <3> QED
      BY <1>4, <1>7, <2>2, <2>3, <2>4, <2>5, <3>1 DEF Follows
  <2> QED
    BY <2>6
<1>8. CASE p = "openai"
  <2> DEFINE uncached == IF ~Given(o.input) THEN u.uncached
                         ELSE IF Value(o.read) > o.input THEN 0
                         ELSE o.input - Value(o.read)
             read == Update(u.read, o.read)
             output == Update(u.output, o.output)
             total == Update(u.total, o.input)
  <2>1. /\ new.state = StateAfter(o) /\ new.uncached = uncached /\ new.read = read
        /\ new.output = output /\ new.total = total
    BY <1>8 DEF Observe, ObserveOpenAI, UsageRow
  <2>2. fit /\ Consistent(o) => Value(uncached) + Value(read) = Value(total)
    <3> SUFFICES ASSUME fit, Consistent(o)
                 PROVE  Value(uncached) + Value(read) = Value(total)
      OBVIOUS
    <3>1. CASE Given(o.input)
      <4>1. /\ o.input \in Nat /\ o.read \in Nat /\ o.read <= o.input
            /\ Value(o.read) = o.read
        BY <1>1, <3>1 DEF Consistent, Count, Given, Value
      <4>2. read = o.read /\ total = o.input
        BY <1>1, <1>5, <3>1 DEF Consistent
      <4>3. uncached = o.input - o.read /\ uncached \in Nat
        BY <3>1, <4>1
      <4>4. Value(uncached) = uncached /\ Value(total) = total /\ Value(read) = read
        <5>1. \A n \in Nat : Value(n) = n
          BY UsageAssumption DEF Value, Given
        <5> QED
          BY <4>1, <4>2, <4>3, <5>1
      <4> HIDE DEF uncached, read, total
      <4> QED
        BY <4>1, <4>2, <4>3, <4>4
    <3>2. CASE ~Given(o.input)
      <4>1. uncached = u.uncached /\ read = u.read /\ total = u.total
        BY <1>1, <1>6, <3>2 DEF Consistent
      <4> HIDE DEF uncached, read, total
      <4> QED
        BY <1>8, <4>1 DEF Follows
    <3> QED
      BY <3>1, <3>2
  <2>3. read = told.read /\ output = told.output /\ total = told.input
    BY <1>3, <1>8 DEF Follows
  <2>4. StateAfter(o) = "complete" => Given(total) /\ Given(output)
    BY <1>1, <1>4, <1>5
  <2>5. Follows(p, new, told, TRUE, fit /\ Consistent(o))
    <3> HIDE DEF new, uncached, read, output, total, told
    <3> QED
      BY <1>4, <1>8, <2>1, <2>2, <2>3, <2>4 DEF Follows
  <2> QED
    BY <2>5
<1> QED
  BY <1>7, <1>8, StreamAssumption

\* What is known stays an object's worth of counts.
LEMMA ToldTyped ==
    ASSUME NEW k \in UsageObject, NEW o \in UsageObject \cup {Absent}
    PROVE  Told(k, o) \in UsageObject
BY DEF Told, UsageObject, Update, Given

\* The same for a place of an event, which may hold no object.
LEMMA PlaceFollows ==
    ASSUME NEW p \in Protocols, NEW u \in UsageRow, NEW k \in UsageObject,
           NEW o \in UsageObject \cup {Absent}, NEW seen \in BOOLEAN, NEW fit \in BOOLEAN,
           Follows(p, u, k, seen, fit)
    PROVE  Follows(p, Seen(p, u, o), Told(k, o), seen \/ o # Absent,
                   fit /\ (o = Absent \/ Consistent(o)))
<1>1. CASE o = Absent
  BY <1>1 DEF Seen, Told, Follows
<1>2. CASE o # Absent
  <2>1. Follows(p, Observe(p, u, o), Told(k, o), TRUE, fit /\ Consistent(o))
    BY <1>2, ObjectFollows
  <2> QED
    BY <1>2, <2>1 DEF Seen, Follows
<1> QED
  BY <1>1, <1>2

\* Where the events give a count under a name, and that one of these is the last.
GivenAt(events, name) == {i \in DOMAIN events : Given(CountOfEvent(events[i], name))}

HasLast(events, name) ==
    GivenAt(events, name) = {}
    \/ \E i \in GivenAt(events, name) : \A j \in GivenAt(events, name) : j <= i

\* The last count after one more event is that event's, if it gives one.
LEMMA LastGivenNext ==
    ASSUME NEW seq \in Seq(Events), NEW e \in Events, NEW name, HasLast(seq, name)
    PROVE  /\ HasLast(Append(seq, e), name)
           /\ LastGiven(Append(seq, e), name) =
                 Update(LastGiven(seq, name), CountOfEvent(e, name))
<1> DEFINE n == Len(seq)
           new == Append(seq, e)
           old == GivenAt(seq, name)
           now == GivenAt(new, name)
           Latest(S) == CHOOSE i \in S : \A j \in S : j <= i
<1>1. /\ n \in Nat /\ DOMAIN seq = 1..n /\ DOMAIN new = 1..(n + 1)
      /\ \A i \in 1..n : new[i] = seq[i]
      /\ new[n + 1] = e
  OBVIOUS
<1>2. /\ LastGiven(seq, name) =
           IF old = {} THEN Absent ELSE CountOfEvent(seq[Latest(old)], name)
      /\ LastGiven(new, name) =
           IF now = {} THEN Absent ELSE CountOfEvent(new[Latest(now)], name)
  BY DEF LastGiven, GivenAt
<1> HIDE DEF n, new
<1>3. old \subseteq 1..n /\ now \subseteq 1..(n + 1)
  BY <1>1 DEF GivenAt
<1>4. \A i \in 1..n : i \in 1..(n + 1) /\ i <= n + 1 /\ i # n + 1
  BY <1>1
<1>5. \A i \in 1..n : i \in old <=> i \in now
  BY <1>1, <1>4 DEF GivenAt
<1>6. n + 1 \in now <=> Given(CountOfEvent(e, name))
  BY <1>1 DEF GivenAt
<1>7. \A i \in 1..(n + 1) : i \in 1..n \/ i = n + 1
  BY <1>1
<1>8. old = {} \/ \E i \in old : \A j \in old : j <= i
  BY DEF HasLast
<1> HIDE DEF old, now
<1>9. CASE Given(CountOfEvent(e, name))
  <2>1. n + 1 \in now /\ \A j \in now : j <= n + 1
    BY <1>1, <1>3, <1>6, <1>9
  <2>2. Latest(now) = n + 1
    <3>1. \A i \in now : (\A j \in now : j <= i) => i = n + 1
      <4> SUFFICES ASSUME NEW i \in now, \A j \in now : j <= i PROVE i = n + 1
        OBVIOUS
      <4>1. i \in 1..(n + 1) /\ n + 1 <= i
        BY <1>3, <2>1
      <4> QED
        BY <1>1, <4>1
    <3> QED
      BY <2>1, <3>1
  <2>3. LastGiven(new, name) = CountOfEvent(e, name)
    BY <1>1, <1>2, <2>1, <2>2
  <2>4. HasLast(new, name)
    BY <2>1 DEF HasLast, now
  <2> QED
    BY <1>9, <2>3, <2>4 DEF Update, new
<1>10. CASE ~Given(CountOfEvent(e, name))
  <2>1. now = old
    BY <1>3, <1>5, <1>6, <1>7, <1>10
  <2>2. HasLast(new, name)
    BY <1>8, <2>1 DEF HasLast, now
  <2>3. LastGiven(new, name) = LastGiven(seq, name)
    <3>1. CASE old = {}
      BY <1>2, <2>1, <3>1
    <3>2. CASE old # {}
      <4>1. Latest(old) \in old
        BY <1>8, <3>2
      <4>2. new[Latest(old)] = seq[Latest(old)]
        BY <1>1, <1>3, <4>1
      <4> QED
        BY <1>2, <2>1, <3>2, <4>2
    <3> QED
      BY <3>1, <3>2
  <2> QED
    BY <1>10, <2>2, <2>3 DEF Update, new
<1> QED
  BY <1>9, <1>10

\* The objects of the events and one more are theirs and those of its two places.
LEMMA ObjectsNext ==
    ASSUME NEW seq \in Seq(Events), NEW e \in Events
    PROVE  Objects(Append(seq, e)) = Objects(seq) \cup ObjectsOf(e)
<1> DEFINE n == Len(seq)
           new == Append(seq, e)
<1>1. /\ n \in Nat /\ DOMAIN seq = 1..n /\ DOMAIN new = 1..(n + 1)
      /\ \A i \in 1..n : new[i] = seq[i]
      /\ new[n + 1] = e
  OBVIOUS
<1> HIDE DEF n, new
<1>2. \A i : i \in 1..(n + 1) <=> i \in 1..n \/ i = n + 1
  BY <1>1
<1>3. ASSUME NEW o
      PROVE  o \in Objects(new) <=> o \in Objects(seq) \/ o \in ObjectsOf(e)
  <2>1. o \in Objects(new) <=> \E i \in 1..(n + 1) : o \in ObjectsOf(new[i])
    BY <1>1, Zenon DEF Objects
  <2>2. o \in Objects(seq) <=> \E i \in 1..n : o \in ObjectsOf(seq[i])
    BY <1>1, Zenon DEF Objects
  <2>3. (\E i \in 1..(n + 1) : o \in ObjectsOf(new[i]))
          <=> (\E i \in 1..n : o \in ObjectsOf(new[i])) \/ o \in ObjectsOf(new[n + 1])
    BY <1>2, Zenon
  <2>4. (\E i \in 1..n : o \in ObjectsOf(new[i])) <=> (\E i \in 1..n : o \in ObjectsOf(seq[i]))
    BY <1>1, Zenon
  <2> QED
    BY <1>1, <2>1, <2>2, <2>3, <2>4, Zenon
<1> QED
  BY <1>3 DEF new

AllConsistent(events) == \A o \in Objects(events) : Consistent(o)

\* The stored row follows from the events: what is known of them is well defined,
\* and is one object's worth of counts.
Counted(p, u, events) ==
    /\ u \in UsageRow
    /\ \A name \in Names : HasLast(events, name)
    /\ Known(events) \in UsageObject
    /\ Follows(p, u, Known(events), Objects(events) # {}, AllConsistent(events))

\* It does without an event.
LEMMA CountedNone ==
    ASSUME NEW p \in Protocols
    PROVE  Counted(p, NoUsage, <<>>)
<1>1. DOMAIN <<>> = {}
  OBVIOUS
<1>2. \A name : GivenAt(<<>>, name) = {} /\ LastGiven(<<>>, name) = Absent
  BY <1>1 DEF GivenAt, LastGiven
<1>3. Objects(<<>>) = {}
  BY <1>1 DEF Objects
<1>4. Known(<<>>) = NothingGiven
  BY <1>2 DEF Known, NothingGiven
<1>5. NoUsage \in UsageRow /\ NothingGiven \in UsageObject
  BY DEF NoUsage, NothingGiven, UsageRow, UsageObject, UsageStates, Count
<1>6. Follows(p, NoUsage, NothingGiven, FALSE, AllConsistent(<<>>))
  BY DEF Follows, NoUsage, NothingGiven, Value, Given
<1> QED
  BY <1>2, <1>3, <1>4, <1>5, <1>6 DEF Counted, HasLast

\* And it does after one more, the root's object before the message's.
LEMMA CountedNext ==
    ASSUME NEW p \in Protocols, NEW u, NEW seq \in Seq(Events), NEW e \in Events,
           Counted(p, u, seq)
    PROVE  Counted(p, SeenInEvent(p, u, e), Append(seq, e))
<1> DEFINE new == Append(seq, e)
           k == Known(seq)
           half == Told(k, e.root)
           full == Told(half, e.message)
<1>1. /\ e.root \in UsageObject \cup {Absent}
      /\ e.message \in UsageObject \cup {Absent}
  BY StreamAssumption DEF Event
<1>2. u \in UsageRow /\ k \in UsageObject
      /\ Follows(p, u, k, Objects(seq) # {}, AllConsistent(seq))
  BY DEF Counted
<1>3. half \in UsageObject /\ full \in UsageObject
  BY <1>1, <1>2, ToldTyped
<1>4. \A name \in Names : /\ HasLast(new, name)
                          /\ LastGiven(new, name) =
                                Update(LastGiven(seq, name), CountOfEvent(e, name))
  BY LastGivenNext DEF Counted
<1>5. Known(new) = full
  <2>1. \A a, b, c : Update(a, Update(b, c)) = Update(Update(a, b), c)
    BY DEF Update
  <2>2. \A a : Update(a, Absent) = a
    BY DEF Update, Given
  <2>3. ASSUME NEW name \in Names
        PROVE  LastGiven(new, name) = Update(Update(LastGiven(seq, name), CountIn(e.root, name)),
                                             CountIn(e.message, name))
    BY <1>4, <2>1, <2>3 DEF CountOfEvent
  <2>4. ASSUME NEW h, NEW o \in UsageObject \cup {Absent}, h \in UsageObject
        PROVE  /\ Told(h, o).input = Update(h.input, CountIn(o, "input"))
               /\ Told(h, o).read = Update(h.read, CountIn(o, "read"))
               /\ Told(h, o).write = Update(h.write, CountIn(o, "write"))
               /\ Told(h, o).output = Update(h.output, CountIn(o, "output"))
    BY <2>2, <2>4 DEF Told, CountIn
  <2>5. /\ k.input = LastGiven(seq, "input") /\ k.read = LastGiven(seq, "read")
        /\ k.write = LastGiven(seq, "write") /\ k.output = LastGiven(seq, "output")
    BY DEF Known
  <2> HIDE DEF new, k
  <2>6. /\ full.input = LastGiven(new, "input") /\ full.read = LastGiven(new, "read")
        /\ full.write = LastGiven(new, "write") /\ full.output = LastGiven(new, "output")
    BY <1>1, <1>2, <1>3, <2>3, <2>4, <2>5 DEF Names
  <2> HIDE DEF half, full
  <2>7. full = [input |-> full.input, read |-> full.read, write |-> full.write,
                output |-> full.output]
    BY <1>3 DEF UsageObject
  <2> QED
    BY <2>6, <2>7 DEF Known
<1>6. SeenInEvent(p, u, e) \in UsageRow
  BY <1>2, EventTyped
<1>7. Objects(new) = Objects(seq) \cup ObjectsOf(e)
  BY ObjectsNext
<1> HIDE DEF new, k
<1>8. ASSUME NEW seen \in BOOLEAN, NEW fit \in BOOLEAN, Follows(p, u, k, seen, fit)
      PROVE  Follows(p, SeenInEvent(p, u, e), full,
                     (seen \/ e.root # Absent) \/ e.message # Absent,
                     (fit /\ (e.root = Absent \/ Consistent(e.root)))
                         /\ (e.message = Absent \/ Consistent(e.message)))
  <2>1. Follows(p, Seen(p, u, e.root), half, seen \/ e.root # Absent,
                fit /\ (e.root = Absent \/ Consistent(e.root)))
    BY <1>1, <1>2, <1>8, PlaceFollows
  <2>2. Seen(p, u, e.root) \in UsageRow
    BY <1>1, <1>2, SeenTyped
  <2> HIDE DEF half
  <2> QED
    BY <1>1, <1>3, <2>1, <2>2, PlaceFollows DEF SeenInEvent
<1>9. (Objects(new) # {})
        <=> (Objects(seq) # {} \/ e.root # Absent) \/ e.message # Absent
  BY <1>7 DEF ObjectsOf
<1>10. AllConsistent(new) <=> (AllConsistent(seq) /\ (e.root = Absent \/ Consistent(e.root)))
                                  /\ (e.message = Absent \/ Consistent(e.message))
  BY <1>7, Zenon DEF AllConsistent, ObjectsOf
<1>11. Follows(p, SeenInEvent(p, u, e), full, Objects(new) # {}, AllConsistent(new))
  <2>1. (Objects(seq) # {}) \in BOOLEAN /\ AllConsistent(seq) \in BOOLEAN
    BY Zenon DEF AllConsistent
  <2>2. Follows(p, SeenInEvent(p, u, e), full,
                (Objects(seq) # {} \/ e.root # Absent) \/ e.message # Absent,
                (AllConsistent(seq) /\ (e.root = Absent \/ Consistent(e.root)))
                    /\ (e.message = Absent \/ Consistent(e.message)))
    BY <1>2, <1>8, <2>1 DEF k
  <2> HIDE DEF half, full
  <2> QED
    BY <1>9, <1>10, <2>2, Zenon DEF Follows
<1> QED
  BY <1>3, <1>4, <1>5, <1>6, <1>11 DEF Counted, new

\* The invariant of the accumulator over the life of a stream.
CountInv == protocol \in Protocols /\ Counted(protocol, usage, Observed)

\* No step of a stream breaks it.
LEMMA CountInvInductive ==
    StreamInv /\ CountInv /\ [StreamNext]_streamVars => CountInv'
<1> SUFFICES ASSUME StreamInv, CountInv, StreamNext \/ UNCHANGED streamVars
             PROVE  CountInv'
  OBVIOUS
<1>1. ASSUME UNCHANGED <<protocol, usage, received, first>>
      PROVE  CountInv'
  <2>1. Observed' = Observed
    BY <1>1 DEF Observed
  <2> QED
    BY <1>1, <2>1 DEF CountInv
<1>2. ASSUME NEW e \in Events, NEW seq \in Seq(Events), Counted(protocol, usage, seq),
             ObserveJSON(e), received' = Append(seq, e), first' = "none", protocol' = protocol
      PROVE  CountInv'
  <2>1. usage' = SeenInEvent(protocol, usage, e)
    BY <1>2 DEF ObserveJSON, SeenInEvent, Seen
  <2>2. Observed' = Append(seq, e)
    BY <1>2 DEF Observed
  <2>3. Counted(protocol, SeenInEvent(protocol, usage, e), Append(seq, e))
    BY <1>2, CountedNext DEF CountInv
  <2> QED
    BY <1>2, <2>1, <2>2, <2>3 DEF CountInv
<1>3. ASSUME NEW ok \in BOOLEAN, NEW e \in Events, FirstEvent(e, ok)
      PROVE  CountInv'
  <2>1. /\ received = <<>> /\ usage = NoUsage /\ first = "none"
        /\ received' = <<e>> /\ protocol' = protocol
    BY <1>3 DEF FirstEvent, StreamInv, StreamShape
  <2>2. Counted(protocol, NoUsage, <<>>)
    BY CountedNone DEF CountInv
  <2>3. CASE Failure(e) # "none"
    <3>1. first' # "none" /\ usage' = NoUsage
      BY <1>3, <2>1, <2>3 DEF FirstEvent
    <3>2. Observed' = <<>>
      BY <3>1 DEF Observed
    <3> QED
      BY <2>1, <2>2, <3>1, <3>2 DEF CountInv
  <2>4. CASE Failure(e) = "none"
    <3>1. ObserveJSON(e) /\ first' = "none"
      BY <1>3, <2>1, <2>4 DEF FirstEvent
    <3>2. <<>> \in Seq(Events) /\ <<e>> = Append(<<>>, e)
      OBVIOUS
    <3> QED
      BY <1>2, <2>1, <2>2, <3>1, <3>2
  <2> QED
    BY <2>3, <2>4
<1>4. ASSUME NEW ok \in BOOLEAN, NEW e \in Events, NextEvent(e, ok)
      PROVE  CountInv'
  <2>1. /\ received \in Seq(Events) /\ first = "none"
        /\ ObserveJSON(e) /\ received' = Append(received, e)
        /\ first' = first /\ protocol' = protocol
    BY <1>4 DEF NextEvent, StreamInv, StreamShape
  <2>2. Counted(protocol, usage, received)
    BY <2>1 DEF CountInv, Observed
  <2> QED
    BY <1>2, <2>1, <2>2
<1>5. CASE FirstReadBreaks
  BY <1>1, <1>5 DEF FirstReadBreaks
<1>6. ASSUME NEW ok \in BOOLEAN, ReadEnds(ok) PROVE CountInv'
  BY <1>1, <1>6 DEF ReadEnds
<1>7. CASE UNCHANGED streamVars
  BY <1>1, <1>7 DEF streamVars
<1> QED
  BY <1>3, <1>4, <1>5, <1>6, <1>7 DEF StreamNext

\* Every stored count is the last one given, whatever objects the events of a
\* stream of any length hold, in whichever of them and in whichever place.
THEOREM CountsAreTheLast == AlgorithmsSpec => []CountsAreLastGiven
<1>1. AlgorithmsInit => StreamInv /\ CountInv
  <2> SUFFICES ASSUME StreamInit PROVE StreamInv /\ CountInv
    BY DEF AlgorithmsInit
  <2>1. protocol \in Protocols /\ usage = NoUsage /\ received = <<>>
    BY DEF StreamInit
  <2>2. Observed = <<>>
    BY <2>1 DEF Observed
  <2> QED
    BY <2>1, <2>2, CountedNone, StreamStarts DEF CountInv
<1>2. [AlgorithmsNext]_algorithmVars => [StreamNext]_streamVars
  BY DEF AlgorithmsNext, algorithmVars
<1>3. CountInv => CountsAreLastGiven
  <2> SUFFICES ASSUME CountInv PROVE CountsAreLastGiven
    OBVIOUS
  <2> DEFINE k == Known(Observed)
  <2>1. Follows(protocol, usage, k, Objects(Observed) # {}, AllConsistent(Observed))
    BY DEF CountInv, Counted
  <2>2. /\ k.input = LastGiven(Observed, "input") /\ k.read = LastGiven(Observed, "read")
        /\ k.write = LastGiven(Observed, "write") /\ k.output = LastGiven(Observed, "output")
    BY DEF Known
  <2> HIDE DEF k
  <2> QED
    BY <2>1, <2>2 DEF Follows, AllConsistent, CountsAreLastGiven
<1> QED
  BY <1>1, <1>2, <1>3, StreamInvInductive, CountInvInductive, PTL DEF AlgorithmsSpec

-----------------------------------------------------------------------------
\* If the number of credentials is right, none of them or each is supplied.
LEMMA NoneOrAll ==
    ASSUME NEW e \in Environment, WholeSet(e)
    PROVE  \/ e.master = Unset /\ AdminPassword(e) = Unset /\ BootstrapToken(e) = Unset
           \/ e.master # Unset /\ AdminPassword(e) # Unset /\ BootstrapToken(e) # Unset
<1> DEFINE names == {"master", "admin", "token"}
           given == Supplied(e)
<1>1. /\ DOMAIN Credentials(e) = names
      /\ Credentials(e).master = e.master
      /\ Credentials(e).admin = AdminPassword(e)
      /\ Credentials(e).token = BootstrapToken(e)
  BY DEF Credentials
<1>2. /\ given \subseteq names
      /\ "master" \in given <=> e.master # Unset
      /\ "admin" \in given <=> AdminPassword(e) # Unset
      /\ "token" \in given <=> BootstrapToken(e) # Unset
  BY <1>1 DEF Supplied
<1>3. IsFiniteSet(names) /\ Cardinality(names) = 3
  <2>1. IsFiniteSet({"master"}) /\ Cardinality({"master"}) = 1
    BY FS_Singleton
  <2>2. /\ IsFiniteSet({"master"} \cup {"admin"})
        /\ Cardinality({"master"} \cup {"admin"}) = 2
    BY <2>1, FS_AddElement
  <2>3. /\ IsFiniteSet({"master"} \cup {"admin"} \cup {"token"})
        /\ Cardinality({"master"} \cup {"admin"} \cup {"token"}) = 3
    BY <2>2, FS_AddElement
  <2>4. names = {"master"} \cup {"admin"} \cup {"token"}
    OBVIOUS
  <2> QED
    BY <2>3, <2>4
<1>4. Cardinality(given) \in {0, 3}
  BY DEF WholeSet
<1> HIDE DEF names, given
<1>5. IsFiniteSet(given)
  BY <1>2, <1>3, FS_Subset
<1>6. CASE Cardinality(given) = 0
  BY <1>2, <1>5, <1>6, FS_EmptySet
<1>7. CASE Cardinality(given) = 3
  <2>1. given = names
    BY <1>2, <1>3, <1>7, FS_Subset
  <2> QED
    BY <1>2, <2>1 DEF names
<1> QED
  BY <1>4, <1>6, <1>7

\* Whatever the environment, a process that Load lets start waits for its setup or
\* gets the identity it was given, and a single access key is both credentials.
THEOREM AcceptedConfigBoots == AlgorithmsSpec => []AcceptedMeansBootable
<1>1. ASSUME InputsOK, Load(env) # Rejected
      PROVE  /\ Bootstrap(Load(env)) # Rejected
             /\ env.access # Unset => /\ Bootstrap(Load(env)) # Unset
                                      /\ Bootstrap(Load(env)).unified
  <2> DEFINE admin == AdminPassword(env)
             token == BootstrapToken(env)
             identity == [master |-> env.master, admin |-> admin, proxy |-> token,
                          unified |-> admin = token]
  <2>1. /\ Load(env) = Credentials(env)
        /\ WholeSet(env) /\ env.master # "malformed"
        /\ env.access # Unset => env.master # Unset
    BY <1>1 DEF Load
  <2>2. /\ env \in Environment
        /\ env.master \in {Unset, "valid", "malformed"}
        /\ {env.access, env.admin, env.token} \subseteq Secrets \cup {Unset}
    BY <1>1 DEF InputsOK, Environment, MasterKeys
  <2>3. admin \in Secrets \cup {Unset} /\ token \in Secrets \cup {Unset}
    BY <2>2 DEF AdminPassword, BootstrapToken
  <2>4. env.access # Unset => admin = token
    BY DEF AdminPassword, BootstrapToken
  <2>5. Load(env) = [master |-> env.master, admin |-> admin, token |-> token]
    BY <2>1 DEF Credentials
  <2> HIDE DEF admin, token
  <2>6. CASE env.master = Unset /\ admin = Unset /\ token = Unset
    <3>1. Bootstrap(Load(env)) = Unset
      BY <2>5, <2>6 DEF Bootstrap
    <3> QED
      BY <2>1, <2>6, <3>1, ConfigAssumption
  <2>7. CASE env.master # Unset /\ admin # Unset /\ token # Unset
    <3>1. env.master = "valid"
      BY <2>1, <2>2, <2>7
    <3>2. Bootstrap(Load(env)) = identity
      BY <2>5, <2>7, <3>1 DEF Bootstrap
    <3>3. identity \in NewIdentity
      BY <2>3, <2>7, <3>1 DEF NewIdentity
    <3>4. identity.unified <=> admin = token
      OBVIOUS
    <3> QED
      BY <2>4, <3>2, <3>3, <3>4, ConfigAssumption
  <2> QED
    BY <2>1, <2>2, <2>6, <2>7, NoneOrAll DEF admin, token
<1>2. InputsOK => AcceptedMeansBootable
  BY <1>1 DEF AcceptedMeansBootable
<1> QED
  BY <1>2, InputsTyped, PTL
=============================================================================
