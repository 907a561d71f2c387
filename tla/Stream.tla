------------------------------- MODULE Stream -------------------------------
(***************************************************************************)
(* forwardStream of internal/proxy/service.go, event by event: what one    *)
(* StreamStarts and StreamEnds of module Inference stand for.              *)
(*                                                                         *)
(* The first event is held back until it has been classified; each later   *)
(* one is observed, classified and then written.  A read may fail, a write *)
(* may fail, and the upstream may end the stream at any event.             *)
(***************************************************************************)
EXTENDS Classifier, Usage

CONSTANTS
    Protocols,  \* {"anthropic", "openai"}
    Events,     \* the events of the upstream: their texts and their usage objects
    MaxEvents   \* bound of a stream

\* The data of an event may have a usage object at its root and another one in its
\* message; an event without data, a comment or "[DONE]", has neither and no texts.
Event == [texts : Seq(Text), root : UsageObject \cup {Absent},
          message : UsageObject \cup {Absent}]

ASSUME StreamAssumption ==
    /\ Protocols \subseteq {"anthropic", "openai"}
    /\ Events \subseteq Event
    /\ MaxEvents \in Nat

VARIABLES
    protocol,
    stage,     \* "first", then "open", then "ended"
    received,  \* the events read so far
    written,   \* how many of them the client has got
    usage,     \* the accumulator's
    first,     \* kind of firstError, or "none" (ErrorNone)
    late,      \* kind of lateError, or "none" (ErrorNone)
    copyErr

streamVars == <<protocol, stage, received, written, usage, first, late, copyErr>>

StreamTypeOK ==
    /\ protocol \in Protocols
    /\ stage \in {"first", "open", "ended"}
    /\ received \in Seq(Events)
    /\ written \in 0..Len(received)
    /\ usage \in UsageRow
    /\ {first, late} \subseteq {"none", "quota"}
    /\ copyErr \in BOOLEAN

StreamInit ==
    /\ protocol \in Protocols
    /\ stage    = "first"
    /\ received = <<>>
    /\ written  = 0
    /\ usage    = NoUsage
    /\ first    = "none"
    /\ late     = "none"
    /\ copyErr  = FALSE

\* The kind of a key failure in an event of an answer with status 2xx.
Failure(e) ==
    LET kind == Kind([status |-> 200, retry |-> NoReset, texts |-> e.texts])
    IN  IF kind \in {"quota", "auth"} THEN kind ELSE "none"

\* The root's object is observed before the message's.
ObserveJSON(e) ==
    LET After(u, o) == IF o = Absent THEN u ELSE Observe(protocol, u, o)
    IN  usage' = After(After(usage, e.root), e.message)

\* The write of the event just read, the last step of its turn.
Write(ok) ==
    /\ written' = IF ok THEN written + 1 ELSE written
    /\ copyErr' = ~ok
    /\ stage'   = IF ok THEN "open" ELSE "ended"

\* readSSEEvent fails before the first event.
FirstReadBreaks ==
    /\ stage = "first"
    /\ stage' = "ended"
    /\ copyErr' = TRUE
    /\ UNCHANGED <<protocol, received, written, usage, first, late>>

\* Nothing is written, and no usage observed, if the event names a key failure.
FirstEvent(e, ok) ==
    /\ stage = "first"
    /\ received' = <<e>>
    /\ IF Failure(e) # "none"
       THEN /\ first' = Failure(e)
            /\ stage' = "ended"
            /\ UNCHANGED <<usage, written, copyErr>>
       ELSE /\ ObserveJSON(e)
            /\ Write(ok)
            /\ UNCHANGED first
    /\ UNCHANGED <<protocol, late>>

\* (Mutant: the last event decides.)
NextEventForgets(e, ok) ==
    /\ stage = "open"
    /\ Len(received) < MaxEvents
    /\ received' = Append(received, e)
    /\ ObserveJSON(e)
    /\ late' = Failure(e)
    /\ Write(ok)
    /\ UNCHANGED <<protocol, first>>

NextEvent(e, ok) ==
    /\ stage = "open"
    /\ Len(received) < MaxEvents
    /\ received' = Append(received, e)
    /\ ObserveJSON(e)
    /\ late' = IF Failure(e) # "none" THEN Failure(e) ELSE late
    /\ Write(ok)
    /\ UNCHANGED <<protocol, first>>

\* The end of the stream, which may be empty, or a read that fails after the first event.
ReadEnds(ok) ==
    /\ \/ stage = "open"
       \/ stage = "first" /\ ok
    /\ stage' = "ended"
    /\ copyErr' = ~ok
    /\ UNCHANGED <<protocol, received, written, usage, first, late>>

StreamNext ==
    \/ FirstReadBreaks
    \/ \E ok \in BOOLEAN : \/ ReadEnds(ok)
                           \/ \E e \in Events : FirstEvent(e, ok) \/ NextEvent(e, ok)

StreamSpec == StreamInit /\ [][StreamNext]_streamVars

-----------------------------------------------------------------------------
\* The count that an object or an event gives under a name; the message's object is
\* the later of an event's two.
CountIn(o, name)      == IF o = Absent THEN Absent ELSE o[name]
CountOfEvent(e, name) == Update(CountIn(e.root, name), CountIn(e.message, name))

\* The last count that the events give under a name.
LastGiven(events, name) ==
    LET given == {i \in DOMAIN events : Given(CountOfEvent(events[i], name))}
    IN  IF given = {} THEN Absent
        ELSE CountOfEvent(events[CHOOSE i \in given : \A j \in given : j <= i], name)

\* The events that reached the accumulator, and the usage objects in them.
Observed    == IF first # "none" THEN <<>> ELSE received
ObjectsOf(e) == {e.root, e.message} \ {Absent}
Objects(events) == UNION {ObjectsOf(events[i]) : i \in DOMAIN events}

\* The cached part is counted whenever the input is, and is no larger.
Consistent(o) == /\ Given(o.read) <=> Given(o.input)
                 /\ Value(o.read) <= Value(o.input)

\* The counts that are stored for a request are, each by itself, the last that the
\* upstream gave, whichever events brought them and whether or not the last of
\* them reached the client; the input adds up, and is complete only if it and the
\* output are known (usage.go:33-102).  OpenAI's parts add up if every object that
\* counts the input counts its cached part, which is no larger.
CountsAreLastGiven ==
    LET Final(name) == LastGiven(Observed, name)
    IN  /\ usage.output = Final("output")
        /\ usage.read = Final("read")
        /\ usage.state = "complete" => Given(usage.total) /\ Given(usage.output)
        /\ usage.state = "unavailable" <=> Objects(Observed) = {}
        /\ protocol = "anthropic" =>
              /\ usage.uncached = Final("input")
              /\ usage.write = Final("write")
              /\ Value(usage.total) =
                     Value(usage.uncached) + Value(usage.read) + Value(usage.write)
        /\ protocol = "openai" =>
              /\ usage.total = Final("input")
              /\ (\A o \in Objects(Observed) : Consistent(o))
                    => Value(usage.uncached) + Value(usage.read) = Value(usage.total)

\* An exhausted key is noticed in whichever event says so, also if other events
\* follow it or it does not reach the client any more; in the first event it
\* leads to another key before the client has seen anything and with no tokens
\* counted, in a later one it never does (service.go:236-288, README.md:118).
QuotaIsNeverMissed ==
    /\ first # "none" => written = 0 /\ usage = NoUsage /\ late = "none"
    /\ \A i \in 1..Len(received) :
          Failure(received[i]) # "none" => IF i = 1 THEN first # "none" ELSE late # "none"
=============================================================================
