------------------------------- MODULE Usage -------------------------------
(***************************************************************************)
(* The accumulator of token counts of internal/proxy/usage.go: one answer, *)
(* or the events of one stream in their order, are observed one by one.    *)
(*                                                                         *)
(* A usage object is a record of the counts that the model tells apart;    *)
(* Absent is a count that is not there or no number.  For OpenAI `read' is *)
(* cached_tokens, a part of `input'; for Anthropic the tokens read from and*)
(* written to the cache come on top of it.  Reasoning tokens and the total *)
(* that OpenAI names are kept as they come, and left out.                  *)
(***************************************************************************)
EXTENDS Integers

CONSTANT Absent

Count == Nat \cup {Absent}

UsageObject == [input : Count, read : Count, write : Count, output : Count]

ASSUME UsageAssumption == Absent \notin Int \cup UsageObject

\* store.Usage
UsageStates == {"unavailable", "partial", "complete"}

UsageRow == [state : UsageStates, uncached : Count, read : Count, write : Count,
             output : Count, total : Count]

NoUsage == [state |-> "unavailable", uncached |-> Absent, read |-> Absent,
            write |-> Absent, output |-> Absent, total |-> Absent]

Given(n) == n # Absent
Value(n) == IF Given(n) THEN n ELSE 0
Update(old, new) == IF Given(new) THEN new ELSE old

StateAfter(o) == IF Given(o.input) /\ Given(o.output) THEN "complete" ELSE "partial"

\* (Mutant: the total of what this object says.)
ObserveAnthropicBug(u, o) ==
    [state    |-> StateAfter(o),
     uncached |-> Update(u.uncached, o.input),
     read     |-> Update(u.read, o.read),
     write    |-> Update(u.write, o.write),
     output   |-> Update(u.output, o.output),
     total    |-> IF Given(o.input) \/ Given(o.read) \/ Given(o.write)
                  THEN Value(o.input) + Value(o.read) + Value(o.write)
                  ELSE u.total]

ObserveAnthropic(u, o) ==
    LET uncached == Update(u.uncached, o.input)
        read     == Update(u.read, o.read)
        write    == Update(u.write, o.write)
    IN  [state    |-> StateAfter(o),
         uncached |-> uncached,
         read     |-> read,
         write    |-> write,
         output   |-> Update(u.output, o.output),
         total    |-> IF Given(o.input) \/ Given(o.read) \/ Given(o.write)
                      THEN Value(uncached) + Value(read) + Value(write)
                      ELSE u.total]

\* (Mutant: no bound at zero.)
ObserveOpenAIBug(u, o) ==
    [u EXCEPT !.state    = StateAfter(o),
              !.uncached = IF Given(o.input) THEN o.input - Value(o.read) ELSE u.uncached,
              !.read     = Update(u.read, o.read),
              !.output   = Update(u.output, o.output),
              !.total    = Update(u.total, o.input)]

\* The tokens not read from the cache are counted with this object's details only.
ObserveOpenAI(u, o) ==
    [u EXCEPT !.state    = StateAfter(o),
              !.uncached = IF ~Given(o.input) THEN u.uncached
                           ELSE IF Value(o.read) > o.input THEN 0
                           ELSE o.input - Value(o.read),
              !.read     = Update(u.read, o.read),
              !.output   = Update(u.output, o.output),
              !.total    = Update(u.total, o.input)]

Observe(protocol, u, o) ==
    IF protocol = "anthropic" THEN ObserveAnthropic(u, o) ELSE ObserveOpenAI(u, o)
=============================================================================
