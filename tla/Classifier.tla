----------------------------- MODULE Classifier -----------------------------
(***************************************************************************)
(* What an answer of the upstream says of the key it was given             *)
(* (internal/proxy/classifier.go), and for how long a key cools            *)
(* (recordKeyFailure of service.go).                                       *)
(*                                                                         *)
(* The message is made of the strings of the answer's JSON, joined.  A     *)
(* string is represented by what the patterns find in it: the words, the   *)
(* phrase that announces a reset, the durations it names (after the        *)
(* phrase, if it has one) and whether it has a full stop, a semicolon or a *)
(* line break after them, where the search for durations ends.             *)
(***************************************************************************)
EXTENDS Integers, Sequences, SequencesExt

CONSTANT NoReset  \* nil: no moment of reset is known

ASSUME ClassifierAssumption == NoReset \notin Int

\* "balance" is a phrase that matches balancePattern alone; "creditserror" and
\* "billing" are the two ends of its pattern credits?error.*(?:balance|billing).
Words == {"quota", "balance", "creditserror", "billing", "auth", "rate", "5h", "week", "month"}

Text == [words : SUBSET Words, resets : BOOLEAN, time : Nat, stops : BOOLEAN]

\* retry: the moment that Retry-After names, in seconds or as a date, from now;
\* NoReset without such a header.  Status 0: the call has failed.
Reply == [status : Nat, retry : Int \cup {NoReset}, texts : Seq(Text)]

Success(r) == r.status \in 200..299

\* (Mutant: only the first string is read.)
SaysBug(texts, word) == texts # <<>> /\ word \in texts[1].words

Says(texts, word) == \E i \in DOMAIN texts : word \in texts[i].words

Balance(texts) ==
    \/ Says(texts, "balance")
    \/ \E i, j \in DOMAIN texts : /\ i <= j
                                  /\ "creditserror" \in texts[i].words
                                  /\ "billing" \in texts[j].words

OutOfQuota(texts) == Says(texts, "quota") \/ Balance(texts)

Refused(r) == r.status \in {401, 403} /\ Says(r.texts, "auth")

\* (Mutant: refusals are looked for first.)
KindAuthFirst(r) ==
    CASE Refused(r) -> "auth"
      [] ~Refused(r) /\ OutOfQuota(r.texts) -> "quota"
      [] OTHER -> "none"

\* Classify, its Kind.  The words of a quota are looked for at any status.
Kind(r) ==
    IF OutOfQuota(r.texts) THEN "quota"
    ELSE IF Refused(r) THEN "auth"
    ELSE IF r.status = 429 \/ Says(r.texts, "rate") THEN "rate_limit"
    ELSE IF r.status >= 500 THEN "upstream"
    ELSE IF r.status >= 400 THEN "request"
    ELSE "none"

\* Classify, its Window
Window(texts) ==
    LET week == Says(texts, "week")  month == Says(texts, "month")
    IN  IF Balance(texts) THEN "balance"
        ELSE IF Says(texts, "5h") THEN "5h"
        ELSE IF week /\ month THEN "weekly_or_monthly"
        ELSE IF week THEN "weekly"
        ELSE IF month THEN "monthly"
        ELSE "unknown"

-----------------------------------------------------------------------------
(* parseReset *)

\* The durations from the first phrase to the end of its sentence, which may lie
\* in a later string.
NamedTime(texts) ==
    LET first == CHOOSE i \in DOMAIN texts :
                     texts[i].resets /\ \A j \in 1..(i - 1) : ~texts[j].resets
        ends  == {j \in first..Len(texts) : texts[j].stops} \cup {Len(texts)}
        last  == CHOOSE j \in ends : \A i \in ends : j <= i
    IN  FoldLeft(LAMBDA sum, text : sum + text.time, 0, SubSeq(texts, first, last))

\* (Mutant: a phrase without a duration resets at once.)
ParseResetBug(r) ==
    IF r.retry # NoReset THEN r.retry
    ELSE IF \E i \in DOMAIN r.texts : r.texts[i].resets THEN NamedTime(r.texts)
    ELSE NoReset

ParseReset(r) ==
    IF r.retry # NoReset THEN r.retry
    ELSE IF (\E i \in DOMAIN r.texts : r.texts[i].resets) /\ NamedTime(r.texts) > 0
    THEN NamedTime(r.texts)
    ELSE NoReset

\* recordKeyFailure: how long a key cools, when the probe interval is given (its
\* setting is 60 seconds at least).
CoolingTime(r, interval) ==
    IF ParseReset(r) = NoReset THEN interval ELSE ParseReset(r)

-----------------------------------------------------------------------------
(* What the callers of Classify make of it *)

\* TestKey, its call for the models; HandleModels too, which ignores "network"
ModelsVerdict(r) ==
    CASE r.status = 0                          -> "network"
      [] Success(r)                            -> "ok"
      [] ~Success(r) /\ r.status # 0           -> IF Kind(r) = "auth" THEN "auth" ELSE "nothing"

\* TestKey, its inference
InferenceVerdict(r) ==
    IF r.status = 0 THEN "nothing"
    ELSE IF Kind(r) \in {"quota", "auth"} THEN Kind(r)
    ELSE IF Success(r) THEN "ok" ELSE "nothing"

\* HandleInference, a plain answer
RequestVerdict(r) ==
    IF r.status = 0 THEN "nothing"
    ELSE IF Kind(r) \in {"quota", "auth"} THEN Kind(r)
    ELSE IF r.status < 400 THEN "ok" ELSE "nothing"
=============================================================================
