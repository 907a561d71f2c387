----------------------------- MODULE Algorithms -----------------------------
(***************************************************************************)
(* The program's pure functions over the inputs they may get: an answer of *)
(* the upstream for the classifier, the events of a stream for the         *)
(* accumulator, and an environment for the configuration.                  *)
(***************************************************************************)
EXTENDS Stream, Config

CONSTANTS
    Replies,  \* the answers
    Interval  \* the probe interval, which a key cools for if no time is named

ASSUME AlgorithmsAssumption ==
    /\ Replies \subseteq Reply
    /\ Interval \in Nat \ {0}

VARIABLES
    reply,  \* the answer that is classified
    env     \* the environment the process starts in

algorithmVars == <<streamVars, reply, env>>

NoReply == [status |-> 0, retry |-> NoReset, texts |-> <<>>]
Bare    == [access |-> Unset, admin |-> Unset, token |-> Unset, master |-> Unset,
            custom |-> FALSE, allowed |-> FALSE]

\* They share no state, so one input at a time varies.
AlgorithmsInit ==
    /\ StreamInit
    /\ \/ reply \in Replies /\ env = Bare
       \/ reply = NoReply /\ env \in Environment

AlgorithmsNext == /\ reply = NoReply /\ env = Bare
                  /\ StreamNext
                  /\ UNCHANGED <<reply, env>>

AlgorithmsSpec == AlgorithmsInit /\ [][AlgorithmsNext]_algorithmVars

-----------------------------------------------------------------------------
Reordered(r, p) == [r EXCEPT !.texts = [i \in DOMAIN r.texts |-> r.texts[p[i]]]]

Orders(r) == {p \in [DOMAIN r.texts -> DOMAIN r.texts] :
                 \A j \in DOMAIN r.texts : \E i \in DOMAIN r.texts : p[i] = j}

\* The one pattern that spans strings: its ends lie in two of them.
BillingIsSplit(r) ==
    /\ Says(r.texts, "creditserror") /\ Says(r.texts, "billing")
    /\ ~Says(r.texts, "balance")
    /\ \A i \in DOMAIN r.texts : ~({"creditserror", "billing"} \subseteq r.texts[i].words)

\* What an answer says of its key does not depend on the order in which the members
\* of a JSON object are visited, which Go leaves to chance (classifier.go:106), unless
\* a credits error and the word billing come in different members.
KindIgnoresOrder ==
    ~BillingIsSplit(reply) =>
        \A p \in Orders(reply) : /\ Kind(Reordered(reply, p)) = Kind(reply)
                                 /\ Window(Reordered(reply, p).texts) = Window(reply.texts)

\* An exhausted key cools for some time in whichever order its answer is read,
\* unless Retry-After itself asks for none: no phrase of reset, and none whose
\* durations another order cuts off, brings the key back at once
\* (classifier.go:126-129, service.go:424-432).
NeverCoolsForNothing ==
    Kind(reply) = "quota" /\ reply.retry = NoReset =>
        \A p \in Orders(reply) : CoolingTime(Reordered(reply, p), Interval) > 0

\* Only an answer that refuses the call can cost a key its validity; a success never
\* does, whatever a model has written in it (classifier.go:63), and no answer does
\* in which a quota is spoken of (classifier_test.go:20).
OnlyRefusalsInvalidate ==
    "auth" \in {ModelsVerdict(reply), InferenceVerdict(reply), RequestVerdict(reply)} =>
        ~Success(reply) /\ ~OutOfQuota(reply.texts)

\* An environment that Load accepts makes Open either wait for the setup or create
\* an identity, never fail half-way; with ACCESS_KEY the console and the proxy then
\* have one and the same credential (config.go:45-74, manager.go:94-115).
AcceptedMeansBootable ==
    Load(env) # Rejected =>
        /\ Bootstrap(Load(env)) # Rejected
        /\ env.access # Unset => /\ Bootstrap(Load(env)) # Unset
                                 /\ Bootstrap(Load(env)).unified
=============================================================================
