---------------------------- MODULE AccessProofs ----------------------------
(***************************************************************************)
(* The identity stays the one its users were told of, for any number of    *)
(* handlers, keys, tokens and tickets, whatever fails and whenever the     *)
(* proxy restarts.                                                         *)
(***************************************************************************)
EXTENDS Access, FiniteSetTheorems, TLAPS

\* Once there is a state in memory there is one in the file, with the same master
\* key, which is the cipher's; before that, nobody has used the identity.
OneMaster ==
    /\ memory # None => /\ disk # None
                        /\ disk.master = memory.master
                        /\ cipher = memory.master
                        /\ told \cup sealed \subseteq {memory.master}
    /\ memory = None => /\ cipher = None
                        /\ told = {} /\ sealed = {} /\ minted = {} /\ retired = {}
                        /\ \A h \in Handlers : hpc[h] \in {"idle", "setup"}

\* The secret that a handler works with.
HoldInv ==
    \A h \in Handlers :
        /\ hpc[h] \in {"welcome", "store"} => hold[h].secret = memory.master
        /\ hpc[h] = "hand" => hold[h].secret \in minted

\* Only tokens that were minted are given out, asked back or kept.
TokensMinted ==
    /\ handed \cup asked \cup revoked \subseteq minted
    /\ \A s \in {memory, disk} \ {None} : s.clients \subseteq minted

\* A token about to be handed out works already.
HandWorks ==
    \A t \in TokenIds :
        (t \in handed \/ \E h \in Handlers : hpc[h] = "hand" /\ hold[h].secret = t)
        => t \in asked \/ (t \in memory.clients /\ t \in disk.clients)

\* A ticket that a handler holds or that a token came from is out of the map, and
\* no two of them share one.
TicketInv ==
    /\ \A t \in minted : origin[t] # None => tickets[origin[t]] = "gone"
    /\ \A h \in Handlers : hpc[h] = "issue" /\ hold[h].ticket # None =>
           /\ tickets[hold[h].ticket] = "gone"
           /\ \A t \in minted : origin[t] # hold[h].ticket
           /\ \A g \in Handlers : hpc[g] = "issue" /\ hold[g].ticket = hold[h].ticket
                                  => g = h

AccessInv ==
    /\ AccessTypeOK
    /\ OneMaster
    /\ HoldInv
    /\ TokensMinted
    /\ HandWorks
    /\ TicketInv
    /\ TicketUsedOnce
    /\ WithdrawnStaysWithdrawn

-----------------------------------------------------------------------------
\* A token is added below the limit, so the limit holds afterwards.
LEMMA ClientsWithin ==
    ASSUME AccessTypeOK, memory # None, NEW t \in TokenIds
    PROVE  /\ Cardinality(memory.clients \ {t}) <= TokenLimit
           /\ Cardinality(memory.clients) < TokenLimit
              => Cardinality(memory.clients \cup {t}) <= TokenLimit
<1> DEFINE C == memory.clients
<1>1. memory \in Instance
      BY DEF AccessTypeOK
<1>2. C \in SUBSET TokenIds /\ Cardinality(C) <= TokenLimit
      BY <1>1 DEF AccessTypeOK, Instance
<1>3. IsFiniteSet(C)
      BY <1>2, FS_Subset, IdentityAssumption
<1>4. Cardinality(C) \in Nat /\ Cardinality(C \ {t}) \in Nat
      BY <1>3, FS_CardinalityType, FS_RemoveElement
<1>5. Cardinality(C \ {t}) <= TokenLimit
      <2>1. Cardinality(C \ {t}) = IF t \in C THEN Cardinality(C) - 1 ELSE Cardinality(C)
            BY <1>3, FS_RemoveElement
      <2> HIDE DEF C
      <2> QED BY <2>1, <1>2, <1>4, IdentityAssumption
<1>6. Cardinality(C) < TokenLimit => Cardinality(C \cup {t}) <= TokenLimit
      <2>1. Cardinality(C \cup {t}) = IF t \in C THEN Cardinality(C) ELSE Cardinality(C) + 1
            BY <1>3, FS_AddElement
      <2> HIDE DEF C
      <2> QED BY <2>1, <1>2, <1>4, IdentityAssumption
<1> QED BY <1>5, <1>6

\* The instance the proxy starts with satisfies the invariant.
LEMMA AccessInitInv == ASSUME AccessInit PROVE AccessInv
<1>1. \A m \in Masters, a \in AccessKeys, p \in AccessKeys :
          NewInstance(m, a, p) \in Instance /\ NewInstance(m, a, p).clients = {}
      BY DEF NewInstance, Instance
<1>2. disk \in Instance \cup {None} /\ (disk # None => disk.clients = {})
      BY <1>1 DEF AccessInit, IdentityInit
<1>3. Cardinality({}) = 0
      BY FS_EmptySet
<1>4. AccessTypeOK
      BY <1>2, <1>3, IdentityAssumption
      DEF AccessInit, IdentityInit, AccessTypeOK, NoHold, InMap, Instance
<1>5. OneMaster /\ HoldInv /\ TokensMinted /\ HandWorks /\ TicketInv
      BY <1>2 DEF AccessInit, IdentityInit, OneMaster, HoldInv, TokensMinted, HandWorks, TicketInv
<1>6. TicketUsedOnce /\ WithdrawnStaysWithdrawn
      BY <1>2 DEF AccessInit, IdentityInit, TicketUsedOnce, WithdrawnStaysWithdrawn
<1> QED BY <1>4, <1>5, <1>6 DEF AccessInv

\* A setup finds no identity.
LEMMA SetupCheckInv ==
    ASSUME AccessInv, NEW h \in Handlers, SetupCheck(h)
    PROVE  AccessInv'
<1> USE DEF AccessInv, SetupCheck, identityVars, handlerVars, ghostVars, Goto, Done
<1>1. AccessTypeOK'
      BY DEF AccessTypeOK, InMap
<1>2. OneMaster'
      BY DEF OneMaster, AccessTypeOK
<1>3. HoldInv'
      BY DEF HoldInv, OneMaster, AccessTypeOK
<1>4. TokensMinted'
      BY DEF TokensMinted, HoldInv, AccessTypeOK
<1>5. HandWorks'
      BY DEF HandWorks, OneMaster, TokensMinted, AccessTypeOK
<1>6. TicketInv' /\ TicketUsedOnce'
      BY DEF TicketInv, TicketUsedOnce, OneMaster, AccessTypeOK
<1>7. WithdrawnStaysWithdrawn'
      BY DEF WithdrawnStaysWithdrawn, TokensMinted, AccessTypeOK
<1> QED BY <1>1, <1>2, <1>3, <1>4, <1>5, <1>6, <1>7

\* The recovery key in the answer is the master key of the instance.
LEMMA WelcomeInv ==
    ASSUME AccessInv, NEW h \in Handlers, Welcome(h)
    PROVE  AccessInv'
<1> USE DEF AccessInv, Welcome, identityVars, handlerVars, ghostVars, Goto, Done
<1>1. AccessTypeOK'
      BY DEF AccessTypeOK, OneMaster, HoldInv, Instance
<1>2. OneMaster'
      BY DEF OneMaster, HoldInv, AccessTypeOK
<1>3. HoldInv'
      BY DEF HoldInv, OneMaster, AccessTypeOK
<1>4. TokensMinted'
      BY DEF TokensMinted, HoldInv, AccessTypeOK
<1>5. HandWorks'
      BY DEF HandWorks, OneMaster, TokensMinted, AccessTypeOK
<1>6. TicketInv' /\ TicketUsedOnce'
      BY DEF TicketInv, TicketUsedOnce, OneMaster, AccessTypeOK
<1>7. WithdrawnStaysWithdrawn'
      BY DEF WithdrawnStaysWithdrawn, TokensMinted, AccessTypeOK
<1> QED BY <1>1, <1>2, <1>3, <1>4, <1>5, <1>6, <1>7

\* A ticket is created; the late ones are gone.
LEMMA CreateEnrollmentInv ==
    ASSUME AccessInv, NEW x \in Tickets, CreateEnrollment(x)
    PROVE  AccessInv'
<1> USE DEF AccessInv, CreateEnrollment, identityVars, handlerVars, ghostVars, Goto, Done
<1>1. AccessTypeOK'
      BY DEF AccessTypeOK, InMap
<1>2. OneMaster'
      BY DEF OneMaster, AccessTypeOK
<1>3. HoldInv'
      BY DEF HoldInv, OneMaster, AccessTypeOK
<1>4. TokensMinted'
      BY DEF TokensMinted, HoldInv, AccessTypeOK
<1>5. HandWorks'
      BY DEF HandWorks, OneMaster, TokensMinted, AccessTypeOK
<1>6. TicketInv' /\ TicketUsedOnce'
      BY DEF TicketInv, TicketUsedOnce, OneMaster, AccessTypeOK
<1>7. WithdrawnStaysWithdrawn'
      BY DEF WithdrawnStaysWithdrawn, TokensMinted, AccessTypeOK
<1> QED BY <1>1, <1>2, <1>3, <1>4, <1>5, <1>6, <1>7

\* A ticket expires.
LEMMA TicketExpiresInv ==
    ASSUME AccessInv, NEW x \in Tickets, TicketExpires(x)
    PROVE  AccessInv'
<1> USE DEF AccessInv, TicketExpires, identityVars, handlerVars, ghostVars, Goto, Done
<1>1. AccessTypeOK'
      BY DEF AccessTypeOK, InMap
<1>2. OneMaster'
      BY DEF OneMaster, AccessTypeOK
<1>3. HoldInv'
      BY DEF HoldInv, OneMaster, AccessTypeOK
<1>4. TokensMinted'
      BY DEF TokensMinted, HoldInv, AccessTypeOK
<1>5. HandWorks'
      BY DEF HandWorks, OneMaster, TokensMinted, AccessTypeOK
<1>6. TicketInv' /\ TicketUsedOnce'
      BY DEF TicketInv, TicketUsedOnce, OneMaster, AccessTypeOK
<1>7. WithdrawnStaysWithdrawn'
      BY DEF WithdrawnStaysWithdrawn, TokensMinted, AccessTypeOK
<1> QED BY <1>1, <1>2, <1>3, <1>4, <1>5, <1>6, <1>7

\* A ticket leaves the map, and this handler alone holds it.
LEMMA EnrollInv ==
    ASSUME AccessInv, NEW h \in Handlers, NEW x \in Tickets, Enroll(h, x)
    PROVE  AccessInv'
<1> USE DEF AccessInv, Enroll, Consume, Initialized, InMap, identityVars, handlerVars, ghostVars, Goto, Done
<1>1. AccessTypeOK'
      BY DEF AccessTypeOK, InMap
<1>2. OneMaster'
      BY DEF OneMaster, AccessTypeOK
<1>3. HoldInv'
      BY DEF HoldInv, OneMaster, AccessTypeOK
<1>4. TokensMinted'
      BY DEF TokensMinted, HoldInv, AccessTypeOK
<1>5. HandWorks'
      BY DEF HandWorks, OneMaster, TokensMinted, AccessTypeOK
<1>6. TicketInv' /\ TicketUsedOnce'
      BY DEF TicketInv, TicketUsedOnce, OneMaster, AccessTypeOK
<1>7. WithdrawnStaysWithdrawn'
      BY DEF WithdrawnStaysWithdrawn, TokensMinted, AccessTypeOK
<1> QED BY <1>1, <1>2, <1>3, <1>4, <1>5, <1>6, <1>7

\* An admin asks for a token.
LEMMA CreateTokenInv ==
    ASSUME AccessInv, NEW h \in Handlers, CreateToken(h)
    PROVE  AccessInv'
<1> USE DEF AccessInv, CreateToken, Initialized, identityVars, handlerVars, ghostVars, Goto, Done
<1>1. AccessTypeOK'
      BY DEF AccessTypeOK, InMap
<1>2. OneMaster'
      BY DEF OneMaster, AccessTypeOK
<1>3. HoldInv'
      BY DEF HoldInv, OneMaster, AccessTypeOK
<1>4. TokensMinted'
      BY DEF TokensMinted, HoldInv, AccessTypeOK
<1>5. HandWorks'
      BY DEF HandWorks, OneMaster, TokensMinted, AccessTypeOK
<1>6. TicketInv' /\ TicketUsedOnce'
      BY DEF TicketInv, TicketUsedOnce, OneMaster, AccessTypeOK
<1>7. WithdrawnStaysWithdrawn'
      BY DEF WithdrawnStaysWithdrawn, TokensMinted, AccessTypeOK
<1> QED BY <1>1, <1>2, <1>3, <1>4, <1>5, <1>6, <1>7

\* The token in the answer works already.
LEMMA HandInv ==
    ASSUME AccessInv, NEW h \in Handlers, Hand(h)
    PROVE  AccessInv'
<1> USE DEF AccessInv, Hand, identityVars, handlerVars, ghostVars, Goto, Done
<1>1. AccessTypeOK'
      BY DEF AccessTypeOK, HoldInv, TokensMinted, OneMaster
<1>2. OneMaster'
      BY DEF OneMaster, AccessTypeOK
<1>3. HoldInv'
      BY DEF HoldInv, OneMaster, AccessTypeOK
<1>4. TokensMinted'
      BY DEF TokensMinted, HoldInv, AccessTypeOK
<1>5. HandWorks'
      BY DEF HandWorks, OneMaster, TokensMinted, AccessTypeOK
<1>6. TicketInv' /\ TicketUsedOnce'
      BY DEF TicketInv, TicketUsedOnce, OneMaster, AccessTypeOK
<1>7. WithdrawnStaysWithdrawn'
      BY DEF WithdrawnStaysWithdrawn, TokensMinted, AccessTypeOK
<1> QED BY <1>1, <1>2, <1>3, <1>4, <1>5, <1>6, <1>7

\* A secret is encrypted with the master key of the instance.
LEMMA SealInv ==
    ASSUME AccessInv, NEW h \in Handlers, Seal(h)
    PROVE  AccessInv'
<1> USE DEF AccessInv, Seal, Initialized, identityVars, handlerVars, ghostVars, Goto, Done
<1>1. AccessTypeOK'
      BY DEF AccessTypeOK, InMap
<1>2. OneMaster'
      BY DEF OneMaster, AccessTypeOK
<1>3. HoldInv'
      BY DEF HoldInv, OneMaster, AccessTypeOK
<1>4. TokensMinted'
      BY DEF TokensMinted, HoldInv, AccessTypeOK
<1>5. HandWorks'
      BY DEF HandWorks, OneMaster, TokensMinted, AccessTypeOK
<1>6. TicketInv' /\ TicketUsedOnce'
      BY DEF TicketInv, TicketUsedOnce, OneMaster, AccessTypeOK
<1>7. WithdrawnStaysWithdrawn'
      BY DEF WithdrawnStaysWithdrawn, TokensMinted, AccessTypeOK
<1> QED BY <1>1, <1>2, <1>3, <1>4, <1>5, <1>6, <1>7

\* It is stored while the master key is the same.
LEMMA StoreSealedInv ==
    ASSUME AccessInv, NEW h \in Handlers, StoreSealed(h)
    PROVE  AccessInv'
<1> USE DEF AccessInv, StoreSealed, identityVars, handlerVars, ghostVars, Goto, Done
<1>1. AccessTypeOK'
      BY DEF AccessTypeOK, OneMaster, HoldInv, Instance
<1>2. OneMaster'
      BY DEF OneMaster, HoldInv, AccessTypeOK
<1>3. HoldInv'
      BY DEF HoldInv, OneMaster, AccessTypeOK
<1>4. TokensMinted'
      BY DEF TokensMinted, HoldInv, AccessTypeOK
<1>5. HandWorks'
      BY DEF HandWorks, OneMaster, TokensMinted, AccessTypeOK
<1>6. TicketInv' /\ TicketUsedOnce'
      BY DEF TicketInv, TicketUsedOnce, OneMaster, AccessTypeOK
<1>7. WithdrawnStaysWithdrawn'
      BY DEF WithdrawnStaysWithdrawn, TokensMinted, AccessTypeOK
<1> QED BY <1>1, <1>2, <1>3, <1>4, <1>5, <1>6, <1>7

\* The first state appears in memory and in the file, or only in the file.
LEMMA SetupInv ==
    ASSUME AccessInv, NEW h \in Handlers, NEW m \in Masters, NEW k \in AccessKeys,
           NEW r \in Results, Setup(h, m, k, r)
    PROVE  AccessInv'
<1> USE DEF AccessInv, identityVars, handlerVars, ghostVars, Goto, Done
<1> DEFINE new == NewInstance(m, k, k)
<1>b. /\ new \in Instance /\ new # None
      /\ new.clients = {} /\ new.master = m
      BY IdentityAssumption DEF Instance, NewInstance
<1>c. Cardinality(new.clients) <= TokenLimit
      BY <1>b, FS_EmptySet, IdentityAssumption
<1> HIDE DEF new
<1>d. CASE memory # None /\ Done(h) /\ UNCHANGED identityVars
      <2> USE <1>d DEF Setup
      <2>1. AccessTypeOK'
            BY DEF AccessTypeOK
      <2>2. OneMaster'
            BY DEF OneMaster, AccessTypeOK
      <2>3. HoldInv'
            BY DEF HoldInv, OneMaster, AccessTypeOK
      <2>4. TokensMinted'
            BY DEF TokensMinted, HoldInv, AccessTypeOK
      <2>5. HandWorks'
            BY DEF HandWorks, OneMaster, TokensMinted, AccessTypeOK
      <2>6. TicketInv' /\ TicketUsedOnce'
            BY DEF TicketInv, TicketUsedOnce, OneMaster, AccessTypeOK
      <2>7. WithdrawnStaysWithdrawn'
            BY DEF WithdrawnStaysWithdrawn, TokensMinted, AccessTypeOK
      <2> QED BY <2>1, <2>2, <2>3, <2>4, <2>5, <2>6, <2>7
<1>e. CASE /\ Initialize(m, k, r)
           /\ IF r = "ok" THEN Goto(h, "welcome", None, m) ELSE Done(h)
      <2>a. /\ memory = None
            /\ Persist(new, r)
            /\ cipher' = IF r = "ok" THEN m ELSE None
            /\ UNCHANGED <<tickets, ghostVars>>
            BY <1>e DEF Setup, Initialize, new
      <2>1. AccessTypeOK'
            <3>1. memory' \in {memory, new} /\ disk' \in {disk, new}
                  BY <1>e, <2>a DEF Persist
            <3>2. /\ memory' \in Instance \cup {None} /\ disk' \in Instance \cup {None}
                  /\ \A s \in {memory', disk'} \ {None} : Cardinality(s.clients) <= TokenLimit
                  BY <3>1, <1>b, <1>c, <2>a DEF AccessTypeOK
            <3>3. /\ cipher' \in Masters \cup {None}
                  /\ minted' \in SUBSET TokenIds
                  /\ origin' \in [TokenIds -> Tickets \cup {None}]
                  BY <1>e, <2>a DEF AccessTypeOK
            <3>4. /\ hpc' \in [Handlers -> {"idle", "setup", "welcome", "issue", "hand", "store"}]
                  /\ hold' \in [Handlers -> [ticket : Tickets \cup {None},
                                             secret : Masters \cup TokenIds \cup {None}]]
                  BY <1>e, <2>a DEF AccessTypeOK
            <3> QED BY <3>2, <3>3, <3>4, <2>a DEF AccessTypeOK
      <2>2. OneMaster'
            BY <1>e, <2>a, <1>b DEF OneMaster, AccessTypeOK, Persist
      <2>3. HoldInv'
            BY <1>e, <2>a, <1>b DEF HoldInv, OneMaster, AccessTypeOK, Persist
      <2>4. TokensMinted'
            BY <1>e, <2>a, <1>b DEF TokensMinted, HoldInv, AccessTypeOK, Persist
      <2>5. HandWorks'
            BY <1>e, <2>a, <1>b DEF HandWorks, OneMaster, HoldInv, TokensMinted, AccessTypeOK, Persist
      <2>6. TicketInv' /\ TicketUsedOnce'
            BY <1>e, <2>a, <1>b DEF TicketInv, TicketUsedOnce, OneMaster, AccessTypeOK
      <2>7. WithdrawnStaysWithdrawn'
            <3>1. revoked = {} /\ retired = {}
                  BY <2>a DEF OneMaster, TokensMinted
            <3> QED BY <3>1, <2>a DEF WithdrawnStaysWithdrawn
      <2> QED BY <2>1, <2>2, <2>3, <2>4, <2>5, <2>6, <2>7
<1> QED BY <1>d, <1>e DEF Setup

\* A fresh token is added, or the limit is reached.
LEMMA IssueInv ==
    ASSUME AccessInv, NEW h \in Handlers, NEW t \in TokenIds, NEW r \in Results,
           Issue(h, t, r)
    PROVE  AccessInv'
<1> USE DEF AccessInv, identityVars, handlerVars, ghostVars, Goto, Done
<1> DEFINE new == [memory EXCEPT !.clients = @ \cup {t}]
<1>a. memory \in Instance /\ memory # None
      BY IdentityAssumption DEF AccessTypeOK, OneMaster, Issue
<1>b. /\ new \in Instance /\ new # None
      /\ new.clients = memory.clients \cup {t}
      /\ new.master = memory.master
      /\ new.admin = memory.admin /\ new.proxy = memory.proxy
      BY <1>a, IdentityAssumption DEF Instance
<1> HIDE DEF new
<1>d. CASE Done(h) /\ UNCHANGED <<identityVars, minted, origin>>
      <2> USE <1>d DEF Issue
      <2>1. AccessTypeOK'
            BY DEF AccessTypeOK
      <2>2. OneMaster'
            BY DEF OneMaster, AccessTypeOK
      <2>3. HoldInv'
            BY DEF HoldInv, OneMaster, AccessTypeOK
      <2>4. TokensMinted'
            BY DEF TokensMinted, HoldInv, AccessTypeOK
      <2>5. HandWorks'
            BY DEF HandWorks, OneMaster, TokensMinted, AccessTypeOK
      <2>6. TicketInv' /\ TicketUsedOnce'
            BY DEF TicketInv, TicketUsedOnce, OneMaster, AccessTypeOK
      <2>7. WithdrawnStaysWithdrawn'
            BY DEF WithdrawnStaysWithdrawn, TokensMinted, AccessTypeOK
      <2> QED BY <2>1, <2>2, <2>3, <2>4, <2>5, <2>6, <2>7
<1>e. CASE /\ t \notin minted /\ IssueClientToken(t, r)
           /\ minted' = minted \cup {t}
           /\ origin' = [origin EXCEPT ![t] = hold[h].ticket]
           /\ IF r = "ok" THEN Goto(h, "hand", None, t) ELSE Done(h)
      <2>a. /\ Persist(new, r)
            /\ UNCHANGED <<cipher, tickets, told, handed, asked, revoked, retired, sealed>>
            /\ hpc[h] = "issue"
            BY <1>e DEF Issue, IssueClientToken, new
      <2>c. Cardinality(new.clients) <= TokenLimit
            BY <1>e, <1>a, <1>b, ClientsWithin DEF IssueClientToken
      <2>1. AccessTypeOK'
            <3>1. memory' \in {memory, new} /\ disk' \in {disk, new}
                  BY <1>e, <2>a DEF Persist
            <3>2. /\ memory' \in Instance \cup {None} /\ disk' \in Instance \cup {None}
                  /\ \A s \in {memory', disk'} \ {None} : Cardinality(s.clients) <= TokenLimit
                  BY <3>1, <1>b, <2>c, <1>a DEF AccessTypeOK
            <3>3. /\ cipher' \in Masters \cup {None}
                  /\ minted' \in SUBSET TokenIds
                  /\ origin' \in [TokenIds -> Tickets \cup {None}]
                  BY <1>e, <2>a DEF AccessTypeOK
            <3>4. /\ hpc' \in [Handlers -> {"idle", "setup", "welcome", "issue", "hand", "store"}]
                  /\ hold' \in [Handlers -> [ticket : Tickets \cup {None},
                                             secret : Masters \cup TokenIds \cup {None}]]
                  <4>1. CASE r = "ok"
                        BY <4>1, <1>e, <2>a DEF AccessTypeOK
                  <4>2. CASE r # "ok"
                        BY <4>2, <1>e, <2>a DEF AccessTypeOK
                  <4> QED BY <4>1, <4>2
            <3> QED BY <3>2, <3>3, <3>4, <2>a DEF AccessTypeOK
      <2>2. OneMaster'
            BY <1>e, <2>a, <1>a, <1>b DEF OneMaster, AccessTypeOK, Persist
      <2>3. HoldInv'
            BY <1>e, <2>a, <1>a, <1>b DEF HoldInv, OneMaster, AccessTypeOK, Persist
      <2>4. TokensMinted'
            BY <1>e, <2>a, <1>a, <1>b DEF TokensMinted, HoldInv, AccessTypeOK, Persist
      <2>5. HandWorks'
            BY <1>e, <2>a, <1>a, <1>b DEF HandWorks, OneMaster, HoldInv, TokensMinted, AccessTypeOK, Persist
      <2>6. TicketInv' /\ TicketUsedOnce'
            BY <1>e, <2>a, <1>a, <1>b DEF TicketInv, TicketUsedOnce, OneMaster, AccessTypeOK
      <2>7. WithdrawnStaysWithdrawn'
            BY <1>e, <2>a, <1>a, <1>b DEF WithdrawnStaysWithdrawn, OneMaster, TokensMinted, AccessTypeOK, Persist
      <2> QED BY <2>1, <2>2, <2>3, <2>4, <2>5, <2>6, <2>7
<1> QED BY <1>d, <1>e DEF Issue

\* The whole state is written again.
LEMMA RenameInv ==
    ASSUME AccessInv, NEW t \in TokenIds, NEW r \in Results, Rename(t, r)
    PROVE  AccessInv'
<1> USE DEF AccessInv, Rename, RenameClientToken, Persist, Initialized, identityVars, handlerVars, ghostVars, Goto, Done
<1>1. AccessTypeOK'
      BY DEF AccessTypeOK, InMap
<1>2. OneMaster'
      BY DEF OneMaster, AccessTypeOK
<1>3. HoldInv'
      BY DEF HoldInv, OneMaster, AccessTypeOK
<1>4. TokensMinted'
      BY DEF TokensMinted, HoldInv, AccessTypeOK
<1>5. HandWorks'
      BY DEF HandWorks, OneMaster, TokensMinted, AccessTypeOK
<1>6. TicketInv' /\ TicketUsedOnce'
      BY DEF TicketInv, TicketUsedOnce, OneMaster, AccessTypeOK
<1>7. WithdrawnStaysWithdrawn'
      BY DEF WithdrawnStaysWithdrawn, TokensMinted, AccessTypeOK
<1> QED BY <1>1, <1>2, <1>3, <1>4, <1>5, <1>6, <1>7

\* A token is removed, or stays where the write failed.
LEMMA RevokeInv ==
    ASSUME AccessInv, NEW t \in TokenIds, NEW r \in Results, Revoke(t, r)
    PROVE  AccessInv'
<1> DEFINE new == [memory EXCEPT !.clients = @ \ {t}]
<1>1. /\ memory \in Instance /\ memory # None
      /\ disk \in Instance /\ disk # None
      BY IdentityAssumption DEF AccessInv, AccessTypeOK, OneMaster, Revoke, Initialized
<1>2. /\ new \in Instance /\ new # None
      /\ new.clients = memory.clients \ {t}
      /\ new.master = memory.master
      /\ new.admin = memory.admin /\ new.proxy = memory.proxy
      BY <1>1, IdentityAssumption DEF Instance
<1>3. Cardinality(new.clients) <= TokenLimit
      BY <1>1, <1>2, ClientsWithin DEF AccessInv
<1>4. /\ t \in memory.clients
      /\ memory' = IF r = "ok" THEN new ELSE memory
      /\ disk' = IF r = "failed" THEN disk ELSE new
      /\ asked' = IF r = "failed" THEN asked ELSE asked \cup {t}
      /\ revoked' = IF r = "ok" THEN revoked \cup {t} ELSE revoked
      BY DEF Revoke, RevokeClientToken, Persist
<1>5. UNCHANGED <<cipher, tickets, hpc, hold, minted, origin, told, handed, retired, sealed>>
      BY DEF Revoke, RevokeClientToken, handlerVars
<1> HIDE DEF new
<1>6. t \in minted
      BY <1>1, <1>4 DEF AccessInv, TokensMinted
<1>7. /\ memory' \in {memory, new} /\ disk' \in {disk, new}
      /\ asked' \subseteq asked \cup {t} /\ revoked' \subseteq revoked \cup {t}
      BY <1>4
<1>8. AccessTypeOK'
      <2>1. /\ memory' \in Instance \cup {None} /\ disk' \in Instance \cup {None}
            /\ \A s \in {memory', disk'} \ {None} : Cardinality(s.clients) <= TokenLimit
            BY <1>1, <1>2, <1>3, <1>7 DEF AccessInv, AccessTypeOK
      <2>2. asked' \in SUBSET TokenIds /\ revoked' \in SUBSET TokenIds
            BY <1>7 DEF AccessInv, AccessTypeOK
      <2> QED BY <2>1, <2>2, <1>5 DEF AccessInv, AccessTypeOK
<1>9. OneMaster'
      BY <1>1, <1>2, <1>5, <1>7 DEF AccessInv, OneMaster
<1>10. HoldInv'
      BY <1>2, <1>5, <1>7 DEF AccessInv, HoldInv
<1>11. TokensMinted'
      <2>1. (handed \cup asked \cup revoked)' \subseteq minted'
            BY <1>5, <1>6, <1>7 DEF AccessInv, TokensMinted
      <2>2. memory.clients \subseteq minted /\ disk.clients \subseteq minted
            BY <1>1 DEF AccessInv, TokensMinted
      <2>3. memory'.clients \subseteq minted /\ disk'.clients \subseteq minted
            BY <2>2, <1>2, <1>7
      <2> QED BY <2>1, <2>3, <1>5 DEF TokensMinted
<1>12. HandWorks'
      <2>1. CASE r = "failed"
            BY <2>1, <1>4, <1>5 DEF AccessInv, HandWorks
      <2>2. CASE r # "failed"
            BY <2>2, <1>2, <1>4, <1>5 DEF AccessInv, HandWorks
      <2> QED BY <2>1, <2>2
<1>13. TicketInv' /\ TicketUsedOnce'
      BY <1>5 DEF AccessInv, TicketInv, TicketUsedOnce
<1>14. WithdrawnStaysWithdrawn'
      <2>1. CASE r = "ok"
            BY <2>1, <1>1, <1>2, <1>4, <1>5 DEF AccessInv, WithdrawnStaysWithdrawn
      <2>2. CASE r # "ok"
            BY <2>2, <1>1, <1>2, <1>4, <1>5 DEF AccessInv, WithdrawnStaysWithdrawn
      <2> QED BY <2>1, <2>2
<1> QED BY <1>8, <1>9, <1>10, <1>11, <1>12, <1>13, <1>14 DEF AccessInv

\* The access key changes and the clients stay.
LEMMA ChangeAccessKeyInv ==
    ASSUME AccessInv, NEW k \in AccessKeys, NEW r \in Results, ChangeAccessKey(k, r)
    PROVE  AccessInv'
<1> DEFINE new == [memory EXCEPT !.admin = k, !.proxy = k]
<1>1. /\ memory \in Instance /\ memory # None
      /\ disk \in Instance /\ disk # None
      BY IdentityAssumption DEF AccessInv, AccessTypeOK, OneMaster, ChangeAccessKey, Initialized
<1>2. /\ new \in Instance /\ new # None
      /\ new.clients = memory.clients /\ new.master = memory.master
      /\ new.admin = k /\ new.proxy = k
      BY <1>1, IdentityAssumption DEF Instance
<1>3. /\ memory' = IF r = "ok" THEN new ELSE memory
      /\ disk' = IF r = "failed" THEN disk ELSE new
      /\ retired' = (IF r = "ok" THEN retired \cup {memory.admin, memory.proxy} ELSE retired)
                    \ (IF r = "failed" THEN {} ELSE {k})
      BY DEF ChangeAccessKey, RotateAccessKey, Persist
<1>4. UNCHANGED <<cipher, tickets, hpc, hold, minted, origin, told, handed, asked, revoked,
                  sealed>>
      BY DEF ChangeAccessKey, RotateAccessKey, handlerVars
<1> HIDE DEF new
<1>5. memory' \in {memory, new} /\ disk' \in {disk, new}
      BY <1>3
<1>6. AccessTypeOK'
      <2>1. /\ memory' \in Instance \cup {None} /\ disk' \in Instance \cup {None}
            /\ \A s \in {memory', disk'} \ {None} : Cardinality(s.clients) <= TokenLimit
            BY <1>1, <1>2, <1>5 DEF AccessInv, AccessTypeOK
      <2>2. retired' \in SUBSET AccessKeys
            BY <1>1, <1>3 DEF AccessInv, AccessTypeOK, Instance
      <2> QED BY <2>1, <2>2, <1>4 DEF AccessInv, AccessTypeOK
<1>7. OneMaster'
      BY <1>1, <1>2, <1>4, <1>5 DEF AccessInv, OneMaster
<1>8. HoldInv'
      BY <1>2, <1>4, <1>5 DEF AccessInv, HoldInv
<1>9. TokensMinted'
      <2>1. memory.clients \subseteq minted /\ disk.clients \subseteq minted
            BY <1>1 DEF AccessInv, TokensMinted
      <2>2. memory'.clients \subseteq minted /\ disk'.clients \subseteq minted
            BY <2>1, <1>2, <1>5
      <2> QED BY <2>2, <1>4 DEF AccessInv, TokensMinted
<1>10. HandWorks'
      <2>1. CASE r = "failed"
            BY <2>1, <1>3, <1>4 DEF AccessInv, HandWorks
      <2>2. CASE r # "failed"
            BY <2>2, <1>2, <1>3, <1>4 DEF AccessInv, HandWorks
      <2> QED BY <2>1, <2>2
<1>11. TicketInv' /\ TicketUsedOnce'
      BY <1>4 DEF AccessInv, TicketInv, TicketUsedOnce
<1>12. WithdrawnStaysWithdrawn'
      <2>1. CASE r = "ok"
            BY <2>1, <1>1, <1>2, <1>3, <1>4 DEF AccessInv, WithdrawnStaysWithdrawn
      <2>2. CASE r = "failed"
            BY <2>2, <1>1, <1>2, <1>3, <1>4 DEF AccessInv, WithdrawnStaysWithdrawn
      <2>3. CASE r \notin {"ok", "failed"}
            BY <2>3, <1>1, <1>2, <1>3, <1>4 DEF AccessInv, WithdrawnStaysWithdrawn
      <2> QED BY <2>1, <2>2, <2>3
<1> QED BY <1>6, <1>7, <1>8, <1>9, <1>10, <1>11, <1>12 DEF AccessInv

\* A restart trusts the file, which has all that matters.
LEMMA RestartInv ==
    ASSUME AccessInv, Restart
    PROVE  AccessInv'
<1> USE DEF AccessInv, Restart, Reopen, NoHold, identityVars, handlerVars, ghostVars, Goto, Done
<1>1. AccessTypeOK'
      BY DEF AccessTypeOK, Instance
<1>2. OneMaster'
      BY DEF OneMaster, AccessTypeOK
<1>3. HoldInv'
      BY DEF HoldInv, OneMaster, AccessTypeOK
<1>4. TokensMinted'
      BY DEF TokensMinted, HoldInv, AccessTypeOK
<1>5. HandWorks'
      BY DEF HandWorks, OneMaster, TokensMinted, AccessTypeOK
<1>6. TicketInv' /\ TicketUsedOnce'
      BY DEF TicketInv, TicketUsedOnce, OneMaster, AccessTypeOK
<1>7. WithdrawnStaysWithdrawn'
      BY DEF WithdrawnStaysWithdrawn, TokensMinted, AccessTypeOK
<1> QED BY <1>1, <1>2, <1>3, <1>4, <1>5, <1>6, <1>7

\* Every step keeps the invariant.
LEMMA AccessStepInv == ASSUME AccessInv, [AccessNext]_accessVars PROVE AccessInv'
<1>1. ASSUME NEW h \in Handlers, HandlerStep(h) PROVE AccessInv'
      BY <1>1, SetupCheckInv, WelcomeInv, CreateTokenInv, HandInv, SealInv, StoreSealedInv,
         SetupInv, EnrollInv, IssueInv DEF HandlerStep
<1>2. CASE \E x \in Tickets : CreateEnrollment(x) \/ TicketExpires(x)
      BY <1>2, CreateEnrollmentInv, TicketExpiresInv
<1>3. CASE \E t \in TokenIds, r \in Results : Rename(t, r) \/ Revoke(t, r)
      BY <1>3, RenameInv, RevokeInv
<1>4. CASE \E k \in AccessKeys, r \in Results : ChangeAccessKey(k, r)
      BY <1>4, ChangeAccessKeyInv
<1>5. CASE Restart
      BY <1>5, RestartInv
<1>6. CASE UNCHANGED accessVars
      BY <1>6 DEF accessVars, identityVars, handlerVars, ghostVars, AccessInv, AccessTypeOK,
         OneMaster, HoldInv, TokensMinted, HandWorks, TicketInv, TicketUsedOnce,
         WithdrawnStaysWithdrawn
<1> QED BY <1>1, <1>2, <1>3, <1>4, <1>5, <1>6 DEF AccessNext

-----------------------------------------------------------------------------
\* The inductive invariant of the handlers that use the identity.
THEOREM AccessInvariant == AccessSpec => []AccessInv
BY AccessInitInv, AccessStepInv, PTL DEF AccessSpec

\* The types, and the limit of client tokens in memory and in the file.
THEOREM AccessTypeCorrect == AccessSpec => []AccessTypeOK
<1>1. AccessInv => AccessTypeOK
      BY DEF AccessInv
<1> QED BY AccessInvariant, <1>1, PTL

\* The recovery key that a setup answered with is the instance's for good.
THEOREM RecoveryKeyHolds == AccessSpec => []RecoveryKeyIsRight
<1>1. AccessInv => RecoveryKeyIsRight
      BY DEF AccessInv, OneMaster, RecoveryKeyIsRight
<1> QED BY AccessInvariant, <1>1, PTL

\* What was encrypted can be decrypted, now and after a restart.
THEOREM SecretsStayReadable == AccessSpec => []KeysStayDecryptable
<1>1. AccessInv => KeysStayDecryptable
      BY DEF AccessInv, OneMaster, KeysStayDecryptable
<1> QED BY AccessInvariant, <1>1, PTL

\* A client keeps its token until somebody revokes it.
THEOREM TokensKeepWorking == AccessSpec => []IssuedTokensWork
<1>1. AccessInv => IssuedTokensWork
      BY DEF AccessInv, AccessTypeOK, OneMaster, TokensMinted, HandWorks, IssuedTokensWork
<1> QED BY AccessInvariant, <1>1, PTL

\* A ticket yields one token at most.
THEOREM OneTokenPerTicket == AccessSpec => []TicketUsedOnce
<1>1. AccessInv => TicketUsedOnce
      BY DEF AccessInv
<1> QED BY AccessInvariant, <1>1, PTL

\* A withdrawn token or access key does not come back.
THEOREM WithdrawalIsFinal == AccessSpec => []WithdrawnStaysWithdrawn
<1>1. AccessInv => WithdrawnStaysWithdrawn
      BY DEF AccessInv
<1> QED BY AccessInvariant, <1>1, PTL
=============================================================================
