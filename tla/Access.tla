------------------------------- MODULE Access -------------------------------
(***************************************************************************)
(* The handlers of internal/httpapi that use the identity: the setup, the  *)
(* enrollment of clients by one-time tickets (client_setup.go), the admin  *)
(* handlers of client tokens and of the access key, and the encryption of  *)
(* an upstream key before it is stored.                                    *)
(*                                                                         *)
(* A handler takes several steps, each under a lock of its own: one that   *)
(* checked or consumed something may find that the world has moved on, and *)
(* a crash may come between its step and its answer.                       *)
(***************************************************************************)
EXTENDS Identity

CONSTANTS Handlers,  \* requests served at the same time
          Tickets    \* enrollment tickets (bound: how many are ever created)

ASSUME AccessAssumption == None \notin Tickets

VARIABLES
    tickets,  \* enrollmentStore.tickets, with what became of the other ones
    hpc,      \* next step of each handler
    hold,     \* the ticket it consumed and the secret it works with
    minted,   \* tokens drawn so far (they are random, hence new)
    origin,   \* the ticket each of them was issued for
    told,     \* recovery keys that a setup has answered with
    handed,   \* tokens that a client was given
    asked,    \* tokens whose revocation reached the file
    revoked,  \* tokens whose revocation was confirmed
    retired,  \* access keys that a confirmed rotation has replaced
    sealed    \* the master keys that encrypted the stored upstream keys

handlerVars == <<tickets, hpc, hold>>
ghostVars   == <<minted, origin, told, handed, asked, revoked, retired, sealed>>
accessVars  == <<identityVars, handlerVars, ghostVars>>

NoHold  == [ticket |-> None, secret |-> None]
InMap   == {"fresh", "late"}     \* late: past expiresAt, still in the map

AccessTypeOK ==
    /\ memory \in Instance \cup {None}
    /\ disk \in Instance \cup {None}
    /\ cipher \in Masters \cup {None}
    /\ \A s \in {memory, disk} \ {None} : Cardinality(s.clients) <= TokenLimit
    /\ tickets \in [Tickets -> {"unissued", "gone"} \cup InMap]
    /\ hpc \in [Handlers -> {"idle", "setup", "welcome", "issue", "hand", "store"}]
    /\ hold \in [Handlers -> [ticket : Tickets \cup {None},
                              secret : Masters \cup TokenIds \cup {None}]]
    /\ minted \in SUBSET TokenIds
    /\ origin \in [TokenIds -> Tickets \cup {None}]
    /\ told \in SUBSET Masters
    /\ handed \in SUBSET TokenIds
    /\ asked \in SUBSET TokenIds
    /\ revoked \in SUBSET TokenIds
    /\ retired \in SUBSET AccessKeys
    /\ sealed \in SUBSET Masters

AccessInit ==
    /\ IdentityInit
    /\ tickets = [x \in Tickets |-> "unissued"]
    /\ hpc     = [h \in Handlers |-> "idle"]
    /\ hold    = [h \in Handlers |-> NoHold]
    /\ minted  = {}
    /\ origin  = [t \in TokenIds |-> None]
    /\ told    = {}
    /\ handed  = {}
    /\ asked   = {}
    /\ revoked = {}
    /\ retired = {}
    /\ sealed  = {}

Goto(h, step, ticket, secret) ==
    /\ hpc'  = [hpc  EXCEPT ![h] = step]
    /\ hold' = [hold EXCEPT ![h] = [ticket |-> ticket, secret |-> secret]]

Done(h) == Goto(h, "idle", None, None)

-----------------------------------------------------------------------------
(* setupInitialize *)

SetupCheck(h) ==
    /\ hpc[h] = "idle"
    /\ ~Initialized
    /\ Goto(h, "setup", None, None)
    /\ UNCHANGED <<identityVars, tickets, ghostVars>>

\* Initialize looks again, under its lock (ErrAlreadyInitialized).
Setup(h, m, k, result) ==
    /\ hpc[h] = "setup"
    /\ \/ /\ Initialize(m, k, result)
          /\ IF result = "ok" THEN Goto(h, "welcome", None, m) ELSE Done(h)
       \/ /\ memory # None
          /\ Done(h)
          /\ UNCHANGED identityVars
    /\ UNCHANGED <<tickets, ghostVars>>

\* The answer shows the operator the recovery key, once.
Welcome(h) ==
    /\ hpc[h] = "welcome"
    /\ told' = told \cup {hold[h].secret}
    /\ Done(h)
    /\ UNCHANGED <<identityVars, tickets, minted, origin, handed, asked,
                   revoked, retired, sealed>>

-----------------------------------------------------------------------------
(* Enrollment and client tokens.  Admin handlers ask for Initialized first. *)

\* createClientEnrollment: a new ticket, after the late ones are swept away.
CreateEnrollment(x) ==
    /\ Initialized
    /\ tickets[x] = "unissued"
    /\ tickets' = [y \in Tickets |-> IF y = x THEN "fresh"
                                     ELSE IF tickets[y] = "late" THEN "gone"
                                     ELSE tickets[y]]
    /\ UNCHANGED <<identityVars, hpc, hold, ghostVars>>

TicketExpires(x) ==
    /\ tickets[x] = "fresh"
    /\ tickets' = [tickets EXCEPT ![x] = "late"]
    /\ UNCHANGED <<identityVars, hpc, hold, ghostVars>>

\* (Mutant: the ticket stays in the map.)
ConsumeBug(x) == tickets[x] \in InMap /\ UNCHANGED tickets

\* consume: the ticket leaves the map, late or not.
Consume(x) == /\ tickets[x] \in InMap
              /\ tickets' = [tickets EXCEPT ![x] = "gone"]

\* clientEnroll up to the issue of the token
Enroll(h, x) ==
    /\ hpc[h] = "idle"
    /\ Initialized
    /\ Consume(x)
    /\ IF tickets[x] = "fresh" THEN Goto(h, "issue", x, None) ELSE Done(h)
    /\ UNCHANGED <<identityVars, ghostVars>>

\* createClientToken
CreateToken(h) ==
    /\ hpc[h] = "idle"
    /\ Initialized
    /\ Goto(h, "issue", None, None)
    /\ UNCHANGED <<identityVars, tickets, ghostVars>>

\* IssueClientToken for an enrollment or an admin, or its error at the limit.
Issue(h, t, result) ==
    /\ hpc[h] = "issue"
    /\ \/ /\ t \notin minted
          /\ IssueClientToken(t, result)
          /\ minted' = minted \cup {t}
          /\ origin' = [origin EXCEPT ![t] = hold[h].ticket]
          /\ IF result = "ok" THEN Goto(h, "hand", None, t) ELSE Done(h)
       \/ /\ Cardinality(memory.clients) >= TokenLimit
          /\ Done(h)
          /\ UNCHANGED <<identityVars, minted, origin>>
    /\ UNCHANGED <<tickets, told, handed, asked, revoked, retired, sealed>>

\* The answer is the only place where the token appears in clear.
Hand(h) ==
    /\ hpc[h] = "hand"
    /\ handed' = handed \cup {hold[h].secret}
    /\ Done(h)
    /\ UNCHANGED <<identityVars, tickets, minted, origin, told, asked, revoked,
                   retired, sealed>>

\* renameClientToken (its usage rows, renamed by a second statement, are left out)
Rename(t, result) ==
    /\ Initialized
    /\ RenameClientToken(t, result)
    /\ UNCHANGED <<handlerVars, ghostVars>>

\* revokeClientToken
Revoke(t, result) ==
    /\ Initialized
    /\ RevokeClientToken(t, result)
    /\ asked'   = IF result = "failed" THEN asked ELSE asked \cup {t}
    /\ revoked' = IF result = "ok" THEN revoked \cup {t} ELSE revoked
    /\ UNCHANGED <<handlerVars, minted, origin, told, handed, retired, sealed>>

-----------------------------------------------------------------------------
\* changeAccessKey: an operator may choose a key that was used before.
ChangeAccessKey(k, result) ==
    /\ Initialized
    /\ RotateAccessKey(k, result)
    /\ retired' = (IF result = "ok" THEN retired \cup {memory.admin, memory.proxy}
                   ELSE retired) \ (IF result = "failed" THEN {} ELSE {k})
    /\ UNCHANGED <<handlerVars, minted, origin, told, handed, asked, revoked, sealed>>

\* persistKey encrypts under the lock of Manager and stores afterwards.
Seal(h) ==
    /\ hpc[h] = "idle"
    /\ Initialized
    /\ Goto(h, "store", None, cipher)
    /\ UNCHANGED <<identityVars, tickets, ghostVars>>

StoreSealed(h) ==
    /\ hpc[h] = "store"
    /\ sealed' = sealed \cup {hold[h].secret}
    /\ Done(h)
    /\ UNCHANGED <<identityVars, tickets, minted, origin, told, handed, asked,
                   revoked, retired>>

\* A crash ends the handlers and loses the tickets.
Restart ==
    /\ Reopen
    /\ hpc'  = [h \in Handlers |-> "idle"]
    /\ hold' = [h \in Handlers |-> NoHold]
    /\ tickets' = [x \in Tickets |-> IF tickets[x] = "unissued" THEN "unissued"
                                     ELSE "gone"]
    /\ UNCHANGED ghostVars

HandlerStep(h) ==
    \/ SetupCheck(h) \/ Welcome(h) \/ CreateToken(h) \/ Hand(h) \/ Seal(h) \/ StoreSealed(h)
    \/ \E m \in Masters, k \in AccessKeys, r \in Results : Setup(h, m, k, r)
    \/ \E x \in Tickets : Enroll(h, x)
    \/ \E t \in TokenIds, r \in Results : Issue(h, t, r)

AccessNext ==
    \/ \E h \in Handlers : HandlerStep(h)
    \/ \E x \in Tickets : CreateEnrollment(x) \/ TicketExpires(x)
    \/ \E t \in TokenIds, r \in Results : Rename(t, r) \/ Revoke(t, r)
    \/ \E k \in AccessKeys, r \in Results : ChangeAccessKey(k, r)
    \/ Restart

AccessSpec == AccessInit /\ [][AccessNext]_accessVars

-----------------------------------------------------------------------------
\* Two setups that race, failing writes and crashes never leave an operator with
\* a recovery key that is not the instance's (README.md:28; setupInitialize leaves
\* the authoritative check to Manager.Initialize).
RecoveryKeyIsRight ==
    \A m \in told : /\ memory # None /\ memory.master = m
                    /\ disk # None /\ disk.master = m

\* Every stored upstream key can be decrypted, now and after a restart: the
\* master key that encrypted it, maybe some steps before it was stored, is still
\* the one of the cipher and of the file.
KeysStayDecryptable ==
    \A m \in sealed : cipher = m /\ disk # None /\ disk.master = m

\* A token that a client was given works until its revocation is attempted, and
\* a restart does not take it away, whatever becomes of the other tokens and of
\* the access key meanwhile (README.md:36).
IssuedTokensWork ==
    \A t \in handed \ asked : /\ memory # None /\ t \in memory.clients
                              /\ disk # None /\ t \in disk.clients

\* A ticket yields one token at most, however many clients present it at the
\* same time (README.md:83).
TicketUsedOnce ==
    \A t, u \in minted : origin[t] = origin[u] /\ origin[t] # None => t = u

\* What was withdrawn with success, a token or an access key, does not come back
\* when a later write fails half-way or the proxy restarts from the file.
WithdrawnStaysWithdrawn ==
    \A s \in {memory, disk} \ {None} :
        /\ s.clients \cap revoked = {}
        /\ {s.admin, s.proxy} \cap retired = {}
=============================================================================
