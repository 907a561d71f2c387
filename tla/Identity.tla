------------------------------ MODULE Identity ------------------------------
(***************************************************************************)
(* The identity of an instance (internal/identity/manager.go): the master  *)
(* key that encrypts upstream keys, the access key and the client tokens,  *)
(* in memory and in a file.  Each method of Manager holds its lock all     *)
(* along, so it is one operator; only persistLocked can go wrong.          *)
(*                                                                         *)
(* Secrets and their hashes are the same value here: a hash is kept to     *)
(* recognise its secret.  A client token stands for its id too.  Names and *)
(* times are left out.  unified_access is set exactly where admin and      *)
(* proxy get the same key.                                                 *)
(***************************************************************************)
EXTENDS Naturals, FiniteSets

CONSTANTS
    AccessKeys,  \* access keys, chosen by an operator or drawn at random
    Masters,     \* master keys
    TokenIds,    \* client tokens (bound: how many are ever issued)
    TokenLimit,  \* 100 in the code
    None         \* no state yet: a nil pointer, or no file

VARIABLES
    memory,      \* Manager.state
    cipher,      \* the master key of Manager.cipher
    disk         \* what the file holds

identityVars == <<memory, cipher, disk>>

Instance == [master : Masters, admin : AccessKeys, proxy : AccessKeys,
             clients : SUBSET TokenIds]

ASSUME IdentityAssumption == /\ IsFiniteSet(TokenIds)
                             /\ TokenLimit \in Nat
                             /\ None \notin Masters
                             /\ None \notin Instance

NewInstance(m, a, p) == [master |-> m, admin |-> a, proxy |-> p, clients |-> {}]

\* Initialized
Initialized == memory # None /\ cipher # None

\* Open without a file and without secrets in the environment, or with the
\* secrets of the environment (ACCESS_KEY, or the two older ones) or of a file.
IdentityInit ==
    /\ disk \in {None} \cup {NewInstance(m, a, p) : m \in Masters,
                                                    a \in AccessKeys, p \in AccessKeys}
    /\ memory = disk
    /\ cipher = IF disk = None THEN None ELSE disk.master

-----------------------------------------------------------------------------
\* What persistLocked comes to: all is well; nothing was written; or the file was
\* replaced (rename) but a later call (chmod) failed.
Results == {"ok", "failed", "renamed"}

\* The file gets the new state; a caller that is told of an error puts its old
\* state back in memory, whatever the file holds.
Persist(new, result) ==
    /\ memory' = IF result = "ok" THEN new ELSE memory
    /\ disk'   = IF result = "failed" THEN disk ELSE new

\* (Mutants: no second look under the lock; an error that is not noticed.)
InitializeTwice(m, k, result) ==
    /\ Persist(NewInstance(m, k, k), result)
    /\ cipher' = IF result = "ok" THEN m ELSE None
InitializeUnsaved(m, k, result) ==
    /\ memory = None
    /\ memory' = NewInstance(m, k, k)
    /\ disk' = IF result = "failed" THEN disk ELSE NewInstance(m, k, k)
    /\ cipher' = m

Initialize(m, k, result) ==
    /\ memory = None
    /\ Persist(NewInstance(m, k, k), result)
    /\ cipher' = IF result = "ok" THEN m ELSE None

RotateAccessKey(k, result) ==
    /\ memory # None
    /\ Persist([memory EXCEPT !.admin = k, !.proxy = k], result)
    /\ UNCHANGED cipher

\* (Mutant: one token too many.)
IssueClientTokenBug(t, result) ==
    /\ memory # None
    /\ Cardinality(memory.clients) <= TokenLimit
    /\ Persist([memory EXCEPT !.clients = @ \cup {t}], result)
    /\ UNCHANGED cipher

IssueClientToken(t, result) ==
    /\ memory # None
    /\ Cardinality(memory.clients) < TokenLimit
    /\ Persist([memory EXCEPT !.clients = @ \cup {t}], result)
    /\ UNCHANGED cipher

\* The name changes in place and the whole state is written.
RenameClientToken(t, result) ==
    /\ t \in memory.clients
    /\ Persist(memory, result)
    /\ UNCHANGED cipher

\* (Mutants: the token is dropped from memory only; the slice is edited in place
\* and an error cannot put it back.)
RevokeClientTokenBug(t, result) ==
    /\ t \in memory.clients
    /\ memory' = [memory EXCEPT !.clients = @ \ {t}]
    /\ UNCHANGED <<disk, cipher>>
RevokeClientTokenInPlace(t, result) ==
    /\ t \in memory.clients
    /\ memory' = [memory EXCEPT !.clients = @ \ {t}]
    /\ disk' = IF result = "failed" THEN disk ELSE memory'
    /\ UNCHANGED cipher

RevokeClientToken(t, result) ==
    /\ t \in memory.clients
    /\ Persist([memory EXCEPT !.clients = @ \ {t}], result)
    /\ UNCHANGED cipher

\* Open after a restart: the file alone decides (loadCipher takes its master key).
Reopen == /\ memory' = disk
          /\ cipher' = IF disk = None THEN None ELSE disk.master
          /\ UNCHANGED disk
=============================================================================
