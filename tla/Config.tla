------------------------------- MODULE Config -------------------------------
(***************************************************************************)
(* Which identity the environment of the process gives a new instance:     *)
(* Load of internal/config/config.go and the bootstrap at the end of Open  *)
(* of internal/identity/manager.go.  Secrets are any non-empty strings; of *)
(* the master key it matters whether it is 32 bytes in base64.  Paths,     *)
(* addresses, durations and limits have defaults and reject nothing.       *)
(***************************************************************************)
EXTENDS FiniteSets

CONSTANTS Secrets,  \* values of ACCESS_KEY, ADMIN_PASSWORD and PROXY_TOKEN
          Unset,    \* a variable that is empty or not there
          Rejected  \* what Load and Open return with an error

\* What the instance file holds of a new identity.
NewIdentity == [master : {"valid"}, admin : Secrets, proxy : Secrets, unified : BOOLEAN]

ASSUME ConfigAssumption ==
    /\ Unset \notin Secrets \cup {Rejected}
    /\ {Unset, Rejected} \cap NewIdentity = {}

MasterKeys == {Unset, "valid", "malformed"}

Environment == [access : Secrets \cup {Unset}, admin : Secrets \cup {Unset},
                token : Secrets \cup {Unset}, master : MasterKeys,
                custom : BOOLEAN, allowed : BOOLEAN]

\* ACCESS_KEY stands for the two legacy credentials.
AdminPassword(e)  == IF e.access # Unset THEN e.access ELSE e.admin
BootstrapToken(e) == IF e.access # Unset THEN e.access ELSE e.token

Credentials(e) == [master |-> e.master, admin |-> AdminPassword(e), token |-> BootstrapToken(e)]

Supplied(e) == {c \in DOMAIN Credentials(e) : Credentials(e)[c] # Unset}

\* (Mutant: any two of them will do.)
WholeSetBug(e) == Cardinality(Supplied(e)) # 1

\* legacyCount is 0 or 3.
WholeSet(e) == Cardinality(Supplied(e)) \in {0, 3}

Load(e) ==
    IF \/ e.access # Unset /\ (e.admin # Unset \/ e.token # Unset \/ e.master = Unset)
       \/ ~WholeSet(e)
       \/ e.master = "malformed"
       \/ e.custom /\ ~e.allowed
    THEN Rejected
    ELSE Credentials(e)

\* Open without a file.  No identity is given: the instance waits for its setup.
Bootstrap(cfg) ==
    IF cfg.master = Unset /\ cfg.admin = Unset /\ cfg.token = Unset THEN Unset
    ELSE IF cfg.master # "valid" \/ cfg.admin = Unset \/ cfg.token = Unset THEN Rejected
    ELSE [master |-> cfg.master, admin |-> cfg.admin, proxy |-> cfg.token,
          unified |-> cfg.admin = cfg.token]
=============================================================================
