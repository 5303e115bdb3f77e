----------------------------- MODULE CredStore -----------------------------
(***************************************************************************)
(* The abstract credential store: what the credential manager promises.    *)
(* The metadata of all credentials is one map, the secrets one set of ids; *)
(* every change is a single atomic step on one key.  This is the total     *)
(* order of credential mutations promised by spec section 5: an operation  *)
(* sees the effect of every operation that completed before it.            *)
(***************************************************************************)
EXTENDS FiniteSets

CONSTANTS Ids,   \* every id a credential can have
          Vals   \* the NonSecretsMap values

VARIABLES meta,     \* id -> NonSecretsMap, the "Credentials" map
          secrets   \* ids that have a secret in the secrets backend

vars == <<meta, secrets>>

TypeOK ==
  /\ DOMAIN meta \subseteq Ids
  /\ \A id \in DOMAIN meta : meta[id] \in Vals
  /\ secrets \subseteq Ids

Init ==
  /\ meta = [id \in {} |-> CHOOSE v \in Vals : TRUE]
  /\ secrets = {}

\* A secret is stored under a new id.
AddSecret(id) ==
  /\ id \notin secrets
  /\ secrets' = secrets \cup {id}
  /\ UNCHANGED meta

\* The metadata of one id is set, created if absent.
SetMeta(id, v) ==
  /\ meta' = [x \in DOMAIN meta \cup {id} |-> IF x = id THEN v ELSE meta[x]]
  /\ UNCHANGED secrets

\* The metadata of one id is removed.
DropMeta(id) ==
  /\ id \in DOMAIN meta
  /\ meta' = [x \in DOMAIN meta \ {id} |-> meta[x]]
  /\ UNCHANGED secrets

Next ==
  \E id \in Ids :
    \/ AddSecret(id)
    \/ \E v \in Vals : SetMeta(id, v)
    \/ DropMeta(id)

Spec == Init /\ [][Next]_vars
=============================================================================
