---------------------------- MODULE CredManager ----------------------------
(***************************************************************************)
(* The credential manager of src/creds (manager.go, database.go).          *)
(*                                                                         *)
(* Workers are the goroutines serving List, Create, Update and Delete, on  *)
(* any node of the cluster.  Each operation takes the kvdb lock            *)
(* /cred/lock, reads the whole credential document, changes its local copy *)
(* and writes the whole document back; a deferred Unlock releases the      *)
(* lock.  Create first mints a uuid and stores the secret under it.  Every *)
(* kvdb and secrets call is one step and may fail; nodes may crash, and a  *)
(* lock whose owner crashed or whose Unlock failed is freed by its TTL.    *)
(***************************************************************************)
EXTENDS FiniteSets, Functions, TLC

CONSTANTS Procs,      \* the worker goroutines
          Uuids,      \* the ids uuid.New may return
          ClientIds,  \* ids a client names that no Create minted
          Vals,       \* NonSecretsMap values
          Ops,        \* the operations clients call
          NoHolder, Orphaned, NoId, NoVal

ASSUME Uuids \cap ClientIds = {}
ASSUME Ops \subseteq {"list", "create", "update", "delete"}

Ids == Uuids \cup ClientIds

VARIABLES
  kv,      \* the value at kvdb key "credentials": [state, creds]
  vault,   \* ids whose PutSecret succeeded
  lock,    \* holder of /cred/lock
  pc,      \* the step each worker is at
  op,      \* the operation each worker runs
  uid,     \* the uuid argument, or the uuid minted by Create
  val,     \* the NonSecretsMap argument
  db,      \* the worker's local copy of the Credentials map
  ret,     \* the error the operation returned: "ok" is nil
  minted   \* the uuids uuid.New has returned

vars == <<kv, vault, lock, pc, op, uid, val, db, ret, minted>>

EmptyMap == [id \in {} |-> NoVal]

(* What readClusterInfo decodes from the stored value: a missing key and   *)
(* the literal {} are an empty map.                                        *)
Meta(k) == IF k.state = "ok" THEN k.creds ELSE EmptyMap

(* The ids a client can name in Update or Delete: its own, or a uuid that  *)
(* a Create stored a secret for.  A uuid whose PutSecret failed was never  *)
(* written anywhere, so no client knows it.                                *)
Nameable == ClientIds \cup vault

Pcs == {"idle", "lock", "read", "secret", "write", "unlock"}

TypeOK ==
  /\ kv.state \in {"absent", "corrupt", "ok"}
  /\ DOMAIN kv.creds \subseteq Ids /\ \A id \in DOMAIN kv.creds : kv.creds[id] \in Vals
  /\ vault \subseteq minted /\ minted \subseteq Uuids
  /\ lock \in Procs \cup {NoHolder, Orphaned}
  /\ pc \in [Procs -> Pcs]
  /\ op \in [Procs -> Ops \cup {"none"}]
  /\ uid \in [Procs -> Ids \cup {NoId}]
  /\ val \in [Procs -> Vals \cup {NoVal}]
  /\ \A p \in Procs : DOMAIN db[p] \subseteq Ids
  /\ ret \in [Procs -> {"none", "ok", "err"}]

Init ==
  /\ kv \in {[state |-> s, creds |-> EmptyMap] : s \in {"absent", "corrupt", "ok"}}
  /\ vault = {}
  /\ lock = NoHolder
  /\ pc = [p \in Procs |-> "idle"]
  /\ op = [p \in Procs |-> "none"]
  /\ uid = [p \in Procs |-> NoId]
  /\ val = [p \in Procs |-> NoVal]
  /\ db = [p \in Procs |-> EmptyMap]
  /\ ret = [p \in Procs |-> "none"]
  /\ minted = {}

Goto(p, from, to) ==
  /\ pc[p] = from
  /\ pc' = [pc EXCEPT ![p] = to]

(***************************************************************************)
(* A caller invokes List, Create(entry), Update(uuid, entry) or            *)
(* Delete(uuid).  Create's uuid.New has no effect another worker can see   *)
(* before PutSecret, so the uuid is drawn here (i is Create's uuid).       *)
(***************************************************************************)
Call(p, o, i, v) ==
  /\ Goto(p, "idle", "lock")
  /\ op' = [op EXCEPT ![p] = o]
  /\ uid' = [uid EXCEPT ![p] = i]
  /\ val' = [val EXCEPT ![p] = v]
  /\ minted' = IF o = "create" THEN minted \cup {i} ELSE minted
  /\ ret' = [ret EXCEPT ![p] = "none"]
  /\ UNCHANGED <<kv, vault, lock, db>>

\* The uuids uuid.New can still return.
FreshUuids == Uuids \ minted

\* Direct callers of the Go API: any operation, any nameable id, any value.
Begin(p) ==
  \E o \in Ops :
    \E i \in CASE o = "create" -> FreshUuids
               [] o \in {"update", "delete"} -> Nameable
               [] OTHER -> {NoId} :
      \E v \in IF o \in {"create", "update"} THEN Vals ELSE {NoVal} :
        Call(p, o, i, v)

\* kvdb.Lock(credLockKey) succeeds.
Acquire(p) ==
  /\ Goto(p, "lock", "read")
  /\ lock = NoHolder
  /\ lock' = p
  /\ UNCHANGED <<kv, vault, op, uid, val, db, ret, minted>>

\* What an operation returns when kvdb.Lock fails: List the error, the others nil.
LockErr(o) == IF o = "list" THEN "err" ELSE "ok"

(* kvdb.Lock fails (lock-try timeout or kvdb error) and the operation     *)
(* returns LockErr.  No Unlock is deferred.                                *)
LockFail(p) ==
  /\ Goto(p, "lock", "idle")
  /\ ret' = [ret EXCEPT ![p] = LockErr(op[p])]
  /\ UNCHANGED <<kv, vault, lock, op, uid, val, db, minted>>

(* Mutant: a read error returns without the deferred Unlock.             *)
ReadFailNoUnlock(p) ==
  /\ Goto(p, "read", "idle")
  /\ ret' = [ret EXCEPT ![p] = "err"]
  /\ UNCHANGED <<kv, vault, lock, op, uid, val, db, minted>>

(* readClusterInfo: the Get fails, the value does not decode, or the map   *)
(* is read.  On an error the operation returns it; List returns the map.   *)
ReadFail(p) ==
  /\ Goto(p, "read", "unlock")
  /\ ret' = [ret EXCEPT ![p] = "err"]
  /\ UNCHANGED <<kv, vault, lock, op, uid, val, db, minted>>

ReadCorrupt(p) ==
  /\ kv.state = "corrupt"
  /\ ReadFail(p)

(* Mutant: List unlocks right after the read instead of on return.       *)
ReadOkListUnlocksEarly(p) ==
  /\ pc[p] = "read"
  /\ kv.state # "corrupt"
  /\ db' = [db EXCEPT ![p] = Meta(kv)]
  /\ pc' = [pc EXCEPT ![p] = CASE op[p] = "list"   -> "unlock"
                               [] op[p] = "create" -> "secret"
                               [] OTHER            -> "write"]
  /\ ret' = [ret EXCEPT ![p] = IF op[p] = "list" THEN "ok" ELSE "none"]
  /\ lock' = IF op[p] = "list" THEN NoHolder ELSE lock
  /\ UNCHANGED <<kv, vault, op, uid, val, minted>>

ReadOk(p) ==
  /\ pc[p] = "read"
  /\ kv.state # "corrupt"
  /\ db' = [db EXCEPT ![p] = Meta(kv)]
  /\ pc' = [pc EXCEPT ![p] = CASE op[p] = "list"   -> "unlock"
                               [] op[p] = "create" -> "secret"
                               [] OTHER            -> "write"]
  /\ ret' = [ret EXCEPT ![p] = IF op[p] = "list" THEN "ok" ELSE "none"]
  /\ UNCHANGED <<kv, vault, lock, op, uid, val, minted>>

Read(p) == ReadFail(p) \/ ReadCorrupt(p) \/ ReadOk(p)

(* Mutant: the PutSecret error is logged and Create goes on.             *)
PutSecretErrIgnored(p) ==
  /\ pc[p] = "secret"
  /\ pc' = [pc EXCEPT ![p] = "write"]
  /\ \/ vault' = vault \cup {uid[p]}
     \/ UNCHANGED vault
  /\ UNCHANGED <<kv, lock, op, uid, val, db, ret, minted>>

\* Create: PutSecret(uuid, SecretsMap) succeeds, or Create returns an error.
PutSecret(p) ==
  /\ pc[p] = "secret"
  /\ \/ /\ vault' = vault \cup {uid[p]}
        /\ pc' = [pc EXCEPT ![p] = "write"]
        /\ UNCHANGED ret
     \/ /\ pc' = [pc EXCEPT ![p] = "unlock"]
        /\ ret' = [ret EXCEPT ![p] = "err"]
        /\ UNCHANGED vault
  /\ UNCHANGED <<kv, lock, op, uid, val, db, minted>>

(* Mutant: Delete sets the entry to nil instead of deleting the key.     *)
ModifiedDeleteAsNil(p) == (uid[p] :> val[p]) @@ db[p]

(* Mutant: the entry replaces the map instead of being added to it.       *)
ModifiedDropsOthers(p) ==
  IF op[p] = "delete"
  THEN Restrict(db[p], DOMAIN db[p] \ {uid[p]})
  ELSE uid[p] :> val[p]

\* Update's db.Credentials[uuid] = cred.NonSecretsMap: set or add the entry.
Upsert(p) == (uid[p] :> val[p]) @@ db[p]

\* Delete's delete(db.Credentials, uuid): no error if the id is absent.
Remove(p) == Restrict(db[p], DOMAIN db[p] \ {uid[p]})

\* The local change of the worker's operation; Create's is an Upsert too.
Modified(p) == IF op[p] = "delete" THEN Remove(p) ELSE Upsert(p)

(* writeClusterInfo puts the whole map.  The put succeeds, fails, or fails *)
(* after the store applied it (a timed-out request); the error is returned.*)
Write(p) ==
  /\ Goto(p, "write", "unlock")
  /\ \/ /\ kv' = [state |-> "ok", creds |-> Modified(p)]
        /\ ret' = [ret EXCEPT ![p] = "ok"]
     \/ /\ ret' = [ret EXCEPT ![p] = "err"]
        /\ UNCHANGED kv
     \/ /\ kv' = [state |-> "ok", creds |-> Modified(p)]
        /\ ret' = [ret EXCEPT ![p] = "err"]
  /\ UNCHANGED <<vault, lock, op, uid, val, db, minted>>

(* The deferred kvdb.Unlock as the operation returns.  Its error is        *)
(* ignored: a failed Unlock leaves the lock held until its TTL expires.    *)
Unlock(p) ==
  /\ Goto(p, "unlock", "idle")
  /\ \/ lock' = IF lock = p THEN NoHolder ELSE lock
     \/ lock' = IF lock = p THEN Orphaned ELSE lock
  /\ db' = [db EXCEPT ![p] = EmptyMap]
  /\ val' = [val EXCEPT ![p] = NoVal]
  /\ UNCHANGED <<kv, vault, op, uid, ret, minted>>

(* The node running the worker dies; the caller gets no answer.  A lock   *)
(* it held stays until the TTL frees it.                                   *)
Crash(p) ==
  /\ pc[p] # "idle"
  /\ pc' = [pc EXCEPT ![p] = "idle"]
  /\ lock' = IF lock = p THEN Orphaned ELSE lock
  /\ op' = [op EXCEPT ![p] = "none"]
  /\ uid' = [uid EXCEPT ![p] = NoId]
  /\ val' = [val EXCEPT ![p] = NoVal]
  /\ db' = [db EXCEPT ![p] = EmptyMap]
  /\ ret' = [ret EXCEPT ![p] = "none"]
  /\ UNCHANGED <<kv, vault, minted>>

\* The kvdb frees a lock whose TTL ran out.
Expire ==
  /\ lock = Orphaned
  /\ lock' = NoHolder
  /\ UNCHANGED <<kv, vault, pc, op, uid, val, db, ret, minted>>

Step(p) ==
  \/ Acquire(p) \/ LockFail(p) \/ Read(p)
  \/ PutSecret(p) \/ Write(p) \/ Unlock(p)

Next ==
  \/ \E p \in Procs : Begin(p) \/ Step(p) \/ Crash(p)
  \/ Expire

Fairness ==
  /\ \A p \in Procs : WF_vars(Step(p))
  /\ WF_vars(Expire)

Spec == Init /\ [][Next]_vars
FairSpec == Spec /\ Fairness

(***************************************************************************)
(* Properties.                                                             *)
(***************************************************************************)

(* A List that read the document returns, when the call returns (before   *)
(* its deferred Unlock), exactly the map that is stored then: no other     *)
(* worker wrote in between because List holds /cred/lock across the read. *)
ListSeesLatest ==
  \A p \in Procs :
    (pc[p] = "unlock" /\ op[p] = "list" /\ ret[p] = "ok") => db[p] = Meta(kv)

(* A uuid minted by Create never appears in the metadata unless its secret *)
(* is stored: Create puts the secret before it writes the document, and    *)
(* returns when PutSecret fails, even across crashes and failed writes.    *)
CredsHaveSecrets ==
  \A id \in DOMAIN Meta(kv) : id \in minted => id \in vault

\* The change operation op[p] makes, seen in the metadata map m.
Applied(p, m) ==
  CASE op[p] = "create" -> uid[p] \in DOMAIN m /\ m[uid[p]] = val[p]
    [] op[p] = "update" -> uid[p] \in DOMAIN m /\ m[uid[p]] = val[p]
    [] op[p] = "delete" -> uid[p] \notin DOMAIN m
    [] OTHER            -> TRUE

(* When Create, Update or Delete returns nil, its change is in the stored  *)
(* document at that moment (spec 8: one entry per successful Create; an   *)
(* Update is seen by a later List; errors are never swallowed, spec 7).   *)
(* Checked on the step that returns, while the caller's lock still orders *)
(* every other writer after it.                                            *)
ReturnedNilApplied ==
  [][\A p \in Procs :
       (pc[p] # "idle" /\ pc'[p] = "idle" /\ ret'[p] = "ok") => Applied(p, Meta(kv'))]_vars

(* The lock /cred/lock is always released again: on every return path of  *)
(* every operation, after a failed Unlock and after a crash (by the TTL).  *)
LockEventuallyFree == lock # NoHolder ~> lock = NoHolder

(* The document changes one key at a time, each change applied to the    *)
(* document as it is: concurrent read-modify-write cycles lose no update.  *)
Abs == INSTANCE CredStore WITH meta <- Meta(kv), secrets <- vault
RefinesCredStore == Abs!Spec

=============================================================================
