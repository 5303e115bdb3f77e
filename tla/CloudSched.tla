----------------------------- MODULE CloudSched -----------------------------
(***************************************************************************)
(* The cloud-backup handlers of src/api/server/volume.go (the schedule     *)
(* handlers cloudsnapCreateSched, cloudsnapUpdateSched,                    *)
(* cloudsnapEnumerateSched and cloudsnapDeleteSched, cloudsnapStatus, and  *)
(* the handlers that pass one call through to the driver) against         *)
(* the driver getVolDriver resolves.  That driver either implements the    *)
(* backup group, keeping the schedules with the contract of spec 4.3, or   *)
(* composes volume.BackupNotSupported (volume_not_supported.go).  Each     *)
(* handler makes one driver call, so each is one step.  Every argument is  *)
(* read from mux.Vars through the route that matched (Routes).             *)
(***************************************************************************)
EXTENDS Routes, FiniteSets, Functions, TLC

CONSTANTS SchedIds,   \* the schedule ids a backup-capable driver generates
          Vols, Crons, CredIds,
          BoolTexts   \* "local" texts clients send

ASSUME "" \notin SchedIds

VARIABLES
  backup,  \* "capable", or "stub" when the driver composes BackupNotSupported
  scheds,  \* the driver's schedules: id -> CloudsnapScheduleInfo
  minted,  \* ids the driver has generated
  gone,    \* ghost: ids a client deleted and was told it succeeded
  resp     \* the last response: handler and kind

vars == <<backup, scheds, minted, gone, resp>>

Sched(v, c, cr, m) == [vol |-> v, cron |-> c, cred |-> cr, max |-> m]
NoSchedules == [id \in {} |-> Sched("", "", "", 0)]

\* strconv.ParseBool.
TrueTexts == {"1", "t", "T", "TRUE", "true", "True"}
FalseTexts == {"0", "f", "F", "FALSE", "false", "False"}
ParseBoolOk(s) == s \in TrueTexts \cup FalseTexts

(* Mutant: the stub's DeleteCloudBackupSchedule returns nil, as the      *)
(* stats stub's GetActiveRequests does.                                    *)
StubErrDeleteNil(call) == IF call = "delete" THEN "nil" ELSE "ErrNotSupported"

(* Every method of backupNotSupported returns ErrNotSupported.            *)
StubErr(call) == "ErrNotSupported"

TypeOK ==
  /\ backup \in {"capable", "stub"}
  /\ DOMAIN scheds \subseteq minted /\ minted \subseteq SchedIds
  /\ gone \subseteq SchedIds
  /\ resp.kind \in {"none", "data", "error", "notfound"}

Init ==
  /\ backup \in {"capable", "stub"}
  /\ scheds = NoSchedules
  /\ minted = {}
  /\ gone = {}
  /\ resp = [fn |-> "none", kind |-> "none"]

Answer(fn, kind) == resp' = [fn |-> fn, kind |-> kind]

Handlers == {"cloudsnapCreateSched", "cloudsnapUpdateSched", "cloudsnapEnumerateSched",
             "cloudsnapDeleteSched", "cloudsnapStatus"}

\* The cloudsnap handlers that pass one call through to the driver.
PassHandlers == {"cloudsnapBackupCatalog", "cloudsnapBackupMeta", "cloudsnapBackup",
                 "cloudsnapRestore", "cloudsnapEnumerate", "cloudsnapDelete",
                 "cloudsnapChangeState"}

\* getVolDriver fails: notFound(w, r).
Unresolved ==
  /\ \E fn \in Handlers \cup PassHandlers : Answer(fn, "notfound")
  /\ UNCHANGED <<backup, scheds, minted, gone>>

(* A client asks for schedule Sched(v, c, cr, _).  The handler takes the *)
(* volume id, credential id and cron text from mux.Vars.  It parses        *)
(* maxbackups only when it is not "", and no route to a schedule handler   *)
(* declares maxbackups, so MaxBackups is always 0 and the 400 branch of    *)
(* the parse is never taken (nor is it in UpdateSched).                    *)
CreateSched ==
  \E rt \in RoutesTo(VolRoutes, "cloudsnapCreateSched"),
     v \in Vols, c \in Crons, cr \in CredIds :
    LET vol == MuxVar(rt, "volumeid", v)
        credID == MuxVar(rt, "credid", cr)
        sched == MuxVar(rt, "sched", c)
    IN
    \/ /\ backup = "capable"
       /\ \E id \in SchedIds \ minted :
            /\ scheds' = (id :> Sched(vol, sched, credID, 0)) @@ scheds
            /\ minted' = minted \cup {id}
       /\ Answer("cloudsnapCreateSched", "data")
       /\ UNCHANGED <<backup, gone>>
    \/ /\ backup = "stub"
       /\ Answer("cloudsnapCreateSched", IF StubErr("create") = "nil" THEN "data" ELSE "error")
       /\ UNCHANGED <<backup, scheds, minted, gone>>

(* Update of schedule u: the uuid, credential id and cron text come from  *)
(* mux.Vars (maxbackups as in CreateSched).  The driver replaces the       *)
(* mutable fields of an existing schedule and fails with NotFound for an   *)
(* unknown id; the error goes into VolumeResponse.Error of a 200.          *)
UpdateSched ==
  \E rt \in RoutesTo(VolRoutes, "cloudsnapUpdateSched"),
     u \in SchedIds, c \in Crons, cr \in CredIds :
    LET uuid == MuxVar(rt, "uuid", u)
        credID == MuxVar(rt, "credid", cr)
        sched == MuxVar(rt, "sched", c)
    IN
    /\ \/ /\ backup = "capable" /\ uuid \in DOMAIN scheds
          /\ scheds' = [scheds EXCEPT ![uuid] = Sched(@.vol, sched, credID, 0)]
          /\ Answer("cloudsnapUpdateSched", "data")
       \/ /\ backup = "capable" /\ uuid \notin DOMAIN scheds
          /\ Answer("cloudsnapUpdateSched", "error")
          /\ UNCHANGED scheds
       \/ /\ backup = "stub"
          /\ Answer("cloudsnapUpdateSched", IF StubErr("update") = "nil" THEN "data" ELSE "error")
          /\ UNCHANGED scheds
    /\ UNCHANGED <<backup, minted, gone>>

\* ListCloudBackupSchedules: the whole map, or the driver's error.
EnumerateSched ==
  /\ Answer("cloudsnapEnumerateSched",
            IF backup = "capable" \/ StubErr("list") = "nil" THEN "data" ELSE "error")
  /\ UNCHANGED <<backup, scheds, minted, gone>>

(* Delete of schedule u, uuid from mux.Vars.  Deleting an unknown id is   *)
(* not an error (spec 4.3).  A response with an empty Error tells the      *)
(* client its schedule is gone.                                            *)
DeleteSched ==
  \E rt \in RoutesTo(VolRoutes, "cloudsnapDeleteSched"), u \in SchedIds :
    LET uuid == MuxVar(rt, "uuid", u)
        ok == backup = "capable" \/ StubErr("delete") = "nil"
    IN
    /\ scheds' = IF backup = "capable" THEN Restrict(scheds, DOMAIN scheds \ {uuid})
                 ELSE scheds
    /\ gone' = IF ok THEN gone \cup {u} ELSE gone
    /\ Answer("cloudsnapDeleteSched", IF ok THEN "data" ELSE "error")
    /\ UNCHANGED <<backup, minted>>

(* Status of volume backups, the locality flag "local" from mux.Vars and   *)
(* parsed with strconv.ParseBool; a bad flag is a 400.  No backup runs in  *)
(* this model, so a capable driver's cache is empty and answers {}.        *)
Status ==
  \E rt \in RoutesTo(VolRoutes, "cloudsnapStatus"), l \in BoolTexts :
    LET local == MuxVar(rt, "local", l) IN
    /\ Answer("cloudsnapStatus",
              IF ~ParseBoolOk(local) THEN "error"
              ELSE IF backup = "capable" \/ StubErr("status") = "nil" THEN "data"
              ELSE "error")
    /\ UNCHANGED <<backup, scheds, minted, gone>>

(* The other cloudsnap handlers read every argument from mux.Vars and     *)
(* make one driver call: GetCloudBkupCatalog, GetCloudBkupMetadata,        *)
(* CloudBackup, CloudRestore, ListCloudSnaps, DeleteCloudSnaps or          *)
(* ChangeStateForCloudBackup.  The call's error is a 400 or goes into      *)
(* VolumeResponse.Error.  cloudsnapEnumerate first parses "all" with       *)
(* ParseBool, a 400 on failure, before the call.  The cloud snapshots the *)
(* driver keeps are outside this model: no schedule changes.               *)
PassThrough ==
  \E fn \in PassHandlers :
  \E rt \in RoutesTo(VolRoutes, fn), l \in BoolTexts :
    LET parsed == fn # "cloudsnapEnumerate" \/ ParseBoolOk(MuxVar(rt, "all", l))
        outcomes == IF backup = "capable" THEN {"data", "error"}
                    ELSE {IF StubErr(fn) = "nil" THEN "data" ELSE "error"}
    IN
    /\ \E kind \in IF parsed THEN outcomes ELSE {"error"} : Answer(fn, kind)
    /\ UNCHANGED <<backup, scheds, minted, gone>>

Next ==
  \/ Unresolved \/ CreateSched \/ UpdateSched \/ EnumerateSched
  \/ DeleteSched \/ Status \/ PassThrough

Spec == Init /\ [][Next]_vars

(***************************************************************************)
(* Properties.                                                             *)
(***************************************************************************)

(* A driver that declines the backup group (BackupNotSupported) keeps no   *)
(* schedules and every backup call through the handlers (schedule,        *)
(* status, backup, restore, catalog, list, delete, change of state)        *)
(* fails, so callers see the capability signal of spec 4.3 and never a     *)
(* success.                                                                *)
NotSupportedDeclines ==
  backup = "stub" => (scheds = NoSchedules /\ resp.kind \in {"none", "error", "notfound"})

(* A schedule the client deleted, and was told was deleted, is no longer   *)
(* listed (spec 8: a later ListSchedules does not include it).            *)
DeletedScheduleGone == \A id \in gone : id \notin DOMAIN scheds

=============================================================================
