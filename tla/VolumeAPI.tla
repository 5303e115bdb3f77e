------------------------------ MODULE VolumeAPI ------------------------------
(***************************************************************************)
(* The volume and snapshot handlers of src/api/server/volume.go besides    *)
(* volumeSet: create, inspect, delete, enumerate, snap, restore,           *)
(* snapEnumerate, stats, usedsize and requests.  Each makes at most one    *)
(* driver call, so each request is one step, interleaved with the driver   *)
(* calls of volumeSet requests (VolumeSet).  The driver may compose        *)
(* SnapshotNotSupported and StatsNotSupported, chosen at Init.             *)
(*                                                                         *)
(* Query parameters are abstracted to what the handlers tell apart: a     *)
(* label text that json.Unmarshal accepts ("good") or not ("bad"), a list  *)
(* of volume ids, a cumulative flag.  qcall is the driver call a handler  *)
(* made, qdoc the call the request asks for, when the request is valid.  *)
(***************************************************************************)
EXTENDS VolumeSet

CONSTANTS NoParam, NoCall

VARIABLES
  snapDrv,   \* "capable", or "stub" when the driver composes SnapshotNotSupported
  statsDrv,  \* "capable", or "stub" when the driver composes StatsNotSupported
  qresp,     \* the last one-step handler and the status it wrote first
  qcall,     \* the driver call that handler made
  qdoc       \* ghost: the driver call its request asks for

qvars == <<snapDrv, statsDrv, qresp, qcall, qdoc>>
allVars == <<vars, qvars>>

LabelTexts == {"good", "bad"}
CumTexts == {"true", "false", "yes"}
IdLists == {<<v>> : v \in Volumes} \cup {<<v, w>> : v, w \in Volumes}

\* json.Unmarshal into a label map: a bad text leaves the map nil.
Labels(t) == IF t = "good" THEN "good" ELSE "none"
\* strconv.ParseBool on the texts of CumTexts.
ParseBoolOk(c) == c \in {"true", "false"}

APITypeOK ==
  /\ TypeOK
  /\ snapDrv \in {"capable", "stub"} /\ statsDrv \in {"capable", "stub"}
  /\ qresp.status \in {"none", "200", "400", "404", "500", "panic"}

APIInit ==
  /\ Init
  /\ snapDrv \in {"capable", "stub"} /\ statsDrv \in {"capable", "stub"}
  /\ qresp = [fn |-> "none", status |-> "none"]
  /\ qcall = NoCall /\ qdoc = NoCall

Served(fn, status, call, doc) ==
  /\ qresp' = [fn |-> fn, status |-> status]
  /\ qcall' = call /\ qdoc' = doc

\* What a driver call of a capability group returns: a stub always fails.
GroupOutcomes(group) == IF group = "stub" THEN {"err"} ELSE {"ok", "err"}

\* Status of a handler that sends err as code and encodes success with 200.
Status(o, code) == IF o = "ok" THEN "200" ELSE code

\* getVolDriver fails: notFound(w, r), before any driver call.
Unresolved ==
  /\ \E fn \in {"create", "inspect", "delete", "enumerate", "snap", "restore",
                "snapEnumerate", "stats", "usedsize", "requests"} :
       Served(fn, "404", NoCall, NoCall)
  /\ UNCHANGED <<vars, snapDrv, statsDrv>>

(* create: the body decodes (else 400); d.Create makes a volume or fails; *)
(* either way a 200 whose VolumeResponse.Error is responseStatus(err).     *)
VolCreate ==
  /\ \/ /\ Served("create", "400", NoCall, NoCall) /\ UNCHANGED exists
     \/ \E v \in Volumes \ exists :
          /\ Served("create", "200", [fn |-> "Create"], [fn |-> "Create"])
          /\ exists' = exists \cup {v}
     \/ /\ Served("create", "200", [fn |-> "Create"], [fn |-> "Create"])
        /\ UNCHANGED exists
  /\ UNCHANGED <<block, attached, mounted, pc, req, calls, resp, snapDrv, statsDrv>>

(* inspect: d.Inspect([id]) of the route's {id}; an error is a 404.       *)
VolInspect ==
  /\ \E v \in Volumes, o \in {"ok", "err"} :
       LET call == [fn |-> "Inspect", ids |-> <<v>>] IN
       Served("inspect", Status(o, "404"), call, call)
  /\ UNCHANGED <<vars, snapDrv, statsDrv>>

(* delete: d.Delete of the route's {id}; success removes the volume (and  *)
(* with it its attachment and mount); the error goes in a 200's body.      *)
VolDelete ==
  /\ \E v \in Volumes :
       LET call == [fn |-> "Delete", id |-> v] IN
       /\ Served("delete", "200", call, call)
       /\ \/ /\ v \in exists
             /\ exists' = exists \ {v}
             /\ attached' = attached \ {v} /\ mounted' = mounted \ {v}
          \/ UNCHANGED <<exists, attached, mounted>>
  /\ UNCHANGED <<block, pc, req, calls, resp, snapDrv, statsDrv>>

(* enumerate: the label and config-label parameters are decoded; a bad    *)
(* one is answered 400 but the handler does not return.  With volume ids  *)
(* it calls d.Inspect(ids), else d.Enumerate(locator, configLabels); an   *)
(* error there sends a second error.                                       *)
VolEnumerate ==
  /\ \E lab, cfg \in LabelTexts \cup {NoParam}, ids \in IdLists \cup {NoParam}, o \in {"ok", "err"} :
       LET bad == "bad" \in {lab, cfg}
           call == IF ids # NoParam THEN [fn |-> "Inspect", ids |-> ids]
                   ELSE [fn |-> "Enumerate", labels |-> Labels(lab), config |-> Labels(cfg)]
       IN Served("enumerate",
                 IF bad THEN "400" ELSE Status(o, IF ids # NoParam THEN "400" ELSE "500"),
                 call, IF bad THEN NoCall ELSE call)
  /\ UNCHANGED <<vars, snapDrv, statsDrv>>

(* snap: the body decodes (else 400); d.Snapshot, its error in a 200.     *)
SnapCreate ==
  /\ \/ Served("snap", "400", NoCall, NoCall)
     \/ \E v \in Volumes, o \in GroupOutcomes(snapDrv) :
          LET call == [fn |-> "Snapshot", id |-> v] IN Served("snap", "200", call, call)
  /\ UNCHANGED <<vars, snapDrv, statsDrv>>

(* restore: the route's {id} and the snap id parameter (missing: 400);    *)
(* d.Restore, its error in a 200.                                          *)
SnapRestore ==
  /\ \/ Served("restore", "400", NoCall, NoCall)
     \/ \E v \in Volumes, o \in GroupOutcomes(snapDrv) :
          LET call == [fn |-> "Restore", id |-> v] IN Served("restore", "200", call, call)
  /\ UNCHANGED <<vars, snapDrv, statsDrv>>

(* snapEnumerate: a bad label is answered 400 and the handler goes on.    *)
(* ids is made with one entry per query key (len(params)) and filled from *)
(* the volume id values: missing entries stay "", and more values than    *)
(* keys index past its end, a panic that closes the connection.            *)
SnapEnumerate ==
  /\ \E lab \in LabelTexts \cup {NoParam}, ids \in IdLists \cup {NoParam}, o \in {"ok", "err"} :
       LET vals == IF ids = NoParam THEN <<>> ELSE ids
           nkeys == (IF lab # NoParam THEN 1 ELSE 0) + (IF ids # NoParam THEN 1 ELSE 0)
           made == vals \o [i \in 1..(nkeys - Len(vals)) |-> ""]
           call == [fn |-> "SnapEnumerate", ids |-> made, labels |-> Labels(lab)]
           doc == IF lab = "bad" THEN NoCall
                  ELSE [fn |-> "SnapEnumerate", ids |-> vals, labels |-> Labels(lab)]
       IN IF ids # NoParam /\ Len(vals) > nkeys
          THEN Served("snapEnumerate", "panic", NoCall, doc)
          ELSE Served("snapEnumerate", IF lab = "bad" THEN "400" ELSE Status(o, "400"), call, doc)
  /\ UNCHANGED <<vars, snapDrv, statsDrv>>

(* stats and usedsize: parseID needs the route's {id} (the routes without *)
(* one always answer 400).  stats reads cumulative with ParseBool but      *)
(* tests ok, not the error, so an unparsable flag is taken as false.       *)
VolStats ==
  /\ \E rt \in RoutesTo(VolRoutes, "stats") \cup RoutesTo(VolRoutes, "usedsize"),
        v \in Volumes, c \in CumTexts \cup {NoParam} :
       LET isStats == rt.fn = "stats"
           cum == c = NoParam \/ c = "true"
           call == IF isStats THEN [fn |-> "Stats", id |-> v, cumulative |-> cum]
                   ELSE [fn |-> "UsedSize", id |-> v]
           doc == IF isStats /\ c # NoParam /\ ~ParseBoolOk(c) THEN NoCall ELSE call
       IN \/ /\ "id" \notin PathVars(rt.path)
             /\ Served(rt.fn, "400", NoCall, NoCall)
          \/ /\ "id" \in PathVars(rt.path)
             /\ \E o \in GroupOutcomes(statsDrv) :
                  Served(rt.fn, Status(IF v \in exists THEN o ELSE "err", "400"), call, doc)
  /\ UNCHANGED <<vars, snapDrv, statsDrv>>

(* requests: d.GetActiveRequests.  StatsNotSupported returns nil, nil.    *)
VolRequests ==
  /\ \E o \in IF statsDrv = "stub" THEN {"ok"} ELSE {"ok", "err"} :
       LET call == [fn |-> "GetActiveRequests"] IN
       Served("requests", Status(o, "400"), call, call)
  /\ UNCHANGED <<vars, snapDrv, statsDrv>>

\* A volumeSet step leaves the one-step handlers' state alone.
VolumeSetStep(p) == (Reject(p) \/ Receive(p) \/ Act(p) \/ Inspect(p)) /\ UNCHANGED qvars

APINext ==
  \/ \E p \in Procs : VolumeSetStep(p)
  \/ Unresolved \/ VolCreate \/ VolInspect \/ VolDelete \/ VolEnumerate
  \/ SnapCreate \/ SnapRestore \/ SnapEnumerate \/ VolStats \/ VolRequests

APISpec == APIInit /\ [][APINext]_allVars

(***************************************************************************)
(* Properties.                                                             *)
(***************************************************************************)

(* A handler calls the driver only for a request whose parameters all     *)
(* parse, and then with exactly the arguments the request carries: the    *)
(* volume ids, the label filters and the cumulative flag asked for.       *)
DriverAskedAsRequested == qcall = qdoc
=============================================================================
