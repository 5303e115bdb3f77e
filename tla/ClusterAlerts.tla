---------------------------- MODULE ClusterAlerts ----------------------------
(***************************************************************************)
(* The alert handlers of src/api/server/cluster.go: enumerateAlerts,       *)
(* clearAlert and eraseAlert, with handleResourceType and getAlertParams,  *)
(* against the alerts the cluster manager (cluster.Inst(), external) keeps. *)
(*                                                                         *)
(* Path and query texts are abstracted to what the parsers tell apart: a   *)
(* name, a decimal numeral, or junk.  TLC integers are 32-bit, so the      *)
(* numeral of the 64-bit integer hi * 2^32 + lo is the record [hi, lo],    *)
(* 0 <= lo < 2^31; a numeral outside the int64 range is junk to ParseInt.  *)
(***************************************************************************)
EXTENDS Routes, Integers

CONSTANTS ResourceTexts,  \* {resource} segments: [name |-> s] or [hi, lo] or [junk]
          IdTexts,        \* {id} segments: [hi, lo] or [junk]
          TimeTexts,      \* timestart/timeend texts: [t |-> k] (parses) or [junk]
          Lower,          \* strings.ToLower on the names of ResourceTexts
          NoParam, Zero, NoCall, Invalid

\* api.ResourceType: NONE 0, VOLUME 1, NODE 2, CLUSTER 3, DRIVE 4.
TypeNums == 0..4
TypeByName == [volume |-> 1, node |-> 2, cluster |-> 3, drive |-> 4]

IsName(x) == "name" \in DOMAIN x
IsNumeral(x) == "hi" \in DOMAIN x

\* int32(v) for v = hi * 2^32 + lo with 0 <= lo < 2^31: the low 32 bits.
Int32(x) == x.lo

(* handleResourceType: the four names in any case, else ParseInt(s,10,64) *)
(* converted to int32 and looked up in api.ResourceType_name.             *)
HandleResourceType(x) ==
  CASE IsName(x) /\ Lower[x.name] \in DOMAIN TypeByName -> TypeByName[Lower[x.name]]
    [] IsNumeral(x) /\ Int32(x) \in TypeNums            -> Int32(x)
    [] OTHER                                            -> Invalid

(* What the swagger comments of the handlers document: a resource type is *)
(* one of the names or the number 0..4 itself.                            *)
DocumentedType(x) ==
  CASE IsName(x) /\ Lower[x.name] \in DOMAIN TypeByName -> TypeByName[Lower[x.name]]
    [] IsNumeral(x) /\ x.hi = 0 /\ x.lo \in TypeNums    -> x.lo
    [] OTHER                                            -> Invalid

\* A query parameter, parsed with time.Parse(api.TimeLayout, ...), or absent.
TimeOk(q) == IF q = NoParam THEN TRUE ELSE "t" \in DOMAIN q
TimeOf(q) == IF q = NoParam THEN Zero ELSE q.t

VARIABLES
  alerts,   \* the cluster manager's alerts: [type, id] records
  cleared,  \* alerts cleared
  last,     \* the call the last request made on the cluster manager
  asked,    \* ghost: that call as the client documented it
  resp      \* the status of the last response

vars == <<alerts, cleared, last, asked, resp>>

Alert(ty, id) == [type |-> ty, id |-> id]
Call(op, ty, id, s, e) == [op |-> op, type |-> ty, id |-> id, start |-> s, end |-> e]

TypeOK ==
  /\ cleared \subseteq alerts
  /\ resp \in {"none", "200", "400", "500"}

Init ==
  /\ alerts \in SUBSET {Alert(ty, id) : ty \in TypeNums \ {0},
                                      id \in {x \in IdTexts : IsNumeral(x)}}
  /\ cleared = {}
  /\ last = NoCall /\ asked = NoCall
  /\ resp = "none"

Answer(code, call, documented) ==
  /\ resp' = code /\ last' = call /\ asked' = documented

(* enumerateAlerts: resource from mux.Vars through handleResourceType,    *)
(* then timestart and timeend from the query, each parsed with            *)
(* time.Parse; both parses assign tS, so tE stays the zero time.  Then    *)
(* cluster.Inst() and inst.EnumerateAlerts(tS, tE, resourceType), which    *)
(* changes nothing.                                                        *)
EnumerateAlerts ==
  \E rt \in RoutesTo(ClusterRoutes, "enumerateAlerts"), res \in ResourceTexts,
     ts \in TimeTexts \cup {NoParam}, te \in TimeTexts \cup {NoParam} :
    LET ty == IF "resource" \in PathVars(rt.path) THEN HandleResourceType(res) ELSE 0
        start == IF te # NoParam THEN TimeOf(te) ELSE TimeOf(ts)
        doc == IF DocumentedType(res) = Invalid \/ ~TimeOk(ts) \/ ~TimeOk(te) THEN NoCall
               ELSE Call("enumerate", DocumentedType(res), 0, TimeOf(ts), TimeOf(te))
    IN
    /\ \/ /\ ty = Invalid \/ ~TimeOk(ts) \/ ~TimeOk(te)
          /\ Answer("400", NoCall, doc)
       \/ /\ ty # Invalid /\ TimeOk(ts) /\ TimeOk(te)
          /\ \E code \in {"200", "500"} :
               Answer(code, Call("enumerate", ty, 0, start, Zero), doc)
    /\ UNCHANGED <<alerts, cleared>>

(* getAlertParams: resource through handleResourceType, then id through   *)
(* strconv.ParseInt(id, 10, 64); a missing or bad one is a 400.           *)
AlertParamsOk(rt, res, idt) ==
  /\ {"resource", "id"} \subseteq PathVars(rt.path)
  /\ HandleResourceType(res) # Invalid
  /\ IsNumeral(idt)

(* clearAlert and eraseAlert: getAlertParams, cluster.Inst() (500 on      *)
(* failure, no call) and inst.ClearAlert or inst.EraseAlert, whose error   *)
(* is a 500.                                                               *)
ChangeAlert(fn) ==
  \E rt \in RoutesTo(ClusterRoutes, fn), res \in ResourceTexts, idt \in IdTexts :
    LET a == Alert(HandleResourceType(res), idt)
        op == IF fn = "clearAlert" THEN "clear" ELSE "erase"
        call == Call(op, a.type, idt, Zero, Zero)
        doc == IF DocumentedType(res) = Invalid \/ ~IsNumeral(idt) THEN NoCall
               ELSE Call(op, DocumentedType(res), idt, Zero, Zero)
    IN
    \/ /\ ~AlertParamsOk(rt, res, idt)
       /\ Answer("400", NoCall, doc)
       /\ UNCHANGED <<alerts, cleared>>
    \/ /\ AlertParamsOk(rt, res, idt)
       /\ Answer("500", NoCall, doc)
       /\ UNCHANGED <<alerts, cleared>>
    \/ /\ AlertParamsOk(rt, res, idt)
       /\ a \in alerts
       /\ Answer("200", call, doc)
       /\ IF fn = "clearAlert"
          THEN cleared' = cleared \cup {a} /\ UNCHANGED alerts
          ELSE alerts' = alerts \ {a} /\ cleared' = cleared \ {a}
    \/ /\ AlertParamsOk(rt, res, idt)
       /\ Answer("500", call, doc)
       /\ UNCHANGED <<alerts, cleared>>

ClearAlert == ChangeAlert("clearAlert")
EraseAlert == ChangeAlert("eraseAlert")

Next == EnumerateAlerts \/ ClearAlert \/ EraseAlert

Spec == Init /\ [][Next]_vars

(***************************************************************************)
(* Properties.                                                             *)
(***************************************************************************)

(* Every call the handlers make on the cluster manager is the one the      *)
(* swagger comments document for the request (for the alerts: the         *)
(* resource type named or numbered 0..4, the id, and the window            *)
(* [timestart, timeend]), and a request the comments document as valid is *)
(* not refused as a bad request.                                           *)
RequestAsNamed ==
  /\ last # NoCall => last = asked
  /\ resp = "400" => asked = NoCall
=============================================================================
