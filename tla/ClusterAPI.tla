------------------------------ MODULE ClusterAPI ------------------------------
(***************************************************************************)
(* The other handlers of clusterApi (src/api/server/cluster.go) beside the *)
(* alert ones of ClusterAlerts: node and cluster configuration, enumerate, *)
(* status, node status and health, peer status, inspect, delete, gossip,   *)
(* shutdown and versions.  Each makes at most one call on the cluster      *)
(* manager (cluster.Inst(), external), so each request is one step.  The   *)
(* manager is abstracted to its members, its gossip switch and the         *)
(* configurations it keeps.  As in ClusterAlerts, last is the call a      *)
(* handler made and asked the call the swagger comment of the handler      *)
(* documents for the request; a handler without a swagger comment is       *)
(* taken at its word (asked = last).                                       *)
(***************************************************************************)
EXTENDS ClusterAlerts

CONSTANTS NodeIds,     \* node ids in paths, queries and node configurations
          Confs,       \* configuration values
          NoConf,      \* no configuration kept for a node
          BadBody,     \* a request body json.Unmarshal rejects
          ForceTexts   \* forceRemove texts: "true", "false", one ParseBool rejects

VARIABLES
  members,      \* the nodes of the cluster
  gossip,       \* whether gossip updates are enabled
  clusterConf,  \* the cluster configuration
  nodeConf      \* the configuration kept for each node

cvars == <<members, gossip, clusterConf, nodeConf>>
allVars == <<vars, cvars>>

NodeCall(op, arg) == [op |-> op, arg |-> arg]

APITypeOK ==
  /\ resp \in {"none", "200", "400", "500", "501", "503"}
  /\ members \subseteq NodeIds /\ gossip \in BOOLEAN
  /\ clusterConf \in Confs /\ nodeConf \in [NodeIds -> Confs \cup {NoConf}]

APIInit ==
  /\ Init
  /\ members \in SUBSET NodeIds /\ gossip \in BOOLEAN
  /\ clusterConf \in Confs /\ nodeConf \in [NodeIds -> Confs \cup {NoConf}]

(* cluster.Inst(), then one call on the manager that changes nothing:     *)
(* Inst's error is a 500 before the call, the call's error a 500 (mayFail) *)
(* and otherwise the result is encoded with 200.                           *)
Query(call, doc, mayFail) ==
  /\ \/ Answer("500", NoCall, doc)
     \/ \E code \in IF mayFail THEN {"200", "500"} ELSE {"200"} : Answer(code, call, doc)
  /\ UNCHANGED <<alerts, cleared>> /\ UNCHANGED cvars

\* getClusterConf: inst.GetClusterConf().
GetClusterConf ==
  LET call == NodeCall("GetClusterConf", NoParam) IN Query(call, call, TRUE)

\* getNodeConf: inst.GetNodeConf(vars["id"]).
GetNodeConf ==
  \E rt \in RoutesTo(ClusterRoutes, "getNodeConf"), n \in NodeIds :
    LET call == NodeCall("GetNodeConf", MuxVar(rt, "id", n)) IN Query(call, call, TRUE)

\* enumerate and status: inst.Enumerate(); status encodes only its Status.
Enumerate ==
  LET call == NodeCall("Enumerate", NoParam) IN Query(call, call, TRUE)

\* gossipState: inst.GetGossipState(), which returns no error.
GossipState ==
  LET call == NodeCall("GetGossipState", NoParam) IN Query(call, call, FALSE)

\* nodeStatus: nodeStatusIntl, i.e. cluster.Inst() then inst.NodeStatus().
NodeStatus ==
  LET call == NodeCall("NodeStatus", NoParam) IN Query(call, call, TRUE)

(* nodeHealth: nodeStatusIntl; its error, or a status other than OK, is a *)
(* 503; an OK status is a 200.                                             *)
NodeHealth ==
  LET call == NodeCall("NodeStatus", NoParam) IN
  /\ \/ Answer("503", NoCall, call)
     \/ \E code \in {"200", "503"} : Answer(code, call, call)
  /\ UNCHANGED <<alerts, cleared>> /\ UNCHANGED cvars

(* inspect: vars["id"]; a missing or empty id is a 400, checked after     *)
(* cluster.Inst(); then inst.Inspect(id).                                  *)
InspectNode ==
  \E rt \in RoutesTo(ClusterRoutes, "inspect"), n \in NodeIds :
    LET id == MuxVar(rt, "id", n)
        call == NodeCall("Inspect", id)
    IN IF id = "" THEN /\ Answer("400", NoCall, call)
                       /\ UNCHANGED <<alerts, cleared>> /\ UNCHANGED cvars
       ELSE Query(call, call, TRUE)

(* peerStatus: the query parameter name (missing or empty: 400), then     *)
(* cluster.Inst() and inst.PeerStatus(name).  Its swagger comment says     *)
(* "in: path" for name, but the path it documents, /cluster/peerstatus,   *)
(* has no {name} segment, so the query is the only reading it admits.     *)
PeerStatus ==
  \E name \in NodeIds \cup {NoParam} :
    LET call == NodeCall("PeerStatus", name) IN
    IF name = NoParam THEN /\ Answer("400", NoCall, NoCall)
                           /\ UNCHANGED <<alerts, cleared>> /\ UNCHANGED cvars
    ELSE Query(call, call, TRUE)

(* enableGossip and disableGossip: cluster.Inst(), then                   *)
(* inst.EnableUpdates() or inst.DisableUpdates(), which return nothing.    *)
(* Neither has a swagger comment.                                          *)
SetGossip(on) ==
  LET call == NodeCall(IF on THEN "EnableUpdates" ELSE "DisableUpdates", NoParam) IN
  /\ \/ /\ Answer("500", NoCall, NoCall) /\ UNCHANGED gossip
     \/ /\ Answer("200", call, call) /\ gossip' = on
  /\ UNCHANGED <<alerts, cleared, members, clusterConf, nodeConf>>

(* setClusterConf and setNodeConf: cluster.Inst(); the body read          *)
(* (ioutil.ReadAll) and json.Unmarshal, each a 500 on failure; then        *)
(* inst.SetClusterConf or inst.SetNodeConf, a 500 on failure, and the      *)
(* configuration is echoed with 200.  A node configuration names its node. *)
SetConf(node) ==
  \E body \in IF node THEN [id : NodeIds, conf : Confs] \cup {BadBody}
               ELSE Confs \cup {BadBody} :
    LET call == NodeCall(IF node THEN "SetNodeConf" ELSE "SetClusterConf", body)
        doc == IF body = BadBody THEN NoCall ELSE call
    IN
    /\ \/ /\ Answer("500", NoCall, doc)
          /\ UNCHANGED <<clusterConf, nodeConf>>
       \/ /\ body # BadBody
          /\ Answer("500", call, doc)
          /\ UNCHANGED <<clusterConf, nodeConf>>
       \/ /\ body # BadBody
          /\ Answer("200", call, doc)
          /\ IF node THEN nodeConf' = [nodeConf EXCEPT ![body.id] = body.conf]
                          /\ UNCHANGED clusterConf
             ELSE clusterConf' = body /\ UNCHANGED nodeConf
    /\ UNCHANGED <<alerts, cleared, members, gossip>>

(* delete: the node ids are the values of the query parameter id (none:   *)
(* 400), forceRemove is parsed with ParseBool (failure: 400); then         *)
(* cluster.Inst() (500) and inst.Remove(nodes, forceRemove), whose error   *)
(* goes in the body of a 200.  The swagger comment documents DELETE        *)
(* /cluster/{id} with the node in the path; DELETE /cluster has none.      *)
DeleteNode ==
  \E rt \in RoutesTo(ClusterRoutes, "delete"), n \in NodeIds,
     ids \in (SUBSET NodeIds \ {{}}) \cup {NoParam}, f \in ForceTexts \cup {NoParam} :
    LET forceOk == f = NoParam \/ f \in {"true", "false"}
        call == NodeCall("Remove", [nodes |-> ids, force |-> f = "true"])
        documented == "id" \in PathVars(rt.path)
        doc == IF ~forceOk THEN NoCall
               ELSE NodeCall("Remove", [nodes |-> {MuxVar(rt, "id", n)}, force |-> f = "true"])
        Reply(code, c) == Answer(code, c, IF documented THEN doc ELSE c)
    IN
    /\ \/ /\ ids = NoParam \/ ~forceOk
          /\ Reply("400", NoCall) /\ UNCHANGED members
       \/ /\ ids # NoParam /\ forceOk
          /\ \/ Reply("500", NoCall) /\ UNCHANGED members
             \/ Reply("200", call) /\ members' = members \ ids
             \/ Reply("200", call) /\ UNCHANGED members
    /\ UNCHANGED <<alerts, cleared, gossip, clusterConf, nodeConf>>

(* shutdown: sendNotImplemented, a 501 (documented as not implemented);   *)
(* versions: the constant list of API versions.                           *)
Unimplemented ==
  /\ \/ Answer("501", NoCall, NoCall)
     \/ Answer("200", NoCall, NoCall)
  /\ UNCHANGED <<alerts, cleared>> /\ UNCHANGED cvars

\* An alert request leaves the rest of the manager alone.
AlertStep == (EnumerateAlerts \/ ClearAlert \/ EraseAlert) /\ UNCHANGED cvars

APINext ==
  \/ AlertStep
  \/ GetClusterConf \/ GetNodeConf \/ Enumerate \/ GossipState \/ NodeStatus
  \/ NodeHealth \/ InspectNode \/ PeerStatus \/ SetGossip(TRUE) \/ SetGossip(FALSE)
  \/ SetConf(FALSE) \/ SetConf(TRUE) \/ DeleteNode \/ Unimplemented

APISpec == APIInit /\ [][APINext]_allVars
=============================================================================
