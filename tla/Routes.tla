------------------------------- MODULE Routes -------------------------------
(***************************************************************************)
(* The REST route tables of src/api/server: volAPI.Routes (volume.go),    *)
(* credAPI.Routes (creds.go) and clusterApi.Routes (cluster.go).  A route *)
(* is a verb, a path template and the handler it dispatches to.  A path   *)
(* is a sequence of segments, each a literal or a {name} variable;       *)
(* gorilla/mux gives a handler, through mux.Vars(r), exactly the variables *)
(* of the template that matched, and a handler that reads any other name  *)
(* gets "".  Query parameters are not in mux.Vars.  The version prefix and the package path constants          *)
(* (api.OsdVolumePath, ...) are the first literal segments.                 *)
(***************************************************************************)
EXTENDS Sequences

Lit(s) == [lit |-> s]
Var(n) == [var |-> n]

\* volPath, snapPath and cloudSnapPath: "/v<version>/<package path><route>".
VolPath(segs) == <<Lit("v1"), Lit("osd-volumes")>> \o segs
SnapPath(segs) == <<Lit("v1"), Lit("osd-snapshot")>> \o segs
CloudSnapPath(segs) == <<Lit("v1"), Lit("osd-cloudsnapshot")>> \o segs
\* credPath: "/v<version>/creds<route>".
CredPath(segs) == <<Lit("v1"), Lit("creds")>> \o segs

Route(verb, path, fn) == [verb |-> verb, path |-> path, fn |-> fn]

VolRoutes == {
  Route("GET", <<Lit("osd-volumes"), Lit("versions")>>, "versions"),
  Route("POST", VolPath(<<>>), "create"),
  Route("PUT", VolPath(<<Var("id")>>), "volumeSet"),
  Route("GET", VolPath(<<>>), "enumerate"),
  Route("GET", VolPath(<<Var("id")>>), "inspect"),
  Route("DELETE", VolPath(<<Var("id")>>), "delete"),
  Route("GET", VolPath(<<Lit("stats")>>), "stats"),
  Route("GET", VolPath(<<Lit("stats"), Var("id")>>), "stats"),
  Route("GET", VolPath(<<Lit("usedsize")>>), "usedsize"),
  Route("GET", VolPath(<<Lit("usedsize"), Var("id")>>), "usedsize"),
  Route("GET", VolPath(<<Lit("requests")>>), "requests"),
  Route("GET", VolPath(<<Lit("requests"), Var("id")>>), "requests"),
  Route("POST", SnapPath(<<>>), "snap"),
  Route("GET", SnapPath(<<>>), "snapEnumerate"),
  Route("POST", SnapPath(<<Lit("restore"), Var("id")>>), "restore"),
  Route("GET", CloudSnapPath(<<Lit("getbkupcatalog")>>), "cloudsnapBackupCatalog"),
  Route("GET", CloudSnapPath(<<Lit("getbkupmeta")>>), "cloudsnapBackupMeta"),
  Route("POST", CloudSnapPath(<<Lit("backup")>>), "cloudsnapBackup"),
  Route("POST", CloudSnapPath(<<Lit("restore")>>), "cloudsnapRestore"),
  Route("GET", CloudSnapPath(<<Lit("listcloudsnaps")>>), "cloudsnapEnumerate"),
  Route("DELETE", CloudSnapPath(<<Lit("deletecloudsnaps")>>), "cloudsnapDelete"),
  Route("GET", CloudSnapPath(<<Lit("cloudsnapstatus")>>), "cloudsnapStatus"),
  Route("POST", CloudSnapPath(<<Lit("changestate")>>), "cloudsnapChangeState"),
  Route("PUT", CloudSnapPath(<<Lit("createcloudsnapsched")>>), "cloudsnapCreateSched"),
  Route("POST", CloudSnapPath(<<Lit("updatecloudsnapsched")>>), "cloudsnapUpdateSched"),
  Route("GET", CloudSnapPath(<<Lit("listcloudsnapsched")>>), "cloudsnapEnumerateSched"),
  Route("DELETE", CloudSnapPath(<<Lit("deletecloudsnapsched")>>), "cloudsnapDeleteSched")}

CredRoutes == {
  Route("GET", CredPath(<<Lit("listcreds")>>), "list"),
  Route("PUT", CredPath(<<Lit("addcreds")>>), "create"),
  Route("DELETE", CredPath(<<Lit("deletecreds")>>), "delete"),
  Route("POST", CredPath(<<Lit("updatecreds")>>), "update")}

\* clusterPath: "/v<version>/cluster<route>".
ClusterPath(segs) == <<Lit("v1"), Lit("cluster")>> \o segs
(* clusterApi.Routes.  client.UriCluster and client.UriNode are defined    *)
(* outside src/; the swagger comments give them as /config/cluster and    *)
(* /config/node.                                                           *)
ClusterRoutes == {
  Route("GET", <<Lit("cluster"), Lit("versions")>>, "versions"),
  Route("GET", ClusterPath(<<Lit("enumerate")>>), "enumerate"),
  Route("GET", ClusterPath(<<Lit("gossipstate")>>), "gossipState"),
  Route("GET", ClusterPath(<<Lit("nodestatus")>>), "nodeStatus"),
  Route("GET", ClusterPath(<<Lit("nodehealth")>>), "nodeHealth"),
  Route("GET", ClusterPath(<<Lit("status")>>), "status"),
  Route("GET", ClusterPath(<<Lit("peerstatus")>>), "peerStatus"),
  Route("GET", ClusterPath(<<Lit("inspect"), Var("id")>>), "inspect"),
  Route("DELETE", ClusterPath(<<>>), "delete"),
  Route("DELETE", ClusterPath(<<Var("id")>>), "delete"),
  Route("PUT", ClusterPath(<<Lit("enablegossip")>>), "enableGossip"),
  Route("PUT", ClusterPath(<<Lit("disablegossip")>>), "disableGossip"),
  Route("PUT", ClusterPath(<<Lit("shutdown")>>), "shutdown"),
  Route("PUT", ClusterPath(<<Lit("shutdown"), Var("id")>>), "shutdown"),
  Route("GET", ClusterPath(<<Lit("config"), Lit("cluster")>>), "getClusterConf"),
  Route("GET", ClusterPath(<<Lit("config"), Lit("node"), Var("id")>>), "getNodeConf"),
  Route("POST", ClusterPath(<<Lit("config"), Lit("cluster")>>), "setClusterConf"),
  Route("POST", ClusterPath(<<Lit("config"), Lit("node")>>), "setNodeConf"),
  Route("GET", ClusterPath(<<Lit("alerts"), Var("resource")>>), "enumerateAlerts"),
  Route("PUT", ClusterPath(<<Lit("alerts"), Var("resource"), Var("id")>>), "clearAlert"),
  Route("DELETE", ClusterPath(<<Lit("alerts"), Var("resource"), Var("id")>>), "eraseAlert")}

\* The {name} variables of a path template.
PathVars(path) == {path[i].var : i \in {j \in DOMAIN path : "var" \in DOMAIN path[j]}}

(* mux.Vars(r)[name] in handler fn, reached through route rt: the value    *)
(* the client put in that path segment, or "" when rt declares no such     *)
(* variable.                                                               *)
MuxVar(rt, name, given) == IF name \in PathVars(rt.path) THEN given ELSE ""

(* A request path is a sequence of segment texts.  A template matches it  *)
(* when it has as many segments, each literal equal and each {name} any.   *)
PathMatches(tpl, path) ==
  /\ Len(tpl) = Len(path)
  /\ \A i \in DOMAIN tpl : "lit" \in DOMAIN tpl[i] => tpl[i].lit = path[i]

\* The path a client builds from template tpl, putting w in every {name}.
Fill(tpl, w) == [i \in DOMAIN tpl |-> IF "lit" \in DOMAIN tpl[i] THEN tpl[i].lit ELSE w]

(* The routes of a table mux dispatches a request to: method and path both *)
(* match.  None is a 404 (no path matches) or a 405 (only the method       *)
(* differs); the handler never runs.                                       *)
Routed(table, verb, path) == {rt \in table : rt.verb = verb /\ PathMatches(rt.path, path)}

\* The routes of a table that dispatch to handler fn.
RoutesTo(table, fn) == {rt \in table : rt.fn = fn}
=============================================================================
