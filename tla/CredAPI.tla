------------------------------ MODULE CredAPI ------------------------------
(***************************************************************************)
(* The credential REST handlers of src/api/server/creds.go, composed with  *)
(* the credential manager they call.  Each worker goroutine of CredManager *)
(* now serves one HTTP request at a time: the handler decodes the body,    *)
(* gets the manager with creds.Inst(), runs one manager operation (the     *)
(* steps of CredManager) and encodes a response.                           *)
(*                                                                         *)
(* The routes declare no {uuid} path variable (Routes), so                 *)
(* mux.Vars(r)["uuid"] is "": Update and Delete pass on "", whatever id   *)
(* the client named.                                                      *)
(***************************************************************************)
EXTENDS CredManager, Routes

\* A client can name "", the id the handlers get from an undeclared {uuid}.
ASSUME "" \in ClientIds

VARIABLES
  inited,  \* creds.Init has set inst
  api,     \* "idle", or "in_call" while the handler waits on the manager
  resp,    \* what the client got for its last request
  named    \* ghost: the id the request in progress named, or NoId

apiVars == <<inited, api, resp, named>>
allVars == <<vars, apiVars>>

Resps == {"none", "data", "error", "panic", "dropped", "noroute"}

APITypeOK ==
  /\ TypeOK
  /\ inited \in BOOLEAN
  /\ api \in [Procs -> {"idle", "in_call"}]
  /\ resp \in [Procs -> Resps]
  /\ named \in [Procs -> Ids \cup {NoId}]

APIInit ==
  /\ Init
  /\ inited = FALSE
  /\ api = [p \in Procs |-> "idle"]
  /\ resp = [p \in Procs |-> "none"]
  /\ named = [p \in Procs |-> NoId]

(* creds.Init: sets inst once the kvdb instance exists.  A second Init    *)
(* returns errCredsInitialized and changes nothing.                        *)
InitCreds ==
  /\ ~inited
  /\ inited' = TRUE
  /\ UNCHANGED <<vars, api, resp, named>>

(* The handler answers without calling the manager: the body does not     *)
(* decode (create, update: 400) or creds.Inst() fails (500).               *)
Reject(p, o) ==
  /\ \/ o \in {"create", "update"}
     \/ ~inited
  /\ resp' = [resp EXCEPT ![p] = "error"]
  /\ UNCHANGED <<vars, inited, api, named>>

(* Decode and creds.Inst() succeed and the manager is called.  Create's   *)
(* uuid is minted inside the manager; Update and Delete pass               *)
(* mux.Vars(r)["uuid"] of the route rt that matched, for the id w the      *)
(* caller named.                                                           *)
Dispatch(p, rt, w) ==
  LET o == rt.fn IN
  /\ inited
  /\ \E i \in CASE o = "create" -> FreshUuids
                [] o \in {"update", "delete"} -> {MuxVar(rt, "uuid", w)}
                [] OTHER -> {NoId} :
       \E v \in IF o \in {"create", "update"} THEN Vals ELSE {NoVal} :
         Call(p, o, i, v)
  /\ api' = [api EXCEPT ![p] = "in_call"]
  /\ named' = [named EXCEPT ![p] = IF o \in {"update", "delete"} THEN w ELSE NoId]
  /\ UNCHANGED <<inited, resp>>

(* The request the credential client library (api/client/creds) sends for *)
(* operation o on id w: the verb and path it builds, under the version     *)
(* prefix client.Client adds.  Delete's "?uuid=" is a query, not a path    *)
(* segment.                                                                *)
ClientReq(o, w) ==
  CASE o = "list"   -> [verb |-> "GET",  path |-> <<"v1", "creds", "listcreds">>]
    [] o = "create" -> [verb |-> "POST", path |-> <<"v1", "creds", "addcreds">>]
    [] o = "update" -> [verb |-> "PUT",  path |-> <<"v1", "creds", "addcreds", w>>]
    [] OTHER        -> [verb |-> "GET",  path |-> <<"v1", "creds", "deletecreds">>]

\* Any other HTTP caller sends the verb and path of a route of o.
DirectReqs(o, w) == {[verb |-> rt.verb, path |-> Fill(rt.path, w)] : rt \in RoutesTo(CredRoutes, o)}

(* A request reaches a goroutine that is free.  mux finds no route for it *)
(* (404 or 405, no handler runs), or runs the handler of the route.       *)
Request(p) ==
  /\ api[p] = "idle"
  /\ pc[p] = "idle"
  /\ \E o \in Ops, w \in Nameable :
     \E rq \in {ClientReq(o, w)} \cup DirectReqs(o, w) :
       \/ /\ Routed(CredRoutes, rq.verb, rq.path) = {}
          /\ resp' = [resp EXCEPT ![p] = "noroute"]
          /\ UNCHANGED <<vars, inited, api, named>>
       \/ \E rt \in Routed(CredRoutes, rq.verb, rq.path) : Reject(p, rt.fn) \/ Dispatch(p, rt, w)

(* The manager returned.  An error is sent as a 500.  List encodes the    *)
(* map; create, update and delete build CredentialResponse{err.Error()}   *)
(* with err nil, which panics: net/http closes the connection unanswered. *)
(* A worker whose node crashed answers nothing either.                     *)
Respond(p) ==
  /\ api[p] = "in_call"
  /\ pc[p] = "idle"
  /\ resp' = [resp EXCEPT ![p] =
                CASE ret[p] = "none" -> "dropped"
                  [] ret[p] = "err"  -> "error"
                  [] op[p] = "list"  -> "data"
                  [] OTHER           -> "panic"]
  /\ api' = [api EXCEPT ![p] = "idle"]
  /\ named' = [named EXCEPT ![p] = NoId]
  /\ UNCHANGED <<vars, inited>>

Worker(p) == Step(p) /\ UNCHANGED apiVars

APINext ==
  \/ InitCreds
  \/ \E p \in Procs : Request(p) \/ Worker(p) \/ Respond(p)
  \/ \E p \in Procs : Crash(p) /\ UNCHANGED apiVars
  \/ Expire /\ UNCHANGED apiVars

(* The manager's steps and TTL expiry are fair as in CredManager; a       *)
(* handler whose manager call returned goes on to write its response.      *)
APIFairness ==
  /\ \A p \in Procs : WF_allVars(Worker(p)) /\ WF_allVars(Respond(p))
  /\ WF_allVars(Expire /\ UNCHANGED apiVars)

APISpec == APIInit /\ [][APINext]_allVars
APIFairSpec == APISpec /\ APIFairness

(***************************************************************************)
(* Properties.                                                             *)
(***************************************************************************)

(* A create the client sees fail has stored nothing: when the handler     *)
(* answers a create with an error or closes the connection unanswered      *)
(* (creds.go:44, err.Error() on a nil error), the uuid the manager minted  *)
(* is not in the credential document.  Otherwise a client that retries the *)
(* failed create stores a second credential under a fresh uuid.            *)
FailedCreateNotStored ==
  [][\A p \in Procs :
       (api[p] = "in_call" /\ api'[p] = "idle" /\ op[p] = "create"
          /\ resp'[p] \in {"error", "panic"})
         => uid[p] \notin DOMAIN Meta(kv)]_allVars

(* A request is honoured as it was sent: every call of the credential     *)
(* client library reaches the handler of its operation (api/client/creds  *)
(* and credAPI.Routes agree on verb and path), and an update or delete     *)
(* that reaches the manager acts on the id the request named, not on the  *)
(* mux.Vars value of a {uuid} the route does not declare.                 *)
RequestHonoured ==
  \A p \in Procs :
    /\ resp[p] # "noroute"
    /\ (api[p] = "in_call" /\ op[p] \in {"update", "delete"}) => uid[p] = named[p]

=============================================================================
