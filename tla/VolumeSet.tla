------------------------------ MODULE VolumeSet ------------------------------
(***************************************************************************)
(* volAPI.volumeSet of src/api/server/volume.go and its error rewriting,   *)
(* processErrorForVolSetResponse.  A request changes a volume's spec       *)
(* (Set), attaches or detaches it, mounts or unmounts it, and answers      *)
(* with the volume as Inspect then returns it.  Each driver call is one    *)
(* step, so the calls of concurrent requests, and the removal of a volume  *)
(* by another request, interleave.  The driver either implements the block *)
(* group or composes volume.BlockNotSupported, whose Attach and Detach     *)
(* fail with ErrNotSupported.  A driver call on a volume that no longer    *)
(* exists fails with ErrNotFound; any call may also fail otherwise.        *)
(***************************************************************************)
EXTENDS Routes, Sequences, FiniteSets, Naturals

CONSTANTS Procs,    \* request goroutines
          Volumes,  \* volume ids
          Paths,    \* MountPath texts, "" among them
          NoVol     \* the empty api.Volume{} of a response

Params == {"NONE", "ON", "OFF"}   \* VolumeActionParam

\* A decoded VolumeSetRequest: Locator or Spec present (set), the action.
Reqs == [vol : Volumes, set : BOOLEAN, attach : Params, mount : Params, path : Paths]

Stages == <<"set", "attach", "mount", "inspect">>
Outcomes == {"skipped", "ok", "notfound", "err", "invalid"}

VARIABLES
  block,     \* "capable", or "stub" when the driver composes BlockNotSupported
  exists,    \* volumes the driver knows
  attached,  \* volumes attached
  mounted,   \* volumes mounted
  pc,        \* the driver call each request is at, or "idle"
  req,       \* the request each goroutine serves
  calls,     \* ghost: the outcome of each stage of the current request
  resp       \* the response each goroutine wrote last

vars == <<block, exists, attached, mounted, pc, req, calls, resp>>

NoReq == [vol |-> CHOOSE v \in Volumes : TRUE, set |-> FALSE, attach |-> "NONE",
          mount |-> "NONE", path |-> ""]
NoCalls == [s \in {"set", "attach", "mount", "inspect"} |-> "skipped"]

TypeOK ==
  /\ block \in {"capable", "stub"}
  /\ attached \subseteq exists /\ mounted \subseteq exists /\ exists \subseteq Volumes
  /\ pc \in [Procs -> {"idle", "set", "attach", "mount", "inspect"}]
  /\ req \in [Procs -> Reqs]
  /\ calls \in [Procs -> [{"set", "attach", "mount", "inspect"} -> Outcomes]]
  /\ resp \in [Procs -> [kind : {"none", "ok", "error", "notfound"}, vol : Volumes \cup {NoVol}]]

Init ==
  /\ block \in {"capable", "stub"}
  /\ exists \in SUBSET Volumes
  /\ attached = {} /\ mounted = {}
  /\ pc = [p \in Procs |-> "idle"]
  /\ req = [p \in Procs |-> NoReq]
  /\ calls = [p \in Procs |-> NoCalls]
  /\ resp = [p \in Procs |-> [kind |-> "none", vol |-> NoVol]]

\* The stages request r runs: Set if it has a Locator or Spec, then each non-NONE action.
Needed(r, s) ==
  CASE s = "set"    -> r.set
    [] s = "attach" -> r.attach # "NONE"
    [] s = "mount"  -> r.mount # "NONE"
    [] OTHER        -> TRUE

\* The first needed stage after position i of Stages.
NextStage(r, i) ==
  LET rest == SelectSeq(SubSeq(Stages, i + 1, Len(Stages)), LAMBDA s : Needed(r, s))
  IN Head(rest)

Pos(s) == CHOOSE i \in 1..Len(Stages) : Stages[i] = s

(* Mutant: the type switch is lost and every error of a request that turns *)
(* something off is answered as success.                                   *)
ProcessErrSwallowAll(r, e) ==
  IF r.mount = "OFF" \/ r.attach = "OFF"
  THEN [kind |-> "ok", vol |-> NoVol]
  ELSE [kind |-> "error", vol |-> NoVol]

(* processErrorForVolSetResponse: when the action turns the mount or the   *)
(* attachment OFF, ErrNotFound becomes an empty success (VolumeResponse{}  *)
(* and Volume{}); every other error is returned in VolumeResponse.Error.   *)
ProcessErr(r, e) ==
  IF (r.mount = "OFF" \/ r.attach = "OFF") /\ e = "notfound"
  THEN [kind |-> "ok", vol |-> NoVol]
  ELSE [kind |-> "error", vol |-> NoVol]

Answer(p, a) == resp' = [resp EXCEPT ![p] = a]

(* The handler answers before any driver call: the body does not decode   *)
(* (400) or getVolDriver fails (404).  parseID cannot fail: the only       *)
(* route to volumeSet declares {id}.                                      *)
Reject(p) ==
  /\ pc[p] = "idle"
  /\ \E k \in {"error", "notfound"} : Answer(p, [kind |-> k, vol |-> NoVol])
  /\ UNCHANGED <<block, exists, attached, mounted, pc, req, calls>>

(* A request is decoded, its volume id taken from the route's {id}, and   *)
(* the handler goes to its first driver call.                             *)
Receive(p) ==
  /\ pc[p] = "idle"
  /\ \E rt \in RoutesTo(VolRoutes, "volumeSet"), r \in Reqs :
       LET r1 == [r EXCEPT !.vol = MuxVar(rt, "id", r.vol)] IN
       /\ "id" \in PathVars(rt.path)
       /\ req' = [req EXCEPT ![p] = r1]
       /\ pc' = [pc EXCEPT ![p] = NextStage(r1, 0)]
  /\ calls' = [calls EXCEPT ![p] = NoCalls]
  /\ UNCHANGED <<block, exists, attached, mounted, resp>>

(* What a driver call of stage s of request r can return.                 *)
CallOutcomes(r, s) ==
  CASE s = "attach" /\ block = "stub"                   -> {"err"}
    [] s = "mount" /\ r.mount = "ON" /\ r.path = ""     -> {"invalid"}
    [] r.vol \notin exists                              -> {"notfound"}
    [] OTHER                                            -> {"ok", "err"}

\* Attach or Detach, Mount or Unmount, as the action asks.
Toggle(set, on, v) == IF on = "ON" THEN set \cup {v} ELSE set \ {v}

(* One driver call: d.Set, d.Attach or d.Detach, d.Mount or d.Unmount (an *)
(* empty MountPath fails before the call).  On success the loop goes on;  *)
(* on error it breaks and the response is processErrorForVolSetResponse's. *)
Act(p) ==
  /\ pc[p] \in {"set", "attach", "mount"}
  /\ LET s == pc[p]
         r == req[p]
     IN \E o \in CallOutcomes(r, s) :
          /\ calls' = [calls EXCEPT ![p][s] = o]
          /\ IF o = "ok"
             THEN /\ pc' = [pc EXCEPT ![p] = NextStage(r, Pos(s))]
                  /\ attached' = IF s = "attach" THEN Toggle(attached, r.attach, r.vol) ELSE attached
                  /\ mounted' = IF s = "mount" THEN Toggle(mounted, r.mount, r.vol) ELSE mounted
                  /\ UNCHANGED resp
             ELSE /\ pc' = [pc EXCEPT ![p] = "idle"]
                  /\ Answer(p, ProcessErr(r, o))
                  /\ UNCHANGED <<attached, mounted>>
  /\ UNCHANGED <<block, exists, req>>

(* d.Inspect([volumeID]): one volume is the response; an error, or a list *)
(* that is not exactly one volume (ErrNotFound), goes through              *)
(* processErrorForVolSetResponse.                                          *)
Inspect(p) ==
  /\ pc[p] = "inspect"
  /\ \E o \in IF req[p].vol \in exists THEN {"ok", "err"} ELSE {"notfound", "err"} :
       /\ calls' = [calls EXCEPT ![p]["inspect"] = o]
       /\ Answer(p, IF o = "ok" THEN [kind |-> "ok", vol |-> req[p].vol]
                    ELSE ProcessErr(req[p], o))
  /\ pc' = [pc EXCEPT ![p] = "idle"]
  /\ UNCHANGED <<block, exists, attached, mounted, req>>

\* Another request deletes a volume.
RemoveVolume ==
  /\ \E v \in exists :
       /\ exists' = exists \ {v}
       /\ attached' = attached \ {v}
       /\ mounted' = mounted \ {v}
  /\ UNCHANGED <<block, pc, req, calls, resp>>

Next ==
  \/ \E p \in Procs : Reject(p) \/ Receive(p) \/ Act(p) \/ Inspect(p)
  \/ RemoveVolume

Spec == Init /\ [][Next]_vars

(***************************************************************************)
(* Properties.                                                             *)
(***************************************************************************)

(* A driver failure other than ErrNotFound (an I/O error, ErrNotSupported, *)
(* the invalid mount path) is never answered as success: the rewriting of  *)
(* processErrorForVolSetResponse hides only ErrNotFound.                   *)
FailuresReported ==
  \A p \in Procs :
    (pc[p] = "idle" /\ resp[p].kind = "ok") =>
      \A s \in DOMAIN calls[p] : calls[p][s] \notin {"err", "invalid"}

\* The stages that turn something on or change the volume.
TurnsOn(r, s) ==
  CASE s = "set"    -> r.set
    [] s = "attach" -> r.attach = "ON"
    [] s = "mount"  -> r.mount = "ON"
    [] OTHER        -> FALSE

(* A success response means every change the request asked for that is    *)
(* not a turning off (Set, Attach ON, Mount ON) was made.  ErrNotFound is  *)
(* answered as success whenever the action turns anything OFF, also when  *)
(* it was the Set or the Attach ON of the same request that failed.       *)
AppliedIfOk ==
  \A p \in Procs :
    (pc[p] = "idle" /\ resp[p].kind = "ok") =>
      \A s \in {"set", "attach", "mount"} : TurnsOn(req[p], s) => calls[p][s] = "ok"
=============================================================================
