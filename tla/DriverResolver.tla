--------------------------- MODULE DriverResolver ---------------------------
(***************************************************************************)
(* getVolDriver of src/api/server/volume.go: the driver a volume request   *)
(* is served by.  Three registry lookups, made one after the other: the    *)
(* first "/"-segment of the User-Agent, then <name>-sched, then <name>.    *)
(* Drivers may be registered and unregistered while requests run; each     *)
(* volumedrivers.Get reads the registry as it is at that moment.           *)
(***************************************************************************)
EXTENDS Sequences

CONSTANTS Procs,     \* concurrent request goroutines
          Names,     \* driver names that can be registered
          BaseName,  \* vd.name, the name of the volume API
          Agents,    \* first "/"-segment of a non-empty User-Agent header
          NoAgent,   \* the request has no User-Agent header
          NotFound   \* volumedrivers.Get returned an error

VARIABLES registry,  \* names volumedrivers.Get finds
          rpc,       \* the lookup each request is at
          agent,     \* the request's User-Agent segment
          result,    \* the driver getVolDriver returned
          stable     \* the registry has not changed since the call began

vars == <<registry, rpc, agent, result, stable>>

\* const schedDriverPostFix = "-sched"
SchedName == BaseName \o "-sched"

(* The precedence of spec section 4.2, evaluated on one registry state:   *)
(* the reference that getVolDriver's lookups are checked against.          *)
Choice(reg, a) ==
  CASE a \in reg         -> a
    [] SchedName \in reg -> SchedName
    [] BaseName \in reg  -> BaseName
    [] OTHER             -> NotFound

TypeOK ==
  /\ registry \subseteq Names
  /\ rpc \in [Procs -> {"idle", "agent", "sched", "default", "done"}]
  /\ agent \in [Procs -> Agents \cup {NoAgent}]
  /\ result \in [Procs -> Names \cup {NotFound}]
  /\ stable \in [Procs -> BOOLEAN]

Init ==
  /\ registry \in SUBSET Names
  /\ rpc = [p \in Procs |-> "idle"]
  /\ agent = [p \in Procs |-> NoAgent]
  /\ result = [p \in Procs |-> NotFound]
  /\ stable = [p \in Procs |-> TRUE]

(* A request arrives.  With no User-Agent header the first lookup is      *)
(* skipped; strings.Split always yields a first segment, even "".          *)
Call(p) ==
  /\ rpc[p] \in {"idle", "done"}
  /\ \E a \in Agents \cup {NoAgent} :
       /\ agent' = [agent EXCEPT ![p] = a]
       /\ rpc' = [rpc EXCEPT ![p] = IF a = NoAgent THEN "sched" ELSE "agent"]
  /\ result' = [result EXCEPT ![p] = NotFound]
  /\ stable' = [stable EXCEPT ![p] = TRUE]
  /\ UNCHANGED registry

(* volumedrivers.Get(name): on success return the driver, else go on to   *)
(* the next lookup.                                                        *)
Lookup(p, at, name, next) ==
  /\ rpc[p] = at
  /\ IF name \in registry
     THEN /\ result' = [result EXCEPT ![p] = name]
          /\ rpc' = [rpc EXCEPT ![p] = "done"]
     ELSE /\ rpc' = [rpc EXCEPT ![p] = next]
          /\ UNCHANGED result
  /\ UNCHANGED <<registry, agent, stable>>

LookupAgent(p) == Lookup(p, "agent", agent[p], "sched")

(* Mutant: the bare name is looked up where <name>-sched should be.      *)
LookupSchedBaseFirst(p) == Lookup(p, "sched", BaseName, "default")

LookupSched(p) == Lookup(p, "sched", SchedName, "default")

\* The default lookup: its error, if any, is getVolDriver's error.
LookupDefault(p) == Lookup(p, "default", BaseName, "done")

\* Another goroutine registers or removes a driver.
ChangeRegistry ==
  /\ \E n \in Names :
       \/ registry' = registry \cup {n}
       \/ registry' = registry \ {n}
  /\ registry' # registry
  /\ stable' = [p \in Procs |-> FALSE]
  /\ UNCHANGED <<rpc, agent, result>>

Next ==
  \/ \E p \in Procs : Call(p) \/ LookupAgent(p) \/ LookupSched(p) \/ LookupDefault(p)
  \/ ChangeRegistry

Spec == Init /\ [][Next]_vars

(***************************************************************************)
(* Properties.                                                             *)
(***************************************************************************)

(* When no driver was registered or removed while the request ran,        *)
(* getVolDriver returns exactly the precedence choice: the User-Agent's    *)
(* driver, else <name>-sched, else <name>, else an error (spec 4.2, 8).    *)
ResolvesByPrecedence ==
  \A p \in Procs :
    (rpc[p] = "done" /\ stable[p]) => result[p] = Choice(registry, agent[p])

=============================================================================
