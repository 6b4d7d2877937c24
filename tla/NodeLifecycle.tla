---------------------------- MODULE NodeLifecycle ---------------------------
(***************************************************************************)
(* The requests that connect and disconnect nodes (node_handler.go,        *)
(* handler.go, provision_discovery.go), composed of the connection manager *)
(* (ConnManager) and the part of the workspace they use: the settings of a *)
(* node and its persisted connectionStatus.                                *)
(*                                                                         *)
(* A request is a sequence of calls, each atomic under the lock of the     *)
(* store or of the manager; calls of different requests interleave.  A     *)
(* dial is one call: it holds the manager's lock for as long as it takes,  *)
(* and pg.Client.Connect sets no limit to that.                            *)
(***************************************************************************)
EXTENDS Naturals, FiniteSets

CONSTANTS Node,        \* nodes of the workspace
          Direct,      \* the manager's entry "__direct__" of POST /api/connect
          Config, NoConfig, NoNode,
          Request,     \* requests in progress
          MaxClients,  \* bound: clients opened in a behaviour
          MaxRequests, \* bound: requests made in a behaviour
          MaxEdits,    \* bound: edits of the workspace in a behaviour
          MaxRestarts  \* bound: restarts of the process

(* "__direct__" is the id of no node of the workspace.                      *)
ASSUME DirectAssumption == Direct \notin Node
ASSUME ClientsAssumption == MaxClients \in Nat

VARIABLES
  cfgStore, conns, active, opened, owner, fresh,  \* the manager
  usedCfg,   \* usedCfg[k]: the settings client k was opened with
  nodeCfg,   \* nodeCfg[n]: n's settings in the workspace, NoConfig if none
  status,    \* status[n]: n's persisted connectionStatus
  pc,        \* pc[r]: the call request r makes next
  target,    \* target[r]: the node r is about
  readCfg,   \* readCfg[r]: the settings r has read
  settled,   \* settled[n]: n's last activation or deactivation ran alone,
             \* its status writes succeeded, and n was left alone since
  spoilt,    \* spoilt[n]: the last outcome of a request on n was not
             \* recorded, or an old list was written over n since
  past,      \* past[n]: the settings and statuses n has had in the workspace
  made, edits, restarts

Entry == Node \cup {Direct}
CM == INSTANCE ConnManager WITH Node <- Entry, Reader <- {},
        loaded <- <<>>, result <- <<>>

mgrVars == <<cfgStore, conns, active, opened, owner, fresh, usedCfg>>
wsVars  == <<nodeCfg, status>>
reqVars == <<pc, target, readCfg>>
counts  == <<made, edits, restarts>>
vars == <<mgrVars, wsVars, reqVars, settled, spoilt, past, counts>>

Init ==
  /\ CM!Init
  /\ usedCfg = [k \in CM!ClientId |-> NoConfig]
  /\ nodeCfg \in [Node -> Config \cup {NoConfig}]
  /\ status = [n \in Node |-> "unknown"]
  /\ pc = [r \in Request |-> "idle"]
  /\ target = [r \in Request |-> Direct]
  /\ readCfg = [r \in Request |-> NoConfig]
  /\ settled = [n \in Node |-> FALSE] /\ spoilt = [n \in Node |-> FALSE]
  /\ past = [n \in Node |-> {<<nodeCfg[n], status[n]>>}]
  /\ made = 0 /\ edits = 0 /\ restarts = 0

-----------------------------------------------------------------------------
Busy(n) == {r \in Request : pc[r] # "idle" /\ target[r] = n}
Exists(n) == n \in Node /\ nodeCfg[n] # NoConfig

(* Request r starts on n; ends says that it settles n if it runs alone.    *)
(* A request that overlaps another on the same node unsettles it.          *)
Start(r, n, c, next, settles) ==
  /\ pc[r] = "idle" /\ made < MaxRequests
  /\ made' = made + 1
  /\ target' = [target EXCEPT ![r] = n]
  /\ readCfg' = [readCfg EXCEPT ![r] = c]
  /\ pc' = [pc EXCEPT ![r] = next]
  /\ settled' = [m \in Node |-> IF m # n THEN settled[m]
                                ELSE Busy(n) = {} /\ (settles \/ settled[m])]
  /\ UNCHANGED <<spoilt, edits, restarts>>

Continue(r, next) ==
  /\ pc' = [pc EXCEPT ![r] = next]
  /\ UNCHANGED <<target, readCfg, counts>>
Goto(r, next) == Continue(r, next) /\ UNCHANGED <<settled, spoilt>>

(* UpdateNodeStatus: an error, and nothing is written, when the node is    *)
(* gone or the file cannot be read or written.                             *)
SetStatus(n, s, ok) ==
  /\ ok => Exists(n)
  /\ status' = IF ok THEN [status EXCEPT ![n] = s] ELSE status
  /\ settled' = IF ok THEN settled ELSE [settled EXCEPT ![n] = FALSE]
  /\ spoilt' = [spoilt EXCEPT ![n] = ~ok /\ (@ \/ s # "connecting")]
  /\ UNCHANGED nodeCfg

-----------------------------------------------------------------------------
(* POST /api/nodes/{id}/activate: the settings are read from the workspace *)
(* ...                                                                     *)
ActivateRequest(r, n) ==
  /\ Exists(n)
  /\ Start(r, n, nodeCfg[n], "register", TRUE)
  /\ UNCHANGED <<mgrVars, wsVars>>

(* ... registered with the manager ...                                     *)
ActivateRegister(r) ==
  /\ pc[r] = "register"
  /\ CM!Register(target[r], readCfg[r])
  /\ Goto(r, "connecting")
  /\ UNCHANGED <<usedCfg, wsVars>>

(* ... the status becomes "connecting" (an error ends the request) ...     *)
ActivateConnecting(r) ==
  /\ pc[r] = "connecting"
  /\ \E ok \in BOOLEAN :
       /\ SetStatus(target[r], "connecting", ok)
       /\ Continue(r, IF ok THEN "dial" ELSE "idle")
  /\ UNCHANGED mgrVars

(* Dialling with the settings the manager holds by now.                    *)
Dial(r) ==
  /\ CM!Activate(target[r])
  /\ usedCfg' = [usedCfg EXCEPT ![fresh] = cfgStore[target[r]]]

ActivateDial(r) ==
  /\ pc[r] = "dial"
  /\ Dial(r)
  /\ Goto(r, "ready")
  /\ UNCHANGED wsVars

ActivateDialFails(r) ==
  /\ pc[r] = "dial"
  /\ Goto(r, "failed")
  /\ UNCHANGED <<mgrVars, wsVars>>

(* Slip: the failed activation returns without recording the failure.      *)
ActivateEndOnlyReady(r) ==
  /\ pc[r] \in {"ready", "failed"}
  /\ \/ pc[r] = "ready" /\ \E ok \in BOOLEAN : SetStatus(target[r], pc[r], ok)
     \/ pc[r] = "failed" /\ UNCHANGED <<wsVars, settled, spoilt>>
  /\ Continue(r, "idle")
  /\ UNCHANGED mgrVars

(* ... and the outcome is recorded; an error of the store is ignored.      *)
ActivateEnd(r) ==
  /\ pc[r] \in {"ready", "failed"}
  /\ \E ok \in BOOLEAN : SetStatus(target[r], pc[r], ok)
  /\ Continue(r, "idle")
  /\ UNCHANGED mgrVars

(* POST /api/nodes/{id}/deactivate.                                        *)
DeactivateRequest(r, n) ==
  /\ CM!Deactivate(n)
  /\ Start(r, n, NoConfig, "deactivated", TRUE)
  /\ UNCHANGED <<usedCfg, wsVars>>

(* Slip: the status is left as it was.                                     *)
DeactivateKeepsStatus(r) ==
  /\ pc[r] = "deactivated"
  /\ Goto(r, "idle")
  /\ UNCHANGED <<mgrVars, wsVars>>

DeactivateEnd(r) ==
  /\ pc[r] = "deactivated"
  /\ \E ok \in BOOLEAN : SetStatus(target[r], "unknown", ok)
  /\ Continue(r, "idle")
  /\ UNCHANGED mgrVars

-----------------------------------------------------------------------------
(* inspectNodeByID, called for every node by GET /api/cluster/{id}/overview: *)
(* a node that is connected is used as it is ...                           *)
OverviewRequest(r, n) ==
  /\ Exists(n)
  /\ Start(r, n, nodeCfg[n], "get", FALSE)
  /\ UNCHANGED <<mgrVars, wsVars>>

OverviewGet(r) ==
  /\ pc[r] = "get"
  /\ Goto(r, IF conns[target[r]] = CM!NoClient THEN "registerOnly" ELSE "idle")
  /\ UNCHANGED <<mgrVars, wsVars>>

(* POST /api/connect and the auto-connect of an imported or provisioned    *)
(* node (tryConnectNode) first open a client of their own, to see whether  *)
(* the database answers; nobody closes it.                                 *)
ConnectRequest(r, c) ==
  /\ Start(r, Direct, c, "probe", FALSE)
  /\ UNCHANGED <<mgrVars, wsVars>>

ImportRequest(r, n, c) ==
  /\ nodeCfg[n] = NoConfig
  /\ Start(r, n, c, "probe", FALSE)
  /\ nodeCfg' = [nodeCfg EXCEPT ![n] = c]
  /\ status' = [status EXCEPT ![n] = "unknown"]
  /\ UNCHANGED mgrVars

Probe(r) ==
  /\ pc[r] = "probe"
  /\ CM!Connect(target[r])
  /\ usedCfg' = [usedCfg EXCEPT ![fresh] = readCfg[r]]
  /\ Goto(r, "registerOnly")
  /\ UNCHANGED <<cfgStore, conns, active, wsVars>>

(* ... otherwise, as for a client that answered, the node is registered    *)
(* and activated; no status is recorded, and an error is not reported.     *)
RegisterOnly(r) ==
  /\ pc[r] = "registerOnly"
  /\ CM!Register(target[r], readCfg[r])
  /\ Goto(r, "dialOnly")
  /\ UNCHANGED <<usedCfg, wsVars>>

DialOnly(r) ==
  /\ pc[r] = "dialOnly"
  /\ Dial(r)
  /\ Goto(r, "idle")
  /\ UNCHANGED wsVars

DialOnlyFails(r) ==
  /\ pc[r] \in {"dialOnly", "probe"}
  /\ Goto(r, "idle")
  /\ UNCHANGED <<mgrVars, wsVars>>

(* POST /api/nodes/{id}/register replaces the manager's settings only.     *)
RegisterRequest(n, c) ==
  /\ edits < MaxEdits /\ edits' = edits + 1
  /\ CM!Register(n, c)
  /\ settled' = [settled EXCEPT ![n] = FALSE]
  /\ UNCHANGED <<usedCfg, wsVars, reqVars, spoilt, made, restarts>>

(* Editing or deleting a node changes the workspace only: its connection,  *)
(* if there is one, stays.                                                 *)
EditNode(n, c) ==
  /\ Exists(n) /\ c # nodeCfg[n]
  /\ edits < MaxEdits /\ edits' = edits + 1
  /\ nodeCfg' = [nodeCfg EXCEPT ![n] = c]
  /\ settled' = [settled EXCEPT ![n] = FALSE]
  /\ UNCHANGED <<mgrVars, status, reqVars, spoilt, made, restarts>>

(* PUT projects, and the writers that read and write in two steps, put     *)
(* back what was read earlier, the status included.                        *)
WriteBack(n) ==
  /\ edits < MaxEdits /\ edits' = edits + 1
  /\ \E e \in past[n] \ {<<nodeCfg[n], status[n]>>} :
       /\ nodeCfg' = [nodeCfg EXCEPT ![n] = e[1]]
       /\ status' = [status EXCEPT ![n] = e[2]]
  /\ settled' = [settled EXCEPT ![n] = FALSE]
  /\ spoilt' = [spoilt EXCEPT ![n] = TRUE]
  /\ UNCHANGED <<mgrVars, reqVars, made, restarts>>

(* The process is killed and started again: the status is persistent.      *)
Restart ==
  /\ restarts < MaxRestarts /\ restarts' = restarts + 1
  /\ cfgStore' = [n \in Entry |-> NoConfig]
  /\ conns' = [n \in Entry |-> CM!NoClient]
  /\ active' = NoNode
  /\ opened' = {}
  /\ pc' = [r \in Request |-> "idle"]
  /\ settled' = [n \in Node |-> FALSE]
  /\ UNCHANGED <<owner, fresh, usedCfg, wsVars, target, readCfg, spoilt, made, edits>>

CallEnds(r) ==
  \/ ActivateRegister(r) \/ ActivateConnecting(r) \/ ActivateEnd(r) \/ DeactivateEnd(r)
  \/ OverviewGet(r) \/ RegisterOnly(r)
DialEnds(r) ==
  \/ ActivateDial(r) \/ ActivateDialFails(r) \/ Probe(r) \/ DialOnly(r) \/ DialOnlyFails(r)

Step ==
  \/ \E r \in Request :
       \/ CallEnds(r) \/ DialEnds(r)
       \/ \E n \in Node : \/ ActivateRequest(r, n) \/ DeactivateRequest(r, n)
                          \/ OverviewRequest(r, n)
                          \/ \E c \in Config : ImportRequest(r, n, c)
       \/ \E c \in Config : ConnectRequest(r, c)
  \/ \E n \in Node : \E c \in Config : RegisterRequest(n, c) \/ EditNode(n, c)
  \/ \E n \in Node : EditNode(n, NoConfig) \/ WriteBack(n)
  \/ Restart

(* What the workspace has had may be read at any time, and written back at *)
(* any later one, as long as the bound allows a write.                     *)
Remember ==
  past' = [n \in Node |-> IF edits' = MaxEdits THEN {}
                          ELSE past[n] \cup {<<nodeCfg'[n], status'[n]>>}]
Next == Step /\ Remember

Spec == Init /\ [][Next]_vars

(* A call of a request returns when it gets the locks it needs.  Nothing   *)
(* is said of a dial.                                                      *)
FairSpec == Spec /\ \A r \in Request : WF_vars(CallEnds(r) /\ Remember)

-----------------------------------------------------------------------------
(* Statuses and program counters are the ones the code uses.               *)
TypeOK ==
  /\ status \in [Node -> {"unknown", "connecting", "ready", "failed"}]
  /\ pc \in [Request -> {"idle", "register", "connecting", "dial", "ready",
                         "failed", "deactivated", "get", "probe",
                         "registerOnly", "dialOnly"}]
  /\ nodeCfg \in [Node -> Config \cup {NoConfig}]
  /\ target \in [Request -> Entry]
  /\ readCfg \in [Request -> Config \cup {NoConfig}]

(***************************************************************************)
(* What "ready" can be relied on for: when the last activation or          *)
(* deactivation of a node did not overlap another request on it and its    *)
(* status writes succeeded, and neither its settings were changed nor an   *)
(* old list was written over it since, and no request on it is in          *)
(* progress, a node recorded as ready is connected, with the settings the  *)
(* workspace has for it.                                                   *)
(***************************************************************************)
ReadyIsConnected ==
  \A n \in Node :
    (settled[n] /\ Busy(n) = {} /\ Exists(n) /\ status[n] = "ready") =>
      conns[n] # CM!NoClient /\ usedCfg[conns[n]] = nodeCfg[n]

(* The calls that dial a database.                                         *)
Dialling(r) == pc[r] \in {"dial", "dialOnly", "probe"}

(***************************************************************************)
(* If no dial goes on for ever, overlapping activations, deactivations and *)
(* deletions never leave a node at "connecting": the request that wrote it *)
(* replaces it, unless the process is restarted, that write fails, or an   *)
(* old list is written back.                                               *)
(***************************************************************************)
ConnectingSettles ==
  (\A r \in Request : []<>~Dialling(r)) =>
    \A n \in Node : (status[n] = "connecting" /\ Exists(n))
                      ~> (status[n] # "connecting" \/ ~Exists(n) \/ spoilt[n] \/ restarts > 0)
=============================================================================
