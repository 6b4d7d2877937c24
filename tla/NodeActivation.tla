--------------------------- MODULE NodeActivation ---------------------------
(***************************************************************************)
(* From the cluster page to a node: activating a node, which node the node *)
(* pages are about, and editing it there (ClusterHomeView.tsx,             *)
(* NodeHomeView.tsx, stores/pgStore.ts and the views of App.tsx).          *)
(*                                                                         *)
(* Three things name a node and are set apart from each other: the node    *)
(* the backend has made active, the active node of the store, and the      *)
(* node selected in the page, which a double click sets at once and the    *)
(* buttons of a card do not set at all.                                    *)
(*                                                                         *)
(* Cluster 1 has the nodes 1 and 2, cluster 2 the node 3.  Of a node only  *)
(* who wrote its connection data is kept: "own", or "form" once an edit    *)
(* was saved to it.                                                        *)
(***************************************************************************)
EXTENDS Naturals

CONSTANTS MaxActs,      \* bound: activations
          MaxReloads    \* bound: reloads of the workspace by a finished task

VARIABLES
  view,            \* currentView
  selC, selN,      \* selectedClusterId, selectedNodeId
  connected,       \* the page's connected, set from the store's and never reset
  activeNode,      \* activeNodeId of the store
  backendActive,   \* the node the backend has active
  acts,            \* activations under way
  editingNode,     \* the node whose edit form is open, 0 for none
  nodeData,        \* connection data of the nodes
  actCount, reloads,
  actsCrossed,     \* activations overlapped, or an answer was lost
  strayed,         \* the selection and what was activated have parted
  editMoved        \* the selection changed while the edit form was open

actVars == <<view, selC, selN, connected, activeNode, backendActive, acts, editingNode,
             nodeData, actCount, reloads, actsCrossed, strayed, editMoved>>

ClusterNodes(c) == IF c = 1 THEN {1, 2} ELSE {3}
FirstNode(c) == IF c = 1 THEN 1 ELSE 3
NodeViews == {"node_home", "sql"}

(* The node the pages are about: the selected one when it is of the        *)
(* selected cluster, else the first of the cluster.                        *)
NodeConfigOf(c, n) == IF n \in ClusterNodes(c) THEN n ELSE FirstNode(c)
selectedNodeConfig == NodeConfigOf(selC, selN)

(* renderView: a node page needs a connection, else a notice is shown.     *)
NodeViewShown == view \in NodeViews /\ connected

ActInit ==
  /\ view = "cluster_home" /\ selC = 1 /\ selN = 1
  /\ connected = FALSE /\ activeNode = 0 /\ backendActive = 0
  /\ acts = {} /\ editingNode = 0 /\ nodeData = [n \in 1..3 |-> "own"]
  /\ actCount = 0 /\ reloads = 0
  /\ actsCrossed = FALSE /\ strayed = FALSE /\ editMoved = FALSE

-----------------------------------------------------------------------------
(* Another view: the node page goes, and its edit form with it.            *)
setCurrentView(v) ==
  /\ view' = v
  /\ IF v = view THEN UNCHANGED <<editingNode, editMoved>>
                 ELSE editingNode' = 0 /\ editMoved' = FALSE

StartAct(n, v) ==
  /\ view = "cluster_home" /\ n \in ClusterNodes(selC)
  /\ actCount < MaxActs /\ actCount' = actCount + 1
  /\ acts' = acts \cup {[k |-> actCount + 1, node |-> n, view |-> v, st |-> "sent"]}
  /\ actsCrossed' = (actsCrossed \/ acts # {})
  /\ UNCHANGED <<view, selC, connected, activeNode, backendActive, editingNode, nodeData,
                 reloads, editMoved>>
handleNodeDoubleClick(n) == StartAct(n, "node_home") /\ selN' = n /\ UNCHANGED strayed
(* The buttons of a node's card.                                           *)
activateButton(n, v) ==
  StartAct(n, v) /\ strayed' = (strayed \/ n # selectedNodeConfig) /\ UNCHANGED selN

(* The backend activates the node and answers, refuses, or the answer is   *)
(* lost and the call throws before anything else is done.                  *)
BackendActivates(a) ==
  /\ a.st = "sent"
  /\ \E ok \in {"ok", "no"} :
       /\ acts' = (acts \ {a}) \cup {[a EXCEPT !.st = ok]}
       /\ backendActive' = IF ok = "ok" THEN a.node ELSE backendActive
  /\ UNCHANGED <<view, selC, selN, connected, activeNode, editingNode, nodeData, actCount,
                 reloads, actsCrossed, strayed, editMoved>>
ActLost(a) ==
  /\ acts' = acts \ {a} /\ actsCrossed' = TRUE /\ strayed' = TRUE
  /\ UNCHANGED <<view, selC, selN, connected, activeNode, backendActive, editingNode,
                 nodeData, actCount, reloads, editMoved>>

Answered(a, ok) ==
  /\ a.st \in {"ok", "no"} /\ acts' = acts \ {a}
  /\ activeNode' = IF ok THEN a.node ELSE activeNode
  /\ connected' = (connected \/ ok)
  /\ strayed' = (strayed \/ a.st = "no")
  /\ setCurrentView(a.view)
  /\ UNCHANGED <<selC, selN, backendActive, nodeData, actCount, reloads, actsCrossed>>
(* Slip: the store is set whatever the answer says.                        *)
activateNodeAnyway(a) == Answered(a, TRUE)
(* The store is set when the activation succeeded; the page is left in any *)
(* case.                                                                   *)
activateNode(a) == Answered(a, a.st = "ok")

-----------------------------------------------------------------------------
onSelectClusterId(c) ==
  /\ view = "cluster_home" /\ c # selC /\ selC' = c /\ strayed' = TRUE
  /\ UNCHANGED <<view, selN, connected, activeNode, backendActive, acts, editingNode,
                 nodeData, actCount, reloads, actsCrossed, editMoved>>
(* Between the pages: back to the cluster page, a module of the node page. *)
onNavigate(v) ==
  /\ \/ v = "cluster_home" /\ view \in NodeViews
     \/ v = "sql" /\ view = "node_home" /\ connected
     \/ v = "node_home" /\ view = "sql" /\ connected
  /\ setCurrentView(v)
  /\ UNCHANGED <<selC, selN, connected, activeNode, backendActive, acts, nodeData, actCount,
                 reloads, actsCrossed, strayed>>
(* A task succeeded: reloadWorkspaceFromBackend selects the first cluster. *)
taskReloads ==
  /\ reloads < MaxReloads /\ reloads' = reloads + 1
  /\ selC' = 1
  /\ strayed' = (strayed \/ selC # 1)
  /\ editMoved' = (editMoved \/ (editingNode # 0 /\ NodeConfigOf(1, selN) # selectedNodeConfig))
  /\ UNCHANGED <<view, selN, connected, activeNode, backendActive, acts, editingNode,
                 nodeData, actCount, actsCrossed>>

(* The edit form of the node page.  It is filled from the store's config,  *)
(* and saved to the node the page is about when it is saved.               *)
startEditing ==
  /\ NodeViewShown /\ view = "node_home" /\ editingNode = 0
  /\ editingNode' = selectedNodeConfig /\ editMoved' = FALSE
  /\ UNCHANGED <<view, selC, selN, connected, activeNode, backendActive, acts, nodeData,
                 actCount, reloads, actsCrossed, strayed>>
saveEdit ==
  /\ editingNode # 0 /\ nodeData' = [nodeData EXCEPT ![selectedNodeConfig] = "form"]
  /\ editingNode' = 0 /\ editMoved' = FALSE
  /\ UNCHANGED <<view, selC, selN, connected, activeNode, backendActive, acts, actCount,
                 reloads, actsCrossed, strayed>>
cancelEditing ==
  /\ editingNode # 0 /\ editingNode' = 0 /\ editMoved' = FALSE
  /\ UNCHANGED <<view, selC, selN, connected, activeNode, backendActive, acts, nodeData,
                 actCount, reloads, actsCrossed, strayed>>

ActSteps == \E a \in acts : BackendActivates(a) \/ ActLost(a) \/ activateNode(a)
ActNext ==
  \/ ActSteps \/ taskReloads \/ startEditing \/ saveEdit \/ cancelEditing
  \/ \E n \in 1..3 : handleNodeDoubleClick(n) \/ \E v \in NodeViews : activateButton(n, v)
  \/ \E c \in {1, 2} : onSelectClusterId(c)
  \/ \E v \in NodeViews \cup {"cluster_home"} : onNavigate(v)

ActSpec == ActInit /\ [][ActNext]_actVars

-----------------------------------------------------------------------------
(* The parts of the state have their types, and an edit form is open only  *)
(* on the node page.                                                       *)
ActTypeOK ==
  /\ view \in NodeViews \cup {"cluster_home"} /\ selC \in {1, 2} /\ selN \in 1..3
  /\ {activeNode, backendActive, editingNode} \subseteq 0..3
  /\ nodeData \in [1..3 -> {"own", "form"}]
  /\ editingNode # 0 => view = "node_home" /\ connected

(* Store and backend name the same active node when no activation is under *)
(* way: a refused one changes neither.  Answers that came in another order *)
(* or got lost are the exception.                                          *)
ActiveAgrees == (acts = {} /\ ~actsCrossed) => activeNode = backendActive

(* A page of a node is shown only once some activation has succeeded, for  *)
(* all that a refused one leaves the cluster page as well.                 *)
NodeViewNeedsNode == NodeViewShown => activeNode # 0

(* The node page is about the node that is active, as long as nodes are    *)
(* activated by double click, one at a time and with success, and nothing  *)
(* else moves the selection.                                               *)
NodeShownIsActive ==
  (NodeViewShown /\ acts = {} /\ ~actsCrossed /\ ~strayed) => selectedNodeConfig = activeNode

(* An edit is saved to the node the page is about at that moment, never to *)
(* a third; and that is the node the form was opened for, unless a reload  *)
(* moved the selection while it was open.  Then the code does save the     *)
(* edit of one node to another, and this is the only way to it: clicks,    *)
(* other views, activations and their late answers do not lead there.      *)
EditLands ==
  \A n \in 1..3 : nodeData'[n] # nodeData[n] =>
    n = selectedNodeConfig /\ (n = editingNode \/ editMoved)
=============================================================================
