-------------------------- MODULE ClusterOverview --------------------------
(***************************************************************************)
(* What the cluster page shows of the cluster that is selected             *)
(* (components/workspace/ClusterHomeView.tsx).                             *)
(*                                                                         *)
(* An effect on the project and the cluster asks for an overview at once   *)
(* and every 5 s; its clean-up stops the interval and sets a flag that     *)
(* keeps answers still under way from being used.  Until the new effect's  *)
(* first answer the overview of the cluster shown before stays.  The       *)
(* numbers, the map and the alert are computed from the overview and the   *)
(* nodes of the cluster.                                                   *)
(*                                                                         *)
(* The health of a node is "down", "ok" or "late": connected, with a lag   *)
(* at or above the alert threshold.  A request carries what the backend    *)
(* reads when it is sent; the backend is taken to know the clusters as     *)
(* the page does (AppWorkspace is about when it does).                     *)
(***************************************************************************)
EXTENDS Naturals, Sequences, FiniteSets, SequencesExt

CONSTANTS MaxEdits,     \* bound: changes of the project
          MaxChanges,   \* bound: changes of a node's health
          MaxInFlight,  \* bound: overview requests under way
          MaxOvFails    \* bound: overview requests that fail

VARIABLES
  clusters,        \* the project's clusters: id to sequence of nodes
  selectedCluster, \* selectedClusterId
  ovAsks,          \* requests under way, by slot
  overview,        \* the overview in the state: its cluster, its nodes, an error
  ovAnswered,      \* the current effect has put an overview there
  selectedEdge,    \* selectedEdgeKey
  editing,         \* editingNodeId, 0 for none
  health,          \* of every node, in the world
  edits, changes, ovFails

ovVars == <<clusters, selectedCluster, ovAsks, overview, ovAnswered, selectedEdge, editing,
            health, edits, changes, ovFails>>

Replication(c) == IF c = 1 THEN "physical" ELSE "logical"
Roles == {"primary", "standby", "publisher", "subscriber"}
NodeIds == 1..5
NodeOf(i, r) == [id |-> i, role |-> r]
Ids(nodes) == {nodes[k].id : k \in 1..Len(nodes)}

NoCluster == 0
NoEdge == <<0, 0>>
NoAsk == [live |-> FALSE, of |-> NoCluster, ans |-> [i \in {} |-> "down"]]
EmptyOverview == [of |-> NoCluster, nodes |-> [i \in {} |-> "down"], error |-> FALSE]

(* The cluster that is shown: the one selected, or the first there is.     *)
ShownOf(sel, cs) ==
  CASE sel \in DOMAIN cs -> sel
    [] sel \notin DOMAIN cs /\ DOMAIN cs # {} ->
         CHOOSE c \in DOMAIN cs : \A d \in DOMAIN cs : c =< d
    [] OTHER -> NoCluster
cluster == ShownOf(selectedCluster, clusters)
Nodes == IF cluster = NoCluster THEN <<>> ELSE clusters[cluster]

OvInit ==
  /\ clusters = [c \in {1, 2} |->
                   IF c = 1 THEN <<NodeOf(1, "primary"), NodeOf(2, "standby")>>
                            ELSE <<NodeOf(4, "subscriber"), NodeOf(5, "publisher")>>]
  /\ selectedCluster = 1
  /\ health = [i \in NodeIds |-> "ok"]
  /\ ovAsks = [k \in 1..MaxInFlight |->
               IF k = 1 THEN [live |-> TRUE, of |-> 1, ans |-> [i \in {1, 2} |-> "ok"]]
                        ELSE NoAsk]
  /\ overview = EmptyOverview /\ ovAnswered = FALSE /\ selectedEdge = NoEdge
  /\ editing = 0
  /\ edits = 0 /\ changes = 0 /\ ovFails = 0

-----------------------------------------------------------------------------
(* What is computed from an overview's nodes and the cluster's.            *)
clusterStatuses(ov) == [i \in DOMAIN ov \cap Ids(Nodes) |-> ov[i]]
Connected(ov, i) == i \in DOMAIN ov /\ ov[i] # "down"

(* The figures at the top count all nodes of the overview, the cards those *)
(* of their cluster.                                                       *)
summary(ov) ==
  [totalClusters  |-> Cardinality(DOMAIN clusters),
   connectedNodes |-> Cardinality({i \in DOMAIN ov : ov[i] # "down"}),
   unhealthyNodes |-> Cardinality({i \in DOMAIN ov : ov[i] = "down"}),
   primaryCount   |-> Cardinality({k \in 1..Len(Nodes) : Nodes[k].role = "primary"})]
cardOnline(ov, c) == Cardinality({i \in Ids(clusters[c]) : Connected(ov, i)})

FirstWith(nodes, roles) == SelectInSeq(nodes, LAMBDA n : n.role \in roles)
topologyEdges(c) ==
  LET nodes == clusters[c]
      k == FirstWith(nodes, IF Replication(c) = "physical" THEN {"primary"} ELSE {"publisher"})
      source == nodes[IF k = 0 THEN 1 ELSE k].id
  IN  {<<source, i>> : i \in Ids(nodes) \ {source}}

(* The two ends ReplicationTopology draws, or none: a primary, else a      *)
(* publisher, else the first; and the first that is neither, else the      *)
(* second.                                                                 *)
replicationPair(c) ==
  LET nodes == clusters[c]
      p == FirstWith(nodes, {"primary"})
      q == FirstWith(nodes, {"publisher"})
      s == FirstWith(nodes, Roles \ {"primary", "publisher"})
      first == IF p # 0 THEN p ELSE IF q # 0 THEN q ELSE 1
      second == IF s # 0 THEN s ELSE 2
  IN  IF second > Len(nodes) THEN NoEdge ELSE <<nodes[first].id, nodes[second].id>>

(* The edge's detail: the channel of the source names the lag of the node  *)
(* at the other end, and there is no lag of a logical one.                 *)
selectedEdgeDetail(ov) ==
  IF \E i \in {1, 2} : selectedEdge[i] \notin Ids(Nodes) THEN <<"none">>
  ELSE <<"edge", /\ Replication(cluster) = "physical"
                 /\ Connected(ov, selectedEdge[1])
                 /\ selectedEdge[2] \in DOMAIN ov /\ ov[selectedEdge[2]] = "late">>

(* TopologyMap and ReplicationTopology: which nodes are drawn as online.   *)
TopologyMap(ov) == [i \in Ids(Nodes) |-> Connected(clusterStatuses(ov), i)]
pairConnected(ov) ==
  IF cluster = NoCluster \/ replicationPair(cluster) = NoEdge THEN <<>>
  ELSE [k \in {1, 2} |-> Connected(clusterStatuses(ov), replicationPair(cluster)[k])]

Screen(ov) == <<summary(ov), [c \in DOMAIN clusters |-> cardOnline(ov, c)],
                TopologyMap(ov), pairConnected(ov), selectedEdgeDetail(ov)>>

-----------------------------------------------------------------------------
Truth(c, cs) == [i \in Ids(cs[c]) |-> health[i]]
FreeSlot(k) == ovAsks[k] = NoAsk
AskOf(c, cs) == [live |-> TRUE, of |-> c, ans |-> Truth(c, cs)]

(* The effect runs again: the old one is stopped, the new one asks at once *)
(* or, when there is no cluster, empties the overview.                     *)
RerunWith(sel, cs, old) ==
  LET c == ShownOf(sel, cs)
  IN  /\ clusters' = cs /\ selectedCluster' = sel
      /\ IF c = NoCluster
         THEN ovAsks' = old /\ overview' = EmptyOverview /\ ovAnswered' = TRUE
         ELSE /\ \E k \in DOMAIN ovAsks :
                   FreeSlot(k) /\ ovAsks' = [old EXCEPT ![k] = AskOf(c, cs)]
              /\ ovAnswered' = FALSE /\ UNCHANGED overview
Rerun(sel, cs) ==
  RerunWith(sel, cs, [k \in DOMAIN ovAsks |-> IF FreeSlot(k) THEN NoAsk
                                            ELSE [ovAsks[k] EXCEPT !.live = FALSE]])

onSelectCluster(c) ==
  /\ c # cluster /\ c \in DOMAIN clusters /\ Rerun(c, clusters)
  /\ UNCHANGED <<selectedEdge, editing, health, edits, changes, ovFails>>

(* The form of a node is opened, then saved or closed; it stays open, out  *)
(* of sight, when another cluster is selected or its node is removed.      *)
(* (bounds: opened while an edit is left, and for one node of each cluster) *)
EditedNodes == {1, 4}
Form(i) ==
  /\ editing' = i
  /\ UNCHANGED <<clusters, selectedCluster, ovAsks, overview, ovAnswered, selectedEdge, health,
                 edits, changes, ovFails>>
startEditNode(k) ==
  /\ k =< Len(Nodes) /\ Nodes[k].id \in EditedNodes \ {editing} /\ edits < MaxEdits
  /\ Form(Nodes[k].id)
cancelEditNode == editing \in Ids(Nodes) /\ Form(0)

(* The project changes: the role chosen in the form is saved, a node added *)
(* or removed (never the last), a cluster removed.                         *)
Edited(cs) ==
  /\ edits < MaxEdits /\ edits' = edits + 1 /\ Rerun(selectedCluster, cs)
  /\ UNCHANGED <<selectedEdge, health, changes, ovFails>>
saveEditNode(k, r) ==
  /\ k =< Len(Nodes) /\ Nodes[k].id = editing /\ editing' = 0
  /\ Edited([clusters EXCEPT ![cluster][k].role = r])
nodeAdded ==
  /\ cluster = 1 /\ 3 \notin Ids(Nodes) /\ UNCHANGED editing
  /\ Edited([clusters EXCEPT ![1] = Append(@, NodeOf(3, "standby"))])
nodeRemoved(k) ==
  /\ k =< Len(Nodes) /\ Len(Nodes) > 1 /\ UNCHANGED editing
  /\ Edited([clusters EXCEPT ![cluster] = RemoveAt(@, k)])
clusterRemoved(c) ==
  /\ c \in DOMAIN clusters /\ UNCHANGED editing
  /\ Edited([d \in DOMAIN clusters \ {c} |-> clusters[d]])

overviewTick ==
  /\ cluster # NoCluster
  /\ \E k \in DOMAIN ovAsks :
       FreeSlot(k) /\ ovAsks' = [ovAsks EXCEPT ![k] = AskOf(cluster, clusters)]
  /\ UNCHANGED <<clusters, selectedCluster, overview, ovAnswered, selectedEdge, editing, health,
                 edits, changes, ovFails>>

(* An answer, or a failure, ends a request; it is used unless its effect   *)
(* has been stopped.                                                       *)
loadOverview(k) ==
  /\ ~FreeSlot(k) /\ ovAsks' = [ovAsks EXCEPT ![k] = NoAsk]
  /\ \/ /\ ~ovAsks[k].live /\ UNCHANGED <<overview, ovAnswered, ovFails>>
     \/ /\ ovAsks[k].live /\ ovAnswered' = TRUE /\ UNCHANGED ovFails
        /\ overview' = [of |-> ovAsks[k].of, nodes |-> ovAsks[k].ans, error |-> FALSE]
     \/ /\ ovAsks[k].live /\ ovAnswered' = TRUE
        /\ ovFails < MaxOvFails /\ ovFails' = ovFails + 1
        /\ overview' = [EmptyOverview EXCEPT !.of = ovAsks[k].of, !.error = TRUE]
  /\ UNCHANGED <<clusters, selectedCluster, selectedEdge, editing, health, edits, changes>>

(* An edge of the map is selected, or a node, which takes the edge away.   *)
onEdgeClick(e) ==
  /\ cluster # NoCluster /\ e \in topologyEdges(cluster) \cup {NoEdge}
  /\ e # selectedEdge /\ selectedEdge' = e
  /\ UNCHANGED <<clusters, selectedCluster, ovAsks, overview, ovAnswered, editing, health,
                 edits, changes, ovFails>>

(* bound: which nodes may fail, and how                                    *)
Faults == {<<2, "late">>, <<5, "down">>}
HealthChanges(i, h) ==
  /\ changes < MaxChanges /\ changes' = changes + 1
  /\ h # health[i] /\ health' = [health EXCEPT ![i] = h]
  /\ UNCHANGED <<clusters, selectedCluster, ovAsks, overview, ovAnswered, selectedEdge,
                 editing, edits, ovFails>>

OvUser ==
  \/ nodeAdded
  \/ \E c \in {1, 2} : onSelectCluster(c) \/ clusterRemoved(c)
  \/ \E k \in 1..3 :
       nodeRemoved(k) \/ startEditNode(k) \/ \E r \in Roles : saveEditNode(k, r)
  \/ cancelEditNode
  \/ \E e \in (NodeIds \X NodeIds) \cup {NoEdge} : onEdgeClick(e)
OvNext ==
  \/ OvUser \/ overviewTick
  \/ \E k \in 1..MaxInFlight : loadOverview(k)
  \/ \E f \in Faults : HealthChanges(f[1], f[2])

(* Fairness: the interval goes on and requests end, only so many failing.  *)
OvFair ==
  /\ WF_ovVars(overviewTick)
  /\ \A k \in 1..MaxInFlight : WF_ovVars(loadOverview(k))
OvSpec == OvInit /\ [][OvNext]_ovVars /\ OvFair

-----------------------------------------------------------------------------
(* The parts of the state have their types; every request that may still   *)
(* be used was made for the cluster that is shown, so that a new effect    *)
(* has stopped those of the old.                                           *)
OvTypeOK ==
  /\ DOMAIN clusters \subseteq {1, 2}
  /\ \A c \in DOMAIN clusters : Len(clusters[c]) \in 1..3
  /\ \A k \in DOMAIN ovAsks : ovAsks[k].live => ovAsks[k].of = cluster
  /\ overview.of \in {NoCluster, 1, 2} /\ ovAnswered \in BOOLEAN
  /\ editing \in {0} \cup EditedNodes

(* Once the effect for the shown cluster has had an answer, no late answer *)
(* asked for another cluster takes its place.                              *)
OverviewOfShown == ovAnswered => overview.of = cluster

(* In a cluster that has a source of its kind and none of the other, every *)
(* edge of the map starts there, every other node has one, and the pair    *)
(* drawn below the map starts there too and has two different ends.        *)
(* (Without a source the pair may be one node twice.)                      *)
TopologyAgrees ==
  \A c \in DOMAIN clusters :
    LET own   == IF Replication(c) = "physical" THEN "primary" ELSE "publisher"
        other == IF Replication(c) = "physical" THEN "publisher" ELSE "primary"
        k     == FirstWith(clusters[c], {own})
        src   == clusters[c][k].id
    IN  (k # 0 /\ FirstWith(clusters[c], {other}) = 0) =>
          /\ topologyEdges(c) = {<<src, i>> : i \in Ids(clusters[c]) \ {src}}
          /\ replicationPair(c) # NoEdge =>
               replicationPair(c)[1] = src /\ replicationPair(c)[2] # src

(* What is drawn of cluster c is what the health of its nodes gives.       *)
CaughtUp(c) == cluster = c => Screen(overview.nodes) = Screen(Truth(c, clusters))
=============================================================================
