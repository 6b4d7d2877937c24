---------------------------- MODULE AppWorkspace ----------------------------
(***************************************************************************)
(* The workspace of projects as the page keeps it (frontend/src/App.tsx)   *)
(* and as the backend stores it.                                           *)
(*                                                                         *)
(* The page loads the list once, changes it with every edit and writes the *)
(* whole list back 250 ms after the last change.  Saves are not waited     *)
(* for, so several may be on their way and arrive in any order; loads and  *)
(* saves may fail; provisioning and imports write to the stored list too;  *)
(* the user may reload the page at any time.  A load is one step here: the *)
(* answer is read when it is put into gets, and applied later.             *)
(*                                                                         *)
(* Names, ports, thresholds and the other fields a patch may carry are one *)
(* field, rev.  Ids are numbers, in the order genId hands them out; 0 is   *)
(* the empty id.  Each edit is a click, after which React has rendered and *)
(* run its effects before anything else happens.                           *)
(***************************************************************************)
EXTENDS Naturals, Sequences, FiniteSets, Lists

CONSTANTS MaxOps,     \* bound: operations of the user
          MaxIds,     \* bound: ids handed out
          MaxPuts,    \* bound: saves on their way at one time
          MaxGets,    \* bound: loads on their way at one time
          MaxFails    \* bound: requests that fail

ASSUME BoundsAssumption ==
  MaxOps \in Nat /\ MaxIds \in Nat /\ MaxPuts \in Nat /\ MaxGets \in Nat
  /\ MaxFails \in Nat

VARIABLES
  projects,             \* the list the page shows
  selP, selC, selN,     \* selectedProjectId, selectedClusterId, selectedNodeId
  view,                 \* currentView
  bootstrapped,         \* workspaceBootstrapped
  asked,                \* the load at the start has been sent
  timer,                \* the save timer is going to fire
  syncErr,              \* workspaceSyncError is shown
  gets,                 \* answers of loads that are not applied yet
  puts,                 \* saves, in the order they were sent
  flow,                 \* the creation by template: how far the page is, and
                        \* what has become of the request it sent
  server,               \* the list the backend has stored
  ids, ops, fails,
  removed,              \* ids the user has removed
  exposed               \* something has happened that may cost an edit

local == <<projects, selP, selC, selN, view>>
sync == <<bootstrapped, asked, timer, syncErr, gets, puts>>
hist == <<removed, exposed>>
counts == <<ids, ops, fails>>
vars == <<local, sync, flow, server, counts, hist>>

NoFlow == [st |-> "none", pid |-> 0, post |-> "none"]

-----------------------------------------------------------------------------
(* Lists of records with an id.                                            *)
Get(s, i)     == s[CHOOSE k \in DOMAIN s : s[k].id = i]
Put(s, i, x)  == [k \in DOMAIN s |-> IF s[k].id = i THEN x ELSE s[k]]
FirstId(s)    == IF s = <<>> THEN 0 ELSE s[1].id
IdsOf(s)      == {s[k].id : k \in DOMAIN s}
ClusterIds(p) == IdsOf(p.clusters)
OwnIds(p)     == {p.id} \cup ClusterIds(p) \cup IdsOf(p.components)
AllIds(ps)    == UNION {OwnIds(ps[k]) : k \in DOMAIN ps}
IdsUnder(ps, i) == UNION {OwnIds(ps[k]) : k \in Places(ps, i)}

Project(i)      == [id |-> i, rev |-> 0, clusters |-> <<>>, components |-> <<>>]
makeDefaultNode(i) == [id |-> i, rev |-> 0]
Cluster(i, n)   == [id |-> i, rev |-> 0, nodes |-> n]
Component(i, l) == [id |-> i, rev |-> 0, links |-> l]

(* What the backend has stored before the page is opened.                  *)
Stored0 == <<[Project(1) EXCEPT !.clusters = <<Cluster(2, <<makeDefaultNode(3)>>)>>]>>

InitPage ==
  /\ projects = <<>> /\ selP = 0 /\ selC = 0 /\ selN = 0
  /\ view = "project_home"
  /\ bootstrapped = FALSE /\ asked = FALSE /\ timer = FALSE /\ syncErr = FALSE
  /\ gets = {}
  /\ flow = NoFlow

Init ==
  /\ InitPage
  /\ puts = <<>>
  /\ server = Stored0
  /\ ids = 3 /\ ops = 0 /\ fails = 0
  /\ removed = {} /\ exposed = FALSE

-----------------------------------------------------------------------------
(* The list after a render: selectedProject falls back to the first one.   *)
selectedProject == IF Has(projects, selP) THEN Get(projects, selP) ELSE projects[1]
HasProject == projects # <<>>

(* The effect that repairs the selection; what it selects for ps.          *)
ShownOf(ps, p) == IF Has(ps, p) THEN Get(ps, p) ELSE ps[1]
ShownCluster(ps, p, c) ==
  LET cs == ShownOf(ps, p).clusters IN
  IF Has(cs, c) THEN Get(cs, c) ELSE cs[1]
RepairP(ps, p) == IF ps # <<>> /\ p = 0 THEN ps[1].id ELSE p
(* Slip: only a selection that is empty is repaired.                       *)
RepairCEmpty(ps, p, c) ==
  IF ps = <<>> \/ ShownOf(ps, p).clusters = <<>> \/ c # 0 THEN c
    ELSE ShownCluster(ps, p, c).id
RepairC(ps, p, c) ==
  IF ps = <<>> \/ ShownOf(ps, p).clusters = <<>> THEN c
    ELSE ShownCluster(ps, p, c).id
RepairN(ps, p, c, n) ==
  IF ps = <<>> \/ ShownOf(ps, p).clusters = <<>> \/ n # 0 THEN n
    ELSE FirstId(ShownCluster(ps, p, c).nodes)

Render(ps, p, c, n) ==
  /\ projects' = ps
  /\ selP' = RepairP(ps, p)
  /\ selC' = RepairC(ps, p, c)
  /\ selN' = RepairN(ps, p, c, n)

(* The effect that saves: once loaded, every new list sets the timer anew. *)
ArmSave == timer' = bootstrapped

-----------------------------------------------------------------------------
Op == ops < MaxOps /\ ops' = ops + 1 /\ UNCHANGED fails
NewIds(n) == ids + n =< MaxIds /\ ids' = ids + n

(* The page has done something that may cost an edit if cond holds.        *)
Exposed(cond) == exposed' = (exposed \/ cond)

(* An edit: setProjects(ps) by a click, with the selection p, c.           *)
Edit(ps, p, c) ==
  /\ Op
  /\ Render(ps, p, c, selN)
  /\ ArmSave
  /\ Exposed(~bootstrapped)
  /\ UNCHANGED <<bootstrapped, asked, syncErr, gets, puts, flow, server>>
Drops(gone) == removed' = removed \cup gone /\ UNCHANGED <<ids>>
Patches == UNCHANGED <<removed, ids>>
Stay == UNCHANGED view

(* ProjectHomeView.                                                        *)
AtProjects == view = "project_home"

createProject ==
  /\ AtProjects /\ Stay /\ NewIds(1) /\ UNCHANGED removed
  /\ Edit(Append(projects, Project(ids + 1)), ids + 1, selC)

removeProject(i) ==
  LET next == Without(projects, i)
      gone == i = selP IN
  /\ AtProjects /\ Stay /\ Drops(IdsUnder(projects, i))
  /\ Edit(next, IF gone THEN FirstId(next) ELSE selP, IF gone THEN 0 ELSE selC)

updateProject(i, r) ==
  /\ AtProjects /\ Stay /\ Patches
  /\ Edit(Put(projects, i, [Get(projects, i) EXCEPT !.rev = r]), selP, selC)

NewCluster(p) ==
  Put(projects, p.id, [p EXCEPT !.clusters =
    Append(@, Cluster(ids + 1, <<makeDefaultNode(ids + 2)>>))])
NewComponent(p) ==
  Put(projects, p.id, [p EXCEPT !.components = Append(@, Component(ids + 1, {}))])

onCreateCluster(i) ==
  /\ AtProjects /\ NewIds(2) /\ UNCHANGED removed
  /\ view' = "cluster_home"
  /\ Edit(NewCluster(Get(projects, i)), i, ids + 1)

onCreateComponent(i) ==
  /\ AtProjects /\ Stay /\ NewIds(1) /\ UNCHANGED removed
  /\ Edit(NewComponent(Get(projects, i)), selP, selC)

(* ClusterHomeView.                                                        *)
AtClusters == view = "cluster_home" /\ HasProject

createCluster ==
  /\ AtClusters /\ Stay /\ NewIds(2) /\ UNCHANGED removed
  /\ Edit(NewCluster(selectedProject), selP, ids + 1)

EditClusters(cs, c) ==
  Edit(Put(projects, selectedProject.id, [selectedProject EXCEPT !.clusters = cs]),
       selP, c)

removeCluster(c) ==
  /\ AtClusters /\ Stay /\ Drops({c})
  /\ EditClusters(Without(selectedProject.clusters, c), IF c = selC THEN 0 ELSE selC)

EditCluster(c, x) ==
  AtClusters /\ Stay /\ EditClusters(Put(selectedProject.clusters, c, x), selC)

(* A patch of the cluster, with an empty nodeId, or of one of its nodes.   *)
updateClusterNode(c, n, r) ==
  LET old == Get(selectedProject.clusters, c) IN
  /\ Patches
  /\ \/ n = 0 /\ EditCluster(c, [old EXCEPT !.rev = r])
     \/ /\ Has(old.nodes, n)
        /\ EditCluster(c, [old EXCEPT !.nodes = Put(@, n, [id |-> n, rev |-> r])])

addNode(c) ==
  /\ NewIds(1) /\ UNCHANGED <<removed>>
  /\ EditCluster(c, [Get(selectedProject.clusters, c) EXCEPT !.nodes =
                       Append(@, makeDefaultNode(ids + 1))])

removeNode(c, n) ==
  LET old == Get(selectedProject.clusters, c)
      filtered == Without(old.nodes, n) IN
  /\ Patches
  /\ EditCluster(c, [old EXCEPT !.nodes = IF filtered = <<>> THEN @ ELSE filtered])

(* ComponentHomeView.                                                      *)
AtComponents == view = "component_home" /\ HasProject
EditComponents(cs) ==
  /\ AtComponents /\ Stay
  /\ Edit(Put(projects, selectedProject.id, [selectedProject EXCEPT !.components = cs]),
          selP, selC)

createComponent ==
  /\ NewIds(1) /\ UNCHANGED removed
  /\ EditComponents(Append(selectedProject.components, Component(ids + 1, {})))
removeComponent(m) ==
  /\ Drops({m})
  /\ EditComponents(Without(selectedProject.components, m))
updateComponent(m, r) ==
  /\ Patches
  /\ EditComponents(Put(selectedProject.components, m,
                        [Get(selectedProject.components, m) EXCEPT !.rev = r]))
toggleLink(m, c) ==
  LET comp == Get(selectedProject.components, m) IN
  /\ Patches
  /\ EditComponents(Put(selectedProject.components, m,
       [comp EXCEPT !.links = IF c \in @ THEN @ \ {c} ELSE @ \cup {c}]))

-----------------------------------------------------------------------------
(* Selecting and going from view to view.  (bound: no more of it once the  *)
(* user's operations are used up)                                          *)
Select(p, c, v) ==
  /\ ops < MaxOps
  /\ UNCHANGED <<ops, fails>>
  /\ Render(projects, p, c, selN)
  /\ view' = v
  /\ UNCHANGED <<sync, flow, server, ids, hist>>

onSelectProject(p) == AtProjects /\ p # selP /\ Select(p, selC, view)
onNavigateToCluster(p, c) == AtProjects /\ Select(p, c, "cluster_home")
onSelectCluster(c) == AtClusters /\ c # selC /\ Select(selP, c, view)
onActivateNode(c) == AtComponents /\ Select(selP, c, "cluster_home")
GoBack == AtClusters /\ Select(selP, selC, "project_home")

-----------------------------------------------------------------------------
(* Requests.  One fails as long as the bound allows.                       *)
MayFail == fails < MaxFails /\ fails' = fails + 1 /\ UNCHANGED <<ids, ops>>
NoFail == UNCHANGED counts

(* Saves are sent; a second one on its way may overtake the first.         *)
Send(list, seed) ==
  /\ Len(puts) < MaxPuts
  /\ puts' = Append(puts, [list |-> list, st |-> "sent", seed |-> seed])
Overlap == puts # <<>>

(* Slip: the timer is set by saving, too.                                  *)
saveFiresAgain ==
  /\ timer /\ UNCHANGED timer
  /\ Send(projects, FALSE)
  /\ Exposed(Overlap)
  /\ UNCHANGED <<local, bootstrapped, asked, syncErr, gets, flow, server,
                 removed, counts>>

saveFires ==
  /\ timer /\ timer' = FALSE
  /\ Send(projects, FALSE)
  /\ Exposed(Overlap)
  /\ NoFail
  /\ UNCHANGED <<local, bootstrapped, asked, syncErr, gets, flow, server,
                 removed>>

(* PUT /api/workspace/projects replaces the list.  For the page a save has *)
(* failed, too, when only its answer was lost.                             *)
PutLands(k) ==
  /\ puts[k].st = "sent"
  /\ server' = puts[k].list
  /\ puts' = [puts EXCEPT ![k].st = "ok"]
  /\ NoFail
  /\ UNCHANGED <<local, bootstrapped, asked, timer, syncErr, gets, flow, hist>>
PutFails(k) ==
  /\ puts[k].st = "sent" /\ MayFail
  /\ server' \in {server, puts[k].list}
  /\ puts' = [puts EXCEPT ![k].st = "fail"]
  /\ UNCHANGED <<local, bootstrapped, asked, timer, syncErr, gets, flow, hist>>

Answered(k) == SubSeq(puts, 1, k - 1) \o SubSeq(puts, k + 1, Len(puts))

saveAnswered(k) ==
  /\ puts[k].st # "sent" /\ ~puts[k].seed
  /\ puts' = Answered(k)
  /\ syncErr' = (puts[k].st = "fail")
  /\ NoFail
  /\ UNCHANGED <<local, bootstrapped, asked, timer, gets, flow, server, hist>>

(* loadProjectsFromBackend, for the start, a reload with the selection sel *)
(* of the moment it was called, or a creation.                             *)
LoadOk(kind, sel) ==
  /\ Cardinality(gets) < MaxGets
  /\ gets' = gets \cup {[kind |-> kind, sel |-> sel, ok |-> TRUE, ans |-> server]}
LoadFailed(kind, sel) ==
  /\ Cardinality(gets) < MaxGets
  /\ gets' = gets \cup {[kind |-> kind, sel |-> sel, ok |-> FALSE, ans |-> <<>>]}

bootLoad ==
  /\ ~asked /\ asked' = TRUE
  /\ \/ NoFail /\ LoadOk("boot", 0)
     \/ MayFail /\ LoadFailed("boot", 0)
  /\ UNCHANGED <<local, bootstrapped, timer, syncErr, puts, flow, server, hist>>

(* The page holds what may not be stored.                                  *)
Unsaved == timer \/ puts # <<>> \/ syncErr

(* What is applied may be older than what was edited or stored since.      *)
StaleLoad(g) ==
  g.ans # server \/ Unsaved

(* The page goes on without the stored list when that could not be loaded. *)
bootAnswered(g) ==
  /\ gets' = gets \ {g}
  /\ bootstrapped' = TRUE /\ timer' = TRUE
  /\ \/ /\ ~g.ok
        /\ syncErr' = TRUE
        /\ Exposed(TRUE)
        /\ UNCHANGED <<projects, selP, selC, selN>>
     \/ /\ g.ok
        /\ syncErr' = FALSE
        /\ Exposed(StaleLoad(g))
        /\ \/ g.ans # <<>> /\ Render(g.ans, g.ans[1].id,
                                     FirstId(g.ans[1].clusters), selN)
           \/ g.ans = <<>> /\ Render(<<>>, selP, selC, selN)
  /\ NoFail
  /\ UNCHANGED <<view, asked, puts, flow, server, removed>>

(* reloadWorkspaceFromBackend selects the first cluster again.             *)
reloadAnswered(g) ==
  LET cur == IF g.sel # 0 THEN g.sel ELSE FirstId(g.ans) IN
  /\ gets' = gets \ {g}
  /\ \/ ~g.ok /\ UNCHANGED <<projects, selP, selC, selN, timer, exposed>>
     \/ /\ g.ok
        /\ Render(g.ans, cur, IF g.ans = <<>> THEN 0
                                ELSE FirstId(ShownOf(g.ans, cur).clusters), selN)
        /\ ArmSave
        /\ Exposed(StaleLoad(g))
  /\ NoFail
  /\ UNCHANGED <<view, bootstrapped, asked, syncErr, puts, flow, server,
                 removed>>

-----------------------------------------------------------------------------
(* handleTemplateConfirm.  A preview is a project made from the template,  *)
(* with a cluster and a component linked to it.                            *)
buildProject(i) ==
  [Project(i) EXCEPT !.clusters = <<Cluster(i + 1, <<makeDefaultNode(i + 2)>>)>>,
                     !.components = <<Component(i + 3, {i + 1})>>]

previewTemplate ==
  /\ AtProjects /\ NewIds(4) /\ Op
  /\ view' = "component_home"
  /\ Render(Append(projects, buildProject(ids + 1)), ids + 1, ids + 2, selN)
  /\ ArmSave
  /\ Exposed(~bootstrapped)
  /\ UNCHANGED <<bootstrapped, asked, syncErr, gets, puts, flow, server,
                 removed>>

(* Creation: the new list is shown and saved at once, then provisioned.    *)
(* (bound: one creation until the page is opened anew, and none while the  *)
(* backend is still at an earlier one)                                     *)
createFromTemplate ==
  LET optimistic == Append(projects, Project(ids + 1)) IN
  /\ AtProjects /\ flow.st = "none" /\ flow.post # "running" /\ NewIds(1) /\ Op
  /\ Render(optimistic, ids + 1, selC, selN)
  /\ ArmSave
  /\ Send(optimistic, TRUE)
  /\ flow' = [st |-> "seeding", pid |-> ids + 1, post |-> "none"]
  /\ Exposed(Overlap \/ ~bootstrapped)
  /\ UNCHANGED <<view, bootstrapped, asked, syncErr, gets, server, removed>>

(* Slip: the project stays in the list.                                    *)
GiveUpKeeps ==
  /\ removed' = removed \cup IdsUnder(projects, flow.pid)
  /\ flow' = [flow EXCEPT !.st = "failed"]
  /\ UNCHANGED <<projects, selP, selC, selN, timer>>

(* Slip: the list without the project is not saved.                        *)
GiveUpUnsaved ==
  /\ Render(Without(projects, flow.pid), selP, selC, selN)
  /\ UNCHANGED timer
  /\ removed' = removed \cup IdsUnder(projects, flow.pid)
  /\ flow' = [flow EXCEPT !.st = "failed"]

(* The creation failed: the project is taken out of the list again.        *)
GiveUp ==
  /\ Render(Without(projects, flow.pid), selP, selC, selN)
  /\ ArmSave
  /\ removed' = removed \cup IdsUnder(projects, flow.pid)
  /\ flow' = [flow EXCEPT !.st = "failed"]

Provision == flow' = [flow EXCEPT !.st = "provisioning", !.post = "running"]

(* Slip: the list is set back to that of the moment the creation began.    *)
seedAnsweredStale(k) ==
  /\ puts[k].st # "sent" /\ puts[k].seed
  /\ puts' = Answered(k)
  /\ \/ /\ puts[k].st = "ok" /\ Provision
        /\ UNCHANGED <<projects, selP, selC, selN, timer, removed>>
     \/ /\ puts[k].st = "fail"
        /\ Render(Without(puts[k].list, flow.pid), selP, selC, selN)
        /\ ArmSave
        /\ removed' = removed \cup IdsUnder(projects, flow.pid)
        /\ flow' = [flow EXCEPT !.st = "failed"]
  /\ NoFail
  /\ UNCHANGED <<view, bootstrapped, asked, syncErr, gets, server, exposed>>

seedAnswered(k) ==
  /\ puts[k].st # "sent" /\ puts[k].seed
  /\ puts' = Answered(k)
  /\ \/ /\ puts[k].st = "ok" /\ Provision
        /\ UNCHANGED <<projects, selP, selC, selN, timer, removed>>
     \/ puts[k].st = "fail" /\ GiveUp
  /\ NoFail
  /\ UNCHANGED <<view, bootstrapped, asked, syncErr, gets, server, exposed>>

(* Another writer of the stored list: the page does not know yet.          *)
ServerWrites(ps) ==
  /\ server' = ps
  /\ Exposed(TRUE)

(* The backend's side of the request.  Once the instance runs, its cluster *)
(* is added to the project, before anything is answered and whether or not *)
(* the page still waits; or the request fails, as it does when the project *)
(* is not stored any more.                                                 *)
appendCluster ==
  /\ flow.post = "running" /\ Has(server, flow.pid) /\ NewIds(2)
  /\ ServerWrites(Put(server, flow.pid, [Get(server, flow.pid) EXCEPT !.clusters =
       Append(@, Cluster(ids + 1, <<makeDefaultNode(ids + 2)>>))]))
  /\ flow' = [flow EXCEPT !.post = "ok"]
  /\ UNCHANGED <<local, sync, ops, fails, removed>>
provisionFails ==
  /\ flow.post = "running"
  /\ MayFail \/ (~Has(server, flow.pid) /\ NoFail)
  /\ flow' = [flow EXCEPT !.post = "failed"]
  /\ UNCHANGED <<local, sync, server, hist>>

(* The success is answered: the page loads the list again.                 *)
provisionAccepted ==
  /\ flow.st = "provisioning" /\ flow.post = "ok"
  /\ flow' = [flow EXCEPT !.st = "task"]
  /\ \/ NoFail /\ LoadOk("create", flow.pid)
     \/ MayFail /\ LoadFailed("create", flow.pid)
  /\ UNCHANGED <<local, bootstrapped, asked, timer, syncErr, puts, server, hist>>
(* A failure is answered, or the connection breaks while the page waits,   *)
(* whatever the backend has done or goes on to do.                         *)
provisionRefused ==
  /\ flow.st = "provisioning"
  /\ MayFail \/ (flow.post = "failed" /\ NoFail)
  /\ GiveUp
  /\ UNCHANGED <<view, bootstrapped, asked, syncErr, gets, puts, server, exposed>>

createAnswered(g) ==
  /\ gets' = gets \ {g}
  /\ \/ ~g.ok /\ UNCHANGED <<local, timer, exposed>>
     \/ /\ g.ok
        /\ Render(g.ans, g.sel, IF Has(g.ans, g.sel)
                                  THEN FirstId(Get(g.ans, g.sel).clusters) ELSE 0, selN)
        /\ view' = "cluster_home"
        /\ ArmSave
        /\ Exposed(StaleLoad(g))
  /\ NoFail
  /\ UNCHANGED <<bootstrapped, asked, syncErr, puts, flow, server,
                 removed>>

(* The page polls the task, sees the success and loads the list again.     *)
successSeen ==
  /\ flow.st = "task"
  /\ flow' = [flow EXCEPT !.st = "done"]
  /\ \/ NoFail /\ LoadOk("reload", selP)
     \/ MayFail /\ LoadFailed("reload", selP)
  /\ UNCHANGED <<local, bootstrapped, asked, timer, syncErr, puts, server, hist>>

(* importDiscovered, validateAndImportDSN: the backend adds a node to the  *)
(* cluster that is shown, if it has stored that cluster, and the page      *)
(* loads the list again.                                                   *)
Importable(c) ==
  /\ AtClusters /\ Has(selectedProject.clusters, c)
  /\ Has(server, selectedProject.id)
  /\ Has(Get(server, selectedProject.id).clusters, c)
importNode(c) ==
  LET p == Get(server, selectedProject.id)
      old == Get(p.clusters, c)
      new == [old EXCEPT !.nodes = Append(@, makeDefaultNode(ids + 1))] IN
  /\ Importable(c) /\ Op /\ NewIds(1)
  /\ ServerWrites(Put(server, p.id, [p EXCEPT !.clusters = Put(@, c, new)]))
  /\ Cardinality(gets) < MaxGets
  /\ gets' = gets \cup {[kind |-> "reload", sel |-> selP, ok |-> TRUE, ans |-> server']}
  /\ UNCHANGED <<local, bootstrapped, asked, timer, syncErr, puts, flow,
                 removed>>

(* The page is opened anew; saves and a provisioning on their way are not  *)
(* called back, and nobody waits for their answers.                        *)
ReloadPage ==
  /\ Op /\ UNCHANGED <<ids, server, removed>>
  /\ projects' = <<>> /\ selP' = 0 /\ selC' = 0 /\ selN' = 0
  /\ view' = "project_home"
  /\ bootstrapped' = FALSE /\ asked' = FALSE /\ timer' = FALSE /\ syncErr' = FALSE
  /\ gets' = {} /\ flow' = [flow EXCEPT !.st = "none"]
  /\ puts' = [k \in DOMAIN puts |-> [puts[k] EXCEPT !.seed = FALSE]]
  /\ Exposed(Unsaved)

-----------------------------------------------------------------------------
ProjectEdits ==
  \/ createProject \/ previewTemplate \/ createFromTemplate
  \/ \E i \in IdsOf(projects) :
       \/ removeProject(i) \/ updateProject(i, 1)
       \/ onCreateCluster(i) \/ onCreateComponent(i) \/ onSelectProject(i)
       \/ \E c \in ClusterIds(Get(projects, i)) : onNavigateToCluster(i, c)
ClusterEdits ==
  HasProject /\
    \/ createCluster \/ GoBack
    \/ \E c \in ClusterIds(selectedProject) :
         \/ removeCluster(c) \/ updateClusterNode(c, 0, 1) \/ addNode(c)
         \/ onSelectCluster(c) \/ onActivateNode(c) \/ importNode(c)
         \/ \E n \in IdsOf(Get(selectedProject.clusters, c).nodes) :
              removeNode(c, n) \/ updateClusterNode(c, n, 1)
ComponentEdits ==
  HasProject /\
    \/ createComponent
    \/ \E m \in IdsOf(selectedProject.components) :
         \/ removeComponent(m) \/ updateComponent(m, 1)
         \/ \E c \in ClusterIds(selectedProject) : toggleLink(m, c)
Requests ==
  \/ bootLoad \/ saveFires
  \/ \E k \in DOMAIN puts :
       PutLands(k) \/ PutFails(k) \/ saveAnswered(k) \/ seedAnswered(k)
  \/ \E g \in gets :
       \/ g.kind = "boot" /\ bootAnswered(g)
       \/ g.kind = "reload" /\ reloadAnswered(g)
       \/ g.kind = "create" /\ createAnswered(g)
  \/ appendCluster \/ provisionFails
  \/ provisionAccepted \/ provisionRefused \/ successSeen

Next == ProjectEdits \/ ClusterEdits \/ ComponentEdits \/ Requests \/ ReloadPage

Spec == Init /\ [][Next]_vars
(* Fairness: timers fire and every request comes to an end.                *)
FairSpec == Spec /\ WF_vars(Requests)

-----------------------------------------------------------------------------
Ids == 0..MaxIds
(* The state keeps its type: among others, every id on the page and in the *)
(* backend is one that was given out.                                      *)
TypeOK ==
  /\ AllIds(projects) \cup AllIds(server) \subseteq 1..ids
  /\ {selP, selC, selN} \subseteq Ids
  /\ view \in {"project_home", "cluster_home", "component_home"}
  /\ {bootstrapped, asked, timer, syncErr} \subseteq BOOLEAN
  /\ Cardinality(gets) =< MaxGets /\ Len(puts) =< MaxPuts
  /\ ids =< MaxIds /\ ops =< MaxOps /\ fails =< MaxFails

(***************************************************************************)
(* exposed marks the ways in which the code does lose an edit, or may: the *)
(* list could not be loaded when the page was opened, and the empty one    *)
(* was saved over it; the user edited before the list was there; a save    *)
(* was sent while another was on its way, and may be overtaken by it; a    *)
(* load older than an edit was applied; the backend changed the list       *)
(* itself, by a provisioning or an import; the page was left while a save  *)
(* was pending.  As long as none of them has happened, what the backend    *)
(* has stored and what the page shows is lost by the user's removal only,  *)
(* through every edit, save, failed save, failed creation and reload.      *)
(* Nothing is said of what follows one of them.                            *)
(***************************************************************************)
NoLossAlone ==
  [][~exposed' =>
       /\ AllIds(server) \subseteq AllIds(server') \cup removed'
       /\ bootstrapped' => AllIds(projects) \subseteq AllIds(projects') \cup removed']_vars

Quiet == bootstrapped /\ ~timer /\ puts = <<>> /\ gets = {}
(* As long as none of them has happened: when nothing is under way and no  *)
(* error is shown, what the page shows is what is stored.                  *)
ShownIsStored == (~exposed /\ Quiet /\ ~syncErr) => server = projects

(* "Remove the optimistic project since provision failed": as long as none *)
(* of the above has happened, a project whose creation failed is gone from *)
(* the page.  (A load sent before may bring it back, and so may the answer *)
(* of a backend that did add the cluster.)                                 *)
FailedCreateGone ==
  (flow.st = "failed" /\ ~exposed) => ~Has(projects, flow.pid)

(* Whatever is loaded, removed or created in whichever order, the selected *)
(* cluster is one of the project that is shown, if that has any; and no    *)
(* edit of the page leaves a cluster without nodes.                        *)
SelectionHolds ==
  /\ (HasProject /\ selectedProject.clusters # <<>>) => Has(selectedProject.clusters, selC)
  /\ \A k \in DOMAIN projects : \A j \in DOMAIN projects[k].clusters :
       projects[k].clusters[j].nodes # <<>>

(* Loading and saving come to rest once the user does: a load sets off a   *)
(* save, but no save sets off another.                                     *)
SyncTerminates == <>[](~timer /\ puts = <<>> /\ gets = {})
=============================================================================
