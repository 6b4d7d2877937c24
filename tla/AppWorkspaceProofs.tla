------------------------- MODULE AppWorkspaceProofs -------------------------
(***************************************************************************)
(* Proofs about AppWorkspace, for any number of operations, ids, requests  *)
(* and failures: the selection, a creation that failed, and that the page  *)
(* and the backend agree and lose nothing as long as nothing exposes them. *)
(***************************************************************************)
EXTENDS AppWorkspace, ListLemmas

(* The lists: every cluster has a node, and the projects' ids differ and   *)
(* have been given out.                                                    *)
NodeT      == [id : Nat, rev : Nat]
ClusterT   == [id : Nat, rev : Nat, nodes : Seq(NodeT) \ {<<>>}]
ComponentT == [id : Nat, rev : Nat, links : SUBSET Nat]
ProjectT   == [id : Nat, rev : Nat, clusters : Seq(ClusterT), components : Seq(ComponentT)]
ListOK(ps, m) ==
  /\ ps \in Seq(ProjectT)
  /\ \A k \in DOMAIN ps : ps[k].id \in 1..m
  /\ \A j, k \in DOMAIN ps : ps[j].id = ps[k].id => j = k

PutT  == [list : Seq(ProjectT), st : {"sent", "ok", "fail"}, seed : BOOLEAN]
FlowT == [st : {"none", "seeding", "provisioning", "task", "done", "failed"}, pid : Nat,
          post : {"none", "running", "ok", "failed"}]
Types ==
  /\ puts \in Seq(PutT)
  /\ ids \in Nat /\ flow \in FlowT /\ flow.pid =< ids
ListsOK ==
  /\ ListOK(projects, ids) /\ ListOK(server, ids)
  /\ \A k \in DOMAIN puts : ListOK(puts[k].list, ids)
  /\ \A g \in gets : ListOK(g.ans, ids)
Selected ==
  (HasProject /\ selectedProject.clusters # <<>>) => Has(selectedProject.clusters, selC)

(***************************************************************************)
(* As long as nothing has exposed an edit: before the list is loaded there *)
(* is nothing on the page (Blank); one save at most is on its way, and     *)
(* unless the timer runs it carries what is shown (Current), so that with  *)
(* no save pending and no error the page shows what is stored; what is     *)
(* stored or on its way is on the page or was removed (Kept); and a        *)
(* project whose creation failed is gone (Undone).                         *)
(***************************************************************************)
Blank == ~bootstrapped => /\ projects = <<>> /\ puts = <<>> /\ ~timer /\ flow.st = "none"
                          /\ \A g \in gets : g.kind = "boot"
Current ==
  /\ puts = <<>> \/ puts = <<puts[1]>>
  /\ (bootstrapped /\ ~timer /\ ~syncErr /\ puts = <<>>) => server = projects
  /\ (puts # <<>> /\ puts[1].st = "ok") => server = puts[1].list
  /\ (puts # <<>> /\ ~timer) => puts[1].list = projects
Kept ==
  /\ bootstrapped => AllIds(server) \subseteq AllIds(projects) \cup removed
  /\ puts # <<>> => /\ AllIds(server) \subseteq AllIds(puts[1].list) \cup removed
                    /\ AllIds(puts[1].list) \subseteq AllIds(projects) \cup removed
Undone == flow.st = "failed" => ~Has(projects, flow.pid)
Alone == Blank /\ Current /\ Kept /\ Undone
Inv == Types /\ ListsOK /\ Selected /\ (~exposed => Alone)

(* What NoLossAlone says of a step.                                        *)
NoLoss ==
  ~exposed' =>
    /\ AllIds(server) \subseteq AllIds(server') \cup removed'
    /\ bootstrapped' => AllIds(projects) \subseteq AllIds(projects') \cup removed'

-----------------------------------------------------------------------------
(* Get finds an element with the id.                                       *)
LEMMA GetIn ==
  ASSUME NEW s, NEW i, Has(s, i)
  PROVE  \E k \in DOMAIN s : Get(s, i) = s[k] /\ s[k].id = i
BY DEF Has, Places, Get

(* Put replaces every element with the id.                                 *)
LEMMA PutSeq ==
  ASSUME NEW A, NEW s \in Seq(A), NEW i, NEW x \in A
  PROVE  /\ Put(s, i, x) \in Seq(A) /\ DOMAIN Put(s, i, x) = DOMAIN s
         /\ \A k \in DOMAIN s : Put(s, i, x)[k] = IF s[k].id = i THEN x ELSE s[k]
<1>1. s \in [1..Len(s) -> A] /\ Len(s) \in Nat /\ DOMAIN s = 1..Len(s)
  BY LenProperties, ElementOfSeq
<1>2. Put(s, i, x) \in [1..Len(s) -> A]
  BY <1>1 DEF Put
<1> QED BY <1>1, <1>2, IsASeq DEF Put

(* An element with a new id is appended.                                   *)
LEMMA AppendList ==
  ASSUME NEW m \in Nat, NEW n \in Nat, NEW ps, ListOK(ps, m), NEW x \in ProjectT,
         x.id \in (m + 1)..n
  PROVE  /\ ListOK(Append(ps, x), n)
         /\ AllIds(ps) \subseteq AllIds(Append(ps, x))
         /\ \A i : Has(Append(ps, x), i) => Has(ps, i) \/ i = x.id
<1> DEFINE t == Append(ps, x)
<1>1. ps \in Seq(ProjectT) /\ Len(ps) \in Nat /\ DOMAIN ps = 1..Len(ps)
  BY LenProperties DEF ListOK
<1>2. /\ t \in Seq(ProjectT) /\ Len(t) = Len(ps) + 1 /\ t[Len(ps) + 1] = x
      /\ \A k \in 1..Len(ps) : t[k] = ps[k]
  BY <1>1, AppendProperties
<1>3. DOMAIN t = 1..(Len(ps) + 1)
  BY <1>2, LenProperties
<1> HIDE DEF t
<1>4. \A k \in DOMAIN t : (k \in DOMAIN ps /\ t[k] = ps[k]) \/ (k = Len(ps) + 1 /\ t[k] = x)
  BY <1>1, <1>2, <1>3
<1>5. \A k \in DOMAIN ps : ps[k].id \in 1..m
  BY DEF ListOK
<1>6. \A k \in DOMAIN ps : ps[k].id # x.id
  BY <1>5
<1>7. \A k \in DOMAIN t : t[k].id \in 1..n
  <2>1. x.id \in 1..n /\ m =< n
    OBVIOUS
  <2> QED BY <1>4, <1>5, <2>1
<1>8. \A j, k \in DOMAIN t : t[j].id = t[k].id => j = k
  <2>1. \A j, k \in DOMAIN ps : ps[j].id = ps[k].id => j = k
    BY DEF ListOK
  <2> QED BY <1>4, <1>6, <2>1
<1>9. AllIds(ps) \subseteq AllIds(t)
  <2>1. \A k \in DOMAIN ps : k \in DOMAIN t /\ t[k] = ps[k]
    BY <1>1, <1>2, <1>3
  <2> QED BY <2>1 DEF AllIds
<1>10. \A i : Has(t, i) => Has(ps, i) \/ i = x.id
  BY <1>4 DEF Has, Places
<1> QED BY <1>2, <1>7, <1>8, <1>9, <1>10 DEF ListOK, t

(* A project is replaced by another version of itself.                     *)
LEMMA PutList ==
  ASSUME NEW m \in Nat, NEW n \in Nat, m =< n, NEW ps, ListOK(ps, m), NEW k \in DOMAIN ps,
         NEW x \in ProjectT, x.id = ps[k].id, NEW gone, OwnIds(ps[k]) \subseteq OwnIds(x) \cup gone
  PROVE  /\ ListOK(Put(ps, x.id, x), n)
         /\ AllIds(ps) \subseteq AllIds(Put(ps, x.id, x)) \cup gone
         /\ \A i : Has(Put(ps, x.id, x), i) => Has(ps, i)
<1> DEFINE t == Put(ps, x.id, x)
<1>1. /\ ps \in Seq(ProjectT) /\ \A j \in DOMAIN ps : ps[j].id \in 1..m
      /\ \A i, j \in DOMAIN ps : ps[i].id = ps[j].id => i = j
  BY DEF ListOK
<1>2. /\ t \in Seq(ProjectT) /\ DOMAIN t = DOMAIN ps
      /\ \A j \in DOMAIN ps : t[j] = IF ps[j].id = x.id THEN x ELSE ps[j]
  BY <1>1, PutSeq
<1> HIDE DEF t
<1>3. t[k] = x /\ \A j \in DOMAIN ps : j # k => t[j] = ps[j]
  BY <1>1, <1>2
<1>4. \A j \in DOMAIN ps : t[j].id = ps[j].id
  BY <1>3
<1>5. \A j \in DOMAIN t : t[j].id \in 1..n
  <2>1. \A i \in 1..m : i \in 1..n
    OBVIOUS
  <2> QED BY <1>1, <1>2, <1>4, <2>1
<1>6. \A i, j \in DOMAIN t : t[i].id = t[j].id => i = j
  BY <1>1, <1>2, <1>4
<1>7. AllIds(ps) \subseteq AllIds(t) \cup gone
  <2>1. ASSUME NEW i \in AllIds(ps) PROVE i \in AllIds(t) \cup gone
    <3>1. PICK j \in DOMAIN ps : i \in OwnIds(ps[j])
      BY <2>1 DEF AllIds
    <3>2. i \in OwnIds(t[j]) \/ i \in gone
      BY <1>3, <3>1
    <3> QED BY <1>2, <3>1, <3>2 DEF AllIds
  <2> QED BY <2>1
<1>8. \A i : Has(t, i) => Has(ps, i)
  BY <1>2, <1>4 DEF Has, Places
<1> QED BY <1>2, <1>5, <1>6, <1>7, <1>8 DEF ListOK, t

(* A project is left out.                                                  *)
LEMMA WithoutList ==
  ASSUME NEW m \in Nat, NEW ps, ListOK(ps, m), NEW i
  PROVE  /\ ListOK(Without(ps, i), m)
         /\ AllIds(ps) \subseteq AllIds(Without(ps, i)) \cup IdsUnder(ps, i)
         /\ \A j : Has(Without(ps, i), j) => Has(ps, j) /\ j # i
<1> DEFINE w == Without(ps, i)
<1>1. /\ ps \in Seq(ProjectT) /\ \A j \in DOMAIN ps : ps[j].id \in 1..m
      /\ \A k, j \in DOMAIN ps : ps[k].id = ps[j].id => k = j
  BY DEF ListOK
<1>2. w \in Seq(ProjectT)
  BY <1>1, WithoutSeq
<1>3. /\ \A k \in DOMAIN w : w[k].id # i /\ \E j \in DOMAIN ps : w[k] = ps[j]
      /\ \A j \in DOMAIN ps : ps[j].id # i => \E k \in DOMAIN w : w[k] = ps[j]
      /\ \A k, l \in DOMAIN w : w[k].id = w[l].id => k = l
  BY <1>1, WithoutKeeps
<1> HIDE DEF w
<1>4. ListOK(w, m)
  BY <1>1, <1>2, <1>3 DEF ListOK
<1>5. AllIds(ps) \subseteq AllIds(w) \cup IdsUnder(ps, i)
  <2>1. ASSUME NEW x \in AllIds(ps) PROVE x \in AllIds(w) \cup IdsUnder(ps, i)
    <3>1. PICK j \in DOMAIN ps : x \in OwnIds(ps[j])
      BY <2>1 DEF AllIds
    <3>2. CASE ps[j].id = i
      BY <3>1, <3>2 DEF IdsUnder, Places
    <3>3. CASE ps[j].id # i
      <4>1. PICK k \in DOMAIN w : w[k] = ps[j]
        BY <1>3, <3>3
      <4> QED BY <3>1, <4>1 DEF AllIds
    <3> QED BY <3>2, <3>3
  <2> QED BY <2>1
<1>6. \A j : Has(w, j) => Has(ps, j) /\ j # i
  <2>1. ASSUME NEW j, Has(w, j) PROVE Has(ps, j) /\ j # i
    <3>1. PICK k \in DOMAIN w : w[k].id = j
      BY <2>1 DEF Has, Places
    <3>2. PICK l \in DOMAIN ps : w[k] = ps[l]
      BY <1>3
    <3> QED BY <1>3, <3>1, <3>2 DEF Has, Places
  <2> QED BY <2>1
<1> QED BY <1>4, <1>5, <1>6 DEF w

(* A list stays one when more ids are given out.                           *)
LEMMA LaterList ==
  ASSUME NEW m \in Nat, NEW n \in Nat, m =< n, NEW ps, ListOK(ps, m)
  PROVE  ListOK(ps, n)
<1>1. \A i \in 1..m : i \in 1..n
  OBVIOUS
<1> QED BY <1>1 DEF ListOK

(* The project that is shown is one of the list.                           *)
LEMMA ShownIn ==
  ASSUME NEW m \in Nat, NEW ps, ListOK(ps, m), ps # <<>>, NEW p
  PROVE  \E k \in DOMAIN ps : ShownOf(ps, p) = ps[k] /\ ps[k] \in ProjectT
<1>1. ps \in Seq(ProjectT) /\ DOMAIN ps = 1..Len(ps) /\ Len(ps) \in Nat /\ Len(ps) # 0
  BY LenProperties, EmptySeq DEF ListOK
<1>2. \A k \in DOMAIN ps : ps[k] \in ProjectT
  BY <1>1, ElementOfSeq
<1>3. CASE Has(ps, p)
  BY <1>2, <1>3, GetIn DEF ShownOf
<1>4. CASE ~Has(ps, p)
  BY <1>1, <1>2, <1>4 DEF ShownOf
<1> QED BY <1>3, <1>4

(* What is rendered has the selection repaired.                            *)
LEMMA RenderSelected ==
  ASSUME NEW m \in Nat, NEW ps, ListOK(ps, m), NEW p, NEW c, NEW n, Render(ps, p, c, n)
  PROVE  projects' = ps /\ Selected'
<1>1. projects' = ps /\ selP' = RepairP(ps, p) /\ selC' = RepairC(ps, p, c)
  BY DEF Render
<1>2. ASSUME ps # <<>> PROVE selectedProject' = ShownOf(ps, p)
  <2>1. selectedProject' = ShownOf(ps, selP')
    BY <1>1 DEF selectedProject, ShownOf
  <2>2. CASE p # 0
    BY <1>1, <2>1, <2>2 DEF RepairP
  <2>3. CASE p = 0
    <3>1. ps \in Seq(ProjectT) /\ DOMAIN ps = 1..Len(ps) /\ Len(ps) \in Nat /\ Len(ps) # 0
      BY <1>2, LenProperties, EmptySeq DEF ListOK
    <3>2. 1 \in DOMAIN ps /\ selP' = ps[1].id
      BY <1>1, <1>2, <2>3, <3>1 DEF RepairP
    <3>3. ~Has(ps, p)
      BY <2>3 DEF Has, Places, ListOK
    <3>4. Has(ps, ps[1].id)
      BY <3>2 DEF Has, Places
    <3>5. Get(ps, ps[1].id) = ps[1]
      BY <3>2, <3>4, GetIn DEF ListOK
    <3> QED BY <2>1, <3>2, <3>3, <3>4, <3>5 DEF ShownOf
  <2> QED BY <2>2, <2>3
<1>3. ASSUME ps # <<>>, ShownOf(ps, p).clusters # <<>> PROVE Has(ShownOf(ps, p).clusters, selC')
  <2> DEFINE cs == ShownOf(ps, p).clusters
  <2>1. cs \in Seq(ClusterT)
    BY <1>3, ShownIn DEF ProjectT
  <2>2. DOMAIN cs = 1..Len(cs) /\ Len(cs) \in Nat /\ Len(cs) # 0
    BY <1>3, <2>1, LenProperties, EmptySeq
  <2>3. selC' = ShownCluster(ps, p, c).id
    BY <1>1, <1>3 DEF RepairC
  <2>4. ShownCluster(ps, p, c) = IF Has(cs, c) THEN Get(cs, c) ELSE cs[1]
    BY DEF ShownCluster
  <2> HIDE DEF cs
  <2>5. CASE Has(cs, c)
    <3>1. PICK k \in DOMAIN cs : Get(cs, c) = cs[k]
      BY <2>5, GetIn
    <3> QED BY <2>3, <2>4, <2>5, <3>1 DEF Has, Places, cs
  <2>6. CASE ~Has(cs, c)
    BY <2>2, <2>3, <2>4, <2>6 DEF Has, Places, cs
  <2> QED BY <2>5, <2>6
<1> QED BY <1>1, <1>2, <1>3 DEF Selected, HasProject

(* A step that keeps the list and the selection.                           *)
LEMMA SameSelected ==
  ASSUME Selected, UNCHANGED <<projects, selP, selC>>
  PROVE  Selected'
BY DEF Selected, HasProject, selectedProject

-----------------------------------------------------------------------------
(* What an edit makes of the list.                                         *)
Change(ps) ==
  /\ ids' \in Nat /\ ids =< ids' /\ removed \subseteq removed'
  /\ ListOK(ps, ids')
  /\ AllIds(projects) \subseteq AllIds(ps) \cup removed'
  /\ \A i : Has(ps, i) => Has(projects, i) \/ i \in (ids + 1)..ids'

(* An edit keeps the invariant and loses nothing.                          *)
LEMMA EditInv ==
  ASSUME Inv, NEW ps, NEW p, NEW c, Edit(ps, p, c), Change(ps)
  PROVE  Inv' /\ NoLoss
<1>0. Types /\ ListsOK /\ (~exposed => Alone)
  BY DEF Inv
<1>1. /\ Render(ps, p, c, selN) /\ timer' = bootstrapped /\ exposed' = (exposed \/ ~bootstrapped)
      /\ UNCHANGED <<bootstrapped, syncErr, gets, puts, flow, server>>
  BY DEF Edit, ArmSave, Exposed
<1>2. ids' \in Nat /\ ids =< ids' /\ removed \subseteq removed' /\ ListOK(ps, ids')
  BY DEF Change
<1>3. projects' = ps /\ Selected'
  BY <1>1, <1>2, RenderSelected
<1>4. Types'
  <2>1. ids \in Nat /\ flow.pid \in Nat /\ flow.pid =< ids
    BY <1>0 DEF Types, FlowT
  <2>2. flow.pid =< ids'
    BY <1>2, <2>1
  <2> QED BY <1>0, <1>1, <1>2, <2>2 DEF Types
<1>5. ListsOK'
  <2>1. ids \in Nat
    BY <1>0 DEF Types
  <2>2. ListOK(server, ids')
    BY <1>0, <1>2, <2>1, LaterList DEF ListsOK
  <2>3. \A k \in DOMAIN puts : ListOK(puts[k].list, ids')
    BY <1>0, <1>2, <2>1, LaterList DEF ListsOK
  <2>4. \A g \in gets : ListOK(g.ans, ids')
    BY <1>0, <1>2, <2>1, LaterList DEF ListsOK
  <2> QED BY <1>1, <1>2, <1>3, <2>2, <2>3, <2>4 DEF ListsOK
<1>6. ASSUME ~exposed' PROVE Alone'
  <2>0. ~exposed /\ bootstrapped /\ timer' /\ Alone
    BY <1>0, <1>1, <1>6
  <2>1. Blank'
    BY <1>1, <2>0 DEF Blank
  <2>2. Current'
    BY <1>1, <2>0 DEF Current, Alone
  <2>3. Kept'
    <3>1. AllIds(projects) \subseteq AllIds(ps) \cup removed'
      BY DEF Change
    <3>2. Kept
      BY <2>0 DEF Alone
    <3> QED BY <1>1, <1>2, <1>3, <2>0, <3>1, <3>2 DEF Kept
  <2>4. Undone'
    <3>1. flow.pid \in Nat /\ flow.pid =< ids /\ ids \in Nat
      BY <1>0 DEF Types, FlowT
    <3>2. flow.pid \notin (ids + 1)..ids'
      BY <1>2, <3>1
    <3>3. Has(ps, flow.pid) => Has(projects, flow.pid)
      BY <3>2 DEF Change
    <3> QED BY <1>1, <1>3, <2>0, <3>3 DEF Undone, Alone
  <2> QED BY <2>1, <2>2, <2>3, <2>4 DEF Alone
<1>7. NoLoss
  BY <1>1, <1>3 DEF NoLoss, Change
<1> QED BY <1>3, <1>4, <1>5, <1>6, <1>7 DEF Inv

-----------------------------------------------------------------------------
(* What is made anew.                                                      *)
LEMMA NewTypes ==
  ASSUME NEW i \in Nat, NEW j \in Nat
  PROVE  /\ makeDefaultNode(i) \in NodeT
         /\ Cluster(i, <<makeDefaultNode(j)>>) \in ClusterT
         /\ Component(i, {}) \in ComponentT /\ Component(i, {j}) \in ComponentT
         /\ Project(i) \in ProjectT /\ Project(i).id = i
<1>1. makeDefaultNode(i) \in NodeT /\ makeDefaultNode(j) \in NodeT
  BY DEF makeDefaultNode, NodeT
<1>2. <<makeDefaultNode(j)>> \in Seq(NodeT) /\ <<makeDefaultNode(j)>> # <<>>
  BY <1>1
<1>3. Cluster(i, <<makeDefaultNode(j)>>) \in ClusterT
  BY <1>2 DEF Cluster, ClusterT
<1>4. Component(i, {}) \in ComponentT /\ Component(i, {j}) \in ComponentT
  BY DEF Component, ComponentT
<1>5. <<>> \in Seq(ClusterT) /\ <<>> \in Seq(ComponentT)
  OBVIOUS
<1>6. Project(i) \in ProjectT /\ Project(i).id = i
  BY <1>5 DEF Project, ProjectT
<1> QED BY <1>1, <1>3, <1>4, <1>6

(* What a template makes.                                                  *)
LEMMA TemplateType ==
  ASSUME NEW i \in Nat
  PROVE  buildProject(i) \in ProjectT /\ buildProject(i).id = i
<1> DEFINE cs == <<Cluster(i + 1, <<makeDefaultNode(i + 2)>>)>>
           ms == <<Component(i + 3, {i + 1})>>
<1>1. i + 1 \in Nat /\ i + 2 \in Nat /\ i + 3 \in Nat
  OBVIOUS
<1>2. Cluster(i + 1, <<makeDefaultNode(i + 2)>>) \in ClusterT /\ Component(i + 3, {i + 1}) \in ComponentT
  BY <1>1, NewTypes
<1>3. cs \in Seq(ClusterT) /\ ms \in Seq(ComponentT)
  BY <1>2
<1>4. buildProject(i) = [Project(i) EXCEPT !.clusters = cs, !.components = ms]
  BY DEF buildProject
<1> HIDE DEF cs, ms
<1>5. Project(i) \in ProjectT /\ Project(i).id = i
  BY NewTypes
<1> QED BY <1>3, <1>4, <1>5 DEF ProjectT

(* The ids of a list after an addition, a replacement and a removal.       *)
LEMMA ListIds ==
  ASSUME NEW A, NEW s \in Seq(A), NEW x \in A, NEW i
  PROVE  /\ Append(s, x) \in Seq(A) /\ Append(s, x) # <<>>
         /\ IdsOf(s) \subseteq IdsOf(Append(s, x))
         /\ x.id = i => IdsOf(s) \subseteq IdsOf(Put(s, i, x))
         /\ Without(s, i) \in Seq(A) /\ IdsOf(s) \subseteq IdsOf(Without(s, i)) \cup {i}
<1>1. DOMAIN s = 1..Len(s) /\ Len(s) \in Nat
  BY LenProperties
<1>2. /\ Append(s, x) \in Seq(A) /\ Len(Append(s, x)) = Len(s) + 1
      /\ \A k \in 1..Len(s) : Append(s, x)[k] = s[k]
  BY AppendProperties
<1>3. DOMAIN Append(s, x) = 1..(Len(s) + 1) /\ Append(s, x) # <<>>
  BY <1>1, <1>2, LenProperties, EmptySeq
<1>4. IdsOf(s) \subseteq IdsOf(Append(s, x))
  <2>1. ASSUME NEW k \in DOMAIN s PROVE k \in DOMAIN Append(s, x) /\ Append(s, x)[k] = s[k]
    BY <1>1, <1>2, <1>3
  <2> DEFINE t == Append(s, x)
  <2>2. \A k \in DOMAIN s : k \in DOMAIN t /\ t[k] = s[k]
    BY <2>1
  <2> HIDE DEF t
  <2>3. IdsOf(s) \subseteq IdsOf(t)
    BY <2>2 DEF IdsOf
  <2> QED BY <2>3 DEF t
<1>5. ASSUME x.id = i PROVE IdsOf(s) \subseteq IdsOf(Put(s, i, x))
  <2> DEFINE t == Put(s, i, x)
  <2>1. DOMAIN t = DOMAIN s /\ \A k \in DOMAIN s : t[k] = IF s[k].id = i THEN x ELSE s[k]
    BY PutSeq
  <2> HIDE DEF t
  <2>2. \A k \in DOMAIN s : t[k].id = s[k].id
    BY <1>5, <2>1
  <2>3. IdsOf(s) \subseteq IdsOf(t)
    BY <2>1, <2>2 DEF IdsOf
  <2> QED BY <2>3 DEF t
<1>6. Without(s, i) \in Seq(A)
  BY WithoutSeq
<1>7. IdsOf(s) \subseteq IdsOf(Without(s, i)) \cup {i}
  <2> DEFINE t == Without(s, i)
  <2>1. \A j \in DOMAIN s : s[j].id # i => \E k \in DOMAIN t : t[k] = s[j]
    BY WithoutKeeps
  <2> HIDE DEF t
  <2>2. IdsOf(s) \subseteq IdsOf(t) \cup {i}
    BY <2>1 DEF IdsOf
  <2> QED BY <2>2 DEF t
<1> QED BY <1>2, <1>3, <1>4, <1>5, <1>6, <1>7

(* A project with other clusters.                                          *)
LEMMA WithClusters ==
  ASSUME NEW p \in ProjectT, NEW cs \in Seq(ClusterT), NEW gone,
         IdsOf(p.clusters) \subseteq IdsOf(cs) \cup gone
  PROVE  /\ [p EXCEPT !.clusters = cs] \in ProjectT /\ [p EXCEPT !.clusters = cs].id = p.id
         /\ OwnIds(p) \subseteq OwnIds([p EXCEPT !.clusters = cs]) \cup gone
<1> DEFINE x == [p EXCEPT !.clusters = cs]
<1>1. /\ x \in ProjectT /\ x.id = p.id /\ x.clusters = cs /\ x.components = p.components
  BY DEF ProjectT
<1> HIDE DEF x
<1>2. OwnIds(p) \subseteq OwnIds(x) \cup gone
  BY <1>1 DEF OwnIds, ClusterIds
<1> QED BY <1>1, <1>2 DEF x

(* A project with other components.                                        *)
LEMMA WithComponents ==
  ASSUME NEW p \in ProjectT, NEW cs \in Seq(ComponentT), NEW gone,
         IdsOf(p.components) \subseteq IdsOf(cs) \cup gone
  PROVE  /\ [p EXCEPT !.components = cs] \in ProjectT /\ [p EXCEPT !.components = cs].id = p.id
         /\ OwnIds(p) \subseteq OwnIds([p EXCEPT !.components = cs]) \cup gone
<1> DEFINE x == [p EXCEPT !.components = cs]
<1>1. /\ x \in ProjectT /\ x.id = p.id /\ x.components = cs /\ x.clusters = p.clusters
  BY DEF ProjectT
<1> HIDE DEF x
<1>2. OwnIds(p) \subseteq OwnIds(x) \cup gone
  BY <1>1 DEF OwnIds, ClusterIds
<1> QED BY <1>1, <1>2 DEF x

-----------------------------------------------------------------------------
(* A project of the page is replaced by another version of itself.         *)
LEMMA PutChange ==
  ASSUME Inv, ids' \in Nat, ids =< ids', NEW k \in DOMAIN projects, NEW x \in ProjectT,
         x.id = projects[k].id, NEW gone, OwnIds(projects[k]) \subseteq OwnIds(x) \cup gone,
         removed \cup gone \subseteq removed'
  PROVE  Change(Put(projects, x.id, x))
<1>1. ListOK(projects, ids) /\ ids \in Nat
  BY DEF Inv, ListsOK, Types
<1>2. /\ ListOK(Put(projects, x.id, x), ids')
      /\ AllIds(projects) \subseteq AllIds(Put(projects, x.id, x)) \cup gone
      /\ \A i : Has(Put(projects, x.id, x), i) => Has(projects, i)
  BY <1>1, PutList
<1> QED BY <1>2 DEF Change

(* A new project.                                                          *)
LEMMA AppendChange ==
  ASSUME Inv, ids' \in Nat, NEW x \in ProjectT, x.id = ids + 1, ids + 1 =< ids', removed' = removed
  PROVE  Change(Append(projects, x))
<1>1. ListOK(projects, ids) /\ ids \in Nat
  BY DEF Inv, ListsOK, Types
<1>2. x.id \in (ids + 1)..ids'
  BY <1>1
<1>3. /\ ListOK(Append(projects, x), ids')
      /\ AllIds(projects) \subseteq AllIds(Append(projects, x))
      /\ \A i : Has(Append(projects, x), i) => Has(projects, i) \/ i = x.id
  BY <1>1, <1>2, AppendList
<1> QED BY <1>1, <1>2, <1>3 DEF Change

(* The project the page shows is one of its list.                          *)
LEMMA SelectedIn ==
  ASSUME Inv, HasProject
  PROVE  \E k \in DOMAIN projects : selectedProject = projects[k] /\ projects[k] \in ProjectT
<1>1. ListOK(projects, ids) /\ ids \in Nat
  BY DEF Inv, ListsOK, Types
<1>2. selectedProject = ShownOf(projects, selP)
  BY DEF selectedProject, ShownOf
<1> QED BY <1>1, <1>2, ShownIn DEF HasProject

(* A project a click is about is one of the list.                          *)
LEMMA ClickedIn ==
  ASSUME Inv, NEW i \in IdsOf(projects)
  PROVE  \E k \in DOMAIN projects : /\ Get(projects, i) = projects[k] /\ projects[k].id = i
                                    /\ projects[k] \in ProjectT
<1>1. projects \in Seq(ProjectT)
  BY DEF Inv, ListsOK, ListOK
<1>2. \A k \in DOMAIN projects : projects[k] \in ProjectT
  BY <1>1, LenProperties, ElementOfSeq
<1>3. Has(projects, i)
  BY DEF IdsOf, Has, Places
<1> QED BY <1>2, <1>3, GetIn

-----------------------------------------------------------------------------
(* Clicks that add a project or leave one out.                             *)
LEMMA ProjectsInv ==
  ASSUME Inv, createProject \/ previewTemplate \/ \E i \in IdsOf(projects) : removeProject(i)
  PROVE  Inv' /\ NoLoss
<1>0. ids \in Nat /\ ListOK(projects, ids)
  BY DEF Inv, Types, ListsOK
<1>1. CASE createProject
  <2>1. /\ Edit(Append(projects, Project(ids + 1)), ids + 1, selC)
        /\ ids' = ids + 1 /\ removed' = removed
    BY <1>1 DEF createProject, NewIds
  <2>2. ids + 1 \in Nat
    BY <1>0
  <2>3. Project(ids + 1) \in ProjectT /\ Project(ids + 1).id = ids + 1
    BY <2>2, NewTypes
  <2>4. Change(Append(projects, Project(ids + 1)))
    BY <1>0, <2>1, <2>3, AppendChange
  <2> QED BY <2>1, <2>4, EditInv
<1>2. CASE previewTemplate
  <2>1. /\ Edit(Append(projects, buildProject(ids + 1)), ids + 1, ids + 2)
        /\ ids' = ids + 4 /\ removed' = removed
    BY <1>2 DEF previewTemplate, NewIds, Edit
  <2>2. buildProject(ids + 1) \in ProjectT /\ buildProject(ids + 1).id = ids + 1
    BY <1>0, TemplateType
  <2>3. Change(Append(projects, buildProject(ids + 1)))
    BY <1>0, <2>1, <2>2, AppendChange
  <2> QED BY <2>1, <2>3, EditInv
<1>3. CASE \E i \in IdsOf(projects) : removeProject(i)
  <2>1. PICK i \in IdsOf(projects) : removeProject(i)
    BY <1>3
  <2>2. PICK p, c : Edit(Without(projects, i), p, c)
    BY <2>1 DEF removeProject
  <2>3. ids' = ids /\ removed' = removed \cup IdsUnder(projects, i)
    BY <2>1 DEF removeProject, Drops
  <2>4. /\ ListOK(Without(projects, i), ids)
        /\ AllIds(projects) \subseteq AllIds(Without(projects, i)) \cup IdsUnder(projects, i)
        /\ \A j : Has(Without(projects, i), j) => Has(projects, j)
    BY <1>0, WithoutList
  <2>5. Change(Without(projects, i))
    BY <1>0, <2>3, <2>4 DEF Change
  <2> QED BY <2>2, <2>5, EditInv
<1> QED BY <1>1, <1>2, <1>3

(* The clusters of a project change.                                       *)
LEMMA ClustersInv ==
  ASSUME Inv, NEW k \in DOMAIN projects, NEW cs \in Seq(ClusterT), NEW gone,
         IdsOf(projects[k].clusters) \subseteq IdsOf(cs) \cup gone,
         ids' \in Nat, ids =< ids', removed \cup gone \subseteq removed',
         NEW p, NEW c,
         Edit(Put(projects, projects[k].id, [projects[k] EXCEPT !.clusters = cs]), p, c)
  PROVE  Inv' /\ NoLoss
<1>1. projects[k] \in ProjectT
  BY LenProperties, ElementOfSeq DEF Inv, ListsOK, ListOK
<1>2. PICK x : x = [projects[k] EXCEPT !.clusters = cs]
  OBVIOUS
<1>3. /\ x \in ProjectT /\ x.id = projects[k].id
      /\ OwnIds(projects[k]) \subseteq OwnIds(x) \cup gone
  BY <1>1, <1>2, WithClusters
<1>4. Change(Put(projects, x.id, x))
  BY <1>3, PutChange
<1>5. Edit(Put(projects, x.id, x), p, c)
  BY <1>2, <1>3
<1> QED BY <1>4, <1>5, EditInv

(* The components of a project change.                                     *)
LEMMA ComponentsInv ==
  ASSUME Inv, NEW k \in DOMAIN projects, NEW cs \in Seq(ComponentT), NEW gone,
         IdsOf(projects[k].components) \subseteq IdsOf(cs) \cup gone,
         ids' \in Nat, ids =< ids', removed \cup gone \subseteq removed',
         NEW p, NEW c,
         Edit(Put(projects, projects[k].id, [projects[k] EXCEPT !.components = cs]), p, c)
  PROVE  Inv' /\ NoLoss
<1>1. projects[k] \in ProjectT
  BY LenProperties, ElementOfSeq DEF Inv, ListsOK, ListOK
<1>2. PICK x : x = [projects[k] EXCEPT !.components = cs]
  OBVIOUS
<1>3. /\ x \in ProjectT /\ x.id = projects[k].id
      /\ OwnIds(projects[k]) \subseteq OwnIds(x) \cup gone
  BY <1>1, <1>2, WithComponents
<1>4. Change(Put(projects, x.id, x))
  BY <1>3, PutChange
<1>5. Edit(Put(projects, x.id, x), p, c)
  BY <1>2, <1>3
<1> QED BY <1>4, <1>5, EditInv

(* Clicks on a project of the list.                                        *)
LEMMA ProjectInv ==
  ASSUME Inv, NEW i \in IdsOf(projects),
         updateProject(i, 1) \/ onCreateCluster(i) \/ onCreateComponent(i)
  PROVE  Inv' /\ NoLoss
<1>0. ids \in Nat
  BY DEF Inv, Types
<1>1. PICK k \in DOMAIN projects : /\ Get(projects, i) = projects[k] /\ projects[k].id = i
                                   /\ projects[k] \in ProjectT
  BY ClickedIn
<1>2. projects[k].clusters \in Seq(ClusterT) /\ projects[k].components \in Seq(ComponentT)
  BY <1>1 DEF ProjectT
<1>3. ids + 1 \in Nat /\ ids + 2 \in Nat
  BY <1>0
<1>4. CASE updateProject(i, 1)
  <2>1. PICK x : x = [projects[k] EXCEPT !.rev = 1]
    OBVIOUS
  <2>2. /\ x \in ProjectT /\ x.id = i /\ x.clusters = projects[k].clusters
        /\ x.components = projects[k].components
    BY <1>1, <2>1 DEF ProjectT
  <2>3. Edit(Put(projects, x.id, x), selP, selC) /\ ids' = ids /\ removed' = removed
    BY <1>1, <1>4, <2>1, <2>2 DEF updateProject, Patches
  <2>4. OwnIds(projects[k]) \subseteq OwnIds(x) \cup {}
    BY <1>1, <2>2 DEF OwnIds, ClusterIds
  <2>5. removed \cup {} \subseteq removed' /\ ids' \in Nat /\ ids =< ids'
    BY <1>0, <2>3
  <2>6. Change(Put(projects, x.id, x))
    BY <1>1, <2>2, <2>4, <2>5, PutChange
  <2> QED BY <2>3, <2>6, EditInv
<1>5. CASE onCreateCluster(i)
  <2>1. PICK y : y = Cluster(ids + 1, <<makeDefaultNode(ids + 2)>>)
    OBVIOUS
  <2>2. y \in ClusterT
    BY <1>3, <2>1, NewTypes
  <2>3. PICK cs : cs = Append(projects[k].clusters, y)
    OBVIOUS
  <2>4. cs \in Seq(ClusterT) /\ IdsOf(projects[k].clusters) \subseteq IdsOf(cs) \cup {}
    BY <1>2, <2>2, <2>3, ListIds
  <2>5. Edit(Put(projects, projects[k].id, [projects[k] EXCEPT !.clusters = cs]), i, ids + 1)
    BY <1>1, <1>5, <2>1, <2>3 DEF onCreateCluster, NewCluster
  <2>6. removed \cup {} \subseteq removed' /\ ids' \in Nat /\ ids =< ids'
    BY <1>0, <1>5 DEF onCreateCluster, NewIds
  <2> QED BY <2>4, <2>5, <2>6, ClustersInv
<1>6. CASE onCreateComponent(i)
  <2>1. PICK y : y = Component(ids + 1, {})
    OBVIOUS
  <2>2. y \in ComponentT
    BY <1>3, <2>1, NewTypes
  <2>3. PICK cs : cs = Append(projects[k].components, y)
    OBVIOUS
  <2>4. cs \in Seq(ComponentT) /\ IdsOf(projects[k].components) \subseteq IdsOf(cs) \cup {}
    BY <1>2, <2>2, <2>3, ListIds
  <2>5. Edit(Put(projects, projects[k].id, [projects[k] EXCEPT !.components = cs]), selP, selC)
    BY <1>1, <1>6, <2>1, <2>3 DEF onCreateComponent, NewComponent
  <2>6. removed \cup {} \subseteq removed' /\ ids' \in Nat /\ ids =< ids'
    BY <1>0, <1>6 DEF onCreateComponent, NewIds
  <2> QED BY <2>4, <2>5, <2>6, ComponentsInv
<1> QED BY <1>4, <1>5, <1>6

-----------------------------------------------------------------------------
(* The clusters of the project that is shown change.                       *)
LEMMA EditClustersInv ==
  ASSUME Inv, HasProject, NEW cs \in Seq(ClusterT), NEW gone,
         IdsOf(selectedProject.clusters) \subseteq IdsOf(cs) \cup gone,
         ids' \in Nat, ids =< ids', removed \cup gone \subseteq removed',
         NEW c, EditClusters(cs, c)
  PROVE  Inv' /\ NoLoss
<1>1. PICK k \in DOMAIN projects : selectedProject = projects[k]
  BY SelectedIn
<1>2. Edit(Put(projects, projects[k].id, [projects[k] EXCEPT !.clusters = cs]), selP, c)
  BY <1>1 DEF EditClusters
<1>3. IdsOf(projects[k].clusters) \subseteq IdsOf(cs) \cup gone
  BY <1>1
<1> QED BY <1>2, <1>3, ClustersInv

(* The components of the project that is shown change.                     *)
LEMMA EditComponentsInv ==
  ASSUME Inv, HasProject, NEW cs \in Seq(ComponentT), NEW gone,
         IdsOf(selectedProject.components) \subseteq IdsOf(cs) \cup gone,
         ids' \in Nat, ids =< ids', removed \cup gone \subseteq removed',
         EditComponents(cs)
  PROVE  Inv' /\ NoLoss
<1>1. PICK k \in DOMAIN projects : selectedProject = projects[k]
  BY SelectedIn
<1>2. Edit(Put(projects, projects[k].id, [projects[k] EXCEPT !.components = cs]), selP, selC)
  BY <1>1 DEF EditComponents
<1>3. IdsOf(projects[k].components) \subseteq IdsOf(cs) \cup gone
  BY <1>1
<1> QED BY <1>2, <1>3, ComponentsInv

(* One cluster of the project that is shown changes.                       *)
LEMMA EditClusterInv ==
  ASSUME Inv, HasProject, NEW c, NEW y \in ClusterT, y.id = c, EditCluster(c, y),
         ids' \in Nat, ids =< ids', removed' = removed
  PROVE  Inv' /\ NoLoss
<1>1. PICK cs : cs = Put(selectedProject.clusters, c, y)
  OBVIOUS
<1>2. selectedProject.clusters \in Seq(ClusterT)
  BY SelectedIn DEF ProjectT
<1>3. cs \in Seq(ClusterT) /\ IdsOf(selectedProject.clusters) \subseteq IdsOf(cs) \cup {}
  BY <1>1, <1>2, PutSeq, ListIds
<1>4. EditClusters(cs, selC) /\ removed \cup {} \subseteq removed'
  BY <1>1 DEF EditCluster
<1> QED BY <1>3, <1>4, EditClustersInv

(* A cluster a click is about.                                             *)
LEMMA ClusterIn ==
  ASSUME Inv, HasProject, NEW c \in ClusterIds(selectedProject)
  PROVE  /\ Get(selectedProject.clusters, c) \in ClusterT
         /\ Get(selectedProject.clusters, c).id = c
<1>1. selectedProject.clusters \in Seq(ClusterT)
  BY SelectedIn DEF ProjectT
<1>2. Has(selectedProject.clusters, c)
  BY DEF ClusterIds, IdsOf, Has, Places
<1>3. PICK k \in DOMAIN selectedProject.clusters :
        /\ Get(selectedProject.clusters, c) = selectedProject.clusters[k]
        /\ selectedProject.clusters[k].id = c
  BY <1>2, GetIn
<1> QED BY <1>1, <1>3, LenProperties, ElementOfSeq

(* A component a click is about.                                           *)
LEMMA ComponentIn ==
  ASSUME Inv, HasProject, NEW m \in IdsOf(selectedProject.components)
  PROVE  /\ Get(selectedProject.components, m) \in ComponentT
         /\ Get(selectedProject.components, m).id = m
<1>1. selectedProject.components \in Seq(ComponentT)
  BY SelectedIn DEF ProjectT
<1>2. Has(selectedProject.components, m)
  BY DEF IdsOf, Has, Places
<1>3. PICK k \in DOMAIN selectedProject.components :
        /\ Get(selectedProject.components, m) = selectedProject.components[k]
        /\ selectedProject.components[k].id = m
  BY <1>2, GetIn
<1> QED BY <1>1, <1>3, LenProperties, ElementOfSeq

(* Clicks that add or remove a cluster.                                    *)
LEMMA ClusterListInv ==
  ASSUME Inv, HasProject, createCluster \/ \E c \in ClusterIds(selectedProject) : removeCluster(c)
  PROVE  Inv' /\ NoLoss
<1>0. ids \in Nat /\ ids + 1 \in Nat /\ ids + 2 \in Nat
  BY DEF Inv, Types
<1>1. selectedProject.clusters \in Seq(ClusterT)
  BY SelectedIn DEF ProjectT
<1>2. CASE createCluster
  <2>1. PICK y : y = Cluster(ids + 1, <<makeDefaultNode(ids + 2)>>)
    OBVIOUS
  <2>2. y \in ClusterT
    BY <1>0, <2>1, NewTypes
  <2>3. PICK cs : cs = Append(selectedProject.clusters, y)
    OBVIOUS
  <2>4. cs \in Seq(ClusterT) /\ IdsOf(selectedProject.clusters) \subseteq IdsOf(cs) \cup {}
    BY <1>1, <2>2, <2>3, ListIds
  <2>5. EditClusters(cs, ids + 1)
    BY <1>2, <2>1, <2>3 DEF createCluster, NewCluster, EditClusters
  <2>6. removed \cup {} \subseteq removed' /\ ids' \in Nat /\ ids =< ids'
    BY <1>0, <1>2 DEF createCluster, NewIds
  <2> QED BY <2>4, <2>5, <2>6, EditClustersInv
<1>3. CASE \E c \in ClusterIds(selectedProject) : removeCluster(c)
  <2>1. PICK c \in ClusterIds(selectedProject) : removeCluster(c)
    BY <1>3
  <2>2. PICK cs : cs = Without(selectedProject.clusters, c)
    OBVIOUS
  <2>3. Get(selectedProject.clusters, c) \in ClusterT
    BY ClusterIn
  <2>4. cs \in Seq(ClusterT) /\ IdsOf(selectedProject.clusters) \subseteq IdsOf(cs) \cup {c}
    BY <1>1, <2>2, <2>3, ListIds
  <2>5. PICK d : EditClusters(cs, d)
    BY <2>1, <2>2 DEF removeCluster
  <2>6. removed \cup {c} \subseteq removed' /\ ids' \in Nat /\ ids =< ids'
    BY <1>0, <2>1 DEF removeCluster, Drops
  <2> QED BY <2>4, <2>5, <2>6, EditClustersInv
<1> QED BY <1>2, <1>3

(* Clicks on a cluster of the project that is shown.                       *)
LEMMA ClusterInv ==
  ASSUME Inv, HasProject, NEW c \in ClusterIds(selectedProject),
         \/ updateClusterNode(c, 0, 1) \/ addNode(c)
         \/ \E n \in IdsOf(Get(selectedProject.clusters, c).nodes) :
              removeNode(c, n) \/ updateClusterNode(c, n, 1)
  PROVE  Inv' /\ NoLoss
<1> DEFINE old == Get(selectedProject.clusters, c)
<1>0. ids \in Nat /\ ids + 1 \in Nat
  BY DEF Inv, Types
<1>1. old \in ClusterT /\ old.id = c
  BY ClusterIn
<1>2. old.nodes \in Seq(NodeT) /\ old.nodes # <<>>
  BY <1>1 DEF ClusterT
<1>3. ASSUME NEW ns \in Seq(NodeT), ns # <<>>
      PROVE  [old EXCEPT !.nodes = ns] \in ClusterT /\ [old EXCEPT !.nodes = ns].id = c
  <2> HIDE DEF old
  <2> QED BY <1>1, <1>3 DEF ClusterT
<1>4. CASE addNode(c)
  <2>1. PICK ns : ns = Append(old.nodes, makeDefaultNode(ids + 1))
    OBVIOUS
  <2>2. ns \in Seq(NodeT) /\ ns # <<>>
    <3>1. makeDefaultNode(ids + 1) \in NodeT
      BY <1>0, NewTypes
    <3> HIDE DEF old
    <3> QED BY <1>2, <2>1, <3>1, ListIds
  <2>3. PICK y : y = [old EXCEPT !.nodes = ns]
    OBVIOUS
  <2>4. EditCluster(c, y)
    BY <1>4, <2>1, <2>3 DEF addNode
  <2>5. ids' \in Nat /\ ids =< ids' /\ removed' = removed
    BY <1>0, <1>4 DEF addNode, NewIds
  <2>6. y \in ClusterT /\ y.id = c
    BY <1>3, <2>2, <2>3
  <2> QED BY <2>4, <2>5, <2>6, EditClusterInv
<1>5. CASE \E n : removeNode(c, n)
  <2>1. PICK n : removeNode(c, n)
    BY <1>5
  <2>2. PICK ns : ns = IF Without(old.nodes, n) = <<>> THEN old.nodes ELSE Without(old.nodes, n)
    OBVIOUS
  <2>3. ns \in Seq(NodeT) /\ ns # <<>>
    <3> HIDE DEF old
    <3> QED BY <1>2, <2>2, WithoutSeq
  <2>4. PICK y : y = [old EXCEPT !.nodes = ns]
    OBVIOUS
  <2>5. EditCluster(c, y)
    BY <2>1, <2>2, <2>4 DEF removeNode
  <2>6. ids' \in Nat /\ ids =< ids' /\ removed' = removed
    BY <1>0, <2>1 DEF removeNode, Patches
  <2>7. y \in ClusterT /\ y.id = c
    BY <1>3, <2>3, <2>4
  <2> QED BY <2>5, <2>6, <2>7, EditClusterInv
<1>6. CASE \E n : updateClusterNode(c, n, 1) /\ (n = 0 \/ n \in IdsOf(old.nodes))
  <2>1. PICK n : updateClusterNode(c, n, 1) /\ (n = 0 \/ n \in IdsOf(old.nodes))
    BY <1>6
  <2>2. ids' \in Nat /\ ids =< ids' /\ removed' = removed
    BY <1>0, <2>1 DEF updateClusterNode, Patches
  <2>3. CASE EditCluster(c, [old EXCEPT !.rev = 1])
    <3>1. PICK y : y = [old EXCEPT !.rev = 1]
      OBVIOUS
    <3>2. y \in ClusterT /\ y.id = c
      <4> HIDE DEF old
      <4> QED BY <1>1, <3>1 DEF ClusterT
    <3>3. EditCluster(c, y)
      BY <2>3, <3>1
    <3> QED BY <2>2, <3>2, <3>3, EditClusterInv
  <2>4. CASE EditCluster(c, [old EXCEPT !.nodes = Put(@, n, [id |-> n, rev |-> 1])])
    <3>1. n \in Nat
      <4>1. \A k \in DOMAIN old.nodes : old.nodes[k] \in NodeT
        <5> HIDE DEF old
        <5> QED BY <1>2, LenProperties, ElementOfSeq
      <4> HIDE DEF old
      <4> QED BY <2>1, <4>1 DEF IdsOf, NodeT
    <3>2. PICK x : x = [id |-> n, rev |-> 1]
      OBVIOUS
    <3>3. x \in NodeT
      BY <3>1, <3>2 DEF NodeT
    <3>4. PICK ns : ns = Put(old.nodes, n, x)
      OBVIOUS
    <3>5. ns \in Seq(NodeT) /\ ns # <<>>
      <4> HIDE DEF old
      <4>1. ns \in Seq(NodeT) /\ DOMAIN ns = DOMAIN old.nodes
        BY <1>2, <3>3, <3>4, PutSeq
      <4>2. DOMAIN old.nodes = 1..Len(old.nodes) /\ Len(old.nodes) \in Nat /\ Len(old.nodes) # 0
        BY <1>2, LenProperties, EmptySeq
      <4>3. 1 \in DOMAIN old.nodes
        BY <4>2
      <4> QED BY <4>1, <4>3
    <3>6. PICK y : y = [old EXCEPT !.nodes = ns]
      OBVIOUS
    <3>7. EditCluster(c, y)
      BY <2>4, <3>2, <3>4, <3>6
    <3>8. y \in ClusterT /\ y.id = c
      BY <1>3, <3>5, <3>6
    <3> QED BY <2>2, <3>7, <3>8, EditClusterInv
  <2> QED BY <2>1, <2>3, <2>4 DEF updateClusterNode
<1> QED BY <1>4, <1>5, <1>6

(* Clicks on the components of the project that is shown.                  *)
LEMMA ComponentInv ==
  ASSUME Inv, HasProject,
         \/ createComponent
         \/ \E m \in IdsOf(selectedProject.components) :
              \/ removeComponent(m) \/ updateComponent(m, 1)
              \/ \E c \in ClusterIds(selectedProject) : toggleLink(m, c)
  PROVE  Inv' /\ NoLoss
<1> DEFINE ms == selectedProject.components
<1>0. ids \in Nat /\ ids + 1 \in Nat
  BY DEF Inv, Types
<1>1. ms \in Seq(ComponentT) /\ selectedProject.clusters \in Seq(ClusterT)
  BY SelectedIn DEF ProjectT
<1>2. CASE createComponent
  <2>1. PICK y : y = Component(ids + 1, {})
    OBVIOUS
  <2>2. y \in ComponentT
    BY <1>0, <2>1, NewTypes
  <2>3. PICK cs : cs = Append(ms, y)
    OBVIOUS
  <2>4. cs \in Seq(ComponentT) /\ IdsOf(ms) \subseteq IdsOf(cs) \cup {}
    BY <1>1, <2>2, <2>3, ListIds
  <2>5. EditComponents(cs)
    BY <1>2, <2>1, <2>3 DEF createComponent
  <2>6. removed \cup {} \subseteq removed' /\ ids' \in Nat /\ ids =< ids'
    BY <1>0, <1>2 DEF createComponent, NewIds
  <2> QED BY <2>4, <2>5, <2>6, EditComponentsInv
<1>3. ASSUME NEW m \in IdsOf(ms), removeComponent(m) PROVE Inv' /\ NoLoss
  <2>1. Get(ms, m) \in ComponentT
    BY ComponentIn
  <2>2. PICK cs : cs = Without(ms, m)
    OBVIOUS
  <2>3. cs \in Seq(ComponentT) /\ IdsOf(ms) \subseteq IdsOf(cs) \cup {m}
    BY <1>1, <2>1, <2>2, ListIds
  <2>4. EditComponents(cs)
    BY <1>3, <2>2 DEF removeComponent
  <2>5. removed \cup {m} \subseteq removed' /\ ids' \in Nat /\ ids =< ids'
    BY <1>0, <1>3 DEF removeComponent, Drops
  <2> QED BY <2>3, <2>4, <2>5, EditComponentsInv
<1>4. ASSUME NEW m \in IdsOf(ms), NEW y \in ComponentT, y.id = m, EditComponents(Put(ms, m, y)),
             Patches
      PROVE  Inv' /\ NoLoss
  <2>1. PICK cs : cs = Put(ms, m, y)
    OBVIOUS
  <2>2. cs \in Seq(ComponentT) /\ IdsOf(ms) \subseteq IdsOf(cs) \cup {}
    BY <1>1, <1>4, <2>1, PutSeq, ListIds
  <2>3. EditComponents(cs)
    BY <1>4, <2>1
  <2>4. removed \cup {} \subseteq removed' /\ ids' \in Nat /\ ids =< ids'
    BY <1>0, <1>4 DEF Patches
  <2> QED BY <2>2, <2>3, <2>4, EditComponentsInv
<1>5. ASSUME NEW m \in IdsOf(ms), updateComponent(m, 1) PROVE Inv' /\ NoLoss
  <2>1. PICK y : y = [Get(ms, m) EXCEPT !.rev = 1]
    OBVIOUS
  <2>2. Get(ms, m) \in ComponentT /\ Get(ms, m).id = m
    BY ComponentIn
  <2>3. y \in ComponentT /\ y.id = m
    BY <2>1, <2>2 DEF ComponentT
  <2>4. EditComponents(Put(ms, m, y)) /\ Patches
    BY <1>5, <2>1 DEF updateComponent
  <2> QED BY <1>4, <2>3, <2>4
<1>6. ASSUME NEW m \in IdsOf(ms), NEW c \in ClusterIds(selectedProject), toggleLink(m, c)
      PROVE  Inv' /\ NoLoss
  <2>1. PICK comp : comp = Get(ms, m)
    OBVIOUS
  <2>2. comp \in ComponentT /\ comp.id = m
    BY <2>1, ComponentIn
  <2>3. c \in Nat
    BY ClusterIn DEF ClusterT
  <2>4. PICK l : l = IF c \in comp.links THEN comp.links \ {c} ELSE comp.links \cup {c}
    OBVIOUS
  <2>5. l \in SUBSET Nat
    BY <2>2, <2>3, <2>4 DEF ComponentT
  <2>6. PICK y : y = [comp EXCEPT !.links = l]
    OBVIOUS
  <2>7. y \in ComponentT /\ y.id = m
    BY <2>2, <2>5, <2>6 DEF ComponentT
  <2>8. EditComponents(Put(ms, m, y)) /\ Patches
    BY <1>6, <2>1, <2>4, <2>6 DEF toggleLink
  <2> QED BY <1>4, <2>7, <2>8
<1> QED BY <1>2, <1>3, <1>5, <1>6

(* Selecting something else.                                               *)
LEMMA SelectInv ==
  ASSUME Inv, NEW p, NEW c, NEW v, Select(p, c, v)
  PROVE  Inv' /\ NoLoss
<1>0. ids \in Nat /\ ListOK(projects, ids)
  BY DEF Inv, Types, ListsOK
<1>1. /\ Render(projects, p, c, selN)
      /\ UNCHANGED <<bootstrapped, timer, syncErr, gets, puts, flow, server, ids, removed, exposed>>
  BY DEF Select, sync, hist
<1>2. projects' = projects /\ Selected'
  BY <1>0, <1>1, RenderSelected
<1>3. Types' /\ ListsOK'
  BY <1>1, <1>2 DEF Inv, Types, ListsOK
<1>4. ASSUME ~exposed' PROVE Alone'
  <2>1. Alone
    BY <1>1, <1>4 DEF Inv
  <2> QED BY <1>1, <1>2, <2>1 DEF Alone, Blank, Current, Kept, Undone
<1>5. NoLoss
  BY <1>1, <1>2 DEF NoLoss
<1> QED BY <1>2, <1>3, <1>4, <1>5 DEF Inv

-----------------------------------------------------------------------------
(* The empty list.                                                         *)
LEMMA EmptyList == \A m : ListOK(<<>>, m)
BY DEF ListOK

(* A sequence of one element.                                              *)
LEMMA OneElement ==
  ASSUME NEW A, NEW s \in Seq(A), Len(s) = 1
  PROVE  s = <<s[1]>> /\ s # <<>> /\ s[1] \in A
<1>1. s[1] \in A
  BY ElementOfSeq
<1>2. <<s[1]>> \in Seq(A) /\ Len(<<s[1]>>) = 1 /\ <<s[1]>>[1] = s[1]
  BY <1>1
<1>3. s = <<s[1]>>
  <2>1. \A j \in 1..Len(s) : s[j] = <<s[1]>>[j]
    BY <1>2
  <2> QED BY <1>2, <2>1, SeqEqual
<1>4. s # <<>>
  BY EmptySeq
<1> QED BY <1>1, <1>3, <1>4

(* When one save at most is on its way, it is this one.                    *)
LEMMA OneSave ==
  ASSUME Types, Current, NEW k \in DOMAIN puts
  PROVE  k = 1 /\ Len(puts) = 1 /\ puts # <<>> /\ puts = <<puts[1]>>
<1>1. puts \in Seq(PutT) /\ DOMAIN puts = 1..Len(puts)
  BY LenProperties DEF Types
<1>2. puts # <<>>
  OBVIOUS
<1>3. puts = <<puts[1]>>
  BY <1>2 DEF Current
<1>4. Len(puts) = 1
  BY <1>3
<1> QED BY <1>1, <1>2, <1>3, <1>4

(* A save is answered by the backend.                                      *)
LEMMA StateSeq ==
  ASSUME NEW s \in Seq(PutT), NEW k \in DOMAIN s, NEW st \in {"sent", "ok", "fail"},
         NEW t, t = [s EXCEPT ![k].st = st]
  PROVE  /\ t \in Seq(PutT) /\ DOMAIN t = DOMAIN s
         /\ \A j \in DOMAIN s : t[j].list = s[j].list
         /\ t[k].st = st
<1>1. s \in [1..Len(s) -> PutT] /\ Len(s) \in Nat /\ DOMAIN s = 1..Len(s)
  BY LenProperties, ElementOfSeq
<1>2. PICK x : x = [s[k] EXCEPT !.st = st]
  OBVIOUS
<1>3. x \in PutT /\ x.st = st /\ x.list = s[k].list
  BY <1>1, <1>2 DEF PutT
<1>4. t = [s EXCEPT ![k] = x]
  BY <1>2
<1>5. t \in [1..Len(s) -> PutT]
  BY <1>1, <1>3, <1>4
<1>6. t \in Seq(PutT)
  BY <1>1, <1>5, IsASeq
<1> QED BY <1>1, <1>3, <1>4, <1>6

(* The timer fires.                                                        *)
LEMMA SaveInv ==
  ASSUME Inv, saveFires
  PROVE  Inv' /\ NoLoss
<1>0. Types /\ ListsOK /\ Selected
  BY DEF Inv
<1>1. /\ timer /\ timer' = FALSE /\ exposed' = (exposed \/ puts # <<>>)
      /\ puts' = Append(puts, [list |-> projects, st |-> "sent", seed |-> FALSE])
      /\ UNCHANGED <<projects, selP, selC, bootstrapped, syncErr, gets, flow, server, removed, ids>>
  BY DEF saveFires, Send, Exposed, Overlap, NoFail, counts, local
<1>2. PICK x : x = [list |-> projects, st |-> "sent", seed |-> FALSE]
  OBVIOUS
<1>3. x \in PutT /\ x.list = projects /\ x.st = "sent"
  BY <1>0, <1>2 DEF PutT, ListsOK, ListOK
<1>4. puts \in Seq(PutT) /\ Len(puts) \in Nat /\ DOMAIN puts = 1..Len(puts)
  BY <1>0, LenProperties DEF Types
<1>5. /\ puts' \in Seq(PutT) /\ Len(puts') = Len(puts) + 1 /\ puts'[Len(puts) + 1] = x
      /\ \A j \in 1..Len(puts) : puts'[j] = puts[j]
  BY <1>1, <1>2, <1>3, <1>4, AppendProperties
<1>6. Types'
  BY <1>0, <1>1, <1>5 DEF Types
<1>7. ListsOK'
  <2>1. DOMAIN puts' = 1..(Len(puts) + 1)
    BY <1>5, LenProperties
  <2>2. \A j \in DOMAIN puts' : puts'[j] = x \/ (j \in DOMAIN puts /\ puts'[j] = puts[j])
    BY <1>4, <1>5, <2>1
  <2>3. \A j \in DOMAIN puts' : ListOK(puts'[j].list, ids)
    BY <1>0, <1>3, <2>2 DEF ListsOK
  <2> QED BY <1>0, <1>1, <2>3 DEF ListsOK
<1>8. Selected'
  BY <1>0, <1>1, SameSelected
<1>9. ASSUME ~exposed' PROVE Alone'
  <2>1. Alone /\ puts = <<>>
    BY <1>1, <1>9 DEF Inv
  <2>2. Len(puts) = 0
    BY <1>4, <2>1, EmptySeq
  <2>3. Len(puts') = 1 /\ puts'[1] = x
    BY <1>5, <2>2
  <2>4. puts' = <<puts'[1]>> /\ puts' # <<>>
    BY <1>5, <2>3, OneElement
  <2>5. bootstrapped
    BY <1>1, <2>1 DEF Alone, Blank
  <2>6. Blank'
    BY <1>1, <2>5 DEF Blank
  <2>7. Current'
    BY <1>1, <1>3, <2>3, <2>4 DEF Current
  <2>8. Kept'
    BY <1>1, <1>3, <2>1, <2>3, <2>5 DEF Kept, Alone
  <2>9. Undone'
    BY <1>1, <2>1 DEF Undone, Alone
  <2> QED BY <2>6, <2>7, <2>8, <2>9 DEF Alone
<1>10. NoLoss
  BY <1>1 DEF NoLoss
<1> QED BY <1>6, <1>7, <1>8, <1>9, <1>10 DEF Inv

(* A save reaches the backend, or fails.                                   *)
LEMMA PutInv ==
  ASSUME Inv, NEW k \in DOMAIN puts, PutLands(k) \/ PutFails(k)
  PROVE  Inv' /\ NoLoss
<1>0. Types /\ ListsOK /\ Selected
  BY DEF Inv
<1>1. UNCHANGED <<projects, selP, selC, bootstrapped, timer, syncErr, gets, flow, removed, exposed, ids>>
  BY DEF PutLands, PutFails, NoFail, MayFail, counts, local, hist
<1>2. PICK st \in {"ok", "fail"} :
        /\ puts' = [puts EXCEPT ![k].st = st]
        /\ server' = puts[k].list \/ (st = "fail" /\ server' = server)
  <2>1. CASE PutLands(k)
    <3>1. puts' = [puts EXCEPT ![k].st = "ok"] /\ server' = puts[k].list
      BY <2>1 DEF PutLands
    <3> QED BY <3>1
  <2>2. CASE PutFails(k)
    <3>1. puts' = [puts EXCEPT ![k].st = "fail"] /\ server' \in {server, puts[k].list}
      BY <2>2 DEF PutFails
    <3> QED BY <3>1
  <2> QED BY <2>1, <2>2
<1>3. puts \in Seq(PutT)
  BY <1>0 DEF Types
<1>4. /\ puts' \in Seq(PutT) /\ DOMAIN puts' = DOMAIN puts
      /\ \A j \in DOMAIN puts : puts'[j].list = puts[j].list
      /\ puts'[k].st = st
  <2>1. st \in {"sent", "ok", "fail"}
    OBVIOUS
  <2>2. PICK t : t = puts'
    OBVIOUS
  <2>3. t = [puts EXCEPT ![k].st = st]
    BY <1>2, <2>2
  <2>4. /\ t \in Seq(PutT) /\ DOMAIN t = DOMAIN puts
        /\ \A j \in DOMAIN puts : t[j].list = puts[j].list
        /\ t[k].st = st
    BY <1>3, <2>1, <2>3, StateSeq
  <2> QED BY <2>2, <2>4
<1>5. Types'
  BY <1>0, <1>1, <1>4 DEF Types
<1>6. ListsOK'
  <2>1. ListOK(server', ids)
    BY <1>0, <1>2 DEF ListsOK
  <2>2. \A j \in DOMAIN puts' : ListOK(puts'[j].list, ids)
    BY <1>0, <1>4 DEF ListsOK
  <2> QED BY <1>0, <1>1, <2>1, <2>2 DEF ListsOK
<1>7. Selected'
  BY <1>0, <1>1, SameSelected
<1>8. ASSUME ~exposed' PROVE Alone' /\ NoLoss
  <2>1. Alone
    BY <1>1, <1>8 DEF Inv
  <2>2. k = 1 /\ Len(puts) = 1 /\ puts # <<>>
    BY <1>0, <2>1, OneSave DEF Alone
  <2>3. Len(puts') = 1
    BY <1>3, <1>4, <2>2, LenProperties
  <2>4. puts' = <<puts'[1]>> /\ puts' # <<>>
    BY <1>4, <2>3, OneElement
  <2>5. puts'[1].list = puts[1].list /\ puts'[1].st = st
    BY <1>4, <2>2
  <2>6. bootstrapped
    BY <2>1, <2>2 DEF Alone, Blank
  <2>7. Blank'
    BY <1>1, <2>6 DEF Blank
  <2>8. server' = puts[1].list \/ (st = "fail" /\ server' = server)
    BY <1>2, <2>2
  <2>9. Current'
    BY <1>1, <2>1, <2>2, <2>4, <2>5, <2>8 DEF Current, Alone
  <2>10. Kept'
    BY <1>1, <2>1, <2>2, <2>4, <2>5, <2>8 DEF Kept, Alone
  <2>11. Undone'
    BY <1>1, <2>1 DEF Undone, Alone
  <2>12. NoLoss
    BY <1>1, <2>1, <2>2, <2>8 DEF NoLoss, Kept, Alone
  <2> QED BY <2>7, <2>9, <2>10, <2>11, <2>12 DEF Alone
<1>9. NoLoss
  BY <1>8 DEF NoLoss
<1> QED BY <1>5, <1>6, <1>7, <1>8, <1>9 DEF Inv

(* A save that was answered leaves the queue.                              *)
LEMMA AnsweredSeq ==
  ASSUME Types, NEW k \in DOMAIN puts
  PROVE  /\ Answered(k) \in Seq(PutT)
         /\ \A j \in DOMAIN Answered(k) : \E l \in DOMAIN puts : Answered(k)[j] = puts[l]
         /\ Len(puts) = 1 => Answered(k) = <<>>
<1>1. puts \in Seq(PutT) /\ DOMAIN puts = 1..Len(puts) /\ Len(puts) \in Nat
  BY LenProperties DEF Types
<1> DEFINE t == RemoveAt(puts, k)
<1>2. Answered(k) = t
  BY DEF Answered, RemoveAt
<1>3. /\ t \in Seq(PutT) /\ Len(t) = Len(puts) - 1
      /\ \A j \in 1..(Len(puts) - 1) : t[j] = IF j < k THEN puts[j] ELSE puts[j + 1]
  BY <1>1, RemoveAtSeq
<1> HIDE DEF t
<1>4. DOMAIN t = 1..(Len(puts) - 1)
  BY <1>3, LenProperties
<1>5. \A j \in DOMAIN t : \E l \in DOMAIN puts : t[j] = puts[l]
  <2> TAKE j \in DOMAIN t
  <2>1. j \in DOMAIN puts /\ j + 1 \in DOMAIN puts
    BY <1>1, <1>4
  <2> QED BY <1>3, <1>4, <2>1
<1>6. Len(puts) = 1 => t = <<>>
  BY <1>3, EmptySeq
<1> QED BY <1>2, <1>3, <1>5, <1>6

(* The saves that are left carry lists.                                    *)
LEMMA AnsweredLists ==
  ASSUME Types, ListsOK, NEW k \in DOMAIN puts
  PROVE  \A j \in DOMAIN Answered(k) : ListOK(Answered(k)[j].list, ids)
BY AnsweredSeq DEF ListsOK

(* The answer to a save.                                                   *)
LEMMA AnswerInv ==
  ASSUME Inv, NEW k \in DOMAIN puts, saveAnswered(k)
  PROVE  Inv' /\ NoLoss
<1>0. Types /\ ListsOK /\ Selected
  BY DEF Inv
<1>1. /\ puts' = Answered(k) /\ puts[k].st # "sent" /\ syncErr' = (puts[k].st = "fail")
      /\ UNCHANGED <<projects, selP, selC, bootstrapped, timer, gets, flow, server, removed, exposed, ids>>
  BY DEF saveAnswered, NoFail, counts, local, hist
<1>2. Types' /\ ListsOK'
  <2>1. puts' \in Seq(PutT) /\ \A j \in DOMAIN puts' : ListOK(puts'[j].list, ids)
    BY <1>0, <1>1, AnsweredSeq, AnsweredLists
  <2> QED BY <1>0, <1>1, <2>1 DEF Types, ListsOK
<1>3. Selected'
  BY <1>0, <1>1, SameSelected
<1>4. ASSUME ~exposed' PROVE Alone'
  <2>1. Alone
    BY <1>1, <1>4 DEF Inv
  <2>2. k = 1 /\ Len(puts) = 1 /\ puts # <<>> /\ bootstrapped
    BY <1>0, <2>1, OneSave DEF Alone, Blank
  <2>3. puts' = <<>>
    BY <1>0, <1>1, <2>2, AnsweredSeq
  <2>4. Blank'
    BY <1>1, <2>2 DEF Blank
  <2>5. Current'
    <3>1. puts[1].st \in {"sent", "ok", "fail"}
      <4>1. puts \in Seq(PutT) /\ Len(puts) = 1
        BY <1>0, <2>2 DEF Types
      <4>2. puts[1] \in PutT
        BY <4>1, OneElement
      <4> QED BY <4>2 DEF PutT
    <3>2. ASSUME ~syncErr', ~timer PROVE server = projects
      <4>1. puts[1].st = "ok"
        BY <1>1, <2>2, <3>1, <3>2
      <4> QED BY <2>1, <2>2, <3>2, <4>1 DEF Alone, Current
    <3> QED BY <1>1, <2>3, <3>2 DEF Current
  <2>6. Kept' /\ Undone'
    BY <1>1, <2>1, <2>3 DEF Kept, Undone, Alone
  <2> QED BY <2>4, <2>5, <2>6 DEF Alone
<1>5. NoLoss
  BY <1>1 DEF NoLoss
<1> QED BY <1>2, <1>3, <1>4, <1>5 DEF Inv

(* A creation that failed is undone.                                       *)
LEMMA GiveUpInv ==
  ASSUME Inv, GiveUp, UNCHANGED <<bootstrapped, syncErr, gets, server, exposed, ids>>,
         puts' \in Seq(PutT), \A j \in DOMAIN puts' : ListOK(puts'[j].list, ids),
         ~exposed => bootstrapped /\ puts' \in {<<>>, puts}
  PROVE  Inv' /\ NoLoss
<1>0. Types /\ ListsOK /\ ids \in Nat /\ ListOK(projects, ids)
  BY DEF Inv, Types, ListsOK
<1>1. /\ Render(Without(projects, flow.pid), selP, selC, selN) /\ timer' = bootstrapped
      /\ removed' = removed \cup IdsUnder(projects, flow.pid)
      /\ flow' = [flow EXCEPT !.st = "failed"]
  BY DEF GiveUp, ArmSave
<1>2. /\ ListOK(Without(projects, flow.pid), ids)
      /\ AllIds(projects) \subseteq AllIds(Without(projects, flow.pid)) \cup IdsUnder(projects, flow.pid)
      /\ ~Has(Without(projects, flow.pid), flow.pid)
  BY <1>0, WithoutList
<1>3. projects' = Without(projects, flow.pid) /\ Selected'
  BY <1>0, <1>1, <1>2, RenderSelected
<1>4. flow' \in FlowT /\ flow'.pid = flow.pid
  BY <1>0, <1>1 DEF Types, FlowT
<1>5. Types' /\ ListsOK'
  BY <1>0, <1>2, <1>3, <1>4 DEF Types, ListsOK
<1>6. AllIds(projects) \subseteq AllIds(projects') \cup removed'
  BY <1>1, <1>2, <1>3
<1>7. ASSUME ~exposed' PROVE Alone'
  <2>1. Alone /\ bootstrapped /\ puts' \in {<<>>, puts} /\ timer'
    BY <1>1, <1>7 DEF Inv
  <2>2. Blank'
    BY <2>1 DEF Blank
  <2>3. Current'
    BY <2>1 DEF Current, Alone
  <2>4. Kept'
    BY <1>1, <1>6, <2>1 DEF Kept, Alone
  <2>5. Undone'
    BY <1>2, <1>3, <1>4 DEF Undone
  <2> QED BY <2>2, <2>3, <2>4, <2>5 DEF Alone
<1>8. NoLoss
  BY <1>6 DEF NoLoss
<1> QED BY <1>3, <1>5, <1>7, <1>8 DEF Inv

(* The answer to the save of a new project.                                *)
LEMMA SeedInv ==
  ASSUME Inv, NEW k \in DOMAIN puts, seedAnswered(k)
  PROVE  Inv' /\ NoLoss
<1>0. Types /\ ListsOK /\ Selected
  BY DEF Inv
<1>1. /\ puts' = Answered(k) /\ UNCHANGED <<bootstrapped, syncErr, gets, server, exposed, ids>>
  BY DEF seedAnswered, NoFail, counts
<1>2. puts' \in Seq(PutT) /\ \A j \in DOMAIN puts' : ListOK(puts'[j].list, ids)
  BY <1>0, <1>1, AnsweredSeq, AnsweredLists
<1>3. ASSUME ~exposed
      PROVE  Alone /\ k = 1 /\ puts # <<>> /\ bootstrapped /\ puts' = <<>>
  <2>1. Alone
    BY <1>3 DEF Inv
  <2>2. k = 1 /\ Len(puts) = 1 /\ puts # <<>> /\ bootstrapped
    BY <1>0, <2>1, OneSave DEF Alone, Blank
  <2>3. puts' = <<>>
    BY <1>0, <1>1, <2>2, AnsweredSeq
  <2> QED BY <2>1, <2>2, <2>3
<1>4. CASE GiveUp
  BY <1>1, <1>2, <1>3, <1>4, GiveUpInv
<1>5. CASE /\ puts[k].st = "ok" /\ Provision
           /\ UNCHANGED <<projects, selP, selC, timer, removed>>
  <2>1. flow' \in FlowT /\ flow'.pid = flow.pid /\ flow'.st = "provisioning"
    BY <1>0, <1>5 DEF Types, FlowT, Provision
  <2>2. Types' /\ ListsOK'
    BY <1>0, <1>1, <1>2, <1>5, <2>1 DEF Types, ListsOK
  <2>3. Selected'
    BY <1>0, <1>5, SameSelected
  <2>4. ASSUME ~exposed' PROVE Alone'
    <3>1. Alone /\ k = 1 /\ puts # <<>> /\ bootstrapped /\ puts' = <<>>
      BY <1>1, <1>3, <2>4
    <3>2. Blank'
      BY <1>1, <3>1 DEF Blank
    <3>3. Current'
      BY <1>1, <1>5, <3>1 DEF Current, Alone
    <3>4. Kept'
      BY <1>1, <1>5, <3>1 DEF Kept, Alone
    <3>5. Undone'
      BY <2>1 DEF Undone
    <3> QED BY <3>2, <3>3, <3>4, <3>5 DEF Alone
  <2>5. NoLoss
    BY <1>1, <1>5 DEF NoLoss
  <2> QED BY <2>2, <2>3, <2>4, <2>5 DEF Inv
<1> QED BY <1>4, <1>5 DEF seedAnswered

-----------------------------------------------------------------------------
(* A load is asked for, or is answered with an error.                      *)
LEMMA GetsInv ==
  ASSUME Inv,
         UNCHANGED <<projects, selP, selC, bootstrapped, timer, syncErr, puts, server,
                     exposed, removed, ids>>,
         flow' \in FlowT, flow'.pid = flow.pid, flow'.st = "failed" => flow.st = "failed",
         \A g \in gets' : ListOK(g.ans, ids),
         (~exposed /\ ~bootstrapped) => flow'.st = flow.st /\ \A g \in gets' : g.kind = "boot"
  PROVE  Inv' /\ NoLoss
<1>0. Types /\ ListsOK /\ Selected
  BY DEF Inv
<1>1. Types' /\ ListsOK'
  BY <1>0 DEF Types, ListsOK
<1>2. Selected'
  BY <1>0, SameSelected
<1>3. ASSUME ~exposed' PROVE Alone'
  <2>1. Alone
    BY <1>3 DEF Inv
  <2>2. Blank'
    BY <1>3, <2>1 DEF Blank, Alone
  <2>3. Current' /\ Kept'
    BY <2>1 DEF Current, Kept, Alone
  <2>4. Undone'
    BY <2>1 DEF Undone, Alone
  <2> QED BY <2>2, <2>3, <2>4 DEF Alone
<1>4. NoLoss
  BY DEF NoLoss
<1> QED BY <1>1, <1>2, <1>3, <1>4 DEF Inv

(* The backend answers a load with what it has stored, or not at all.      *)
LEMMA LoadAnswers ==
  ASSUME Inv, NEW kind, NEW sel, LoadOk(kind, sel) \/ LoadFailed(kind, sel)
  PROVE  /\ \A g \in gets' : ListOK(g.ans, ids)
         /\ \A g \in gets' : g \in gets \/ g.kind = kind
<1>1. PICK x : gets' = gets \cup {x} /\ x.kind = kind /\ x.ans \in {server, <<>>}
  <2>1. CASE LoadOk(kind, sel)
    <3>1. PICK x : x = [kind |-> kind, sel |-> sel, ok |-> TRUE, ans |-> server]
      OBVIOUS
    <3>2. gets' = gets \cup {x}
      BY <2>1, <3>1 DEF LoadOk
    <3>3. x.kind = kind /\ x.ans = server
      BY <3>1
    <3> QED BY <3>2, <3>3
  <2>2. CASE LoadFailed(kind, sel)
    <3>1. PICK x : x = [kind |-> kind, sel |-> sel, ok |-> FALSE, ans |-> <<>>]
      OBVIOUS
    <3>2. gets' = gets \cup {x}
      BY <2>2, <3>1 DEF LoadFailed
    <3>3. x.kind = kind /\ x.ans = <<>>
      BY <3>1
    <3> QED BY <3>2, <3>3
  <2> QED BY <2>1, <2>2
<1>2. ListOK(server, ids) /\ \A g \in gets : ListOK(g.ans, ids)
  BY DEF Inv, ListsOK
<1> QED BY <1>1, <1>2, EmptyList

(* The loads the page asks for.                                            *)
LEMMA LoadInv ==
  ASSUME Inv, bootLoad \/ provisionAccepted \/ successSeen
  PROVE  Inv' /\ NoLoss
<1>0. flow \in FlowT
  BY DEF Inv, Types
<1>1. UNCHANGED <<projects, selP, selC, bootstrapped, timer, syncErr, puts, server,
                  exposed, removed, ids>>
  BY DEF bootLoad, provisionAccepted, successSeen, NoFail, MayFail, counts, local, hist
<1>2. CASE bootLoad
  <2>1. flow' = flow /\ (LoadOk("boot", 0) \/ LoadFailed("boot", 0))
    BY <1>2 DEF bootLoad
  <2>2. /\ \A g \in gets' : ListOK(g.ans, ids)
        /\ \A g \in gets' : g \in gets \/ g.kind = "boot"
    BY <2>1, LoadAnswers
  <2>3. (~exposed /\ ~bootstrapped) => \A g \in gets' : g.kind = "boot"
    BY <2>2 DEF Inv, Alone, Blank
  <2> QED BY <1>0, <1>1, <2>1, <2>2, <2>3, GetsInv
<1>3. CASE provisionAccepted \/ successSeen
  <2>1. PICK st \in {"task", "done"} : flow' = [flow EXCEPT !.st = st] /\ flow.st # "none"
    BY <1>3 DEF provisionAccepted, successSeen
  <2>2. flow' \in FlowT /\ flow'.pid = flow.pid /\ flow'.st # "failed"
    BY <1>0, <2>1 DEF FlowT
  <2>3. PICK kind, sel : LoadOk(kind, sel) \/ LoadFailed(kind, sel)
    BY <1>3 DEF provisionAccepted, successSeen
  <2>4. \A g \in gets' : ListOK(g.ans, ids)
    BY <2>3, LoadAnswers
  <2>5. exposed \/ bootstrapped
    BY <2>1 DEF Inv, Alone, Blank
  <2> QED BY <1>1, <2>2, <2>4, <2>5, GetsInv
<1> QED BY <1>2, <1>3

(* A list that was loaded is shown.                                        *)
LEMMA ShowInv ==
  ASSUME Inv, NEW g \in gets, gets' = gets \ {g}, NEW p, NEW c, Render(g.ans, p, c, selN),
         exposed' = (exposed \/ StaleLoad(g)),
         bootstrapped' = TRUE \/ (bootstrapped' = bootstrapped /\ g.kind # "boot"),
         UNCHANGED <<puts, flow, server, removed, ids>>
  PROVE  Inv' /\ NoLoss
<1>0. Types /\ ListsOK /\ ids \in Nat /\ ListOK(g.ans, ids)
  BY DEF Inv, Types, ListsOK
<1>1. projects' = g.ans /\ Selected'
  BY <1>0, RenderSelected
<1>2. Types' /\ ListsOK'
  BY <1>0, <1>1 DEF Types, ListsOK
<1>3. ASSUME ~exposed' PROVE Alone' /\ NoLoss
  <2>1. Alone /\ g.ans = server /\ puts = <<>> /\ ~timer /\ ~syncErr
    BY <1>3 DEF Inv, StaleLoad, Unsaved
  <2>2. bootstrapped'
    BY <2>1 DEF Alone, Blank
  <2>3. bootstrapped \/ (projects = <<>> /\ flow.st = "none")
    BY <2>1 DEF Alone, Blank
  <2>4. bootstrapped => projects = server
    BY <2>1 DEF Alone, Current
  <2>5. Blank'
    BY <2>2 DEF Blank
  <2>6. Current'
    BY <1>1, <2>1 DEF Current
  <2>7. Kept'
    BY <1>1, <2>1 DEF Kept
  <2>8. Undone'
    BY <1>1, <2>1, <2>3, <2>4 DEF Undone, Alone
  <2>9. AllIds(projects) \subseteq AllIds(projects')
    <3>1. AllIds(<<>>) = {}
      BY DEF AllIds
    <3> QED BY <1>1, <2>1, <2>3, <2>4, <3>1
  <2> QED BY <2>5, <2>6, <2>7, <2>8, <2>9 DEF Alone, NoLoss
<1>4. NoLoss
  BY <1>3 DEF NoLoss
<1> QED BY <1>1, <1>2, <1>3, <1>4 DEF Inv

(* The answer to the load at the start.                                    *)
LEMMA BootInv ==
  ASSUME Inv, NEW g \in gets, bootAnswered(g)
  PROVE  Inv' /\ NoLoss
<1>0. Types /\ ListsOK /\ Selected
  BY DEF Inv
<1>1. gets' = gets \ {g} /\ bootstrapped' = TRUE /\ UNCHANGED <<puts, flow, server, removed, ids>>
  BY DEF bootAnswered, NoFail, counts
<1>2. CASE g.ok
  <2>1. exposed' = (exposed \/ StaleLoad(g))
    BY <1>2 DEF bootAnswered, Exposed
  <2>2. PICK p, c : Render(g.ans, p, c, selN)
    BY <1>2 DEF bootAnswered
  <2> QED BY <1>1, <2>1, <2>2, ShowInv
<1>3. CASE ~g.ok
  <2>1. exposed' = TRUE /\ UNCHANGED <<projects, selP, selC>>
    BY <1>3 DEF bootAnswered, Exposed
  <2>2. Types' /\ ListsOK'
    BY <1>0, <1>1, <2>1 DEF Types, ListsOK
  <2>3. Selected'
    BY <1>0, <2>1, SameSelected
  <2> QED BY <2>1, <2>2, <2>3 DEF Inv, NoLoss
<1> QED BY <1>2, <1>3

(* The answer to a load that came later.                                   *)
LEMMA ReloadInv ==
  ASSUME Inv, NEW g \in gets, g.kind # "boot", reloadAnswered(g) \/ createAnswered(g)
  PROVE  Inv' /\ NoLoss
<1>1. gets' = gets \ {g} /\ UNCHANGED <<bootstrapped, syncErr, puts, flow, server, removed, ids>>
  BY DEF reloadAnswered, createAnswered, NoFail, counts
<1>2. CASE g.ok
  <2>1. exposed' = (exposed \/ StaleLoad(g))
    BY <1>2 DEF reloadAnswered, createAnswered, Exposed
  <2>2. PICK p, c : Render(g.ans, p, c, selN)
    BY <1>2 DEF reloadAnswered, createAnswered
  <2> QED BY <1>1, <2>1, <2>2, ShowInv
<1>3. CASE ~g.ok
  <2>1. UNCHANGED <<projects, selP, selC, timer, exposed>>
    BY <1>3 DEF reloadAnswered, createAnswered, local
  <2>2. flow' \in FlowT /\ flow' = flow
    BY <1>1 DEF Inv, Types
  <2>3. \A h \in gets' : ListOK(h.ans, ids)
    BY <1>1 DEF Inv, ListsOK
  <2>4. (~exposed /\ ~bootstrapped) => \A h \in gets' : h.kind = "boot"
    BY <1>1 DEF Inv, Alone, Blank
  <2> QED BY <1>1, <2>1, <2>2, <2>3, <2>4, GetsInv
<1> QED BY <1>2, <1>3

-----------------------------------------------------------------------------
(* A project is created from a template.                                   *)
LEMMA CreateInv ==
  ASSUME Inv, createFromTemplate
  PROVE  Inv' /\ NoLoss
<1>0. Types /\ ListsOK /\ ids \in Nat /\ ids + 1 \in Nat
  BY DEF Inv, Types
<1>1. PICK ps : ps = Append(projects, Project(ids + 1))
  OBVIOUS
<1>2. /\ Render(ps, ids + 1, selC, selN) /\ timer' = bootstrapped
      /\ puts' = Append(puts, [list |-> ps, st |-> "sent", seed |-> TRUE])
      /\ flow' = [st |-> "seeding", pid |-> ids + 1, post |-> "none"] /\ ids' = ids + 1
      /\ exposed' = (exposed \/ puts # <<>> \/ ~bootstrapped)
      /\ UNCHANGED <<bootstrapped, syncErr, gets, server, removed>>
  BY <1>1 DEF createFromTemplate, Send, Exposed, Overlap, NewIds, ArmSave
<1>3. Change(ps)
  <2>1. Project(ids + 1) \in ProjectT /\ Project(ids + 1).id = ids + 1
    BY <1>0, NewTypes
  <2> QED BY <1>0, <1>1, <1>2, <2>1, AppendChange
<1>4. ListOK(ps, ids') /\ AllIds(projects) \subseteq AllIds(ps) \cup removed' /\ ids' \in Nat /\ ids =< ids'
  BY <1>3 DEF Change
<1>5. projects' = ps /\ Selected'
  BY <1>2, <1>4, RenderSelected
<1>6. PICK x : x = [list |-> ps, st |-> "sent", seed |-> TRUE]
  OBVIOUS
<1>7. x \in PutT /\ x.list = ps /\ x.st = "sent"
  BY <1>4, <1>6 DEF PutT, ListOK
<1>8. puts \in Seq(PutT) /\ Len(puts) \in Nat /\ DOMAIN puts = 1..Len(puts)
  BY <1>0, LenProperties DEF Types
<1>9. /\ puts' \in Seq(PutT) /\ Len(puts') = Len(puts) + 1 /\ puts'[Len(puts) + 1] = x
      /\ \A j \in 1..Len(puts) : puts'[j] = puts[j]
  BY <1>2, <1>6, <1>7, <1>8, AppendProperties
<1>10. Types'
  <2>1. flow' \in FlowT /\ flow'.pid = ids + 1
    BY <1>0, <1>2 DEF FlowT
  <2> QED BY <1>0, <1>2, <1>9, <2>1 DEF Types
<1>11. ListsOK'
  <2>1. DOMAIN puts' = 1..(Len(puts) + 1)
    BY <1>9, LenProperties
  <2>2. \A j \in DOMAIN puts' : puts'[j] = x \/ (j \in DOMAIN puts /\ puts'[j] = puts[j])
    BY <1>8, <1>9, <2>1
  <2>3. \A j \in DOMAIN puts : ListOK(puts[j].list, ids')
    BY <1>0, <1>4, LaterList DEF ListsOK
  <2>4. \A j \in DOMAIN puts' : ListOK(puts'[j].list, ids')
    BY <1>4, <1>7, <2>2, <2>3
  <2>5. ListOK(server, ids')
    BY <1>0, <1>4, LaterList DEF ListsOK
  <2>6. \A g \in gets : ListOK(g.ans, ids')
    BY <1>0, <1>4, LaterList DEF ListsOK
  <2> QED BY <1>2, <1>4, <1>5, <2>4, <2>5, <2>6 DEF ListsOK
<1>12. ASSUME ~exposed' PROVE Alone'
  <2>1. Alone /\ puts = <<>> /\ bootstrapped /\ timer'
    BY <1>2, <1>12 DEF Inv
  <2>2. Len(puts) = 0
    BY <1>8, <2>1, EmptySeq
  <2>3. Len(puts') = 1 /\ puts'[1] = x
    BY <1>9, <2>2
  <2>4. puts' = <<puts'[1]>> /\ puts' # <<>>
    BY <1>9, <2>3, OneElement
  <2>5. Blank'
    BY <1>2, <2>1 DEF Blank
  <2>6. Current'
    BY <1>7, <2>1, <2>3, <2>4 DEF Current
  <2>7. Kept'
    <3>1. AllIds(server) \subseteq AllIds(ps) \cup removed
      BY <1>2, <1>4, <2>1 DEF Kept, Alone
    <3> QED BY <1>2, <1>5, <1>7, <2>3, <3>1 DEF Kept
  <2>8. Undone'
    <3>1. flow'.st = "seeding"
      BY <1>2
    <3> QED BY <3>1 DEF Undone
  <2> QED BY <2>5, <2>6, <2>7, <2>8 DEF Alone
<1>13. NoLoss
  BY <1>2, <1>4, <1>5 DEF NoLoss
<1> QED BY <1>5, <1>10, <1>11, <1>12, <1>13 DEF Inv

(* The backend refuses the task.                                           *)
LEMMA RefusedInv ==
  ASSUME Inv, provisionRefused
  PROVE  Inv' /\ NoLoss
<1>1. /\ GiveUp /\ flow.st = "provisioning"
      /\ UNCHANGED <<bootstrapped, syncErr, gets, puts, server, exposed, ids>>
  BY DEF provisionRefused, MayFail, NoFail, counts
<1>2. puts' \in Seq(PutT) /\ \A j \in DOMAIN puts' : ListOK(puts'[j].list, ids)
  BY <1>1 DEF Inv, Types, ListsOK
<1>3. ~exposed => bootstrapped /\ puts' \in {<<>>, puts}
  BY <1>1 DEF Inv, Alone, Blank
<1> QED BY <1>1, <1>2, <1>3, GiveUpInv

-----------------------------------------------------------------------------
(* Another writer changes the stored list: the edits are exposed.          *)
LEMMA WriterInv ==
  ASSUME Inv, exposed', ids' \in Nat, ids =< ids', ListOK(server', ids'),
         UNCHANGED <<projects, selP, selC, puts>>, flow' \in FlowT, flow'.pid = flow.pid,
         \A g \in gets' : g \in gets \/ g.ans = server'
  PROVE  Inv' /\ NoLoss
<1>0. Types /\ ListsOK /\ Selected /\ ids \in Nat
  BY DEF Inv, Types
<1>1. Types'
  <2>1. flow.pid =< ids /\ flow.pid \in Nat
    BY <1>0 DEF Types, FlowT
  <2>2. flow'.pid =< ids'
    BY <1>0, <2>1
  <2> QED BY <1>0, <2>2 DEF Types
<1>2. ListsOK'
  <2>1. ListOK(projects, ids')
    BY <1>0, LaterList DEF ListsOK
  <2>2. \A k \in DOMAIN puts : ListOK(puts[k].list, ids')
    BY <1>0, LaterList DEF ListsOK
  <2>3. \A g \in gets : ListOK(g.ans, ids')
    BY <1>0, LaterList DEF ListsOK
  <2> QED BY <2>1, <2>2, <2>3 DEF ListsOK
<1>3. Selected'
  BY <1>0, SameSelected
<1> QED BY <1>1, <1>2, <1>3 DEF Inv, NoLoss

(* A project of the stored list gets other clusters.                       *)
LEMMA StoredProject ==
  ASSUME Inv, NEW i, Has(server, i), ids' \in Nat, ids =< ids', NEW cs \in Seq(ClusterT)
  PROVE  ListOK(Put(server, i, [Get(server, i) EXCEPT !.clusters = cs]), ids')
<1>0. ListOK(server, ids) /\ ids \in Nat /\ server \in Seq(ProjectT)
  BY DEF Inv, Types, ListsOK, ListOK
<1>1. PICK k \in DOMAIN server : Get(server, i) = server[k] /\ server[k].id = i
  BY GetIn
<1>2. server[k] \in ProjectT
  BY <1>0, LenProperties, ElementOfSeq
<1>3. PICK x : x = [server[k] EXCEPT !.clusters = cs]
  OBVIOUS
<1>4. x \in ProjectT /\ x.id = server[k].id
  BY <1>2, <1>3 DEF ProjectT
<1>5. OwnIds(server[k]) \subseteq OwnIds(x) \cup OwnIds(server[k])
  OBVIOUS
<1>6. ListOK(Put(server, x.id, x), ids')
  BY <1>0, <1>4, <1>5, PutList
<1> QED BY <1>1, <1>3, <1>4, <1>6

(* The clusters of a project of the stored list.                           *)
LEMMA StoredClusters ==
  ASSUME Inv, NEW i, Has(server, i)
  PROVE  Get(server, i).clusters \in Seq(ClusterT) /\ Get(server, i).id = i
<1>1. server \in Seq(ProjectT)
  BY DEF Inv, ListsOK, ListOK
<1>2. PICK k \in DOMAIN server : Get(server, i) = server[k] /\ server[k].id = i
  BY GetIn
<1>3. server[k] \in ProjectT
  BY <1>1, LenProperties, ElementOfSeq
<1> QED BY <1>2, <1>3 DEF ProjectT

(* The backend adds the cluster it has provisioned.                        *)
LEMMA AppendInv ==
  ASSUME Inv, appendCluster
  PROVE  Inv' /\ NoLoss
<1>0. ids \in Nat /\ ids + 1 \in Nat /\ ids + 2 \in Nat /\ flow \in FlowT
  BY DEF Inv, Types
<1>1. /\ Has(server, flow.pid) /\ ids' = ids + 2 /\ exposed' /\ flow' = [flow EXCEPT !.post = "ok"]
      /\ UNCHANGED <<projects, selP, selC, puts, gets>>
  BY DEF appendCluster, NewIds, ServerWrites, Exposed, local, sync
<1>2. PICK y : y = Cluster(ids + 1, <<makeDefaultNode(ids + 2)>>)
  OBVIOUS
<1>3. y \in ClusterT
  BY <1>0, <1>2, NewTypes
<1>4. PICK cs : cs = Append(Get(server, flow.pid).clusters, y)
  OBVIOUS
<1>5. cs \in Seq(ClusterT)
  <2>1. Get(server, flow.pid).clusters \in Seq(ClusterT)
    BY <1>1, StoredClusters
  <2> QED BY <1>3, <1>4, <2>1, AppendProperties
<1>6. server' = Put(server, flow.pid, [Get(server, flow.pid) EXCEPT !.clusters = cs])
  BY <1>2, <1>4 DEF appendCluster, ServerWrites
<1>7. ids' \in Nat /\ ids =< ids'
  BY <1>0, <1>1
<1>8. ListOK(server', ids')
  BY <1>1, <1>5, <1>6, <1>7, StoredProject
<1>9. flow' \in FlowT /\ flow'.pid = flow.pid
  BY <1>0, <1>1 DEF FlowT
<1> QED BY <1>1, <1>7, <1>8, <1>9, WriterInv

(* The backend cannot provision.                                           *)
LEMMA ProvisionFailsInv ==
  ASSUME Inv, provisionFails
  PROVE  Inv' /\ NoLoss
<1>1. /\ flow' = [flow EXCEPT !.post = "failed"]
      /\ UNCHANGED <<projects, selP, selC, bootstrapped, timer, syncErr, gets, puts, server,
                     exposed, removed, ids>>
  BY DEF provisionFails, MayFail, NoFail, counts, local, sync, hist
<1>2. flow' \in FlowT /\ flow'.pid = flow.pid /\ flow'.st = flow.st
  BY <1>1 DEF Inv, Types, FlowT
<1>3. \A g \in gets' : ListOK(g.ans, ids)
  BY <1>1 DEF Inv, ListsOK
<1>4. (~exposed /\ ~bootstrapped) => flow.st = "none" /\ \A g \in gets' : g.kind = "boot"
  BY <1>1 DEF Inv, Alone, Blank
<1> QED BY <1>1, <1>2, <1>3, <1>4, GetsInv

(* A node is imported.                                                     *)
LEMMA ImportInv ==
  ASSUME Inv, NEW c, importNode(c)
  PROVE  Inv' /\ NoLoss
<1>0. ids \in Nat /\ ids + 1 \in Nat /\ flow \in FlowT
  BY DEF Inv, Types
<1>1. PICK i : i = selectedProject.id
  OBVIOUS
<1>2. PICK old : old = Get(Get(server, i).clusters, c)
  OBVIOUS
<1>3. PICK ns : ns = Append(old.nodes, makeDefaultNode(ids + 1))
  OBVIOUS
<1>4. PICK new : new = [old EXCEPT !.nodes = ns]
  OBVIOUS
<1>5. PICK cs : cs = Put(Get(server, i).clusters, c, new)
  OBVIOUS
<1>6. Has(server, i) /\ Has(Get(server, i).clusters, c)
  BY <1>1 DEF importNode, Importable
<1>7. Get(server, i).clusters \in Seq(ClusterT) /\ Get(server, i).id = i
  BY <1>6, StoredClusters
<1>8. old \in ClusterT
  <2>1. PICK k \in DOMAIN Get(server, i).clusters : old = Get(server, i).clusters[k]
    BY <1>2, <1>6, GetIn
  <2> QED BY <1>7, <2>1, LenProperties, ElementOfSeq
<1>9. ns \in Seq(NodeT) /\ ns # <<>>
  <2>1. makeDefaultNode(ids + 1) \in NodeT /\ old.nodes \in Seq(NodeT)
    BY <1>0, <1>8, NewTypes DEF ClusterT
  <2> QED BY <1>3, <2>1, ListIds
<1>10. new \in ClusterT
  BY <1>4, <1>8, <1>9 DEF ClusterT
<1>11. cs \in Seq(ClusterT)
  BY <1>5, <1>7, <1>10, PutSeq
<1>12. server' = Put(server, i, [Get(server, i) EXCEPT !.clusters = cs])
  <2>1. server' = Put(server, Get(server, i).id, [Get(server, i) EXCEPT !.clusters = Put(@, c, new)])
    BY <1>1, <1>2, <1>3, <1>4 DEF importNode, ServerWrites
  <2> QED BY <1>5, <1>7, <2>1
<1>13. ids' = ids + 1 /\ exposed' /\ UNCHANGED <<projects, selP, selC, puts, flow>>
  BY DEF importNode, NewIds, ServerWrites, Exposed, local
<1>14. \A g \in gets' : g \in gets \/ g.ans = server'
  <2>1. PICK x : x = [kind |-> "reload", sel |-> selP, ok |-> TRUE, ans |-> server']
    OBVIOUS
  <2>2. gets' = gets \cup {x} /\ x.ans = server'
    BY <2>1 DEF importNode
  <2> QED BY <2>2
<1>15. ids' \in Nat /\ ids =< ids'
  BY <1>0, <1>13
<1>16. ListOK(server', ids')
  BY <1>6, <1>11, <1>12, <1>15, StoredProject
<1> QED BY <1>0, <1>13, <1>14, <1>15, <1>16, WriterInv

-----------------------------------------------------------------------------
(* The saves that nobody waits for any more.                               *)
LEMMA OrphanSeq ==
  ASSUME puts \in Seq(PutT), NEW t, t = [k \in DOMAIN puts |-> [puts[k] EXCEPT !.seed = FALSE]]
  PROVE  /\ t \in Seq(PutT) /\ DOMAIN t = DOMAIN puts
         /\ \A k \in DOMAIN puts : t[k].list = puts[k].list
         /\ puts = <<>> => t = <<>>
<1>1. Len(puts) \in Nat /\ DOMAIN puts = 1..Len(puts)
  BY LenProperties
<1>2. \A k \in DOMAIN puts : puts[k] \in PutT
  BY <1>1, ElementOfSeq
<1>3. \A k \in DOMAIN puts : t[k] \in PutT /\ t[k].list = puts[k].list
  <2> TAKE k \in DOMAIN puts
  <2>1. PICK x : x = puts[k]
    OBVIOUS
  <2>2. t[k] = [x EXCEPT !.seed = FALSE] /\ x \in PutT
    BY <1>2, <2>1
  <2>3. t[k] \in PutT /\ t[k].list = x.list
    BY <2>2 DEF PutT
  <2> QED BY <2>1, <2>3
<1>4. t \in [1..Len(puts) -> PutT]
  BY <1>1, <1>3
<1>5. t \in Seq(PutT) /\ Len(t) = Len(puts)
  BY <1>1, <1>4, IsASeq, LenProperties
<1> QED BY <1>1, <1>3, <1>5, EmptySeq

(* The page is opened anew.                                                *)
LEMMA PageInv ==
  ASSUME Inv, ReloadPage
  PROVE  Inv' /\ NoLoss
<1>0. Types /\ ListsOK
  BY DEF Inv
<1>1. /\ projects' = <<>> /\ bootstrapped' = FALSE /\ timer' = FALSE /\ gets' = {}
      /\ flow' = [flow EXCEPT !.st = "none"] /\ exposed' = (exposed \/ Unsaved)
      /\ UNCHANGED <<ids, server, removed>>
  BY DEF ReloadPage, Exposed
<1>2. /\ puts' \in Seq(PutT) /\ DOMAIN puts' = DOMAIN puts
      /\ \A k \in DOMAIN puts : puts'[k].list = puts[k].list
      /\ puts = <<>> => puts' = <<>>
  <2>1. PICK t : t = puts'
    OBVIOUS
  <2>2. puts \in Seq(PutT) /\ t = [k \in DOMAIN puts |-> [puts[k] EXCEPT !.seed = FALSE]]
    BY <1>0, <2>1 DEF ReloadPage, Types
  <2>3. /\ t \in Seq(PutT) /\ DOMAIN t = DOMAIN puts
        /\ \A k \in DOMAIN puts : t[k].list = puts[k].list
        /\ puts = <<>> => t = <<>>
    BY <2>2, OrphanSeq
  <2> QED BY <2>1, <2>3
<1>3. Types'
  <2>1. flow' \in FlowT /\ flow'.pid = flow.pid
    BY <1>0, <1>1 DEF Types, FlowT
  <2> QED BY <1>0, <1>1, <1>2, <2>1 DEF Types
<1>4. ListsOK'
  BY <1>0, <1>1, <1>2, EmptyList DEF ListsOK
<1>5. Selected'
  BY <1>1 DEF Selected, HasProject
<1>6. ASSUME ~exposed' PROVE Alone'
  <2>1. puts' = <<>>
    BY <1>1, <1>2, <1>6 DEF Unsaved
  <2>2. flow'.st = "none"
    BY <1>0, <1>1 DEF Types, FlowT
  <2> QED BY <1>1, <2>1, <2>2 DEF Alone, Blank, Current, Kept, Undone
<1>7. NoLoss
  BY <1>1 DEF NoLoss
<1> QED BY <1>3, <1>4, <1>5, <1>6, <1>7 DEF Inv

-----------------------------------------------------------------------------
(* The page as it is opened, with what was stored before.                  *)
LEMMA InitInv == Init => Inv
<1> SUFFICES ASSUME Init PROVE Inv
  OBVIOUS
<1>1. /\ projects = <<>> /\ puts = <<>> /\ gets = {} /\ flow = NoFlow /\ server = Stored0
      /\ ids = 3 /\ bootstrapped = FALSE /\ timer = FALSE /\ exposed = FALSE
  BY DEF Init, InitPage
<1>2. Types
  BY <1>1 DEF Types, NoFlow, FlowT
<1>3. ListOK(Stored0, 3)
  <2>1. PICK y : y = Cluster(2, <<makeDefaultNode(3)>>)
    OBVIOUS
  <2>2. y \in ClusterT
    BY <2>1, NewTypes
  <2>3. PICK cs : cs = <<y>>
    OBVIOUS
  <2>4. cs \in Seq(ClusterT)
    BY <2>2, <2>3
  <2>5. PICK x : x = [Project(1) EXCEPT !.clusters = cs]
    OBVIOUS
  <2>6. x \in ProjectT /\ x.id = 1
    <3>1. 1 \in Nat
      OBVIOUS
    <3>2. Project(1) \in ProjectT /\ Project(1).id = 1
      BY <3>1, NewTypes
    <3> QED BY <2>4, <2>5, <3>2 DEF ProjectT
  <2>7. Stored0 = <<x>>
    BY <2>1, <2>3, <2>5 DEF Stored0
  <2> QED BY <2>6, <2>7 DEF ListOK
<1>4. ListsOK
  BY <1>1, <1>3, EmptyList DEF ListsOK
<1>5. Selected
  BY <1>1 DEF Selected, HasProject
<1>6. Alone
  BY <1>1 DEF Alone, Blank, Current, Kept, Undone, NoFlow
<1> QED BY <1>2, <1>4, <1>5, <1>6 DEF Inv

(* Every step keeps the invariant, and loses nothing that is not exposed.  *)
LEMMA InvStep ==
  ASSUME Inv, [Next]_vars
  PROVE  Inv' /\ NoLoss
<1>1. CASE ProjectEdits
  <2>1. CASE createProject \/ previewTemplate \/ \E i \in IdsOf(projects) : removeProject(i)
    BY <2>1, ProjectsInv
  <2>2. CASE createFromTemplate
    BY <2>2, CreateInv
  <2>3. ASSUME NEW i \in IdsOf(projects), updateProject(i, 1) \/ onCreateCluster(i) \/ onCreateComponent(i)
        PROVE  Inv' /\ NoLoss
    BY <2>3, ProjectInv
  <2>4. ASSUME NEW i, onSelectProject(i) \/ \E c : onNavigateToCluster(i, c)
        PROVE  Inv' /\ NoLoss
    BY <2>4, SelectInv DEF onSelectProject, onNavigateToCluster
  <2> QED BY <1>1, <2>1, <2>2, <2>3, <2>4 DEF ProjectEdits
<1>2. CASE ClusterEdits
  <2>1. HasProject
    BY <1>2 DEF ClusterEdits
  <2>2. CASE createCluster \/ \E c \in ClusterIds(selectedProject) : removeCluster(c)
    BY <2>1, <2>2, ClusterListInv
  <2>3. ASSUME NEW c \in ClusterIds(selectedProject),
               \/ updateClusterNode(c, 0, 1) \/ addNode(c)
               \/ \E n \in IdsOf(Get(selectedProject.clusters, c).nodes) :
                    removeNode(c, n) \/ updateClusterNode(c, n, 1)
        PROVE  Inv' /\ NoLoss
    BY <2>1, <2>3, ClusterInv
  <2>4. CASE GoBack \/ \E c : onSelectCluster(c) \/ onActivateNode(c)
    BY <2>4, SelectInv DEF GoBack, onSelectCluster, onActivateNode
  <2>5. CASE \E c : importNode(c)
    BY <2>5, ImportInv
  <2> QED BY <1>2, <2>2, <2>3, <2>4, <2>5 DEF ClusterEdits
<1>3. CASE ComponentEdits
  BY <1>3, ComponentInv DEF ComponentEdits
<1>4. CASE Requests
  <2>1. CASE saveFires
    BY <2>1, SaveInv
  <2>2. ASSUME NEW k \in DOMAIN puts,
               PutLands(k) \/ PutFails(k) \/ saveAnswered(k) \/ seedAnswered(k)
        PROVE  Inv' /\ NoLoss
    BY <2>2, PutInv, AnswerInv, SeedInv
  <2>3. ASSUME NEW g \in gets,
               \/ g.kind = "boot" /\ bootAnswered(g)
               \/ g.kind = "reload" /\ reloadAnswered(g)
               \/ g.kind = "create" /\ createAnswered(g)
        PROVE  Inv' /\ NoLoss
    BY <2>3, BootInv, ReloadInv
  <2>4. CASE bootLoad \/ provisionAccepted \/ successSeen
    BY <2>4, LoadInv
  <2>5. CASE provisionRefused
    BY <2>5, RefusedInv
  <2>6. CASE appendCluster \/ provisionFails
    BY <2>6, AppendInv, ProvisionFailsInv
  <2> QED BY <1>4, <2>1, <2>2, <2>3, <2>4, <2>5, <2>6 DEF Requests
<1>5. CASE ReloadPage
  BY <1>5, PageInv
<1>6. CASE UNCHANGED vars
  <2>1. /\ UNCHANGED <<projects, selP, selC, bootstrapped, timer, syncErr, gets, puts>>
        /\ UNCHANGED <<flow, server, exposed, removed, ids>>
    BY <1>6 DEF vars, local, sync, counts, hist
  <2>2. flow' \in FlowT /\ \A g \in gets' : ListOK(g.ans, ids)
    BY <2>1 DEF Inv, Types, ListsOK
  <2>3. (~exposed /\ ~bootstrapped) => \A g \in gets' : g.kind = "boot"
    BY <2>1 DEF Inv, Alone, Blank
  <2> QED BY <2>1, <2>2, <2>3, GetsInv
<1> QED BY <1>1, <1>2, <1>3, <1>4, <1>5, <1>6 DEF Next

(* The invariant holds of every behaviour.                                 *)
LEMMA AppInv == Spec => []Inv
<1>1. Inv /\ [Next]_vars => Inv'
  BY InvStep
<1> QED BY <1>1, InitInv, PTL DEF Spec

-----------------------------------------------------------------------------
(* App.tsx, the load, the save timer and the edits: as long as nothing has *)
(* exposed an edit, a page at rest that shows no error shows the list the  *)
(* backend has stored.                                                     *)
THEOREM AppShownIsStored == Spec => []ShownIsStored
<1>1. Inv => ShownIsStored
  BY DEF Inv, Alone, Current, ShownIsStored, Quiet
<1> QED BY <1>1, AppInv, PTL

(* App.tsx, handleTemplateConfirm: as long as nothing has exposed an edit, *)
(* the project of a creation that failed is not on the page, whatever was  *)
(* edited, saved or selected meanwhile; of a load applied, a save          *)
(* overtaken or a cluster added by the backend meanwhile it says nothing.  *)
THEOREM AppFailedCreateGone == Spec => []FailedCreateGone
<1>1. Inv => FailedCreateGone
  BY DEF Inv, Alone, Undone, FailedCreateGone
<1> QED BY <1>1, AppInv, PTL

(* App.tsx, the effect that repairs the selection: the selected cluster is *)
(* one of the project that is shown, and no cluster is without nodes.      *)
THEOREM AppSelectionHolds == Spec => []SelectionHolds
<1>1. ASSUME Inv PROVE SelectionHolds
  <2>1. Selected /\ projects \in Seq(ProjectT)
    BY <1>1 DEF Inv, ListsOK, ListOK
  <2>2. ASSUME NEW k \in DOMAIN projects, NEW j \in DOMAIN projects[k].clusters
        PROVE  projects[k].clusters[j].nodes # <<>>
    <3>1. projects[k] \in ProjectT
      BY <2>1, LenProperties, ElementOfSeq
    <3>2. PICK cs : cs = projects[k].clusters
      OBVIOUS
    <3>3. cs \in Seq(ClusterT) /\ j \in DOMAIN cs
      BY <3>1, <3>2 DEF ProjectT
    <3>4. cs[j] \in ClusterT
      BY <3>3, LenProperties, ElementOfSeq
    <3> QED BY <3>2, <3>4 DEF ClusterT
  <2> QED BY <2>1, <2>2 DEF SelectionHolds, Selected
<1> QED BY <1>1, AppInv, PTL

(* App.tsx and workspace.go's PUT: while nothing has exposed an edit, no   *)
(* step loses a project, cluster or component, stored or on the page, that *)
(* the user has not removed.                                               *)
THEOREM AppNoLossAlone == Spec => NoLossAlone
<1>1. Inv /\ [Next]_vars => [NoLoss]_vars
  BY InvStep
<1>2. Spec => [][NoLoss]_vars
  BY <1>1, AppInv, PTL DEF Spec
<1> QED BY <1>2 DEF NoLossAlone, NoLoss
=============================================================================
