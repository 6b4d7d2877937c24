-------------------------- MODULE WorkspaceProofs --------------------------
(***************************************************************************)
(* Proofs about Workspace, for any sets of requests, projects, clusters,   *)
(* nodes, passwords and keys and any number of updates: the file is whole, *)
(* its passwords have one layer of encryption, an update commits exactly   *)
(* its own effect, and the whole implements AtomicStore.  The invariant is *)
(* in three parts; the last section has what the refinement adds to it.    *)
(* Types: every password in the file, in what a request has read and in    *)
(* what it writes has at most one layer.  Exclusive and Sealing: who holds *)
(* s.mu writes, and with a key it writes no plain text.  Prepared: what is *)
(* written is the update of what is stored, which needs that every update  *)
(* commutes with taking the encryption away (ApplyView).                   *)
(***************************************************************************)
EXTENDS Workspace, ListLemmas

Layered    == {pw \in [text : Password, keys : Seq(Key)] : Len(pw.keys) =< 1}
NodeRec    == [id : Node, pw : Layered, status : {"unknown", "ready", "failed"}]
ClusterRec == [id : Cluster, nodes : Seq(NodeRec)]
ProjectRec == [id : Project, clusters : Seq(ClusterRec)]
Envelope   == [projects : Seq(ProjectRec), hosts : Seq([id : Host])]
Keys       == Key \cup {NoKey}

(* MapPasswords, level by level, for a function on passwords.              *)
OnNode(g)    == [n \in NodeRec |-> [n EXCEPT !.pw = g[@]]]
OnCluster(g) == [c \in ClusterRec |-> [c EXCEPT !.nodes = Mapped(@, OnNode(g))]]
OnProject(g) == [p \in ProjectRec |-> [p EXCEPT !.clusters = Mapped(@, OnCluster(g))]]

Encrypt(k) == [pw \in Layered |-> encryptPassword(pw, k)]
Decrypt(k) == [pw \in Layered |-> decryptPassword(pw, k)]
Strip      == [pw \in Layered |-> Plain(pw.text)]

(* Encryption and decryption keep a password to one layer and its text.    *)
LEMMA LayerFunctions ==
  ASSUME NEW k \in Keys
  PROVE  /\ Encrypt(k) \in [Layered -> Layered] /\ Decrypt(k) \in [Layered -> Layered]
         /\ Strip \in [Layered -> Layered]
         /\ \A pw \in Layered : /\ Strip[Encrypt(k)[pw]] = Strip[pw]
                                /\ Strip[Decrypt(k)[pw]] = Strip[pw]
                                /\ k # NoKey => isEncrypted(Encrypt(k)[pw])
<1>1. ASSUME NEW pw \in Layered
      PROVE  /\ encryptPassword(pw, k) \in Layered /\ encryptPassword(pw, k).text = pw.text
             /\ k # NoKey => isEncrypted(encryptPassword(pw, k))
  <2>1. CASE k = NoKey \/ isEncrypted(pw)
    BY <2>1 DEF encryptPassword
  <2>2. CASE ~(k = NoKey \/ isEncrypted(pw))
    <3>1. pw.keys = <<>> /\ k \in Key
      BY <2>2 DEF isEncrypted, Keys
    <3>2. Append(pw.keys, k) \in Seq(Key) /\ Len(Append(pw.keys, k)) = 1
      BY <3>1, AppendProperties, EmptySeq
    <3>3. Append(pw.keys, k) # <<>>
      BY <3>2, EmptySeq
    <3> QED BY <2>2, <3>2, <3>3 DEF encryptPassword, Layered, isEncrypted
  <2> QED BY <2>1, <2>2
<1>2. ASSUME NEW pw \in Layered
      PROVE  decryptPassword(pw, k) \in Layered /\ decryptPassword(pw, k).text = pw.text
  <2>1. CASE isEncrypted(pw) /\ Last(pw.keys) = k
    <3>1. pw.keys \in Seq(Key) /\ pw.keys # <<>> /\ Len(pw.keys) \in Nat
      BY <2>1, LenProperties DEF Layered, isEncrypted
    <3>2. Front(pw.keys) \in Seq(Key) /\ Len(Front(pw.keys)) =< 1
      <4>1. \A i \in 1..(Len(pw.keys) - 1) : pw.keys[i] \in Key
        BY <3>1, ElementOfSeq
      <4>2. /\ Front(pw.keys) \in Seq(Key)
            /\ Len(Front(pw.keys)) = IF 1 =< Len(pw.keys) - 1 THEN (Len(pw.keys) - 1) - 1 + 1 ELSE 0
        BY <3>1, <4>1, SubSeqProperties DEF Front
      <4> QED BY <3>1, <4>2 DEF Layered
    <3> QED BY <2>1, <3>2 DEF decryptPassword, Layered
  <2>2. CASE ~(isEncrypted(pw) /\ Last(pw.keys) = k)
    BY <2>2 DEF decryptPassword
  <2> QED BY <2>1, <2>2
<1>3. ASSUME NEW pw \in Layered PROVE Plain(pw.text) \in Layered
  <2>1. <<>> \in Seq(Key) /\ Len(<<>>) = 0
    BY EmptySeq
  <2> QED BY <2>1 DEF Plain, Layered
<1> QED BY <1>1, <1>2, <1>3 DEF Encrypt, Decrypt, Strip

(* A function on passwords, carried to nodes, clusters and projects.       *)
LEMMA Carried ==
  ASSUME NEW g \in [Layered -> Layered]
  PROVE  /\ OnNode(g) \in [NodeRec -> NodeRec] /\ \A x \in NodeRec : OnNode(g)[x].id = x.id
         /\ OnCluster(g) \in [ClusterRec -> ClusterRec]
         /\ \A x \in ClusterRec : OnCluster(g)[x].id = x.id
         /\ OnProject(g) \in [ProjectRec -> ProjectRec]
         /\ \A x \in ProjectRec : OnProject(g)[x].id = x.id
<1>1. OnNode(g) \in [NodeRec -> NodeRec] /\ \A x \in NodeRec : OnNode(g)[x].id = x.id
  BY DEF OnNode, NodeRec
<1>2. OnCluster(g) \in [ClusterRec -> ClusterRec] /\ \A x \in ClusterRec : OnCluster(g)[x].id = x.id
  <2>1. \A s \in Seq(NodeRec) : Mapped(s, OnNode(g)) \in Seq(NodeRec)
    BY <1>1, MappedSeq
  <2> QED BY <2>1 DEF OnCluster, ClusterRec
<1>3. OnProject(g) \in [ProjectRec -> ProjectRec] /\ \A x \in ProjectRec : OnProject(g)[x].id = x.id
  <2>1. \A s \in Seq(ClusterRec) : Mapped(s, OnCluster(g)) \in Seq(ClusterRec)
    BY <1>2, MappedSeq
  <2> QED BY <2>1 DEF OnProject, ProjectRec
<1> QED BY <1>1, <1>2, <1>3

(* A change of every password that a second one hides.                     *)
LEMMA CarriedTwice ==
  ASSUME NEW g \in [Layered -> Layered], NEW h \in [Layered -> Layered],
         \A pw \in Layered : h[g[pw]] = h[pw], NEW ps \in Seq(ProjectRec)
  PROVE  Mapped(Mapped(ps, OnProject(g)), OnProject(h)) = Mapped(ps, OnProject(h))
<1>0. /\ OnNode(g) \in [NodeRec -> NodeRec] /\ OnNode(h) \in [NodeRec -> NodeRec]
      /\ OnCluster(g) \in [ClusterRec -> ClusterRec] /\ OnCluster(h) \in [ClusterRec -> ClusterRec]
      /\ OnProject(g) \in [ProjectRec -> ProjectRec] /\ OnProject(h) \in [ProjectRec -> ProjectRec]
  BY Carried
<1>1. ASSUME NEW x \in NodeRec PROVE OnNode(h)[OnNode(g)[x]] = OnNode(h)[x]
  <2>1. OnNode(g)[x] \in NodeRec
    BY <1>0
  <2> QED BY <2>1 DEF OnNode, NodeRec
<1>2. ASSUME NEW x \in ClusterRec PROVE OnCluster(h)[OnCluster(g)[x]] = OnCluster(h)[x]
  <2>1. OnCluster(g)[x] \in ClusterRec /\ x.nodes \in Seq(NodeRec)
    BY <1>0 DEF ClusterRec
  <2>2. Mapped(Mapped(x.nodes, OnNode(g)), OnNode(h)) = Mapped(x.nodes, OnNode(h))
    BY <2>1, <1>0, <1>1, MappedTwice
  <2> QED BY <2>1, <2>2 DEF OnCluster, ClusterRec
<1>3. ASSUME NEW x \in ProjectRec PROVE OnProject(h)[OnProject(g)[x]] = OnProject(h)[x]
  <2>1. OnProject(g)[x] \in ProjectRec /\ x.clusters \in Seq(ClusterRec)
    BY <1>0 DEF ProjectRec
  <2>2. Mapped(Mapped(x.clusters, OnCluster(g)), OnCluster(h)) = Mapped(x.clusters, OnCluster(h))
    <3> DEFINE F == OnCluster(g)
               H == OnCluster(h)
               cs == x.clusters
    <3>1. /\ F \in [ClusterRec -> ClusterRec] /\ H \in [ClusterRec -> ClusterRec]
          /\ \A y \in ClusterRec : H[F[y]] = H[y]
          /\ cs \in Seq(ClusterRec)
      BY <2>1, <1>0, <1>2
    <3> HIDE DEF F, H, cs
    <3>2. Mapped(Mapped(cs, F), H) = Mapped(cs, H)
      BY <3>1, MappedTwice
    <3> QED BY <3>2 DEF F, H, cs
  <2> QED BY <2>1, <2>2 DEF OnProject, ProjectRec
<1> QED BY <1>0, <1>3, MappedTwice

(* The model's own definitions are these.                                  *)
LEMMA MapsAre ==
  ASSUME NEW ps \in Seq(ProjectRec), NEW k \in Keys
  PROVE  /\ encryptNodePasswords(ps, k) = Mapped(ps, OnProject(Encrypt(k)))
         /\ decryptNodePasswords(ps, k) = Mapped(ps, OnProject(Decrypt(k)))
         /\ View(ps) = Mapped(ps, OnProject(Strip))
<1>1. ASSUME NEW i \in DOMAIN ps PROVE ps[i] \in ProjectRec
  BY LenProperties, ElementOfSeq
<1>2. ASSUME NEW i \in DOMAIN ps, NEW j \in DOMAIN ps[i].clusters PROVE ps[i].clusters[j] \in ClusterRec
  <2>1. ps[i].clusters \in Seq(ClusterRec)
    BY <1>1 DEF ProjectRec
  <2> QED BY <2>1, LenProperties, ElementOfSeq
<1>3. ASSUME NEW i \in DOMAIN ps, NEW j \in DOMAIN ps[i].clusters,
             NEW n \in DOMAIN ps[i].clusters[j].nodes
      PROVE  ps[i].clusters[j].nodes[n] \in NodeRec /\ ps[i].clusters[j].nodes[n].pw \in Layered
  <2>1. ps[i].clusters[j].nodes \in Seq(NodeRec)
    BY <1>2 DEF ClusterRec
  <2>2. ps[i].clusters[j].nodes[n] \in NodeRec
    BY <2>1, LenProperties, ElementOfSeq
  <2> QED BY <2>2 DEF NodeRec
<1>4. encryptNodePasswords(ps, k) = Mapped(ps, OnProject(Encrypt(k)))
  <2> DEFINE N(i, j) == [n \in DOMAIN ps[i].clusters[j].nodes |->
                           [ps[i].clusters[j].nodes[n] EXCEPT !.pw = encryptPassword(@, k)]]
             C(i) == [j \in DOMAIN ps[i].clusters |-> [ps[i].clusters[j] EXCEPT !.nodes = N(i, j)]]
  <2>1. encryptNodePasswords(ps, k) = [i \in DOMAIN ps |-> [ps[i] EXCEPT !.clusters = C(i)]]
    BY DEF encryptNodePasswords, MapPasswords
  <2>2. ASSUME NEW i \in DOMAIN ps, NEW j \in DOMAIN ps[i].clusters
        PROVE  N(i, j) = Mapped(ps[i].clusters[j].nodes, OnNode(Encrypt(k)))
    BY <1>3 DEF Mapped, OnNode, Encrypt
  <2> HIDE DEF N
  <2>3. ASSUME NEW i \in DOMAIN ps PROVE C(i) = Mapped(ps[i].clusters, OnCluster(Encrypt(k)))
    BY <1>2, <2>2 DEF Mapped, OnCluster
  <2> HIDE DEF C
  <2> QED BY <1>1, <2>1, <2>3 DEF Mapped, OnProject
<1>5. decryptNodePasswords(ps, k) = Mapped(ps, OnProject(Decrypt(k)))
  <2> DEFINE N(i, j) == [n \in DOMAIN ps[i].clusters[j].nodes |->
                           [ps[i].clusters[j].nodes[n] EXCEPT !.pw = decryptPassword(@, k)]]
             C(i) == [j \in DOMAIN ps[i].clusters |-> [ps[i].clusters[j] EXCEPT !.nodes = N(i, j)]]
  <2>1. decryptNodePasswords(ps, k) = [i \in DOMAIN ps |-> [ps[i] EXCEPT !.clusters = C(i)]]
    BY DEF decryptNodePasswords, MapPasswords
  <2>2. ASSUME NEW i \in DOMAIN ps, NEW j \in DOMAIN ps[i].clusters
        PROVE  N(i, j) = Mapped(ps[i].clusters[j].nodes, OnNode(Decrypt(k)))
    BY <1>3 DEF Mapped, OnNode, Decrypt
  <2> HIDE DEF N
  <2>3. ASSUME NEW i \in DOMAIN ps PROVE C(i) = Mapped(ps[i].clusters, OnCluster(Decrypt(k)))
    BY <1>2, <2>2 DEF Mapped, OnCluster
  <2> HIDE DEF C
  <2> QED BY <1>1, <2>1, <2>3 DEF Mapped, OnProject
<1>6. View(ps) = Mapped(ps, OnProject(Strip))
  <2> DEFINE N(i, j) == [n \in DOMAIN ps[i].clusters[j].nodes |->
                           [ps[i].clusters[j].nodes[n] EXCEPT !.pw = Plain(@.text)]]
             C(i) == [j \in DOMAIN ps[i].clusters |-> [ps[i].clusters[j] EXCEPT !.nodes = N(i, j)]]
  <2>1. View(ps) = [i \in DOMAIN ps |-> [ps[i] EXCEPT !.clusters = C(i)]]
    BY DEF View, MapPasswords
  <2>2. ASSUME NEW i \in DOMAIN ps, NEW j \in DOMAIN ps[i].clusters
        PROVE  N(i, j) = Mapped(ps[i].clusters[j].nodes, OnNode(Strip))
    BY <1>3 DEF Mapped, OnNode, Strip
  <2> HIDE DEF N
  <2>3. ASSUME NEW i \in DOMAIN ps PROVE C(i) = Mapped(ps[i].clusters, OnCluster(Strip))
    BY <1>2, <2>2 DEF Mapped, OnCluster
  <2> HIDE DEF C
  <2> QED BY <1>1, <2>1, <2>3 DEF Mapped, OnProject
<1> QED BY <1>4, <1>5, <1>6

-----------------------------------------------------------------------------
(* What a reader of the file sees of a project, a cluster and a node.      *)
ViewP == OnProject(Strip)
ViewC == OnCluster(Strip)
ViewN == OnNode(Strip)

(* The views keep types and ids.                                           *)
LEMMA Views ==
  /\ ViewN \in [NodeRec -> NodeRec] /\ \A x \in NodeRec : ViewN[x].id = x.id
  /\ ViewC \in [ClusterRec -> ClusterRec] /\ \A x \in ClusterRec : ViewC[x].id = x.id
  /\ ViewP \in [ProjectRec -> ProjectRec] /\ \A x \in ProjectRec : ViewP[x].id = x.id
<1>1. Strip \in [Layered -> Layered]
  BY LayerFunctions DEF Keys
<1> QED BY <1>1, Carried DEF ViewN, ViewC, ViewP

(* View is a mapping over the list of projects.                            *)
LEMMA ViewIs ==
  ASSUME NEW ps \in Seq(ProjectRec)
  PROVE  View(ps) = Mapped(ps, ViewP) /\ View(ps) \in Seq(ProjectRec)
<1>1. View(ps) = Mapped(ps, ViewP)
  BY MapsAre DEF Keys, ViewP
<1> QED BY <1>1, Views, MappedSeq

(* The first element with an id is an element.                             *)
LEMMA ElementFound ==
  ASSUME NEW A, NEW s \in Seq(A), NEW id, Has(s, id)
  PROVE  First(s, id) \in 1..Len(s) /\ s[First(s, id)] \in A
<1>1. First(s, id) \in 1..Len(s)
  BY FirstIn
<1> QED BY <1>1, ElementOfSeq

(* Replacing the first project p, and the first cluster c of a project.    *)
LEMMA ProjectReplaced ==
  ASSUME NEW ps \in Seq(ProjectRec), NEW p, Has(ps, p), NEW x \in ProjectRec
  PROVE  /\ First(ps, p) \in 1..Len(ps) /\ ps[First(ps, p)] \in ProjectRec
         /\ First(View(ps), p) = First(ps, p)
         /\ View(ps)[First(ps, p)] = ViewP[ps[First(ps, p)]]
         /\ ReplaceAt(ps, First(ps, p), x) \in Seq(ProjectRec)
         /\ View(ReplaceAt(ps, First(ps, p), x)) = ReplaceAt(View(ps), First(ps, p), ViewP[x])
<1> DEFINE i == First(ps, p)
<1>1. i \in 1..Len(ps)
  BY FirstIn
<1>2. ps[i] \in ProjectRec
  BY <1>1, ElementOfSeq
<1>3. View(ps) = Mapped(ps, ViewP)
  BY ViewIs
<1>4. First(View(ps), p) = i
  BY <1>3, Views, MappedSearch
<1>5. View(ps)[i] = ViewP[ps[i]]
  BY <1>1, <1>3, Views, MappedSeq
<1> HIDE DEF i
<1>6. ReplaceAt(ps, i, x) \in Seq(ProjectRec)
  BY <1>1, ReplaceAtSeq
<1>7. View(ReplaceAt(ps, i, x)) = Mapped(ReplaceAt(ps, i, x), ViewP)
  BY <1>6, ViewIs
<1>8. View(ReplaceAt(ps, i, x)) = ReplaceAt(View(ps), i, ViewP[x])
  BY <1>1, <1>3, <1>7, Views, MappedReplace
<1> QED BY <1>1, <1>2, <1>4, <1>5, <1>6, <1>8 DEF i

PutIn(q, c, y) == [q EXCEPT !.clusters = ReplaceAt(@, First(@, c), y)]

(* Replacing a cluster of a project, in the list and in its view.          *)
LEMMA ClusterReplaced ==
  ASSUME NEW q \in ProjectRec, NEW c, Has(q.clusters, c), NEW y \in ClusterRec
  PROVE  /\ First(q.clusters, c) \in 1..Len(q.clusters)
         /\ q.clusters[First(q.clusters, c)] \in ClusterRec
         /\ First(ViewP[q].clusters, c) = First(q.clusters, c)
         /\ ViewP[q].clusters[First(q.clusters, c)] = ViewC[q.clusters[First(q.clusters, c)]]
         /\ PutIn(q, c, y) \in ProjectRec
         /\ ViewP[PutIn(q, c, y)] = PutIn(ViewP[q], c, ViewC[y])
<1> DEFINE cs == q.clusters
           i == First(cs, c)
<1>0. cs \in Seq(ClusterRec) /\ ViewP[q].clusters = Mapped(cs, ViewC)
  BY DEF ProjectRec, ViewP, OnProject, ViewC
<1> HIDE DEF cs
<1>1. i \in 1..Len(cs)
  BY <1>0, FirstIn DEF cs
<1>2. cs[i] \in ClusterRec
  BY <1>0, <1>1, ElementOfSeq
<1>4. First(Mapped(cs, ViewC), c) = i
  BY <1>0, Views, MappedSearch
<1>5. Mapped(cs, ViewC)[i] = ViewC[cs[i]]
  BY <1>0, <1>1, Views, MappedSeq
<1> HIDE DEF i
<1>6. ReplaceAt(cs, i, y) \in Seq(ClusterRec)
  BY <1>0, <1>1, ReplaceAtSeq
<1>8. Mapped(ReplaceAt(cs, i, y), ViewC) = ReplaceAt(Mapped(cs, ViewC), i, ViewC[y])
  BY <1>0, <1>1, Views, MappedReplace
<1>9. [q EXCEPT !.clusters = ReplaceAt(cs, i, y)] \in ProjectRec
  BY <1>6 DEF ProjectRec
<1>10. ViewP[[q EXCEPT !.clusters = ReplaceAt(cs, i, y)]]
         = [ViewP[q] EXCEPT !.clusters = ReplaceAt(Mapped(cs, ViewC), i, ViewC[y])]
  BY <1>8, <1>9 DEF ViewP, OnProject, ViewC, ProjectRec
<1>11. PutIn(q, c, y) = [q EXCEPT !.clusters = ReplaceAt(cs, i, y)]
  BY DEF PutIn, i, cs
<1>12. PutIn(ViewP[q], c, ViewC[y])
         = [ViewP[q] EXCEPT !.clusters = ReplaceAt(Mapped(cs, ViewC), i, ViewC[y])]
  BY <1>0, <1>4 DEF PutIn
<1> QED BY <1>0, <1>1, <1>2, <1>4, <1>5, <1>9, <1>10, <1>11, <1>12 DEF i, cs

-----------------------------------------------------------------------------
(* Every update gives a list of projects, and has on what a reader sees    *)
(* the effect it has on what is stored.                                    *)
LEMMA EmptyMapped ==
  ASSUME NEW F PROVE Mapped(<<>>, F) = <<>>
  BY DEF Mapped

(* What a reader sees after upsert.                                        *)
LEMMA UpsertView ==
  ASSUME NEW ps \in Seq(ProjectRec), NEW p \in Project
  PROVE  Upsert(ps, p) \in Seq(ProjectRec) /\ View(Upsert(ps, p)) = Upsert(View(ps), p)
<1> DEFINE new == [id |-> p, clusters |-> <<>>]
<1>1. new \in ProjectRec
  <2>1. <<>> \in Seq(ClusterRec)
    BY EmptySeq
  <2> QED BY <2>1 DEF ProjectRec
<1>2. ViewP[new] = new
  <2>1. ViewP[new] = [new EXCEPT !.clusters = Mapped(<<>>, ViewC)]
    BY <1>1 DEF ViewP, OnProject, ViewC
  <2> QED BY <2>1, EmptyMapped
<1> HIDE DEF new
<1>3. Has(View(ps), p) <=> Has(ps, p)
  BY ViewIs, Views, MappedSearch
<1>4. CASE Has(ps, p)
  BY <1>1, <1>2, <1>3, <1>4, ProjectReplaced DEF Upsert, new
<1>5. CASE ~Has(ps, p)
  <2>1. Append(ps, new) \in Seq(ProjectRec)
    BY <1>1, AppendProperties
  <2>2. View(Append(ps, new)) = Append(View(ps), new)
    <3>1. View(Append(ps, new)) = Mapped(Append(ps, new), ViewP) /\ View(ps) = Mapped(ps, ViewP)
      BY <2>1, ViewIs
    <3>2. Mapped(Append(ps, new), ViewP) = Append(Mapped(ps, ViewP), ViewP[new])
      BY <1>1, Views, MappedAppend
    <3> QED BY <3>1, <3>2, <1>2
  <2> QED BY <2>1, <2>2, <1>3, <1>5 DEF Upsert, new
<1> QED BY <1>4, <1>5

(* What a reader sees after deleteByID.                                    *)
LEMMA DeleteProjectView ==
  ASSUME NEW ps \in Seq(ProjectRec), NEW p
  PROVE  DeleteProject(ps, p) \in Seq(ProjectRec)
         /\ View(DeleteProject(ps, p)) = DeleteProject(View(ps), p)
<1>1. Without(ps, p) \in Seq(ProjectRec)
  BY WithoutSeq
<1>2. View(Without(ps, p)) = Without(View(ps), p)
  BY <1>1, ViewIs, Views, MappedSearch
<1> QED BY <1>1, <1>2 DEF DeleteProject

(* What a reader sees after appendCluster.                                 *)
LEMMA AppendClusterView ==
  ASSUME NEW ps \in Seq(ProjectRec), NEW p \in Project, NEW c \in Cluster, Has(ps, p)
  PROVE  AppendCluster(ps, p, c) \in Seq(ProjectRec)
         /\ View(AppendCluster(ps, p, c)) = AppendCluster(View(ps), p, c)
<1> DEFINE i == First(ps, p)
           e == [id |-> c, nodes |-> <<>>]
           q == ps[i]
           x == [q EXCEPT !.clusters = Append(@, e)]
<1>1. q \in ProjectRec /\ q.clusters \in Seq(ClusterRec)
  <2>1. q \in ProjectRec
    BY ElementFound
  <2> QED BY <2>1 DEF ProjectRec
<1>2. e \in ClusterRec
  <2>1. <<>> \in Seq(NodeRec)
    BY EmptySeq
  <2> QED BY <2>1 DEF ClusterRec
<1>3. ViewC[e] = e
  <2>1. ViewC[e] = [e EXCEPT !.nodes = Mapped(<<>>, ViewN)]
    BY <1>2 DEF ViewC, OnCluster, ViewN
  <2> QED BY <2>1, EmptyMapped
<1> HIDE DEF e
<1>4. Append(q.clusters, e) \in Seq(ClusterRec)
      /\ Mapped(Append(q.clusters, e), ViewC) = Append(Mapped(q.clusters, ViewC), e)
  BY <1>1, <1>2, <1>3, Views, MappedAppend, AppendProperties
<1> HIDE DEF q
<1>5. x \in ProjectRec /\ ViewP[x] = [ViewP[q] EXCEPT !.clusters = Append(@, e)]
  <2>1. x \in ProjectRec
    BY <1>1, <1>4 DEF ProjectRec
  <2> QED BY <2>1, <1>1, <1>4 DEF ViewP, OnProject, ViewC, ProjectRec
<1> HIDE DEF x
<1>6. ReplaceAt(ps, i, x) \in Seq(ProjectRec)
      /\ View(ReplaceAt(ps, i, x)) = ReplaceAt(View(ps), First(View(ps), p), ViewP[x])
      /\ View(ps)[First(View(ps), p)] = ViewP[q]
  BY <1>5, ProjectReplaced DEF q
<1>7. AppendCluster(ps, p, c) = ReplaceAt(ps, i, x)
  BY DEF AppendCluster, AtProject, x, q, e
<1>8. AppendCluster(View(ps), p, c) = ReplaceAt(View(ps), First(View(ps), p), ViewP[x])
  BY <1>5, <1>6 DEF AppendCluster, AtProject, e
<1> QED BY <1>6, <1>7, <1>8

(* What a reader sees after the deletion of a cluster.                     *)
LEMMA DeleteClusterView ==
  ASSUME NEW ps \in Seq(ProjectRec), NEW p \in Project, NEW c \in Cluster, HasCluster(ps, p, c)
  PROVE  DeleteCluster(ps, p, c) \in Seq(ProjectRec)
         /\ View(DeleteCluster(ps, p, c)) = DeleteCluster(View(ps), p, c)
<1> DEFINE i == First(ps, p)
           q == ps[i]
           j == First(q.clusters, c)
           x == [q EXCEPT !.clusters = RemoveAt(@, First(@, c))]
<1>0. Has(ps, p) /\ Has(q.clusters, c)
  BY DEF HasCluster
<1>1. q \in ProjectRec /\ q.clusters \in Seq(ClusterRec)
  <2>1. q \in ProjectRec
    BY <1>0, ElementFound
  <2> QED BY <2>1 DEF ProjectRec
<1> HIDE DEF q
<1>2. j \in 1..Len(q.clusters) /\ First(Mapped(q.clusters, ViewC), c) = j
  BY <1>0, <1>1, Views, FirstIn, MappedSearch
<1>4. RemoveAt(q.clusters, j) \in Seq(ClusterRec)
      /\ Mapped(RemoveAt(q.clusters, j), ViewC) = RemoveAt(Mapped(q.clusters, ViewC), j)
  BY <1>1, <1>2, Views, MappedRemove, RemoveAtSeq
<1>5. x \in ProjectRec /\ ViewP[x] = [ViewP[q] EXCEPT !.clusters = RemoveAt(@, First(@, c))]
  <2>1. x \in ProjectRec
    BY <1>1, <1>4 DEF ProjectRec
  <2> QED BY <2>1, <1>1, <1>2, <1>4 DEF ViewP, OnProject, ViewC, ProjectRec
<1> HIDE DEF x
<1>6. ReplaceAt(ps, i, x) \in Seq(ProjectRec)
      /\ View(ReplaceAt(ps, i, x)) = ReplaceAt(View(ps), First(View(ps), p), ViewP[x])
      /\ View(ps)[First(View(ps), p)] = ViewP[q]
  BY <1>0, <1>5, ProjectReplaced DEF q
<1>7. DeleteCluster(ps, p, c) = ReplaceAt(ps, i, x)
  BY DEF DeleteCluster, AtProject, x, q
<1>8. DeleteCluster(View(ps), p, c) = ReplaceAt(View(ps), First(View(ps), p), ViewP[x])
  BY <1>5, <1>6 DEF DeleteCluster, AtProject
<1> QED BY <1>6, <1>7, <1>8

(* The first cluster c of the first project p, and its replacement by y.   *)
ClusterAt(ps, p, c) == ps[First(ps, p)].clusters[First(ps[First(ps, p)].clusters, c)]
PutCluster(ps, p, c, y) == ReplaceAt(ps, First(ps, p), PutIn(ps[First(ps, p)], c, y))

(* What a reader sees after a cluster was replaced.                        *)
LEMMA PutClusterView ==
  ASSUME NEW ps \in Seq(ProjectRec), NEW p, NEW c, HasCluster(ps, p, c), NEW y \in ClusterRec
  PROVE  /\ PutCluster(ps, p, c, y) \in Seq(ProjectRec)
         /\ View(PutCluster(ps, p, c, y)) = PutCluster(View(ps), p, c, ViewC[y])
<1> DEFINE i == First(ps, p)
           q == ps[i]
           x == PutIn(q, c, y)
<1>0. Has(ps, p) /\ Has(q.clusters, c)
  BY DEF HasCluster
<1>1. q \in ProjectRec
  BY <1>0, ElementFound
<1> HIDE DEF q
<1>2. x \in ProjectRec /\ ViewP[x] = PutIn(ViewP[q], c, ViewC[y])
  BY <1>0, <1>1, ClusterReplaced
<1> HIDE DEF x
<1>3. /\ ReplaceAt(ps, i, x) \in Seq(ProjectRec)
      /\ View(ReplaceAt(ps, i, x)) = ReplaceAt(View(ps), First(View(ps), p), ViewP[x])
      /\ View(ps)[First(View(ps), p)] = ViewP[q]
  BY <1>0, <1>2, ProjectReplaced DEF q
<1>4. PutCluster(ps, p, c, y) = ReplaceAt(ps, i, x)
  BY DEF PutCluster, x, q
<1>5. PutCluster(View(ps), p, c, ViewC[y]) = ReplaceAt(View(ps), First(View(ps), p), ViewP[x])
  BY <1>2, <1>3 DEF PutCluster
<1> QED BY <1>3, <1>4, <1>5

(* The cluster at a place, in the list and in its view.                    *)
LEMMA ClusterAtView ==
  ASSUME NEW ps \in Seq(ProjectRec), NEW p, NEW c, HasCluster(ps, p, c)
  PROVE  /\ ClusterAt(ps, p, c) \in ClusterRec
         /\ ClusterAt(View(ps), p, c) = ViewC[ClusterAt(ps, p, c)]
<1> DEFINE q == ps[First(ps, p)]
           y == q.clusters[First(q.clusters, c)]
<1>0. Has(ps, p) /\ Has(q.clusters, c)
  BY DEF HasCluster
<1>1. q \in ProjectRec /\ q.clusters \in Seq(ClusterRec)
  <2>1. q \in ProjectRec
    BY <1>0, ElementFound
  <2> QED BY <2>1 DEF ProjectRec
<1>2. y \in ClusterRec
  <2> HIDE DEF q
  <2> QED BY <1>0, <1>1, ElementFound
<1>3. First(View(ps), p) = First(ps, p) /\ View(ps)[First(ps, p)] = ViewP[q]
  BY <1>0, <1>1, ProjectReplaced
<1> HIDE DEF q
<1>4. /\ First(ViewP[q].clusters, c) = First(q.clusters, c)
      /\ ViewP[q].clusters[First(q.clusters, c)] = ViewC[y]
  BY <1>0, <1>1, <1>2, ClusterReplaced
<1>5. ClusterAt(ps, p, c) = y
  BY DEF ClusterAt, q
<1>6. ClusterAt(View(ps), p, c) = ViewC[y]
  BY <1>3, <1>4 DEF ClusterAt
<1> QED BY <1>2, <1>5, <1>6

(* A password in plain text is its own view.                               *)
LEMMA PlainLayered ==
  ASSUME NEW text \in Password
  PROVE  Plain(text) \in Layered /\ Strip[Plain(text)] = Plain(text)
<1>1. <<>> \in Seq(Key) /\ Len(<<>>) = 0
  BY EmptySeq
<1>2. Plain(text) \in Layered
  BY <1>1 DEF Plain, Layered
<1> QED BY <1>2 DEF Strip, Plain

(* What a reader sees after appendNode.                                    *)
LEMMA AppendNodeView ==
  ASSUME NEW ps \in Seq(ProjectRec), NEW p \in Project, NEW c \in Cluster, NEW n \in Node,
         NEW text \in Password, HasCluster(ps, p, c)
  PROVE  AppendNode(ps, p, c, n, text) \in Seq(ProjectRec)
         /\ View(AppendNode(ps, p, c, n, text)) = AppendNode(View(ps), p, c, n, text)
<1> DEFINE cl == ClusterAt(ps, p, c)
           e == NewNode(n, text)
           y == [cl EXCEPT !.nodes = Append(@, e)]
<1>1. cl \in ClusterRec /\ ClusterAt(View(ps), p, c) = ViewC[cl]
  BY ClusterAtView
<1>2. e \in NodeRec /\ ViewN[e] = e
  <2>1. e \in NodeRec
    BY PlainLayered DEF NewNode, NodeRec
  <2> QED BY <2>1, PlainLayered DEF ViewN, OnNode, NewNode
<1> HIDE DEF cl, e
<1>3. cl.nodes \in Seq(NodeRec)
  BY <1>1 DEF ClusterRec
<1>4. Append(cl.nodes, e) \in Seq(NodeRec)
      /\ Mapped(Append(cl.nodes, e), ViewN) = Append(Mapped(cl.nodes, ViewN), e)
  BY <1>2, <1>3, Views, MappedAppend, AppendProperties
<1>5. y \in ClusterRec /\ ViewC[y] = [ViewC[cl] EXCEPT !.nodes = Append(@, e)]
  <2>1. y \in ClusterRec
    BY <1>1, <1>4 DEF ClusterRec
  <2> QED BY <2>1, <1>1, <1>4 DEF ViewC, OnCluster, ViewN, ClusterRec
<1>6. AppendNode(ps, p, c, n, text) = PutCluster(ps, p, c, y)
  BY DEF AppendNode, AtCluster, AtProject, PutCluster, PutIn, ClusterAt, cl, e
<1> HIDE DEF y
<1>7. AppendNode(View(ps), p, c, n, text) = PutCluster(View(ps), p, c, ViewC[y])
  <2>1. AppendNode(View(ps), p, c, n, text)
          = PutCluster(View(ps), p, c, [ClusterAt(View(ps), p, c) EXCEPT !.nodes = Append(@, e)])
    BY DEF AppendNode, AtCluster, AtProject, PutCluster, PutIn, ClusterAt, e
  <2> QED BY <2>1, <1>1, <1>5
<1> QED BY <1>5, <1>6, <1>7, PutClusterView

(* What a reader sees after a node was changed.                            *)
LEMMA UpdateNodeView ==
  ASSUME NEW ps \in Seq(ProjectRec), NEW p \in Project, NEW c \in Cluster, NEW n \in Node,
         NEW text \in Password, HasNode(ps, p, c, n)
  PROVE  UpdateNode(ps, p, c, n, text) \in Seq(ProjectRec)
         /\ View(UpdateNode(ps, p, c, n, text)) = UpdateNode(View(ps), p, c, n, text)
<1> DEFINE cl == ClusterAt(ps, p, c)
           ns == cl.nodes
           k == First(ns, n)
           e == [ns[k] EXCEPT !.pw = Plain(text)]
           y == [cl EXCEPT !.nodes = ReplaceAt(ns, k, e)]
           w == ClusterAt(View(ps), p, c)
<1>0. HasCluster(ps, p, c) /\ Has(ns, n)
  BY DEF HasNode, ClusterAt
<1>1. cl \in ClusterRec /\ w = ViewC[cl]
  BY <1>0, ClusterAtView
<1> HIDE DEF cl, w
<1>3. ns \in Seq(NodeRec) /\ ViewC[cl] = [cl EXCEPT !.nodes = Mapped(ns, ViewN)]
  BY <1>1 DEF ClusterRec, ViewC, OnCluster, ViewN
<1> HIDE DEF ns
<1>4. k \in 1..Len(ns) /\ ns[k] \in NodeRec
  BY <1>0, <1>3, ElementFound
<1>5. First(Mapped(ns, ViewN), n) = k /\ Mapped(ns, ViewN)[k] = ViewN[ns[k]]
  BY <1>3, <1>4, Views, MappedSearch, MappedSeq
<1> HIDE DEF k
<1>6. e \in NodeRec /\ ViewN[e] = [ViewN[ns[k]] EXCEPT !.pw = Plain(text)]
  <2>1. e \in NodeRec
    BY <1>4, PlainLayered DEF NodeRec
  <2> QED BY <2>1, <1>4, PlainLayered DEF ViewN, OnNode, NodeRec
<1> HIDE DEF e
<1>7. ReplaceAt(ns, k, e) \in Seq(NodeRec)
      /\ Mapped(ReplaceAt(ns, k, e), ViewN) = ReplaceAt(Mapped(ns, ViewN), k, ViewN[e])
  <2>1. ReplaceAt(ns, k, e) \in Seq(NodeRec)
    BY <1>3, <1>4, <1>6, ReplaceAtSeq
  <2>2. Mapped(ReplaceAt(ns, k, e), ViewN) = ReplaceAt(Mapped(ns, ViewN), k, ViewN[e])
    <3>1. /\ ViewN \in [NodeRec -> NodeRec] /\ ns \in Seq(NodeRec) /\ k \in 1..Len(ns)
          /\ e \in NodeRec
      BY <1>3, <1>4, <1>6, Views
    <3> QED BY <3>1, MappedReplace
  <2> QED BY <2>1, <2>2
<1>8. y \in ClusterRec /\ ViewC[y] = [cl EXCEPT !.nodes = ReplaceAt(Mapped(ns, ViewN), k, ViewN[e])]
  <2>1. y \in ClusterRec
    BY <1>1, <1>7 DEF ClusterRec
  <2> QED BY <2>1, <1>1, <1>7 DEF ViewC, OnCluster, ViewN, ClusterRec
<1>9. UpdateNode(ps, p, c, n, text) = PutCluster(ps, p, c, y)
  BY DEF UpdateNode, AtCluster, AtProject, PutCluster, PutIn, ClusterAt, cl, e, k, ns
<1> HIDE DEF y
<1>10. UpdateNode(View(ps), p, c, n, text) = PutCluster(View(ps), p, c, ViewC[y])
  <2> DEFINE z == [w EXCEPT !.nodes = ReplaceAt(w.nodes, First(w.nodes, n),
                                         [w.nodes[First(w.nodes, n)] EXCEPT !.pw = Plain(text)])]
  <2>1. UpdateNode(View(ps), p, c, n, text) = PutCluster(View(ps), p, c, z)
    BY DEF UpdateNode, AtCluster, AtProject, PutCluster, PutIn, ClusterAt, w
  <2>2. w.nodes = Mapped(ns, ViewN)
    BY <1>1, <1>3 DEF ClusterRec
  <2>3. z = [w EXCEPT !.nodes = ReplaceAt(Mapped(ns, ViewN), k, ViewN[e])]
    BY <2>2, <1>5, <1>6
  <2>4. z = ViewC[y]
    BY <2>3, <1>1, <1>3, <1>8 DEF ClusterRec
  <2> QED BY <2>1, <2>4
<1> QED BY <1>0, <1>8, <1>9, <1>10, PutClusterView

(* What a reader sees after the deletion of a node.                        *)
LEMMA DeleteNodeView ==
  ASSUME NEW ps \in Seq(ProjectRec), NEW p \in Project, NEW c \in Cluster, NEW n \in Node,
         HasNode(ps, p, c, n)
  PROVE  DeleteNode(ps, p, c, n) \in Seq(ProjectRec)
         /\ View(DeleteNode(ps, p, c, n)) = DeleteNode(View(ps), p, c, n)
<1> DEFINE cl == ClusterAt(ps, p, c)
           ns == cl.nodes
           k == First(ns, n)
           y == [cl EXCEPT !.nodes = RemoveAt(ns, k)]
           w == ClusterAt(View(ps), p, c)
<1>0. HasCluster(ps, p, c) /\ Has(ns, n)
  BY DEF HasNode, ClusterAt
<1>1. cl \in ClusterRec /\ w = ViewC[cl]
  BY <1>0, ClusterAtView
<1> HIDE DEF cl, w
<1>3. ns \in Seq(NodeRec) /\ ViewC[cl] = [cl EXCEPT !.nodes = Mapped(ns, ViewN)]
  BY <1>1 DEF ClusterRec, ViewC, OnCluster, ViewN
<1> HIDE DEF ns
<1>4. k \in 1..Len(ns) /\ First(Mapped(ns, ViewN), n) = k
  BY <1>0, <1>3, Views, ElementFound, MappedSearch
<1> HIDE DEF k
<1>7. RemoveAt(ns, k) \in Seq(NodeRec)
      /\ Mapped(RemoveAt(ns, k), ViewN) = RemoveAt(Mapped(ns, ViewN), k)
  BY <1>3, <1>4, Views, MappedRemove, RemoveAtSeq
<1>8. y \in ClusterRec /\ ViewC[y] = [cl EXCEPT !.nodes = RemoveAt(Mapped(ns, ViewN), k)]
  <2>1. y \in ClusterRec
    BY <1>1, <1>7 DEF ClusterRec
  <2> QED BY <2>1, <1>1, <1>7 DEF ViewC, OnCluster, ViewN, ClusterRec
<1>9. DeleteNode(ps, p, c, n) = PutCluster(ps, p, c, y)
  BY DEF DeleteNode, AtCluster, AtProject, PutCluster, PutIn, ClusterAt, cl, k, ns
<1> HIDE DEF y
<1>10. DeleteNode(View(ps), p, c, n) = PutCluster(View(ps), p, c, ViewC[y])
  <2> DEFINE z == [w EXCEPT !.nodes = RemoveAt(w.nodes, First(w.nodes, n))]
  <2>1. DeleteNode(View(ps), p, c, n) = PutCluster(View(ps), p, c, z)
    BY DEF DeleteNode, AtCluster, AtProject, PutCluster, PutIn, ClusterAt, w
  <2>2. w.nodes = Mapped(ns, ViewN)
    BY <1>1, <1>3 DEF ClusterRec
  <2>4. z = ViewC[y]
    BY <2>2, <1>1, <1>3, <1>4, <1>8 DEF ClusterRec
  <2> QED BY <2>1, <2>4
<1> QED BY <1>0, <1>8, <1>9, <1>10, PutClusterView

(* A node that is replaced at its place, seen from above.                  *)
StatusAt(ps, i, j, k, st) ==
  LET e == [ps[i].clusters[j].nodes[k] EXCEPT !.status = st]
      y == [ps[i].clusters[j] EXCEPT !.nodes = ReplaceAt(ps[i].clusters[j].nodes, k, e)]
      x == [ps[i] EXCEPT !.clusters = ReplaceAt(ps[i].clusters, j, y)]
  IN  ReplaceAt(ps, i, x)

(* What a reader sees after the status at a place was changed.             *)
LEMMA StatusAtView ==
  ASSUME NEW ps \in Seq(ProjectRec), NEW i \in 1..Len(ps), NEW j \in 1..Len(ps[i].clusters),
         NEW k \in 1..Len(ps[i].clusters[j].nodes), NEW st \in {"ready", "failed"}
  PROVE  /\ StatusAt(ps, i, j, k, st) \in Seq(ProjectRec)
         /\ View(StatusAt(ps, i, j, k, st)) = StatusAt(View(ps), i, j, k, st)
<1> DEFINE q == ps[i]
           cs == q.clusters
           cl == cs[j]
           ns == cl.nodes
           e == [ns[k] EXCEPT !.status = st]
           y == [cl EXCEPT !.nodes = ReplaceAt(ns, k, e)]
           x == [q EXCEPT !.clusters = ReplaceAt(cs, j, y)]
           vq == View(ps)[i]
<1>1. q \in ProjectRec /\ View(ps) = Mapped(ps, ViewP) /\ vq = ViewP[q]
  <2>1. q \in ProjectRec
    BY ElementOfSeq
  <2>2. View(ps) = Mapped(ps, ViewP)
    BY ViewIs
  <2>3. Mapped(ps, ViewP)[i] = ViewP[ps[i]]
    <3>1. ViewP \in [ProjectRec -> ProjectRec]
      BY Views
    <3> QED BY <3>1, MappedSeq
  <2> QED BY <2>1, <2>2, <2>3
<1>2. cs \in Seq(ClusterRec) /\ ViewP[q] = [q EXCEPT !.clusters = Mapped(cs, ViewC)]
  BY <1>1 DEF ProjectRec, ViewP, OnProject, ViewC
<1>3. cl \in ClusterRec /\ Mapped(cs, ViewC)[j] = ViewC[cl]
  <2>1. j \in 1..Len(cs)
    OBVIOUS
  <2> HIDE DEF cs
  <2>2. ViewC \in [ClusterRec -> ClusterRec] /\ cs \in Seq(ClusterRec)
    BY <1>2, Views
  <2>3. cs[j] \in ClusterRec
    BY <2>1, <2>2, ElementOfSeq
  <2>4. Mapped(cs, ViewC)[j] = ViewC[cs[j]]
    BY <2>1, <2>2, MappedSeq
  <2> QED BY <2>3, <2>4
<1>4. ns \in Seq(NodeRec) /\ ViewC[cl] = [cl EXCEPT !.nodes = Mapped(ns, ViewN)]
  BY <1>3 DEF ClusterRec, ViewC, OnCluster, ViewN
<1>5. ns[k] \in NodeRec /\ Mapped(ns, ViewN)[k] = ViewN[ns[k]]
  <2>1. k \in 1..Len(ns)
    OBVIOUS
  <2> HIDE DEF ns
  <2>2. ViewN \in [NodeRec -> NodeRec] /\ ns \in Seq(NodeRec)
    BY <1>4, Views
  <2>3. ns[k] \in NodeRec
    BY <2>1, <2>2, ElementOfSeq
  <2>4. Mapped(ns, ViewN)[k] = ViewN[ns[k]]
    BY <2>1, <2>2, MappedSeq
  <2> QED BY <2>3, <2>4
<1>6. j \in 1..Len(cs) /\ k \in 1..Len(ns)
  OBVIOUS
<1>7. StatusAt(ps, i, j, k, st) = ReplaceAt(ps, i, x)
  BY DEF StatusAt
<1> HIDE DEF q, cs, cl, ns, vq
<1>8. e \in NodeRec /\ ViewN[e] = [ViewN[ns[k]] EXCEPT !.status = st]
  <2>1. e \in NodeRec
    BY <1>5 DEF NodeRec
  <2> QED BY <2>1, <1>5 DEF ViewN, OnNode, NodeRec
<1> HIDE DEF e
<1>9. /\ ReplaceAt(ns, k, e) \in Seq(NodeRec)
      /\ Mapped(ReplaceAt(ns, k, e), ViewN) = ReplaceAt(Mapped(ns, ViewN), k, ViewN[e])
  <2>0. ViewN \in [NodeRec -> NodeRec] /\ ns \in Seq(NodeRec) /\ e \in NodeRec
    BY <1>4, <1>8, Views
  <2>1. ReplaceAt(ns, k, e) \in Seq(NodeRec)
    BY <2>0, <1>6, ReplaceAtSeq
  <2>2. Mapped(ReplaceAt(ns, k, e), ViewN) = ReplaceAt(Mapped(ns, ViewN), k, ViewN[e])
    BY <2>0, <1>6, MappedReplace
  <2> QED BY <2>1, <2>2
<1>10. y \in ClusterRec /\ ViewC[y] = [cl EXCEPT !.nodes = ReplaceAt(Mapped(ns, ViewN), k, ViewN[e])]
  <2>1. y \in ClusterRec
    BY <1>3, <1>9 DEF ClusterRec
  <2> QED BY <2>1, <1>3, <1>9 DEF ViewC, OnCluster, ViewN, ClusterRec
<1> HIDE DEF y
<1>11. /\ ReplaceAt(cs, j, y) \in Seq(ClusterRec)
       /\ Mapped(ReplaceAt(cs, j, y), ViewC) = ReplaceAt(Mapped(cs, ViewC), j, ViewC[y])
  <2>0. ViewC \in [ClusterRec -> ClusterRec] /\ cs \in Seq(ClusterRec) /\ y \in ClusterRec
    BY <1>2, <1>10, Views
  <2>1. ReplaceAt(cs, j, y) \in Seq(ClusterRec)
    BY <2>0, <1>6, ReplaceAtSeq
  <2>2. Mapped(ReplaceAt(cs, j, y), ViewC) = ReplaceAt(Mapped(cs, ViewC), j, ViewC[y])
    BY <2>0, <1>6, MappedReplace
  <2> QED BY <2>1, <2>2
<1>12. x \in ProjectRec /\ ViewP[x] = [q EXCEPT !.clusters = ReplaceAt(Mapped(cs, ViewC), j, ViewC[y])]
  <2>1. x \in ProjectRec
    BY <1>1, <1>11 DEF ProjectRec
  <2> QED BY <2>1, <1>1, <1>11 DEF ViewP, OnProject, ViewC, ProjectRec
<1> HIDE DEF x
<1>13. /\ ReplaceAt(ps, i, x) \in Seq(ProjectRec)
       /\ Mapped(ReplaceAt(ps, i, x), ViewP) = ReplaceAt(Mapped(ps, ViewP), i, ViewP[x])
  <2>0. ViewP \in [ProjectRec -> ProjectRec] /\ x \in ProjectRec
    BY <1>12, Views
  <2>1. ReplaceAt(ps, i, x) \in Seq(ProjectRec)
    BY <2>0, ReplaceAtSeq
  <2>2. Mapped(ReplaceAt(ps, i, x), ViewP) = ReplaceAt(Mapped(ps, ViewP), i, ViewP[x])
    BY <2>0, MappedReplace
  <2> QED BY <2>1, <2>2
<1>14. StatusAt(View(ps), i, j, k, st) = ReplaceAt(View(ps), i, ViewP[x])
  <2> DEFINE wc == vq.clusters[j]
             we == [wc.nodes[k] EXCEPT !.status = st]
             wy == [wc EXCEPT !.nodes = ReplaceAt(wc.nodes, k, we)]
             wx == [vq EXCEPT !.clusters = ReplaceAt(vq.clusters, j, wy)]
  <2>1. StatusAt(View(ps), i, j, k, st) = ReplaceAt(View(ps), i, wx)
    BY DEF StatusAt, vq
  <2>2. vq.clusters = Mapped(cs, ViewC)
    BY <1>1, <1>2 DEF ProjectRec
  <2>3. wc = ViewC[cl] /\ wc.nodes = Mapped(ns, ViewN)
    BY <2>2, <1>3, <1>4 DEF ClusterRec
  <2> HIDE DEF wc
  <2>4. we = ViewN[e]
    BY <2>3, <1>5, <1>8
  <2> HIDE DEF we
  <2>5. wy = ViewC[y]
    BY <2>3, <2>4, <1>3, <1>4, <1>10 DEF ClusterRec
  <2> HIDE DEF wy
  <2>6. wx = ViewP[x]
    BY <2>2, <2>5, <1>1, <1>2, <1>12 DEF ProjectRec
  <2> QED BY <2>1, <2>6
<1>15. View(ReplaceAt(ps, i, x)) = ReplaceAt(View(ps), i, ViewP[x])
  BY <1>1, <1>13, ViewIs
<1> QED BY <1>7, <1>13, <1>14, <1>15

(* What a reader sees after UpdateNodeStatus.                              *)
LEMMA SetStatusView ==
  ASSUME NEW ps \in Seq(ProjectRec), NEW n, NEW st \in {"ready", "failed"}, HasNodeAnywhere(ps, n)
  PROVE  /\ SetStatus(ps, n, st) \in Seq(ProjectRec)
         /\ View(SetStatus(ps, n, st)) = SetStatus(View(ps), n, st)
<1> DEFINE I(qs) == {a \in DOMAIN qs : NodeIn(qs[a].clusters, n)}
           J(cs) == {a \in DOMAIN cs : Has(cs[a].nodes, n)}
           i == Min(I(ps))
           cs == ps[i].clusters
           j == Min(J(cs))
           ns == cs[j].nodes
           k == First(ns, n)
<1>1. /\ ViewP \in [ProjectRec -> ProjectRec] /\ ViewC \in [ClusterRec -> ClusterRec]
      /\ ViewN \in [NodeRec -> NodeRec] /\ \A x \in NodeRec : ViewN[x].id = x.id
  BY Views
(* The same clusters and projects hold a node n as seen from above.        *)
<1>2. ASSUME NEW c \in ClusterRec PROVE /\ Has(ViewC[c].nodes, n) <=> Has(c.nodes, n)
                                        /\ First(ViewC[c].nodes, n) = First(c.nodes, n)
  <2>1. c.nodes \in Seq(NodeRec) /\ ViewC[c].nodes = Mapped(c.nodes, ViewN)
    BY DEF ClusterRec, ViewC, OnCluster, ViewN
  <2> QED BY <2>1, <1>1, MappedSearch
<1>3. ASSUME NEW q \in ProjectRec
      PROVE  /\ q.clusters \in Seq(ClusterRec) /\ ViewP[q].clusters = Mapped(q.clusters, ViewC)
             /\ DOMAIN ViewP[q].clusters = DOMAIN q.clusters
             /\ \A a \in DOMAIN q.clusters : /\ q.clusters[a] \in ClusterRec
                                             /\ ViewP[q].clusters[a] = ViewC[q.clusters[a]]
             /\ J(ViewP[q].clusters) = J(q.clusters)
  <2>1. q.clusters \in Seq(ClusterRec) /\ ViewP[q].clusters = Mapped(q.clusters, ViewC)
    BY DEF ProjectRec, ViewP, OnProject, ViewC
  <2>2. \A a \in DOMAIN q.clusters : q.clusters[a] \in ClusterRec
    BY <2>1, LenProperties, ElementOfSeq
  <2>3. DOMAIN Mapped(q.clusters, ViewC) = DOMAIN q.clusters
        /\ \A a \in DOMAIN q.clusters : Mapped(q.clusters, ViewC)[a] = ViewC[q.clusters[a]]
    BY DEF Mapped
  <2>4. J(ViewP[q].clusters) = J(q.clusters)
    BY <2>1, <2>2, <2>3, <1>2
  <2> QED BY <2>1, <2>2, <2>3, <2>4
<1>4. ASSUME NEW a \in DOMAIN ps
      PROVE  /\ ps[a] \in ProjectRec /\ View(ps)[a] = ViewP[ps[a]]
             /\ NodeIn(View(ps)[a].clusters, n) <=> NodeIn(ps[a].clusters, n)
  <2>1. ps[a] \in ProjectRec
    BY LenProperties, ElementOfSeq
  <2>2. View(ps)[a] = ViewP[ps[a]]
    BY ViewIs DEF Mapped
  <2>3. \A c : NodeIn(c, n) <=> J(c) # {}
    BY DEF NodeIn
  <2> QED BY <2>1, <2>2, <2>3, <1>3
<1>5. DOMAIN View(ps) = DOMAIN ps /\ I(View(ps)) = I(ps)
  <2>1. DOMAIN View(ps) = DOMAIN ps
    BY ViewIs DEF Mapped
  <2> QED BY <2>1, <1>4
<1>6. i \in 1..Len(ps) /\ NodeIn(cs, n) /\ ps[i] \in ProjectRec
  <2>1. DOMAIN ps = 1..Len(ps) /\ Len(ps) \in Nat
    BY LenProperties
  <2>2. I(ps) # {} /\ I(ps) \subseteq Nat
    BY <2>1 DEF HasNodeAnywhere
  <2>3. i \in I(ps)
    <3> DEFINE S == I(ps)
    <3> HIDE DEF S
    <3>1. Min(S) \in S
      BY <2>2, MinIn DEF S
    <3> QED BY <3>1 DEF S
  <2> QED BY <2>1, <2>3, <1>4
<1>7. j \in 1..Len(cs) /\ Has(ns, n) /\ cs[j] \in ClusterRec
  <2>1. DOMAIN cs = 1..Len(cs) /\ Len(cs) \in Nat
    BY <1>3, <1>6, LenProperties
  <2>2. J(cs) # {} /\ J(cs) \subseteq Nat
    <3>1. NodeIn(cs, n)
      BY <1>6
    <3> HIDE DEF cs
    <3> QED BY <3>1, <2>1 DEF NodeIn
  <2>3. j \in J(cs)
    <3> DEFINE S == J(cs)
    <3> HIDE DEF S
    <3>1. Min(S) \in S
      BY <2>2, MinIn DEF S
    <3> QED BY <3>1 DEF S
  <2> QED BY <2>1, <2>3, <1>3, <1>6
<1>8. k \in 1..Len(ns)
  <2>1. ns \in Seq(NodeRec)
    BY <1>7 DEF ClusterRec
  <2> HIDE DEF ns
  <2> QED BY <2>1, <1>7, FirstIn
<1>9. SetStatus(ps, n, st) = StatusAt(ps, i, j, k, st)
  BY DEF SetStatus, StatusAt, ReplaceAt
<1>10. SetStatus(View(ps), n, st) = StatusAt(View(ps), i, j, k, st)
  <2>1. Min(I(View(ps))) = i
    BY <1>5
  <2>2. View(ps)[i] = ViewP[ps[i]] /\ Min(J(View(ps)[i].clusters)) = j
    <3>1. i \in DOMAIN ps
      BY <1>6, LenProperties
    <3>2. ps[i] \in ProjectRec
      BY <1>6
    <3> HIDE DEF i, J
    <3>3. View(ps)[i] = ViewP[ps[i]]
      BY <3>1, <1>4
    <3>4. J(ViewP[ps[i]].clusters) = J(ps[i].clusters)
      BY <3>2, <1>3
    <3> QED BY <3>3, <3>4
  <2>3. First(View(ps)[i].clusters[j].nodes, n) = k
    <3>1. j \in DOMAIN cs
      BY <1>3, <1>6, <1>7, LenProperties
    <3>2. View(ps)[i].clusters[j] = ViewC[cs[j]]
      <4>1. ps[i] \in ProjectRec
        BY <1>6
      <4> HIDE DEF i, j
      <4> QED BY <4>1, <3>1, <2>2, <1>3
    <3> QED BY <3>2, <1>2, <1>7
  <2> HIDE DEF i, j, k
  <2> QED BY <2>1, <2>2, <2>3 DEF SetStatus, StatusAt, ReplaceAt
<1>11. /\ StatusAt(ps, i, j, k, st) \in Seq(ProjectRec)
       /\ View(StatusAt(ps, i, j, k, st)) = StatusAt(View(ps), i, j, k, st)
  <2>1. i \in 1..Len(ps) /\ j \in 1..Len(ps[i].clusters) /\ k \in 1..Len(ps[i].clusters[j].nodes)
    BY <1>6, <1>7, <1>8
  <2> HIDE DEF i, j, k
  <2> QED BY <2>1, StatusAtView
<1> QED BY <1>9, <1>10, <1>11

AnyOp == SplitOp \cup LockedOp \cup HostOp
ProjectOps == {"upsert", "deleteByID", "deleteProject", "appendCluster", "deleteCluster",
               "appendNode", "updateNode", "deleteNode", "status"}

(* What an operation carries.                                              *)
LEMMA OpFields ==
  ASSUME NEW o \in AnyOp
  PROVE  /\ o.kind \in {"upsert", "deleteByID", "deleteProject", "appendCluster", "deleteCluster",
                        "appendNode", "updateNode", "deleteNode"} => o.p \in Project
         /\ o.kind \in {"appendCluster", "deleteCluster", "appendNode", "updateNode",
                        "deleteNode"} => o.c \in Cluster
         /\ o.kind \in {"appendNode", "updateNode", "deleteNode", "status"} => o.n \in Node
         /\ o.kind \in {"appendNode", "updateNode"} => o.text \in Password
         /\ o.kind = "status" => o.s \in {"ready", "failed"}
         /\ o.kind \in {"appendHost", "deleteHost"} => o.h \in Host
  BY DEF AnyOp, SplitOp, LockedOp, HostOp, ServeProjectList, ServeProjectByID, ServeClusterCreate,
         ServeClusterByID, ServeNodeCreate, ServeNodeByID, ServeWorkspaceProjects,
         ServeWorkspaceProjectByID, UpdateNodeStatus, ServeHostList, ServeHostByID

(* Every update commutes with the view: how passwords are encrypted makes  *)
(* no difference to it.                                                    *)
LEMMA ApplyView ==
  ASSUME NEW ps \in Seq(ProjectRec), NEW o \in AnyOp, Applies(o, ps)
  PROVE  Apply(o, ps) \in Seq(ProjectRec) /\ View(Apply(o, ps)) = Apply(o, View(ps))
<1>1. CASE o.kind = "upsert"
  <2>1. o.p \in Project
    BY <1>1, OpFields
  <2>2. \A qs : Apply(o, qs) = Upsert(qs, o.p)
    BY <1>1 DEF Apply
  <2> QED BY <2>1, <2>2, UpsertView
<1>2. CASE o.kind \in {"deleteByID", "deleteProject"}
  <2>2. \A qs : Apply(o, qs) = DeleteProject(qs, o.p)
    BY <1>2 DEF Apply
  <2> QED BY <2>2, DeleteProjectView
<1>3. CASE o.kind = "appendCluster"
  <2>1. o.p \in Project /\ o.c \in Cluster
    BY <1>3, OpFields
  <2>2. \A qs : Apply(o, qs) = AppendCluster(qs, o.p, o.c)
    BY <1>3 DEF Apply
  <2>3. Has(ps, o.p)
    BY <1>3 DEF Applies
  <2> QED BY <2>1, <2>2, <2>3, AppendClusterView
<1>4. CASE o.kind = "deleteCluster"
  <2>1. o.p \in Project /\ o.c \in Cluster
    BY <1>4, OpFields
  <2>2. \A qs : Apply(o, qs) = DeleteCluster(qs, o.p, o.c)
    BY <1>4 DEF Apply
  <2>3. HasCluster(ps, o.p, o.c)
    BY <1>4 DEF Applies
  <2> QED BY <2>1, <2>2, <2>3, DeleteClusterView
<1>5. CASE o.kind = "appendNode"
  <2>1. o.p \in Project /\ o.c \in Cluster /\ o.n \in Node /\ o.text \in Password
    BY <1>5, OpFields
  <2>2. \A qs : Apply(o, qs) = AppendNode(qs, o.p, o.c, o.n, o.text)
    BY <1>5 DEF Apply
  <2>3. HasCluster(ps, o.p, o.c)
    BY <1>5 DEF Applies
  <2> QED BY <2>1, <2>2, <2>3, AppendNodeView
<1>6. CASE o.kind = "updateNode"
  <2>1. o.p \in Project /\ o.c \in Cluster /\ o.n \in Node /\ o.text \in Password
    BY <1>6, OpFields
  <2>2. \A qs : Apply(o, qs) = UpdateNode(qs, o.p, o.c, o.n, o.text)
    BY <1>6 DEF Apply
  <2>3. HasNode(ps, o.p, o.c, o.n)
    BY <1>6 DEF Applies
  <2> QED BY <2>1, <2>2, <2>3, UpdateNodeView
<1>7. CASE o.kind = "deleteNode"
  <2>1. o.p \in Project /\ o.c \in Cluster /\ o.n \in Node
    BY <1>7, OpFields
  <2>2. \A qs : Apply(o, qs) = DeleteNode(qs, o.p, o.c, o.n)
    BY <1>7 DEF Apply
  <2>3. HasNode(ps, o.p, o.c, o.n)
    BY <1>7 DEF Applies
  <2> QED BY <2>1, <2>2, <2>3, DeleteNodeView
<1>8. CASE o.kind = "status"
  <2>1. o.s \in {"ready", "failed"}
    BY <1>8, OpFields
  <2>2. \A qs : Apply(o, qs) = SetStatus(qs, o.n, o.s)
    BY <1>8 DEF Apply
  <2>3. HasNodeAnywhere(ps, o.n)
    BY <1>8 DEF Applies
  <2> QED BY <2>1, <2>2, <2>3, SetStatusView
<1>9. CASE o.kind \notin ProjectOps
  <2>1. \A qs : Apply(o, qs) = qs
    BY <1>9 DEF Apply, ProjectOps
  <2> QED BY <2>1
<1> QED BY <1>1, <1>2, <1>3, <1>4, <1>5, <1>6, <1>7, <1>8, <1>9 DEF ProjectOps

(* An update of the hosts gives a list of hosts.                           *)
LEMMA HostApplySeq ==
  ASSUME NEW hs \in Seq([id : Host]), NEW o \in AnyOp, HostApplies(o, hs)
  PROVE  HostApply(o, hs) \in Seq([id : Host])
<1>1. CASE o.kind = "appendHost"
  <2>1. [id |-> o.h] \in [id : Host]
    BY <1>1, OpFields
  <2> QED BY <1>1, <2>1, AppendProperties DEF HostApply
<1>2. CASE o.kind = "deleteHost"
  <2>1. Has(hs, o.h)
    BY <1>2 DEF HostApplies
  <2>2. First(hs, o.h) \in 1..Len(hs)
    BY <2>1, FirstIn
  <2> QED BY <1>2, <2>2, RemoveAtSeq DEF HostApply
<1>3. CASE o.kind \notin {"appendHost", "deleteHost"}
  BY <1>3 DEF HostApply
<1> QED BY <1>1, <1>2, <1>3

-----------------------------------------------------------------------------
TypeOK ==
  /\ disk \in Envelope /\ torn \subseteq {"tmp"} /\ key \in Keys /\ writeKey \in Keys
  /\ mu \in Request \cup {NoRequest}
  /\ pc \in [Request -> {"idle", "read", "writing"}] /\ op \in [Request -> AnyOp]
  /\ items \in [Request -> Seq(ProjectRec)] /\ pending \in [Request -> Envelope]
  /\ fresh \in [Request -> BOOLEAN]

(* Only the request that holds s.mu writes.                                *)
Exclusive == \A r \in Request : pc[r] = "writing" <=> mu = r

AllEncrypted(ps) ==
  \A i \in DOMAIN ps : \A j \in DOMAIN ps[i].clusters :
    \A n \in DOMAIN ps[i].clusters[j].nodes : isEncrypted(ps[i].clusters[j].nodes[n].pw)

(* What is written with a key is encrypted.                                *)
Sealing ==
  /\ writeKey # NoKey => AllEncrypted(disk.projects)
  /\ \A r \in Request : pc[r] = "writing" /\ key # NoKey => AllEncrypted(pending[r].projects)

(* What a request has read is what is stored, and what it writes is that,  *)
(* updated, unless somebody has replaced the file.                         *)
Prepared ==
  \A r \in Request :
    /\ pc[r] = "read" => op[r] \in SplitOp
    /\ pc[r] = "read" /\ fresh[r] => View(items[r]) = View(disk.projects)
    /\ pc[r] = "writing" => op[r] \in SplitOp \/ fresh[r]
    /\ pc[r] = "writing" /\ fresh[r]
         => View(pending[r].projects) = Apply(op[r], View(disk.projects))

Inv == TypeOK /\ Exclusive /\ Sealing /\ Prepared

(* Encryption changes nothing a reader sees and, with a key, leaves no     *)
(* password in plain text.                                                 *)
LEMMA EncryptSeals ==
  ASSUME NEW ps \in Seq(ProjectRec), NEW k \in Keys
  PROVE  /\ encryptNodePasswords(ps, k) \in Seq(ProjectRec)
         /\ View(encryptNodePasswords(ps, k)) = View(ps)
         /\ k # NoKey => AllEncrypted(encryptNodePasswords(ps, k))
<1> DEFINE g == Encrypt(k)
           es == Mapped(ps, OnProject(g))
<1>1. /\ g \in [Layered -> Layered] /\ Strip \in [Layered -> Layered]
      /\ \A pw \in Layered : Strip[g[pw]] = Strip[pw] /\ (k # NoKey => isEncrypted(g[pw]))
  BY LayerFunctions
<1>2. encryptNodePasswords(ps, k) = es
  BY MapsAre
<1> HIDE DEF g
<1>3. es \in Seq(ProjectRec)
  BY <1>1, Carried, MappedSeq
<1>4. View(es) = View(ps)
  <2>1. View(es) = Mapped(es, OnProject(Strip)) /\ View(ps) = Mapped(ps, OnProject(Strip))
    BY <1>3, ViewIs DEF ViewP
  <2> QED BY <2>1, <1>1, CarriedTwice
<1>5. ASSUME k # NoKey, NEW i \in DOMAIN es, NEW j \in DOMAIN es[i].clusters,
             NEW n \in DOMAIN es[i].clusters[j].nodes
      PROVE  isEncrypted(es[i].clusters[j].nodes[n].pw)
  <2>1. i \in DOMAIN ps /\ ps[i] \in ProjectRec /\ es[i] = OnProject(g)[ps[i]]
    BY LenProperties, ElementOfSeq DEF Mapped
  <2> DEFINE cs == ps[i].clusters
  <2>2. cs \in Seq(ClusterRec) /\ es[i].clusters = Mapped(cs, OnCluster(g))
    BY <2>1 DEF OnProject, ProjectRec
  <2> HIDE DEF cs, es
  <2>3. j \in DOMAIN cs /\ cs[j] \in ClusterRec /\ es[i].clusters[j] = OnCluster(g)[cs[j]]
    BY <2>2, LenProperties, ElementOfSeq DEF Mapped
  <2> DEFINE ns == cs[j].nodes
  <2>4. ns \in Seq(NodeRec) /\ es[i].clusters[j].nodes = Mapped(ns, OnNode(g))
    BY <2>3 DEF OnCluster, ClusterRec
  <2> HIDE DEF ns
  <2>5. n \in DOMAIN ns /\ ns[n] \in NodeRec /\ es[i].clusters[j].nodes[n] = OnNode(g)[ns[n]]
    BY <2>4, LenProperties, ElementOfSeq DEF Mapped
  <2>6. ns[n].pw \in Layered /\ OnNode(g)[ns[n]].pw = g[ns[n].pw]
    BY <2>5 DEF NodeRec, OnNode
  <2> QED BY <2>5, <2>6, <1>1, <1>5
<1> HIDE DEF es
<1> QED BY <1>2, <1>3, <1>4, <1>5 DEF AllEncrypted

(* Reading the file decrypts passwords and keeps the rest.                 *)
LEMMA ReadKeeps ==
  ASSUME TypeOK
  PROVE  /\ readEnvelope \in Envelope /\ readEnvelope.hosts = disk.hosts
         /\ View(readEnvelope.projects) = View(disk.projects)
<1> DEFINE ps == disk.projects
           g == Decrypt(key)
           ds == Mapped(ps, OnProject(g))
<1>0. ps \in Seq(ProjectRec) /\ key \in Keys /\ disk \in Envelope
  BY DEF TypeOK, Envelope
<1>1. /\ g \in [Layered -> Layered] /\ Strip \in [Layered -> Layered]
      /\ \A pw \in Layered : Strip[g[pw]] = Strip[pw]
  BY <1>0, LayerFunctions
<1> HIDE DEF ps
<1>2. decryptNodePasswords(ps, key) = ds
  BY <1>0, MapsAre
<1> HIDE DEF g
<1>3. ds \in Seq(ProjectRec)
  BY <1>0, <1>1, Carried, MappedSeq
<1>4. View(ds) = View(ps)
  <2>1. View(ds) = Mapped(ds, OnProject(Strip)) /\ View(ps) = Mapped(ps, OnProject(Strip))
    BY <1>0, <1>3, ViewIs DEF ViewP
  <2> QED BY <2>1, <1>0, <1>1, CarriedTwice
<1> HIDE DEF ds
<1>5. readEnvelope = [disk EXCEPT !.projects = ds]
  BY <1>2 DEF readEnvelope, ps
<1> QED BY <1>0, <1>3, <1>4, <1>5 DEF Envelope, ps

(* The envelope a request prepares is what it was given, encrypted.        *)
LEMMA StartWriteKeeps ==
  ASSUME TypeOK, NEW r \in Request, NEW env \in Envelope, StartWrite(r, env)
  PROVE  /\ pending' \in [Request -> Envelope] /\ torn' \subseteq {"tmp"} /\ mu' = r
         /\ pc' \in [Request -> {"idle", "read", "writing"}] /\ pc' = [pc EXCEPT ![r] = "writing"]
         /\ \A q \in Request : q # r => pending'[q] = pending[q]
         /\ View(pending'[r].projects) = View(env.projects)
         /\ key # NoKey => AllEncrypted(pending'[r].projects)
<1> DEFINE es == encryptNodePasswords(env.projects, key)
<1>1. env.projects \in Seq(ProjectRec) /\ key \in Keys
  BY DEF TypeOK, Envelope
<1>2. /\ es \in Seq(ProjectRec) /\ View(es) = View(env.projects)
      /\ key # NoKey => AllEncrypted(es)
  BY <1>1, EncryptSeals
<1>3. pending' = [pending EXCEPT ![r] = [env EXCEPT !.projects = es]]
  BY DEF StartWrite
<1> HIDE DEF es
<1>4. [env EXCEPT !.projects = es] \in Envelope
  BY <1>2 DEF Envelope
<1>5. pending'[r] = [env EXCEPT !.projects = es] /\ pending'[r].projects = es
  BY <1>3 DEF TypeOK, Envelope
<1>6. pending' \in [Request -> Envelope] /\ \A q \in Request : q # r => pending'[q] = pending[q]
  BY <1>3, <1>4 DEF TypeOK
<1>7. torn' \subseteq {"tmp"} /\ mu' = r /\ pc' = [pc EXCEPT ![r] = "writing"]
      /\ pc' \in [Request -> {"idle", "read", "writing"}]
  BY DEF TypeOK, StartWrite
<1> QED BY <1>2, <1>5, <1>6, <1>7

(* A request takes s.mu and starts to write.                               *)
LEMMA WriteStarts ==
  ASSUME Inv, NEW r \in Request, NEW env \in Envelope, mu = NoRequest, StartWrite(r, env),
         UNCHANGED <<disk, key, writeKey>>,
         op' \in [Request -> AnyOp], items' \in [Request -> Seq(ProjectRec)],
         fresh' \in [Request -> BOOLEAN],
         \A q \in Request \ {r} : op'[q] = op[q] /\ items'[q] = items[q] /\ fresh'[q] = fresh[q],
         op'[r] \in SplitOp \/ fresh'[r],
         fresh'[r] => View(env.projects) = Apply(op'[r], View(disk.projects))
  PROVE  Inv'
<1>0. TypeOK /\ \A q \in Request : pc[q] # "writing"
  BY RequestAssumption DEF Inv, Exclusive
<1>1. /\ pending' \in [Request -> Envelope] /\ torn' \subseteq {"tmp"} /\ mu' = r
      /\ pc' \in [Request -> {"idle", "read", "writing"}] /\ pc' = [pc EXCEPT ![r] = "writing"]
      /\ \A q \in Request : q # r => pending'[q] = pending[q]
      /\ View(pending'[r].projects) = View(env.projects)
      /\ key # NoKey => AllEncrypted(pending'[r].projects)
  BY <1>0, StartWriteKeeps
<1>2. pc'[r] = "writing" /\ \A q \in Request \ {r} : pc'[q] = pc[q]
  BY <1>0, <1>1 DEF TypeOK
<1>3. TypeOK'
  BY <1>0, <1>1 DEF TypeOK
<1>4. Exclusive'
  BY <1>0, <1>1, <1>2 DEF Exclusive
<1>5. Sealing'
  <2>1. (writeKey # NoKey => AllEncrypted(disk.projects))'
    BY DEF Inv, Sealing, AllEncrypted, isEncrypted
  <2>2. ASSUME NEW q \in Request, pc'[q] = "writing", key' # NoKey
        PROVE  AllEncrypted(pending'[q].projects)
    BY <1>0, <1>1, <1>2, <2>2
  <2>3. (\A q \in Request : pc[q] = "writing" /\ key # NoKey => AllEncrypted(pending[q].projects))'
    BY <2>2 DEF AllEncrypted, isEncrypted
  <2> QED BY <2>1, <2>3 DEF Sealing
<1>6. Prepared'
  <2> SUFFICES ASSUME NEW q \in Request
               PROVE  /\ pc'[q] = "read" => op'[q] \in SplitOp
                      /\ pc'[q] = "read" /\ fresh'[q] => View(items'[q]) = View(disk.projects)
                      /\ pc'[q] = "writing" => op'[q] \in SplitOp \/ fresh'[q]
                      /\ pc'[q] = "writing" /\ fresh'[q]
                           => View(pending'[q].projects) = Apply(op'[q], View(disk.projects))
    BY DEF Prepared
  <2>1. CASE q = r
    BY <2>1, <1>1, <1>2
  <2>2. CASE q # r
    BY <2>2, <1>0, <1>2 DEF Inv, Prepared
  <2> QED BY <2>1, <2>2
<1> QED BY <1>3, <1>4, <1>5, <1>6 DEF Inv

(* A request that does not write: the file, and what the others write,     *)
(* stay.                                                                   *)
LEMMA NoWrite ==
  ASSUME Inv, NEW r \in Request, UNCHANGED <<disk, torn, key, pending, writeKey>>,
         mu' \in {mu, NoRequest}, mu' # mu => mu = r,
         pc' \in [Request -> {"idle", "read", "writing"}], pc'[r] # "writing", mu' # r,
         op' \in [Request -> AnyOp], items' \in [Request -> Seq(ProjectRec)],
         fresh' \in [Request -> BOOLEAN],
         \A q \in Request \ {r} : /\ pc'[q] = pc[q] /\ op'[q] = op[q]
                                  /\ items'[q] = items[q] /\ fresh'[q] = fresh[q],
         pc'[r] = "read" => op'[r] \in SplitOp,
         pc'[r] = "read" /\ fresh'[r] => View(items'[r]) = View(disk.projects)
  PROVE  Inv'
<1>1. TypeOK'
  BY DEF Inv, TypeOK
<1>2. Exclusive'
  BY RequestAssumption DEF Inv, Exclusive
<1>3. Sealing'
  <2>1. (writeKey # NoKey => AllEncrypted(disk.projects))'
    BY DEF Inv, Sealing, AllEncrypted, isEncrypted
  <2>2. ASSUME NEW q \in Request, pc'[q] = "writing", key # NoKey
        PROVE  AllEncrypted(pending[q].projects)
    BY <2>2 DEF Inv, Sealing
  <2>3. (\A q \in Request : pc[q] = "writing" /\ key # NoKey => AllEncrypted(pending[q].projects))'
    BY <2>2 DEF AllEncrypted, isEncrypted
  <2> QED BY <2>1, <2>3 DEF Sealing
<1>4. Prepared'
  <2> SUFFICES ASSUME NEW q \in Request
               PROVE  /\ pc'[q] = "read" => op'[q] \in SplitOp
                      /\ pc'[q] = "read" /\ fresh'[q] => View(items'[q]) = View(disk.projects)
                      /\ pc'[q] = "writing" => op'[q] \in SplitOp \/ fresh'[q]
                      /\ pc'[q] = "writing" /\ fresh'[q]
                           => View(pending[q].projects) = Apply(op'[q], View(disk.projects))
    BY DEF Prepared
  <2>1. CASE q = r
    BY <2>1
  <2>2. CASE q # r
    BY <2>2 DEF Inv, Prepared
  <2> QED BY <2>1, <2>2
<1> QED BY <1>1, <1>2, <1>3, <1>4 DEF Inv

(* The operations, and that those on hosts leave projects alone.           *)
LEMMA OpSets ==
  SplitOp \subseteq AnyOp /\ LockedOp \subseteq AnyOp /\ HostOp \subseteq AnyOp
  /\ \A o \in HostOp : \A ps : Apply(o, ps) = ps
<1>1. ASSUME NEW o \in HostOp, NEW ps PROVE Apply(o, ps) = ps
  <2>1. o.kind \in {"appendHost", "updateHost", "deleteHost"}
    BY DEF HostOp, ServeHostList, ServeHostByID
  <2> QED BY <2>1 DEF Apply
<1> QED BY <1>1 DEF AnyOp

(* Every step keeps the invariant.                                         *)
LEMMA InvNext ==
  ASSUME Inv, [Next]_vars
  PROVE  Inv'
<1>0. TypeOK
  BY DEF Inv
<1>r. /\ readEnvelope \in Envelope /\ readEnvelope.hosts = disk.hosts
      /\ View(readEnvelope.projects) = View(disk.projects)
      /\ readEnvelope.projects \in Seq(ProjectRec) /\ disk.hosts \in Seq([id : Host])
  <2>1. readEnvelope \in Envelope /\ View(readEnvelope.projects) = View(disk.projects)
        /\ readEnvelope.hosts = disk.hosts
    BY <1>0, ReadKeeps
  <2>2. disk \in Envelope
    BY <1>0 DEF TypeOK
  <2> QED BY <2>1, <2>2 DEF Envelope
<1>1. ASSUME NEW r \in Request, NEW o \in SplitOp, SplitRead(r, o) PROVE Inv'
  <2>1. /\ op' \in [Request -> AnyOp] /\ items' \in [Request -> Seq(ProjectRec)]
        /\ fresh' \in [Request -> BOOLEAN] /\ pc' \in [Request -> {"idle", "read", "writing"}]
    BY <1>0, <1>r, <1>1, OpSets DEF SplitRead, TypeOK
  <2>2. /\ pc'[r] = "read" /\ op'[r] \in SplitOp /\ View(items'[r]) = View(disk.projects)
        /\ mu = NoRequest /\ mu' = mu /\ UNCHANGED <<disk, torn, key, pending, writeKey>>
    BY <1>0, <1>r, <1>1 DEF SplitRead, TypeOK
  <2>3. \A q \in Request \ {r} : /\ pc'[q] = pc[q] /\ op'[q] = op[q]
                                  /\ items'[q] = items[q] /\ fresh'[q] = fresh[q]
    BY <1>0, <1>1 DEF SplitRead, TypeOK
  <2>4. mu' # r
    BY <2>2, RequestAssumption
  <2> QED BY <2>1, <2>2, <2>3, <2>4, NoWrite
<1>2. ASSUME NEW r \in Request, NEW o \in LockedOp, LockedUpdate(r, o) PROVE Inv'
  <2> DEFINE ps == readEnvelope.projects
             env == [readEnvelope EXCEPT !.projects = Apply(o, ps)]
  <2>1. o \in AnyOp /\ Applies(o, ps) /\ mu = NoRequest /\ StartWrite(r, env)
        /\ UNCHANGED <<disk, key, writeKey>>
    BY <1>2, OpSets DEF LockedUpdate
  <2>2. Apply(o, ps) \in Seq(ProjectRec) /\ View(Apply(o, ps)) = Apply(o, View(disk.projects))
    <3>1. View(Apply(o, ps)) = Apply(o, View(ps)) /\ Apply(o, ps) \in Seq(ProjectRec)
      BY <1>r, <2>1, ApplyView
    <3> QED BY <3>1, <1>r
  <2>3. env \in Envelope /\ View(env.projects) = Apply(o, View(disk.projects))
    BY <1>r, <2>2 DEF Envelope
  <2>4. /\ op' \in [Request -> AnyOp] /\ items' \in [Request -> Seq(ProjectRec)]
        /\ fresh' \in [Request -> BOOLEAN] /\ fresh'[r] /\ op'[r] = o
    BY <1>0, <1>r, <1>2, <2>1 DEF LockedUpdate, TypeOK
  <2>5. \A q \in Request \ {r} : op'[q] = op[q] /\ items'[q] = items[q] /\ fresh'[q] = fresh[q]
    BY <1>0, <1>2 DEF LockedUpdate, TypeOK
  <2> HIDE DEF env
  <2> QED BY <2>1, <2>3, <2>4, <2>5, WriteStarts
<1>3. ASSUME NEW r \in Request, NEW o \in HostOp, HostUpdate(r, o) PROVE Inv'
  <2> DEFINE env == [readEnvelope EXCEPT !.hosts = HostApply(o, readEnvelope.hosts)]
  <2>1. o \in AnyOp /\ HostApplies(o, disk.hosts) /\ mu = NoRequest /\ StartWrite(r, env)
        /\ UNCHANGED <<disk, key, writeKey>>
    BY <1>3, OpSets DEF HostUpdate
  <2>2. HostApply(o, readEnvelope.hosts) \in Seq([id : Host])
    BY <1>r, <2>1, HostApplySeq
  <2>3. env \in Envelope /\ View(env.projects) = Apply(o, View(disk.projects))
    <3>1. env \in Envelope /\ env.projects = readEnvelope.projects
      BY <1>r, <2>2 DEF Envelope
    <3>2. Apply(o, View(disk.projects)) = View(disk.projects)
      BY OpSets
    <3> QED BY <3>1, <3>2, <1>r
  <2>4. /\ op' \in [Request -> AnyOp] /\ items' \in [Request -> Seq(ProjectRec)]
        /\ fresh' \in [Request -> BOOLEAN] /\ fresh'[r] /\ op'[r] = o
    BY <1>0, <1>r, <1>3, <2>1 DEF HostUpdate, TypeOK
  <2>5. \A q \in Request \ {r} : op'[q] = op[q] /\ items'[q] = items[q] /\ fresh'[q] = fresh[q]
    BY <1>0, <1>3 DEF HostUpdate, TypeOK
  <2> HIDE DEF env
  <2> QED BY <2>1, <2>3, <2>4, <2>5, WriteStarts
<1>4. ASSUME NEW r \in Request, SplitWrite(r) PROVE Inv'
  <2> DEFINE env == [projects |-> Apply(op[r], items[r]), hosts |-> <<>>]
  <2>1. /\ Applies(op[r], items[r]) /\ mu = NoRequest /\ StartWrite(r, env) /\ pc[r] = "read"
        /\ UNCHANGED <<disk, key, op, items, fresh, writeKey>>
    BY <1>4 DEF SplitWrite
  <2>2. op[r] \in AnyOp /\ items[r] \in Seq(ProjectRec)
    BY <1>0 DEF TypeOK
  <2>3. /\ Apply(op[r], items[r]) \in Seq(ProjectRec)
        /\ View(Apply(op[r], items[r])) = Apply(op[r], View(items[r]))
    BY <2>1, <2>2, ApplyView
  <2>4. env \in Envelope
    <3>1. <<>> \in Seq([id : Host])
      BY EmptySeq
    <3> QED BY <3>1, <2>3 DEF Envelope
  <2>5. op[r] \in SplitOp /\ (fresh[r] => View(items[r]) = View(disk.projects))
    BY <2>1 DEF Inv, Prepared
  <2>6. fresh[r] => View(env.projects) = Apply(op[r], View(disk.projects))
    BY <2>3, <2>5
  <2> HIDE DEF env
  <2> QED BY <2>1, <2>4, <2>5, <2>6, <1>0, WriteStarts DEF TypeOK
<1>5. ASSUME NEW r \in Request, SplitError(r) PROVE Inv'
  <2>1. /\ pc' \in [Request -> {"idle", "read", "writing"}] /\ pc'[r] = "idle"
        /\ \A q \in Request \ {r} : pc'[q] = pc[q]
    BY <1>0, <1>5 DEF SplitError, TypeOK
  <2>2. mu # r
    BY <1>5 DEF SplitError, Inv, Exclusive
  <2> QED BY <1>0, <1>5, <2>1, <2>2, NoWrite DEF SplitError, TypeOK
<1>6. ASSUME NEW r \in Request, WriteError(r) PROVE Inv'
  <2>1. /\ pc' \in [Request -> {"idle", "read", "writing"}] /\ pc'[r] = "idle"
        /\ \A q \in Request \ {r} : pc'[q] = pc[q]
    BY <1>0, <1>6 DEF WriteError, TypeOK
  <2>2. mu = r /\ mu' = NoRequest /\ mu' # r
    BY <1>6, RequestAssumption DEF WriteError, Inv, Exclusive
  <2> QED BY <1>0, <1>6, <2>1, <2>2, NoWrite DEF WriteError, TypeOK
<1>7. ASSUME NEW r \in Request, Rename(r) PROVE Inv'
  <2>1. TypeOK'
    BY <1>0, <1>7 DEF Rename, TypeOK
  <2>2. \A q \in Request : pc'[q] # "writing" /\ ~fresh'[q] /\ (pc'[q] = "read" => pc[q] = "read")
    BY <1>0, <1>7 DEF Rename, TypeOK, Inv, Exclusive
  <2>3. Exclusive'
    BY <1>7, <2>2, RequestAssumption DEF Rename, Exclusive
  <2>4. Sealing'
    <3>1. key # NoKey => AllEncrypted(pending[r].projects)
      BY <1>7 DEF Inv, Sealing, Rename
    <3>2. disk' = pending[r] /\ writeKey' = key
      BY <1>7 DEF Rename
    <3>3. (writeKey # NoKey => AllEncrypted(disk.projects))'
      BY <3>1, <3>2 DEF AllEncrypted, isEncrypted
    <3> QED BY <3>3, <2>2 DEF Sealing
  <2>5. Prepared'
    BY <1>7, <2>2 DEF Rename, Inv, Prepared
  <2> QED BY <2>1, <2>3, <2>4, <2>5 DEF Inv
<1>8. ASSUME NEW k \in Keys, Restart(k) PROVE Inv'
  <2>1. TypeOK' /\ \A q \in Request : pc'[q] = "idle"
    BY <1>0, <1>8 DEF Restart, TypeOK
  <2>2. Exclusive' /\ Prepared'
    BY <1>8, <2>1, RequestAssumption DEF Restart, Exclusive, Prepared
  <2>3. Sealing'
    BY <1>8, <2>1 DEF Restart, Sealing, Inv, AllEncrypted, isEncrypted
  <2> QED BY <2>1, <2>2, <2>3 DEF Inv
<1>9. CASE UNCHANGED vars
  <2>1. TypeOK' /\ Exclusive'
    BY <1>9 DEF vars, Inv, TypeOK, Exclusive
  <2>2. Sealing'
    BY <1>9 DEF vars, Inv, Sealing, AllEncrypted, isEncrypted
  <2>3. Prepared'
    BY <1>9 DEF vars, Inv, Prepared
  <2> QED BY <2>1, <2>2, <2>3 DEF Inv
<1> QED BY <1>1, <1>2, <1>3, <1>4, <1>5, <1>6, <1>7, <1>8, <1>9 DEF Next, Keys

(* The invariant holds at the start.                                       *)
LEMMA InvInit == Init => Inv
<1> SUFFICES ASSUME Init PROVE Inv
  OBVIOUS
<1>1. Empty \in Envelope /\ \A i : i \notin DOMAIN Empty.projects
  <2>1. <<>> \in Seq(ProjectRec) /\ <<>> \in Seq([id : Host])
    BY EmptySeq
  <2>2. Len(<<>>) = 0 /\ DOMAIN <<>> = 1..0
    BY EmptySeq, LenProperties
  <2> QED BY <2>1, <2>2 DEF Empty, Envelope
<1>2. [kind |-> "putAll"] \in AnyOp
  BY DEF AnyOp, SplitOp, ServeWorkspaceProjects
<1>3. <<>> \in Seq(ProjectRec)
  BY EmptySeq
<1>4. TypeOK
  BY <1>1, <1>2, <1>3 DEF Init, TypeOK, Keys
<1>5. Exclusive /\ Prepared
  BY RequestAssumption DEF Init, Exclusive, Prepared
<1>6. Sealing
  BY <1>1 DEF Init, Sealing, AllEncrypted
<1> QED BY <1>4, <1>5, <1>6 DEF Inv

(* The invariant holds in every reachable state.                           *)
LEMMA InvHolds == Spec => []Inv
  BY InvInit, InvNext, PTL DEF Spec

(* Requests exclude each other while they write, and the file itself is    *)
(* never torn: only the temporary one is written (writeEnvelopeLocked).    *)
THEOREM WorkspaceFileWhole == Spec => []FileWhole
<1>1. Inv => FileWhole
  BY DEF Inv, TypeOK, Exclusive, FileWhole
<1> QED BY <1>1, InvHolds, PTL

(* No stored password has more than one layer of encryption, whatever keys *)
(* the process was restarted with, and none is in plain text after a write *)
(* by a process that has a key (encryptPassword, decryptPassword).         *)
THEOREM WorkspacePasswordsSealed == Spec => []PasswordsSealed
<1>1. ASSUME Inv PROVE PasswordsSealed
  <2>1. ASSUME NEW x \in Nodes
        PROVE  Len(x.pw.keys) =< 1 /\ (writeKey # NoKey => isEncrypted(x.pw))
    <3> DEFINE ps == disk.projects
    <3>0. ps \in Seq(ProjectRec)
      BY <1>1 DEF Inv, TypeOK, Envelope
    <3>1. PICK i \in DOMAIN ps : \E c \in ToSet(ps[i].clusters) : x \in ToSet(c.nodes)
      BY <2>1 DEF Nodes, ClustersOf, ToSet
    <3>2. PICK j \in DOMAIN ps[i].clusters : x \in ToSet(ps[i].clusters[j].nodes)
      BY <3>1 DEF ToSet
    <3>3. PICK n \in DOMAIN ps[i].clusters[j].nodes : x = ps[i].clusters[j].nodes[n]
      BY <3>2 DEF ToSet
    <3>4. ps[i].clusters \in Seq(ClusterRec)
      <4>1. ps[i] \in ProjectRec
        BY <3>0, LenProperties, ElementOfSeq
      <4> QED BY <4>1 DEF ProjectRec
    <3>5. ps[i].clusters[j].nodes \in Seq(NodeRec)
      <4>1. ps[i].clusters[j] \in ClusterRec
        BY <3>4, LenProperties, ElementOfSeq
      <4> QED BY <4>1 DEF ClusterRec
    <3>6. x \in NodeRec
      BY <3>3, <3>5, LenProperties, ElementOfSeq
    <3>7. Len(x.pw.keys) =< 1
      BY <3>6 DEF NodeRec, Layered
    <3>8. writeKey # NoKey => isEncrypted(x.pw)
      BY <1>1, <3>3 DEF Inv, Sealing, AllEncrypted
    <3> QED BY <3>7, <3>8
  <2> QED BY <2>1 DEF PasswordsSealed
<1> QED BY <1>1, InvHolds, PTL

(* An acknowledged update has exactly its own effect on what a reader sees *)
(* of the projects on disk, for the locked operations always, and for the  *)
(* split ones when nobody replaced the file in between.                    *)
THEOREM WorkspaceCommitsExactly == Spec => CommitsExactly
<1>1. ASSUME Inv, NEW r \in Request, Rename(r),
             fresh[r] \/ op[r].kind \notin {o.kind : o \in SplitOp}
      PROVE  View(disk.projects)' = Apply(op[r], View(disk.projects))
  <2>1. pc[r] = "writing" /\ disk' = pending[r]
    BY <1>1 DEF Rename
  <2>2. fresh[r]
    <3>1. op[r] \in SplitOp => op[r].kind \in {o.kind : o \in SplitOp}
      OBVIOUS
    <3>2. op[r] \in SplitOp \/ fresh[r]
      BY <1>1, <2>1 DEF Inv, Prepared
    <3> QED BY <1>1, <3>1, <3>2
  <2>3. View(pending[r].projects) = Apply(op[r], View(disk.projects))
    BY <1>1, <2>1, <2>2 DEF Inv, Prepared
  <2>4. View(disk.projects)' = View(disk'.projects)
    BY DEF View, MapPasswords, Plain
  <2> QED BY <2>1, <2>3, <2>4
<1>2. Inv /\ [Next]_vars =>
        [\A r \in Request :
           (Rename(r) /\ (fresh[r] \/ op[r].kind \notin {o.kind : o \in SplitOp}))
             => View(disk.projects)' = Apply(op[r], View(disk.projects))]_vars
  BY <1>1
<1> QED BY <1>2, InvHolds, PTL DEF Spec, CommitsExactly
-----------------------------------------------------------------------------
(***************************************************************************)
(* The store is atomic (AtomicStore).  What is written, for a reader who   *)
(* knows the keys, is the operation applied to what the abstract store     *)
(* applies it to: a split one to the projects its request has read, a      *)
(* locked one to those on disk, the hosts kept, and one on hosts to the    *)
(* hosts on disk, the projects kept.                                       *)
(***************************************************************************)
MadeSplit(r) ==
  /\ op[r] \in SplitOp /\ Applies(op[r], View(items[r]))
  /\ View(pending[r].projects) = Apply(op[r], View(items[r]))
  /\ pending[r].hosts = <<>>
MadeLocked(r) ==
  /\ op[r] \in LockedOp /\ Applies(op[r], View(disk.projects))
  /\ View(pending[r].projects) = Apply(op[r], View(disk.projects))
  /\ pending[r].hosts = disk.hosts
MadeHosts(r) ==
  /\ op[r] \in HostOp /\ HostApplies(op[r], disk.hosts)
  /\ pending[r].hosts = HostApply(op[r], disk.hosts)
  /\ View(pending[r].projects) = View(disk.projects)
Made == \A r \in Request : pc[r] = "writing" => MadeSplit(r) \/ MadeLocked(r) \/ MadeHosts(r)

(* A search finds in what a reader sees what it finds in what is stored.   *)
LEMMA FoundInView ==
  ASSUME NEW ps \in Seq(ProjectRec)
  PROVE  /\ \A p : Has(ps, p) => Has(View(ps), p)
         /\ \A p, c : HasCluster(ps, p, c) => HasCluster(View(ps), p, c)
         /\ \A p, c, n : HasNode(ps, p, c, n) => HasNode(View(ps), p, c, n)
         /\ \A n : HasNodeAnywhere(ps, n) => HasNodeAnywhere(View(ps), n)
<1>0. /\ ViewP \in [ProjectRec -> ProjectRec] /\ \A x \in ProjectRec : ViewP[x].id = x.id
      /\ ViewC \in [ClusterRec -> ClusterRec] /\ \A x \in ClusterRec : ViewC[x].id = x.id
      /\ ViewN \in [NodeRec -> NodeRec] /\ \A x \in NodeRec : ViewN[x].id = x.id
      /\ View(ps) = Mapped(ps, ViewP)
  BY Views, ViewIs
<1>1. ASSUME NEW p, Has(ps, p) PROVE Has(View(ps), p)
  BY <1>0, <1>1, MappedSearch
<1>2. ASSUME NEW c \in ClusterRec, NEW n, Has(c.nodes, n) PROVE Has(ViewC[c].nodes, n)
  <2>1. c.nodes \in Seq(NodeRec) /\ ViewC[c].nodes = Mapped(c.nodes, ViewN)
    BY DEF ClusterRec, ViewC, OnCluster, ViewN
  <2> QED BY <2>1, <1>0, <1>2, MappedSearch
<1>3. ASSUME NEW q \in ProjectRec
      PROVE  q.clusters \in Seq(ClusterRec) /\ ViewP[q].clusters = Mapped(q.clusters, ViewC)
  BY DEF ProjectRec, ViewP, OnProject, ViewC
<1>4. ASSUME NEW p, NEW c, HasCluster(ps, p, c) PROVE HasCluster(View(ps), p, c)
  <2> DEFINE q == ps[First(ps, p)]
  <2>1. Has(ps, p) /\ Has(q.clusters, c)
    BY <1>4 DEF HasCluster
  <2>2. q \in ProjectRec
    BY <2>1, ElementFound
  <2>3. First(View(ps), p) = First(ps, p) /\ View(ps)[First(ps, p)] = ViewP[q]
    BY <2>1, <2>2, ProjectReplaced
  <2> HIDE DEF q
  <2>4. Has(ViewP[q].clusters, c)
    <3> DEFINE cs == q.clusters
    <3>1. cs \in Seq(ClusterRec) /\ ViewP[q].clusters = Mapped(cs, ViewC) /\ Has(cs, c)
      BY <2>1, <2>2, <1>3
    <3> HIDE DEF cs
    <3>2. Has(Mapped(cs, ViewC), c)
      BY <3>1, <1>0, MappedSearch
    <3> QED BY <3>1, <3>2
  <2> QED BY <2>1, <2>3, <2>4, <1>1 DEF HasCluster
<1>5. ASSUME NEW p, NEW c, NEW n, HasNode(ps, p, c, n) PROVE HasNode(View(ps), p, c, n)
  <2> DEFINE cl == ClusterAt(ps, p, c)
  <2>1. HasCluster(ps, p, c) /\ Has(cl.nodes, n)
    BY <1>5 DEF HasNode, ClusterAt
  <2>2. cl \in ClusterRec /\ ClusterAt(View(ps), p, c) = ViewC[cl]
    BY <2>1, ClusterAtView
  <2> HIDE DEF cl
  <2>3. Has(ViewC[cl].nodes, n)
    BY <2>1, <2>2, <1>2
  <2> QED BY <2>1, <2>2, <2>3, <1>4 DEF HasNode, ClusterAt
<1>6. ASSUME NEW n, HasNodeAnywhere(ps, n) PROVE HasNodeAnywhere(View(ps), n)
  <2>1. PICK a \in DOMAIN ps : NodeIn(ps[a].clusters, n)
    BY <1>6 DEF HasNodeAnywhere
  <2> DEFINE q == ps[a]
  <2>2. q \in ProjectRec
    BY LenProperties, ElementOfSeq
  <2>3. a \in DOMAIN View(ps) /\ View(ps)[a] = ViewP[q]
    BY <1>0 DEF Mapped
  <2>4. PICK j \in DOMAIN q.clusters : Has(q.clusters[j].nodes, n)
    BY <2>1 DEF NodeIn
  <2> HIDE DEF q
  <2>5. q.clusters[j] \in ClusterRec
    BY <2>2, <1>3, LenProperties, ElementOfSeq
  <2>6. j \in DOMAIN ViewP[q].clusters /\ ViewP[q].clusters[j] = ViewC[q.clusters[j]]
    BY <2>2, <1>3 DEF Mapped
  <2>7. Has(ViewC[q.clusters[j]].nodes, n)
    BY <2>4, <2>5, <1>2
  <2>8. NodeIn(ViewP[q].clusters, n)
    BY <2>6, <2>7 DEF NodeIn
  <2> QED BY <2>3, <2>8 DEF HasNodeAnywhere
<1> QED BY <1>1, <1>4, <1>5, <1>6

(* An operation that finds what it is about finds it in the view.          *)
LEMMA AppliesView ==
  ASSUME NEW ps \in Seq(ProjectRec), NEW o, Applies(o, ps)
  PROVE  Applies(o, View(ps))
<1>1. CASE o.kind \in {"deleteProject", "touch", "appendCluster"}
  BY <1>1, FoundInView DEF Applies
<1>2. CASE o.kind \in {"appendNode", "touchCluster", "deleteCluster"}
  BY <1>2, FoundInView DEF Applies
<1>3. CASE o.kind \in {"updateNode", "deleteNode"}
  BY <1>3, FoundInView DEF Applies
<1>4. CASE o.kind = "status"
  BY <1>4, FoundInView DEF Applies
<1>5. CASE o.kind \notin {"deleteProject", "touch", "appendCluster", "appendNode", "touchCluster",
                          "deleteCluster", "updateNode", "deleteNode", "status"}
  BY <1>5 DEF Applies
<1> QED BY <1>1, <1>2, <1>3, <1>4, <1>5

(* The envelope being written, for a reader who knows the keys.            *)
LEMMA Written ==
  ASSUME TypeOK, NEW r \in Request, NEW env \in Envelope, StartWrite(r, env)
  PROVE  /\ View(pending'[r].projects) = View(env.projects)
         /\ pending'[r].hosts = env.hosts /\ pc'[r] = "writing"
<1>1. View(pending'[r].projects) = View(env.projects)
  BY StartWriteKeeps
<1>2. PICK es : pending' = [pending EXCEPT ![r] = [env EXCEPT !.projects = es]]
  BY DEF StartWrite
<1>3. pending'[r] = [env EXCEPT !.projects = es]
  BY <1>2 DEF TypeOK
<1>4. pending'[r].hosts = env.hosts
  BY <1>3 DEF Envelope
<1>5. pc'[r] = "writing"
  BY DEF StartWrite, TypeOK
<1> QED BY <1>1, <1>4, <1>5

(* Every step keeps this part of the invariant.                            *)
LEMMA MadeNext ==
  ASSUME Inv, Made, [Next]_vars
  PROVE  Made'
<1> DEFINE Split(o, is, pe)  == /\ o \in SplitOp /\ Applies(o, View(is))
                                /\ View(pe.projects) = Apply(o, View(is)) /\ pe.hosts = <<>>
           Locked(o, pe, d) == /\ o \in LockedOp /\ Applies(o, View(d.projects))
                               /\ View(pe.projects) = Apply(o, View(d.projects))
                               /\ pe.hosts = d.hosts
           OnHosts(o, pe, d) == /\ o \in HostOp /\ HostApplies(o, d.hosts)
                                /\ pe.hosts = HostApply(o, d.hosts)
                                /\ View(pe.projects) = View(d.projects)
           M(o, is, pe, d) == Split(o, is, pe) \/ Locked(o, pe, d) \/ OnHosts(o, pe, d)
<1>0. TypeOK /\ Exclusive
  BY DEF Inv
<1>r. /\ readEnvelope \in Envelope /\ readEnvelope.hosts = disk.hosts
      /\ View(readEnvelope.projects) = View(disk.projects)
      /\ readEnvelope.projects \in Seq(ProjectRec) /\ disk.hosts \in Seq([id : Host])
  <2>1. readEnvelope \in Envelope /\ View(readEnvelope.projects) = View(disk.projects)
        /\ readEnvelope.hosts = disk.hosts
    BY <1>0, ReadKeeps
  <2>2. disk \in Envelope
    BY <1>0 DEF TypeOK
  <2> QED BY <2>1, <2>2 DEF Envelope
<1>m. \A q \in Request : pc[q] = "writing" => M(op[q], items[q], pending[q], disk)
  BY DEF Made, MadeSplit, MadeLocked, MadeHosts
<1>s. SUFFICES \A q \in Request :
                 pc'[q] = "writing" => M(op'[q], items'[q], pending'[q], disk')
  BY DEF Made, MadeSplit, MadeLocked, MadeHosts, View, MapPasswords, Plain
<1> HIDE DEF M
(* A request that goes on writing while nobody replaces the file.          *)
<1>k. ASSUME NEW r \in Request, UNCHANGED disk,
             \A q \in Request \ {r} : /\ pc'[q] = pc[q] /\ op'[q] = op[q] /\ items'[q] = items[q]
                                      /\ pending'[q] = pending[q],
             pc'[r] = "writing" => M(op'[r], items'[r], pending'[r], disk)
      PROVE  \A q \in Request : pc'[q] = "writing" => M(op'[q], items'[q], pending'[q], disk')
  BY <1>k, <1>m
<1>1. ASSUME NEW r \in Request, NEW o \in SplitOp, SplitRead(r, o)
      PROVE  \A q \in Request : pc'[q] = "writing" => M(op'[q], items'[q], pending'[q], disk')
  BY <1>0, <1>1, <1>k DEF SplitRead, TypeOK
<1>2. ASSUME NEW r \in Request, NEW o \in LockedOp, LockedUpdate(r, o)
      PROVE  \A q \in Request : pc'[q] = "writing" => M(op'[q], items'[q], pending'[q], disk')
  <2> DEFINE ps == readEnvelope.projects
             env == [readEnvelope EXCEPT !.projects = Apply(o, ps)]
  <2>1. o \in AnyOp /\ Applies(o, ps) /\ StartWrite(r, env) /\ UNCHANGED disk
    BY <1>2, OpSets DEF LockedUpdate
  <2>2. /\ Apply(o, ps) \in Seq(ProjectRec) /\ View(Apply(o, ps)) = Apply(o, View(ps))
        /\ Applies(o, View(ps))
    <3> HIDE DEF ps
    <3>1. ps \in Seq(ProjectRec)
      BY <1>r DEF ps
    <3> QED BY <3>1, <2>1, ApplyView, AppliesView
  <2>3. View(ps) = View(disk.projects)
    BY <1>r
  <2>4. env \in Envelope /\ env.projects = Apply(o, ps) /\ env.hosts = disk.hosts
    BY <1>r, <2>2 DEF Envelope
  <2> HIDE DEF env, ps
  <2>5. View(pending'[r].projects) = View(env.projects) /\ pending'[r].hosts = env.hosts
    BY <1>0, <2>1, <2>4, Written
  <2>6. op'[r] = o
    BY <1>0, <1>2 DEF LockedUpdate, TypeOK
  <2>7. Locked(op'[r], pending'[r], disk)
    BY <2>2, <2>3, <2>4, <2>5, <2>6
  <2>8. \A q \in Request \ {r} : /\ pc'[q] = pc[q] /\ op'[q] = op[q] /\ items'[q] = items[q]
                                 /\ pending'[q] = pending[q]
    BY <1>0, <1>2 DEF LockedUpdate, StartWrite, TypeOK
  <2> QED BY <2>1, <2>7, <2>8, <1>k DEF M
<1>3. ASSUME NEW r \in Request, NEW o \in HostOp, HostUpdate(r, o)
      PROVE  \A q \in Request : pc'[q] = "writing" => M(op'[q], items'[q], pending'[q], disk')
  <2> DEFINE env == [readEnvelope EXCEPT !.hosts = HostApply(o, readEnvelope.hosts)]
  <2>1. o \in AnyOp /\ HostApplies(o, disk.hosts) /\ StartWrite(r, env) /\ UNCHANGED disk
    BY <1>3, OpSets DEF HostUpdate
  <2>2. HostApply(o, disk.hosts) \in Seq([id : Host])
    BY <1>r, <2>1, HostApplySeq
  <2>4. /\ env \in Envelope /\ env.projects = readEnvelope.projects
        /\ env.hosts = HostApply(o, disk.hosts)
    BY <1>r, <2>2 DEF Envelope
  <2> HIDE DEF env
  <2>5. View(pending'[r].projects) = View(env.projects) /\ pending'[r].hosts = env.hosts
    BY <1>0, <2>1, <2>4, Written
  <2>6. op'[r] = o
    BY <1>0, <1>3 DEF HostUpdate, TypeOK
  <2>7. OnHosts(op'[r], pending'[r], disk)
    BY <1>r, <2>1, <2>4, <2>5, <2>6
  <2>8. \A q \in Request \ {r} : /\ pc'[q] = pc[q] /\ op'[q] = op[q] /\ items'[q] = items[q]
                                 /\ pending'[q] = pending[q]
    BY <1>0, <1>3 DEF HostUpdate, StartWrite, TypeOK
  <2> QED BY <2>1, <2>7, <2>8, <1>k DEF M
<1>4. ASSUME NEW r \in Request, SplitWrite(r)
      PROVE  \A q \in Request : pc'[q] = "writing" => M(op'[q], items'[q], pending'[q], disk')
  <2> DEFINE o == op[r]
             ps == items[r]
             env == [projects |-> Apply(o, ps), hosts |-> <<>>]
  <2>1. /\ Applies(o, ps) /\ StartWrite(r, env) /\ pc[r] = "read"
        /\ UNCHANGED <<disk, op, items>>
    BY <1>4 DEF SplitWrite
  <2>2. o \in AnyOp /\ o \in SplitOp /\ ps \in Seq(ProjectRec)
    BY <1>0, <2>1 DEF TypeOK, Inv, Prepared
  <2>3. op'[r] = o /\ items'[r] = ps
    BY <2>1
  <2>4. \A q \in Request \ {r} : /\ pc'[q] = pc[q] /\ op'[q] = op[q] /\ items'[q] = items[q]
                                 /\ pending'[q] = pending[q]
    BY <1>0, <1>4 DEF SplitWrite, StartWrite, TypeOK
  <2> HIDE DEF o, ps
  <2>5. /\ Apply(o, ps) \in Seq(ProjectRec) /\ View(Apply(o, ps)) = Apply(o, View(ps))
        /\ Applies(o, View(ps))
    BY <2>1, <2>2, ApplyView, AppliesView
  <2>6. env \in Envelope /\ env.projects = Apply(o, ps) /\ env.hosts = <<>>
    <3>1. <<>> \in Seq([id : Host])
      BY EmptySeq
    <3> QED BY <3>1, <2>5 DEF Envelope
  <2> HIDE DEF env
  <2>7. View(pending'[r].projects) = View(env.projects) /\ pending'[r].hosts = env.hosts
    BY <1>0, <2>1, <2>6, Written
  <2>8. Split(op'[r], items'[r], pending'[r])
    BY <2>2, <2>3, <2>5, <2>6, <2>7
  <2> QED BY <2>1, <2>4, <2>8, <1>k DEF M
<1>5. ASSUME NEW r \in Request, SplitError(r) \/ WriteError(r)
      PROVE  \A q \in Request : pc'[q] = "writing" => M(op'[q], items'[q], pending'[q], disk')
  BY <1>0, <1>5, <1>k DEF SplitError, WriteError, TypeOK
<1>6. ASSUME NEW r \in Request, Rename(r)
      PROVE  \A q \in Request : pc'[q] = "writing" => M(op'[q], items'[q], pending'[q], disk')
  <2>1. \A q \in Request : pc'[q] # "writing"
    BY <1>0, <1>6 DEF Rename, TypeOK, Exclusive
  <2> QED BY <2>1
<1>7. ASSUME NEW k \in Keys, Restart(k)
      PROVE  \A q \in Request : pc'[q] = "writing" => M(op'[q], items'[q], pending'[q], disk')
  BY <1>7 DEF Restart
<1>8. CASE UNCHANGED vars
  BY <1>8, <1>m DEF vars
<1> QED BY <1>1, <1>2, <1>3, <1>4, <1>5, <1>6, <1>7, <1>8 DEF Next, Keys

(* What the abstract store sees changes only with what it is mapped from.  *)
LEMMA StoreVars ==
  /\ View(disk.projects)' = View(disk'.projects)
  /\ [r \in Request |-> View(items[r])]' = [r \in Request |-> View(items'[r])]
  BY DEF View, MapPasswords, Plain

(* Every step of the store is one of the abstract store, or changes        *)
(* nothing it shows.                                                       *)
LEMMA StoreStep ==
  ASSUME Inv, Made, [Next]_vars
  PROVE  [Store!Next]_(Store!vars)
<1> DEFINE projects == View(disk.projects)
           seen == [r \in Request |-> View(items[r])]
           waiting == {r \in Request : pc[r] # "idle"}
<1>0. TypeOK /\ Exclusive
  BY DEF Inv
<1>v. projects' = View(disk'.projects) /\ seen' = [r \in Request |-> View(items'[r])]
  BY StoreVars
<1>r. View(readEnvelope.projects) = projects
  BY <1>0, ReadKeeps
(* A request that asks.                                                    *)
<1>a. ASSUME NEW r \in Request, NEW o \in LockedOp \cup SplitOp \cup HostOp, pc[r] = "idle",
             pc'[r] # "idle", \A q \in Request \ {r} : pc'[q] = pc[q],
             op' = [op EXCEPT ![r] = o],
             items' = [items EXCEPT ![r] = readEnvelope.projects], UNCHANGED disk
      PROVE  Store!Next
  <2>1. waiting' = waiting \cup {r} /\ r \notin waiting
    BY <1>a
  <2>2. seen' = [seen EXCEPT ![r] = projects]
    <3>1. \A q \in Request : items'[q] = IF q = r THEN readEnvelope.projects ELSE items[q]
      BY <1>0, <1>a DEF TypeOK
    <3> HIDE DEF projects
    <3>2. \A q \in Request : View(items'[q]) = IF q = r THEN projects ELSE View(items[q])
      BY <3>1, <1>r
    <3> QED BY <3>2, <1>v
  <2>3. projects' = projects /\ disk'.hosts = disk.hosts
    BY <1>v, <1>a
  <2>4. Store!Ask(r, o)
    BY <2>1, <2>2, <2>3, <1>a DEF Store!Ask
  <2> QED BY <2>4 DEF Store!Next
<1>1. ASSUME NEW r \in Request, NEW o \in SplitOp, SplitRead(r, o) PROVE Store!Next
  BY <1>0, <1>1, <1>a DEF SplitRead, TypeOK
<1>2. ASSUME NEW r \in Request, NEW o \in LockedOp, LockedUpdate(r, o) PROVE Store!Next
  BY <1>0, <1>2, <1>a DEF LockedUpdate, StartWrite, TypeOK
<1>3. ASSUME NEW r \in Request, NEW o \in HostOp, HostUpdate(r, o) PROVE Store!Next
  BY <1>0, <1>3, <1>a DEF HostUpdate, StartWrite, TypeOK
(* The writing of the temporary file is not seen.                          *)
<1>4. ASSUME NEW r \in Request, SplitWrite(r) PROVE UNCHANGED Store!vars
  <2>1. waiting' = waiting /\ UNCHANGED <<disk, op, items>>
    BY <1>0, <1>4 DEF SplitWrite, StartWrite, TypeOK
  <2>2. projects' = projects /\ seen' = seen
    BY <2>1, <1>v
  <2> QED BY <2>1, <2>2 DEF Store!vars
<1>5. ASSUME NEW r \in Request, SplitError(r) \/ WriteError(r) PROVE Store!Next
  <2>1. r \in waiting /\ waiting' = waiting \ {r} /\ UNCHANGED <<disk, op, items>>
    BY <1>0, <1>5 DEF SplitError, WriteError, TypeOK
  <2>2. projects' = projects /\ seen' = seen
    BY <2>1, <1>v
  <2>3. Store!GiveUp(r)
    BY <2>1, <2>2 DEF Store!GiveUp
  <2> QED BY <2>3 DEF Store!Next
(* The change is made when the file is renamed.                            *)
<1>6. ASSUME NEW r \in Request, Rename(r) PROVE Store!Next
  <2>1. /\ r \in waiting /\ waiting' = waiting \ {r} /\ UNCHANGED <<op, items>>
        /\ disk' = pending[r] /\ pc[r] = "writing"
    BY <1>0, <1>6 DEF Rename, TypeOK
  <2>2. projects' = View(pending[r].projects) /\ seen' = seen /\ seen[r] = View(items[r])
    BY <2>1, <1>v
  <2>3. MadeSplit(r) \/ MadeLocked(r) \/ MadeHosts(r)
    BY <2>1 DEF Made
  <2>4. CASE MadeSplit(r)
    <3>1. Store!CommitSplit(op[r], seen[r])
      BY <2>1, <2>2, <2>4 DEF MadeSplit, Store!CommitSplit
    <3>2. Store!Commit(r)
      BY <2>1, <2>2, <3>1 DEF Store!Commit
    <3> QED BY <3>2 DEF Store!Next
  <2>5. CASE MadeLocked(r)
    <3>1. Store!CommitLocked(op[r])
      BY <2>1, <2>2, <2>5 DEF MadeLocked, Store!CommitLocked
    <3>2. Store!Commit(r)
      BY <2>1, <2>2, <3>1 DEF Store!Commit
    <3> QED BY <3>2 DEF Store!Next
  <2>6. CASE MadeHosts(r)
    <3>1. Store!CommitHosts(op[r])
      BY <2>1, <2>2, <2>6 DEF MadeHosts, Store!CommitHosts
    <3>2. Store!Commit(r)
      BY <2>1, <2>2, <3>1 DEF Store!Commit
    <3> QED BY <3>2 DEF Store!Next
  <2> QED BY <2>3, <2>4, <2>5, <2>6
<1>7. ASSUME NEW k \in Keys, Restart(k) PROVE Store!Next
  <2>1. waiting' = {} /\ UNCHANGED <<disk, op, items>>
    BY <1>7 DEF Restart
  <2>2. projects' = projects /\ seen' = seen
    BY <2>1, <1>v
  <2>3. Store!Crash
    BY <2>1, <2>2 DEF Store!Crash
  <2> QED BY <2>3 DEF Store!Next
<1>8. CASE UNCHANGED vars
  <2>1. waiting' = waiting /\ UNCHANGED <<disk, op, items>>
    BY <1>8 DEF vars
  <2>2. projects' = projects /\ seen' = seen
    BY <2>1, <1>v
  <2> QED BY <2>1, <2>2 DEF Store!vars
<1> QED BY <1>1, <1>2, <1>3, <1>4, <1>5, <1>6, <1>7, <1>8 DEF Next, Keys

(* A new store is a new abstract store.                                    *)
LEMMA StoreInit == Init => Store!Init /\ Made
<1> SUFFICES ASSUME Init PROVE Store!Init /\ Made
  OBVIOUS
<1>1. View(<<>>) = <<>>
  BY DEF View, MapPasswords
<1>2. disk.projects = <<>> /\ disk.hosts = <<>>
  BY DEF Init, Empty
<1>3. [r \in Request |-> View(items[r])] = [r \in Request |-> <<>>]
  BY <1>1 DEF Init
<1>4. {r \in Request : pc[r] # "idle"} = {}
  BY DEF Init
<1>5. Store!Init
  BY <1>1, <1>2, <1>3, <1>4 DEF Store!Init, Init
<1> QED BY <1>5 DEF Made, Init

(* The workspace store implements the atomic store, for any number of      *)
(* requests, projects, clusters, nodes, hosts and keys, over crashes, key  *)
(* changes and failed writes: readEnvelopeNoLock, writeEnvelopeLocked and  *)
(* the operations built on them take effect once and whole, when the       *)
(* temporary file is renamed, or not at all.                               *)
THEOREM WorkspaceStoreAtomic == Spec => StoreAtomic
<1>1. Init => Inv /\ Made /\ Store!Init
  BY InvInit, StoreInit
<1>2. Inv /\ Made /\ [Next]_vars => (Inv /\ Made)'
  BY InvNext, MadeNext
<1>3. Inv /\ Made /\ [Next]_vars => [Store!Next]_(Store!vars)
  BY StoreStep
<1> QED BY <1>1, <1>2, <1>3, PTL DEF Spec, StoreAtomic, Store!Spec
=============================================================================
