----------------------------- MODULE Workspace -----------------------------
(***************************************************************************)
(* The workspace store of the backend (internal/api/workspace_store.go)    *)
(* and the handlers that edit it (workspace_crud.go, host_crud.go,         *)
(* handler.go): projects holding clusters holding nodes, and hosts, kept   *)
(* in one JSON file.                                                       *)
(*                                                                         *)
(* Every request runs in a goroutine of its own.  There are two kinds of   *)
(* update.  The ...Locked operations and the host operations read, change  *)
(* and write the file inside one critical section of s.mu.  upsert,        *)
(* deleteByID, appendCluster and appendNode read it in one critical        *)
(* section and write it in another, and write an envelope without hosts;   *)
(* PUT /api/workspace/projects does the same with the snapshot its client  *)
(* loaded earlier.  A write goes to a temporary file that is then renamed; *)
(* the process may be killed at any point and come back with another       *)
(* encryption key, or without one.                                         *)
(*                                                                         *)
(* Names, ports and the other fields no operation looks at are left out;   *)
(* editing them is "touch" or "touchCluster", which rewrites the file all  *)
(* the same.  Passwords are not empty: an empty one is stored as it is.    *)
(***************************************************************************)
EXTENDS Naturals, Sequences, SequencesExt, Lists

CONSTANTS Request,     \* the requests being served
          Project, Cluster, Node, Host,   \* identifiers
          Password,    \* passwords clients supply
          Key, NoKey,  \* encryption keys; NoKey: plain text mode
          MaxUpdates   \* bound: updates started in a behaviour

VARIABLES
  disk,     \* the envelope s.path holds; a missing file reads as Empty
  torn,     \* the files whose writing has started and not completed
  key,      \* s.encKey of the running process
  mu,       \* the request holding s.mu across a write, or NoRequest
  pc,       \* pc[r]: where request r is
  op,       \* op[r]: the operation r performs
  items,    \* items[r]: the projects r has read
  pending,  \* pending[r]: the envelope r is writing
  fresh,    \* fresh[r]: nobody has replaced the file since r read it
  updates,  \* how many updates have been started
  writeKey  \* the key of the process that last replaced the file

vars == <<disk, torn, key, mu, pc, op, items, pending, fresh, updates, writeKey>>

NoRequest == "none"
ASSUME RequestAssumption == NoRequest \notin Request

Empty     == [projects |-> <<>>, hosts |-> <<>>]

-----------------------------------------------------------------------------
(***************************************************************************)
(* Passwords.  keys is the stack of encryption layers put on the text;     *)
(* isEncrypted (the "enc:v1:" prefix) tells whether there is one.          *)
(***************************************************************************)
Plain(text) == [text |-> text, keys |-> <<>>]
isEncrypted(pw) == pw.keys # <<>>

(* Decryption with a key that is not the right one fails; the stored value *)
(* is then left as it is.                                                  *)
decryptPassword(pw, k) ==
  IF isEncrypted(pw) /\ Last(pw.keys) = k THEN [pw EXCEPT !.keys = Front(@)] ELSE pw

(* Slip: the test for values that are encrypted already is missing.        *)
encryptAgain(pw, k) == IF k = NoKey THEN pw ELSE [pw EXCEPT !.keys = Append(@, k)]

encryptPassword(pw, k) ==
  IF k = NoKey \/ isEncrypted(pw) THEN pw ELSE [pw EXCEPT !.keys = Append(@, k)]

(* f applied to the password of every node of every cluster.               *)
MapPasswords(ps, f(_)) ==
  LET node(x)    == [x EXCEPT !.pw = f(@)]
      cluster(x) == [x EXCEPT !.nodes = [i \in DOMAIN @ |-> node(@[i])]]
      project(x) == [x EXCEPT !.clusters = [i \in DOMAIN @ |-> cluster(@[i])]]
  IN  [i \in DOMAIN ps |-> project(ps[i])]

decryptNodePasswords(ps, k) ==
  LET f(pw) == decryptPassword(pw, k) IN MapPasswords(ps, f)
encryptNodePasswords(ps, k) ==
  LET f(pw) == encryptPassword(pw, k) IN MapPasswords(ps, f)

(* readEnvelopeNoLock.                                                     *)
readEnvelope == [disk EXCEPT !.projects = decryptNodePasswords(@, key)]

-----------------------------------------------------------------------------
(***************************************************************************)
(* The updates, as functions on a list of projects.  Nothing keeps ids     *)
(* unique, and every search stops at the first match.                      *)
(***************************************************************************)
(* Replace the first project p, or the first cluster c of it, by f of it.  *)
AtProject(ps, p, f(_)) == ReplaceAt(ps, First(ps, p), f(ps[First(ps, p)]))
AtCluster(ps, p, c, f(_)) ==
  LET inProject(x) ==
        [x EXCEPT !.clusters = ReplaceAt(@, First(@, c), f(@[First(@, c)]))]
  IN  AtProject(ps, p, inProject)
HasCluster(ps, p, c) == Has(ps, p) /\ Has(ps[First(ps, p)].clusters, c)
HasNode(ps, p, c, n) ==
  /\ HasCluster(ps, p, c)
  /\ LET cs == ps[First(ps, p)].clusters IN Has(cs[First(cs, c)].nodes, n)

NewNode(n, text) == [id |-> n, pw |-> Plain(text), status |-> "unknown"]

Upsert(ps, p) ==
  LET new == [id |-> p, clusters |-> <<>>]
  IN  IF Has(ps, p) THEN ReplaceAt(ps, First(ps, p), new) ELSE Append(ps, new)
DeleteProject(ps, p) == Without(ps, p)
AppendCluster(ps, p, c) ==
  LET f(x) == [x EXCEPT !.clusters = Append(@, [id |-> c, nodes |-> <<>>])]
  IN  AtProject(ps, p, f)
DeleteCluster(ps, p, c) ==
  LET f(x) == [x EXCEPT !.clusters = RemoveAt(@, First(@, c))]
  IN  AtProject(ps, p, f)
AppendNode(ps, p, c, n, text) ==
  LET f(x) == [x EXCEPT !.nodes = Append(@, NewNode(n, text))]
  IN  AtCluster(ps, p, c, f)
UpdateNode(ps, p, c, n, text) ==
  LET g(x) == [x EXCEPT !.pw = Plain(text)]
      f(x) == [x EXCEPT !.nodes = ReplaceAt(@, First(@, n), g(@[First(@, n)]))]
  IN  AtCluster(ps, p, c, f)
DeleteNode(ps, p, c, n) ==
  LET f(x) == [x EXCEPT !.nodes = RemoveAt(@, First(@, n))]
  IN  AtCluster(ps, p, c, f)

(* UpdateNodeStatus searches the node in every cluster of every project.   *)
NodeIn(cs, n) == \E j \in DOMAIN cs : Has(cs[j].nodes, n)
HasNodeAnywhere(ps, n) == \E i \in DOMAIN ps : NodeIn(ps[i].clusters, n)
SetStatus(ps, n, s) ==
  LET i == Min({a \in DOMAIN ps : NodeIn(ps[a].clusters, n)})
      j == Min({a \in DOMAIN ps[i].clusters : Has(ps[i].clusters[a].nodes, n)})
      k == First(ps[i].clusters[j].nodes, n)
  IN  [ps EXCEPT ![i].clusters[j].nodes[k].status = s]

-----------------------------------------------------------------------------
(***************************************************************************)
(* Operations: what the handlers ask the store for, once the method, path  *)
(* and body of a request are in order.  An operation on a cluster or node  *)
(* carries the project and cluster its handler looked up before            *)
(* (findClusterByID, ServeNodeByID): the file may have changed since, so   *)
(* any project and cluster may be carried.                                 *)
(***************************************************************************)
ServeProjectList   == [kind : {"upsert"}, p : Project]
ServeProjectByID   == [kind : {"touch", "deleteProject"}, p : Project]
ServeClusterCreate == [kind : {"appendCluster"}, p : Project, c : Cluster]
ServeClusterByID   == [kind : {"touchCluster", "deleteCluster"}, p : Project, c : Cluster]
ServeNodeCreate    == [kind : {"appendNode"}, p : Project, c : Cluster, n : Node, text : Password]
ServeNodeByID ==
  [kind : {"updateNode"}, p : Project, c : Cluster, n : Node, text : Password]
    \cup [kind : {"deleteNode"}, p : Project, c : Cluster, n : Node]
ServeWorkspaceProjects == [kind : {"putAll"}]
ServeWorkspaceProjectByID == [kind : {"upsert", "deleteByID"}, p : Project]
UpdateNodeStatus == [kind : {"status"}, n : Node, s : {"ready", "failed"}]
ServeHostList == [kind : {"appendHost"}, h : Host]
ServeHostByID == [kind : {"updateHost", "deleteHost"}, h : Host]

SplitOp == ServeProjectList \cup ServeClusterCreate \cup ServeNodeCreate
             \cup ServeWorkspaceProjects \cup ServeWorkspaceProjectByID
LockedOp == ServeProjectByID \cup ServeClusterByID \cup ServeNodeByID
              \cup UpdateNodeStatus
HostOp == ServeHostList \cup ServeHostByID

(* The update finds what it is about; otherwise it returns an error and    *)
(* writes nothing.                                                         *)
Applies(o, ps) ==
  CASE o.kind \in {"deleteProject", "touch", "appendCluster"} -> Has(ps, o.p)
    [] o.kind \in {"appendNode", "touchCluster", "deleteCluster"} -> HasCluster(ps, o.p, o.c)
    [] o.kind \in {"updateNode", "deleteNode"} -> HasNode(ps, o.p, o.c, o.n)
    [] o.kind = "status" -> HasNodeAnywhere(ps, o.n)
    [] OTHER -> TRUE

Apply(o, ps) ==
  CASE o.kind = "upsert" -> Upsert(ps, o.p)
    [] o.kind \in {"deleteByID", "deleteProject"} -> DeleteProject(ps, o.p)
    [] o.kind = "appendCluster" -> AppendCluster(ps, o.p, o.c)
    [] o.kind = "deleteCluster" -> DeleteCluster(ps, o.p, o.c)
    [] o.kind = "appendNode" -> AppendNode(ps, o.p, o.c, o.n, o.text)
    [] o.kind = "updateNode" -> UpdateNode(ps, o.p, o.c, o.n, o.text)
    [] o.kind = "deleteNode" -> DeleteNode(ps, o.p, o.c, o.n)
    [] o.kind = "status" -> SetStatus(ps, o.n, o.s)
    [] OTHER -> ps

HostApplies(o, hs) == o.kind \in {"updateHost", "deleteHost"} => Has(hs, o.h)
HostApply(o, hs) ==
  CASE o.kind = "appendHost" -> Append(hs, [id |-> o.h])
    [] o.kind = "deleteHost" -> RemoveAt(hs, First(hs, o.h))
    [] OTHER -> hs

-----------------------------------------------------------------------------
Init ==
  /\ disk = Empty
  /\ torn = {}
  /\ key \in Key \cup {NoKey}
  /\ mu = NoRequest
  /\ pc = [r \in Request |-> "idle"]
  /\ op = [r \in Request |-> [kind |-> "putAll"]]
  /\ items = [r \in Request |-> <<>>]
  /\ pending = [r \in Request |-> Empty]
  /\ fresh = [r \in Request |-> FALSE]
  /\ updates = 0
  /\ writeKey = NoKey

(* Slip: the file itself is written, not a temporary one.                  *)
StartWriteInPlace(r, env) ==
  /\ pending' = [pending EXCEPT ![r] =
                   [env EXCEPT !.projects = encryptNodePasswords(@, key)]]
  /\ mu' = r
  /\ torn' = torn \cup {"path"}
  /\ pc' = [pc EXCEPT ![r] = "writing"]

(* writeEnvelopeLocked, first half: the passwords are encrypted and the    *)
(* temporary file is being written.  s.mu stays held.                      *)
StartWrite(r, env) ==
  /\ pending' = [pending EXCEPT ![r] =
                   [env EXCEPT !.projects = encryptNodePasswords(@, key)]]
  /\ mu' = r
  /\ torn' = torn \cup {"tmp"}
  /\ pc' = [pc EXCEPT ![r] = "writing"]

(* A split operation reads the file and lets go of s.mu.                   *)
SplitRead(r, o) ==
  /\ pc[r] = "idle" /\ mu = NoRequest /\ updates < MaxUpdates
  /\ op' = [op EXCEPT ![r] = o]
  /\ items' = [items EXCEPT ![r] = readEnvelope.projects]
  /\ fresh' = [fresh EXCEPT ![r] = TRUE]
  /\ pc' = [pc EXCEPT ![r] = "read"]
  /\ updates' = updates + 1
  /\ UNCHANGED <<disk, torn, key, mu, pending, writeKey>>

(* ... changes what it read and writes all of it back: writeAll.           *)
SplitWrite(r) ==
  /\ pc[r] = "read" /\ mu = NoRequest
  /\ Applies(op[r], items[r])
  /\ StartWrite(r, [projects |-> Apply(op[r], items[r]), hosts |-> <<>>])
  /\ UNCHANGED <<disk, key, op, items, fresh, updates, writeKey>>

SplitError(r) ==
  /\ pc[r] = "read"
  /\ ~Applies(op[r], items[r])
  /\ pc' = [pc EXCEPT ![r] = "idle"]
  /\ UNCHANGED <<disk, torn, key, mu, op, items, pending, fresh, updates, writeKey>>

(* Slip: the change is made to what the request read before.               *)
LockedUpdateStale(r, o) ==
  /\ pc[r] = "idle" /\ mu = NoRequest /\ updates < MaxUpdates
  /\ Applies(o, items[r])
  /\ StartWrite(r, [readEnvelope EXCEPT !.projects = Apply(o, items[r])])
  /\ op' = [op EXCEPT ![r] = o]
  /\ items' = [items EXCEPT ![r] = readEnvelope.projects]
  /\ fresh' = [fresh EXCEPT ![r] = TRUE]
  /\ updates' = updates + 1
  /\ UNCHANGED <<disk, key, writeKey>>

(* Slip: the envelope is written without the hosts, as writeAll does.      *)
LockedUpdateDropsHosts(r, o) ==
  /\ pc[r] = "idle" /\ mu = NoRequest /\ updates < MaxUpdates
  /\ Applies(o, readEnvelope.projects)
  /\ StartWrite(r, [projects |-> Apply(o, readEnvelope.projects), hosts |-> <<>>])
  /\ op' = [op EXCEPT ![r] = o]
  /\ items' = [items EXCEPT ![r] = readEnvelope.projects]
  /\ fresh' = [fresh EXCEPT ![r] = TRUE]
  /\ updates' = updates + 1
  /\ UNCHANGED <<disk, key, writeKey>>

(* A locked operation reads, changes and starts to write under s.mu.       *)
LockedUpdate(r, o) ==
  /\ pc[r] = "idle" /\ mu = NoRequest /\ updates < MaxUpdates
  /\ Applies(o, readEnvelope.projects)
  /\ StartWrite(r, [readEnvelope EXCEPT !.projects = Apply(o, @)])
  /\ op' = [op EXCEPT ![r] = o]
  /\ items' = [items EXCEPT ![r] = readEnvelope.projects]
  /\ fresh' = [fresh EXCEPT ![r] = TRUE]
  /\ updates' = updates + 1
  /\ UNCHANGED <<disk, key, writeKey>>

HostUpdate(r, o) ==
  /\ pc[r] = "idle" /\ mu = NoRequest /\ updates < MaxUpdates
  /\ HostApplies(o, disk.hosts)
  /\ StartWrite(r, [readEnvelope EXCEPT !.hosts = HostApply(o, @)])
  /\ op' = [op EXCEPT ![r] = o]
  /\ items' = [items EXCEPT ![r] = readEnvelope.projects]
  /\ fresh' = [fresh EXCEPT ![r] = TRUE]
  /\ updates' = updates + 1
  /\ UNCHANGED <<disk, key, writeKey>>

(* The temporary file is complete and is renamed over the old file; s.mu   *)
(* is released and the request is acknowledged.                            *)
Rename(r) ==
  /\ pc[r] = "writing"
  /\ disk' = pending[r]
  /\ torn' = {}
  /\ writeKey' = key
  /\ fresh' = [q \in Request |-> FALSE]
  /\ mu' = NoRequest
  /\ pc' = [pc EXCEPT ![r] = "idle"]
  /\ UNCHANGED <<key, op, items, pending, updates>>

(* The write fails (no space, no permission): the request returns an error *)
(* and leaves the temporary file behind.                                   *)
WriteError(r) ==
  /\ pc[r] = "writing"
  /\ mu' = NoRequest
  /\ pc' = [pc EXCEPT ![r] = "idle"]
  /\ UNCHANGED <<disk, torn, key, op, items, pending, fresh, updates, writeKey>>

(* The process dies and is started again, with any key.                    *)
Restart(k) ==
  /\ key' = k
  /\ mu' = NoRequest
  /\ pc' = [r \in Request |-> "idle"]
  /\ fresh' = [r \in Request |-> FALSE]
  /\ UNCHANGED <<disk, torn, op, items, pending, updates, writeKey>>

Next ==
  \/ \E r \in Request :
       \/ \E o \in SplitOp : SplitRead(r, o)
       \/ \E o \in LockedOp : LockedUpdate(r, o)
       \/ \E o \in HostOp : HostUpdate(r, o)
       \/ SplitWrite(r) \/ SplitError(r) \/ Rename(r) \/ WriteError(r)
  \/ \E k \in Key \cup {NoKey} : Restart(k)

Spec == Init /\ [][Next]_vars

-----------------------------------------------------------------------------
(* What a reader who knows the keys sees: passwords without their layers.  *)
View(ps) == LET strip(pw) == Plain(pw.text) IN MapPasswords(ps, strip)

ClustersOf(ps) == UNION {ToSet(p.clusters) : p \in ToSet(ps)}
Nodes == UNION {ToSet(c.nodes) : c \in ClustersOf(disk.projects)}

(* The requests exclude each other while they write, and whatever crashes  *)
(* and write errors happened, between writes s.path holds an envelope that *)
(* some request wrote completely.                                          *)
FileWhole ==
  /\ mu = NoRequest => "path" \notin torn
  /\ \A r \in Request : pc[r] = "writing" <=> mu = r

(***************************************************************************)
(* No password is ever encrypted twice, over any sequence of restarts with *)
(* other keys and updates by requests that read under one key and write    *)
(* under the same: with its key every stored password can be read.  And    *)
(* after a write by a process that has a key none is left in plain text,   *)
(* the ones stored before the key was configured included.                 *)
(***************************************************************************)
PasswordsSealed ==
  /\ \A n \in Nodes : Len(n.pw.keys) =< 1
  /\ writeKey # NoKey => \A n \in Nodes : isEncrypted(n.pw)

(***************************************************************************)
(* An acknowledged update has exactly its own effect on the projects that  *)
(* are on disk, for a reader who knows the keys: nothing a concurrent      *)
(* request wrote is undone and no password changes.  For the locked        *)
(* operations this holds always; for the split ones when nobody replaced   *)
(* the file between their read and their write.                            *)
(***************************************************************************)
CommitsExactly ==
  [][\A r \in Request :
       (Rename(r) /\ (fresh[r] \/ op[r].kind \notin {o.kind : o \in SplitOp}))
         => View(disk.projects)' = Apply(op[r], View(disk.projects))]_vars

(***************************************************************************)
(* The store is atomic for a reader who knows the keys: whatever keys the  *)
(* process is restarted with, and wherever it is killed or a write fails,  *)
(* every step is one of AtomicStore.  A request takes effect once, all of  *)
(* it, when the file is renamed: a locked operation on the projects stored *)
(* by then, the hosts kept; a host operation on the hosts stored by then,  *)
(* the projects kept; a split one on the projects its request had read.    *)
(***************************************************************************)
Store == INSTANCE AtomicStore WITH
           StartOp  <- [kind |-> "putAll"],
           projects <- View(disk.projects),
           hosts    <- disk.hosts,
           seen     <- [r \in Request |-> View(items[r])],
           doing    <- op,
           waiting  <- {r \in Request : pc[r] # "idle"}
StoreAtomic == Store!Spec

(***************************************************************************)
(* docs/design.md lists Host among what the backend persists: a host, once *)
(* stored, stays until it is deleted.                                      *)
(***************************************************************************)
HostsOf(d) == {h.id : h \in ToSet(d.hosts)}
HostsPersist ==
  [][\A r \in Request :
       Rename(r) => HostsOf(disk) \subseteq HostsOf(disk')
                      \cup (IF op[r].kind = "deleteHost" THEN {op[r].h} ELSE {})]_vars
=============================================================================
