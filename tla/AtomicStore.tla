---------------------------- MODULE AtomicStore ----------------------------
(***************************************************************************)
(* What the workspace store promises the handlers that edit it: one list   *)
(* of projects and one of hosts, as a reader who knows the keys sees them. *)
(* A request asks for an operation and sees the projects as they are at    *)
(* that moment; later its change is made in one step, or it is given up    *)
(* with no effect at all.  There are no keys, files, locks or halves of    *)
(* writes here.                                                            *)
(*                                                                         *)
(* A locked operation is made on what is stored when it commits.  A split  *)
(* one (upsert, deleteByID, appendCluster, appendNode, and the PUT of all  *)
(* projects) is made on what its request saw, whatever has been stored in  *)
(* between, and leaves no hosts: that much, and no more, is promised.      *)
(***************************************************************************)
CONSTANTS Request,                    \* the requests being served
          LockedOp, SplitOp, HostOp,  \* the operations
          StartOp,                    \* what doing holds before any request
          Applies(_, _), Apply(_, _),         \* of an operation to projects
          HostApplies(_, _), HostApply(_, _)  \* of an operation to hosts

VARIABLES
  projects,  \* the projects stored
  hosts,     \* the hosts stored
  seen,      \* seen[r]: the projects as r saw them when it asked
  doing,     \* doing[r]: the operation r asked for last
  waiting    \* the requests that have not been answered

vars == <<projects, hosts, seen, doing, waiting>>

Init ==
  /\ projects = <<>> /\ hosts = <<>>
  /\ seen = [r \in Request |-> <<>>]
  /\ doing = [r \in Request |-> StartOp]
  /\ waiting = {}

Ask(r, o) ==
  /\ r \notin waiting
  /\ waiting' = waiting \cup {r}
  /\ seen' = [seen EXCEPT ![r] = projects]
  /\ doing' = [doing EXCEPT ![r] = o]
  /\ UNCHANGED <<projects, hosts>>

CommitLocked(o) ==
  /\ o \in LockedOp /\ Applies(o, projects)
  /\ projects' = Apply(o, projects)
  /\ UNCHANGED hosts

CommitSplit(o, ps) ==
  /\ o \in SplitOp /\ Applies(o, ps)
  /\ projects' = Apply(o, ps)
  /\ hosts' = <<>>

CommitHosts(o) ==
  /\ o \in HostOp /\ HostApplies(o, hosts)
  /\ hosts' = HostApply(o, hosts)
  /\ UNCHANGED projects

Commit(r) ==
  /\ r \in waiting
  /\ CommitLocked(doing[r]) \/ CommitSplit(doing[r], seen[r]) \/ CommitHosts(doing[r])
  /\ waiting' = waiting \ {r}
  /\ UNCHANGED <<seen, doing>>

GiveUp(r) ==
  /\ r \in waiting
  /\ waiting' = waiting \ {r}
  /\ UNCHANGED <<projects, hosts, seen, doing>>

(* The process dies: what is stored stays, nobody is answered.             *)
Crash ==
  /\ waiting' = {}
  /\ UNCHANGED <<projects, hosts, seen, doing>>

Next ==
  \/ \E r \in Request : \/ \E o \in LockedOp \cup SplitOp \cup HostOp : Ask(r, o)
                        \/ Commit(r) \/ GiveUp(r)
  \/ Crash

Spec == Init /\ [][Next]_vars
=============================================================================
