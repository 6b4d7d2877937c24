---------------------------- MODULE SnapshotView ----------------------------
(***************************************************************************)
(* The snapshot of backends and locks that the lock, transaction and       *)
(* memory pages show (the snapshot effect of App.tsx and the two functions *)
(* at its end).                                                            *)
(*                                                                         *)
(* Without a connection the snapshot is empty.  With one it is asked for   *)
(* at once and every 5 s; a request that fails leaves the last snapshot.   *)
(* A lock row has the pid, the object, the mode and whether it is granted; *)
(* a pid need not be among the backends.  A backend has its xid (0 for     *)
(* none) and its state.                                                    *)
(***************************************************************************)
EXTENDS Naturals, Sequences, FiniteSets, SequencesExt, Lists

CONSTANTS MaxSnapFlight,   \* bound: requests under way
          MaxSnapFails     \* bound: requests that fail

VARIABLES
  live,            \* connected
  snapAsks,        \* requests under way, by slot
  snapshot,        \* the data the pages were computed from
  world,           \* what the backend would answer now
  worldChanged,    \* bound: the world changes once
  snapFails,
  loadedOnce       \* a snapshot has been put there

snapVars == <<live, snapAsks, snapshot, world, worldChanged, snapFails, loadedOnce>>

Rows == [pid : {1, 2, 9}, obj : {"t"}, mode : {"S", "X"}, granted : BOOLEAN]
Backends == [k \in {1, 2} |-> IF k = 1 THEN [xid |-> 5, state |-> "active"]
                                       ELSE [xid |-> 0, state |-> "idle in transaction"]]
Empty == [backends |-> {}, locks |-> <<>>, xid |-> 0]
NoSnap == [st |-> "free", ans |-> Empty]

-----------------------------------------------------------------------------
(* The lock graph.  A lock node is known by its key, object and mode, and  *)
(* numbered in the order the keys first appear; a row of a backend that is *)
(* not there gives a node but no edge.                                     *)
KeyOf(r) == <<r.obj, r.mode>>
LockRow(g, r, known) ==
  LET keys == IF KeyOf(r) \in ToSet(g.keys) THEN g.keys ELSE Append(g.keys, KeyOf(r))
      k == CHOOSE j \in 1..Len(keys) : keys[j] = KeyOf(r)
  IN  [keys |-> keys,
       edges |-> IF r.pid \in known
                 THEN Append(g.edges, [source |-> r.pid, target |-> k,
                                       wait |-> ~r.granted, mode |-> r.mode])
                 ELSE g.edges]
NoGraph == [keys |-> <<>>, edges |-> <<>>]
buildLockGraphFromSnapshot(s) ==
  LET after[k \in 0..Len(s.locks)] ==
        IF k = 0 THEN NoGraph ELSE LockRow(after[k - 1], s.locks[k], s.backends)
  IN  after[Len(s.locks)]

(* A backend without an xid of its own gets the current one; one that has  *)
(* none then is left out.                                                  *)
buildTransactionsFromSnapshot(s) ==
  LET xid(p) == IF Backends[p].xid # 0 THEN Backends[p].xid ELSE s.xid
  IN  {[pid |-> p, xid |-> xid(p),
        state |-> IF Backends[p].state = "active" THEN "in_progress" ELSE "idle"] :
         p \in {q \in s.backends : xid(q) > 0}}

-----------------------------------------------------------------------------
SnapInit ==
  /\ live = FALSE /\ snapshot = Empty /\ loadedOnce = FALSE
  /\ snapAsks = [k \in 1..MaxSnapFlight |-> NoSnap]
  /\ \E locks \in UNION {[1..n -> Rows] : n \in 0..2} :
       world = [backends |-> {1, 2}, locks |-> locks, xid |-> 0]
  /\ worldChanged = FALSE /\ snapFails = 0

AskSnap == \E k \in 1..MaxSnapFlight :
  snapAsks[k] = NoSnap /\ snapAsks' = [snapAsks EXCEPT ![k] = [st |-> "sent", ans |-> world]]

(* A node is activated: connected becomes TRUE, the effect runs again.     *)
connectNode ==
  /\ ~live /\ live' = TRUE /\ AskSnap
  /\ UNCHANGED <<snapshot, world, worldChanged, snapFails, loadedOnce>>
snapshotTick ==
  /\ live /\ AskSnap
  /\ UNCHANGED <<live, snapshot, world, worldChanged, snapFails, loadedOnce>>
loadSnapshot(k) ==
  /\ snapAsks[k] # NoSnap /\ snapAsks' = [snapAsks EXCEPT ![k] = NoSnap]
  /\ \/ snapshot' = snapAsks[k].ans /\ loadedOnce' = TRUE /\ UNCHANGED snapFails
     \/ /\ snapFails < MaxSnapFails /\ snapFails' = snapFails + 1
        /\ UNCHANGED <<snapshot, loadedOnce>>
  /\ UNCHANGED <<live, world, worldChanged>>

(* A transaction of the database starts, another ends with its locks.      *)
RowsOf(locks, pids) == Picked(locks, {k \in 1..Len(locks) : locks[k].pid \in pids})
WorldChanges ==
  /\ ~worldChanged /\ worldChanged' = TRUE
  /\ world' = [backends |-> {2}, locks |-> RowsOf(world.locks, {2, 9}), xid |-> 6]
  /\ UNCHANGED <<live, snapAsks, snapshot, snapFails, loadedOnce>>

SnapNext ==
  \/ connectNode \/ snapshotTick \/ WorldChanges
  \/ \E k \in 1..MaxSnapFlight : loadSnapshot(k)
(* Fairness: the interval goes on and requests end, only so many failing.  *)
SnapFair ==
  /\ WF_snapVars(snapshotTick)
  /\ \A k \in 1..MaxSnapFlight : WF_snapVars(loadSnapshot(k))
SnapSpec == SnapInit /\ [][SnapNext]_snapVars /\ SnapFair

-----------------------------------------------------------------------------
(* The graph is the lock table: one node per object and mode, and of every *)
(* backend that is there exactly the edges its rows give, to the nodes of  *)
(* their keys, marked as waiting when not granted.                         *)
LockGraphFaithful ==
  LET g == buildLockGraphFromSnapshot(snapshot)
      rows == RowsOf(snapshot.locks, snapshot.backends)
  IN  /\ IsInjective(g.keys) /\ ToSet(g.keys) = {KeyOf(r) : r \in ToSet(snapshot.locks)}
      /\ Len(g.edges) = Len(rows)
      /\ \A k \in 1..Len(rows) :
           /\ g.edges[k].source = rows[k].pid
           /\ g.keys[g.edges[k].target] = KeyOf(rows[k])
           /\ g.edges[k].wait = ~rows[k].granted

(* Once there has been a snapshot the pages are never empty again.         *)
SnapshotKept == loadedOnce => snapshot # Empty

(* With a connection the pages come to show the locks and transactions     *)
(* there are, in spite of failed and late answers.                         *)
SnapshotCatchesUp ==
  <>[](live =>
         /\ buildLockGraphFromSnapshot(snapshot) = buildLockGraphFromSnapshot(world)
         /\ buildTransactionsFromSnapshot(snapshot) = buildTransactionsFromSnapshot(world))
=============================================================================
