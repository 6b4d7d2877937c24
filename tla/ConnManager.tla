---------------------------- MODULE ConnManager ----------------------------
(***************************************************************************)
(* The connection manager (internal/connection/manager.go): for each node  *)
(* the settings to connect with and the open PostgreSQL client, and which  *)
(* node is the active one, the one whose client serves the API.            *)
(*                                                                         *)
(* Every method but GetActive works inside one critical section of m.mu,   *)
(* Activate even while it dials the database, so each is one action here.  *)
(* GetActive loads the active node before it takes the lock, so it is two  *)
(* actions.  A client is a number; opened is the set of those whose        *)
(* connection pool has been opened and not closed.                         *)
(***************************************************************************)
EXTENDS Naturals

CONSTANTS Node,       \* node ids
          Config,     \* connection settings
          NoConfig,   \* no entry in cfgStore
          NoNode,     \* the empty node id
          Reader,     \* goroutines calling GetActive
          MaxClients  \* bound: clients opened in a behaviour

ASSUME NodeAssumption == NoNode \notin Node
ASSUME ConfigAssumption == NoConfig \notin Config
ASSUME MaxClientsAssumption == MaxClients \in Nat

VARIABLES
  cfgStore,  \* m.cfgStore
  conns,     \* m.conns; NoClient: no entry
  active,    \* m.active
  opened,    \* the clients that are open
  owner,     \* owner[k]: the node client k was opened for
  fresh,     \* the number of the next client
  loaded,    \* loaded[r]: the node id r has loaded in GetActive
  result     \* result[r]: the pair GetActive has returned to r

mgrVars  == <<cfgStore, conns, active, opened, owner, fresh>>
readVars == <<loaded, result>>
vars == <<mgrVars, readVars>>

NoClient == 0
ClientId == 1..MaxClients
NoResult == <<NoNode, NoClient>>

Init ==
  /\ cfgStore = [n \in Node |-> NoConfig]
  /\ conns = [n \in Node |-> NoClient]
  /\ active = NoNode
  /\ opened = {}
  /\ owner = [k \in ClientId |-> NoNode]
  /\ fresh = 1
  /\ loaded = [r \in Reader |-> NoNode]
  /\ result = [r \in Reader |-> NoResult]

-----------------------------------------------------------------------------
Register(n, c) ==
  /\ cfgStore' = [cfgStore EXCEPT ![n] = c]
  /\ UNCHANGED <<conns, active, opened, owner, fresh>>

(* pg.Client.Connect succeeds: a new pool is open.                         *)
Connect(n) ==
  /\ fresh =< MaxClients
  /\ opened' = opened \cup {fresh}
  /\ owner' = [owner EXCEPT ![fresh] = n]
  /\ fresh' = fresh + 1

(* Activate: the new client replaces the one conns held, which stays open. *)
(* Without a config, or when the database cannot be reached, it returns an *)
(* error and changes nothing.                                              *)
CanActivate(n) == cfgStore[n] # NoConfig
Activate(n) ==
  /\ CanActivate(n)
  /\ Connect(n)
  /\ conns' = [conns EXCEPT ![n] = fresh]
  /\ active' = n
  /\ UNCHANGED cfgStore

(* Slip: the active node is not reset.                                     *)
DropKeepsActive(n) ==
  /\ opened' = opened \ {conns[n]}
  /\ conns' = [conns EXCEPT ![n] = NoClient]
  /\ active' = active

(* Slip: the closed client stays in m.conns.                               *)
DropKeepsEntry(n) ==
  /\ opened' = opened \ {conns[n]}
  /\ conns' = conns
  /\ active' = IF active = n THEN NoNode ELSE active

(* client.Close(), delete(m.conns, n) and, if n is the active node,        *)
(* active.Store(""): the common part of Unregister and Deactivate.         *)
Drop(n) ==
  /\ opened' = opened \ {conns[n]}
  /\ conns' = [conns EXCEPT ![n] = NoClient]
  /\ active' = IF active = n THEN NoNode ELSE active

Deactivate(n) ==
  /\ Drop(n)
  /\ UNCHANGED <<cfgStore, owner, fresh>>

Unregister(n) ==
  /\ Drop(n)
  /\ cfgStore' = [cfgStore EXCEPT ![n] = NoConfig]
  /\ UNCHANGED <<owner, fresh>>

(* Close: every client in conns is closed and its entry deleted.           *)
Close ==
  /\ opened' = opened \ {conns[n] : n \in Node}
  /\ conns' = [n \in Node |-> NoClient]
  /\ active' = NoNode
  /\ UNCHANGED <<cfgStore, owner, fresh>>

(* GetActive, first half: the atomic load of the active node.              *)
LoadActive(r) ==
  /\ loaded[r] = NoNode /\ active # NoNode
  /\ loaded' = [loaded EXCEPT ![r] = active]
  /\ UNCHANGED <<mgrVars, result>>

(* Slip: the client is looked up without the test that there is one.       *)
LookupUnchecked(r) ==
  /\ loaded[r] # NoNode
  /\ result' = [result EXCEPT ![r] = <<loaded[r], conns[loaded[r]]>>]
  /\ loaded' = [loaded EXCEPT ![r] = NoNode]
  /\ UNCHANGED mgrVars

(* GetActive, second half: under the read lock, the node's client if it    *)
(* still has one.                                                          *)
Lookup(r) ==
  /\ loaded[r] # NoNode
  /\ result' = [result EXCEPT ![r] =
                  IF conns[loaded[r]] = NoClient THEN NoResult
                  ELSE <<loaded[r], conns[loaded[r]]>>]
  /\ loaded' = [loaded EXCEPT ![r] = NoNode]
  /\ UNCHANGED mgrVars

MgrNext ==
  \/ \E n \in Node, c \in Config : Register(n, c)
  \/ \E n \in Node : Activate(n) \/ Deactivate(n) \/ Unregister(n)
  \/ Close
Next ==
  \/ MgrNext /\ UNCHANGED readVars
  \/ \E r \in Reader : LoadActive(r) \/ Lookup(r)

Spec == Init /\ [][Next]_vars

-----------------------------------------------------------------------------
(* The type invariant; a client number is used once.                       *)
TypeOK ==
  /\ cfgStore \in [Node -> Config \cup {NoConfig}]
  /\ conns \in [Node -> ClientId \cup {NoClient}]
  /\ active \in Node \cup {NoNode}
  /\ opened \in SUBSET ClientId
  /\ owner \in [ClientId -> Node \cup {NoNode}]
  /\ fresh \in 1..(MaxClients + 1)
  /\ loaded \in [Reader -> Node \cup {NoNode}]
  /\ result \in [Reader -> (Node \cup {NoNode}) \X (ClientId \cup {NoClient})]

(* There is always a client behind the active node: a node that lost its   *)
(* connection, by whatever sequence of calls, is not the active one.       *)
ActiveConnected == active # NoNode => conns[active] # NoClient

(* A client in m.conns is open and was opened for its node.                *)
MapOpen ==
  \A n \in Node : conns[n] # NoClient => conns[n] \in opened /\ owner[conns[n]] = n

(***************************************************************************)
(* The client the manager hands out for a node is open and was opened for  *)
(* that node, and there is one for the active node: neither re-activation  *)
(* nor deactivation leaves a closed or a foreign client in the map, or an  *)
(* active node without one.                                                *)
(***************************************************************************)
ClientsOpen == ActiveConnected /\ MapOpen

(***************************************************************************)
(* GetActive returns a client of the node it names, or no node and no      *)
(* client, although the node may be deactivated and re-activated, and      *)
(* another one become active, between its two halves.                      *)
(***************************************************************************)
ResultConsistent ==
  \A r \in Reader : \/ result[r] = NoResult
                    \/ /\ result[r][1] \in Node /\ result[r][2] \in ClientId
                       /\ owner[result[r][2]] = result[r][1]
=============================================================================
