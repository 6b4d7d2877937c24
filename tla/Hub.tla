-------------------------------- MODULE Hub --------------------------------
(***************************************************************************)
(* The WebSocket fan-out hub of the backend (internal/ws/hub.go).          *)
(*                                                                         *)
(* One goroutine, Run, owns the map of registered clients and changes it   *)
(* under the write side of h.mu.  Every connection has a readPump, which   *)
(* forwards what its peer sends to the other registered clients under the  *)
(* read side of h.mu, and a writePump, which drains the client's buffered  *)
(* send channel into the connection.  The goroutines meet on the           *)
(* unbuffered channels register and unregister (a rendezvous is one joint  *)
(* action here), on h.broadcast and on each client's send channel.         *)
(*                                                                         *)
(* Granularity.  Everything Run does between h.mu.Lock() and Unlock() is   *)
(* one action, enabled when no goroutine holds the read lock.  Everything  *)
(* done under the read lock is one action per channel operation, so other  *)
(* readers, write pumps and peers interleave with it.                      *)
(***************************************************************************)
EXTENDS Naturals, Sequences

CONSTANTS Client,        \* one value per connection; a Client is used once
          Sender,        \* the connections whose peer sends messages
          SendCap,       \* capacity of client.send (256 in the code)
          BroadcastCap,  \* capacity of h.broadcast (256 in the code)
          MaxMsgs,       \* bound: messages one peer sends
          MaxBroadcasts, \* bound: calls of Hub.Broadcast
          Server,        \* the source of the messages of Hub.Broadcast
          EmptyFrame     \* the empty text frame written for a closed channel

ASSUME CapAssumption == SendCap \in Nat \ {0} /\ BroadcastCap \in Nat \ {0}
ASSUME BoundAssumption == MaxMsgs \in Nat /\ MaxBroadcasts \in Nat
ASSUME SenderAssumption == Sender \subseteq Client
ASSUME ServerAssumption == Server \notin Client

VARIABLES
  clients,    \* h.clients
  send,       \* send[c]: the buffered messages of c.send
  closed,     \* closed[c]: c.send has been closed
  bq,         \* the buffered messages of h.broadcast
  stop,       \* h.stop is closed
  runPc,      \* where Run is
  runClient,  \* the client Run is registering, unregistering or evicting
  runMsg,     \* the message Run is broadcasting
  runTodo,    \* the clients the broadcast loop has still to visit
  servePc,    \* servePc[c]: where the handler ServeWs of c is
  writePc,    \* writePc[c]: where c's writePump is
  readPc,     \* readPc[c]: where c's readPump is
  readMsg,    \* readMsg[c]: the message c's readPump is forwarding
  readTodo,   \* readTodo[c]: the clients its forward loop has still to visit
  conn,       \* conn[c]: our end of the connection
  peer,       \* peer[c]: the other end
  sent,       \* sent[c]: how many messages c's readPump has read
  issued,     \* how many messages Hub.Broadcast has queued
  got,        \* got[c]: the text frames written to c's connection, in order
  panicked    \* a goroutine sent on, or closed, a closed channel

mapVars  == <<clients, send, closed, panicked>>
runVars  == <<runPc, runClient, runMsg, runTodo>>
readVars == <<readPc, readMsg, readTodo, sent>>
connVars == <<servePc, conn, peer>>
vars == <<mapVars, runVars, readVars, connVars, bq, stop, writePc, issued, got>>

Source  == Client \cup {Server}
Message == Source \X Nat

(***************************************************************************)
(* The read lock: held by Run in its broadcast loop and by every readPump  *)
(* in its forward loop.  Lock() is granted when nobody holds it.           *)
(***************************************************************************)
Forwarding(c) == readPc[c] = "forward"
Unlocked == runPc # "broadcast" /\ \A c \in Client : ~Forwarding(c)

(* select { case c.send <- m: default: }  A send on a closed channel panics. *)
HasRoomOffByOne(c) == Len(send[c]) =< SendCap  \* slip: one too many
HasRoom(c) == Len(send[c]) < SendCap
TrySend(c, m) ==
  /\ send' = IF HasRoom(c) THEN [send EXCEPT ![c] = Append(@, m)] ELSE send
  /\ panicked' = (panicked \/ closed[c])

(* delete(h.clients, c); close(c.send), for every c in cs.                 *)
Drop(cs) ==
  /\ clients' = clients \ cs
  /\ closed' = [c \in Client |-> closed[c] \/ c \in cs]
  /\ panicked' = (panicked \/ \E c \in cs : closed[c])
  /\ UNCHANGED send

Init ==
  /\ clients = {}
  /\ send = [c \in Client |-> <<>>]
  /\ closed = [c \in Client |-> FALSE]
  /\ panicked = FALSE
  /\ bq = <<>>
  /\ stop = FALSE
  /\ runPc = "select"
  /\ runClient \in Client
  /\ runMsg = <<Server, 0>>
  /\ runTodo = {}
  /\ servePc = [c \in Client |-> "idle"]
  /\ writePc = [c \in Client |-> "off"]
  /\ readPc = [c \in Client |-> "off"]
  /\ readMsg = [c \in Client |-> <<c, 0>>]
  /\ readTodo = [c \in Client |-> {}]
  /\ conn = [c \in Client |-> "none"]
  /\ peer = [c \in Client |-> "up"]
  /\ sent = [c \in Client |-> 0]
  /\ issued = 0
  /\ got = [c \in Client |-> <<>>]

-----------------------------------------------------------------------------
(* ServeWs: the upgrade succeeds and the handler offers c on h.register.   *)
ServeWs(c) ==
  /\ servePc[c] = "idle"
  /\ servePc' = [servePc EXCEPT ![c] = "registering"]
  /\ conn' = [conn EXCEPT ![c] = "open"]
  /\ UNCHANGED <<mapVars, runVars, readVars, peer, bq, stop, writePc, issued, got>>

(* Run receives c from h.register; ServeWs goes on and starts both pumps,  *)
(* which therefore run before c is in the map.                             *)
RecvRegister(c) ==
  /\ runPc = "select"
  /\ servePc[c] = "registering"
  /\ runPc' = "register"
  /\ runClient' = c
  /\ servePc' = [servePc EXCEPT ![c] = "served"]
  /\ writePc' = [writePc EXCEPT ![c] = "select"]
  /\ readPc' = [readPc EXCEPT ![c] = "read"]
  /\ UNCHANGED <<mapVars, runMsg, runTodo, readMsg, readTodo, sent, conn, peer,
                 bq, stop, issued, got>>

RegisterLocked ==
  /\ runPc = "register"
  /\ Unlocked
  /\ clients' = clients \cup {runClient}
  /\ runPc' = "select"
  /\ UNCHANGED <<send, closed, panicked, runClient, runMsg, runTodo, readVars,
                 connVars, bq, stop, writePc, issued, got>>

(* Run receives c from h.unregister, offered by the writePump (which then  *)
(* returns) ...                                                            *)
RecvUnregisterFromWriter(c) ==
  /\ runPc = "select"
  /\ writePc[c] = "unregister"
  /\ runPc' = "unregister"
  /\ runClient' = c
  /\ writePc' = [writePc EXCEPT ![c] = "exited"]
  /\ conn' = [conn EXCEPT ![c] = "closed"]
  /\ UNCHANGED <<mapVars, runMsg, runTodo, readVars, servePc, peer, bq, stop,
                 issued, got>>

(* ... or by the deferred function of the readPump.                        *)
RecvUnregisterFromReader(c) ==
  /\ runPc = "select"
  /\ readPc[c] = "unregister"
  /\ runPc' = "unregister"
  /\ runClient' = c
  /\ readPc' = [readPc EXCEPT ![c] = "exited"]
  /\ conn' = [conn EXCEPT ![c] = "closed"]
  /\ UNCHANGED <<mapVars, runMsg, runTodo, readMsg, readTodo, sent, servePc,
                 peer, bq, stop, writePc, issued, got>>

(* Both pumps of a client unregister it, and a broadcast may have evicted  *)
(* it before: only a client that is still in the map is closed.            *)
UnregisterLocked ==
  /\ runPc = "unregister"
  /\ Unlocked
  /\ Drop({runClient} \cap clients)
  /\ runPc' = "select"
  /\ UNCHANGED <<runClient, runMsg, runTodo, readVars, connVars, bq, stop,
                 writePc, issued, got>>

(* Hub.Broadcast queues a message; the caller waits while the queue is full. *)
Broadcast ==
  /\ Len(bq) < BroadcastCap
  /\ issued < MaxBroadcasts
  /\ issued' = issued + 1
  /\ bq' = Append(bq, <<Server, issued + 1>>)
  /\ UNCHANGED <<mapVars, runVars, readVars, connVars, stop, writePc, got>>

(* Run takes a message from h.broadcast and enters its loop under RLock.   *)
RecvBroadcast ==
  /\ runPc = "select"
  /\ bq # <<>>
  /\ runMsg' = Head(bq)
  /\ bq' = Tail(bq)
  /\ runTodo' = clients
  /\ runPc' = "broadcast"
  /\ UNCHANGED <<mapVars, runClient, readVars, connVars, stop, writePc, issued, got>>

(* One turn of the loop; a client whose buffer is full is to be evicted:   *)
(* Run gives up the read lock to take the write lock.                      *)
BroadcastTo(c) ==
  /\ runPc = "broadcast"
  /\ c \in runTodo
  /\ TrySend(c, runMsg)
  /\ runTodo' = runTodo \ {c}
  /\ IF HasRoom(c) THEN UNCHANGED <<runPc, runClient>>
                   ELSE runPc' = "evict" /\ runClient' = c
  /\ UNCHANGED <<clients, closed, runMsg, readVars, connVars, bq, stop,
                 writePc, issued, got>>

(* Slip: the eviction keeps the read lock and does not take the write lock. *)
EvictUnderReadLock ==
  /\ runPc = "evict"
  /\ Drop({runClient})
  /\ runPc' = "broadcast"
  /\ UNCHANGED <<runClient, runMsg, runTodo, readVars, connVars, bq, stop,
                 writePc, issued, got>>

EvictLocked ==
  /\ runPc = "evict"
  /\ Unlocked
  /\ Drop({runClient})
  /\ runPc' = "broadcast"
  /\ UNCHANGED <<runClient, runMsg, runTodo, readVars, connVars, bq, stop,
                 writePc, issued, got>>

BroadcastEnd ==
  /\ runPc = "broadcast"
  /\ runTodo = {}
  /\ runPc' = "select"
  /\ UNCHANGED <<mapVars, runClient, runMsg, runTodo, readVars, connVars, bq,
                 stop, writePc, issued, got>>

(* Stop closes h.stop (once) and waits for h.done, which is closed when    *)
(* Run has exited.                                                         *)
Stop ==
  /\ ~stop
  /\ stop' = TRUE
  /\ UNCHANGED <<mapVars, runVars, readVars, connVars, bq, writePc, issued, got>>

RecvStop ==
  /\ runPc = "select"
  /\ stop
  /\ runPc' = "stopping"
  /\ UNCHANGED <<mapVars, runClient, runMsg, runTodo, readVars, connVars, bq,
                 stop, writePc, issued, got>>

StopLocked ==
  /\ runPc = "stopping"
  /\ Unlocked
  /\ Drop(clients)
  /\ runPc' = "exited"
  /\ UNCHANGED <<runClient, runMsg, runTodo, readVars, connVars, bq, stop,
                 writePc, issued, got>>

-----------------------------------------------------------------------------
(***************************************************************************)
(* writePump.  A write on an open connection whose peer is gone may still  *)
(* succeed (it is buffered), may fail, or may block: the code sets no      *)
(* write deadline, and fairness below does not ask such a write to end.    *)
(***************************************************************************)
WriteCanFail(c) == conn[c] = "closed" \/ peer[c] = "gone"

WriteMessage(c) ==
  /\ writePc[c] = "select"
  /\ send[c] # <<>>
  /\ conn[c] = "open"
  /\ got' = [got EXCEPT ![c] = Append(@, Head(send[c]))]
  /\ send' = [send EXCEPT ![c] = Tail(@)]
  /\ UNCHANGED <<clients, closed, panicked, runVars, readVars, connVars, bq,
                 stop, writePc, issued>>

(* The message taken from the channel is lost with the connection.         *)
WriteMessageFails(c) ==
  /\ writePc[c] = "select"
  /\ send[c] # <<>>
  /\ WriteCanFail(c)
  /\ send' = [send EXCEPT ![c] = Tail(@)]
  /\ writePc' = [writePc EXCEPT ![c] = "unregister"]
  /\ UNCHANGED <<clients, closed, panicked, runVars, readVars, connVars, bq,
                 stop, issued, got>>

(* Slip: the pump returns without its deferred conn.Close().               *)
WriteCloseKeepsConn(c) ==
  /\ writePc[c] = "select"
  /\ send[c] = <<>> /\ closed[c]
  /\ conn[c] = "open"
  /\ got' = [got EXCEPT ![c] = Append(@, EmptyFrame)]
  /\ writePc' = [writePc EXCEPT ![c] = "exited"]
  /\ UNCHANGED <<mapVars, runVars, readVars, connVars, bq, stop, issued>>

(* Receiving from the closed and drained channel yields (nil, false): the  *)
(* pump writes an empty text frame, then the close frame, and returns.     *)
WriteClose(c) ==
  /\ writePc[c] = "select"
  /\ send[c] = <<>> /\ closed[c]
  /\ conn[c] = "open"
  /\ got' = [got EXCEPT ![c] = Append(@, EmptyFrame)]
  /\ conn' = [conn EXCEPT ![c] = "closed"]
  /\ writePc' = [writePc EXCEPT ![c] = "exited"]
  /\ UNCHANGED <<mapVars, runVars, readVars, servePc, peer, bq, stop, issued>>

(* The empty frame, or the ping of the 30 s ticker, cannot be written.     *)
WriteControlFails(c) ==
  /\ writePc[c] = "select"
  /\ WriteCanFail(c)
  /\ writePc' = [writePc EXCEPT ![c] = "unregister"]
  /\ UNCHANGED <<mapVars, runVars, readVars, connVars, bq, stop, issued, got>>

-----------------------------------------------------------------------------
(* Slip: the loop does not skip the sender.                                *)
ReadMessageEcho(c) ==
  /\ readPc[c] = "read"
  /\ conn[c] = "open" /\ peer[c] = "up"
  /\ c \in Sender /\ sent[c] < MaxMsgs
  /\ sent' = [sent EXCEPT ![c] = @ + 1]
  /\ readMsg' = [readMsg EXCEPT ![c] = <<c, sent[c] + 1>>]
  /\ readTodo' = [readTodo EXCEPT ![c] = clients]
  /\ readPc' = [readPc EXCEPT ![c] = "forward"]
  /\ UNCHANGED <<mapVars, runVars, connVars, bq, stop, writePc, issued, got>>

(* readPump: a message arrives and the forward loop starts under RLock.    *)
ReadMessage(c) ==
  /\ readPc[c] = "read"
  /\ conn[c] = "open" /\ peer[c] = "up"
  /\ c \in Sender /\ sent[c] < MaxMsgs
  /\ sent' = [sent EXCEPT ![c] = @ + 1]
  /\ readMsg' = [readMsg EXCEPT ![c] = <<c, sent[c] + 1>>]
  /\ readTodo' = [readTodo EXCEPT ![c] = clients \ {c}]
  /\ readPc' = [readPc EXCEPT ![c] = "forward"]
  /\ UNCHANGED <<mapVars, runVars, connVars, bq, stop, writePc, issued, got>>

(* One turn of the loop; a slow client misses the message.                 *)
ForwardTo(c, t) ==
  /\ Forwarding(c)
  /\ t \in readTodo[c]
  /\ TrySend(t, readMsg[c])
  /\ readTodo' = [readTodo EXCEPT ![c] = @ \ {t}]
  /\ UNCHANGED <<clients, closed, runVars, readPc, readMsg, sent, connVars, bq,
                 stop, writePc, issued, got>>

(* Slip: with nobody to forward to, the loop continues before RUnlock.     *)
ForwardEndKeepsLock(c) ==
  /\ Forwarding(c)
  /\ readTodo[c] = {} /\ clients \ {c} # {}
  /\ readPc' = [readPc EXCEPT ![c] = "read"]
  /\ UNCHANGED <<mapVars, runVars, readMsg, readTodo, sent, connVars, bq, stop,
                 writePc, issued, got>>

ForwardEnd(c) ==
  /\ Forwarding(c)
  /\ readTodo[c] = {}
  /\ readPc' = [readPc EXCEPT ![c] = "read"]
  /\ UNCHANGED <<mapVars, runVars, readMsg, readTodo, sent, connVars, bq, stop,
                 writePc, issued, got>>

(* Slip: the read loop returns without unregistering the client.           *)
ReadFailsSilently(c) ==
  /\ readPc[c] = "read"
  /\ WriteCanFail(c)
  /\ readPc' = [readPc EXCEPT ![c] = "exited"]
  /\ UNCHANGED <<mapVars, runVars, readMsg, readTodo, sent, connVars, bq, stop,
                 writePc, issued, got>>

(* The connection was closed, or the peer left or let the 60 s read        *)
(* deadline pass: the deferred function offers c on h.unregister.          *)
ReadFails(c) ==
  /\ readPc[c] = "read"
  /\ WriteCanFail(c)
  /\ readPc' = [readPc EXCEPT ![c] = "unregister"]
  /\ UNCHANGED <<mapVars, runVars, readMsg, readTodo, sent, connVars, bq, stop,
                 writePc, issued, got>>

(* The environment: the browser or the collector leaves, or stalls.        *)
PeerGone(c) ==
  /\ conn[c] # "none"
  /\ peer[c] = "up"
  /\ peer' = [peer EXCEPT ![c] = "gone"]
  /\ UNCHANGED <<mapVars, runVars, readVars, servePc, conn, bq, stop, writePc,
                 issued, got>>

-----------------------------------------------------------------------------
RunNext ==
  \/ \E c \in Client : \/ RecvRegister(c)
                       \/ RecvUnregisterFromWriter(c)
                       \/ RecvUnregisterFromReader(c)
                       \/ BroadcastTo(c)
  \/ RegisterLocked \/ UnregisterLocked \/ EvictLocked \/ StopLocked
  \/ RecvBroadcast \/ BroadcastEnd \/ RecvStop

WritePump(c) == WriteMessage(c) \/ WriteMessageFails(c) \/ WriteClose(c)
                  \/ WriteControlFails(c)
ReadPump(c)  == \/ ReadMessage(c) \/ ForwardEnd(c) \/ ReadFails(c)
                \/ \E t \in Client : ForwardTo(c, t)

Next ==
  \/ RunNext
  \/ Broadcast
  \/ Stop
  \/ \E c \in Client : ServeWs(c) \/ WritePump(c) \/ ReadPump(c) \/ PeerGone(c)

Spec == Init /\ [][Next]_vars

(***************************************************************************)
(* Fairness.  Goroutines that can run are scheduled (WF).  Go's select     *)
(* chooses uniformly among its ready cases, so a case that is ready again  *)
(* and again is taken (SF on the receives of Run), and a pending Lock()    *)
(* holds off new readers, so it is granted (SF on the locked sections).    *)
(* A peer need not send, callers need not call, and a write to a peer that *)
(* is gone need not return while the connection is open.                   *)
(***************************************************************************)
RunFairness ==
  /\ \A c \in Client : /\ SF_vars(RecvUnregisterFromWriter(c))
                       /\ SF_vars(RecvUnregisterFromReader(c))
  /\ SF_vars(RecvStop)
  /\ SF_vars(RegisterLocked \/ UnregisterLocked \/ EvictLocked \/ StopLocked)
  /\ WF_vars(BroadcastEnd \/ \E c \in Client : BroadcastTo(c))

PumpFairness(c) ==
  /\ WF_vars(\/ peer[c] = "up" /\ (WriteMessage(c) \/ WriteClose(c))
             \/ conn[c] = "closed" /\ WritePump(c))
  /\ WF_vars(ReadFails(c) \/ ForwardEnd(c) \/ (\E t \in Client : ForwardTo(c, t)))

FairSpec == Spec /\ RunFairness /\ \A c \in Client : PumpFairness(c)

-----------------------------------------------------------------------------
(***************************************************************************)
(* Properties.                                                             *)
(***************************************************************************)

(* Every variable stays in its type and every buffer within its capacity.  *)
TypeOK ==
  /\ clients \in SUBSET Client
  /\ send \in [Client -> Seq(Message)]
  /\ closed \in [Client -> BOOLEAN]
  /\ panicked \in BOOLEAN
  /\ bq \in Seq(Message)
  /\ stop \in BOOLEAN
  /\ runPc \in {"select", "register", "unregister", "broadcast", "evict",
                "stopping", "exited"}
  /\ runClient \in Client
  /\ runMsg \in Message
  /\ runTodo \in SUBSET Client
  /\ servePc \in [Client -> {"idle", "registering", "served"}]
  /\ writePc \in [Client -> {"off", "select", "unregister", "exited"}]
  /\ readPc \in [Client -> {"off", "read", "forward", "unregister", "exited"}]
  /\ readMsg \in [Client -> Message]
  /\ readTodo \in [Client -> SUBSET Client]
  /\ conn \in [Client -> {"none", "open", "closed"}]
  /\ peer \in [Client -> {"up", "gone"}]
  /\ sent \in [Client -> Nat]
  /\ issued \in Nat
  /\ got \in [Client -> Seq(Message \cup {EmptyFrame})]
  /\ Len(bq) =< BroadcastCap
  /\ \A c \in Client : Len(send[c]) =< SendCap

(***************************************************************************)
(* No goroutine sends on a closed channel and no channel is closed twice,  *)
(* although Run, both pumps of the client and the read pumps of all other  *)
(* clients use it: the process does not panic.                             *)
(***************************************************************************)
NoPanic == ~panicked

(***************************************************************************)
(* What NoPanic rests on.  A registered client's channel is open, because  *)
(* deleting a client and closing its channel is one critical section; a    *)
(* loop under the read lock only visits clients that are still registered; *)
(* a client that is being registered or evicted has not been closed.       *)
(***************************************************************************)
RegisteredOpen == \A c \in clients : ~closed[c]
LoopsVisitRegistered ==
  /\ runPc \in {"broadcast", "evict"} => runTodo \subseteq clients
  /\ \A c \in Client : Forwarding(c) => readTodo[c] \subseteq clients
EvictedIsRegistered == runPc = "evict" => runClient \in clients \ runTodo
UnregisteredOpen ==
  /\ \A c \in Client : servePc[c] # "served" => ~closed[c] /\ c \notin clients
  /\ runPc = "register" => ~closed[runClient] /\ servePc[runClient] = "served"

ChannelInv == RegisteredOpen /\ LoopsVisitRegistered /\ EvictedIsRegistered
                /\ UnregisteredOpen /\ NoPanic

(***************************************************************************)
(* What c's connection has been given or is still to be given from one     *)
(* source is in the order it was sent, with gaps for what a full buffer    *)
(* dropped; nothing is duplicated, and c is never given a message of its   *)
(* own.                                                                    *)
(***************************************************************************)
Line(c) == got[c] \o send[c]
Messages(q) == {i \in 1..Len(q) : q[i] # EmptyFrame}
Ascending(q) ==
  \A i, j \in Messages(q) : (i < j /\ q[i][1] = q[j][1]) => q[i][2] < q[j][2]
PerSourceOrder ==
  \A c \in Client :
    Ascending(Line(c)) /\ \A i \in Messages(Line(c)) : Line(c)[i][1] # c

(* Stop returns: once it is called, Run empties the map and exits.         *)
StopReturns == stop ~> (runPc = "exited" /\ clients = {})

(* A peer that left or stalled does not stay registered.                   *)
DeadPeerLeaves ==
  \A c \in Client : (peer[c] = "gone" /\ c \in clients) ~> c \notin clients

(***************************************************************************)
(* While the hub runs, a client it has dropped, whichever goroutine caused *)
(* it, has its connection closed and both its pumps return.                *)
(***************************************************************************)
PumpsGone(c) == writePc[c] = "exited" /\ readPc[c] = "exited"
DroppedPumpsExit ==
  \A c \in Client : closed[c] ~> (stop \/ (conn[c] = "closed" /\ PumpsGone(c)))

(***************************************************************************)
(* The comment in Run: "Disconnect any remaining clients so their          *)
(* read/write goroutines can exit instead of hanging on dead conns."       *)
(***************************************************************************)
StopLetsPumpsExit ==
  \A c \in Client : (runPc = "exited" /\ closed[c]) ~> PumpsGone(c)

=============================================================================
