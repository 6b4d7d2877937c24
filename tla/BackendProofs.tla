--------------------------- MODULE BackendProofs ---------------------------
(***************************************************************************)
(* Proofs about Hub, for any set of connections and any capacities: the    *)
(* type invariant, that no goroutine ever sends on or closes a closed      *)
(* channel, and the order of a connection's messages.  And about Provision *)
(* for any number of requests and restarts: what a failed request leaves   *)
(* behind, what the workspace shows, and what the tasks tell.              *)
(***************************************************************************)
EXTENDS Hub, Provision, SequenceTheorems, TLAPS

(* Appending to and taking from a bounded queue of messages.               *)
LEMMA QueueLemma ==
  ASSUME NEW S, NEW q \in Seq(S), NEW m \in S, NEW n \in Nat, Len(q) =< n
  PROVE  /\ Append(q, m) \in Seq(S)
         /\ Len(Append(q, m)) = Len(q) + 1
         /\ q # <<>> => /\ Head(q) \in S /\ Tail(q) \in Seq(S)
                        /\ Len(Tail(q)) =< n
  BY EmptySeq, AppendProperties, HeadTailProperties

(* The messages of the hub and of the peers are messages.                  *)
LEMMA MessageLemma ==
  /\ \A n \in Nat : <<Server, n>> \in Message
  /\ \A c \in Client, n \in Nat : <<c, n>> \in Message
  BY DEF Message, Source

(* A non-blocking send keeps the buffers typed and within their capacity.  *)
LEMMA TrySendType ==
  ASSUME TypeOK, NEW c \in Client, NEW m \in Message, TrySend(c, m)
  PROVE  /\ send' \in [Client -> Seq(Message)]
         /\ panicked' \in BOOLEAN
         /\ \A d \in Client : Len(send'[d]) =< SendCap
  <1>1. SendCap \in Nat
    BY CapAssumption
  <1>2. send[c] \in Seq(Message) /\ Len(send[c]) =< SendCap
    BY DEF TypeOK
  <1>3. /\ Append(send[c], m) \in Seq(Message)
        /\ Len(Append(send[c], m)) = Len(send[c]) + 1
        /\ Len(send[c]) \in Nat
    BY <1>1, <1>2, QueueLemma, LenProperties
  <1>4. panicked' \in BOOLEAN
    BY DEF TypeOK, TrySend
  <1>5. CASE HasRoom(c)
    <2>1. send' = [send EXCEPT ![c] = Append(send[c], m)]
      BY <1>5 DEF TrySend
    <2>2. Len(Append(send[c], m)) =< SendCap
      BY <1>1, <1>3, <1>5 DEF HasRoom
    <2> QED BY <1>3, <1>4, <2>1, <2>2 DEF TypeOK
  <1>6. CASE ~HasRoom(c)
    BY <1>4, <1>6 DEF TypeOK, TrySend
  <1> QED BY <1>5, <1>6

(* Dropping clients keeps the map and the channels typed.                  *)
LEMMA DropType ==
  ASSUME TypeOK, NEW cs \in SUBSET Client, Drop(cs)
  PROVE  /\ clients' \in SUBSET Client
         /\ closed' \in [Client -> BOOLEAN]
         /\ panicked' \in BOOLEAN
         /\ send' = send
  BY DEF TypeOK, Drop

(* The buffers stay typed when the write pump takes a message.             *)
LEMMA DequeueType ==
  ASSUME TypeOK, NEW c \in Client, send[c] # <<>>,
         send' = [send EXCEPT ![c] = Tail(send[c])]
  PROVE  /\ send' \in [Client -> Seq(Message)]
         /\ \A d \in Client : Len(send'[d]) =< SendCap
         /\ Head(send[c]) \in Message
  <1>1. SendCap \in Nat
    BY CapAssumption
  <1>2. send[c] \in Seq(Message) /\ Len(send[c]) =< SendCap
    BY DEF TypeOK
  <1>3. /\ Head(send[c]) \in Message /\ Tail(send[c]) \in Seq(Message)
        /\ Len(Tail(send[c])) =< SendCap
    BY <1>1, <1>2, QueueLemma, MessageLemma, HeadTailProperties, LenProperties
  <1> QED BY <1>3 DEF TypeOK

-----------------------------------------------------------------------------
(* Every variable of the hub keeps its type, and every buffer stays within *)
(* its capacity, in every behaviour.                                       *)
THEOREM HubTypeOK == Spec => []TypeOK
<1>1. Init => TypeOK
  <2> SUFFICES ASSUME Init PROVE TypeOK
    OBVIOUS
  <2>1. <<Server, 0>> \in Message /\ \A c \in Client : <<c, 0>> \in Message
    BY MessageLemma
  <2>2. /\ send \in [Client -> Seq(Message)] /\ bq \in Seq(Message)
        /\ got \in [Client -> Seq(Message \cup {EmptyFrame})]
    BY DEF Init
  <2>3. Len(bq) =< BroadcastCap /\ \A c \in Client : Len(send[c]) =< SendCap
    BY CapAssumption DEF Init
  <2> QED BY <2>1, <2>2, <2>3 DEF Init, TypeOK
<1>2. TypeOK /\ [Next]_vars => TypeOK'
  <2> SUFFICES ASSUME TypeOK, [Next]_vars PROVE TypeOK'
    OBVIOUS
  <2> USE DEF mapVars, runVars, readVars, connVars
  <2>1. ASSUME NEW c \in Client, ServeWs(c) PROVE TypeOK'
    BY <2>1 DEF ServeWs, TypeOK
  <2>2. ASSUME NEW c \in Client, RecvRegister(c) PROVE TypeOK'
    BY <2>2 DEF RecvRegister, TypeOK
  <2>3. CASE RegisterLocked
    BY <2>3 DEF RegisterLocked, TypeOK
  <2>4. ASSUME NEW c \in Client, RecvUnregisterFromWriter(c) PROVE TypeOK'
    BY <2>4 DEF RecvUnregisterFromWriter, TypeOK
  <2>5. ASSUME NEW c \in Client, RecvUnregisterFromReader(c) PROVE TypeOK'
    BY <2>5 DEF RecvUnregisterFromReader, TypeOK
  <2>6. CASE UnregisterLocked
    <3>1. {runClient} \cap clients \in SUBSET Client
      BY DEF TypeOK
    <3>2. Drop({runClient} \cap clients)
      BY <2>6 DEF UnregisterLocked
    <3> QED BY <2>6, <3>1, <3>2, DropType DEF UnregisterLocked, TypeOK
  <2>7. CASE Broadcast
    <3>1. issued + 1 \in Nat /\ <<Server, issued + 1>> \in Message
      BY MessageLemma DEF TypeOK
    <3>2. /\ Append(bq, <<Server, issued + 1>>) \in Seq(Message)
          /\ Len(Append(bq, <<Server, issued + 1>>)) =< BroadcastCap
      <4>1. bq \in Seq(Message) /\ Len(bq) \in Nat /\ BroadcastCap \in Nat
        BY CapAssumption, LenProperties DEF TypeOK
      <4>2. Len(bq) < BroadcastCap
        BY <2>7 DEF Broadcast
      <4> QED BY <3>1, <4>1, <4>2, AppendProperties
    <3> QED BY <2>7, <3>1, <3>2 DEF Broadcast, TypeOK
  <2>8. CASE RecvBroadcast
    <3>1. /\ Head(bq) \in Message /\ Tail(bq) \in Seq(Message)
          /\ Len(Tail(bq)) =< BroadcastCap
      <4>1. bq \in Seq(Message) /\ Len(bq) =< BroadcastCap /\ bq # <<>>
        BY <2>8 DEF RecvBroadcast, TypeOK
      <4> QED BY <4>1, CapAssumption, HeadTailProperties, LenProperties
    <3> QED BY <2>8, <3>1 DEF RecvBroadcast, TypeOK
  <2>9. ASSUME NEW c \in Client, BroadcastTo(c) PROVE TypeOK'
    <3>1. TrySend(c, runMsg) /\ runMsg \in Message
      BY <2>9 DEF BroadcastTo, TypeOK
    <3>2. /\ send' \in [Client -> Seq(Message)] /\ panicked' \in BOOLEAN
          /\ \A d \in Client : Len(send'[d]) =< SendCap
      BY <3>1, TrySendType
    <3> QED BY <2>9, <3>2 DEF BroadcastTo, TypeOK
  <2>10. CASE EvictLocked
    <3>1. {runClient} \in SUBSET Client /\ Drop({runClient})
      BY <2>10 DEF TypeOK, EvictLocked
    <3> QED BY <2>10, <3>1, DropType DEF EvictLocked, TypeOK
  <2>11. CASE BroadcastEnd
    BY <2>11 DEF BroadcastEnd, TypeOK
  <2>12. CASE Stop
    BY <2>12 DEF Stop, TypeOK
  <2>13. CASE RecvStop
    BY <2>13 DEF RecvStop, TypeOK
  <2>14. CASE StopLocked
    <3>1. clients \in SUBSET Client /\ Drop(clients)
      BY <2>14 DEF TypeOK, StopLocked
    <3> QED BY <2>14, <3>1, DropType DEF StopLocked, TypeOK
  <2>15. ASSUME NEW c \in Client, WriteMessage(c) PROVE TypeOK'
    <3>1. /\ send' \in [Client -> Seq(Message)]
          /\ \A d \in Client : Len(send'[d]) =< SendCap
          /\ Head(send[c]) \in Message
      BY <2>15, DequeueType DEF WriteMessage
    <3>2. got' \in [Client -> Seq(Message \cup {EmptyFrame})]
      <4>1. got[c] \in Seq(Message \cup {EmptyFrame})
        BY DEF TypeOK
      <4>2. Append(got[c], Head(send[c])) \in Seq(Message \cup {EmptyFrame})
        BY <3>1, <4>1, AppendProperties
      <4> QED BY <2>15, <4>2 DEF WriteMessage, TypeOK
    <3> QED BY <2>15, <3>1, <3>2 DEF WriteMessage, TypeOK
  <2>16. ASSUME NEW c \in Client, WriteMessageFails(c) PROVE TypeOK'
    <3>1. /\ send' \in [Client -> Seq(Message)]
          /\ \A d \in Client : Len(send'[d]) =< SendCap
      BY <2>16, DequeueType DEF WriteMessageFails
    <3> QED BY <2>16, <3>1 DEF WriteMessageFails, TypeOK
  <2>17. ASSUME NEW c \in Client, WriteClose(c) PROVE TypeOK'
    <3>1. got' \in [Client -> Seq(Message \cup {EmptyFrame})]
      <4>1. got[c] \in Seq(Message \cup {EmptyFrame})
        BY DEF TypeOK
      <4>2. Append(got[c], EmptyFrame) \in Seq(Message \cup {EmptyFrame})
        BY <4>1, AppendProperties
      <4> QED BY <2>17, <4>2 DEF WriteClose, TypeOK
    <3> QED BY <2>17, <3>1 DEF WriteClose, TypeOK
  <2>18. ASSUME NEW c \in Client, WriteControlFails(c) PROVE TypeOK'
    BY <2>18 DEF WriteControlFails, TypeOK
  <2>19. ASSUME NEW c \in Client, ReadMessage(c) PROVE TypeOK'
    <3>1. sent[c] + 1 \in Nat /\ <<c, sent[c] + 1>> \in Message
      BY MessageLemma DEF TypeOK
    <3> QED BY <2>19, <3>1 DEF ReadMessage, TypeOK
  <2>20. ASSUME NEW c \in Client, NEW t \in Client, ForwardTo(c, t) PROVE TypeOK'
    <3>1. TrySend(t, readMsg[c]) /\ readMsg[c] \in Message
      BY <2>20 DEF ForwardTo, TypeOK
    <3>2. /\ send' \in [Client -> Seq(Message)] /\ panicked' \in BOOLEAN
          /\ \A d \in Client : Len(send'[d]) =< SendCap
      BY <3>1, TrySendType
    <3> QED BY <2>20, <3>2 DEF ForwardTo, TypeOK
  <2>21. ASSUME NEW c \in Client, ForwardEnd(c) PROVE TypeOK'
    BY <2>21 DEF ForwardEnd, TypeOK
  <2>22. ASSUME NEW c \in Client, ReadFails(c) PROVE TypeOK'
    BY <2>22 DEF ReadFails, TypeOK
  <2>23. ASSUME NEW c \in Client, PeerGone(c) PROVE TypeOK'
    BY <2>23 DEF PeerGone, TypeOK
  <2>24. CASE UNCHANGED vars
    BY <2>24 DEF vars, TypeOK
  <2> QED
    BY <2>1, <2>2, <2>3, <2>4, <2>5, <2>6, <2>7, <2>8, <2>9, <2>10, <2>11,
       <2>12, <2>13, <2>14, <2>15, <2>16, <2>17, <2>18, <2>19, <2>20, <2>21,
       <2>22, <2>23, <2>24
    DEF Next, RunNext, WritePump, ReadPump
<1> QED BY <1>1, <1>2, PTL DEF Spec

-----------------------------------------------------------------------------
(***************************************************************************)
(* The channel invariant is inductive together with the types.             *)
(***************************************************************************)
LEMMA ChannelInit == Init => ChannelInv
  BY DEF Init, ChannelInv, RegisteredOpen, LoopsVisitRegistered, Forwarding,
         EvictedIsRegistered, UnregisteredOpen, NoPanic

(* Run's steps under the write lock: the clients they drop are registered, *)
(* hence open, and nobody is in a loop that could still visit them.        *)
LEMMA DropKeepsChannels ==
  ASSUME TypeOK, ChannelInv, NEW cs \in SUBSET clients, Drop(cs),
         \A c \in Client : ~Forwarding(c),
         runTodo \cap cs = {}, runTodo' = runTodo, readTodo' = readTodo,
         readPc' = readPc, servePc' = servePc,
         runPc' # "evict", runPc' # "register",
         runPc' = "broadcast" => runTodo \subseteq clients
  PROVE  ChannelInv'
  BY DEF TypeOK, ChannelInv, RegisteredOpen, LoopsVisitRegistered, Forwarding,
         EvictedIsRegistered, UnregisteredOpen, NoPanic, Drop

(***************************************************************************)
(* Every step of the hub, of a pump and of a caller keeps the channel      *)
(* invariant.                                                              *)
(***************************************************************************)
LEMMA ChannelStep == TypeOK /\ ChannelInv /\ [Next]_vars => ChannelInv'
<1> SUFFICES ASSUME TypeOK, ChannelInv, [Next]_vars PROVE ChannelInv'
  OBVIOUS
<1> USE DEF mapVars, runVars, readVars, connVars
<1> DEFINE Same == /\ clients' = clients /\ closed' = closed
                   /\ panicked' = panicked
           RunSame == runPc' = runPc /\ runClient' = runClient /\ runTodo' = runTodo
           ReadSame == readPc' = readPc /\ readTodo' = readTodo
<1>0. ASSUME Same, RunSame, ReadSame, servePc' = servePc PROVE ChannelInv'
  BY <1>0 DEF ChannelInv, RegisteredOpen, LoopsVisitRegistered, Forwarding,
      EvictedIsRegistered, UnregisteredOpen, NoPanic
<1>1. ASSUME NEW c \in Client, ServeWs(c) PROVE ChannelInv'
  BY <1>1 DEF ServeWs, TypeOK, ChannelInv, RegisteredOpen,
      LoopsVisitRegistered, Forwarding, EvictedIsRegistered, UnregisteredOpen,
      NoPanic
<1>2. ASSUME NEW c \in Client, RecvRegister(c) PROVE ChannelInv'
  BY <1>2 DEF RecvRegister, TypeOK, ChannelInv, RegisteredOpen,
      LoopsVisitRegistered, Forwarding, EvictedIsRegistered, UnregisteredOpen,
      NoPanic
<1>3. CASE RegisterLocked
  BY <1>3 DEF RegisterLocked, TypeOK, ChannelInv, RegisteredOpen, Unlocked,
      LoopsVisitRegistered, Forwarding, EvictedIsRegistered, UnregisteredOpen,
      NoPanic
<1>4. ASSUME NEW c \in Client, RecvUnregisterFromWriter(c) PROVE ChannelInv'
  BY <1>4 DEF RecvUnregisterFromWriter, ChannelInv, RegisteredOpen,
      LoopsVisitRegistered, Forwarding, EvictedIsRegistered, UnregisteredOpen,
      NoPanic
<1>5. ASSUME NEW c \in Client, RecvUnregisterFromReader(c) PROVE ChannelInv'
  BY <1>5 DEF RecvUnregisterFromReader, TypeOK, ChannelInv, RegisteredOpen,
      LoopsVisitRegistered, Forwarding, EvictedIsRegistered, UnregisteredOpen,
      NoPanic
<1>6. CASE UnregisterLocked
  <2>1. Drop({runClient} \cap clients) /\ \A c \in Client : ~Forwarding(c)
    BY <1>6 DEF UnregisterLocked, Unlocked
  <2> QED
    BY <1>6, <2>1 DEF UnregisterLocked, Drop, TypeOK, ChannelInv,
       RegisteredOpen, LoopsVisitRegistered, Forwarding, EvictedIsRegistered,
       UnregisteredOpen, NoPanic
<1>7. CASE Broadcast
  BY <1>0, <1>7 DEF Broadcast
<1>8. CASE RecvBroadcast
  BY <1>8 DEF RecvBroadcast, ChannelInv, RegisteredOpen, LoopsVisitRegistered,
      Forwarding, EvictedIsRegistered, UnregisteredOpen, NoPanic
<1>9. ASSUME NEW c \in Client, BroadcastTo(c) PROVE ChannelInv'
  <2>1. c \in clients /\ ~closed[c] /\ panicked' = panicked
    BY <1>9 DEF BroadcastTo, TrySend, TypeOK, ChannelInv, RegisteredOpen,
        LoopsVisitRegistered, NoPanic
  <2> QED
    BY <1>9, <2>1 DEF BroadcastTo, ChannelInv, RegisteredOpen,
        LoopsVisitRegistered, Forwarding, EvictedIsRegistered,
        UnregisteredOpen, NoPanic
<1>10. CASE EvictLocked
  <2>1. /\ {runClient} \in SUBSET clients /\ Drop({runClient})
        /\ runTodo \cap {runClient} = {} /\ runTodo \subseteq clients
        /\ \A c \in Client : ~Forwarding(c)
    BY <1>10 DEF EvictLocked, Unlocked, ChannelInv, EvictedIsRegistered,
        LoopsVisitRegistered
  <2> QED BY <1>10, <2>1, DropKeepsChannels DEF EvictLocked
<1>11. CASE BroadcastEnd
  BY <1>11 DEF BroadcastEnd, ChannelInv, RegisteredOpen, LoopsVisitRegistered,
      Forwarding, EvictedIsRegistered, UnregisteredOpen, NoPanic
<1>12. CASE Stop
  BY <1>0, <1>12 DEF Stop
<1>13. CASE RecvStop
  BY <1>13 DEF RecvStop, ChannelInv, RegisteredOpen, LoopsVisitRegistered,
      Forwarding, EvictedIsRegistered, UnregisteredOpen, NoPanic
<1>14. CASE StopLocked
  BY <1>14 DEF StopLocked, Unlocked, Drop, TypeOK, ChannelInv, RegisteredOpen,
      LoopsVisitRegistered, Forwarding, EvictedIsRegistered, UnregisteredOpen,
      NoPanic
<1>15. ASSUME NEW c \in Client, WritePump(c) PROVE ChannelInv'
  BY <1>0, <1>15 DEF WritePump, WriteMessage, WriteMessageFails, WriteClose,
      WriteControlFails
<1>16. ASSUME NEW c \in Client, ReadMessage(c) PROVE ChannelInv'
  BY <1>16 DEF ReadMessage, TypeOK, ChannelInv, RegisteredOpen,
      LoopsVisitRegistered, Forwarding, EvictedIsRegistered, UnregisteredOpen,
      NoPanic
<1>17. ASSUME NEW c \in Client, NEW t \in Client, ForwardTo(c, t) PROVE ChannelInv'
  <2>1. t \in clients /\ ~closed[t] /\ panicked' = panicked
    BY <1>17 DEF ForwardTo, Forwarding, TrySend, TypeOK, ChannelInv,
        RegisteredOpen, LoopsVisitRegistered, NoPanic
  <2> QED
    BY <1>17, <2>1 DEF ForwardTo, TypeOK, ChannelInv, RegisteredOpen,
        LoopsVisitRegistered, Forwarding, EvictedIsRegistered,
        UnregisteredOpen, NoPanic
<1>18. ASSUME NEW c \in Client, ForwardEnd(c) \/ ReadFails(c) PROVE ChannelInv'
  <2>1. /\ Same /\ RunSame /\ readTodo' = readTodo /\ servePc' = servePc
        /\ \A d \in Client : readPc'[d] = "forward" => readPc[d] = "forward"
    <3>1. CASE ForwardEnd(c)
      BY <3>1 DEF ForwardEnd, TypeOK
    <3>2. CASE ReadFails(c)
      BY <3>2 DEF ReadFails, TypeOK
    <3> QED BY <1>18, <3>1, <3>2
  <2> QED
    BY <2>1 DEF ChannelInv, RegisteredOpen, LoopsVisitRegistered, Forwarding,
        EvictedIsRegistered, UnregisteredOpen, NoPanic
<1>19. ASSUME NEW c \in Client, PeerGone(c) PROVE ChannelInv'
  BY <1>0, <1>19 DEF PeerGone
<1>20. CASE UNCHANGED vars
  BY <1>0, <1>20 DEF vars
<1> QED
  BY <1>1, <1>2, <1>3, <1>4, <1>5, <1>6, <1>7, <1>8, <1>9, <1>10, <1>11,
     <1>12, <1>13, <1>14, <1>15, <1>16, <1>17, <1>18, <1>19, <1>20
  DEF Next, RunNext, ReadPump

(* The channel invariant holds in every reachable state.                   *)
THEOREM HubChannelInv == Spec => []ChannelInv
<1>1. Spec => []TypeOK
  BY HubTypeOK
<1> QED BY <1>1, ChannelInit, ChannelStep, PTL DEF Spec

(* The hub never panics on a channel, whatever the number of connections,  *)
(* the capacities of the buffers and the interleaving of the goroutines.   *)
THEOREM HubNoPanic == Spec => []NoPanic
<1>1. ChannelInv => NoPanic
  BY DEF ChannelInv
<1> QED BY <1>1, HubChannelInv, PTL

-----------------------------------------------------------------------------
(***************************************************************************)
(* The order of messages.  What a connection has been or is to be given of *)
(* one source is no younger than the last message of that source, and      *)
(* older than it while a loop has still to offer it (Heard); the messages  *)
(* that wait in h.broadcast, and the one Run has taken from it, carry      *)
(* successive numbers (Queued); a read pump forwards the last one it has   *)
(* read and leaves its own client out (Forwards).  So what a loop appends  *)
(* is above all there is of its source.                                    *)
(***************************************************************************)
Looping == runPc \in {"broadcast", "evict"}
Heard(c, m) ==
  /\ m[1] # c
  /\ m[1] = Server => m[2] =< runMsg[2] /\ ((Looping /\ c \in runTodo) => m[2] < runMsg[2])
  /\ \A s \in Client : m[1] = s =>
       m[2] =< sent[s] /\ ((Forwarding(s) /\ c \in readTodo[s]) => m[2] < sent[s])
Queued ==
  /\ Len(bq) =< issued /\ runMsg = <<Server, issued - Len(bq)>>
  /\ \A i \in 1..Len(bq) : bq[i] = <<Server, issued - Len(bq) + i>>
Forwards ==
  \A c \in Client : Forwarding(c) => readMsg[c] = <<c, sent[c]>> /\ c \notin readTodo[c]
LineOK(c, q) == Ascending(q) /\ \A i \in Messages(q) : Heard(c, q[i])
Lines == \A c \in Client : LineOK(c, Line(c))
OrderInv == Queued /\ Forwards /\ Lines

(* The line of a connection is a sequence of messages and empty frames.    *)
LEMMA LineType ==
  ASSUME TypeOK, NEW c \in Client
  PROVE  /\ Line(c) \in Seq(Message \cup {EmptyFrame})
         /\ \A i \in Messages(Line(c)) : Line(c)[i] \in Message
<1>1. got[c] \in Seq(Message \cup {EmptyFrame}) /\ send[c] \in Seq(Message \cup {EmptyFrame})
  BY DEF TypeOK
<1>2. Line(c) \in Seq(Message \cup {EmptyFrame})
  BY <1>1, ConcatProperties DEF Line
<1>3. \A i \in 1..Len(Line(c)) : Line(c)[i] \in Message \cup {EmptyFrame}
  BY <1>2, ElementOfSeq
<1> QED BY <1>2, <1>3 DEF Messages

(* A line whose buffer gets one more message is one message longer.        *)
LEMMA LineAppend ==
  ASSUME NEW A, NEW g \in Seq(A), NEW q \in Seq(A), NEW m \in A
  PROVE  g \o Append(q, m) = Append(g \o q, m)
<1>1. PICK G \in Nat : G = Len(g)
  OBVIOUS
<1>2. PICK Q \in Nat : Q = Len(q)
  OBVIOUS
<1>3. PICK a : a = Append(q, m)
  OBVIOUS
<1>4. PICK b : b = g \o q
  OBVIOUS
<1>5. /\ a \in Seq(A) /\ Len(a) = Q + 1 /\ a[Q + 1] = m /\ \A i \in 1..Q : a[i] = q[i]
  BY <1>2, <1>3, AppendProperties
<1>6. /\ b \in Seq(A) /\ Len(b) = G + Q /\ \A i \in 1..G : b[i] = g[i]
      /\ \A i \in G+1..G+Q : b[i] = q[i - G]
  BY <1>1, <1>2, <1>4
<1>7. /\ g \o a \in Seq(A) /\ Len(g \o a) = G + Q + 1
      /\ \A i \in 1..G : (g \o a)[i] = g[i]
      /\ \A i \in G+1..G+Q+1 : (g \o a)[i] = a[i - G]
  BY <1>1, <1>5
<1>8. /\ Append(b, m) \in Seq(A) /\ Len(Append(b, m)) = G + Q + 1
      /\ Append(b, m)[G + Q + 1] = m /\ \A i \in 1..G+Q : Append(b, m)[i] = b[i]
  BY <1>6, AppendProperties
<1>9. ASSUME NEW i \in 1..G+Q+1 PROVE (g \o a)[i] = Append(b, m)[i]
  <2>1. CASE i = G + Q + 1
    <3>1. i \in G+1..G+Q+1 /\ i - G = Q + 1
      BY <2>1
    <3> QED BY <1>5, <1>7, <1>8, <2>1, <3>1
  <2>2. CASE i \in 1..G
    <3>1. i \in 1..G+Q
      BY <2>2
    <3> QED BY <1>6, <1>7, <1>8, <2>2, <3>1
  <2>3. CASE i \in G+1..G+Q
    <3>1. i \in G+1..G+Q+1 /\ i \in 1..G+Q /\ i - G \in 1..Q
      BY <2>3
    <3> QED BY <1>5, <1>6, <1>7, <1>8, <2>3, <3>1
  <2>4. i = G + Q + 1 \/ i \in 1..G \/ i \in G+1..G+Q
    OBVIOUS
  <2> QED BY <2>1, <2>2, <2>3, <2>4
<1> QED BY <1>3, <1>4, <1>7, <1>8, <1>9, SeqEqual

(* A message above all of its source, or an empty frame, may be appended.  *)
LEMMA AscendingAppend ==
  ASSUME NEW q \in Seq(Message \cup {EmptyFrame}), Ascending(q),
         NEW m \in Message \cup {EmptyFrame},
         m # EmptyFrame => \A i \in Messages(q) : q[i][1] = m[1] => q[i][2] < m[2]
  PROVE  /\ Ascending(Append(q, m))
         /\ \A i \in Messages(Append(q, m)) :
              \/ i \in Messages(q) /\ Append(q, m)[i] = q[i]
              \/ Append(q, m)[i] = m
<1>1. PICK Q \in Nat : Q = Len(q)
  OBVIOUS
<1>2. PICK a : a = Append(q, m)
  OBVIOUS
<1>3. /\ Len(a) = Q + 1 /\ a[Q + 1] = m /\ \A i \in 1..Q : a[i] = q[i]
  BY <1>1, <1>2, AppendProperties
<1>4. ASSUME NEW i \in Messages(a)
      PROVE  /\ a[i] # EmptyFrame
             /\ \/ i \in Messages(q) /\ a[i] = q[i] /\ i =< Q
                \/ i = Q + 1 /\ a[i] = m
  <2>1. i \in 1..Q + 1 /\ a[i] # EmptyFrame
    BY <1>3 DEF Messages
  <2>2. CASE i = Q + 1
    BY <1>3, <2>1, <2>2
  <2>3. CASE i # Q + 1
    <3>1. i \in 1..Q /\ i =< Q
      BY <2>1, <2>3
    <3>2. a[i] = q[i] /\ i \in Messages(q)
      BY <1>1, <1>3, <2>1, <3>1 DEF Messages
    <3> QED BY <2>1, <3>1, <3>2
  <2> QED BY <2>2, <2>3
<1>5. ASSUME NEW i \in Messages(a), NEW j \in Messages(a), i < j, a[i][1] = a[j][1]
      PROVE  a[i][2] < a[j][2]
  <2>0. i \in 1..Q+1 /\ j \in 1..Q+1
    BY <1>3 DEF Messages
  <2>1. i \in Nat /\ j \in Nat /\ j =< Q + 1
    BY <2>0
  <2>2. i \in Messages(q) /\ a[i] = q[i]
    BY <1>4, <1>5, <2>1
  <2>3. CASE j \in Messages(q) /\ a[j] = q[j]
    BY <1>5, <2>2, <2>3 DEF Ascending
  <2>4. CASE a[j] = m
    BY <1>4, <1>5, <2>2, <2>4
  <2> QED BY <1>4, <2>3, <2>4
<1> QED BY <1>2, <1>4, <1>5 DEF Ascending

(* The messages of one line are messages of another.                       *)
Among(r, q) == \A i \in Messages(r) : \E j \in Messages(q) : r[i] = q[j]

(* Without the first message of its buffer a line stays in order.          *)
LEMMA LineTail ==
  ASSUME NEW A, NEW g \in Seq(A), NEW q \in Seq(A), q # <<>>
  PROVE  /\ Ascending(g \o q) => Ascending(g \o Tail(q))
         /\ Among(g \o Tail(q), g \o q)
<1>1. PICK G \in Nat : G = Len(g)
  OBVIOUS
<1>2. PICK Q \in Nat : Q = Len(q) /\ Q # 0
  BY EmptySeq, LenProperties
<1>3. PICK t : t = Tail(q)
  OBVIOUS
<1>4. t \in Seq(A) /\ Len(t) = Q - 1 /\ \A i \in 1..Q - 1 : t[i] = q[i + 1]
  BY <1>2, <1>3
<1>5. PICK a : a = g \o t
  OBVIOUS
<1>6. PICK b : b = g \o q
  OBVIOUS
<1>7. /\ Len(b) = G + Q /\ \A i \in 1..G : b[i] = g[i]
      /\ \A i \in G+1..G+Q : b[i] = q[i - G]
  BY <1>1, <1>2, <1>6
<1>8. /\ Len(a) = G + (Q - 1) /\ \A i \in 1..G : a[i] = g[i]
      /\ \A i \in G+1..G+(Q-1) : a[i] = t[i - G]
  <2>1. PICK T \in Nat : T = Q - 1
    BY <1>2
  <2>2. t \in Seq(A) /\ Len(t) = T
    BY <1>4, <2>1
  <2>3. /\ Len(a) = G + T /\ \A i \in 1..G : a[i] = g[i]
        /\ \A i \in G+1..G+T : a[i] = t[i - G]
    BY <1>1, <1>5, <2>2
  <2> QED BY <2>1, <2>3
<1> DEFINE f(i) == IF i =< G THEN i ELSE i + 1
<1>9. ASSUME NEW i \in 1..G+(Q-1) PROVE f(i) \in 1..G+Q /\ a[i] = b[f(i)]
  <2>1. CASE i =< G
    <3>1. i \in 1..G /\ i \in 1..G+Q
      BY <1>2, <2>1
    <3> QED BY <1>7, <1>8, <2>1, <3>1
  <2>2. CASE ~(i =< G)
    <3>1. i \in G+1..G+(Q-1) /\ i - G \in 1..Q-1 /\ i + 1 \in G+1..G+Q /\ i + 1 - G = i - G + 1
      BY <1>2, <2>2
    <3>2. a[i] = q[i - G + 1]
      BY <1>4, <1>8, <3>1
    <3>3. i + 1 \in 1..G+Q
      BY <1>2, <2>2
    <3> QED BY <1>7, <2>2, <3>1, <3>2, <3>3
  <2> QED BY <2>1, <2>2
<1>10. ASSUME NEW i \in Messages(a) PROVE i \in Nat /\ f(i) \in Messages(b) /\ a[i] = b[f(i)]
  <2>1. i \in 1..G+(Q-1) /\ a[i] # EmptyFrame
    BY <1>8 DEF Messages
  <2>2. f(i) \in 1..G+Q /\ a[i] = b[f(i)]
    BY <1>9, <2>1
  <2> HIDE DEF f
  <2> QED BY <1>7, <2>1, <2>2 DEF Messages
<1>11. ASSUME NEW i \in Nat, NEW j \in Nat, i < j PROVE f(i) < f(j)
  BY <1>11
<1> HIDE DEF f
<1>12. ASSUME Ascending(b), NEW i \in Messages(a), NEW j \in Messages(a), i < j,
              a[i][1] = a[j][1]
       PROVE  a[i][2] < a[j][2]
  <2>1. f(i) < f(j)
    BY <1>10, <1>11, <1>12
  <2> QED BY <1>10, <1>12, <2>1 DEF Ascending
<1> QED BY <1>3, <1>5, <1>6, <1>10, <1>12 DEF Ascending, Among

(* A message that moves from the buffer to the connection stays in line.   *)
LEMMA HeadMoves ==
  ASSUME NEW A, NEW g \in Seq(A), NEW q \in Seq(A), q # <<>>
  PROVE  Append(g, Head(q)) \o Tail(q) = g \o q
<1>1. PICK G \in Nat : G = Len(g)
  OBVIOUS
<1>2. PICK Q \in Nat : Q = Len(q) /\ Q # 0
  BY EmptySeq, LenProperties
<1>3. PICK T \in Nat : T = Q - 1
  BY <1>2
<1>4. PICK t : t = Tail(q)
  OBVIOUS
<1>5. t \in Seq(A) /\ Len(t) = T /\ \A i \in 1..T : t[i] = q[i + 1]
  BY <1>2, <1>3, <1>4
<1>6. Head(q) = q[1] /\ q[1] \in A
  BY <1>2
<1>7. PICK a : a = Append(g, q[1])
  OBVIOUS
<1>8. a \in Seq(A) /\ Len(a) = G + 1 /\ a[G + 1] = q[1] /\ \A i \in 1..G : a[i] = g[i]
  BY <1>1, <1>6, <1>7, AppendProperties
<1>9. /\ g \o q \in Seq(A) /\ Len(g \o q) = G + Q /\ \A i \in 1..G : (g \o q)[i] = g[i]
      /\ \A i \in G+1..G+Q : (g \o q)[i] = q[i - G]
  BY <1>1, <1>2
<1>10. PICK H \in Nat : H = G + 1
  OBVIOUS
<1>11. a \in Seq(A) /\ Len(a) = H
  BY <1>8, <1>10
<1>12. t \in Seq(A) /\ Len(t) = T
  BY <1>5
<1>13. /\ a \o t \in Seq(A) /\ Len(a \o t) = H + T /\ \A i \in 1..H : (a \o t)[i] = a[i]
       /\ \A i \in H+1..H+T : (a \o t)[i] = t[i - H]
  <2>1. a \o t \in Seq(A) /\ Len(a \o t) = Len(a) + Len(t)
    BY <1>11, <1>12, ConcatProperties
  <2>2. \A i \in 1..H : (a \o t)[i] = a[i]
    BY <1>11, <1>12
  <2>3. ASSUME NEW i \in H+1..H+T PROVE (a \o t)[i] = t[i - H]
    <3>1. i \in 1..Len(a)+Len(t) /\ ~(i =< Len(a))
      BY <1>11, <1>12
    <3>2. (a \o t)[i] = t[i - Len(a)]
      BY <1>11, <1>12, <3>1, ConcatProperties
    <3> QED BY <1>11, <3>2
  <2> QED BY <1>11, <1>12, <2>1, <2>2, <2>3
<1>14. ASSUME NEW i \in 1..G+Q PROVE (a \o t)[i] = (g \o q)[i]
  <2>1. CASE i \in 1..G
    <3>1. i \in 1..H
      BY <1>10, <2>1
    <3> QED BY <1>8, <1>9, <1>13, <2>1, <3>1
  <2>2. CASE i = G + 1
    <3>1. i \in 1..H /\ i \in G+1..G+Q /\ i - G = 1
      BY <1>2, <1>10, <2>2
    <3> QED BY <1>8, <1>9, <1>13, <2>2, <3>1
  <2>3. CASE i \in G+2..G+Q
    <3>1. i \in H+1..H+T /\ i \in G+1..G+Q /\ i - H \in 1..T /\ i - H + 1 = i - G
      BY <1>2, <1>3, <1>10, <2>3
    <3> QED BY <1>5, <1>9, <1>13, <3>1
  <2>4. i \in 1..G \/ i = G + 1 \/ i \in G+2..G+Q
    OBVIOUS
  <2> QED BY <2>1, <2>2, <2>3, <2>4
<1>15. H + T = G + Q
  BY <1>2, <1>3, <1>10
<1> QED BY <1>4, <1>6, <1>7, <1>9, <1>13, <1>14, <1>15, SeqEqual

(* The same about the line of a connection.                                *)
LEMMA LineGets ==
  ASSUME TypeOK, NEW t \in Client, NEW m \in Message
  PROVE  got[t] \o Append(send[t], m) = Append(Line(t), m)
<1>1. PICK A : A = Message \cup {EmptyFrame}
  OBVIOUS
<1>2. PICK g \in Seq(A) : g = got[t]
  BY <1>1 DEF TypeOK
<1>3. PICK q \in Seq(A) : q = send[t]
  BY <1>1 DEF TypeOK
<1>4. m \in A
  BY <1>1
<1>5. g \o Append(q, m) = Append(g \o q, m)
  BY <1>4, LineAppend
<1> QED BY <1>2, <1>3, <1>5 DEF Line

(* A line that loses a message keeps the order of the others.              *)
LEMMA LineLoses ==
  ASSUME TypeOK, NEW t \in Client, send[t] # <<>>, NEW r, r = got[t] \o Tail(send[t])
  PROVE  /\ Ascending(Line(t)) => Ascending(r)
         /\ Among(r, Line(t))
<1>1. PICK A : A = Message \cup {EmptyFrame}
  OBVIOUS
<1>2. PICK g \in Seq(A) : g = got[t]
  BY <1>1 DEF TypeOK
<1>3. PICK q \in Seq(A) : q = send[t]
  BY <1>1 DEF TypeOK
<1>4. /\ Ascending(g \o q) => Ascending(g \o Tail(q))
      /\ Among(g \o Tail(q), g \o q)
  <2>1. q # <<>>
    BY <1>3
  <2> QED BY <2>1, LineTail
<1>5. r = g \o Tail(q) /\ Line(t) = g \o q
  BY <1>2, <1>3 DEF Line
<1> QED BY <1>4, <1>5

(* What is heard stays heard, as far as lines are concerned that do not    *)
(* change.                                                                 *)
LEMMA LinesKept ==
  ASSUME TypeOK, Lines, NEW S \in SUBSET Client, \A c \in S : Line(c)' = Line(c),
         \A c \in Client, m \in Message : Heard(c, m) => Heard(c, m)'
  PROVE  \A c \in S : LineOK(c, Line(c))'
<1> SUFFICES ASSUME NEW c \in S PROVE LineOK(c, Line(c))'
  OBVIOUS
<1>1. PICK q : q = Line(c)
  OBVIOUS
<1>2. LineOK(c, q) /\ Line(c)' = q
  BY <1>1 DEF Lines
<1>3. \A i \in Messages(q) : q[i] \in Message
  BY <1>1, LineType
<1>4. \A i \in Messages(q) : Heard(c, q[i])'
  BY <1>2, <1>3 DEF LineOK
<1> QED BY <1>2, <1>4 DEF LineOK, Ascending, Messages

(* A loop offers a message that is above all of its source.                *)
LEMMA LinesGrow ==
  ASSUME TypeOK, Lines, NEW t \in Client, NEW m \in Message, TrySend(t, m), UNCHANGED got,
         \A i \in Messages(Line(t)) : Line(t)[i][1] = m[1] => Line(t)[i][2] < m[2],
         \A c \in Client, x \in Message : Heard(c, x) => Heard(c, x)',
         Heard(t, m)'
  PROVE  Lines'
<1>1. CASE ~HasRoom(t)
  <2>1. send' = send
    BY <1>1 DEF TrySend
  <2>2. \A c \in Client : Line(c)' = Line(c)
    BY <2>1 DEF Line
  <2> QED BY <2>2, LinesKept DEF Lines
<1>2. CASE HasRoom(t)
  <2>1. send' = [send EXCEPT ![t] = Append(send[t], m)]
    BY <1>2 DEF TrySend
  <2>2. \A c \in Client \ {t} : Line(c)' = Line(c)
    BY <2>1 DEF Line, TypeOK
  <2>3. \A c \in Client \ {t} : LineOK(c, Line(c))'
    BY <2>2, LinesKept
  <2>4. PICK q : q = Line(t)
    OBVIOUS
  <2>5. Line(t)' = Append(q, m)
    <3>1. send'[t] = Append(send[t], m)
      BY <2>1 DEF TypeOK
    <3>2. got[t] \o Append(send[t], m) = Append(Line(t), m)
      BY LineGets
    <3> QED BY <2>4, <3>1, <3>2 DEF Line
  <2>6. /\ q \in Seq(Message \cup {EmptyFrame}) /\ \A i \in Messages(q) : q[i] \in Message
        /\ LineOK(t, q)
    BY <2>4, LineType DEF Lines
  <2>7. \A i \in Messages(q) : q[i][1] = m[1] => q[i][2] < m[2]
    BY <2>4
  <2>8. /\ Ascending(Append(q, m))
        /\ \A i \in Messages(Append(q, m)) : \/ i \in Messages(q) /\ Append(q, m)[i] = q[i]
                                             \/ Append(q, m)[i] = m
    BY <2>6, <2>7, AscendingAppend DEF LineOK
  <2>9. \A i \in Messages(q) : Heard(t, q[i])'
    BY <2>6 DEF LineOK
  <2>10. \A i \in Messages(Append(q, m)) : Heard(t, Append(q, m)[i])'
    BY <2>8, <2>9
  <2>11. LineOK(t, Line(t))'
    BY <2>5, <2>8, <2>10 DEF LineOK, Ascending, Messages
  <2> QED BY <2>3, <2>11 DEF Lines
<1> QED BY <1>1, <1>2

(* The write pump writes a message, loses one, or ends the connection.     *)
LEMMA LinesWritten ==
  ASSUME TypeOK, Lines, NEW c \in Client,
         WriteMessage(c) \/ WriteMessageFails(c) \/ WriteClose(c)
  PROVE  Lines'
<1> DEFINE A == Message \cup {EmptyFrame}
<1>1. UNCHANGED <<runPc, runMsg, runTodo, readPc, readTodo, sent>>
  BY DEF WriteMessage, WriteMessageFails, WriteClose, runVars, readVars
<1>2. \A d \in Client, m \in Message : Heard(d, m) => Heard(d, m)'
  BY <1>1 DEF Heard, Looping, Forwarding
<1>3. ASSUME NEW d \in Client \ {c} PROVE Line(d)' = Line(d)
  <2>1. got'[d] = got[d] /\ send'[d] = send[d]
    <3>1. CASE WriteMessage(c)
      BY <3>1 DEF WriteMessage, TypeOK
    <3>2. CASE WriteMessageFails(c)
      BY <3>2 DEF WriteMessageFails, TypeOK
    <3>3. CASE WriteClose(c)
      BY <3>3 DEF WriteClose, TypeOK, mapVars
    <3> QED BY <3>1, <3>2, <3>3
  <2> QED BY <2>1 DEF Line
<1>4. \A d \in Client \ {c} : LineOK(d, Line(d))'
  BY <1>2, <1>3, LinesKept
<1>5. got[c] \in Seq(A) /\ send[c] \in Seq(A)
  BY DEF TypeOK
<1>6. PICK q : q = Line(c)
  OBVIOUS
<1>7. q \in Seq(A) /\ LineOK(c, q) /\ \A i \in Messages(q) : Heard(c, q[i])'
  BY <1>2, <1>6, LineType DEF Lines, LineOK
<1>8. CASE WriteMessage(c)
  <2>1. /\ send[c] # <<>> /\ got'[c] = Append(got[c], Head(send[c]))
        /\ send'[c] = Tail(send[c])
    BY <1>8 DEF WriteMessage, TypeOK
  <2> HIDE DEF A
  <2>2. Append(got[c], Head(send[c])) \o Tail(send[c]) = got[c] \o send[c]
    BY <1>5, <2>1, HeadMoves
  <2>3. Line(c)' = q
    BY <1>6, <2>1, <2>2 DEF Line
  <2>4. LineOK(c, Line(c))'
    BY <1>7, <2>3 DEF LineOK, Ascending, Messages
  <2> QED BY <1>4, <2>4 DEF Lines
<1>9. CASE WriteMessageFails(c)
  <2>1. send[c] # <<>> /\ got'[c] = got[c] /\ send'[c] = Tail(send[c])
    BY <1>9 DEF WriteMessageFails, TypeOK
  <2>2. PICK r : r = got[c] \o Tail(send[c])
    OBVIOUS
  <2>3. /\ Ascending(q) => Ascending(r)
        /\ Among(r, q)
    BY <1>6, <2>1, <2>2, LineLoses
  <2>4. Line(c)' = r
    BY <2>1, <2>2 DEF Line
  <2>5. \A i \in Messages(r) : Heard(c, r[i])'
    BY <1>7, <2>3 DEF Among
  <2>6. LineOK(c, Line(c))'
    BY <1>7, <2>3, <2>4, <2>5 DEF LineOK, Ascending, Messages
  <2> QED BY <1>4, <2>6 DEF Lines
<1>10. CASE WriteClose(c)
  <2>1. /\ send[c] = <<>> /\ got'[c] = Append(got[c], EmptyFrame) /\ send'[c] = <<>>
    BY <1>10 DEF WriteClose, TypeOK, mapVars
  <2>2. EmptyFrame \in A
    OBVIOUS
  <2>3. Append(got[c], EmptyFrame) \in Seq(A)
    BY <1>5, <2>2, AppendProperties
  <2>4. q = got[c] /\ Line(c)' = Append(q, EmptyFrame)
    <3> HIDE DEF A
    <3> QED BY <1>5, <1>6, <2>1, <2>3, ConcatEmptySeq DEF Line
  <2>5. /\ Ascending(Append(q, EmptyFrame))
        /\ \A i \in Messages(Append(q, EmptyFrame)) :
             \/ i \in Messages(q) /\ Append(q, EmptyFrame)[i] = q[i]
             \/ Append(q, EmptyFrame)[i] = EmptyFrame
    BY <1>7, <2>2, AscendingAppend DEF LineOK
  <2>6. \A i \in Messages(Append(q, EmptyFrame)) : Append(q, EmptyFrame)[i] # EmptyFrame
    BY DEF Messages
  <2>7. \A i \in Messages(Append(q, EmptyFrame)) : Heard(c, Append(q, EmptyFrame)[i])'
    BY <1>7, <2>5, <2>6
  <2>8. LineOK(c, Line(c))'
    BY <2>4, <2>5, <2>7 DEF LineOK, Ascending, Messages
  <2> QED BY <1>4, <2>8 DEF Lines
<1> QED BY <1>8, <1>9, <1>10

(* A step that starts no loop and sends nothing changes no order.          *)
LEMMA QuietStep ==
  ASSUME TypeOK, OrderInv, Looping' => Looping,
         \A c \in Client : Forwarding(c)' => Forwarding(c),
         UNCHANGED <<send, got, bq, issued, runMsg, runTodo, readMsg, readTodo, sent>>
  PROVE  OrderInv'
<1>1. Queued' /\ Forwards'
  BY DEF OrderInv, Queued, Forwards
<1>2. \A c \in Client, m \in Message : Heard(c, m) => Heard(c, m)'
  BY DEF Heard
<1>3. \A c \in Client : Line(c)' = Line(c)
  BY DEF Line
<1>4. Lines'
  BY <1>2, <1>3, LinesKept DEF OrderInv, Lines
<1> QED BY <1>1, <1>4 DEF OrderInv

(* A broadcast is queued behind the others, under the next number.         *)
LEMMA BroadcastOrder ==
  ASSUME TypeOK, OrderInv, Broadcast
  PROVE  OrderInv'
<1>1. /\ issued' = issued + 1 /\ bq' = Append(bq, <<Server, issued + 1>>)
      /\ UNCHANGED <<send, got, runMsg, runTodo, runPc, readPc, readMsg, readTodo, sent>>
  BY DEF Broadcast, mapVars, runVars, readVars
<1>2. PICK B \in Nat : B = Len(bq) /\ B =< issued
  BY DEF TypeOK, OrderInv, Queued
<1>3. issued \in Nat /\ bq \in Seq(Message) /\ <<Server, issued + 1>> \in Message
  BY MessageLemma DEF TypeOK
<1>4. /\ Len(bq') = B + 1 /\ bq'[B + 1] = <<Server, issued + 1>>
      /\ \A i \in 1..B : bq'[i] = bq[i]
  BY <1>1, <1>2, <1>3, AppendProperties
<1>5. issued' - Len(bq') = issued - Len(bq) /\ Len(bq') =< issued'
  BY <1>1, <1>2, <1>3, <1>4
<1>6. ASSUME NEW i \in 1..Len(bq') PROVE bq'[i] = <<Server, issued' - Len(bq') + i>>
  <2>1. CASE i = B + 1
    <3>1. issued' - Len(bq') + i = issued + 1
      BY <1>1, <1>2, <1>3, <1>4, <2>1
    <3> QED BY <1>4, <2>1, <3>1
  <2>2. CASE i # B + 1
    <3>1. i \in 1..B
      BY <1>4, <2>2
    <3>2. bq[i] = <<Server, issued - Len(bq) + i>>
      BY <1>2, <3>1 DEF OrderInv, Queued
    <3>3. bq'[i] = bq[i]
      BY <1>4, <3>1
    <3> QED BY <1>5, <3>2, <3>3
  <2> QED BY <2>1, <2>2
<1>7. Queued'
  <2>1. runMsg = <<Server, issued - Len(bq)>>
    BY DEF OrderInv, Queued
  <2>2. runMsg' = <<Server, issued' - Len(bq')>>
    BY <1>1, <1>5, <2>1
  <2> QED BY <1>5, <1>6, <2>2 DEF Queued
<1>8. Forwards'
  BY <1>1 DEF OrderInv, Forwards, Forwarding
<1>9. \A c \in Client, m \in Message : Heard(c, m) => Heard(c, m)'
  BY <1>1 DEF Heard, Looping, Forwarding
<1>10. \A c \in Client : Line(c)' = Line(c)
  BY <1>1 DEF Line
<1>11. Lines'
  BY <1>9, <1>10, LinesKept DEF OrderInv, Lines
<1> QED BY <1>7, <1>8, <1>11 DEF OrderInv

(* Run takes the eldest broadcast, which is above the one it took before.  *)
LEMMA RecvBroadcastOrder ==
  ASSUME TypeOK, OrderInv, RecvBroadcast
  PROVE  OrderInv'
<1>1. /\ bq # <<>> /\ bq' = Tail(bq) /\ runMsg' = Head(bq) /\ runTodo' = clients
      /\ UNCHANGED <<send, got, issued, readPc, readMsg, readTodo, sent>>
  BY DEF RecvBroadcast, mapVars, readVars
<1>2. PICK B \in Nat : B = Len(bq) /\ B # 0 /\ B =< issued
  BY <1>1, EmptySeq, LenProperties DEF TypeOK, OrderInv, Queued
<1>3. issued \in Nat /\ bq \in Seq(Message)
  BY DEF TypeOK
<1>4. /\ Len(bq') = B - 1 /\ \A i \in 1..(B - 1) : bq'[i] = bq[i + 1]
      /\ runMsg' = bq[1]
  BY <1>1, <1>2, <1>3
<1>5. \A i \in 1..B : bq[i] = <<Server, issued - B + i>>
  BY <1>2 DEF OrderInv, Queued
<1>6. runMsg = <<Server, issued - B>> /\ runMsg' = <<Server, issued - B + 1>>
  <2>1. 1 \in 1..B
    BY <1>2
  <2> QED BY <1>2, <1>4, <1>5, <2>1 DEF OrderInv, Queued
<1>7. Queued'
  <2>1. issued' - Len(bq') = issued - B + 1 /\ Len(bq') =< issued'
    BY <1>1, <1>2, <1>3, <1>4
  <2>2. ASSUME NEW i \in 1..Len(bq') PROVE bq'[i] = <<Server, issued' - Len(bq') + i>>
    <3>1. i \in 1..(B - 1) /\ i + 1 \in 1..B
      BY <1>2, <1>4
    <3>2. bq'[i] = <<Server, issued - B + (i + 1)>>
      BY <1>4, <1>5, <3>1
    <3>3. issued - B + (i + 1) = issued' - Len(bq') + i
      BY <1>2, <1>3, <2>1
    <3> QED BY <3>2, <3>3
  <2> QED BY <1>6, <2>1, <2>2 DEF Queued
<1>8. Forwards'
  BY <1>1 DEF OrderInv, Forwards, Forwarding
<1>9. ASSUME NEW c \in Client, NEW m \in Message, Heard(c, m) PROVE Heard(c, m)'
  <2>1. m[2] \in Nat /\ runMsg[2] = issued - B /\ runMsg'[2] = issued - B + 1
    BY <1>6 DEF Message
  <2>2. m[1] = Server => m[2] =< issued - B
    BY <1>9, <2>1 DEF Heard
  <2>3. m[1] = Server => m[2] < runMsg'[2] /\ m[2] =< runMsg'[2]
    BY <1>2, <1>3, <2>1, <2>2
  <2>4. UNCHANGED <<readPc, readTodo, sent>>
    BY <1>1
  <2> QED BY <1>9, <2>3, <2>4 DEF Heard, Forwarding
<1>10. \A c \in Client : Line(c)' = Line(c)
  BY <1>1 DEF Line
<1>11. Lines'
  BY <1>9, <1>10, LinesKept DEF OrderInv, Lines
<1> QED BY <1>7, <1>8, <1>11 DEF OrderInv

(* Run offers its message to a client of its loop.                         *)
LEMMA BroadcastToOrder ==
  ASSUME TypeOK, OrderInv, NEW t \in Client, BroadcastTo(t)
  PROVE  OrderInv'
<1>1. /\ runPc = "broadcast" /\ t \in runTodo /\ TrySend(t, runMsg) /\ runTodo' = runTodo \ {t}
      /\ runPc' \in {"broadcast", "evict"}
      /\ UNCHANGED <<got, bq, issued, runMsg, readPc, readMsg, readTodo, sent>>
  BY DEF BroadcastTo, readVars
<1>2. Queued' /\ Forwards'
  BY <1>1 DEF OrderInv, Queued, Forwards, Forwarding
<1>3. runMsg \in Message /\ runMsg[1] = Server /\ runMsg[2] \in Nat
  BY DEF TypeOK, OrderInv, Queued, Message
<1>4. Looping
  BY <1>1 DEF Looping
<1>5. \A c \in Client, m \in Message : Heard(c, m) => Heard(c, m)'
  BY <1>1, <1>4 DEF Heard, Forwarding
<1>6. \A i \in Messages(Line(t)) : Line(t)[i][1] = runMsg[1] => Line(t)[i][2] < runMsg[2]
  BY <1>1, <1>3, <1>4 DEF OrderInv, Lines, LineOK, Heard
<1>7. Heard(t, runMsg)'
  BY <1>1, <1>3, ServerAssumption DEF Heard
<1>8. Lines'
  BY <1>1, <1>3, <1>5, <1>6, <1>7, LinesGrow DEF OrderInv
<1> QED BY <1>2, <1>8 DEF OrderInv

(* A read pump has read a message, which is above those before it.         *)
LEMMA ReadMessageOrder ==
  ASSUME TypeOK, OrderInv, NEW c \in Client, ReadMessage(c)
  PROVE  OrderInv'
<1>1. /\ sent' = [sent EXCEPT ![c] = @ + 1] /\ readTodo' = [readTodo EXCEPT ![c] = clients \ {c}]
      /\ readMsg' = [readMsg EXCEPT ![c] = <<c, sent[c] + 1>>]
      /\ readPc' = [readPc EXCEPT ![c] = "forward"]
      /\ UNCHANGED <<send, got, bq, issued, runPc, runMsg, runTodo>>
  BY DEF ReadMessage, mapVars, runVars
<1>2. /\ sent \in [Client -> Nat] /\ readTodo \in [Client -> SUBSET Client]
      /\ DOMAIN readMsg = Client /\ DOMAIN readPc = Client
  BY DEF TypeOK
<1>3. Queued'
  BY <1>1 DEF OrderInv, Queued
<1>4. Forwards'
  <2> SUFFICES ASSUME NEW d \in Client, Forwarding(d)'
               PROVE  readMsg'[d] = <<d, sent'[d]>> /\ d \notin readTodo'[d]
    BY DEF Forwards
  <2>1. CASE d = c
    BY <1>1, <1>2, <2>1
  <2>2. CASE d # c
    <3>1. Forwarding(d) /\ readMsg'[d] = readMsg[d] /\ sent'[d] = sent[d]
          /\ readTodo'[d] = readTodo[d]
      BY <1>1, <1>2, <2>2 DEF Forwarding
    <3> QED BY <3>1 DEF OrderInv, Forwards
  <2> QED BY <2>1, <2>2
<1>5. ASSUME NEW d \in Client, NEW m \in Message, Heard(d, m) PROVE Heard(d, m)'
  <2>1. m[1] # d /\ (m[1] = Server => m[2] =< runMsg'[2]
                        /\ ((Looping' /\ d \in runTodo') => m[2] < runMsg'[2]))
    BY <1>1, <1>5 DEF Heard, Looping
  <2>2. ASSUME NEW s \in Client, m[1] = s
        PROVE  m[2] =< sent'[s] /\ ((Forwarding(s)' /\ d \in readTodo'[s]) => m[2] < sent'[s])
    <3>1. /\ m[2] =< sent[s] /\ ((Forwarding(s) /\ d \in readTodo[s]) => m[2] < sent[s])
          /\ m[2] \in Nat
      BY <1>5, <2>2 DEF Heard, Message
    <3>2. CASE s = c
      <4>1. sent'[s] = sent[s] + 1 /\ sent[s] \in Nat
        BY <1>1, <1>2, <3>2
      <4> QED BY <3>1, <4>1
    <3>3. CASE s # c
      <4>1. sent'[s] = sent[s] /\ readTodo'[s] = readTodo[s] /\ readPc'[s] = readPc[s]
        BY <1>1, <1>2, <3>3
      <4> QED BY <3>1, <4>1 DEF Forwarding
    <3> QED BY <3>2, <3>3
  <2> QED BY <2>1, <2>2 DEF Heard
<1>6. \A d \in Client : Line(d)' = Line(d)
  BY <1>1 DEF Line
<1>7. Lines'
  BY <1>5, <1>6, LinesKept DEF OrderInv, Lines
<1> QED BY <1>3, <1>4, <1>7 DEF OrderInv

(* A read pump offers its message to a client of its loop.                 *)
LEMMA ForwardToOrder ==
  ASSUME TypeOK, OrderInv, NEW c \in Client, NEW t \in Client, ForwardTo(c, t)
  PROVE  OrderInv'
<1>1. /\ Forwarding(c) /\ t \in readTodo[c] /\ TrySend(t, readMsg[c])
      /\ readTodo' = [readTodo EXCEPT ![c] = readTodo[c] \ {t}]
      /\ UNCHANGED <<got, bq, issued, runPc, runMsg, runTodo, readPc, readMsg, sent>>
  BY DEF ForwardTo, runVars
<1>2. sent \in [Client -> Nat] /\ readTodo \in [Client -> SUBSET Client]
  BY DEF TypeOK
<1>3. /\ readMsg[c] \in Message /\ readMsg[c][1] = c /\ readMsg[c][2] = sent[c]
      /\ sent[c] \in Nat /\ c \notin readTodo[c]
  BY <1>1 DEF TypeOK, OrderInv, Forwards
<1>4. /\ \A d \in Client : readTodo'[d] \subseteq readTodo[d]
      /\ t \notin readTodo'[c]
  BY <1>1, <1>2
<1>5. Queued' /\ Forwards'
  BY <1>1, <1>4 DEF OrderInv, Queued, Forwards, Forwarding
<1>6. \A d \in Client, m \in Message : Heard(d, m) => Heard(d, m)'
  BY <1>1, <1>4 DEF Heard, Looping, Forwarding
<1>7. \A i \in Messages(Line(t)) :
        Line(t)[i][1] = readMsg[c][1] => Line(t)[i][2] < readMsg[c][2]
  BY <1>1, <1>3 DEF OrderInv, Lines, LineOK, Heard
<1>8. Heard(t, readMsg[c])'
  BY <1>1, <1>3, <1>4, ServerAssumption DEF Heard
<1>9. Lines'
  BY <1>1, <1>3, <1>6, <1>7, <1>8, LinesGrow DEF OrderInv
<1> QED BY <1>5, <1>9 DEF OrderInv

(* No step of any goroutine disturbs the order.                            *)
LEMMA OrderStep == TypeOK /\ OrderInv /\ [Next]_vars => OrderInv'
<1> SUFFICES ASSUME TypeOK, OrderInv, [Next]_vars PROVE OrderInv'
  OBVIOUS
<1> USE DEF mapVars, runVars, readVars, connVars
<1>1. ASSUME NEW c \in Client, ServeWs(c) \/ PeerGone(c) \/ WriteControlFails(c) PROVE OrderInv'
  BY <1>1, QuietStep DEF ServeWs, PeerGone, WriteControlFails, Looping, Forwarding
<1>2. ASSUME NEW c \in Client, RecvRegister(c) PROVE OrderInv'
  BY <1>2, QuietStep DEF RecvRegister, Looping, Forwarding, TypeOK
<1>3. CASE RegisterLocked
  BY <1>3, QuietStep DEF RegisterLocked, Looping, Forwarding
<1>4. ASSUME NEW c \in Client, RecvUnregisterFromWriter(c) PROVE OrderInv'
  BY <1>4, QuietStep DEF RecvUnregisterFromWriter, Looping, Forwarding
<1>5. ASSUME NEW c \in Client, RecvUnregisterFromReader(c) PROVE OrderInv'
  BY <1>5, QuietStep DEF RecvUnregisterFromReader, Looping, Forwarding, TypeOK
<1>6. CASE UnregisterLocked
  BY <1>6, QuietStep DEF UnregisterLocked, Drop, Looping, Forwarding
<1>7. CASE EvictLocked
  BY <1>7, QuietStep DEF EvictLocked, Drop, Looping, Forwarding
<1>8. CASE StopLocked
  BY <1>8, QuietStep DEF StopLocked, Drop, Looping, Forwarding
<1>9. CASE BroadcastEnd \/ RecvStop \/ Stop
  BY <1>9, QuietStep DEF BroadcastEnd, RecvStop, Stop, Looping, Forwarding
<1>10. CASE Broadcast
  BY <1>10, BroadcastOrder
<1>11. CASE RecvBroadcast
  BY <1>11, RecvBroadcastOrder
<1>12. ASSUME NEW c \in Client, BroadcastTo(c) PROVE OrderInv'
  BY <1>12, BroadcastToOrder
<1>13. ASSUME NEW c \in Client, WriteMessage(c) \/ WriteMessageFails(c) \/ WriteClose(c)
       PROVE  OrderInv'
  <2>1. Lines'
    BY <1>13, LinesWritten DEF OrderInv
  <2>2. UNCHANGED <<bq, issued, runMsg, readPc, readMsg, readTodo, sent>>
    BY <1>13 DEF WriteMessage, WriteMessageFails, WriteClose
  <2> QED BY <2>1, <2>2 DEF OrderInv, Queued, Forwards, Forwarding
<1>14. ASSUME NEW c \in Client, ReadMessage(c) PROVE OrderInv'
  BY <1>14, ReadMessageOrder
<1>15. ASSUME NEW c \in Client, NEW t \in Client, ForwardTo(c, t) PROVE OrderInv'
  BY <1>15, ForwardToOrder
<1>16. ASSUME NEW c \in Client, ForwardEnd(c) PROVE OrderInv'
  BY <1>16, QuietStep DEF ForwardEnd, Looping, Forwarding, TypeOK
<1>17. ASSUME NEW c \in Client, ReadFails(c) PROVE OrderInv'
  BY <1>17, QuietStep DEF ReadFails, Looping, Forwarding, TypeOK
<1>18. CASE UNCHANGED vars
  BY <1>18, QuietStep DEF vars, Looping, Forwarding
<1> QED BY <1>1, <1>2, <1>3, <1>4, <1>5, <1>6, <1>7, <1>8, <1>9, <1>10, <1>11, <1>12, <1>13,
           <1>14, <1>15, <1>16, <1>17, <1>18 DEF Next, RunNext, WritePump, ReadPump

(* Whatever the goroutines interleave, every connection is given, of each  *)
(* source, messages in the order in which they were sent, none twice and   *)
(* none of its own, although Run and all read pumps offer to its channel   *)
(* and full buffers drop some.                                             *)
THEOREM HubPerSourceOrder == Spec => []PerSourceOrder
<1>1. Init => OrderInv
  <2> SUFFICES ASSUME Init PROVE OrderInv
    OBVIOUS
  <2>1. Queued /\ Forwards
    <3>1. bq = <<>> /\ Len(bq) = 0 /\ issued = 0 /\ runMsg = <<Server, 0>>
      BY DEF Init
    <3>2. runMsg = <<Server, issued - Len(bq)>> /\ Len(bq) =< issued /\ 1..Len(bq) = {}
      <4>1. 0 - 0 = 0 /\ 0 =< 0 /\ 1..0 = {}
        OBVIOUS
      <4> QED BY <3>1, <4>1
    <3>3. \A c \in Client : ~Forwarding(c)
      BY DEF Init, Forwarding
    <3> QED BY <3>2, <3>3 DEF Queued, Forwards
  <2>2. ASSUME NEW c \in Client PROVE Line(c) = <<>>
    <3>1. got[c] = <<>> /\ send[c] = <<>>
      BY DEF Init
    <3>2. <<>> \o <<>> = <<>>
      <4>1. <<>> \in Seq(Message)
        OBVIOUS
      <4> QED BY <4>1, ConcatEmptySeq
    <3> QED BY <3>1, <3>2 DEF Line
  <2>3. Messages(<<>>) = {}
    BY DEF Messages
  <2>4. Lines
    BY <2>2, <2>3 DEF Lines, LineOK, Ascending
  <2> QED BY <2>1, <2>4 DEF OrderInv
<1>2. OrderInv => PerSourceOrder
  BY DEF OrderInv, Lines, LineOK, Heard, PerSourceOrder
<1> QED BY <1>1, <1>2, HubTypeOK, OrderStep, PTL DEF Spec

-----------------------------------------------------------------------------
(* Provisioning.                                                           *)

Steps == {"idle", "start", "boot", "wait", "up", "secondary", "save", "connect",
          "success", "failed", "dead"}
Statuses == {"none", "running", "success", "failed"}

ProvisionTypes ==
  /\ pc \in [Request -> Steps]
  /\ kind \in [Request -> {"single", "replica"}]
  /\ provider \in [Request -> {"docker", "local"}]
  /\ ctx \in [Request -> {"live", "cancelled"}]
  /\ tasks \in [Request -> Statuses] /\ taskFile \in [Request -> Statuses]
  /\ clusters \subseteq Request /\ gone \subseteq Request
  /\ unsaved \subseteq Request /\ stale \subseteq Request
  /\ teardown \in [Request -> {"no", "stopped", "done", "failed", "dead"}]
  /\ restarts \in Nat

(***************************************************************************)
(* The inductive invariant, for one request.  Until a request has started  *)
(* its primary this does not run, and from then until the cluster is saved *)
(* it does, and so does the replica once the request has come past it      *)
(* (Instances); a cluster is in the workspace only after its request has   *)
(* saved it, so that none of a failed one is (Saved).                      *)
(***************************************************************************)
Instances(r) ==
  /\ pc[r] \in {"idle", "start"} => Primary(r) \notin running
  /\ pc[r] \in {"boot", "wait", "up", "secondary", "save"} => Primary(r) \in running
  /\ pc[r] \in {"secondary", "save"} /\ kind[r] = "replica" => Secondary(r) \in running
  /\ (pc[r] = "failed" /\ Live(r) /\ r \notin faulty) => Primary(r) \notin running
Saved(r) ==
  /\ r \in clusters => pc[r] \in {"connect", "success", "dead"}
  /\ (r \in clusters /\ teardown[r] = "no") =>
       Primary(r) \in running /\ (kind[r] = "replica" => Secondary(r) \in running)

(***************************************************************************)
(* An outcome in the file is the outcome of the request, as one in memory  *)
(* is; what is not unsaved is in the file; a request that has not begun    *)
(* has no task; a task that is gone is one of a request that has ended,    *)
(* and is not in memory (Deleted).                                         *)
(***************************************************************************)
Told(r) ==
  /\ tasks[r] \in {"success", "failed"} => tasks[r] = pc[r]
  /\ taskFile[r] \in {"success", "failed"} => taskFile[r] = pc[r]
  /\ r \notin unsaved => taskFile[r] = tasks[r]
  /\ r \notin stale =>
       /\ tasks[r] = "running" => Active(r) \/ pc[r] = "dead"
       /\ pc[r] \in {"success", "failed"} => tasks[r] = pc[r] \/ r \in gone
  /\ pc[r] = "idle" => tasks[r] = "none" /\ taskFile[r] = "none"
Deleted(r) ==
  r \in gone => tasks[r] = "none" /\ pc[r] \in {"success", "failed", "dead"}

InstInv == \A r \in Request : Instances(r) /\ Saved(r)
TaskInv == \A r \in Request : Told(r) /\ Deleted(r)
Inv == ProvisionTypes /\ InstInv /\ TaskInv

(* The invariant holds before the first request.                           *)
LEMMA InvInit == ProvisionInit => Inv
  BY DEF ProvisionInit, Inv, ProvisionTypes, InstInv, TaskInv, Instances, Saved, Told, Deleted, Steps, Statuses,
         Live, Active, Ended, Primary, Secondary

(* Two requests have instances of their own.                               *)
LEMMA OwnInstances ==
  \A q, r : /\ Primary(q) # Secondary(r)
            /\ q # r => Primary(q) # Primary(r) /\ Secondary(q) # Secondary(r)
  BY DEF Primary, Secondary

(* What a step of a request does to the tasks: with a report of its new    *)
(* state, or without, the tasks stay truthful.                             *)
LEMMA ReportInv ==
  ASSUME Inv, NEW r \in Request, NEW next \in Steps, NEW status \in Statuses,
         Goto(r, next), setProvisionTask(r, status), next # "idle", Active(r) \/ pc[r] = "idle",
         \/ status = "running" /\ next \notin Ended
         \/ status = next /\ next \in {"success", "failed"}
  PROVE  TaskInv'
<1> SUFFICES ASSUME NEW q \in Request PROVE (Told(q) /\ Deleted(q))'
  BY DEF TaskInv
<1>1. Told(q) /\ Deleted(q) /\ ProvisionTypes
  BY DEF Inv, TaskInv
<1>2. r \notin gone
  BY DEF Inv, TaskInv, Deleted, Active, Ended, ProvisionTypes
<1>3. /\ pc' = [pc EXCEPT ![r] = next] /\ tasks' = [tasks EXCEPT ![r] = status]
      /\ UNCHANGED <<gone, stale>>
      /\ \/ taskFile' = tasks' /\ unsaved' = {}
         \/ /\ taskFile' = taskFile
            /\ unsaved' = unsaved \cup {x \in {r} : tasks'[x] # taskFile[x]}
  BY DEF Goto, setProvisionTask, Persist
<1>4. CASE q = r
  <2>1. pc'[r] = next /\ tasks'[r] = status
    BY <1>1, <1>3 DEF ProvisionTypes
  <2>2. taskFile[r] \in {"none", "running"}
    BY <1>1, <1>4 DEF Told, Active, Ended, ProvisionTypes, Statuses
  <2>3. taskFile'[r] \in {"success", "failed"} => taskFile'[r] = next
    BY <1>3, <2>1, <2>2
  <2>4. r \notin unsaved' => taskFile'[r] = tasks'[r]
    BY <1>3
  <2> QED BY <1>2, <1>3, <1>4, <2>1, <2>3, <2>4 DEF Told, Deleted, Active, Ended
<1>5. CASE q # r
  <2>1. pc'[q] = pc[q] /\ tasks'[q] = tasks[q]
    BY <1>1, <1>3, <1>5 DEF ProvisionTypes
  <2>2. taskFile'[q] \in {tasks[q], taskFile[q]} /\ (q \notin unsaved' => taskFile'[q] = tasks'[q])
    BY <1>1, <1>3, <1>5, <2>1 DEF Told
  <2> QED BY <1>1, <1>3, <2>1, <2>2 DEF Told, Deleted, Active
<1> QED BY <1>4, <1>5

(* A step without a report leaves them as they are.                        *)
LEMMA SilentInv ==
  ASSUME Inv, NEW r \in Request, NEW next \in Steps \ Ended, Active(r), Goto(r, next),
         UNCHANGED taskVars
  PROVE  TaskInv'
<1> SUFFICES ASSUME NEW q \in Request PROVE (Told(q) /\ Deleted(q))'
  BY DEF TaskInv
<1> QED BY DEF Goto, taskVars, Inv, TaskInv, Told, Deleted, ProvisionTypes, Active, Ended, Steps, Statuses

(* Undoing takes away instances of the request only.                       *)
LEMMA UndoKeeps ==
  ASSUME NEW r, NEW insts, NEW up, Undo(r, insts, up)
  PROVE  /\ running' \subseteq up /\ up \ insts \subseteq running'
         /\ faulty' \in {faulty, faulty \cup {r}}
         /\ (Live(r) /\ r \notin faulty') => running' = up \ insts
  BY DEF Undo

(* A request that fails: its instances are undone, if its client is there  *)
(* and no command goes wrong; and they are of no cluster.                  *)
LEMMA FailInv ==
  ASSUME Inv, NEW r \in Request, pc[r] \in {"start", "boot", "wait", "up", "secondary", "save"},
         End(r, "failed"), UNCHANGED clusters, faulty' \in {faulty, faulty \cup {r}},
         running \ {Primary(r), Secondary(r)} \subseteq running', running' \subseteq running \cup {Primary(r), Secondary(r)},
         (Live(r) /\ r \notin faulty') => Primary(r) \notin running'
  PROVE  Inv'
<1>1. ProvisionTypes'
  BY DEF Inv, ProvisionTypes, End, Goto, setProvisionTask, Persist, Steps, Statuses
<1>2. InstInv'
  <2> SUFFICES ASSUME NEW q \in Request PROVE (Instances(q) /\ Saved(q))'
    BY DEF InstInv
  <2>1. Instances(q) /\ Saved(q) /\ Saved(r)
    BY DEF Inv, InstInv
  <2>2. pc' = [pc EXCEPT ![r] = "failed"] /\ UNCHANGED <<kind, ctx, teardown>>
    BY DEF End, Goto
  <2>3. CASE q = r
    BY <2>1, <2>2, <2>3 DEF Instances, Saved, Live, Inv, ProvisionTypes
  <2>4. CASE q # r
    <3>1. /\ Primary(q) \in running' <=> Primary(q) \in running
          /\ Secondary(q) \in running' <=> Secondary(q) \in running
      BY <2>4, OwnInstances
    <3> QED BY <2>1, <2>2, <2>4, <3>1 DEF Instances, Saved, Live, Inv, ProvisionTypes
  <2> QED BY <2>3, <2>4
<1>3. TaskInv'
  BY ReportInv DEF End, Active, Ended, Steps, Statuses
<1> QED BY <1>1, <1>2, <1>3 DEF Inv

(* A request that goes on: its instances only become more.                 *)
LEMMA GoOnInv ==
  ASSUME Inv, NEW r \in Request, NEW next \in Steps \ Ended, Goto(r, next),
         UNCHANGED faulty, clusters' \in {clusters, clusters \cup {r}},
         running' \in {running, running \cup {Primary(r)}, running \cup {Secondary(r)}},
         ProvisionTypes', TaskInv', Instances(r)', Saved(r)'
  PROVE  Inv'
<1> SUFFICES ASSUME NEW q \in Request, q # r PROVE (Instances(q) /\ Saved(q))'
  BY DEF InstInv, Inv
<1>1. Instances(q) /\ Saved(q)
  BY DEF Inv, InstInv
<1>2. /\ Primary(q) \in running' <=> Primary(q) \in running
      /\ Secondary(q) \in running' <=> Secondary(q) \in running
  BY OwnInstances
<1> QED BY <1>1, <1>2 DEF Goto, Instances, Saved, Live, Inv, ProvisionTypes

(* Every step of a request keeps the invariant.                            *)
LEMMA RequestInv ==
  ASSUME Inv, NEW r \in Request, Begin(r) \/ RequestStep(r) PROVE Inv'
<1> USE DEF Steps, Ended, Statuses
<1>0. ProvisionTypes /\ Instances(r) /\ Saved(r) /\ Told(r)
  BY DEF Inv, InstInv, TaskInv
<1>a. ASSUME NEW next \in Steps \ Ended, Active(r) \/ pc[r] = "idle", next # "idle",
             GotoReported(r, next)
      PROVE  TaskInv' /\ Goto(r, next) /\ UNCHANGED <<kind, teardown>> /\ pc'[r] = next
  BY <1>a, <1>0, ReportInv DEF GotoReported, Goto, ProvisionTypes
<1>b. ASSUME NEW next \in Steps, Goto(r, next), UNCHANGED taskVars \/ GotoReported(r, next),
             clusters' \in {clusters, clusters \cup {r}}
      PROVE  ProvisionTypes'
  BY <1>b, <1>0 DEF ProvisionTypes, Goto, GotoReported, setProvisionTask, Persist, taskVars
<1>1. CASE Begin(r)
  BY <1>1, <1>0, <1>a, <1>b, GoOnInv DEF Begin, Instances, Saved, instVars
<1>2. CASE Start(r)
  <2>1. Active(r) /\ Goto(r, "boot") /\ pc'[r] = "boot" /\ UNCHANGED <<kind, teardown>>
    BY <1>2, <1>0 DEF Start, Goto, Active, ProvisionTypes
  <2>2. TaskInv' /\ ProvisionTypes'
    BY <1>2, <1>b, <2>1, SilentInv DEF Start
  <2>3. Instances(r)' /\ Saved(r)'
    BY <1>2, <1>0, <2>1 DEF Start, Instances, Saved
  <2> QED BY <1>2, <2>1, <2>2, <2>3, GoOnInv DEF Start
<1>3. CASE StartFails(r)
  <2>1. pc[r] = "start" /\ Primary(r) \notin running
    BY <1>3, <1>0 DEF StartFails, Instances
  <2>2. \/ UNCHANGED <<running, faulty>>
        \/ running' = running \cup {Primary(r)} /\ faulty' = faulty \cup {r}
    BY <1>3 DEF StartFails
  <2> QED BY <1>3, <2>1, <2>2, FailInv DEF StartFails
<1>4. CASE Booted(r)
  BY <1>4, <1>0, <1>a, <1>b, GoOnInv DEF Booted, Active, Instances, Saved, instVars, ProvisionTypes
<1>5. CASE PrimaryReady(r)
  BY <1>5, <1>0, <1>a, <1>b, GoOnInv DEF PrimaryReady, Active, Instances, Saved, instVars
<1>6. CASE NotReady(r)
  BY <1>6, UndoKeeps, FailInv DEF NotReady
<1>7. CASE Up(r)
  <2>1. Active(r) /\ Goto(r, "secondary") /\ pc'[r] = "secondary" /\ UNCHANGED <<kind, teardown>>
    BY <1>7, <1>0 DEF Up, Goto, Active, ProvisionTypes
  <2>2. TaskInv' /\ ProvisionTypes'
    BY <1>7, <1>b, <2>1, SilentInv DEF Up
  <2>3. Instances(r)' /\ Saved(r)'
    BY <1>7, <1>0, <2>1 DEF Up, Instances, Saved
  <2> QED BY <1>7, <2>1, <2>2, <2>3, GoOnInv DEF Up
<1>8. CASE UpFails(r)
  <2>1. PICK some \in {{}, {Secondary(r)}} : Undo(r, {Primary(r)}, running \cup some)
    BY <1>8 DEF UpFails
  <2> QED BY <1>8, <2>1, UndoKeeps, FailInv, OwnInstances DEF UpFails
<1>9. CASE SecondaryReady(r)
  BY <1>9, <1>0, <1>a, <1>b, GoOnInv DEF SecondaryReady, Active, Instances, Saved, instVars
<1>10. CASE SecondaryNotReady(r)
  BY <1>10, UndoKeeps, FailInv DEF SecondaryNotReady
<1>11. CASE Save(r)
  BY <1>11, <1>0, <1>a, <1>b, GoOnInv DEF Save, Active, Instances, Saved, instVars
<1>12. CASE SaveFails(r)
  BY <1>12, UndoKeeps, FailInv DEF SaveFails
<1>13. CASE Finish(r)
  <2>1. TaskInv'
    BY <1>13, ReportInv DEF Finish, End, Active
  <2>2. ProvisionTypes'
    BY <1>13, <1>0 DEF Finish, End, Goto, setProvisionTask, Persist, ProvisionTypes
  <2>3. InstInv'
    BY <1>13 DEF Finish, End, Goto, instVars, Inv, InstInv, Instances, Saved, Live, ProvisionTypes
  <2> QED BY <2>1, <2>2, <2>3 DEF Inv
<1> QED BY <1>1, <1>2, <1>3, <1>4, <1>5, <1>6, <1>7, <1>8, <1>9, <1>10, <1>11, <1>12, <1>13
        DEF RequestStep

(* So does what other clients do to its task and its cluster.              *)
LEMMA ClientInv ==
  ASSUME Inv, NEW r \in Request,
         Cancel(r) \/ DeleteTask(r) \/ DeleteCluster(r) \/ TeardownStop(r) \/ TeardownDelete(r)
  PROVE  Inv'
<1> USE DEF Inv
<1>1. CASE Cancel(r)
  <2>1. ProvisionTypes'
    BY <1>1 DEF Cancel, ProvisionTypes, taskVars
  <2>2. InstInv'
    BY <1>1 DEF Cancel, Active, Ended, Live, instVars, InstInv, Instances, Saved, ProvisionTypes
  <2>3. TaskInv'
    BY <1>1 DEF Cancel, Active, taskVars, TaskInv, Told, Deleted
  <2> QED BY <2>1, <2>2, <2>3
<1>2. CASE DeleteTask(r)
  <2>1. ProvisionTypes'
    BY <1>2 DEF DeleteTask, ProvisionTypes, Persist, Statuses
  <2>2. InstInv'
    BY <1>2 DEF DeleteTask, Live, instVars, InstInv, Instances, Saved
  <2>3. ASSUME NEW q \in Request PROVE (Told(q) /\ Deleted(q))'
    <3>1. /\ tasks[r] # "none" /\ tasks' = [tasks EXCEPT ![r] = "none"] /\ pc' = pc
          /\ gone' = (IF Active(r) THEN gone ELSE gone \cup {r}) /\ stale' = stale \ {r}
          /\ \/ taskFile' = tasks' /\ unsaved' = {}
             \/ /\ taskFile' = taskFile
                /\ unsaved' = unsaved \cup {x \in {r} : tasks'[x] # taskFile[x]}
      BY <1>2 DEF DeleteTask, Persist
    <3>2. Told(q) /\ Deleted(q) /\ ProvisionTypes
      BY DEF TaskInv
    <3>3. CASE q = r
      <4>1. tasks'[r] = "none" /\ pc[r] # "idle"
        BY <3>1, <3>2, <3>3 DEF Told, ProvisionTypes
      <4>2. taskFile'[r] \in {"none", taskFile[r]} /\ (r \notin unsaved' => taskFile'[r] = tasks'[r])
        BY <3>1, <3>2, <4>1
      <4>3. pc[r] \in {"success", "failed"} => r \in gone'
        BY <3>1 DEF Active, Ended
      <4>4. r \in gone' => pc[r] \in {"success", "failed", "dead"}
        BY <3>1, <3>2, <3>3, <4>1 DEF Deleted, Active, Ended
      <4> QED BY <3>1, <3>2, <3>3, <4>1, <4>2, <4>3, <4>4 DEF Told, Deleted
    <3>4. CASE q # r
      <4>1. tasks'[q] = tasks[q] /\ (q \in gone' <=> q \in gone) /\ (q \in stale' <=> q \in stale)
        BY <3>1, <3>2, <3>4 DEF ProvisionTypes
      <4>2. taskFile'[q] \in {tasks[q], taskFile[q]} /\ (q \notin unsaved' => taskFile'[q] = tasks'[q])
        BY <3>1, <3>2, <3>4, <4>1 DEF Told
      <4> QED BY <3>1, <3>2, <4>1, <4>2 DEF Told, Deleted, Active
    <3> QED BY <3>3, <3>4
  <2> QED BY <2>1, <2>2, <2>3 DEF TaskInv
<1>3. CASE DeleteCluster(r)
  <2>1. ProvisionTypes'
    BY <1>3 DEF DeleteCluster, ProvisionTypes, taskVars
  <2>2. InstInv'
    BY <1>3 DEF DeleteCluster, Live, instVars, InstInv, Instances, Saved
  <2>3. TaskInv'
    BY <1>3 DEF DeleteCluster, Active, taskVars, TaskInv, Told, Deleted
  <2> QED BY <2>1, <2>2, <2>3
<1>4. CASE TeardownStop(r)
  <2>1. ProvisionTypes'
    BY <1>4 DEF TeardownStop, ProvisionTypes, taskVars
  <2>2. ASSUME NEW q \in Request PROVE (Instances(q) /\ Saved(q))'
    <3>1. /\ running' \in {running, running \ {Primary(r)}} /\ faulty \subseteq faulty'
          /\ UNCHANGED <<pc, kind, ctx, clusters>> /\ r \in clusters
          /\ teardown' = [teardown EXCEPT ![r] = "stopped"]
      BY <1>4 DEF TeardownStop
    <3>2. Instances(q) /\ Saved(q) /\ Saved(r)
      BY <2>2 DEF InstInv
    <3>3. CASE q = r
      BY <3>1, <3>2, <3>3 DEF Instances, Saved, ProvisionTypes
    <3>4. CASE q # r
      BY <3>1, <3>2, <3>4, OwnInstances DEF Instances, Saved, Live, ProvisionTypes
    <3> QED BY <3>3, <3>4
  <2>3. TaskInv'
    BY <1>4 DEF TeardownStop, Active, taskVars, TaskInv, Told, Deleted
  <2> QED BY <2>1, <2>2, <2>3 DEF InstInv
<1>5. CASE TeardownDelete(r)
  <2>1. ProvisionTypes'
    BY <1>5 DEF TeardownDelete, ProvisionTypes, taskVars
  <2>2. InstInv'
    BY <1>5 DEF TeardownDelete, Live, instVars, InstInv, Instances, Saved, ProvisionTypes
  <2>3. TaskInv'
    BY <1>5 DEF TeardownDelete, Active, taskVars, TaskInv, Told, Deleted
  <2> QED BY <2>1, <2>2, <2>3
<1> QED BY <1>1, <1>2, <1>3, <1>4, <1>5

(* And the end of the process, whatever was under way.                     *)
LEMMA RestartInv ==
  ASSUME Inv, Restart PROVE Inv'
<1> USE DEF Inv, Restart
<1>1. ProvisionTypes'
  BY DEF ProvisionTypes, Steps
<1>0. ASSUME NEW q \in Request
      PROVE  /\ pc'[q] = IF Active(q) THEN "dead" ELSE pc[q]
             /\ tasks'[q] = taskFile[q] /\ taskFile'[q] = taskFile[q] /\ unsaved' = {}
             /\ q \in stale' <=> q \in stale \/ q \in unsaved
             /\ q \in gone' <=> q \in gone /\ q \notin unsaved
  OBVIOUS
<1>2. InstInv'
  BY DEF instVars, InstInv, Instances, Saved, Live, Active, Ended, ProvisionTypes
<1>3. ASSUME NEW q \in Request PROVE (Told(q) /\ Deleted(q))'
  <2>1. Told(q) /\ Deleted(q) /\ pc[q] \in Steps /\ taskFile[q] \in Statuses
    BY <1>3 DEF TaskInv, ProvisionTypes
  <2> QED BY <1>0, <1>3, <2>1 DEF Told, Deleted, Active, Ended, Steps, Statuses
<1> QED BY <1>1, <1>2, <1>3 DEF TaskInv

(* No step leaves the invariant.                                           *)
LEMMA InvNext == Inv /\ [ProvisionNext]_provisionVars => Inv'
<1> SUFFICES ASSUME Inv, [ProvisionNext]_provisionVars PROVE Inv'
  OBVIOUS
<1>1. CASE UNCHANGED provisionVars
  BY <1>1 DEF provisionVars, taskVars, instVars, Inv, ProvisionTypes, InstInv, TaskInv, Instances, Saved, Told,
              Deleted, Live, Active
<1>2. CASE ProvisionNext
  BY <1>2, RequestInv, ClientInv, RestartInv DEF ProvisionNext
<1> QED BY <1>1, <1>2

(* The invariant holds in every reachable state.                           *)
LEMMA InvHolds == ProvisionSpec => []Inv
  BY InvInit, InvNext, PTL DEF ProvisionSpec

-----------------------------------------------------------------------------
(***************************************************************************)
(* The handlers of provision.go undo what they did: a request that failed  *)
(* has no cluster in the workspace, wherever it failed; and with its       *)
(* client present and its commands doing all or nothing it leaves no       *)
(* primary running.                                                        *)
(***************************************************************************)
THEOREM ProvisionFailedCleansUp == ProvisionSpec => []FailedCleansUp
<1>1. Inv => FailedCleansUp
  BY DEF Inv, InstInv, Instances, Saved, FailedCleansUp
<1> QED BY <1>1, InvHolds, PTL

(***************************************************************************)
(* A cluster that appendCluster has put into the workspace has its         *)
(* instances running until somebody tears it down, over cancellations and  *)
(* restarts at any point.                                                  *)
(***************************************************************************)
THEOREM ProvisionClusterRuns == ProvisionSpec => []ClusterRuns
<1>1. Inv => ClusterRuns
  BY DEF Inv, ProvisionTypes, InstInv, Saved, ClusterRuns
<1> QED BY <1>1, InvHolds, PTL

(***************************************************************************)
(* DELETE /api/tasks/{id} of the task of a request that has ended holds    *)
(* for ever, although setProvisionTask would bring a task back and         *)
(* loadProvisionTasks reads the file at every start; unless the process    *)
(* ended before a write had saved the deletion.                            *)
(***************************************************************************)
THEOREM ProvisionDeletedStaysDeleted == ProvisionSpec => []DeletedStaysDeleted
<1>1. Inv => DeletedStaysDeleted
  BY DEF Inv, ProvisionTypes, TaskInv, Deleted, DeletedStaysDeleted
<1> QED BY <1>1, InvHolds, PTL

(***************************************************************************)
(* A task shows an outcome only if it is the one of its request, although  *)
(* failing writes leave older states of it in the file.  Unless a process  *)
(* ended with the last change of the task unsaved, it is "running" only    *)
(* while its request works or after the request died with its process, and *)
(* a request that has ended shows its outcome until its task is deleted.   *)
(***************************************************************************)
THEOREM ProvisionTaskHonest == ProvisionSpec => []TaskHonest
<1>1. Inv => TaskHonest
  BY DEF Inv, TaskInv, Told, TaskHonest
<1> QED BY <1>1, InvHolds, PTL
=============================================================================
