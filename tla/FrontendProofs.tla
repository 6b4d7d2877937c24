--------------------------- MODULE FrontendProofs ---------------------------
(***************************************************************************)
(* Proofs about the single-page application, for all values of its bounds: *)
(* one section per part, with the part's inductive invariant and the proof *)
(* that the steps of the part keep it; the last section puts them together *)
(* for Frontend, in which a behaviour is one of any part.                  *)
(***************************************************************************)
EXTENDS Frontend, ListLemmas, SequenceTheorems, FiniteSetTheorems, NaturalsInduction, TLAPS

-----------------------------------------------------------------------------
(***************************************************************************)
(* UseWebSocket.  With a valid url no timer is ever orphaned, with another *)
(* there is never a socket (Url); the hook shows "closed" only when it     *)
(* refers to no socket (ClosedFree).  Before any overlap there is one      *)
(* socket, the hook refers to it unless it is closing, and heartbeat and   *)
(* stale timer run only for one that has been open (Single): hence a stale *)
(* timer never closes a socket that is still connecting, which would leave *)
(* a status that says otherwise.                                           *)
(***************************************************************************)
States == {"none", "connecting", "open", "closing"}
WsTypes ==
  /\ ready \in [Socket -> States] /\ silent \in [Socket -> BOOLEAN]
  /\ urlOk \in BOOLEAN /\ wsRef \in Socket \cup {NoSocket} /\ should \in BOOLEAN
  /\ attempts \in Nat /\ orphans \in Nat /\ reconnect \in BOOLEAN
  /\ heartbeat \in BOOLEAN /\ lostBeats \in BOOLEAN /\ stale \in BOOLEAN
  /\ overlapped \in BOOLEAN
Url ==
  /\ urlOk => orphans = 0
  /\ ~urlOk => wsRef = NoSocket /\ Alive = {}
ClosedFree == status = "closed" => wsRef = NoSocket
WasOpen == wsRef # NoSocket /\ ready[wsRef] \in {"open", "closing"}
Single ==
  /\ \A s, t \in Alive : s = t
  /\ wsRef # NoSocket => wsRef \in Alive
  /\ \A s \in Alive : s # wsRef => ready[s] = "closing"
  /\ ~lostBeats
  /\ (heartbeat \/ stale) => WasOpen
  /\ status = "open" <=> WasOpen
WsInv ==
  /\ WsTypes /\ Url /\ ClosedFree /\ CancelHolds /\ GivesUpAtCap
  /\ ~overlapped => Single

(* A hook that has done nothing yet.                                       *)
LEMMA WsInvInit == WsInit => WsInv
<1> SUFFICES ASSUME WsInit PROVE WsInv
  OBVIOUS
<1>1. WsTypes
  BY SocketAssumption DEF WsInit, WsTypes, States
<1>2. Alive = {}
  BY DEF WsInit, Alive
<1> QED BY <1>1, <1>2 DEF WsInit, WsInv, Url, ClosedFree, CancelHolds, GivesUpAtCap, Single,
     WasOpen

(* A call of connect, whatever attempts and timers its caller passes on.   *)
LEMMA ConnectInv ==
  ASSUME WsInv, NEW a \in Nat, NEW rec \in BOOLEAN, NEW orph \in Nat,
         urlOk => orph = 0, urlOk' = urlOk,
         connect(a, rec, orph), InUse => a = attempts \/ status # "closed"
  PROVE  WsInv'
<1>0. WsTypes /\ Url /\ ClosedFree /\ GivesUpAtCap /\ (~overlapped => Single)
  BY DEF WsInv
<1>1. CASE InUse
  <2>1. /\ should' = TRUE /\ attempts' = a /\ reconnect' = rec /\ orphans' = orph
        /\ UNCHANGED <<ready, silent, wsRef, status, overlapped, heartbeat, lostBeats, stale>>
    BY <1>1 DEF connect
  <2>2. wsRef # NoSocket /\ status # "closed"
    BY <1>0, <1>1 DEF InUse, ClosedFree
  <2>3. WsTypes' /\ Url' /\ ClosedFree' /\ CancelHolds' /\ GivesUpAtCap'
    BY <1>0, <2>1, <2>2 DEF WsTypes, Url, ClosedFree, CancelHolds, GivesUpAtCap, Alive
  <2>4. (~overlapped => Single)'
    BY <1>0, <2>1 DEF Single, WasOpen, Alive
  <2> QED BY <2>3, <2>4 DEF WsInv
<1>2. CASE ~InUse /\ ~urlOk
  <2>1. /\ should' = TRUE /\ status' \in {"reconnecting", "connecting"}
        /\ scheduleReconnect(a, rec, orph)
        /\ UNCHANGED <<ready, silent, wsRef, overlapped, heartbeat, lostBeats, stale>>
    BY <1>2 DEF connect
  <2>2. attempts' \in Nat /\ reconnect' = TRUE /\ orphans' \in Nat
    BY <2>1 DEF scheduleReconnect, One
  <2>3. wsRef = NoSocket /\ Alive = {}
    BY <1>0, <1>2 DEF Url
  <2>4. WsTypes' /\ Url' /\ ClosedFree' /\ CancelHolds' /\ GivesUpAtCap'
    BY <1>0, <1>2, <2>1, <2>2 DEF WsTypes, Url, ClosedFree, CancelHolds, GivesUpAtCap, Alive
  <2>5. (~overlapped => Single)'
    BY <1>0, <2>1, <2>3 DEF Single, WasOpen, Alive
  <2> QED BY <2>4, <2>5 DEF WsInv
<1>3. CASE ~InUse /\ urlOk
  <2>1. /\ should' = TRUE /\ status' \in {"reconnecting", "connecting"}
        /\ NewSocket(a, rec, orph)
        /\ UNCHANGED <<heartbeat, lostBeats, stale>>
    BY <1>3 DEF connect
  <2>2. PICK s \in Socket \ Alive : /\ ready' = [ready EXCEPT ![s] = "connecting"]
                                    /\ silent' = [silent EXCEPT ![s] = FALSE]
                                    /\ wsRef' = s
    BY <2>1 DEF NewSocket
  <2>3. /\ overlapped' = (overlapped \/ \E t \in Socket : ready[t] = "closing")
        /\ attempts' = a /\ reconnect' = rec /\ orphans' = orph
    BY <2>1 DEF NewSocket
  <2>4. WsTypes'
    BY <1>0, <2>1, <2>2, <2>3 DEF WsTypes, States
  <2>5. Url' /\ ClosedFree' /\ CancelHolds' /\ GivesUpAtCap'
    BY <1>0, <1>3, <2>1, <2>3 DEF Url, ClosedFree, CancelHolds, GivesUpAtCap
  <2>6. ASSUME ~overlapped' PROVE Single'
    <3>1. ~overlapped /\ Single /\ \A t \in Socket : ready[t] # "closing"
      BY <1>0, <2>3, <2>6
    <3>2. wsRef = NoSocket
      BY <3>1, <1>0, <1>3 DEF Single, InUse, WsTypes, States, Alive
    <3>3. Alive = {} /\ ~heartbeat /\ ~stale
      BY <3>1, <3>2, SocketAssumption DEF Single, WasOpen, Alive
    <3>4. Alive' = {s} /\ ready'[s] = "connecting"
      BY <3>3, <2>2, <1>0 DEF Alive, WsTypes
    <3>5. ~lostBeats' /\ ~heartbeat' /\ ~stale' /\ ~WasOpen' /\ status' # "open"
      BY <3>1, <3>3, <3>4, <2>1, <2>2 DEF Single, WasOpen
    <3> QED BY <3>4, <3>5, <2>2 DEF Single
  <2> QED BY <2>4, <2>5, <2>6 DEF WsInv
<1> QED BY <1>0, <1>1, <1>2, <1>3 DEF WsTypes

(* disconnect: the reference is dropped with everything set for it.        *)
LEMMA DisconnectInv ==
  ASSUME WsInv, disconnect, urlOk' = urlOk
  PROVE  WsInv'
<1> USE DEF WsInv, disconnect, clearTimers
<1>1. ready' \in [Socket -> States] /\ Alive' = Alive
      /\ \A s \in Alive : s = wsRef => ready'[s] = "closing"
  BY DEF CloseRef, Alive, WsTypes, States
<1>2. \A s \in Socket : s # wsRef => ready'[s] = ready[s]
  BY DEF CloseRef
<1>3. WsTypes' /\ Url' /\ ClosedFree' /\ CancelHolds' /\ GivesUpAtCap'
  BY <1>1 DEF WsTypes, Url, ClosedFree, CancelHolds, GivesUpAtCap
<1>4. ASSUME ~overlapped PROVE Single'
  BY <1>1, <1>2, <1>4 DEF Single, WasOpen, Alive
<1> QED BY <1>3, <1>4

(* The stale timer closes the socket there is.                             *)
LEMMA StaleFiresInv ==
  ASSUME WsInv, StaleFires PROVE WsInv'
<1> USE DEF WsInv, StaleFires, refVars, envVars
<1>1. ready' \in [Socket -> States] /\ Alive' = Alive
      /\ \A s \in Alive : s = wsRef => ready'[s] = "closing"
  BY DEF CloseRef, Alive, WsTypes, States
<1>2. \A s \in Socket : s # wsRef => ready'[s] = ready[s]
  BY DEF CloseRef
<1>3. WsTypes' /\ Url' /\ ClosedFree' /\ CancelHolds' /\ GivesUpAtCap'
  BY <1>1 DEF WsTypes, Url, ClosedFree, CancelHolds, GivesUpAtCap, AtCap
<1>4. ASSUME ~overlapped PROVE Single'
  <2>1. Single /\ WasOpen /\ wsRef \in Alive
    BY <1>4 DEF Single, WasOpen
  <2>2. WasOpen'
    BY <2>1, <1>1 DEF WasOpen
  <2> QED BY <2>1, <2>2, <1>1, <1>2 DEF Single, Alive
<1> QED BY <1>3, <1>4

(* A socket opens: before any overlap it is the one the hook refers to.    *)
LEMMA OnopenInv ==
  ASSUME WsInv, NEW s \in Socket, onopen(s) PROVE WsInv'
<1> USE DEF WsInv, onopen, envVars
<1>1. ready' \in [Socket -> States] /\ Alive' = Alive /\ ready'[s] = "open" /\ s \in Alive
      /\ \A t \in Socket : t # s => ready'[t] = ready[t]
  BY DEF Alive, WsTypes, States
<1>2. WsTypes' /\ Url' /\ ClosedFree' /\ CancelHolds' /\ GivesUpAtCap'
  BY <1>1 DEF WsTypes, Url, ClosedFree, CancelHolds, GivesUpAtCap
<1>3. ASSUME ~overlapped PROVE Single'
  <2>1. Single /\ s = wsRef
    BY <1>3, <1>1 DEF Single
  <2>2. ~WasOpen /\ WasOpen' /\ ~heartbeat
    BY <2>1, <1>1, SocketAssumption DEF Single, WasOpen
  <2> QED BY <2>1, <2>2, <1>1 DEF Single, WsTypes
<1> QED BY <1>2, <1>3

(* A message arms the stale timer of a socket that is open.                *)
LEMMA OnmessageInv ==
  ASSUME WsInv, NEW s \in Socket, onmessage(s) PROVE WsInv'
<1> USE DEF WsInv, onmessage, refVars, envVars
<1>1. WsTypes' /\ Url' /\ ClosedFree' /\ CancelHolds' /\ GivesUpAtCap'
  BY DEF WsTypes, Url, ClosedFree, CancelHolds, GivesUpAtCap, Alive, AtCap
<1>2. ASSUME ~overlapped PROVE Single'
  <2>1. Single /\ s = wsRef /\ s \in Alive
    BY <1>2 DEF Single, Alive
  <2>2. WasOpen /\ WasOpen'
    BY <2>1, SocketAssumption DEF WasOpen
  <2> QED BY <2>1, <2>2 DEF Single, Alive
<1> QED BY <1>1, <1>2

(* A socket closes: before any overlap none is left.                       *)
LEMMA OncloseInv ==
  ASSUME WsInv, NEW s \in Socket, onclose(s) PROVE WsInv'
<1> USE DEF WsInv, onclose, clearTimers, envVars
<1>1. ready' \in [Socket -> States] /\ Alive' = Alive \ {s} /\ s \in Alive
  BY DEF Alive, WsTypes, States, Closes
<1>2. /\ attempts' \in Nat /\ orphans' = orphans /\ reconnect' \in BOOLEAN
      /\ status' \in {"closed", "reconnecting"} /\ (~should => reconnect' = FALSE)
      /\ (status' = "closed" /\ should => AtCap /\ attempts' = attempts)
  <2>1. CASE ~should \/ AtCap
    BY <2>1 DEF WsTypes
  <2>2. CASE should /\ ~AtCap
    <3>1. status' = "reconnecting" /\ scheduleReconnect(attempts, FALSE, orphans)
      BY <2>2
    <3>2. attempts \in Nat /\ orphans \in Nat
      BY DEF WsTypes
    <3> QED BY <2>2, <3>1, <3>2 DEF scheduleReconnect, One
  <2> QED BY <2>1, <2>2
<1>3. WsTypes' /\ Url' /\ ClosedFree' /\ CancelHolds' /\ GivesUpAtCap'
  BY <1>1, <1>2 DEF WsTypes, Url, ClosedFree, CancelHolds, GivesUpAtCap, AtCap
<1>4. ASSUME ~overlapped PROVE Single'
  <2>1. Alive' = {} /\ ~WasOpen'
    BY <1>4, <1>1 DEF Single, WasOpen
  <2> QED BY <2>1, <1>2, <1>4 DEF Single
<1> QED BY <1>3, <1>4

(* Every step of the hook keeps the invariant.                             *)
LEMMA WsInvNext == WsInv /\ [WsNext]_wsVars => WsInv'
<1> SUFFICES ASSUME WsInv, [WsNext]_wsVars PROVE WsInv'
  OBVIOUS
<1>0. /\ attempts \in Nat /\ orphans \in Nat /\ reconnect \in BOOLEAN /\ FALSE \in BOOLEAN
      /\ urlOk => orphans = 0
      /\ InUse => status # "closed"
  BY DEF WsInv, WsTypes, Url, ClosedFree, InUse
<1>1. CASE Mount
  BY <1>0, <1>1, ConnectInv DEF Mount, Call
<1>2. CASE Connect
  BY <1>0, <1>2, ConnectInv DEF Connect, Call
<1>3. CASE Unmount \/ Disconnect
  BY <1>3, DisconnectInv DEF Unmount, Disconnect, Call
<1>4. CASE ReconnectFires
  BY <1>0, <1>4, ConnectInv DEF ReconnectFires, envVars
<1>5. CASE OrphanFires
  <2>1. orphans - 1 \in Nat /\ ~urlOk
    BY <1>0, <1>5 DEF OrphanFires
  <2> QED BY <1>0, <1>5, <2>1, ConnectInv DEF OrphanFires, envVars
<1>6. CASE StaleFires
  BY <1>6, StaleFiresInv
<1>7. CASE \E s \in Socket : onopen(s)
  BY <1>7, OnopenInv
<1>8. CASE \E s \in Socket : onmessage(s)
  BY <1>8, OnmessageInv
<1>9. CASE \E s \in Socket : onclose(s)
  BY <1>9, OncloseInv
<1>10. ASSUME NEW s \in Socket, GoesSilent(s) PROVE WsInv'
  BY <1>10 DEF GoesSilent, refVars, timerVars, envVars, WsInv, WsTypes, Url, ClosedFree,
     CancelHolds, GivesUpAtCap, AtCap, Single, WasOpen, Alive
<1>11. CASE UNCHANGED wsVars
  BY <1>11 DEF wsVars, refVars, timerVars, envVars, WsInv, WsTypes, Url, ClosedFree,
     CancelHolds, GivesUpAtCap, AtCap, Single, WasOpen, Alive
<1> QED BY <1>1, <1>2, <1>3, <1>4, <1>5, <1>6, <1>7, <1>8, <1>9, <1>10, <1>11 DEF WsNext

(* What the invariant says of the sockets.                                 *)
LEMMA WsInvSafe == WsInv => CancelHolds /\ OneSocket /\ GivesUpAtCap
<1> SUFFICES ASSUME WsInv, ~overlapped PROVE OneSocket
  BY DEF WsInv, OneSocket
<1>1. Single
  BY DEF WsInv
<1>2. Cardinality(Alive) =< 1
  <2>1. CASE Alive = {}
    BY <2>1, FS_EmptySet
  <2>2. CASE Alive # {}
    <3>1. PICK s \in Alive : TRUE
      BY <2>2
    <3>2. Alive = {s}
      BY <1>1, <3>1 DEF Single
    <3>3. Cardinality({s}) = 1
      BY FS_Singleton
    <3> QED BY <3>2, <3>3
  <2> QED BY <2>1, <2>2
<1> QED BY <1>1, <1>2 DEF OneSocket, Single, WasOpen

-----------------------------------------------------------------------------
(***************************************************************************)
(* BrowserTelemetry.  A pair of handlers is on window exactly when they    *)
(* are installed (Settings), so that a report is the first and only one of *)
(* its item (Reports).  Queues, batches and fates are apart from each      *)
(* other, the two queues included (Apart), since a new report is of a new  *)
(* item.                                                                   *)
(***************************************************************************)
ReportSet(n) == (1..n) \X {1}
Settings ==
  /\ flushTimer \in [Channels -> BOOLEAN] /\ enabled \in [Channels -> BOOLEAN]
  /\ installed \in BOOLEAN /\ listeners = One(installed)
  /\ crumbs \in 0..MaxCrumbs /\ maxBreadcrumbs \in 1..MaxCrumbs
  /\ telCalls \in 0..MaxTelCalls /\ items \in 0..MaxItems /\ boundary \in 0..items
Reports ==
  /\ queued \in [Channels -> SUBSET ReportSet(items)]
  /\ flying \in SUBSET (SUBSET ReportSet(items))
  /\ delivered \subseteq ReportSet(items) /\ dropped \subseteq ReportSet(items)
  /\ lost \subseteq ReportSet(items)
Apart ==
  /\ \A c \in Channels : queued[c] \cap Gone = {}
  /\ queued["errors"] \cap queued["vitals"] = {}
  /\ \A b \in flying : b \cap Gone = {} /\ \A c \in Channels : b \cap queued[c] = {}
  /\ \A b1, b2 \in flying : b1 # b2 => b1 \cap b2 = {}
  /\ dropped \cap delivered = {}
TelInv == Settings /\ Reports /\ Apart /\ NoneStranded

(* Reports of fewer items are reports of more, and none is of the next.    *)
LEMMA ReportSetGrows ==
  ASSUME NEW n \in Nat
  PROVE  /\ ReportSet(n) \subseteq ReportSet(n + 1)
         /\ <<n + 1, 1>> \in ReportSet(n + 1) /\ <<n + 1, 1>> \notin ReportSet(n)
<1>1. 1..n \subseteq 1..(n + 1) /\ n + 1 \in 1..(n + 1) /\ n + 1 \notin 1..n
  OBVIOUS
<1> QED BY <1>1 DEF ReportSet

(* What waits is in a batch or in a queue.                                 *)
LEMMA WaitingIn ==
  ASSUME NEW r \in Waiting
  PROVE  (\E b \in flying : r \in b) \/ (\E c \in Channels : r \in queued[c])
<1>1. CASE r \in UNION flying
  BY <1>1
<1>2. CASE r \in UNION {queued[c] : c \in Channels}
  BY <1>2
<1> QED BY <1>1, <1>2 DEF Waiting

(* Reports that wait are reports.                                          *)
LEMMA WaitingReports ==
  ASSUME Reports, NEW r \in Waiting
  PROVE  r \in ReportSet(items)
<1>1. CASE \E b \in flying : r \in b
  BY <1>1 DEF Reports
<1>2. CASE \E c \in Channels : r \in queued[c]
  BY <1>2 DEF Reports
<1> QED BY <1>1, <1>2, WaitingIn

(* A page that has just been loaded.                                       *)
LEMMA TelInvInit == TelInit => TelInv
<1> SUFFICES ASSUME TelInit PROVE TelInv
  OBVIOUS
<1>1. Settings
  BY CrumbsAssumption, TelBounds DEF TelInit, Settings, One
<1>2. Reports /\ Apart /\ NoneStranded
  BY DEF TelInit, Reports, Apart, NoneStranded, Channels, Gone
<1> QED BY <1>1, <1>2 DEF TelInv

(* A new item is collected by one reporter, or not at all.                 *)
LEMMA CollectInv ==
  ASSUME TelInv, NEW c \in Channels, NEW n \in {0, 1}, NewItem, Collect(c, n),
         UNCHANGED <<flying, fates, config, crumbs>>, boundary' \in 0..items'
  PROVE  TelInv'
<1>0. items \in Nat /\ items' = items + 1 /\ items' \in 0..MaxItems
  BY TelBounds DEF TelInv, Settings, NewItem
<1>1. /\ flying' = flying /\ delivered' = delivered /\ dropped' = dropped /\ lost' = lost
      /\ Gone' = Gone
  BY DEF fates, Gone
<1>2. CASE enabled[c] /\ n > 0
  <2> DEFINE x == <<items + 1, 1>>
  <2>1. n = 1 /\ {<<items + 1, k>> : k \in 1..n} = {x}
    BY <1>2
  <2>2. /\ queued' = [queued EXCEPT ![c] = @ \cup {x}]
        /\ flushTimer' = [flushTimer EXCEPT ![c] = TRUE]
    BY <1>2, <2>1 DEF Collect, scheduleFlush
  <2>3. /\ x \in ReportSet(items') /\ x \notin ReportSet(items)
        /\ ReportSet(items) \subseteq ReportSet(items')
    BY <1>0, ReportSetGrows
  <2> HIDE DEF x
  <2>4. Settings'
    BY <1>0, <2>2 DEF TelInv, Settings, config
  <2>5. Reports'
    BY <1>1, <2>2, <2>3 DEF TelInv, Reports
  <2>6. x \notin Gone /\ (\A b \in flying : x \notin b) /\ \A d \in Channels : x \notin queued[d]
    BY <2>3 DEF TelInv, Reports, Gone
  <2>7. Apart'
    <3>1. /\ \A d \in Channels : queued'[d] = IF d = c THEN queued[d] \cup {x} ELSE queued[d]
          /\ "errors" \in Channels /\ "vitals" \in Channels
      BY <2>2 DEF TelInv, Reports, Channels
    <3>2. queued'["errors"] \cap queued'["vitals"] = {}
      <4>1. /\ queued["errors"] \cap queued["vitals"] = {}
            /\ x \notin queued["errors"] /\ x \notin queued["vitals"]
        BY <2>6, <3>1 DEF TelInv, Apart
      <4>2. CASE c = "errors"
        BY <4>1, <4>2, <3>1
      <4>3. CASE c = "vitals"
        BY <4>1, <4>3, <3>1
      <4> QED BY <4>2, <4>3 DEF Channels
    <3>3. ASSUME NEW d \in Channels
          PROVE  queued'[d] \cap Gone' = {} /\ \A b \in flying : b \cap queued'[d] = {}
      <4>1. queued[d] \cap Gone = {} /\ \A b \in flying : b \cap queued[d] = {}
        BY DEF TelInv, Apart
      <4>2. queued'[d] \subseteq queued[d] \cup {x}
        BY <3>1
      <4> QED BY <1>1, <2>6, <4>1, <4>2
    <3> QED BY <1>1, <3>2, <3>3 DEF TelInv, Apart
  <2>8. NoneStranded'
    BY <2>2 DEF TelInv, NoneStranded, Settings, Reports
  <2> QED BY <2>4, <2>5, <2>7, <2>8 DEF TelInv
<1>3. CASE ~(enabled[c] /\ n > 0)
  <2>1. UNCHANGED <<queued, flushTimer>>
    BY <1>3 DEF Collect
  <2>2. ReportSet(items) \subseteq ReportSet(items')
    BY <1>0, ReportSetGrows
  <2>3. Settings'
    BY <1>0, <2>1 DEF TelInv, Settings, config
  <2>4. Reports' /\ Apart' /\ NoneStranded'
    BY <1>1, <2>1, <2>2 DEF TelInv, Reports, Apart, NoneStranded
  <2> QED BY <2>3, <2>4 DEF TelInv
<1> QED BY <1>2, <1>3

(* The queue of a reporter becomes a batch of its own.                     *)
LEMMA PostInv ==
  ASSUME TelInv, NEW c \in Channels, Post(c),
         flushTimer' = [flushTimer EXCEPT ![c] = FALSE],
         UNCHANGED <<fates, config, crumbs, boundary, items>>
  PROVE  TelInv'
<1>1. delivered' = delivered /\ dropped' = dropped /\ lost' = lost /\ Gone' = Gone
  BY DEF fates, Gone
<1>2. /\ queued' = [queued EXCEPT ![c] = {}]
      /\ flying' \in {flying, flying \cup {queued[c]}}
  BY DEF Post
<1>3. \A d \in Channels : queued'[d] = IF d = c THEN {} ELSE queued[d]
  BY <1>2 DEF TelInv, Reports
<1>4. Settings'
  BY DEF TelInv, Settings, config
<1>5. Reports'
  BY <1>1, <1>2 DEF TelInv, Reports
<1>6. Apart'
  <2>1. \A d \in Channels : queued'[d] \cap Gone' = {}
    BY <1>1, <1>3 DEF TelInv, Apart
  <2>2. queued'["errors"] \cap queued'["vitals"] = {}
    BY <1>3 DEF TelInv, Apart, Channels
  <2>3. \A d \in Channels : d # c => queued[c] \cap queued[d] = {}
    BY DEF TelInv, Apart, Channels
  <2>4. ASSUME NEW b \in flying'
        PROVE  b \cap Gone' = {} /\ \A d \in Channels : b \cap queued'[d] = {}
    <3>1. CASE b \in flying
      BY <3>1, <1>1, <1>3 DEF TelInv, Apart
    <3>2. CASE b = queued[c]
      BY <3>2, <2>3, <1>1, <1>3 DEF TelInv, Apart
    <3> QED BY <3>1, <3>2, <1>2
  <2>5. \A b1, b2 \in flying' : b1 # b2 => b1 \cap b2 = {}
    BY <1>2 DEF TelInv, Apart
  <2> QED BY <1>1, <2>1, <2>2, <2>4, <2>5 DEF TelInv, Apart
<1>7. NoneStranded'
  BY <1>3 DEF TelInv, NoneStranded, Settings
<1> QED BY <1>4, <1>5, <1>6, <1>7 DEF TelInv

(* A batch is delivered or dropped, as a whole.                            *)
LEMMA PostEndsInv ==
  ASSUME TelInv, NEW b \in flying, PostEnds(b)
  PROVE  TelInv'
<1>1. /\ flying' = flying \ {b} /\ UNCHANGED <<queued, flushTimer, lost>>
      /\ UNCHANGED <<config, crumbs, boundary, items>>
      /\ \/ delivered' = delivered \cup b /\ dropped' = dropped
         \/ dropped' = dropped \cup b /\ delivered' = delivered
  BY DEF PostEnds
<1>2. Gone' = Gone \cup b
  BY <1>1 DEF Gone
<1>3. Settings' /\ NoneStranded'
  BY <1>1 DEF TelInv, Settings, config, NoneStranded
<1>4. Reports'
  BY <1>1 DEF TelInv, Reports
<1>5. Apart'
  <2>1. b \cap delivered = {} /\ b \cap dropped = {}
    BY DEF TelInv, Apart, Gone
  <2>2. dropped' \cap delivered' = {}
    BY <1>1, <2>1 DEF TelInv, Apart
  <2>3. \A c \in Channels : queued'[c] \cap Gone' = {}
    BY <1>1, <1>2 DEF TelInv, Apart
  <2>4. ASSUME NEW d \in flying' PROVE d \cap Gone' = {}
    BY <1>1, <1>2 DEF TelInv, Apart
  <2> QED BY <1>1, <2>2, <2>3, <2>4 DEF TelInv, Apart
<1> QED BY <1>3, <1>4, <1>5 DEF TelInv

(* The page is loaded again: what waited is lost.                          *)
LEMMA ReloadInv ==
  ASSUME TelInv, boundaryReload PROVE TelInv'
<1>1. Settings'
  BY CrumbsAssumption DEF boundaryReload, TelInv, Settings, One
<1>2. NoneStranded' /\ Apart'
  BY DEF boundaryReload, TelInv, NoneStranded, Apart, Channels
<1>3. lost' \subseteq ReportSet(items)
  <2>1. lost' = lost \cup Waiting
    BY DEF boundaryReload
  <2>2. lost \subseteq ReportSet(items) /\ Reports
    BY DEF TelInv, Reports
  <2> QED BY <2>1, <2>2, WaitingReports
<1>4. Reports'
  BY <1>3 DEF boundaryReload, TelInv, Reports
<1> QED BY <1>1, <1>2, <1>4 DEF TelInv

(* Every step of the reporters keeps the invariant.                        *)
LEMMA TelInvNext == TelInv /\ [TelNext]_telVars => TelInv'
<1> SUFFICES ASSUME TelInv, [TelNext]_telVars PROVE TelInv'
  OBVIOUS
<1>0. /\ "errors" \in Channels /\ "vitals" \in Channels
      /\ listeners \in {0, 1} /\ items \in Nat /\ boundary \in 0..items
  BY TelBounds DEF Channels, TelInv, Settings, One
<1>1. CASE windowError
  <2>1. boundary' \in 0..items'
    BY <1>0, <1>1 DEF windowError, reportError, NewItem
  <2> QED BY <1>0, <1>1, <2>1, CollectInv DEF windowError, reportError
<1>2. CASE record
  <2>1. boundary' \in 0..items'
    BY <1>0, <1>2 DEF record, NewItem
  <2> QED BY <1>0, <1>2, <2>1, CollectInv DEF record
<1>3. CASE componentDidCatch
  <2>1. boundary' \in 0..items'
    BY <1>0, <1>3 DEF componentDidCatch, reportError, NewItem
  <2> QED BY <1>0, <1>3, <2>1, CollectInv DEF componentDidCatch, reportError
<1>4. CASE flushNow \/ flushVitals \/ flush \/ doFlush
  BY <1>0, <1>4, PostInv DEF flushNow, flushVitals, flush, doFlush, FlushNow, TimerFires
<1>5. CASE \E b \in flying : PostEnds(b)
  BY <1>5, PostEndsInv
<1>6. CASE boundaryReload
  BY <1>6, ReloadInv
<1>7. CASE addBreadcrumb
  <2>1. crumbs' \in 0..MaxCrumbs
    BY <1>7, CrumbsAssumption DEF addBreadcrumb, TelInv, Settings
  <2> QED BY <1>7, <2>1 DEF addBreadcrumb, fates, config, TelInv, Settings, Reports, Apart,
       Gone, NoneStranded
<1>8. CASE configureErrorReporter \/ configureVitalReporter
  <2>1. PICK c \in Channels, on \in BOOLEAN, max \in {1, MaxCrumbs} : configure(c, on, max)
    BY <1>0, <1>8 DEF configureErrorReporter, configureVitalReporter
  <2>2. Settings'
    BY <2>1, CrumbsAssumption, TelBounds DEF configure, TelCall, TelInv, Settings
  <2> QED BY <2>1, <2>2 DEF configure, fates, TelInv, Reports, Apart, Gone, NoneStranded
<1>9. CASE installGlobalErrorHandlers \/ uninstall
  <2>1. Settings'
    <3>1. telCalls' \in 0..MaxTelCalls
      BY <1>9, TelBounds DEF installGlobalErrorHandlers, uninstall, TelCall, TelInv, Settings
    <3>2. installed' \in BOOLEAN /\ listeners' = One(installed')
      <4>1. CASE installGlobalErrorHandlers
        BY <4>1 DEF installGlobalErrorHandlers, TelInv, Settings, One
      <4>2. CASE uninstall
        <5>1. installed = TRUE /\ listeners = One(installed)
          BY <4>2 DEF uninstall, TelInv, Settings
        <5>2. listeners = 1 /\ installed' = FALSE /\ listeners' = listeners - 1
          BY <4>2, <5>1 DEF uninstall, One
        <5>3. listeners' = 0
          BY <5>2
        <5> QED BY <5>2, <5>3, Zenon DEF One
      <4> QED BY <1>9, <4>1, <4>2
    <3> QED BY <1>9, <3>1, <3>2 DEF installGlobalErrorHandlers, uninstall, TelInv, Settings
  <2> QED BY <1>9, <2>1 DEF installGlobalErrorHandlers, uninstall, fates, TelInv, Reports,
       Apart, Gone, NoneStranded
<1>10. CASE boundaryReset
  BY <1>0, <1>10 DEF boundaryReset, fates, config, TelInv, Settings, Reports, Apart, Gone,
     NoneStranded
<1>11. CASE UNCHANGED telVars
  BY <1>11 DEF telVars, TelInv, Settings, Reports, Apart, Gone, NoneStranded
<1> QED BY <1>1, <1>2, <1>3, <1>4, <1>5, <1>6, <1>7, <1>8, <1>9, <1>10, <1>11
        DEF TelNext, TelSends

(* What the invariant says of reports, and of their types.                 *)
LEMMA TelInvSafe == TelInv => TelTypeOK /\ PostedOnce /\ NoneStranded /\ ReportedOnce
<1> SUFFICES ASSUME TelInv PROVE TelTypeOK /\ PostedOnce /\ ReportedOnce
  BY DEF TelInv
<1>1. Waiting \cup Gone \subseteq ReportSet(items)
  <2>1. Reports /\ Gone \subseteq ReportSet(items)
    BY DEF TelInv, Reports, Gone
  <2>2. Waiting \subseteq ReportSet(items)
    BY <2>1, WaitingReports
  <2> QED BY <2>1, <2>2
<1>2. PostedOnce
  <2>1. ASSUME NEW r \in Waiting PROVE r \notin Gone
    <3>1. (\E b \in flying : r \in b) \/ (\E c \in Channels : r \in queued[c])
      BY WaitingIn
    <3> QED BY <3>1 DEF TelInv, Apart
  <2>2. Waiting \cap Gone = {}
    BY <2>1
  <2> QED BY <2>2 DEF TelInv, Apart, PostedOnce
<1>3. ReportedOnce
  BY <1>1 DEF ReportedOnce, ReportSet
<1>4. TelTypeOK
  <2>1. /\ items \in 0..MaxItems /\ 1..items \subseteq 1..MaxItems
        /\ 1 \in 1..(MaxTelCalls + 1) /\ listeners \in 0..(MaxTelCalls + 1)
        /\ crumbs \in 0..MaxCrumbs + 1
    BY TelBounds, CrumbsAssumption DEF TelInv, Settings, One
  <2>2. /\ ReportSet(items) \subseteq (1..items) \X (1..MaxTelCalls + 1)
        /\ ReportSet(items) \subseteq (1..MaxItems) \X (1..MaxTelCalls + 1)
    BY <2>1 DEF ReportSet
  <2>3. \A c \in Channels : queued[c] \subseteq (1..MaxItems) \X (1..MaxTelCalls + 1)
    BY <2>2 DEF TelInv, Reports
  <2>4. Waiting \cup Gone \subseteq (1..items) \X (1..MaxTelCalls + 1)
    BY <1>1, <2>2
  <2> QED BY <2>1, <2>3, <2>4 DEF TelTypeOK, TelInv, Settings
<1> QED BY <1>2, <1>3, <1>4

(* A breadcrumb is never added past the limit.                             *)
LEMMA CrumbsStep == TelInv /\ [TelNext]_telVars => CrumbsCapped
<1> SUFFICES ASSUME TelInv, [TelNext]_telVars PROVE CrumbsCapped
  OBVIOUS
<1>1. crumbs \in Nat /\ maxBreadcrumbs \in Nat
  BY CrumbsAssumption DEF TelInv, Settings
<1>2. CASE addBreadcrumb
  BY <1>1, <1>2 DEF addBreadcrumb, CrumbsCapped
<1>3. CASE boundaryReload
  BY <1>1, <1>3 DEF boundaryReload, CrumbsCapped
<1>4. CASE crumbs' = crumbs
  BY <1>1, <1>4 DEF CrumbsCapped
<1>5. CASE windowError \/ record \/ componentDidCatch
  BY <1>4, <1>5 DEF windowError, record, componentDidCatch, reportError
<1>6. CASE flushNow \/ flushVitals \/ flush \/ doFlush \/ \E b \in flying : PostEnds(b)
  BY <1>4, <1>6 DEF flushNow, flushVitals, flush, doFlush, FlushNow, TimerFires, PostEnds
<1>7. CASE configureErrorReporter \/ configureVitalReporter
  BY <1>4, <1>7 DEF configureErrorReporter, configureVitalReporter, configure
<1>8. CASE installGlobalErrorHandlers \/ uninstall \/ boundaryReset \/ UNCHANGED telVars
  BY <1>4, <1>8 DEF installGlobalErrorHandlers, uninstall, boundaryReset, telVars
<1> QED BY <1>2, <1>3, <1>5, <1>6, <1>7, <1>8 DEF TelNext, TelSends

-----------------------------------------------------------------------------
(***************************************************************************)
(* TemplateChoice.  The parameters on the dialog fit the template that is  *)
(* selected, and so do those that were confirmed.                          *)
(***************************************************************************)
ParamSet == [nodeCount : 1..MaxNodeCount, create : SUBSET Kinds]
Fits(t, p) == p.nodeCount >= MinNodes(t)
TplInv ==
  /\ tplSelected \in Templates /\ tplParams \in ParamSet /\ Fits(tplSelected, tplParams)
  /\ tplConfirmed # Nothing =>
       /\ tplConfirmed.template \in Templates /\ tplConfirmed.params \in ParamSet
       /\ Fits(tplConfirmed.template, tplConfirmed.params)

(* Every template starts with parameters that fit.                         *)
LEMMA DefaultsFit ==
  ASSUME NEW t \in Templates
  PROVE  defaultParams(t) \in ParamSet /\ Fits(t, defaultParams(t))
<1> DEFINE n == IF t = "single" THEN 1 ELSE 2
           cr == CASE t = "single" -> {"collector"}
                   [] t = "physical" -> {"collector", "analyzer"}
                   [] OTHER -> Kinds
<1>1. n \in 1..MaxNodeCount /\ n >= MinNodes(t)
  BY NodeCountAssumption DEF MinNodes
<1>2. cr \in SUBSET Kinds
  BY DEF Kinds, Templates
<1>3. defaultParams(t) = [nodeCount |-> n, create |-> cr]
  BY DEF defaultParams
<1> QED BY <1>1, <1>2, <1>3 DEF ParamSet, Fits

(* The dialog before it is opened first.                                   *)
LEMMA TplInvInit == TplInit => TplInv
  BY DefaultsFit DEF TplInit, TplInv, Templates

(* Every step of the dialog keeps the invariant.                           *)
LEMMA TplInvNext == TplInv /\ [TplNext]_tplVars => TplInv'
<1> SUFFICES ASSUME TplInv, [TplNext]_tplVars PROVE TplInv'
  OBVIOUS
<1>1. CASE openTemplateDialog
  <2>1. "physical" \in Templates
    BY DEF Templates
  <2> QED BY <1>1, <2>1, DefaultsFit DEF openTemplateDialog, TplInv
<1>2. ASSUME NEW t \in Templates, handleSelect(t) PROVE TplInv'
  BY <1>2, DefaultsFit DEF handleSelect, TplInv
<1>3. ASSUME NEW n \in 1..MaxNodeCount, setNodeCount(n) PROVE TplInv'
  <2>1. tplParams' \in ParamSet /\ tplParams'.nodeCount = n
    BY <1>3 DEF setNodeCount, TplInv, ParamSet
  <2>2. Fits(tplSelected, tplParams')
    BY <1>3, <2>1, NodeCountAssumption DEF setNodeCount, Fits, MinNodes
  <2> QED BY <1>3, <2>1, <2>2 DEF setNodeCount, TplInv
<1>4. ASSUME NEW k \in Kinds, toggleCreate(k) PROVE TplInv'
  <2>1. tplParams' \in ParamSet /\ tplParams'.nodeCount = tplParams.nodeCount
    BY <1>4 DEF toggleCreate, TplInv, ParamSet
  <2> QED BY <1>4, <2>1 DEF toggleCreate, TplInv, Fits
<1>5. CASE onConfirm
  <2>1. /\ tplConfirmed'.template = tplSelected /\ tplConfirmed'.params = tplParams
        /\ UNCHANGED <<tplSelected, tplParams>>
    BY <1>5 DEF onConfirm
  <2> QED BY <2>1 DEF TplInv
<1>6. CASE onCancel \/ (\E m \in {"preview", "create"} : setMode(m)) \/ UNCHANGED tplVars
  BY <1>6 DEF onCancel, setMode, tplVars, TplInv
<1> QED BY <1>1, <1>2, <1>3, <1>4, <1>5, <1>6 DEF TplNext

(* What the invariant says of a project that is built.                     *)
LEMMA TplInvSafe == TplInv => ParamsFit /\ BuiltHasSource
<1> SUFFICES ASSUME TplInv, tplConfirmed # Nothing PROVE ParamsFit /\ BuiltHasSource
  BY DEF ParamsFit, BuiltHasSource
<1> DEFINE t == tplConfirmed.template
           q == tplConfirmed.params
           n == IF t = "single" THEN 1 ELSE q.nodeCount
           first == IF t = "logical" THEN "publisher" ELSE "primary"
           other == IF t = "logical" THEN "subscriber" ELSE "standby"
           p == buildProject(t, q)
           source == IF p.kind = "logical" THEN "publisher" ELSE "primary"
<1>1. t \in Templates /\ q \in ParamSet /\ q.nodeCount >= MinNodes(t)
  BY DEF TplInv, Fits
<1>2. q.nodeCount \in 1..MaxNodeCount /\ q.create \subseteq Kinds
  BY <1>1 DEF ParamSet
<1>3. ParamsFit
  BY <1>1, <1>2, NodeCountAssumption DEF ParamsFit, MinNodes
<1>4. n \in Nat \ {0} /\ (t # "single" => n > 1)
  BY <1>1, <1>2, NodeCountAssumption DEF MinNodes
<1>5. /\ p.kind = IF t = "logical" THEN "logical" ELSE "physical"
      /\ p.roles = [i \in 1..n |-> IF i = 1 THEN first ELSE other]
      /\ p.components = {[type |-> k, links |-> {1}] : k \in q.create}
  BY DEF buildProject, buildComponents
<1>6. source = first /\ first # other
  BY <1>5
<1>7. Len(p.roles) = n /\ p.roles[1] = first /\ \A j \in 1..n : p.roles[j] = first => j = 1
  <2>1. p.roles \in Seq({first, other}) /\ Len(p.roles) = n
    BY <1>4, <1>5
  <2>2. 1 \in 1..n
    BY <1>4
  <2> QED BY <2>1, <2>2, <1>5, <1>6
<1>8. {c.type : c \in p.components} = q.create
  <2>1. ASSUME NEW k \in q.create
        PROVE  [type |-> k, links |-> {1}] \in p.components
               /\ [type |-> k, links |-> {1}].type = k
    BY <1>5
  <2>2. ASSUME NEW c \in p.components PROVE c.type \in q.create
    BY <1>5
  <2> HIDE DEF p, q
  <2>3. \A k \in q.create : k \in {c.type : c \in p.components}
    BY <2>1
  <2>4. \A k \in {c.type : c \in p.components} : k \in q.create
    BY <2>2
  <2> QED BY <2>3, <2>4
<1>9. /\ \E i \in 1..Len(p.roles) : /\ p.roles[i] = source
                                    /\ \A j \in 1..Len(p.roles) : p.roles[j] = source => j = i
      /\ t # "single" => Len(p.roles) > 1
  <2>1. 1 \in 1..Len(p.roles)
    BY <1>4, <1>7
  <2> QED BY <2>1, <1>4, <1>6, <1>7
<1>10. BuiltHasSource
  BY <1>8, <1>9 DEF BuiltHasSource
<1> QED BY <1>3, <1>10

-----------------------------------------------------------------------------
(***************************************************************************)
(* HostView.  An addition under way keeps the button disabled, so that     *)
(* there is one at most (Ops).  What the page, the backend, a list read or *)
(* an update on its way holds of a host has its fields filled, or the host *)
(* is among those updated with an emptied form (Filled).  As long as       *)
(* operations did not overlap there is one at most, and the list is the    *)
(* backend's, or an error is shown, whenever no change is on its way to    *)
(* the list (Fresh).                                                       *)
(***************************************************************************)
Fields == {Blank, "host", "typed"}
HostMap == UNION {[D -> Fields] : D \in SUBSET (1..MaxHosts)}
OpSet == [n : Nat, kind : {"show", "add", "delete", "update", "scan"}, id : Nat, val : Fields,
          st : {"sent", "ok", "fail", "load", "end"}, ans : HostMap]
HostTypes ==
  /\ hostStore \in HostMap /\ hosts \in HostMap /\ form \in Fields
  /\ editingId \in 0..MaxHosts /\ hostCount \in Nat
  /\ showAdd \in BOOLEAN /\ submitting \in BOOLEAN /\ hostError \in BOOLEAN
  /\ loading \in BOOLEAN /\ scanned \in BOOLEAN /\ overlap \in BOOLEAN
  /\ dismissed \in BOOLEAN /\ emptied \in BOOLEAN
Ops ==
  /\ hostOps \subseteq OpSet
  /\ \A o \in hostOps : o.n =< hostCount /\ (o.kind = "add" => submitting)
  /\ \A o, p \in hostOps : o.n = p.n \/ (o.kind = p.kind /\ o.kind \in {"add", "scan"}) => o = p
NoBlank(f) == \A i \in DOMAIN f : f[i] = "typed" \/ i \in blanked
Sends(o) ==
  /\ o.kind = "add" => o.val = "typed"
  /\ o.kind = "update" => o.val = "typed" \/ o.id \in blanked
FormKept == editingId # 0 => form = "typed" \/ emptied \/ editingId \in blanked
Filled ==
  /\ NoBlank(hostStore) /\ NoBlank(hosts) /\ FormKept
  /\ \A o \in hostOps : NoBlank(o.ans) /\ Sends(o)
Agrees == hosts = hostStore \/ hostError \/ dismissed
Resting(o) == o.st \in {"sent", "end"} \/ (o.st = "ok" /\ o.kind = "scan")
Fresh ==
  /\ \A o, p \in hostOps : o = p
  /\ hostOps = {} => Agrees
  /\ \A o \in hostOps : (Resting(o) => Agrees) /\ (o.st = "load" => o.ans = hostStore)
HostInv == HostTypes /\ Ops /\ Filled /\ (~overlap => Fresh)

(* What a map of hosts is, and what is one.                                *)
LEMMA HostMapIs ==
  ASSUME NEW f \in HostMap
  PROVE  DOMAIN f \subseteq 1..MaxHosts /\ \A i \in DOMAIN f : f[i] \in Fields
  BY DEF HostMap

(* A function from some host ids to fields is a map of hosts.              *)
LEMMA HostMapIf ==
  ASSUME NEW D, D \subseteq 1..MaxHosts, NEW f \in [D -> Fields]
  PROVE  f \in HostMap
  BY DEF HostMap

(* The empty map of hosts.                                                 *)
LEMMA NoHostsIs == NoHosts \in HostMap /\ NoBlank(NoHosts)
<1>1. {} \subseteq 1..MaxHosts /\ NoHosts \in [{} -> Fields]
  BY DEF NoHosts
<1>2. NoHosts \in HostMap
  BY <1>1, HostMapIf
<1>3. NoBlank(NoHosts)
  BY <1>1 DEF NoBlank
<1> QED BY <1>2, <1>3

(* The page that is shown first.                                           *)
LEMMA HostInvInit == HostInit => HostInv
<1> SUFFICES ASSUME HostInit PROVE HostInv
  OBVIOUS
<1> DEFINE show == [n |-> 0, kind |-> "show", id |-> 0, val |-> Blank, st |-> "ok",
                    ans |-> NoHosts]
<1>1. hostStore \in [{1} -> Fields]
  BY DEF HostInit, Fields
<1>2. {1} \subseteq 1..MaxHosts
  BY HostsAssumption
<1>3. NoHosts \in HostMap /\ hostStore \in HostMap
  BY <1>1, <1>2, HostMapIf, NoHostsIs
<1>4. HostTypes
  <2>1. editingId \in 0..MaxHosts /\ hostCount \in Nat /\ form \in Fields /\ hosts = NoHosts
    BY HostsAssumption DEF HostInit, Fields
  <2>2. /\ showAdd = FALSE /\ submitting = FALSE /\ hostError = FALSE /\ loading = FALSE
        /\ scanned = FALSE /\ overlap = FALSE /\ dismissed = FALSE /\ emptied = FALSE
    BY DEF HostInit
  <2> QED BY <1>3, <2>1, <2>2 DEF HostTypes
<1>5. show \in OpSet /\ show.n = 0 /\ show.kind = "show" /\ show.st = "ok" /\ show.ans = NoHosts
  BY <1>3 DEF OpSet, Fields
<1>6. hostOps = {show}
  BY DEF HostInit
<1> HIDE DEF show
<1>7. Ops
  BY <1>5, <1>6 DEF HostInit, Ops
<1>8. NoBlank(NoHosts) /\ NoBlank(hostStore)
  BY NoHostsIs DEF NoBlank, HostInit
<1>9. Filled
  BY <1>5, <1>6, <1>8 DEF HostInit, Filled, FormKept, Sends
<1>10. Fresh
  BY <1>5, <1>6 DEF Fresh, Resting
<1> QED BY <1>4, <1>7, <1>9, <1>10 DEF HostInv

(* The dialogs change what is being edited, and fill the form.             *)
LEMMA DialogInv ==
  ASSUME HostInv, Dialog, showAdd' \in BOOLEAN, editingId' \in 0..MaxHosts, form' \in Fields,
         emptied' \in BOOLEAN, FormKept',
         \/ UNCHANGED <<hostError, dismissed>>
         \/ hostError' = FALSE /\ dismissed' = (dismissed \/ hostError)
  PROVE  HostInv'
<1>1. /\ UNCHANGED <<hostStore, hosts, submitting, loading, hostOps, hostCount, overlap,
                     blanked, scanned>>
  BY DEF Dialog
<1>2. HostTypes'
  BY <1>1 DEF HostInv, HostTypes
<1>3. Ops'
  BY <1>1 DEF HostInv, Ops
<1>4. Filled'
  BY <1>1 DEF HostInv, Filled, NoBlank, Sends
<1>5. Agrees => Agrees'
  BY <1>1 DEF Agrees
<1>6. ASSUME ~overlap PROVE Fresh'
  BY <1>1, <1>5, <1>6 DEF HostInv, Fresh, Resting
<1> QED BY <1>1, <1>2, <1>3, <1>4, <1>6 DEF HostInv

(* An operation starts.                                                    *)
LEMMA StartInv ==
  ASSUME HostInv, NEW k \in {"add", "delete", "update", "scan"}, NEW i \in Nat,
         NEW v \in Fields, Start(OpOf(k, i, v)), scanned' \in BOOLEAN,
         k = "add" => ~submitting /\ submitting',
         k # "add" => submitting' = submitting,
         k = "scan" => \A o \in hostOps : o.kind # "scan",
         blanked \subseteq blanked', k = "add" => v = "typed",
         k = "update" => v = "typed" \/ i \in blanked'
  PROVE  HostInv'
<1> DEFINE op == OpOf(k, i, v)
<1>1. /\ hostCount' = hostCount + 1 /\ hostOps' = hostOps \cup {op}
      /\ overlap' = (overlap \/ hostOps # {})
      /\ UNCHANGED <<hostStore, hosts, form, showAdd, editingId, loading, hostError,
                     dismissed, emptied>>
  BY DEF Start
<1>2. hostCount \in Nat
  BY DEF HostInv, HostTypes
<1>3. NoHosts \in HostMap /\ NoBlank(NoHosts)
  BY NoHostsIs
<1>4. op \in OpSet /\ op.n = hostCount + 1 /\ op.kind = k /\ op.val = v /\ op.st = "sent"
      /\ op.id = i /\ op.ans = NoHosts
  BY <1>2, <1>3 DEF OpSet, OpOf
<1> HIDE DEF op
<1>5. HostTypes'
  <2>1. overlap' \in BOOLEAN /\ submitting' \in BOOLEAN
    BY <1>1 DEF HostInv, HostTypes
  <2>2. hostCount' \in Nat
    BY <1>1, <1>2
  <2> QED BY <1>1, <2>1, <2>2 DEF HostInv, HostTypes
<1>6. Ops'
  <2>1. \A o \in hostOps : o \in OpSet /\ o.n \in Nat /\ o.n =< hostCount
    BY DEF HostInv, Ops, OpSet
  <2>2. \A o \in hostOps : o.n # op.n /\ o.n =< hostCount + 1
    BY <2>1, <1>2, <1>4
  <2>3. \A o \in hostOps : o.kind = op.kind => o.kind \notin {"add", "scan"}
    BY <1>4 DEF HostInv, Ops
  <2>4. \A o \in hostOps' : o \in OpSet /\ o.n =< hostCount'
    BY <1>1, <1>2, <1>4, <2>1, <2>2
  <2>5. \A o \in hostOps' : o.kind = "add" => submitting'
    BY <1>1, <1>4 DEF HostInv, Ops
  <2>6. ASSUME NEW o \in hostOps', NEW p \in hostOps',
               o.n = p.n \/ (o.kind = p.kind /\ o.kind \in {"add", "scan"})
        PROVE  o = p
    BY <1>1, <2>2, <2>3, <2>6 DEF HostInv, Ops
  <2> QED BY <2>4, <2>5, <2>6 DEF Ops
<1>7. Filled'
  <2>1. \A f : NoBlank(f) => NoBlank(f)'
    BY DEF NoBlank
  <2>2. FormKept'
    BY <1>1 DEF HostInv, Filled, FormKept
  <2>3. \A o \in hostOps' : NoBlank(o.ans)'
    BY <1>1, <1>3, <1>4 DEF HostInv, Filled, NoBlank
  <2>4. \A o \in hostOps' : Sends(o)'
    BY <1>1, <1>4 DEF HostInv, Filled, Sends
  <2>5. NoBlank(hostStore)' /\ NoBlank(hosts)'
    BY <1>1 DEF HostInv, Filled, NoBlank
  <2> QED BY <2>2, <2>3, <2>4, <2>5 DEF Filled
<1>8. ASSUME ~overlap' PROVE Fresh'
  <2>1. ~overlap /\ hostOps = {} /\ Fresh
    BY <1>1, <1>8 DEF HostInv
  <2>2. Agrees /\ Agrees' /\ hostOps' = {op}
    BY <1>1, <2>1 DEF Fresh, Agrees
  <2> QED BY <2>2, <1>4 DEF Fresh
<1> QED BY <1>1, <1>5, <1>6, <1>7, <1>8 DEF HostInv

(* An operation in another stage is still the same one.                    *)
LEMMA MoveIs ==
  ASSUME HostInv, NEW o \in hostOps, NEW s \in {"sent", "ok", "fail", "load", "end"},
         NEW a \in HostMap, Move(o, s, a)
  PROVE  \E q \in OpSet : /\ hostOps' = (hostOps \ {o}) \cup {q}
                          /\ q.n = o.n /\ q.kind = o.kind /\ q.val = o.val /\ q.id = o.id
                          /\ q.st = s /\ q.ans = a
<1> DEFINE q == [o EXCEPT !.st = s, !.ans = a]
<1>1. o \in OpSet
  BY DEF HostInv, Ops
<1>2. q \in OpSet /\ q.n = o.n /\ q.kind = o.kind /\ q.val = o.val /\ q.id = o.id
      /\ q.st = s /\ q.ans = a
  BY <1>1 DEF OpSet
<1>3. hostOps' = (hostOps \ {o}) \cup {q}
  BY DEF Move
<1> QED BY <1>2, <1>3

(* What a move keeps of the operations.                                    *)
LEMMA MoveOps ==
  ASSUME HostInv, NEW o \in hostOps, NEW q \in OpSet, hostOps' = (hostOps \ {o}) \cup {q},
         q.n = o.n, q.kind = o.kind, UNCHANGED <<hostCount, submitting>>
  PROVE  Ops'
<1>1. \A p \in hostOps' : p \in OpSet /\ p.n =< hostCount' /\ (p.kind = "add" => submitting')
  BY DEF HostInv, Ops
<1>2. ASSUME NEW p1 \in hostOps', NEW p2 \in hostOps',
             p1.n = p2.n \/ (p1.kind = p2.kind /\ p1.kind \in {"add", "scan"})
      PROVE  p1 = p2
  BY <1>2 DEF HostInv, Ops
<1> QED BY <1>1, <1>2 DEF Ops

(* The new id is free, and a bound tells whether it may be used.           *)
LEMMA NewHostIn ==
  ASSUME hostStore \in HostMap PROVE NewHost \in 1..(MaxHosts + 1)
<1> DEFINE S == (1..(MaxHosts + 1)) \ DOMAIN hostStore
<1>1. MaxHosts + 1 \in S
  <2>1. MaxHosts + 1 \in 1..(MaxHosts + 1) /\ MaxHosts + 1 \notin 1..MaxHosts
    BY HostsAssumption
  <2> QED BY <2>1, HostMapIs
<1>2. PICK x \in S : \A y \in S : <<y, x>> \notin OpToRel(<, Nat)
  <2>1. S \subseteq Nat /\ S # {}
    BY <1>1
  <2> QED BY <2>1, NatLessThanWellFounded, WFMin
<1>3. \A j \in 1..(x - 1) : j \in DOMAIN hostStore
  <2> SUFFICES ASSUME NEW j \in 1..(x - 1), j \notin DOMAIN hostStore PROVE FALSE
    OBVIOUS
  <2>1. x \in 1..(MaxHosts + 1) /\ j \in 1..(MaxHosts + 1) /\ j < x /\ j \in Nat /\ x \in Nat
    BY HostsAssumption
  <2> QED BY <1>2, <2>1 DEF OpToRel
<1>4. x \in 1..MaxHosts + 1 /\ x \notin DOMAIN hostStore
  OBVIOUS
<1> QED BY <1>3, <1>4 DEF NewHost

(* What the backend makes of an operation.                                 *)
LEMMA AppliedIs ==
  ASSUME hostStore \in HostMap, NEW o \in OpSet
  PROVE  /\ Applied(o) \in HostMap
         /\ o.kind = "scan" => Applied(o) = hostStore
         /\ NoBlank(hostStore) /\ Sends(o) => NoBlank(Applied(o))
<1>0. /\ DOMAIN hostStore \subseteq 1..MaxHosts /\ o.val \in Fields
      /\ \A i \in DOMAIN hostStore : hostStore[i] \in Fields
  BY HostMapIs DEF OpSet
<1>1. CASE o.kind = "add" /\ NewHost =< MaxHosts
  <2> DEFINE D == DOMAIN hostStore \cup {NewHost}
             f == [i \in D |-> IF i = NewHost THEN o.val ELSE hostStore[i]]
  <2>1. Applied(o) = f
    BY <1>1 DEF Applied
  <2>2. NewHost \in 1..MaxHosts
    BY <1>1, NewHostIn, HostsAssumption
  <2>3. f \in [D -> Fields] /\ D \subseteq 1..MaxHosts
    BY <1>0, <2>2
  <2>4. f \in HostMap
    BY <2>3, HostMapIf
  <2>5. NoBlank(hostStore) /\ Sends(o) => NoBlank(f)
    BY <1>1 DEF NoBlank, Sends
  <2> QED BY <1>1, <2>1, <2>4, <2>5
<1>2. CASE o.kind = "delete"
  <2> DEFINE D == DOMAIN hostStore \ {o.id}
             f == [i \in D |-> hostStore[i]]
  <2>1. Applied(o) = f
    BY <1>2 DEF Applied
  <2>2. f \in [D -> Fields] /\ D \subseteq 1..MaxHosts
    BY <1>0
  <2>3. f \in HostMap
    BY <2>2, HostMapIf
  <2>4. NoBlank(hostStore) => NoBlank(f)
    BY DEF NoBlank
  <2> QED BY <1>2, <2>1, <2>3, <2>4
<1>3. CASE o.kind = "update" /\ o.id \in DOMAIN hostStore
  <2> DEFINE f == [hostStore EXCEPT ![o.id] = o.val]
  <2>1. Applied(o) = f
    BY <1>3 DEF Applied
  <2>2. DOMAIN f = DOMAIN hostStore
        /\ \A i \in DOMAIN f : f[i] = IF i = o.id THEN o.val ELSE hostStore[i]
    OBVIOUS
  <2>3. f \in [DOMAIN hostStore -> Fields]
    BY <1>0 DEF HostMap
  <2>4. f \in HostMap
    BY <1>0, <2>3, HostMapIf
  <2>5. NoBlank(hostStore) /\ Sends(o) => NoBlank(f)
    BY <1>3, <2>2 DEF NoBlank, Sends
  <2> QED BY <1>3, <2>1, <2>4, <2>5
<1>4. CASE /\ ~(o.kind = "add" /\ NewHost =< MaxHosts) /\ o.kind # "delete"
           /\ ~(o.kind = "update" /\ o.id \in DOMAIN hostStore)
  BY <1>4 DEF Applied
<1> QED BY <1>1, <1>2, <1>3, <1>4

(* The backend carries an operation out, or a request fails.               *)
LEMMA BackendDoesInv ==
  ASSUME HostInv, NEW o \in hostOps, BackendDoes(o) PROVE HostInv'
<1>1. NoHosts \in HostMap /\ NoBlank(NoHosts)
  BY NoHostsIs
<1>2. PICK q \in OpSet : /\ hostOps' = (hostOps \ {o}) \cup {q}
                         /\ q.n = o.n /\ q.kind = o.kind /\ q.val = o.val /\ q.id = o.id
                         /\ q.st = "ok" /\ q.ans = NoHosts
  BY <1>1, MoveIs DEF BackendDoes
<1>3. /\ o.st = "sent" /\ hostStore' = Applied(o)
      /\ UNCHANGED <<hosts, form, showAdd, editingId, submitting, hostError, loading, scanned,
                     hostCount, overlap, dismissed, emptied, blanked>>
  BY DEF BackendDoes
<1>4. o \in OpSet /\ hostStore \in HostMap
  BY DEF HostInv, Ops, HostTypes
<1>5. HostTypes'
  BY <1>3, <1>4, AppliedIs DEF HostInv, HostTypes
<1>6. Ops'
  BY <1>2, <1>3, MoveOps
<1>7. Filled'
  <2>1. Filled /\ NoBlank(hostStore')
    BY <1>3, <1>4, AppliedIs DEF HostInv, Filled
  <2> QED BY <1>1, <1>2, <1>3, <2>1 DEF Filled, NoBlank, Sends, FormKept
<1>8. ASSUME ~overlap PROVE Fresh'
  <2>1. Fresh /\ hostOps' = {q}
    BY <1>2, <1>8 DEF HostInv, Fresh
  <2>2. Resting(q) => q.kind = "scan"
    BY <1>2 DEF Resting
  <2>3. q.kind = "scan" => Agrees'
    BY <1>2, <1>3, <1>4, <2>1, AppliedIs DEF Fresh, Resting, Agrees
  <2> QED BY <1>2, <2>1, <2>2, <2>3 DEF Fresh
<1> QED BY <1>3, <1>5, <1>6, <1>7, <1>8 DEF HostInv

(* A failed request leaves only its operation changed.                     *)
LEMMA RequestFailsInv ==
  ASSUME HostInv, NEW o \in hostOps, RequestFails(o) PROVE HostInv'
<1>1. NoHosts \in HostMap /\ NoBlank(NoHosts)
  BY NoHostsIs
<1>2. PICK q \in OpSet : /\ hostOps' = (hostOps \ {o}) \cup {q}
                         /\ q.n = o.n /\ q.kind = o.kind /\ q.val = o.val /\ q.id = o.id
                         /\ q.st = "fail" /\ q.ans = NoHosts
  BY <1>1, MoveIs DEF RequestFails
<1>3. UNCHANGED <<hostStore, hosts, form, showAdd, editingId, submitting, hostError, loading,
                  scanned, hostCount, overlap, dismissed, emptied, blanked>>
  BY DEF RequestFails
<1>4. HostTypes' /\ Ops'
  BY <1>2, <1>3, MoveOps DEF HostInv, HostTypes
<1>5. Filled'
  BY <1>1, <1>2, <1>3 DEF HostInv, Filled, NoBlank, Sends, FormKept
<1>6. ASSUME ~overlap PROVE Fresh'
  BY <1>2, <1>6 DEF HostInv, Fresh, Resting
<1> QED BY <1>3, <1>4, <1>5, <1>6 DEF HostInv

(* The list is asked for, and what was read comes back or is lost.         *)
LEMMA LoadHostsInv ==
  ASSUME HostInv, NEW o \in hostOps, loadHosts(o) PROVE HostInv'
<1>1. hostStore \in HostMap
  BY DEF HostInv, HostTypes
<1>2. PICK q \in OpSet : /\ hostOps' = (hostOps \ {o}) \cup {q}
                         /\ q.n = o.n /\ q.kind = o.kind /\ q.val = o.val /\ q.id = o.id
                         /\ q.st = "load" /\ q.ans = hostStore
  BY <1>1, MoveIs DEF loadHosts
<1>3. /\ hostError' = FALSE /\ loading' = TRUE
      /\ UNCHANGED <<hostStore, hosts, form, showAdd, editingId, submitting, scanned,
                     hostCount, overlap, dismissed, emptied, blanked>>
  BY DEF loadHosts
<1>4. HostTypes' /\ Ops'
  BY <1>2, <1>3, MoveOps DEF HostInv, HostTypes
<1>5. Filled'
  BY <1>2, <1>3 DEF HostInv, Filled, NoBlank, Sends, FormKept
<1>6. ASSUME ~overlap PROVE Fresh'
  BY <1>2, <1>3, <1>6 DEF HostInv, Fresh, Resting
<1> QED BY <1>3, <1>4, <1>5, <1>6 DEF HostInv

(* The answer to a reload becomes the list shown.                          *)
LEMMA LoadedInv ==
  ASSUME HostInv, NEW o \in hostOps, loaded(o) PROVE HostInv'
<1>1. NoHosts \in HostMap /\ NoBlank(NoHosts)
  BY NoHostsIs
<1>2. PICK q \in OpSet : /\ hostOps' = (hostOps \ {o}) \cup {q}
                         /\ q.n = o.n /\ q.kind = o.kind /\ q.val = o.val /\ q.id = o.id
                         /\ q.st = "end" /\ q.ans = NoHosts
  BY <1>1, MoveIs DEF loaded, LoadEnds
<1>3. /\ o.st = "load" /\ loading' = FALSE
      /\ \/ hosts' = o.ans /\ dismissed' = FALSE /\ hostError' = hostError
         \/ hostError' = TRUE /\ UNCHANGED <<hosts, dismissed>>
      /\ UNCHANGED <<hostStore, form, showAdd, editingId, submitting, scanned, hostCount,
                     overlap, emptied, blanked>>
  BY DEF loaded, LoadEnds
<1>4. o.ans \in HostMap
  BY DEF HostInv, Ops, OpSet
<1>5. HostTypes' /\ Ops'
  BY <1>2, <1>3, <1>4, MoveOps DEF HostInv, HostTypes
<1>6. Filled'
  <2>1. Filled /\ NoBlank(hosts')
    BY <1>3 DEF HostInv, Filled
  <2> QED BY <1>1, <1>2, <1>3, <2>1 DEF Filled, NoBlank, Sends, FormKept
<1>7. ASSUME ~overlap PROVE Fresh'
  <2>1. Fresh /\ hostOps' = {q} /\ o.ans = hostStore
    BY <1>2, <1>3, <1>7 DEF HostInv, Fresh
  <2>2. Agrees'
    BY <1>3, <2>1 DEF Agrees
  <2> QED BY <1>2, <2>1, <2>2 DEF Fresh
<1> QED BY <1>3, <1>5, <1>6, <1>7 DEF HostInv

(* An operation ends.                                                      *)
LEMMA FinishInv ==
  ASSUME HostInv, NEW o \in hostOps,
         addDone(o) \/ updateDone(o) \/ otherDone(o) \/ scanDone(o) \/ opFailed(o)
  PROVE  HostInv'
<1>0. HostTypes /\ Ops
  BY DEF HostInv
<1>1. /\ hostOps' = hostOps \ {o}
      /\ UNCHANGED <<hostStore, hosts, loading, hostCount, overlap, dismissed, blanked>>
  BY DEF addDone, updateDone, otherDone, scanDone, opFailed, Finish
<1>2. /\ form' \in {form, Blank} /\ editingId' \in {0, editingId}
      /\ \/ form' = form /\ emptied' = emptied
         \/ editingId' = 0
         \/ editingId' = editingId /\ emptied' = (editingId # 0)
  BY DEF addDone, updateDone, otherDone, scanDone, opFailed
<1>3. emptied' \in BOOLEAN
  <2>1. emptied' \in {emptied, editingId # 0, FALSE}
    BY DEF addDone, updateDone, otherDone, scanDone, opFailed
  <2> QED BY <2>1, <1>0 DEF HostTypes
<1>4. /\ showAdd' \in BOOLEAN /\ scanned' \in BOOLEAN /\ hostError' \in BOOLEAN
      /\ submitting' \in BOOLEAN
  BY <1>0 DEF HostTypes, addDone, updateDone, otherDone, scanDone, opFailed
<1>5. submitting' = submitting \/ o.kind = "add"
  <2>1. CASE opFailed(o)
    BY <2>1, <1>0 DEF opFailed, HostTypes
  <2>2. CASE addDone(o)
    BY <2>2 DEF addDone
  <2>3. CASE updateDone(o) \/ otherDone(o) \/ scanDone(o)
    BY <2>3 DEF updateDone, otherDone, scanDone
  <2> QED BY <2>1, <2>2, <2>3
<1>6. HostTypes'
  <2>1. form' \in Fields /\ editingId' \in 0..MaxHosts
    BY <1>0, <1>2, HostsAssumption DEF HostTypes, Fields
  <2> QED BY <1>0, <1>1, <1>3, <1>4, <2>1 DEF HostTypes
<1>7. Ops'
  <2>1. \A p \in hostOps' : p.kind = "add" => submitting'
    BY <1>0, <1>1, <1>5 DEF Ops
  <2> QED BY <1>0, <1>1, <2>1 DEF Ops
<1>8. Filled'
  <2>1. FormKept'
    BY <1>1, <1>2, <1>3 DEF HostInv, Filled, FormKept
  <2> QED BY <1>1, <2>1 DEF HostInv, Filled, NoBlank, Sends
<1>9. ASSUME ~overlap PROVE Fresh'
  <2>1. Fresh /\ hostOps' = {}
    BY <1>1, <1>9 DEF HostInv, Fresh
  <2>2. hostError' = TRUE \/ (Resting(o) /\ hostError' = hostError)
    BY DEF Resting, addDone, updateDone, otherDone, scanDone, opFailed
  <2>3. Agrees'
    BY <1>1, <2>1, <2>2 DEF Fresh, Agrees
  <2> QED BY <2>1, <2>3 DEF Fresh
<1> QED BY <1>1, <1>6, <1>7, <1>8, <1>9 DEF HostInv

(* Every step of the page keeps the invariant.                             *)
LEMMA HostInvNext == HostInv /\ [HostNext]_hostVars => HostInv'
<1> SUFFICES ASSUME HostInv, [HostNext]_hostVars PROVE HostInv'
  OBVIOUS
<1>0. /\ HostTypes /\ Filled /\ DOMAIN hosts \subseteq 1..MaxHosts
      /\ \A i \in DOMAIN hosts : hosts[i] \in Fields
  BY HostMapIs DEF HostInv, HostTypes
<1>1. CASE openAdd \/ closeAdd
  <2>1. /\ Dialog /\ showAdd' \in BOOLEAN /\ UNCHANGED <<form, hostError, dismissed>>
        /\ \/ editingId' = 0 /\ emptied' = FALSE
           \/ UNCHANGED <<editingId, emptied>>
    BY <1>1 DEF openAdd, closeAdd
  <2>2. editingId' \in 0..MaxHosts /\ form' \in Fields
    BY <1>0, <2>1, HostsAssumption DEF HostTypes
  <2>3. emptied' \in BOOLEAN
    <3>1. emptied' \in {FALSE, emptied}
      BY <2>1
    <3> QED BY <3>1, <1>0 DEF HostTypes
  <2>4. FormKept'
    <3>1. blanked' = blanked
      BY <2>1 DEF Dialog
    <3> QED BY <1>0, <2>1, <3>1 DEF Filled, FormKept
  <2> QED BY <2>1, <2>2, <2>3, <2>4, DialogInv
<1>2. CASE importScanned \/ typeForm
  <2>1. /\ Dialog /\ showAdd' \in BOOLEAN /\ editingId' = editingId /\ form' \in Fields
        /\ form' \in {form, "typed"} \/ form = Blank \/ emptied' \/ editingId = 0
        /\ emptied' \in BOOLEAN /\ (emptied => emptied')
        /\ UNCHANGED <<hostError, dismissed>>
    BY <1>0, <1>2 DEF importScanned, typeForm, HostTypes, Fields, Blank
  <2>2. FormKept'
    BY <1>0, <2>1 DEF Filled, FormKept, Dialog, Blank
  <2> QED BY <1>0, <2>1, <2>2, DialogInv DEF HostTypes
<1>3. ASSUME NEW i \in DOMAIN hosts, startEdit(i) PROVE HostInv'
  <2>1. /\ Dialog /\ showAdd' = showAdd /\ editingId' = i /\ form' = hosts[i]
        /\ emptied' = FALSE /\ UNCHANGED <<hostError, dismissed>>
    BY <1>3 DEF startEdit
  <2>2. FormKept'
    BY <1>0, <2>1 DEF Filled, NoBlank, FormKept, Dialog
  <2>3. i \in 0..MaxHosts /\ hosts[i] \in Fields /\ showAdd \in BOOLEAN
    BY <1>0 DEF HostTypes
  <2> QED BY <2>1, <2>2, <2>3, DialogInv
<1>4. CASE cancelEdit
  <2>1. /\ Dialog /\ showAdd' = showAdd /\ editingId' = 0 /\ form' = form
        /\ emptied' = FALSE /\ hostError' = FALSE /\ dismissed' = (dismissed \/ hostError)
    BY <1>4 DEF cancelEdit
  <2>2. 0 \in 0..MaxHosts /\ form \in Fields /\ showAdd \in BOOLEAN
    BY <1>0, HostsAssumption DEF HostTypes
  <2>3. emptied' \in BOOLEAN /\ FormKept'
    BY <2>1 DEF FormKept
  <2> QED BY <2>1, <2>2, <2>3, DialogInv
<1>5. CASE handleAddHost
  <2>1. /\ Start(OpOf("add", 0, form)) /\ ~submitting /\ submitting' = TRUE /\ form = "typed"
        /\ scanned' \in BOOLEAN /\ form \in Fields /\ blanked \subseteq blanked'
    BY <1>0, <1>5 DEF handleAddHost, HostTypes
  <2> QED BY <2>1, StartInv
<1>6. ASSUME NEW i \in DOMAIN hosts, handleDeleteHost(i) PROVE HostInv'
  <2>1. /\ Start(OpOf("delete", i, Blank)) /\ submitting' = submitting
        /\ scanned' \in BOOLEAN /\ i \in Nat /\ Blank \in Fields /\ blanked \subseteq blanked'
    BY <1>0, <1>6 DEF handleDeleteHost, HostTypes, Fields
  <2> QED BY <2>1, StartInv
<1>7. CASE handleUpdateHost
  <2>1. /\ Start(OpOf("update", editingId, form)) /\ submitting' = submitting
        /\ scanned' \in BOOLEAN /\ editingId \in Nat /\ form \in Fields /\ editingId # 0
        /\ blanked \subseteq blanked'
        /\ emptied /\ form # "typed" => editingId \in blanked'
    BY <1>0, <1>7 DEF handleUpdateHost, HostTypes
  <2>2. form = "typed" \/ editingId \in blanked'
    BY <1>0, <2>1 DEF Filled, FormKept
  <2> QED BY <2>1, <2>2, StartInv
<1>8. CASE handleScan
  <2>1. /\ Start(OpOf("scan", 0, Blank)) /\ submitting' = submitting
        /\ scanned' \in BOOLEAN /\ Blank \in Fields /\ blanked \subseteq blanked' /\ \A o \in hostOps : o.kind # "scan"
    BY <1>8 DEF handleScan, Fields
  <2> QED BY <2>1, StartInv
<1>9. ASSUME NEW o \in hostOps, BackendDoes(o) \/ RequestFails(o) \/ loadHosts(o) \/ loaded(o)
      PROVE  HostInv'
  BY <1>9, BackendDoesInv, RequestFailsInv, LoadHostsInv, LoadedInv
<1>10. ASSUME NEW o \in hostOps,
              addDone(o) \/ updateDone(o) \/ otherDone(o) \/ scanDone(o) \/ opFailed(o)
       PROVE  HostInv'
  BY <1>10, FinishInv
<1>11. CASE UNCHANGED hostVars
  BY <1>11 DEF hostVars, HostInv, HostTypes, Ops, Filled, NoBlank, Sends, FormKept,
                   Fresh, Agrees, Resting
<1> QED BY <1>1, <1>2, <1>3, <1>4, <1>5, <1>6, <1>7, <1>8, <1>9, <1>10, <1>11
        DEF HostNext, HostUser, HostSteps

(* What the invariant says of the page.                                    *)
LEMMA HostInvSafe == HostInv => HostTypeOK /\ HostListFresh /\ NoBlankHost
<1> SUFFICES ASSUME HostInv PROVE HostTypeOK /\ HostListFresh /\ NoBlankHost
  OBVIOUS
<1>1. DOMAIN hostStore \subseteq 1..MaxHosts /\ DOMAIN hosts \subseteq 1..MaxHosts
  BY HostMapIs DEF HostInv, HostTypes
<1>2. HostTypeOK
  BY <1>1 DEF HostInv, HostTypes, Ops, HostTypeOK, Fields
<1>3. HostListFresh
  BY DEF HostInv, Fresh, Agrees, HostListFresh
<1>4. NoBlankHost
  BY DEF HostInv, Filled, NoBlank, FormKept, NoBlankHost
<1> QED BY <1>2, <1>3, <1>4

-----------------------------------------------------------------------------
(***************************************************************************)
(* ApiClient.  The attempts sent are among those made so far (Counted);    *)
(* only a call that may be retried, and has an attempt left, is ever       *)
(* asleep (Asleep), hence the counter of any other call stays 0, and it    *)
(* stays within the attempts when it is increased; an error that may not   *)
(* be retried is the last thing that happens to a call (Refused).          *)
(***************************************************************************)
Counted == sent \subseteq 0..attempt /\ (~retryOn => attempt = 0)
Asleep == pc = "sleep" => retryOn /\ attempt < MaxRetries
Refused ==
  /\ lastError = 404 => pc = "done" /\ outcome = "error"
  /\ pc # "done" => outcome = "none"
ApiInv == ApiTypeOK /\ Counted /\ Asleep /\ Refused /\ RefusalIsFinal

(* A call starts in the invariant.                                         *)
LEMMA ApiInvInit == ApiInit => ApiInv
<1> SUFFICES ASSUME ApiInit PROVE ApiInv
  OBVIOUS
<1>1. retryOn \in BOOLEAN /\ signal \in BOOLEAN
  BY Zenon DEF ApiInit
<1>2. /\ attempt \in Attempts /\ attempt = 0 /\ sent = {} /\ handled = {} /\ pc = "start"
      /\ outcome = "none" /\ lastError = NoError /\ NoError # 404
  BY RetriesAssumption DEF ApiInit, Attempts, NoError
<1>3. ApiTypeOK /\ Counted
  BY <1>1, <1>2 DEF ApiTypeOK, Counted
<1>4. Asleep /\ Refused /\ RefusalIsFinal
  BY <1>2 DEF Asleep, Refused, RefusalIsFinal
<1> QED BY <1>3, <1>4 DEF ApiInv

(* An attempt that starts is sent under the present count, or not at all.  *)
LEMMA RunFetchInv ==
  ASSUME ApiInv, runFetch PROVE ApiInv'
<1> USE DEF ApiInv, runFetch
<1>1. ApiTypeOK'
  BY RetriesAssumption DEF ApiTypeOK, Attempts
<1>2. Counted'
  BY RetriesAssumption DEF ApiTypeOK, Attempts, Counted
<1>3. Asleep' /\ Refused' /\ RefusalIsFinal'
  BY DEF Asleep, Refused, RefusalIsFinal, ApiTypeOK
<1> QED BY <1>1, <1>2, <1>3

(* The backend handles only what was sent.                                 *)
LEMMA BackendHandlesInv ==
  ASSUME ApiInv, NEW a \in Attempts, BackendHandles(a) PROVE ApiInv'
<1> USE DEF ApiInv, BackendHandles
<1>1. ApiTypeOK'
  BY DEF ApiTypeOK
<1>2. Counted' /\ Asleep' /\ Refused' /\ RefusalIsFinal'
  BY DEF Counted, Asleep, Refused, RefusalIsFinal
<1> QED BY <1>1, <1>2

(* A 2xx answer ends the call, and answers the present attempt.            *)
LEMMA ParseBodyInv ==
  ASSUME ApiInv, parseBody PROVE ApiInv'
<1> USE DEF ApiInv, parseBody, Settle
<1>1. ApiTypeOK'
  BY DEF ApiTypeOK
<1>2. Counted' /\ Asleep' /\ Refused' /\ RefusalIsFinal'
  BY DEF Counted, Asleep, Refused, RefusalIsFinal
<1> QED BY <1>1, <1>2

(* A retry or the end of the call, for any error that is recorded and is   *)
(* not retried when it is a refusal.                                       *)
LEMMA RetryInv ==
  ASSUME ApiInv, pc = "fetch", NEW may \in BOOLEAN, RetryOrThrow(may),
         lastError' \in HttpErrors \cup {NetworkError}, lastError' = 404 => ~may,
         UNCHANGED <<retryOn, attempt, signal, sent, handled>>
  PROVE  ApiInv'
<1> USE DEF ApiInv
<1>1. \/ retryOn /\ attempt < MaxRetries /\ may /\ pc' = "sleep" /\ outcome' = outcome
      \/ pc' = "done" /\ outcome' = "error"
  BY DEF RetryOrThrow, Settle
<1>2. outcome = "none"
  BY DEF Refused
<1>3. ApiTypeOK'
  BY <1>1 DEF ApiTypeOK
<1>4. Counted'
  BY DEF Counted
<1>5. Asleep' /\ Refused' /\ RefusalIsFinal'
  BY <1>1, <1>2 DEF Asleep, Refused, RefusalIsFinal
<1> QED BY <1>3, <1>4, <1>5

(* An error of the backend: a refusal is not retryable.                    *)
LEMMA HttpErrorInv ==
  ASSUME ApiInv, NEW s \in HttpErrors, httpError(s) PROVE ApiInv'
<1>1. isRetryable(s) \in BOOLEAN /\ (s = 404 => ~isRetryable(s))
  BY DEF isRetryable, NetworkError
<1> QED BY <1>1, RetryInv DEF httpError

(* A network error, which an abort is one of.                              *)
LEMMA NetworkErrorInv ==
  ASSUME ApiInv, networkError PROVE ApiInv'
<1>1. (~signal) \in BOOLEAN /\ NetworkError # 404
  BY DEF NetworkError
<1> QED BY <1>1, RetryInv DEF networkError

(* The pause ends; the count is still that of an attempt.                  *)
LEMMA SleepInv ==
  ASSUME ApiInv, sleep PROVE ApiInv'
<1> USE DEF ApiInv, sleep
<1>1. retryOn /\ attempt < MaxRetries /\ outcome = "none" /\ lastError # 404
  BY DEF Asleep, Refused
<1>2. ApiTypeOK'
  BY <1>1, RetriesAssumption DEF ApiTypeOK, Attempts
<1>3. Counted'
  BY <1>1, RetriesAssumption DEF ApiTypeOK, Attempts, Counted
<1>4. Asleep' /\ Refused' /\ RefusalIsFinal'
  BY <1>1 DEF Asleep, Refused, RefusalIsFinal
<1> QED BY <1>2, <1>3, <1>4

(* An abort by itself changes nothing the invariant speaks of.             *)
LEMMA CallerAbortsInv ==
  ASSUME ApiInv, CallerAborts PROVE ApiInv'
  BY DEF CallerAborts, ApiInv, ApiTypeOK, Counted, Asleep, Refused, RefusalIsFinal

(* Every step of a call keeps the invariant.                               *)
LEMMA ApiInvNext == ApiInv /\ [ApiNext]_apiVars => ApiInv'
<1> SUFFICES ASSUME ApiInv, [ApiNext]_apiVars PROVE ApiInv'
  OBVIOUS
<1>1. CASE runFetch            BY <1>1, RunFetchInv
<1>2. CASE parseBody           BY <1>2, ParseBodyInv
<1>3. CASE networkError        BY <1>3, NetworkErrorInv
<1>4. CASE sleep               BY <1>4, SleepInv
<1>5. CASE \E s \in HttpErrors : httpError(s)       BY <1>5, HttpErrorInv
<1>6. CASE CallerAborts        BY <1>6, CallerAbortsInv
<1>7. CASE \E a \in Attempts : BackendHandles(a)    BY <1>7, BackendHandlesInv
<1>8. CASE UNCHANGED apiVars
  BY <1>8 DEF apiVars, ApiInv, ApiTypeOK, Counted, Asleep, Refused, RefusalIsFinal
<1> QED
  BY <1>1, <1>2, <1>3, <1>4, <1>5, <1>6, <1>7, <1>8 DEF ApiNext, ApiClientSteps

(* What the invariant says of a call.                                      *)
LEMMA ApiInvSafe == ApiInv => ApiTypeOK /\ CallSafe
  BY DEF ApiInv, ApiTypeOK, Counted, AttemptsBounded, CallSafe

(* After an abort no step sends an attempt.                                *)
LEMMA NothingSentStep == [ApiNext]_apiVars => NothingSent
<1> SUFFICES ASSUME [ApiNext]_apiVars, signal PROVE sent' = sent
  BY DEF NothingSent
<1>1. CASE runFetch
  BY <1>1 DEF runFetch
<1>2. CASE parseBody \/ networkError \/ sleep \/ CallerAborts \/ UNCHANGED apiVars
  BY <1>2 DEF parseBody, networkError, sleep, CallerAborts, apiVars
<1>3. CASE \E s \in HttpErrors : httpError(s)
  BY <1>3 DEF httpError
<1>4. CASE \E a \in Attempts : BackendHandles(a)
  BY <1>4 DEF BackendHandles
<1> QED BY <1>1, <1>2, <1>3, <1>4 DEF ApiNext, ApiClientSteps

-----------------------------------------------------------------------------
(***************************************************************************)
(* NodePages.  As long as requests did not overlap there is one at most,   *)
(* the last one, and the spinner is there for it.                          *)
(***************************************************************************)
PagesInv ==
  /\ lastQuery \in Nat
  /\ ~queriesCrossed =>
       /\ queries \subseteq {lastQuery} /\ (queries # {} => pageLoading)
       /\ (queries = {} /\ page # "clog") => shownAnswer \in {0, lastQuery}

(* The pages start without an answer.                                      *)
LEMMA PagesInvInit == PageInit => PagesInv
<1> SUFFICES ASSUME PageInit PROVE PagesInv
  OBVIOUS
<1>1. CASE page = "sql"
  BY <1>1 DEF PageInit, PagesInv
<1>2. CASE page # "sql"
  <2>1. lastQuery = 1 /\ queries = {1} /\ pageLoading = TRUE
    BY <1>2 DEF PageInit
  <2> QED BY <2>1 DEF PagesInv
<1> QED BY <1>1, <1>2

(* Every step of the pages keeps the invariant.                            *)
LEMMA PagesInvNext == PagesInv /\ [PageNext]_pageVars => PagesInv'
<1> SUFFICES ASSUME PagesInv, [PageNext]_pageVars PROVE PagesInv'
  OBVIOUS
<1>1. CASE AskPage(lastQuery + 1)
  <2>1. lastQuery' \in Nat /\ lastQuery' = lastQuery + 1
    BY <1>1 DEF AskPage, PagesInv
  <2>2. ASSUME ~queriesCrossed'
        PROVE  queries' = {lastQuery'} /\ pageLoading'
    BY <1>1, <2>2 DEF AskPage
  <2> QED BY <2>1, <2>2 DEF PagesInv
<1>2. ASSUME NEW n \in 1..MaxQueries, answerArrives(n) \/ answerFails(n) \/ answerEmpty(n)
      PROVE  PagesInv'
  <2>1. /\ n \in queries /\ queries' = queries \ {n} /\ shownAnswer' \in {n, 0, shownAnswer}
        /\ (shownAnswer' = shownAnswer => page = "clog" \/ shownAnswer \in {n, 0})
        /\ UNCHANGED <<page, lastQuery, queriesCrossed>>
    BY <1>2 DEF answerArrives, answerFails, answerEmpty
  <2>2. ASSUME ~queriesCrossed PROVE n = lastQuery /\ queries' = {}
    BY <2>1, <2>2 DEF PagesInv
  <2> QED BY <2>1, <2>2 DEF PagesInv
<1>3. CASE UNCHANGED pageVars
  BY <1>3 DEF pageVars, PagesInv
<1> QED BY <1>1, <1>2, <1>3 DEF PageNext, fetchWALRecords, fetchCLOGStats, handleExecute,
     ctrlEnter

(* The answer shown is the last one.                                       *)
LEMMA PagesInvSafe == PagesInv => AnswerIsLast
  BY DEF PagesInv, AnswerIsLast

-----------------------------------------------------------------------------
(***************************************************************************)
(* SnapshotView.  A request that is under way carries backends, at least   *)
(* the one that is there at all times, and a list of rows (Listed).        *)
(*                                                                         *)
(* What the lock graph of a list of rows is follows by induction over the  *)
(* list: after the first n rows the keys are theirs, each once, and the    *)
(* edges those of the rows of known backends, in their order (GraphRight). *)
(***************************************************************************)
Listed ==
  /\ world.locks \in Seq(Rows) /\ snapshot.locks \in Seq(Rows)
  /\ \A k \in 1..MaxSnapFlight : snapAsks[k].ans.locks \in Seq(Rows)
SnapInv ==
  /\ Listed
  /\ DOMAIN snapAsks = 1..MaxSnapFlight /\ world.backends # {}
  /\ \A k \in 1..MaxSnapFlight : snapAsks[k] # NoSnap => snapAsks[k].ans.backends # {}
  /\ loadedOnce => snapshot.backends # {}

(* The page starts without a snapshot.                                     *)
LEMMA SnapInvInit == SnapInit => SnapInv
<1> SUFFICES ASSUME SnapInit PROVE SnapInv
  OBVIOUS
<1>1. world.backends # {}
  <2>1. PICK locks \in UNION {[1..n -> Rows] : n \in 0..2} :
               world = [backends |-> {1, 2}, locks |-> locks, xid |-> 0]
    BY DEF SnapInit
  <2> QED BY <2>1
<1>2. world.locks \in Seq(Rows)
  <2>1. PICK locks \in UNION {[1..n -> Rows] : n \in 0..2} :
               world = [backends |-> {1, 2}, locks |-> locks, xid |-> 0]
    BY DEF SnapInit
  <2>2. PICK n \in 0..2 : locks \in [1..n -> Rows]
    OBVIOUS
  <2>3. n \in Nat /\ world.locks = locks
    BY <2>1
  <2> QED BY <2>2, <2>3, IsASeq
<1>3. Listed
  <2>1. Empty.locks = <<>> /\ NoSnap.ans.locks = <<>> /\ <<>> \in Seq(Rows)
    BY DEF Empty, NoSnap
  <2>2. \A k \in 1..MaxSnapFlight : snapAsks[k] = NoSnap
    BY DEF SnapInit
  <2> QED BY <1>2, <2>1, <2>2 DEF SnapInit, Listed
<1> QED BY <1>1, <1>3 DEF SnapInit, SnapInv

(* Every step of the snapshot keeps the invariant.                         *)
LEMMA SnapInvNext == SnapInv /\ [SnapNext]_snapVars => SnapInv'
<1> SUFFICES ASSUME SnapInv, [SnapNext]_snapVars PROVE SnapInv'
  OBVIOUS
<1>1. CASE connectNode \/ snapshotTick
  <2>1. PICK k \in 1..MaxSnapFlight :
               snapAsks' = [snapAsks EXCEPT ![k] = [st |-> "sent", ans |-> world]]
    BY <1>1 DEF connectNode, snapshotTick, AskSnap
  <2>2. UNCHANGED <<world, snapshot, loadedOnce>>
    BY <1>1 DEF connectNode, snapshotTick
  <2>3. ASSUME NEW j \in 1..MaxSnapFlight
        PROVE  snapAsks'[j] = IF j = k THEN [st |-> "sent", ans |-> world] ELSE snapAsks[j]
    BY <2>1 DEF SnapInv
  <2>4. DOMAIN snapAsks' = 1..MaxSnapFlight
    BY <2>1 DEF SnapInv
  <2>5. \A j \in 1..MaxSnapFlight : snapAsks'[j] # NoSnap => snapAsks'[j].ans.backends # {}
    BY <2>3 DEF SnapInv
  <2>6. Listed'
    BY <2>2, <2>3 DEF SnapInv, Listed
  <2> QED BY <2>2, <2>4, <2>5, <2>6 DEF SnapInv
<1>2. ASSUME NEW k \in 1..MaxSnapFlight, loadSnapshot(k) PROVE SnapInv'
  <2>1. /\ snapAsks[k] # NoSnap /\ snapAsks' = [snapAsks EXCEPT ![k] = NoSnap]
        /\ world' = world
        /\ \/ snapshot' = snapAsks[k].ans
           \/ UNCHANGED <<snapshot, loadedOnce>>
    BY <1>2 DEF loadSnapshot
  <2>2. DOMAIN snapAsks' = 1..MaxSnapFlight
    BY <2>1 DEF SnapInv
  <2>3. \A j \in 1..MaxSnapFlight : snapAsks'[j] # NoSnap => snapAsks'[j].ans.backends # {}
    BY <2>1 DEF SnapInv
  <2>4. loadedOnce' => snapshot'.backends # {}
    BY <2>1 DEF SnapInv
  <2>5. Listed'
    <3>1. ASSUME NEW j \in 1..MaxSnapFlight PROVE snapAsks'[j].ans.locks \in Seq(Rows)
      <4>1. NoSnap.ans.locks = <<>> /\ <<>> \in Seq(Rows)
        BY DEF Empty, NoSnap
      <4>2. snapAsks'[j] = IF j = k THEN NoSnap ELSE snapAsks[j]
        BY <2>1 DEF SnapInv
      <4> QED BY <4>1, <4>2 DEF SnapInv, Listed
    <3>2. snapshot'.locks \in Seq(Rows)
      BY <2>1 DEF SnapInv, Listed
    <3> QED BY <2>1, <3>1, <3>2 DEF SnapInv, Listed
  <2> QED BY <2>1, <2>2, <2>3, <2>4, <2>5 DEF SnapInv
<1>3. CASE WorldChanges
  <2>1. /\ world'.backends = {2} /\ world'.locks = RowsOf(world.locks, {2, 9})
        /\ UNCHANGED <<snapAsks, snapshot, loadedOnce>>
    BY <1>3 DEF WorldChanges
  <2>2. world'.locks \in Seq(Rows)
    <3>1. PICK ls \in Seq(Rows) : ls = world.locks
      BY DEF SnapInv, Listed
    <3>2. PICK K \in SUBSET (1..Len(ls)) : K = {k \in 1..Len(ls) : ls[k].pid \in {2, 9}}
      OBVIOUS
    <3>3. Picked(ls, K) \in Seq(Rows)
      BY PickedSeq
    <3> QED BY <2>1, <3>1, <3>2, <3>3 DEF RowsOf
  <2>3. Listed'
    BY <2>1, <2>2 DEF SnapInv, Listed
  <2> QED BY <2>1, <2>3 DEF SnapInv
<1>4. CASE UNCHANGED snapVars
  BY <1>4 DEF snapVars, SnapInv, Listed
<1> QED BY <1>1, <1>2, <1>3, <1>4 DEF SnapNext

(* Once there was a snapshot the pages are not empty.                      *)
LEMMA SnapInvSafe == SnapInv => SnapshotKept
<1>1. Empty.backends = {}
  BY DEF Empty
<1> QED BY <1>1 DEF SnapInv, SnapshotKept

KeySet == {"t"} \X {"S", "X"}
EdgeSet == [source : {1, 2, 9}, target : Nat, wait : BOOLEAN, mode : {"S", "X"}]
GraphSet == [keys : Seq(KeySet), edges : Seq(EdgeSet)]
EdgeRight(keys, e, r) ==
  /\ e.source = r.pid /\ e.target \in 1..Len(keys) /\ keys[e.target] = KeyOf(r)
  /\ e.wait = ~r.granted

KeysAfter(ks, x) == IF x \in ToSet(ks) THEN ks ELSE Append(ks, x)
Grown(ks, x, ns) ==
  /\ ns \in Seq(KeySet) /\ IsInjective(ns) /\ ToSet(ns) = ToSet(ks) \cup {x}
  /\ Len(ks) =< Len(ns) /\ \A i \in 1..Len(ks) : ns[i] = ks[i]
RowAdded(g, r, known, h) ==
  /\ h \in GraphSet /\ Grown(g.keys, KeyOf(r), h.keys)
  /\ IF r.pid \in known
     THEN \E e \in EdgeSet : h.edges = Append(g.edges, e) /\ EdgeRight(h.keys, e, r)
     ELSE h.edges = g.edges

(* The keys after a row: one more if its key is new.                       *)
LEMMA KeysGrow ==
  ASSUME NEW ks \in Seq(KeySet), IsInjective(ks), NEW x \in KeySet
  PROVE  /\ Grown(ks, x, KeysAfter(ks, x))
         /\ \E j \in 1..Len(KeysAfter(ks, x)) : KeysAfter(ks, x)[j] = x
<1>0. PICK ns : ns = KeysAfter(ks, x)
  OBVIOUS
<1>1. PICK n \in Nat : n = Len(ks)
  OBVIOUS
<1>2. DOMAIN ks = 1..n /\ ToSet(ks) = {ks[i] : i \in 1..n}
  BY <1>1, LenProperties DEF ToSet
<1>3. CASE x \in ToSet(ks)
  <2>1. ns = ks /\ ToSet(ks) = ToSet(ks) \cup {x} /\ n =< n
    BY <1>0, <1>3 DEF KeysAfter
  <2>2. \E j \in 1..n : ks[j] = x
    BY <1>2, <1>3
  <2> QED BY <1>0, <1>1, <2>1, <2>2 DEF Grown
<1>4. CASE x \notin ToSet(ks)
  <2>1. /\ ns \in Seq(KeySet) /\ Len(ns) = n + 1 /\ ns[n + 1] = x
        /\ \A i \in 1..n : ns[i] = ks[i]
    <3>1. ns = Append(ks, x)
      BY <1>0, <1>4 DEF KeysAfter
    <3> QED BY <3>1, <1>1, AppendProperties
  <2>2. DOMAIN ns = 1..(n + 1) /\ ToSet(ns) = {ns[i] : i \in 1..(n + 1)}
    BY <1>1, <2>1, LenProperties DEF ToSet
  <2>3. \A i \in 1..(n + 1) : i \in 1..n \/ i = n + 1
    BY <1>1
  <2>4. \A i \in 1..n : i \in 1..(n + 1) /\ i # n + 1
    BY <1>1
  <2>5. n + 1 \in 1..(n + 1) /\ n =< n + 1
    BY <1>1
  <2>6. ToSet(ns) = ToSet(ks) \cup {x}
    <3>1. ASSUME NEW y \in ToSet(ns) PROVE y \in ToSet(ks) \cup {x}
      BY <1>2, <2>1, <2>2, <2>3
    <3>2. ASSUME NEW y \in ToSet(ks) PROVE y \in ToSet(ns)
      BY <1>2, <2>1, <2>2, <2>4
    <3>3. x \in ToSet(ns)
      BY <2>1, <2>2, <2>5
    <3> QED BY <3>1, <3>2, <3>3
  <2>7. \A i \in 1..n : ks[i] # x
    BY <1>2, <1>4
  <2>8. \A i, j \in 1..n : ks[i] = ks[j] => i = j
    BY <1>2 DEF IsInjective
  <2>9. ASSUME NEW i \in 1..(n + 1), NEW j \in 1..(n + 1), ns[i] = ns[j] PROVE i = j
    <3>1. CASE i \in 1..n /\ j \in 1..n
      BY <3>1, <2>1, <2>8, <2>9
    <3>2. CASE i \in 1..n /\ j = n + 1
      BY <3>2, <2>1, <2>7, <2>9
    <3>3. CASE j \in 1..n /\ i = n + 1
      BY <3>3, <2>1, <2>7, <2>9
    <3> QED BY <3>1, <3>2, <3>3, <2>3
  <2>10. IsInjective(ns)
    BY <2>2, <2>9 DEF IsInjective
  <2> QED BY <1>0, <1>1, <2>1, <2>5, <2>6, <2>10 DEF Grown
<1> QED BY <1>3, <1>4

(* A row adds its key if it is new and, if its backend is there, an edge.  *)
LEMMA LockRowIs ==
  ASSUME NEW g \in GraphSet, IsInjective(g.keys), NEW r \in Rows, NEW known
  PROVE  RowAdded(g, r, known, LockRow(g, r, known))
<1>0. PICK h : h = LockRow(g, r, known)
  OBVIOUS
<1>1. PICK ks \in Seq(KeySet) : ks = g.keys
  BY DEF GraphSet
<1>2. PICK es \in Seq(EdgeSet) : es = g.edges
  BY DEF GraphSet
<1>3. PICK x \in KeySet : x = KeyOf(r)
  BY DEF Rows, KeyOf, KeySet
<1>4. PICK ns : ns = KeysAfter(ks, x)
  OBVIOUS
<1>5. Grown(ks, x, ns) /\ \E j \in 1..Len(ns) : ns[j] = x
  <2>1. IsInjective(ks)
    BY <1>1
  <2> QED BY <2>1, <1>4, KeysGrow
<1>6. PICK k \in 1..Len(ns) : k = (CHOOSE j \in 1..Len(ns) : ns[j] = x) /\ ns[k] = x
  BY <1>5
<1>7. PICK e : e = [source |-> r.pid, target |-> k, wait |-> ~r.granted, mode |-> r.mode]
  OBVIOUS
<1>8. e \in EdgeSet
  <2>1. r.pid \in {1, 2, 9} /\ r.granted \in BOOLEAN /\ r.mode \in {"S", "X"}
    BY DEF Rows
  <2>2. k \in Nat
    BY <1>5, <1>6, LenProperties DEF Grown
  <2> QED BY <1>7, <2>1, <2>2 DEF EdgeSet
<1>9. EdgeRight(ns, e, r)
  <2>1. e.source = r.pid /\ e.target = k /\ e.wait = ~r.granted
    BY <1>7
  <2> QED BY <2>1, <1>3, <1>6 DEF EdgeRight
<1>10. h = [keys |-> ns, edges |-> IF r.pid \in known THEN Append(es, e) ELSE es]
  BY <1>0, <1>1, <1>2, <1>3, <1>4, <1>6, <1>7 DEF LockRow, KeysAfter
<1>11. Append(es, e) \in Seq(EdgeSet)
  BY <1>8, AppendProperties
<1>12. h.keys = ns /\ h.edges = (IF r.pid \in known THEN Append(es, e) ELSE es) /\ h \in GraphSet
  <2>1. PICK fs \in Seq(EdgeSet) : fs = IF r.pid \in known THEN Append(es, e) ELSE es
    BY <1>11
  <2>2. h = [keys |-> ns, edges |-> fs]
    BY <2>1, <1>10
  <2>3. h.keys = ns /\ h.edges = fs
    BY <2>2
  <2> QED BY <2>1, <2>2, <2>3, <1>5 DEF GraphSet, Grown
<1> QED BY <1>0, <1>1, <1>2, <1>3, <1>5, <1>8, <1>9, <1>12 DEF RowAdded

(* The graph is the last value of a loop over the rows.                    *)
LEMMA GraphLoop ==
  ASSUME NEW ls \in Seq(Rows), NEW s, s.locks = ls
  PROVE  \E f :
           /\ f[0] = NoGraph /\ buildLockGraphFromSnapshot(s) = f[Len(ls)]
           /\ \A k \in 1..Len(ls) : f[k] = LockRow(f[k - 1], ls[k], s.backends)
<1>1. PICK n \in Nat : n = Len(ls)
  OBVIOUS
<1>2. \A k \in 1..n : ls[k] \in Rows
  BY <1>1, ElementOfSeq
<1> DEFINE Good == {g \in GraphSet : IsInjective(g.keys)}
           step == [p \in (1..n) \X Good |-> LockRow(p[2], ls[p[1]], s.backends)]
<1>3. NoGraph \in Good
  <2>1. NoGraph.keys = <<>> /\ NoGraph \in GraphSet
    BY DEF NoGraph, GraphSet
  <2>2. IsInjective(<<>>)
    BY DEF IsInjective
  <2> QED BY <2>1, <2>2
<1>4. ASSUME NEW p \in (1..n) \X Good PROVE LockRow(p[2], ls[p[1]], s.backends) \in Good
  <2>1. PICK g \in GraphSet : g = p[2] /\ IsInjective(g.keys)
    OBVIOUS
  <2>2. PICK r \in Rows : r = ls[p[1]]
    BY <1>2
  <2>3. PICK h : h = LockRow(g, r, s.backends)
    OBVIOUS
  <2>4. RowAdded(g, r, s.backends, h)
    BY <2>1, <2>3, LockRowIs
  <2>5. h \in GraphSet /\ IsInjective(h.keys)
    BY <2>4 DEF RowAdded, Grown
  <2> QED BY <2>1, <2>2, <2>3, <2>5
<1>5. PICK A : A = Good
  OBVIOUS
<1>6. PICK base \in A : base = NoGraph
  BY <1>3, <1>5
<1>7. PICK st \in [(1..n) \X A -> A] : st = step
  BY <1>4, <1>5
<1>8. \A k \in 1..n, g \in A : st[<<k, g>>] = LockRow(g, ls[k], s.backends)
  BY <1>5, <1>7
<1>9. Loops(n, A, base, st) # {}
  BY LoopExists
<1>10. PICK f \in [0..n -> A] : f[0] = base /\ \A k \in 1..n : f[k] = st[<<k, f[k - 1]>>]
  BY <1>9 DEF Loops
<1> HIDE DEF Good, step
<1> DEFINE Rule(g) == [k \in 0..n |-> IF k = 0 THEN NoGraph
                                        ELSE LockRow(g[k - 1], ls[k], s.backends)]
           h == CHOOSE g : g = Rule(g)
<1>11. f = Rule(f)
  <2>1. ASSUME NEW k \in 0..n PROVE f[k] = Rule(f)[k]
    <3>1. CASE k = 0
      BY <3>1, <1>6, <1>10
    <3>2. CASE k # 0
      <4>1. k \in 1..n /\ k - 1 \in 0..n
        BY <3>2
      <4> QED BY <4>1, <3>2, <1>8, <1>10
    <3> QED BY <3>1, <3>2
  <2> QED BY <2>1, <1>10
<1>12. h = Rule(h)
  <2> HIDE DEF Rule
  <2> QED BY <1>11
<1>13. buildLockGraphFromSnapshot(s) = h[n]
  BY <1>1 DEF buildLockGraphFromSnapshot
<1> HIDE DEF h
<1>14. h[0] = NoGraph /\ \A k \in 1..n : h[k] = LockRow(h[k - 1], ls[k], s.backends)
  BY <1>12
<1> QED BY <1>1, <1>13, <1>14

(* The rows of backends that are there, among the first n.                 *)
KnownAt(ls, known, n) == {k \in 1..n : ls[k].pid \in known}
EdgesRight(g, ls, at) ==
  Len(g.edges) = Len(at) /\ \A k \in 1..Len(at) : EdgeRight(g.keys, g.edges[k], ls[at[k]])
GraphRight(ls, known, n, g) ==
  /\ g \in GraphSet /\ IsInjective(g.keys)
  /\ ToSet(g.keys) = {KeyOf(ls[k]) : k \in 1..n}
  /\ EdgesRight(g, ls, InOrder(KnownAt(ls, known, n)))

(* One more row keeps the graph that of the rows.                          *)
LEMMA GraphStep ==
  ASSUME NEW ls \in Seq(Rows), NEW n \in 1..Len(ls), NEW known, NEW g, NEW h,
         GraphRight(ls, known, n - 1, g), h = LockRow(g, ls[n], known)
  PROVE  GraphRight(ls, known, n, h)
<1>1. PICK r \in Rows : r = ls[n]
  BY ElementOfSeq
<1>2. n \in Nat /\ n - 1 \in Nat /\ n \in 1..n
  OBVIOUS
<1>3. \A k \in 1..n : k \in 1..(n - 1) \/ k = n
  BY <1>2
<1>4. \A k \in 1..(n - 1) : k \in 1..n /\ k < n
  BY <1>2
<1>5. g \in GraphSet /\ IsInjective(g.keys) /\ h = LockRow(g, r, known)
  BY <1>1 DEF GraphRight
<1>6. /\ h \in GraphSet /\ IsInjective(h.keys)
      /\ ToSet(h.keys) = ToSet(g.keys) \cup {KeyOf(r)}
      /\ Len(g.keys) =< Len(h.keys) /\ \A i \in 1..Len(g.keys) : h.keys[i] = g.keys[i]
      /\ IF r.pid \in known
         THEN \E e \in EdgeSet : h.edges = Append(g.edges, e) /\ EdgeRight(h.keys, e, r)
         ELSE h.edges = g.edges
  <2>1. RowAdded(g, r, known, h)
    BY <1>5, LockRowIs
  <2> QED BY <2>1 DEF RowAdded, Grown
<1>7. ToSet(h.keys) = {KeyOf(ls[k]) : k \in 1..n}
  <2>1. ToSet(g.keys) = {KeyOf(ls[k]) : k \in 1..(n - 1)}
    BY DEF GraphRight
  <2>2. ASSUME NEW y \in {KeyOf(ls[k]) : k \in 1..n} PROVE y \in ToSet(h.keys)
    BY <1>1, <1>3, <1>6, <2>1
  <2>3. ASSUME NEW y \in ToSet(h.keys) PROVE y \in {KeyOf(ls[k]) : k \in 1..n}
    BY <1>1, <1>2, <1>4, <1>6, <2>1
  <2> QED BY <2>2, <2>3
<1> DEFINE K == KnownAt(ls, known, n - 1)
           at == InOrder(K)
<1>8. IsFiniteSet(K) /\ K \subseteq Nat /\ \A y \in K : y < n
  <2>1. K \in SUBSET (1..(n - 1)) /\ IsFiniteSet(1..(n - 1))
    BY <1>2, FS_Interval DEF KnownAt
  <2>2. IsFiniteSet(K)
    BY <2>1, FS_Subset
  <2> QED BY <2>1, <2>2, <1>2, <1>4
<1>9. at \in Seq(K) /\ Len(at) \in Nat
  <2> HIDE DEF K
  <2> QED BY <1>8, Ranked, LenProperties
<1>10. EdgesRight(g, ls, at)
  BY DEF GraphRight
<1>11. KnownAt(ls, known, n) = IF r.pid \in known THEN K \cup {n} ELSE K
  BY <1>1, <1>2, <1>3, <1>4 DEF KnownAt
<1>12. PICK es \in Seq(EdgeSet) : es = g.edges
  BY <1>5 DEF GraphSet
<1> HIDE DEF K, at
<1>13. Len(es) = Len(at) /\ \A k \in 1..Len(at) : EdgeRight(g.keys, es[k], ls[at[k]])
  BY <1>10, <1>12 DEF EdgesRight
<1>14. ASSUME NEW k \in 1..Len(at) PROVE EdgeRight(h.keys, es[k], ls[at[k]])
  <2>1. EdgeRight(g.keys, es[k], ls[at[k]])
    BY <1>13
  <2>2. PICK i \in 1..Len(g.keys) : i = es[k].target
    BY <2>1 DEF EdgeRight
  <2>3. Len(g.keys) \in Nat /\ Len(h.keys) \in Nat
    BY <1>5, <1>6, LenProperties DEF GraphSet
  <2>4. i \in 1..Len(h.keys) /\ h.keys[i] = g.keys[i]
    <3>1. Len(g.keys) =< Len(h.keys) /\ h.keys[i] = g.keys[i]
      BY <1>6
    <3>2. PICK a \in Nat : a = Len(g.keys)
      BY <2>3
    <3>3. PICK b \in Nat : b = Len(h.keys)
      BY <2>3
    <3> QED BY <3>1, <3>2, <3>3
  <2> QED BY <2>1, <2>2, <2>4 DEF EdgeRight
<1>15. CASE r.pid \in known
  <2>1. PICK e \in EdgeSet : h.edges = Append(es, e) /\ EdgeRight(h.keys, e, r)
    BY <1>6, <1>12, <1>15
  <2>2. PICK fs : fs = Append(es, e)
    OBVIOUS
  <2>3. /\ fs \in Seq(EdgeSet) /\ Len(fs) = Len(es) + 1 /\ fs[Len(es) + 1] = e
        /\ \A i \in 1..Len(es) : fs[i] = es[i]
    BY <2>2, AppendProperties
  <2>4. InOrder(KnownAt(ls, known, n)) = Append(at, n)
    <3>1. InOrder(K \cup {n}) = Append(InOrder(K), n)
      BY <1>2, <1>8, RankedAppend
    <3> QED BY <3>1, <1>11, <1>15 DEF at
  <2>5. PICK bt : bt = Append(at, n)
    OBVIOUS
  <2>6. /\ Len(bt) = Len(at) + 1 /\ bt[Len(at) + 1] = n
        /\ \A i \in 1..Len(at) : bt[i] = at[i]
    <3>1. at \in Seq(Nat)
      <4>1. at \in [1..Len(at) -> Nat]
        BY <1>8, <1>9, LenProperties, ElementOfSeq
      <4> QED BY <4>1, <1>9, IsASeq
    <3> QED BY <2>5, <3>1, <1>2, AppendProperties
  <2>7. ASSUME NEW k \in 1..Len(bt) PROVE EdgeRight(h.keys, fs[k], ls[bt[k]])
    <3>1. CASE k \in 1..Len(at)
      <4>1. fs[k] = es[k] /\ bt[k] = at[k]
        BY <3>1, <1>13, <2>3, <2>6
      <4> QED BY <3>1, <4>1, <1>14
    <3>2. CASE k = Len(at) + 1
      <4>1. fs[k] = e /\ ls[bt[k]] = r
        BY <3>2, <1>1, <1>13, <2>3, <2>6
      <4> QED BY <4>1, <2>1
    <3> QED BY <3>1, <3>2, <1>9, <2>6
  <2>8. EdgesRight(h, ls, bt)
    <3>1. h.edges = fs /\ Len(fs) = Len(bt)
      BY <1>13, <2>1, <2>2, <2>3, <2>6
    <3> QED BY <3>1, <2>7 DEF EdgesRight
  <2> QED BY <1>6, <1>7, <2>4, <2>5, <2>8 DEF GraphRight
<1>16. CASE r.pid \notin known
  <2>1. h.edges = es
    BY <1>6, <1>12, <1>16
  <2>2. EdgesRight(h, ls, at)
    BY <2>1, <1>13, <1>14 DEF EdgesRight
  <2>3. InOrder(KnownAt(ls, known, n)) = at
    BY <1>11, <1>16 DEF at
  <2> QED BY <1>6, <1>7, <2>2, <2>3 DEF GraphRight
<1> QED BY <1>15, <1>16

(* The graph of a snapshot is that of its rows.                            *)
LEMMA GraphBuilt ==
  ASSUME NEW ls \in Seq(Rows), NEW s, s.locks = ls
  PROVE  GraphRight(ls, s.backends, Len(ls), buildLockGraphFromSnapshot(s))
<1>1. PICK n \in Nat : n = Len(ls)
  OBVIOUS
<1>2. PICK f : /\ f[0] = NoGraph /\ buildLockGraphFromSnapshot(s) = f[n]
               /\ \A k \in 1..n : f[k] = LockRow(f[k - 1], ls[k], s.backends)
  BY <1>1, GraphLoop
<1>3. PICK known : known = s.backends
  OBVIOUS
<1> DEFINE S == {k \in 0..n : GraphRight(ls, known, k, f[k])}
<1>4. 0 \in S
  <2>1. NoGraph.keys = <<>> /\ NoGraph.edges = <<>> /\ NoGraph \in GraphSet
    BY DEF NoGraph, GraphSet
  <2>2. IsInjective(<<>>) /\ ToSet(<<>>) = {}
    BY DEF IsInjective, ToSet
  <2>3. KnownAt(ls, known, 0) = {} /\ {KeyOf(ls[k]) : k \in 1..0} = {}
    BY DEF KnownAt
  <2>4. Len(InOrder({})) = 0
    <3>1. IsFiniteSet({}) /\ Cardinality({}) = 0 /\ {} \subseteq Nat
      BY FS_EmptySet
    <3> QED BY <3>1, Ranked
  <2>5. Len(NoGraph.edges) = 0
    BY <2>1
  <2>6. EdgesRight(NoGraph, ls, InOrder({}))
    BY <2>4, <2>5 DEF EdgesRight
  <2>7. GraphRight(ls, known, 0, NoGraph)
    BY <2>1, <2>2, <2>3, <2>6 DEF GraphRight
  <2> QED BY <1>2, <2>7
<1>5. ASSUME NEW k \in 1..n, k - 1 \in S PROVE k \in S
  <2>1. PICK g : g = f[k - 1]
    OBVIOUS
  <2>2. PICK h : h = f[k]
    OBVIOUS
  <2>3. GraphRight(ls, known, k - 1, g) /\ h = LockRow(g, ls[k], known) /\ k \in 1..Len(ls)
    BY <1>1, <1>2, <1>3, <1>5, <2>1, <2>2
  <2>4. GraphRight(ls, known, k, h)
    BY <2>3, GraphStep
  <2> QED BY <2>2, <2>4
<1>6. S \subseteq 0..n
  OBVIOUS
<1>7. \A k \in 1..n : k - 1 \in S => k \in S
  BY <1>5
<1>8. S = 0..n
  <2> HIDE DEF S
  <2> QED BY <1>4, <1>6, <1>7, UpTo
<1> QED BY <1>1, <1>2, <1>3, <1>8

(* So is the graph that is shown.                                          *)
LEMMA GraphShown == ASSUME snapshot.locks \in Seq(Rows) PROVE LockGraphFaithful
<1>1. PICK ls \in Seq(Rows) : ls = snapshot.locks
  OBVIOUS
<1>2. PICK g : g = buildLockGraphFromSnapshot(snapshot)
  OBVIOUS
<1>3. PICK n \in Nat : n = Len(ls)
  OBVIOUS
<1>4. PICK K \in SUBSET (1..Len(ls)) : K = KnownAt(ls, snapshot.backends, n)
  BY <1>3 DEF KnownAt
<1>5. GraphRight(ls, snapshot.backends, n, g)
  BY <1>1, <1>2, <1>3, GraphBuilt
<1>6. PICK rows : rows = RowsOf(snapshot.locks, snapshot.backends)
  OBVIOUS
<1>7. rows = Picked(ls, K)
  BY <1>1, <1>3, <1>4, <1>6 DEF RowsOf, KnownAt
<1>8. /\ Len(rows) = Len(InOrder(K))
      /\ \A k \in 1..Len(rows) : rows[k] = ls[InOrder(K)[k]]
  <2>1. /\ Len(Picked(ls, K)) = Cardinality(K) /\ Len(InOrder(K)) = Cardinality(K)
        /\ \A k \in 1..Cardinality(K) : Picked(ls, K)[k] = ls[InOrder(K)[k]]
    BY PickedSeq
  <2> QED BY <2>1, <1>7
<1>9. Len(g.edges) = Len(rows) /\ \A k \in 1..Len(rows) : EdgeRight(g.keys, g.edges[k], rows[k])
  <2>1. PICK at : at = InOrder(K)
    OBVIOUS
  <2>2. EdgesRight(g, ls, at)
    BY <2>1, <1>4, <1>5 DEF GraphRight
  <2> QED BY <2>1, <2>2, <1>8 DEF EdgesRight
<1>10. IsInjective(g.keys) /\ ToSet(g.keys) = {KeyOf(r) : r \in ToSet(ls)}
  <2>1. IsInjective(g.keys) /\ ToSet(g.keys) = {KeyOf(ls[k]) : k \in 1..n}
    BY <1>5 DEF GraphRight
  <2>2. ToSet(ls) = {ls[k] : k \in 1..n}
    BY <1>3, LenProperties DEF ToSet
  <2> QED BY <2>1, <2>2
<1> QED BY <1>1, <1>2, <1>6, <1>9, <1>10 DEF LockGraphFaithful, EdgeRight

-----------------------------------------------------------------------------
(***************************************************************************)
(* AppTask.  What is cached is what is shown, and the toast is leaving     *)
(* exactly when nothing is (Bar); a task that is shown or asked about is   *)
(* one the backend has, and a final status in an answer is the backend's   *)
(* (Known), since a final status stays.                                    *)
(***************************************************************************)
TaskSet == [id : 1..LocalId, status : Statuses]
AskSet == [id : 1..MaxTasks, status : Statuses]
TaskTypes ==
  /\ backendTask \in [1..MaxTasks -> Statuses \cup {"none", "refused"}]
  /\ banner \in {NoTask} \cup TaskSet
  /\ asks \subseteq AskSet /\ IsFiniteSet(asks) /\ Cardinality(asks) =< MaxAsks
  /\ resume \in {"asked", "done"} /\ visible \in BOOLEAN /\ mixed \in BOOLEAN
  /\ reloaded \subseteq 1..LocalId /\ visits \in 1..MaxVisits
Bar ==
  /\ cache = banner /\ exiting = (banner = NoTask) /\ (banner # NoTask => visible)
  /\ banner.status = "success" => banner.id \in reloaded
Told(a) ==
  a.id \in 1..MaxTasks =>
    /\ backendTask[a.id] \in Statuses
    /\ a.status \in Final => backendTask[a.id] = a.status
KnownTasks ==
  /\ \A a \in asks : Told(a)
  /\ banner.id \in 1..MaxTasks => backendTask[banner.id] \in Statuses
  /\ ~mixed => Told(banner)
TaskInv == TaskTypes /\ Bar /\ KnownTasks

(* Nothing is no task.                                                     *)
LEMMA NoTaskIs ==
  /\ NoTask.id = 0 /\ NoTask.status = "none" /\ NoTask.id \notin 1..LocalId
  /\ NoTask.id \notin 1..MaxTasks /\ NoTask.status \notin Statuses
  /\ LocalId \in Nat /\ 1..MaxTasks \subseteq 1..LocalId /\ LocalId \notin 1..MaxTasks
  /\ LocalId \in 1..LocalId
<1>1. NoTask.id = 0 /\ NoTask.status = "none"
  BY DEF NoTask
<1>2. MaxTasks \in Nat /\ LocalId = MaxTasks + 1
  BY TaskBounds DEF LocalId
<1>3. NoTask.status \notin Statuses
  BY <1>1 DEF Statuses, Final
<1> QED BY <1>1, <1>2, <1>3

(* The banner starts closed and no answer is awaited.                      *)
LEMMA TaskInvInit == TaskInit => TaskInv
<1> SUFFICES ASSUME TaskInit PROVE TaskInv
  OBVIOUS
<1>1. IsFiniteSet({}) /\ Cardinality({}) = 0
  BY FS_EmptySet
<1>2. visits \in 1..MaxVisits /\ 0 =< MaxAsks
  BY TaskBounds DEF TaskInit
<1>3. TaskTypes
  BY <1>1, <1>2 DEF TaskInit, TaskTypes
<1>4. Bar
  BY NoTaskIs DEF TaskInit, Bar
<1>5. KnownTasks
  BY NoTaskIs DEF TaskInit, KnownTasks, Told
<1> QED BY <1>3, <1>4, <1>5 DEF TaskInv

(* What setProvisionTask leaves of the bar, for a task or none.            *)
LEMMA SetTaskBar ==
  ASSUME TaskInv, NEW t \in {NoTask} \cup TaskSet, setProvisionTask(t)
  PROVE  Bar' /\ banner' = t /\ visible' \in BOOLEAN /\ reloaded' \subseteq 1..LocalId
<1>1. /\ banner' = t /\ cache' = t /\ visible' = (t # NoTask \/ visible)
      /\ exiting' = (t = NoTask)
      /\ reloaded' = IF t.status = "success" THEN reloaded \cup {t.id} ELSE reloaded
  BY DEF setProvisionTask, ShowToast, ReloadAfter
<1>2. visible' \in BOOLEAN
  BY <1>1 DEF TaskInv, TaskTypes
<1>3. t.status = "success" => t.id \in 1..LocalId
  BY NoTaskIs DEF TaskSet
<1>4. reloaded' \subseteq 1..LocalId
  BY <1>1, <1>3 DEF TaskInv, TaskTypes
<1>5. Bar'
  BY <1>1 DEF Bar
<1> QED BY <1>1, <1>2, <1>4, <1>5

(* A creation is answered with a task, or refused.                         *)
LEMMA CreateTaskInv ==
  ASSUME TaskInv, NEW t \in 1..MaxTasks, createTask(t) PROVE TaskInv'
<1>0. /\ backendTask[t] = "none" /\ UNCHANGED <<asks, resume, visits, mixed>>
  BY DEF createTask
<1>1. "none" \notin Statuses /\ "running" \in Statuses /\ "failed" \in Statuses
      /\ "running" \notin Final
  BY DEF Statuses, Final
<1>2. ASSUME NEW s \in {"running", "refused"}, NEW b \in TaskSet,
             backendTask' = [backendTask EXCEPT ![t] = s], setProvisionTask(b),
             b.id \in 1..MaxTasks => b.id = t /\ s = "running" /\ b.status = "running"
      PROVE  TaskInv'
  <2>1. Bar' /\ banner' = b /\ visible' \in BOOLEAN /\ reloaded' \subseteq 1..LocalId
    BY <1>2, SetTaskBar
  <2>2. backendTask' \in [1..MaxTasks -> Statuses \cup {"none", "refused"}]
    BY <1>1, <1>2 DEF TaskInv, TaskTypes
  <2>3. TaskTypes'
    BY <1>0, <2>1, <2>2 DEF TaskInv, TaskTypes
  <2>4. \A u \in 1..MaxTasks : backendTask'[u] = IF u = t THEN s ELSE backendTask[u]
    BY <1>2 DEF TaskInv, TaskTypes
  <2>5. ASSUME NEW a \in asks' PROVE Told(a)'
    <3>1. Told(a) /\ a.id # t
      BY <1>0, <1>1 DEF TaskInv, TaskTypes, KnownTasks, Told, AskSet
    <3> QED BY <3>1, <2>4 DEF Told
  <2>6. banner'.id \in 1..MaxTasks => backendTask'[banner'.id] \in Statuses
    BY <1>1, <1>2, <2>1, <2>4
  <2>7. Told(banner)'
    BY <1>1, <1>2, <2>1, <2>4 DEF Told
  <2> QED BY <2>1, <2>3, <2>5, <2>6, <2>7 DEF TaskInv, KnownTasks
<1>3. CASE /\ backendTask' = [backendTask EXCEPT ![t] = "running"]
           /\ setProvisionTask([id |-> t, status |-> "running"])
  <2>1. [id |-> t, status |-> "running"] \in TaskSet
    BY <1>1, NoTaskIs DEF TaskSet
  <2> QED BY <1>2, <1>3, <2>1
<1>4. CASE /\ backendTask' = [backendTask EXCEPT ![t] = "refused"]
           /\ setProvisionTask([id |-> LocalId, status |-> "failed"])
  <2>1. [id |-> LocalId, status |-> "failed"] \in TaskSet
        /\ [id |-> LocalId, status |-> "failed"].id \notin 1..MaxTasks
    BY <1>1, NoTaskIs DEF TaskSet
  <2> QED BY <1>2, <1>4, <2>1
<1> QED BY <1>3, <1>4 DEF createTask

(* A task ends in the backend: what was final stays.                       *)
LEMMA TaskEndsInv ==
  ASSUME TaskInv, NEW t \in 1..MaxTasks, NEW s \in Final, TaskEnds(t, s) PROVE TaskInv'
<1>1. /\ backendTask[t] = "running" /\ backendTask' = [backendTask EXCEPT ![t] = s]
      /\ UNCHANGED <<banner, cache, asks, resume, visible, exiting, reloaded, visits, mixed>>
  BY DEF TaskEnds
<1>2. s \in Statuses /\ "running" \notin Final
  BY DEF Statuses, Final
<1>3. backendTask' \in [1..MaxTasks -> Statuses \cup {"none", "refused"}]
      /\ \A u \in 1..MaxTasks : backendTask'[u] = IF u = t THEN s ELSE backendTask[u]
  BY <1>1, <1>2 DEF TaskInv, TaskTypes
<1>4. TaskTypes' /\ Bar'
  BY <1>1, <1>3 DEF TaskInv, TaskTypes, Bar
<1>5. ASSUME NEW a, Told(a) PROVE Told(a)'
  BY <1>1, <1>2, <1>3, <1>5 DEF Told
<1>6. KnownTasks'
  <2>1. \A a \in asks' : Told(a)'
    BY <1>1, <1>5 DEF TaskInv, KnownTasks
  <2>2. banner'.id \in 1..MaxTasks => backendTask'[banner'.id] \in Statuses
    BY <1>1, <1>2, <1>3 DEF TaskInv, KnownTasks
  <2>3. ~mixed' => Told(banner)'
    BY <1>1, <1>5 DEF TaskInv, KnownTasks, Told
  <2> QED BY <2>1, <2>2, <2>3 DEF KnownTasks
<1> QED BY <1>4, <1>6 DEF TaskInv

(* The backend is asked about the task that is shown.                      *)
LEMMA AskInv ==
  ASSUME TaskInv, Ask PROVE TaskInv'
<1> DEFINE a == [id |-> banner.id, status |-> backendTask[banner.id]]
<1>1. /\ banner.id \in 1..MaxTasks /\ Cardinality(asks) < MaxAsks /\ asks' = asks \cup {a}
      /\ UNCHANGED <<backendTask, banner, cache, resume, visible, exiting, reloaded, visits,
                     mixed>>
  BY DEF Ask
<1>2. backendTask[banner.id] \in Statuses
  BY <1>1 DEF TaskInv, KnownTasks
<1>3. a \in AskSet /\ Told(a)
  BY <1>1, <1>2 DEF AskSet, Told
<1> HIDE DEF a
<1>4. IsFiniteSet(asks') /\ Cardinality(asks') =< MaxAsks
  <2>1. IsFiniteSet(asks) /\ Cardinality(asks) \in Nat
    BY FS_CardinalityType DEF TaskInv, TaskTypes
  <2>2. /\ IsFiniteSet(asks \cup {a})
        /\ Cardinality(asks \cup {a}) \in {Cardinality(asks), Cardinality(asks) + 1}
    BY <2>1, FS_AddElement
  <2> QED BY <1>1, <2>1, <2>2, TaskBounds
<1>5. TaskTypes' /\ Bar'
  BY <1>1, <1>3, <1>4 DEF TaskInv, TaskTypes, Bar
<1>6. KnownTasks'
  BY <1>1, <1>3 DEF TaskInv, KnownTasks, Told
<1> QED BY <1>5, <1>6 DEF TaskInv

(* An answer is put on the task that is shown, if there is one.            *)
LEMMA AnsweredInv ==
  ASSUME TaskInv, NEW a \in asks, answered(a) PROVE TaskInv'
<1>1. /\ asks' = asks \ {a} /\ Merge(a)
      /\ mixed' = (mixed \/ (banner # NoTask /\ a.id # banner.id))
      /\ UNCHANGED <<backendTask, resume, visits>>
  BY DEF answered
<1>2. a \in AskSet /\ Told(a)
  BY DEF TaskInv, TaskTypes, KnownTasks
<1>3. asks' \subseteq AskSet /\ IsFiniteSet(asks') /\ Cardinality(asks') =< MaxAsks
  <2>1. IsFiniteSet(asks) /\ Cardinality(asks) \in Nat
    BY FS_CardinalityType DEF TaskInv, TaskTypes
  <2>2. IsFiniteSet(asks \ {a}) /\ Cardinality(asks \ {a}) = Cardinality(asks) - 1
    BY <2>1, FS_RemoveElement
  <2> QED BY <1>1, <2>1, <2>2, TaskBounds DEF TaskInv, TaskTypes
<1>4. mixed' \in BOOLEAN
  BY <1>1 DEF TaskInv, TaskTypes
<1>5. CASE banner # NoTask /\ setProvisionTask([banner EXCEPT !.status = a.status])
  <2> DEFINE b == [banner EXCEPT !.status = a.status]
  <2>1. banner \in TaskSet /\ a.status \in Statuses
    BY <1>2, <1>5 DEF TaskInv, TaskTypes, AskSet
  <2>2. b \in TaskSet /\ b.id = banner.id /\ b.status = a.status
    BY <2>1 DEF TaskSet
  <2>3. Bar' /\ banner' = b /\ visible' \in BOOLEAN /\ reloaded' \subseteq 1..LocalId
    BY <1>5, <2>2, SetTaskBar
  <2> HIDE DEF b
  <2>4. TaskTypes'
    BY <1>1, <1>3, <1>4, <2>2, <2>3 DEF TaskInv, TaskTypes
  <2>5. ~mixed' => a.id = banner.id
    BY <1>1, <1>5
  <2>6. KnownTasks'
    BY <1>1, <1>2, <2>2, <2>3, <2>5 DEF TaskInv, KnownTasks, Told
  <2> QED BY <2>3, <2>4, <2>6 DEF TaskInv
<1>6. CASE banner = NoTask /\ UNCHANGED <<banner, cache, visible, exiting, reloaded>>
  <2>1. TaskTypes' /\ Bar'
    BY <1>1, <1>3, <1>4, <1>6 DEF TaskInv, TaskTypes, Bar
  <2>2. KnownTasks'
    BY <1>1, <1>6, NoTaskIs DEF TaskInv, KnownTasks, Told
  <2> QED BY <2>1, <2>2 DEF TaskInv
<1> QED BY <1>1, <1>5, <1>6 DEF Merge

(* The banner is closed, or the task the list has as running is shown.     *)
LEMMA ShowInv ==
  ASSUME TaskInv, NEW t \in {NoTask} \cup TaskSet, setProvisionTask(t),
         t.id \in 1..MaxTasks => backendTask[t.id] = "running" /\ t.status = "running",
         UNCHANGED <<backendTask, asks, visits, mixed>>, resume' \in {"asked", "done"}
  PROVE  TaskInv'
<1>1. Bar' /\ banner' = t /\ visible' \in BOOLEAN /\ reloaded' \subseteq 1..LocalId
  BY SetTaskBar
<1>2. TaskTypes'
  BY <1>1 DEF TaskInv, TaskTypes
<1>3. "running" \in Statuses /\ "running" \notin Final
  BY DEF Statuses, Final
<1>4. KnownTasks'
  BY <1>1, <1>3 DEF TaskInv, KnownTasks, Told
<1> QED BY <1>1, <1>2, <1>4 DEF TaskInv

(* The page is opened again: the cache is what was shown.                  *)
LEMMA ReopenInv ==
  ASSUME TaskInv, reopenPage PROVE TaskInv'
<1>1. /\ banner' = banner /\ cache' = banner /\ visible' = (banner # NoTask)
      /\ exiting' = (banner = NoTask) /\ asks' = {} /\ resume' = "asked"
      /\ UNCHANGED <<backendTask, mixed>>
      /\ reloaded' = IF banner.status = "success" THEN reloaded \cup {banner.id} ELSE reloaded
  BY DEF reopenPage, ReloadAfter, TaskInv, Bar
<1>2. visits' \in 1..MaxVisits /\ 0 =< MaxAsks
  BY TaskBounds DEF reopenPage, TaskInv, TaskTypes
<1>3. reloaded' \subseteq 1..LocalId
  BY <1>1, NoTaskIs DEF TaskInv, TaskTypes, TaskSet
<1>4. IsFiniteSet({}) /\ Cardinality({}) = 0
  BY FS_EmptySet
<1>5. TaskTypes'
  BY <1>1, <1>2, <1>3, <1>4 DEF TaskInv, TaskTypes
<1>6. Bar'
  BY <1>1 DEF Bar
<1>7. KnownTasks'
  BY <1>1 DEF TaskInv, KnownTasks, Told
<1> QED BY <1>5, <1>6, <1>7 DEF TaskInv

(* Every step of the task bar keeps the invariant.                         *)
LEMMA TaskInvNext == TaskInv /\ [TaskNext]_taskVars => TaskInv'
<1> SUFFICES ASSUME TaskInv, [TaskNext]_taskVars PROVE TaskInv'
  OBVIOUS
<1>1. CASE \E t \in 1..MaxTasks : createTask(t)
  BY <1>1, CreateTaskInv
<1>2. CASE refreshProvisionTask \/ Poll
  BY <1>2, AskInv DEF refreshProvisionTask, Poll
<1>3. CASE onDismiss \/ successTimer
  <2>1. setProvisionTask(NoTask) /\ UNCHANGED <<backendTask, asks, resume, visits, mixed>>
    BY <1>3 DEF onDismiss, successTimer, DismissWhen
  <2>2. resume' \in {"asked", "done"}
    BY <2>1 DEF TaskInv, TaskTypes
  <2> QED BY <2>1, <2>2, ShowInv, NoTaskIs
<1>4. CASE reopenPage
  BY <1>4, ReopenInv
<1>5. CASE TaskEndsSome
  BY <1>5, TaskEndsInv DEF TaskEndsSome
<1>6. CASE \E a \in asks : answered(a)
  BY <1>6, AnsweredInv
<1>7. CASE resumeAnswered
  <2>1. resume' = "done" /\ UNCHANGED <<backendTask, asks, visits, mixed>>
    BY <1>7 DEF resumeAnswered
  <2>2. CASE UNCHANGED <<banner, cache, visible, exiting, reloaded>>
    BY <2>1, <2>2 DEF TaskInv, TaskTypes, Bar, KnownTasks, Told
  <2>3. ASSUME NEW t \in Latest, backendTask[t] = "running",
               setProvisionTask([id |-> t, status |-> "running"])
        PROVE  TaskInv'
    <3>1. t \in 1..MaxTasks /\ [id |-> t, status |-> "running"] \in TaskSet
      BY NoTaskIs DEF Latest, TaskSet, Statuses
    <3> QED BY <2>1, <2>3, <3>1, ShowInv
  <2> QED BY <1>7, <2>2, <2>3 DEF resumeAnswered
<1>8. CASE toastHidden
  <2>1. /\ banner = NoTask /\ visible' = FALSE
        /\ UNCHANGED <<backendTask, banner, cache, asks, resume, exiting, reloaded, visits,
                       mixed>>
    BY <1>8 DEF toastHidden
  <2> QED BY <2>1 DEF TaskInv, TaskTypes, Bar, KnownTasks, Told
<1>9. CASE UNCHANGED taskVars
  BY <1>9 DEF taskVars, TaskInv, TaskTypes, Bar, KnownTasks, Told
<1> QED BY <1>1, <1>2, <1>3, <1>4, <1>5, <1>6, <1>7, <1>8, <1>9
        DEF TaskNext, TaskUser, Answers, TaskTimers

(* What the invariant says of the bar.                                     *)
LEMMA TaskInvSafe == TaskInv => TaskTypeOK /\ BannerHonest /\ SuccessReloads
<1> SUFFICES ASSUME TaskInv PROVE TaskTypeOK /\ BannerHonest /\ SuccessReloads
  OBVIOUS
<1>1. exiting \in BOOLEAN /\ cache = banner
  BY DEF TaskInv, Bar
<1>2. TaskTypeOK
  BY <1>1 DEF TaskInv, TaskTypes, TaskTypeOK, TaskSet, AskSet
<1>3. BannerHonest
  BY DEF TaskInv, KnownTasks, Told, BannerHonest
<1>4. SuccessReloads
  BY DEF TaskInv, Bar, SuccessReloads
<1> QED BY <1>2, <1>3, <1>4

(* Only a creation, a start of the page or its list brings a banner back.  *)
LEMMA DismissedStep == TaskInv /\ [TaskNext]_taskVars => DismissedStays
<1> SUFFICES ASSUME TaskInv, [TaskNext]_taskVars, banner = NoTask, banner' # NoTask
             PROVE  backendTask' # backendTask \/ resume' # resume
  BY DEF DismissedStays
<1>1. cache = NoTask
  BY DEF TaskInv, Bar
<1>2. ASSUME NEW t \in 1..MaxTasks, createTask(t) PROVE backendTask' # backendTask
  <2>1. PICK s \in {"running", "refused"} : backendTask' = [backendTask EXCEPT ![t] = s]
    BY <1>2 DEF createTask
  <2>2. backendTask[t] = "none" /\ backendTask'[t] = s
    BY <1>2, <2>1 DEF createTask, TaskInv, TaskTypes
  <2> QED BY <2>2
<1>3. CASE resumeAnswered
  BY <1>3 DEF resumeAnswered
<1>4. CASE refreshProvisionTask \/ Poll \/ TaskEndsSome \/ toastHidden \/ UNCHANGED taskVars
  BY <1>4 DEF refreshProvisionTask, Poll, Ask, TaskEndsSome, TaskEnds, toastHidden, taskVars
<1>5. CASE onDismiss \/ successTimer
  BY <1>5 DEF onDismiss, successTimer, DismissWhen
<1>6. CASE reopenPage
  BY <1>1, <1>6 DEF reopenPage
<1>7. CASE \E a \in asks : answered(a)
  BY <1>7 DEF answered, Merge
<1> QED BY <1>2, <1>3, <1>4, <1>5, <1>6, <1>7 DEF TaskNext, TaskUser, Answers, TaskTimers

-----------------------------------------------------------------------------
(***************************************************************************)
(* NodeActivation.  Before activations cross there is one at most, and     *)
(* store and backend differ only between a success and its answer          *)
(* (Active); as long as nothing parted them, the node being activated is   *)
(* the one selected, and no node page is left open meanwhile (Steady); the *)
(* node an edit form was opened for stays the one the page is about        *)
(* (Editing).                                                              *)
(***************************************************************************)
ActSet == [k : Nat, node : 1..3, view : NodeViews, st : {"sent", "ok", "no"}]
ActTypes ==
  /\ ActTypeOK /\ acts \subseteq ActSet /\ actCount \in Nat
  /\ connected \in BOOLEAN /\ (connected => activeNode # 0)
Active ==
  /\ \A a, b \in acts : a = b
  /\ acts = {} => activeNode = backendActive
  /\ \A a \in acts : backendActive = IF a.st = "ok" THEN a.node ELSE activeNode
Steady ==
  /\ \A a \in acts : a.node = selectedNodeConfig /\ view = "cluster_home"
  /\ view \in NodeViews => selectedNodeConfig = activeNode
Editing == (editingNode # 0 /\ ~editMoved) => selectedNodeConfig = editingNode
ActInv ==
  /\ ActTypes /\ Editing
  /\ ~actsCrossed => Active
  /\ (~actsCrossed /\ ~strayed) => Steady

(* The page is always about some node.                                     *)
LEMMA ConfigIn ==
  ASSUME NEW c \in {1, 2}, NEW n \in 1..3
  PROVE  NodeConfigOf(c, n) \in ClusterNodes(c) /\ NodeConfigOf(c, n) \in 1..3
  BY DEF NodeConfigOf, ClusterNodes, FirstNode

(* The page starts with no node active and no activation under way.        *)
LEMMA ActInvInit == ActInit => ActInv
<1> SUFFICES ASSUME ActInit PROVE ActInv
  OBVIOUS
<1>1. ActTypeOK
  BY DEF ActInit, ActTypeOK
<1>2. ActTypes
  BY <1>1 DEF ActInit, ActTypes
<1>3. Editing /\ Active /\ Steady
  BY DEF ActInit, Editing, Active, Steady, NodeViews
<1> QED BY <1>2, <1>3 DEF ActInv

(* An activation starts, by a double click or by a button.                 *)
LEMMA StartActInv ==
  ASSUME ActInv, NEW n \in 1..3, NEW v \in NodeViews, StartAct(n, v),
         \/ selN' = n /\ strayed' = strayed
         \/ selN' = selN /\ strayed' = (strayed \/ n # selectedNodeConfig)
  PROVE  ActInv'
<1> DEFINE a == [k |-> actCount + 1, node |-> n, view |-> v, st |-> "sent"]
<1>1. /\ view = "cluster_home" /\ n \in ClusterNodes(selC) /\ actCount' = actCount + 1
      /\ acts' = acts \cup {a} /\ actsCrossed' = (actsCrossed \/ acts # {})
      /\ UNCHANGED <<view, selC, connected, activeNode, backendActive, editingNode, nodeData,
                     editMoved>>
  BY DEF StartAct
<1>2. actCount \in Nat /\ ActTypeOK /\ selC \in {1, 2} /\ selN \in 1..3
  BY DEF ActInv, ActTypes, ActTypeOK
<1>3. a \in ActSet /\ a.node = n /\ a.st = "sent"
  BY <1>2 DEF ActSet
<1> HIDE DEF a
<1>4. "cluster_home" \notin NodeViews /\ "cluster_home" # "node_home"
  BY DEF NodeViews
<1>5. editingNode = 0
  BY <1>1, <1>2, <1>4 DEF ActTypeOK
<1>6. ActTypes' /\ Editing'
  <2>1. ActTypeOK'
    BY <1>1, <1>2, <1>5 DEF ActTypeOK
  <2>2. actCount' \in Nat
    BY <1>1, <1>2
  <2> QED BY <1>1, <1>3, <1>5, <2>1, <2>2 DEF ActInv, ActTypes, Editing
<1>7. ASSUME ~actsCrossed' PROVE Active'
  <2>1. acts = {} /\ Active
    BY <1>1, <1>7 DEF ActInv
  <2> QED BY <1>1, <1>3, <2>1 DEF Active
<1>8. ASSUME ~actsCrossed', ~strayed' PROVE Steady'
  <2>1. acts' = {a}
    <3>1. acts = {}
      BY <1>1, <1>8
    <3> QED BY <1>1, <3>1
  <2>2. selectedNodeConfig' = n
    <3>1. CASE selN' = n
      BY <3>1, <1>1 DEF selectedNodeConfig, NodeConfigOf
    <3>2. CASE selN' = selN /\ n = selectedNodeConfig
      BY <3>2, <1>1 DEF selectedNodeConfig
    <3> QED BY <1>8, <3>1, <3>2
  <2> QED BY <1>1, <1>3, <1>4, <2>1, <2>2 DEF Steady
<1> QED BY <1>6, <1>7, <1>8 DEF ActInv

(* The backend activates a node, or refuses to.                            *)
LEMMA BackendActivatesInv ==
  ASSUME ActInv, NEW a \in acts, BackendActivates(a) PROVE ActInv'
<1>1. PICK ok \in {"ok", "no"} :
             /\ acts' = (acts \ {a}) \cup {[a EXCEPT !.st = ok]}
             /\ backendActive' = IF ok = "ok" THEN a.node ELSE backendActive
  BY DEF BackendActivates
<1>2. /\ a.st = "sent"
      /\ UNCHANGED <<view, selC, selN, connected, activeNode, editingNode, nodeData, actCount,
                     actsCrossed, strayed, editMoved>>
  BY DEF BackendActivates
<1> DEFINE q == [a EXCEPT !.st = ok]
<1>3. a \in ActSet
  BY DEF ActInv, ActTypes
<1>4. q \in ActSet /\ q.node = a.node /\ q.st = ok /\ a.node \in 1..3
  BY <1>3 DEF ActSet
<1>5. acts' = (acts \ {a}) \cup {q}
  BY <1>1
<1> HIDE DEF q
<1>6. backendActive' \in 0..3 /\ ActTypeOK
  BY <1>1, <1>4 DEF ActInv, ActTypes, ActTypeOK
<1>7. ActTypeOK'
  BY <1>2, <1>6 DEF ActTypeOK
<1>8. ActTypes' /\ Editing'
  BY <1>2, <1>4, <1>5, <1>7 DEF ActInv, ActTypes, Editing, selectedNodeConfig
<1>9. ASSUME ~actsCrossed PROVE Active'
  <2>1. Active /\ acts' = {q}
    BY <1>5, <1>9 DEF ActInv, Active
  <2>2. backendActive = activeNode
    BY <1>2, <2>1 DEF Active
  <2> QED BY <1>1, <1>2, <1>4, <2>1, <2>2 DEF Active
<1>10. ASSUME ~actsCrossed, ~strayed PROVE Steady'
  BY <1>2, <1>4, <1>5, <1>10 DEF ActInv, Steady, selectedNodeConfig
<1> QED BY <1>2, <1>8, <1>9, <1>10 DEF ActInv

(* The page changes, and a form on it goes with it.                        *)
LEMMA SetViewEditing ==
  ASSUME ActInv, NEW v, setCurrentView(v), UNCHANGED <<selC, selN>>,
         connected => connected'
  PROVE  /\ Editing' /\ view' = v /\ editingNode' \in 0..3
         /\ editingNode' # 0 => view' = "node_home" /\ connected'
<1>1. CASE v = view
  BY <1>1 DEF setCurrentView, ActInv, ActTypes, ActTypeOK, Editing, selectedNodeConfig
<1>2. CASE v # view
  BY <1>2 DEF setCurrentView, Editing
<1> QED BY <1>1, <1>2

(* The answer of an activation comes.                                      *)
LEMMA ActivateNodeInv ==
  ASSUME ActInv, NEW a \in acts, activateNode(a) PROVE ActInv'
<1>1. /\ a.st \in {"ok", "no"} /\ acts' = acts \ {a}
      /\ activeNode' = IF a.st = "ok" THEN a.node ELSE activeNode
      /\ connected' = (connected \/ a.st = "ok") /\ strayed' = (strayed \/ a.st = "no")
      /\ setCurrentView(a.view)
      /\ UNCHANGED <<selC, selN, backendActive, nodeData, actCount, actsCrossed>>
  BY DEF activateNode, Answered
<1>2. a \in ActSet
  BY DEF ActInv, ActTypes
<1>3. a.view \in NodeViews /\ a.node \in 1..3 /\ a.node # 0
  BY <1>2 DEF ActSet
<1>4. /\ Editing' /\ view' = a.view /\ editingNode' \in 0..3
      /\ editingNode' # 0 => view' = "node_home" /\ connected'
  BY <1>1, SetViewEditing
<1>5. activeNode' \in 0..3 /\ connected' \in BOOLEAN /\ (connected' => activeNode' # 0)
  BY <1>1, <1>3 DEF ActInv, ActTypes, ActTypeOK
<1>6. ActTypeOK'
  BY <1>1, <1>3, <1>4, <1>5 DEF ActInv, ActTypes, ActTypeOK
<1>7. ActTypes'
  BY <1>1, <1>5, <1>6 DEF ActInv, ActTypes
<1>8. ASSUME ~actsCrossed PROVE Active'
  <2>1. Active /\ acts' = {}
    BY <1>1, <1>8 DEF ActInv, Active
  <2> QED BY <1>1, <2>1 DEF Active
<1>9. ASSUME ~actsCrossed, ~strayed' PROVE Steady'
  <2>1. Steady /\ Active /\ acts' = {} /\ a.st = "ok"
    BY <1>1, <1>9 DEF ActInv, Active
  <2>2. a.node = selectedNodeConfig /\ selectedNodeConfig' = selectedNodeConfig
    BY <1>1, <2>1 DEF Steady, selectedNodeConfig
  <2> QED BY <1>1, <2>1, <2>2 DEF Steady
<1> QED BY <1>1, <1>4, <1>7, <1>8, <1>9 DEF ActInv

(* A reload of the workspace moves the selection to the first cluster.     *)
LEMMA TaskReloadsInv ==
  ASSUME ActInv, taskReloads PROVE ActInv'
<1>1. /\ selC' = 1 /\ strayed' = (strayed \/ selC # 1)
      /\ editMoved' = (editMoved \/ (editingNode # 0
                                     /\ NodeConfigOf(1, selN) # selectedNodeConfig))
      /\ UNCHANGED <<view, selN, connected, activeNode, backendActive, acts, editingNode,
                     nodeData, actCount, actsCrossed>>
  BY DEF taskReloads
<1>2. selectedNodeConfig' = NodeConfigOf(1, selN)
  BY <1>1 DEF selectedNodeConfig
<1>3. Editing'
  BY <1>1, <1>2 DEF ActInv, Editing
<1>4. ActTypes'
  BY <1>1 DEF ActInv, ActTypes, ActTypeOK
<1>5. ~actsCrossed => Active'
  BY <1>1 DEF ActInv, Active
<1>6. ASSUME ~actsCrossed, ~strayed' PROVE Steady'
  <2>1. ~strayed /\ selC' = selC
    BY <1>1, <1>6
  <2> QED BY <1>1, <1>6, <2>1 DEF ActInv, Steady, selectedNodeConfig
<1> QED BY <1>1, <1>3, <1>4, <1>5, <1>6 DEF ActInv

(* An edit form is opened, saved or closed.                                *)
LEMMA EditInv ==
  ASSUME ActInv, startEditing \/ saveEdit \/ cancelEditing PROVE ActInv'
<1>0. selectedNodeConfig \in 1..3 /\ ActTypeOK
  BY ConfigIn DEF ActInv, ActTypes, ActTypeOK, selectedNodeConfig
<1>1. /\ UNCHANGED <<view, selC, selN, connected, activeNode, backendActive, acts, actCount,
                     actsCrossed, strayed>>
      /\ nodeData' \in {nodeData, [nodeData EXCEPT ![selectedNodeConfig] = "form"]}
      /\ \/ editingNode' = 0
         \/ editingNode' = selectedNodeConfig /\ view = "node_home" /\ connected
  BY DEF startEditing, saveEdit, cancelEditing, NodeViewShown
<1>2. selectedNodeConfig' = selectedNodeConfig
  BY <1>1 DEF selectedNodeConfig
<1>3. nodeData' \in [1..3 -> {"own", "form"}] /\ editingNode' \in 0..3
  BY <1>0, <1>1 DEF ActTypeOK
<1>4. ActTypes'
  BY <1>0, <1>1, <1>3 DEF ActInv, ActTypes, ActTypeOK
<1>5. Editing' /\ (~actsCrossed => Active') /\ (~actsCrossed /\ ~strayed => Steady')
  BY <1>1, <1>2 DEF ActInv, Editing, Active, Steady
<1> QED BY <1>1, <1>4, <1>5 DEF ActInv

(* Every step keeps the invariant.                                         *)
LEMMA ActInvNext == ActInv /\ [ActNext]_actVars => ActInv'
<1> SUFFICES ASSUME ActInv, [ActNext]_actVars PROVE ActInv'
  OBVIOUS
<1>1. ASSUME NEW n \in 1..3, handleNodeDoubleClick(n) PROVE ActInv'
  <2>1. "node_home" \in NodeViews
    BY DEF NodeViews
  <2> QED BY <1>1, <2>1, StartActInv DEF handleNodeDoubleClick
<1>2. ASSUME NEW n \in 1..3, NEW v \in NodeViews, activateButton(n, v) PROVE ActInv'
  BY <1>2, StartActInv DEF activateButton
<1>3. CASE \E a \in acts : BackendActivates(a)
  BY <1>3, BackendActivatesInv
<1>4. ASSUME NEW a \in acts, ActLost(a) PROVE ActInv'
  <2>1. /\ acts' = acts \ {a} /\ actsCrossed' = TRUE
        /\ UNCHANGED <<view, selC, selN, connected, activeNode, backendActive, editingNode,
                       nodeData, actCount, editMoved>>
    BY <1>4 DEF ActLost
  <2> QED BY <2>1 DEF ActInv, ActTypes, ActTypeOK, Editing, selectedNodeConfig
<1>5. CASE \E a \in acts : activateNode(a)
  BY <1>5, ActivateNodeInv
<1>6. CASE taskReloads
  BY <1>6, TaskReloadsInv
<1>7. CASE startEditing \/ saveEdit \/ cancelEditing
  BY <1>7, EditInv
<1>8. ASSUME NEW c \in {1, 2}, onSelectClusterId(c) PROVE ActInv'
  <2>1. /\ view = "cluster_home" /\ selC' = c /\ strayed' = TRUE
        /\ UNCHANGED <<view, selN, connected, activeNode, backendActive, acts, editingNode,
                       nodeData, actCount, actsCrossed, editMoved>>
    BY <1>8 DEF onSelectClusterId
  <2>2. editingNode = 0
    BY <2>1 DEF ActInv, ActTypes, ActTypeOK
  <2> QED BY <2>1, <2>2 DEF ActInv, ActTypes, ActTypeOK, Editing, Active
<1>9. ASSUME NEW v \in NodeViews \cup {"cluster_home"}, onNavigate(v) PROVE ActInv'
  <2>1. /\ view \in NodeViews /\ setCurrentView(v)
        /\ UNCHANGED <<selC, selN, connected, activeNode, backendActive, acts, nodeData,
                       actCount, actsCrossed, strayed>>
    BY <1>9 DEF onNavigate, NodeViews
  <2>2. /\ Editing' /\ view' = v /\ editingNode' \in 0..3
        /\ editingNode' # 0 => view' = "node_home" /\ connected'
    BY <2>1, SetViewEditing
  <2>3. ActTypes'
    BY <2>1, <2>2 DEF ActInv, ActTypes, ActTypeOK
  <2>4. ~actsCrossed => Active'
    BY <2>1 DEF ActInv, Active
  <2>5. ASSUME ~actsCrossed, ~strayed PROVE Steady'
    <3>1. Steady /\ acts = {}
      BY <2>1, <2>5 DEF ActInv, Steady, NodeViews
    <3> QED BY <2>1, <2>2, <3>1 DEF Steady, selectedNodeConfig
  <2> QED BY <2>1, <2>2, <2>3, <2>4, <2>5 DEF ActInv
<1>10. CASE UNCHANGED actVars
  BY <1>10 DEF actVars, ActInv, ActTypes, ActTypeOK, Editing, Active, Steady,
     selectedNodeConfig
<1> QED BY <1>1, <1>2, <1>3, <1>4, <1>5, <1>6, <1>7, <1>8, <1>9, <1>10 DEF ActNext, ActSteps

(* What the invariant says of the pages of a node.                         *)
LEMMA ActInvSafe ==
  ActInv => ActTypeOK /\ ActiveAgrees /\ NodeViewNeedsNode /\ NodeShownIsActive
  BY DEF ActInv, ActTypes, Active, Steady, ActiveAgrees, NodeViewNeedsNode,
     NodeShownIsActive, NodeViewShown

(* Where an edit is saved: to the node the page is about.                  *)
LEMMA EditLandsStep == ActInv /\ [ActNext]_actVars => EditLands
<1> SUFFICES ASSUME ActInv, [ActNext]_actVars, NEW n \in 1..3, nodeData'[n] # nodeData[n]
             PROVE  n = selectedNodeConfig /\ (n = editingNode \/ editMoved)
  BY DEF EditLands
<1>1. CASE saveEdit
  <2>1. editingNode # 0 /\ n = selectedNodeConfig
    BY <1>1 DEF saveEdit, ActInv, ActTypes, ActTypeOK
  <2> QED BY <2>1 DEF ActInv, Editing
<1>2. CASE nodeData' = nodeData
  BY <1>2
<1>3. CASE ActSteps
  BY <1>2, <1>3 DEF ActSteps, BackendActivates, ActLost, activateNode, Answered
<1>4. CASE taskReloads \/ startEditing \/ cancelEditing \/ UNCHANGED actVars
  BY <1>2, <1>4 DEF taskReloads, startEditing, cancelEditing, actVars
<1>5. CASE \E m \in 1..3 :
             handleNodeDoubleClick(m) \/ \E v \in NodeViews : activateButton(m, v)
  BY <1>2, <1>5 DEF handleNodeDoubleClick, activateButton, StartAct
<1>6. CASE (\E c \in {1, 2} : onSelectClusterId(c))
           \/ \E v \in NodeViews \cup {"cluster_home"} : onNavigate(v)
  BY <1>2, <1>6 DEF onSelectClusterId, onNavigate
<1> QED BY <1>1, <1>3, <1>4, <1>5, <1>6 DEF ActNext

-----------------------------------------------------------------------------
(***************************************************************************)
(* NodeImport.  An import has a number of its own and stays so; what it    *)
(* has brought to the backend is in what its reload reads; one import of a *)
(* DSN at most is under way, and keeps the button disabled.                *)
(***************************************************************************)
ImportSet == [n : 1..MaxImports, kind : {"host", "dsn"},
              st : {"validate", "import", "ask", "reload"}, ans : SUBSET (1..MaxImports)]
Levels == {"info", "success", "error"}
ImpTypes ==
  /\ scanLoading \in BOOLEAN /\ instances \in BOOLEAN /\ scanError \in BOOLEAN
  /\ dsnLoading \in BOOLEAN /\ reloadLost \in BOOLEAN
  /\ importLogs \in Seq(Levels) /\ Len(importLogs) =< LogCap
  /\ highlightNode \in 0..MaxImports /\ pageNodes \subseteq 1..MaxImports
  /\ storeNodes \subseteq 1..MaxImports /\ importCount \in 0..MaxImports
Imports ==
  /\ imports \subseteq ImportSet
  /\ \A i \in imports :
       /\ i.n =< importCount /\ (i.kind = "dsn" => dsnLoading)
       /\ i.st \in {"ask", "reload"} => i.n \in storeNodes
       /\ i.st = "reload" => i.n \in i.ans
  /\ \A i, j \in imports : i.n = j.n \/ (i.kind = "dsn" /\ j.kind = "dsn") => i = j
ImpInv == ImpTypes /\ Imports /\ HighlightShown

(* The import starts with nothing found and nothing highlighted.           *)
LEMMA ImpInvInit == ImpInit => ImpInv
<1> SUFFICES ASSUME ImpInit PROVE ImpInv
  OBVIOUS
<1>1. importLogs \in Seq(Levels) /\ Len(importLogs) = 0
  BY DEF ImpInit
<1>2. 0 \in 0..MaxImports /\ Len(importLogs) =< LogCap
  BY <1>1, ImportBounds
<1>3. highlightNode \in 0..MaxImports /\ importCount \in 0..MaxImports
  BY <1>2 DEF ImpInit
<1>4. /\ pageNodes \subseteq 1..MaxImports /\ storeNodes \subseteq 1..MaxImports
      /\ scanLoading \in BOOLEAN /\ instances \in BOOLEAN /\ scanError \in BOOLEAN
      /\ dsnLoading \in BOOLEAN /\ reloadLost \in BOOLEAN
  BY Zenon DEF ImpInit
<1>5. ImpTypes
  BY <1>1, <1>2, <1>3, <1>4 DEF ImpTypes
<1> QED BY <1>5 DEF ImpInit, ImpInv, Imports, HighlightShown

(* The log is cut to its limit.                                            *)
LEMMA LogKept ==
  ASSUME ImpTypes, NEW level \in Levels, addLog(level)
  PROVE  importLogs' \in Seq(Levels) /\ Len(importLogs') =< LogCap
<1> DEFINE l == <<level>> \o importLogs
           m == IF Len(l) < LogCap THEN Len(l) ELSE LogCap
<1>1. l \in Seq(Levels)
  BY DEF ImpTypes
<1>2. importLogs' = SubSeq(l, 1, m)
  BY DEF addLog
<1>3. Len(l) \in Nat /\ m \in Nat /\ m =< Len(l) /\ m =< LogCap
  BY <1>1, ImportBounds
<1> HIDE DEF l, m
<1>4. \A k \in 1..m : l[k] \in Levels
  BY <1>1, <1>3
<1>5. SubSeq(l, 1, m) \in Seq(Levels) /\ Len(SubSeq(l, 1, m)) = m
  BY <1>1, <1>3, <1>4
<1> QED BY <1>2, <1>3, <1>5

(* The log is written and nothing the other parts speak of changes.        *)
LEMMA StartImportInv ==
  ASSUME ImpInv, NEW kind \in {"host", "dsn"}, NEW st \in {"validate", "import"},
         StartImport(kind, st),
         \/ kind = "host" /\ dsnLoading' = dsnLoading
         \/ kind = "dsn" /\ ~dsnLoading /\ dsnLoading' = TRUE
  PROVE  ImpInv'
<1> DEFINE i == [n |-> importCount + 1, kind |-> kind, st |-> st, ans |-> {}]
<1>1. /\ importCount < MaxImports /\ importCount' = importCount + 1
      /\ imports' = imports \cup {i} /\ addLog("info")
      /\ UNCHANGED <<scanLoading, instances, scanError, highlightNode, pageNodes, storeNodes,
                     reloadLost>>
  BY DEF StartImport
<1>2. importCount \in Nat /\ importCount' \in 0..MaxImports /\ importCount + 1 \in 1..MaxImports
  BY <1>1, ImportBounds DEF ImpInv, ImpTypes
<1>3. i \in ImportSet /\ i.n = importCount + 1 /\ i.kind = kind /\ i.st = st
  BY <1>2 DEF ImportSet
<1> HIDE DEF i
<1>4. importLogs' \in Seq(Levels) /\ Len(importLogs') =< LogCap
  BY <1>1, LogKept DEF ImpInv, Levels
<1>5. dsnLoading' \in BOOLEAN
  BY DEF ImpInv, ImpTypes
<1>6. ImpTypes' /\ HighlightShown'
  BY <1>1, <1>2, <1>4, <1>5 DEF ImpInv, ImpTypes, HighlightShown
<1>7. \A j \in imports : j.n \in Nat /\ j.n =< importCount /\ j.n =< importCount + 1
                         /\ j.n # importCount + 1
  <2>1. \A j \in imports : j.n \in 1..MaxImports /\ j.n =< importCount
    BY DEF ImpInv, Imports, ImportSet
  <2> QED BY <1>2, <2>1, ImportBounds
<1>8. ASSUME NEW j \in imports'
      PROVE  /\ j \in ImportSet /\ j.n =< importCount' /\ (j.kind = "dsn" => dsnLoading')
             /\ j.st \in {"ask", "reload"} => j.n \in storeNodes'
             /\ j.st = "reload" => j.n \in j.ans
  <2>1. CASE j \in imports
    BY <2>1, <1>1, <1>7 DEF ImpInv, Imports
  <2>2. CASE j = i
    BY <2>2, <1>1, <1>2, <1>3
  <2> QED BY <2>1, <2>2, <1>1
<1>9. ASSUME NEW j \in imports', NEW h \in imports',
             j.n = h.n \/ (j.kind = "dsn" /\ h.kind = "dsn")
      PROVE  j = h
  BY <1>1, <1>3, <1>7, <1>9 DEF ImpInv, Imports
<1>10. Imports'
  BY <1>8, <1>9 DEF Imports
<1> QED BY <1>6, <1>10 DEF ImpInv

(* An import goes on: it keeps its number and its kind.                    *)
LEMMA MovesImports ==
  ASSUME ImpInv, NEW i \in imports, NEW j \in ImportSet, Moves(i, j), j.n = i.n,
         j.kind = i.kind, UNCHANGED <<importCount, dsnLoading>>,
         storeNodes \subseteq storeNodes', j.st \in {"ask", "reload"} => j.n \in storeNodes',
         j.st = "reload" => j.n \in j.ans
  PROVE  Imports'
<1>1. imports' = (imports \ {i}) \cup {j}
  BY DEF Moves
<1>2. \A h \in imports' : /\ h \in ImportSet /\ h.n =< importCount'
                          /\ (h.kind = "dsn" => dsnLoading')
                          /\ (h.st \in {"ask", "reload"} => h.n \in storeNodes')
                          /\ (h.st = "reload" => h.n \in h.ans)
  BY <1>1 DEF ImpInv, Imports
<1>3. ASSUME NEW h \in imports', NEW g \in imports',
             h.n = g.n \/ (h.kind = "dsn" /\ g.kind = "dsn")
      PROVE  h = g
  BY <1>1, <1>3 DEF ImpInv, Imports
<1> QED BY <1>2, <1>3 DEF Imports

(* The stages of an import up to its reload.                               *)
LEMMA StagesInv ==
  ASSUME ImpInv, NEW i \in imports, dsnValid(i) \/ imported(i) \/ onReloadWorkspace(i)
  PROVE  ImpInv'
<1>0. i \in ImportSet /\ i.n \in 1..MaxImports /\ storeNodes \subseteq 1..MaxImports
  BY DEF ImpInv, ImpTypes, Imports, ImportSet
<1>1. CASE dsnValid(i)
  <2> DEFINE j == [i EXCEPT !.st = "import"]
  <2>1. j \in ImportSet /\ j.n = i.n /\ j.kind = i.kind /\ j.st = "import"
    BY <1>0 DEF ImportSet
  <2>2. /\ Moves(i, j) /\ addLog("success")
        /\ UNCHANGED <<scanLoading, instances, scanError, dsnLoading, highlightNode,
                       pageNodes, storeNodes, importCount, reloadLost>>
    BY <1>1 DEF dsnValid
  <2> HIDE DEF j
  <2>3. importLogs' \in Seq(Levels) /\ Len(importLogs') =< LogCap
    BY <2>2, LogKept DEF ImpInv, Levels
  <2>4. Imports'
    BY <2>1, <2>2, MovesImports
  <2> QED BY <2>2, <2>3, <2>4 DEF ImpInv, ImpTypes, HighlightShown
<1>2. CASE imported(i)
  <2> DEFINE j == [i EXCEPT !.st = "ask"]
  <2>1. j \in ImportSet /\ j.n = i.n /\ j.kind = i.kind /\ j.st = "ask"
    BY <1>0 DEF ImportSet
  <2>2. /\ Moves(i, j) /\ storeNodes' = storeNodes \cup {i.n}
        /\ UNCHANGED <<scanLoading, instances, scanError, dsnLoading, importLogs,
                       highlightNode, pageNodes, importCount, reloadLost>>
    BY <1>2 DEF imported
  <2> HIDE DEF j
  <2>3. storeNodes' \subseteq 1..MaxImports
    BY <1>0, <2>2
  <2>4. Imports'
    BY <2>1, <2>2, MovesImports
  <2> QED BY <2>2, <2>3, <2>4 DEF ImpInv, ImpTypes, HighlightShown
<1>3. CASE onReloadWorkspace(i)
  <2> DEFINE j == [i EXCEPT !.st = "reload", !.ans = storeNodes]
  <2>1. j \in ImportSet /\ j.n = i.n /\ j.kind = i.kind /\ j.st = "reload"
        /\ j.ans = storeNodes
    BY <1>0 DEF ImportSet
  <2>2. /\ i.st = "ask" /\ Moves(i, j) /\ reloadLost' = (reloadLost \/ Reloading # {})
        /\ UNCHANGED <<scanLoading, instances, scanError, dsnLoading, importLogs,
                       highlightNode, pageNodes, storeNodes, importCount>>
    BY <1>3 DEF onReloadWorkspace
  <2> HIDE DEF j
  <2>3. i.n \in storeNodes
    BY <2>2 DEF ImpInv, Imports
  <2>4. Imports'
    BY <2>1, <2>2, <2>3, MovesImports
  <2>5. reloadLost' \in BOOLEAN /\ (reloadLost => reloadLost')
    BY <2>2 DEF ImpInv, ImpTypes
  <2> QED BY <2>2, <2>4, <2>5 DEF ImpInv, ImpTypes, HighlightShown
<1> QED BY <1>1, <1>2, <1>3

(* An import that ends takes no other with it.                             *)
LEMMA DoneImports ==
  ASSUME ImpInv, NEW i \in imports, Done(i)
  PROVE  /\ Imports' /\ dsnLoading' \in BOOLEAN
         /\ UNCHANGED <<scanLoading, instances, storeNodes, importCount>>
<1>1. /\ imports' = imports \ {i} /\ dsnLoading' = (dsnLoading /\ i.kind # "dsn")
      /\ UNCHANGED <<scanLoading, instances, storeNodes, importCount>>
  BY DEF Done
<1>2. dsnLoading' \in BOOLEAN
  BY <1>1 DEF ImpInv, ImpTypes
<1>3. ASSUME NEW j \in imports', j.kind = "dsn" PROVE dsnLoading'
  <2>1. i.kind # "dsn" /\ dsnLoading
    BY <1>1, <1>3 DEF ImpInv, Imports
  <2> QED BY <1>1, <2>1
<1> QED BY <1>1, <1>2, <1>3 DEF ImpInv, Imports

(* Every step keeps the invariant.                                         *)
LEMMA ImpInvNext == ImpInv /\ [ImpNext]_impVars => ImpInv'
<1> SUFFICES ASSUME ImpInv, [ImpNext]_impVars PROVE ImpInv'
  OBVIOUS
<1>0. "info" \in Levels /\ "success" \in Levels /\ "error" \in Levels /\ ImpTypes
  BY DEF Levels, ImpInv
<1>1. CASE runHostScan
  <2>1. importLogs' \in Seq(Levels) /\ Len(importLogs') =< LogCap
    BY <1>0, <1>1, LogKept DEF runHostScan
  <2> QED BY <1>1, <2>1 DEF runHostScan, ImpInv, ImpTypes, Imports, HighlightShown
<1>2. CASE scanEnds
  <2>1. importLogs' \in Seq(Levels) /\ Len(importLogs') =< LogCap
    BY <1>0, <1>2, LogKept DEF scanEnds
  <2>2. scanLoading' \in BOOLEAN /\ instances' \in BOOLEAN /\ scanError' \in BOOLEAN
    BY <1>0, <1>2 DEF scanEnds, ImpTypes
  <2>3. UNCHANGED <<dsnLoading, highlightNode, imports, pageNodes, storeNodes, importCount,
                    reloadLost>>
    BY <1>2 DEF scanEnds
  <2> QED BY <2>1, <2>2, <2>3 DEF ImpInv, ImpTypes, Imports, HighlightShown
<1>3. CASE importDiscovered
  BY <1>3, StartImportInv DEF importDiscovered
<1>4. CASE validateAndImportDSN
  BY <1>4, StartImportInv DEF validateAndImportDSN
<1>5. CASE clearLogs
  <2>1. <<>> \in Seq(Levels) /\ Len(<<>>) =< LogCap
    BY ImportBounds
  <2> QED BY <1>5, <2>1 DEF clearLogs, ImpInv, ImpTypes, Imports, HighlightShown
<1>6. CASE \E i \in imports : dsnValid(i) \/ imported(i) \/ onReloadWorkspace(i)
  BY <1>6, StagesInv
<1>7. ASSUME NEW i \in imports, importDone(i) PROVE ImpInv'
  <2>1. /\ i.st = "reload" /\ Done(i) /\ addLog("success") /\ highlightNode' = i.n
        /\ scanError' = scanError
        /\ \/ pageNodes' = i.ans /\ reloadLost' = reloadLost
           \/ pageNodes' = pageNodes /\ reloadLost' = TRUE
    BY <1>7 DEF importDone
  <2>2. importLogs' \in Seq(Levels) /\ Len(importLogs') =< LogCap
    BY <1>0, <2>1, LogKept
  <2>3. i.n \in 1..MaxImports /\ i.ans \subseteq 1..MaxImports /\ i.n \in i.ans
    BY <2>1 DEF ImpInv, Imports, ImportSet
  <2>4. highlightNode' \in 0..MaxImports /\ pageNodes' \subseteq 1..MaxImports
    <3>1. i.n \in 0..MaxImports
      BY <2>3, ImportBounds
    <3>2. pageNodes' \subseteq 1..MaxImports
      <4>1. CASE pageNodes' = i.ans
        BY <2>3, <4>1
      <4>2. CASE pageNodes' = pageNodes
        BY <1>0, <4>2 DEF ImpTypes
      <4> QED BY <2>1, <4>1, <4>2
    <3>3. highlightNode' = i.n
      BY <2>1
    <3> QED BY <3>1, <3>2, <3>3
  <2>5. HighlightShown'
    BY <2>1, <2>3 DEF HighlightShown
  <2>6. /\ Imports' /\ dsnLoading' \in BOOLEAN
        /\ UNCHANGED <<scanLoading, instances, storeNodes, importCount>>
    BY <2>1, DoneImports
  <2>7. reloadLost' \in BOOLEAN
    BY <1>0, <2>1 DEF ImpTypes
  <2>8. ImpTypes'
    BY <1>0, <2>1, <2>2, <2>4, <2>6, <2>7 DEF ImpTypes
  <2> QED BY <2>5, <2>6, <2>8 DEF ImpInv
<1>8. ASSUME NEW i \in imports, importFailed(i) PROVE ImpInv'
  <2>1. /\ Done(i) /\ addLog("error") /\ scanError' = (scanError \/ i.kind = "host")
        /\ UNCHANGED <<highlightNode, pageNodes, reloadLost>>
    BY <1>8 DEF importFailed
  <2>2. importLogs' \in Seq(Levels) /\ Len(importLogs') =< LogCap
    BY <1>0, <2>1, LogKept
  <2>3. /\ Imports' /\ dsnLoading' \in BOOLEAN
        /\ UNCHANGED <<scanLoading, instances, storeNodes, importCount>>
    BY <2>1, DoneImports
  <2>4. scanError' \in BOOLEAN
    BY <1>0, <2>1 DEF ImpTypes
  <2>5. ImpTypes'
    BY <1>0, <2>1, <2>2, <2>3, <2>4 DEF ImpTypes
  <2> QED BY <2>1, <2>3, <2>5 DEF ImpInv, HighlightShown
<1>9. CASE highlightEnds
  <2>1. 0 \in 0..MaxImports
    BY ImportBounds
  <2> QED BY <1>9, <2>1 DEF highlightEnds, ImpInv, ImpTypes, Imports, HighlightShown
<1>10. CASE UNCHANGED impVars
  BY <1>10 DEF impVars, ImpInv, ImpTypes, Imports, HighlightShown
<1> QED BY <1>1, <1>2, <1>3, <1>4, <1>5, <1>6, <1>7, <1>8, <1>9, <1>10 DEF ImpNext, ImpSteps

(* What the invariant says of the highlight.                               *)
LEMMA ImpInvSafe == ImpInv => ImpTypeOK /\ HighlightShown
  BY DEF ImpInv, ImpTypes, Imports, ImpTypeOK, Levels

-----------------------------------------------------------------------------
(***************************************************************************)
(* ClusterOverview.  The nodes of a cluster have ids of their own, those   *)
(* of cluster 1, to which one is added, among three; a request whose       *)
(* effect still runs is for the cluster that is shown.  That the pair      *)
(* drawn has two ends needs the ids: its ends are two places of the list.  *)
(***************************************************************************)
NodeRec == [id : NodeIds, role : Roles]
OwnIds(s) == \A i, j \in 1..Len(s) : s[i].id = s[j].id => i = j
Clusters(cs) ==
  /\ DOMAIN cs \subseteq {1, 2}
  /\ \A c \in DOMAIN cs : cs[c] \in Seq(NodeRec) /\ Len(cs[c]) \in 1..3 /\ OwnIds(cs[c])
  /\ 1 \in DOMAIN cs => \A i \in 1..Len(cs[1]) : cs[1][i].id \in {1, 2, 3}
Asks(as, c) ==
  \A k \in DOMAIN as :
    "live" \in DOMAIN as[k] /\ as[k].live \in BOOLEAN /\ (as[k].live => as[k].of = c)
OvInv ==
  /\ Clusters(clusters) /\ Asks(ovAsks, cluster)
  /\ DOMAIN ovAsks = 1..MaxInFlight
  /\ overview.of \in {NoCluster, 1, 2} /\ ovAnswered \in BOOLEAN
  /\ editing \in {0} \cup EditedNodes
  /\ OverviewOfShown

(* What is shown is a cluster of the project, or none when there is none.  *)
LEMMA ShownIsThere ==
  ASSUME NEW cs, NEW sel, DOMAIN cs \subseteq {1, 2}
  PROVE  /\ ShownOf(sel, cs) \in {0, 1, 2}
         /\ ShownOf(sel, cs) # 0 => ShownOf(sel, cs) \in DOMAIN cs
<1>1. CASE sel \in DOMAIN cs
  BY <1>1 DEF ShownOf
<1>2. CASE sel \notin DOMAIN cs /\ DOMAIN cs # {}
  <2>1. \E c \in DOMAIN cs : \A d \in DOMAIN cs : c =< d
    <3>1. CASE 1 \in DOMAIN cs
      BY <3>1
    <3>2. CASE 1 \notin DOMAIN cs
      <4>1. DOMAIN cs = {2}
        BY <1>2, <3>2
      <4> QED BY <4>1
    <3> QED BY <3>1, <3>2
  <2>2. ShownOf(sel, cs) = CHOOSE c \in DOMAIN cs : \A d \in DOMAIN cs : c =< d
    BY <1>2 DEF ShownOf
  <2> QED BY <2>1, <2>2
<1>3. CASE sel \notin DOMAIN cs /\ DOMAIN cs = {}
  BY <1>3 DEF ShownOf, NoCluster
<1> QED BY <1>1, <1>2, <1>3

(* The overview starts empty, its first request under way.                 *)
LEMMA OvInvInit == OvInit => OvInv
<1> SUFFICES ASSUME OvInit PROVE OvInv
  OBVIOUS
<1> DEFINE one == <<NodeOf(1, "primary"), NodeOf(2, "standby")>>
           two == <<NodeOf(4, "subscriber"), NodeOf(5, "publisher")>>
<1>1. /\ NodeOf(1, "primary") \in NodeRec /\ NodeOf(2, "standby") \in NodeRec
      /\ NodeOf(4, "subscriber") \in NodeRec /\ NodeOf(5, "publisher") \in NodeRec
  BY DEF NodeOf, NodeRec, NodeIds, Roles
<1>2. one \in Seq(NodeRec) /\ Len(one) = 2 /\ two \in Seq(NodeRec) /\ Len(two) = 2
  BY <1>1
<1>3. one[1].id = 1 /\ one[2].id = 2 /\ two[1].id = 4 /\ two[2].id = 5
  BY DEF NodeOf
<1>4. DOMAIN clusters = {1, 2} /\ clusters[1] = one /\ clusters[2] = two
  BY DEF OvInit
<1> HIDE DEF one, two
<1>5. Clusters(clusters)
  <2>1. ASSUME NEW i \in 1..Len(one) PROVE i \in {1, 2}
    BY <1>2
  <2>2. /\ \A i \in 1..Len(one) : one[i].id \in {1, 2, 3}
        /\ OwnIds(one)
    BY <1>3, <2>1 DEF OwnIds
  <2>4. ASSUME NEW i \in 1..Len(two) PROVE i \in {1, 2}
    BY <1>2
  <2>5. OwnIds(two)
    BY <1>3, <2>4 DEF OwnIds
  <2>3. Len(one) \in 1..3 /\ Len(two) \in 1..3
    BY <1>2
  <2> QED BY <1>2, <1>4, <2>2, <2>3, <2>5 DEF Clusters
<1>6. cluster = 1
  BY <1>4 DEF OvInit, cluster, ShownOf
<1>7. Asks(ovAsks, 1) /\ DOMAIN ovAsks = 1..MaxInFlight
  BY DEF OvInit, Asks, NoAsk
<1> QED BY <1>5, <1>6, <1>7 DEF OvInit, OvInv, EmptyOverview, NoCluster, OverviewOfShown

(* The effect runs again for what is shown then.                           *)
LEMMA RerunInv ==
  ASSUME OvInv, NEW sel, NEW cs, Clusters(cs), Rerun(sel, cs), editing' \in {0, editing}
  PROVE  OvInv'
<1> DEFINE c == ShownOf(sel, cs)
           old == [k \in DOMAIN ovAsks |-> IF FreeSlot(k) THEN NoAsk
                                           ELSE [ovAsks[k] EXCEPT !.live = FALSE]]
<1>1. clusters' = cs /\ selectedCluster' = sel /\ RerunWith(sel, cs, old)
  BY DEF Rerun, RerunWith
<1>2. cluster' = c
  BY <1>1 DEF cluster
<1>3. /\ DOMAIN old = 1..MaxInFlight
      /\ \A k \in DOMAIN old : "live" \in DOMAIN old[k] /\ old[k].live = FALSE
  BY DEF OvInv, Asks, NoAsk
<1>4. \/ c = 0 /\ ovAsks' = old /\ overview' = EmptyOverview /\ ovAnswered' = TRUE
      \/ /\ c # 0 /\ ovAnswered' = FALSE /\ overview' = overview
         /\ \E k \in DOMAIN ovAsks : ovAsks' = [old EXCEPT ![k] = AskOf(c, cs)]
  BY <1>1 DEF RerunWith, NoCluster
<1>5. Clusters(clusters)' /\ editing' \in {0} \cup EditedNodes
  BY <1>1 DEF OvInv, Clusters
<1> HIDE DEF c, old
<1>6. CASE c = 0 /\ ovAsks' = old /\ overview' = EmptyOverview /\ ovAnswered' = TRUE
  <2>1. Asks(ovAsks, cluster)' /\ DOMAIN ovAsks' = 1..MaxInFlight
    BY <1>3, <1>6 DEF Asks
  <2>2. overview'.of = 0 /\ OverviewOfShown'
    BY <1>2, <1>6 DEF EmptyOverview, NoCluster, OverviewOfShown
  <2> QED BY <1>5, <1>6, <2>1, <2>2 DEF OvInv, NoCluster
<1>7. ASSUME c # 0, ovAnswered' = FALSE, overview' = overview, NEW k \in DOMAIN ovAsks,
             ovAsks' = [old EXCEPT ![k] = AskOf(c, cs)]
      PROVE  OvInv'
  <2>1. "live" \in DOMAIN AskOf(c, cs) /\ AskOf(c, cs).live = TRUE /\ AskOf(c, cs).of = c
    BY DEF AskOf
  <2>2. Asks(ovAsks, cluster)' /\ DOMAIN ovAsks' = 1..MaxInFlight
    BY <1>2, <1>3, <1>7, <2>1 DEF Asks
  <2> QED BY <1>5, <1>7, <2>2 DEF OvInv, OverviewOfShown, NoCluster
<1> QED BY <1>4, <1>6, <1>7

(* A role is edited: the node keeps its id.                                *)
LEMMA RoleEdited ==
  ASSUME OvInv, NEW k \in 1..3, k =< Len(Nodes), NEW r \in Roles
  PROVE  Clusters([clusters EXCEPT ![cluster][k].role = r])
<1>1. cluster # 0 /\ cluster \in DOMAIN clusters
  <2>1. cluster # 0
    BY DEF Nodes, NoCluster
  <2> QED BY <2>1, ShownIsThere DEF OvInv, Clusters, cluster
<1> DEFINE s == clusters[cluster]
           t == [s EXCEPT ![k].role = r]
<1>2. s \in Seq(NodeRec) /\ k \in 1..Len(s) /\ Len(s) \in 1..3 /\ s[k] \in NodeRec
  BY <1>1 DEF OvInv, Clusters, Nodes, NoCluster
<1>3. [s[k] EXCEPT !.role = r] \in NodeRec /\ [s[k] EXCEPT !.role = r].id = s[k].id
  BY <1>2 DEF NodeRec
<1>4. t = [s EXCEPT ![k] = [s[k] EXCEPT !.role = r]]
  OBVIOUS
<1>5. t \in Seq(NodeRec) /\ Len(t) = Len(s) /\ \A i \in 1..Len(s) : t[i].id = s[i].id
  BY <1>2, <1>3, <1>4
<1>6. [clusters EXCEPT ![cluster][k].role = r] = [clusters EXCEPT ![cluster] = t]
  OBVIOUS
<1> HIDE DEF t
<1>7. OwnIds(t)
  <2>1. OwnIds(s)
    BY <1>1 DEF OvInv, Clusters
  <2> QED BY <2>1, <1>5 DEF OwnIds
<1> DEFINE cs == [clusters EXCEPT ![cluster] = t]
<1>8. DOMAIN cs = DOMAIN clusters /\ \A d \in DOMAIN cs : cs[d] = IF d = cluster THEN t ELSE clusters[d]
  BY <1>1
<1> HIDE DEF cs
<1>9. Clusters(cs)
  <2>1. CASE cluster = 1
    BY <1>1, <1>2, <1>5, <1>7, <1>8, <2>1 DEF OvInv, Clusters
  <2>2. CASE cluster # 1
    BY <1>1, <1>2, <1>5, <1>7, <1>8, <2>2 DEF OvInv, Clusters
  <2> QED BY <2>1, <2>2
<1> QED BY <1>6, <1>9 DEF cs

(* Node 3 is added when it is not there: at most two are then.             *)
LEMMA NodeAdded ==
  ASSUME OvInv, cluster = 1, 3 \notin Ids(Nodes)
  PROVE  Clusters([clusters EXCEPT ![1] = Append(@, NodeOf(3, "standby"))])
<1> DEFINE s == clusters[1]
           n == NodeOf(3, "standby")
           t == Append(s, n)
           cs == [clusters EXCEPT ![1] = t]
<1>1. 1 \in DOMAIN clusters /\ Nodes = s
  <2>1. DOMAIN clusters \subseteq {1, 2} /\ ShownOf(selectedCluster, clusters) = 1
    BY DEF OvInv, Clusters, cluster
  <2> QED BY <2>1, ShownIsThere DEF Nodes, NoCluster
<1>2. /\ s \in Seq(NodeRec) /\ Len(s) \in 1..3
      /\ \A i \in 1..Len(s) : s[i].id \in {1, 2, 3}
      /\ OwnIds(s)
  BY <1>1 DEF OvInv, Clusters
<1>3. n \in NodeRec /\ n.id = 3
  BY DEF NodeOf, NodeRec, NodeIds, Roles
<1>4. \A i \in 1..Len(s) : s[i].id # 3
  BY <1>1 DEF Ids
<1>5. Len(s) # 3
  <2>1. ASSUME Len(s) = 3 PROVE FALSE
    <3>1. 1 \in 1..Len(s) /\ 2 \in 1..Len(s) /\ 3 \in 1..Len(s)
      BY <2>1
    <3>2. s[1].id \in {1, 2} /\ s[2].id \in {1, 2} /\ s[3].id \in {1, 2}
      BY <3>1, <1>2, <1>4
    <3>3. s[1].id # s[2].id /\ s[1].id # s[3].id /\ s[2].id # s[3].id
      BY <3>1, <1>2 DEF OwnIds
    <3> QED BY <3>2, <3>3
  <2> QED BY <2>1
<1> HIDE DEF s, n
<1>6. /\ t \in Seq(NodeRec) /\ Len(t) = Len(s) + 1 /\ t[Len(s) + 1] = n
      /\ \A i \in 1..Len(s) : t[i] = s[i]
  BY <1>2, <1>3
<1>7. Len(t) \in 1..3 /\ \A i \in 1..Len(t) : i \in 1..Len(s) \/ i = Len(s) + 1
  BY <1>2, <1>5, <1>6
<1> HIDE DEF t
<1>8. (\A i \in 1..Len(t) : t[i].id \in {1, 2, 3}) /\ OwnIds(t)
  BY <1>2, <1>3, <1>4, <1>6, <1>7 DEF OwnIds
<1>9. DOMAIN cs = DOMAIN clusters /\ \A d \in DOMAIN cs : cs[d] = IF d = 1 THEN t ELSE clusters[d]
  BY <1>1
<1>10. [clusters EXCEPT ![1] = Append(@, NodeOf(3, "standby"))] = cs
  BY DEF s, n, t
<1> HIDE DEF cs
<1>11. Clusters(cs)
  BY <1>6, <1>7, <1>8, <1>9 DEF OvInv, Clusters
<1> QED BY <1>10, <1>11

(* A node is removed, never the last: the ids of the others stay apart.    *)
LEMMA NodeRemoved ==
  ASSUME OvInv, NEW k \in 1..3, k =< Len(Nodes), Len(Nodes) > 1
  PROVE  Clusters([clusters EXCEPT ![cluster] = RemoveAt(@, k)])
<1>1. cluster # 0 /\ cluster \in DOMAIN clusters
  <2>1. cluster # 0
    BY DEF Nodes, NoCluster
  <2> QED BY <2>1, ShownIsThere DEF OvInv, Clusters, cluster
<1> DEFINE s == clusters[cluster]
           t == RemoveAt(s, k)
           cs == [clusters EXCEPT ![cluster] = t]
<1>2. s \in Seq(NodeRec) /\ k \in 1..Len(s) /\ Len(s) \in 2..3
  <2>1. s \in Seq(NodeRec) /\ Len(s) \in 1..3
    BY <1>1 DEF OvInv, Clusters
  <2>2. Nodes = s
    BY <1>1 DEF Nodes, NoCluster
  <2>3. Len(Nodes) = Len(s)
    BY <2>2
  <2> HIDE DEF s
  <2>4. PICK L \in 1..3 : L = Len(s)
    BY <2>1
  <2>5. k =< L /\ L > 1
    BY <2>3, <2>4
  <2>6. k \in 1..L /\ L \in 2..3
    BY <2>5
  <2> QED BY <2>1, <2>4, <2>6
<1> HIDE DEF s
<1>3. /\ t \in Seq(NodeRec) /\ Len(t) = Len(s) - 1
      /\ \A i \in 1..(Len(s) - 1) : t[i] = IF i < k THEN s[i] ELSE s[i + 1]
  BY <1>2, RemoveAtSeq
<1> HIDE DEF t
<1>4. Len(t) \in 1..3
  BY <1>2, <1>3
<1>5. OwnIds(t) /\ (cluster = 1 => \A i \in 1..Len(t) : t[i].id \in {1, 2, 3})
  <2>1. OwnIds(s) /\ (cluster = 1 => \A i \in 1..Len(s) : s[i].id \in {1, 2, 3})
    BY <1>1 DEF s, OvInv, Clusters
  <2>2. \A i \in 1..Len(t) : i \in 1..Len(s) /\ i + 1 \in 1..Len(s)
    BY <1>2, <1>3
  <2>3. \A i \in 1..Len(t) : t[i] = IF i < k THEN s[i] ELSE s[i + 1]
    BY <1>3
  <2>4. cluster = 1 => \A i \in 1..Len(t) : t[i].id \in {1, 2, 3}
    BY <2>1, <2>2, <2>3
  <2>5. ASSUME NEW i \in 1..Len(t), NEW j \in 1..Len(t), t[i].id = t[j].id PROVE i = j
    <3> DEFINE p(x) == IF x < k THEN x ELSE x + 1
    <3>1. t[i] = s[p(i)] /\ t[j] = s[p(j)] /\ p(i) \in 1..Len(s) /\ p(j) \in 1..Len(s)
      BY <2>2, <2>3
    <3>2. p(i) = p(j)
      BY <2>1, <2>5, <3>1 DEF OwnIds
    <3>3. i \in Nat /\ j \in Nat /\ k \in Nat
      OBVIOUS
    <3> QED BY <3>2, <3>3
  <2>6. OwnIds(t)
    BY <2>5 DEF OwnIds
  <2> QED BY <2>4, <2>6
<1>6. DOMAIN cs = DOMAIN clusters /\ \A d \in DOMAIN cs : cs[d] = IF d = cluster THEN t ELSE clusters[d]
  BY <1>1
<1>7. [clusters EXCEPT ![cluster] = RemoveAt(@, k)] = cs
  BY DEF s, t
<1> HIDE DEF cs
<1>8. Clusters(cs)
  BY <1>1, <1>3, <1>4, <1>5, <1>6 DEF OvInv, Clusters
<1> QED BY <1>7, <1>8

(* Every step of the overview keeps its invariant.                         *)
LEMMA OvInvNext == OvInv /\ [OvNext]_ovVars => OvInv'
<1> SUFFICES ASSUME OvInv, [OvNext]_ovVars PROVE OvInv'
  OBVIOUS
<1>1. CASE nodeAdded
  BY <1>1, NodeAdded, RerunInv DEF nodeAdded, Edited
<1>2. ASSUME NEW c \in {1, 2}, onSelectCluster(c) PROVE OvInv'
  BY <1>2, RerunInv DEF onSelectCluster, OvInv
<1>3. ASSUME NEW c \in {1, 2}, clusterRemoved(c) PROVE OvInv'
  <2> DEFINE cs == [d \in DOMAIN clusters \ {c} |-> clusters[d]]
  <2>1. Clusters(cs)
    BY DEF OvInv, Clusters
  <2>2. Rerun(selectedCluster, cs) /\ editing' = editing
    BY <1>3 DEF clusterRemoved, Edited
  <2> HIDE DEF cs
  <2> QED BY <2>1, <2>2, RerunInv
<1>4. ASSUME NEW k \in 1..3, nodeRemoved(k) PROVE OvInv'
  BY <1>4, NodeRemoved, RerunInv DEF nodeRemoved, Edited
<1>5. ASSUME NEW k \in 1..3, NEW r \in Roles, saveEditNode(k, r) PROVE OvInv'
  BY <1>5, RoleEdited, RerunInv DEF saveEditNode, Edited
<1>6. ASSUME NEW e, onEdgeClick(e) PROVE OvInv'
  BY <1>6 DEF onEdgeClick, OvInv, Clusters, Asks, OverviewOfShown, cluster
<1>7. CASE overviewTick
  <2>1. PICK k \in DOMAIN ovAsks : ovAsks' = [ovAsks EXCEPT ![k] = AskOf(cluster, clusters)]
    BY <1>7 DEF overviewTick
  <2>2. /\ "live" \in DOMAIN AskOf(cluster, clusters) /\ AskOf(cluster, clusters).live = TRUE
        /\ AskOf(cluster, clusters).of = cluster
    BY DEF AskOf
  <2>3. UNCHANGED <<clusters, cluster, overview, ovAnswered, editing>>
    BY <1>7 DEF overviewTick, cluster
  <2>4. Asks(ovAsks, cluster)' /\ DOMAIN ovAsks' = 1..MaxInFlight
    BY <2>1, <2>2, <2>3 DEF OvInv, Asks
  <2> QED BY <2>3, <2>4 DEF OvInv, Clusters, OverviewOfShown
<1>8. ASSUME NEW k \in 1..MaxInFlight, loadOverview(k) PROVE OvInv'
  <2>1. ovAsks' = [ovAsks EXCEPT ![k] = NoAsk] /\ UNCHANGED <<clusters, cluster, editing>>
    BY <1>8 DEF loadOverview, cluster
  <2>2. "live" \in DOMAIN NoAsk /\ NoAsk.live = FALSE
    BY DEF NoAsk
  <2>3. Asks(ovAsks, cluster)' /\ DOMAIN ovAsks' = 1..MaxInFlight
    BY <2>1, <2>2 DEF OvInv, Asks
  <2>4. cluster \in {0, 1, 2}
    BY ShownIsThere DEF OvInv, Clusters, cluster
  <2>5. ovAsks[k].live => ovAsks[k].of = cluster
    BY DEF OvInv, Asks
  <2>6. CASE ~ovAsks[k].live
    <3>1. UNCHANGED <<overview, ovAnswered>>
      BY <1>8, <2>6 DEF loadOverview
    <3> QED BY <2>1, <2>3, <3>1 DEF OvInv, Clusters, OverviewOfShown
  <2>7. CASE ovAsks[k].live
    <3>1. /\ ovAnswered' = TRUE
          /\ \/ overview' = [of |-> ovAsks[k].of, nodes |-> ovAsks[k].ans, error |-> FALSE]
             \/ overview' = [EmptyOverview EXCEPT !.of = ovAsks[k].of, !.error = TRUE]
      BY <1>8, <2>7 DEF loadOverview
    <3>2. ovAsks[k].of = cluster
      BY <2>5, <2>7
    <3>3. overview'.of = ovAsks[k].of
      <4>1. CASE overview' = [of |-> ovAsks[k].of, nodes |-> ovAsks[k].ans, error |-> FALSE]
        BY <4>1
      <4>2. CASE overview' = [EmptyOverview EXCEPT !.of = ovAsks[k].of, !.error = TRUE]
        BY <4>2 DEF EmptyOverview
      <4> QED BY <3>1, <4>1, <4>2
    <3> QED BY <2>1, <2>3, <2>4, <3>1, <3>2, <3>3 DEF OvInv, Clusters, OverviewOfShown, NoCluster
  <2> QED BY <2>6, <2>7
<1>9. ASSUME NEW i, NEW h, HealthChanges(i, h) PROVE OvInv'
  BY <1>9 DEF HealthChanges, OvInv, Clusters, Asks, OverviewOfShown, cluster
<1>10. ASSUME NEW i \in {0} \cup EditedNodes, Form(i) PROVE OvInv'
  BY <1>10 DEF Form, OvInv, Clusters, Asks, OverviewOfShown, cluster
<1>11. CASE UNCHANGED ovVars
  BY <1>11 DEF ovVars, OvInv, Clusters, Asks, OverviewOfShown, cluster
<1> QED BY <1>1, <1>2, <1>3, <1>4, <1>5, <1>6, <1>7, <1>8, <1>9, <1>10, <1>11
        DEF OvNext, OvUser, startEditNode, cancelEditNode

(* FirstWith finds the first of the nodes with one of the roles, or none.  *)
LEMMA FirstWithIs ==
  ASSUME NEW s \in Seq(NodeRec), NEW roles, NEW k, k = FirstWith(s, roles)
  PROVE  \/ k = 0 /\ \A i \in 1..Len(s) : s[i].role \notin roles
         \/ /\ k \in 1..Len(s) /\ s[k].role \in roles
            /\ \A i \in 1..Len(s) : s[i].role \in roles => k =< i
<1> DEFINE I == {i \in 1..Len(s) : s[i].role \in roles}
<1>1. k = IF I # {} THEN Min(I) ELSE 0
  BY DEF FirstWith, SelectInSeq
<1>2. I \subseteq Nat
  BY LenProperties
<1>3. CASE I # {}
  <2>1. k \in I /\ \A i \in I : k =< i
    <3> HIDE DEF I
    <3> QED BY <1>1, <1>2, <1>3, MinIn
  <2> QED BY <2>1
<1>4. CASE I = {}
  BY <1>1, <1>4
<1> QED BY <1>3, <1>4

(* The map and the pair below it have the same source, and the pair another *)
(* end: a node of a third role, or the second of nodes that all are sources.*)
LEMMA TopologyRight == OvInv => TopologyAgrees
<1> SUFFICES ASSUME OvInv, NEW c \in DOMAIN clusters,
                    NEW own, own = IF Replication(c) = "physical" THEN "primary" ELSE "publisher",
                    NEW other, other = IF Replication(c) = "physical" THEN "publisher" ELSE "primary",
                    NEW k, k = FirstWith(clusters[c], {own}), k # 0,
                    FirstWith(clusters[c], {other}) = 0
             PROVE  /\ topologyEdges(c) = {<<clusters[c][k].id, i>> :
                                             i \in Ids(clusters[c]) \ {clusters[c][k].id}}
                    /\ replicationPair(c) # NoEdge =>
                         /\ replicationPair(c)[1] = clusters[c][k].id
                         /\ replicationPair(c)[2] # clusters[c][k].id
  BY DEF TopologyAgrees
<1>1. PICK s \in Seq(NodeRec) : s = clusters[c] /\ OwnIds(s)
  BY DEF OvInv, Clusters
<1>2. PICK n \in Nat : n = Len(s)
  OBVIOUS
<1>3. /\ k \in 1..n /\ s[k].role = own
      /\ \A i \in 1..n : s[i].role = own => k =< i
  <2>1. k = FirstWith(s, {own})
    BY <1>1
  <2> QED BY <2>1, <1>2, FirstWithIs
<1>4. \A i \in 1..n : s[i].role # other
  <2>1. PICK z : z = FirstWith(s, {other}) /\ z = 0
    BY <1>1
  <2>2. ~(z \in 1..n)
    BY <2>1
  <2> QED BY <2>1, <2>2, <1>2, FirstWithIs
<1>5. \/ Replication(c) = "physical" /\ own = "primary" /\ other = "publisher"
      \/ Replication(c) # "physical" /\ own = "publisher" /\ other = "primary"
  OBVIOUS
<1>6. topologyEdges(c) = {<<s[k].id, i>> : i \in Ids(s) \ {s[k].id}}
  <2>1. k = FirstWith(s, IF Replication(c) = "physical" THEN {"primary"} ELSE {"publisher"})
    BY <1>1, <1>5
  <2> QED BY <1>1, <2>1 DEF topologyEdges
<1> DEFINE p == FirstWith(s, {"primary"})
           q == FirstWith(s, {"publisher"})
           first == IF p # 0 THEN p ELSE IF q # 0 THEN q ELSE 1
<1>7. PICK t : t = FirstWith(s, Roles \ {"primary", "publisher"})
  OBVIOUS
<1>8. PICK second : second = IF t # 0 THEN t ELSE 2
  OBVIOUS
<1>9. first = k
  BY <1>1, <1>5
<1>10. replicationPair(c) = IF second > n THEN NoEdge ELSE <<s[k].id, s[second].id>>
  BY <1>1, <1>2, <1>7, <1>8, <1>9 DEF replicationPair
<1>11. \/ t = 0 /\ \A i \in 1..n : s[i].role \notin Roles \ {"primary", "publisher"}
       \/ t \in 1..n /\ s[t].role \in Roles \ {"primary", "publisher"}
  BY <1>2, <1>7, FirstWithIs
<1>12. ASSUME ~(second > n) PROVE second \in 1..n /\ second # k
  <2>1. CASE t = 0
    <3>1. second = 2 /\ 2 \in 1..n /\ 1 \in 1..n
      BY <1>8, <1>12, <2>1
    <3>2. s[1].role = own
      <4>1. s[1].role \in Roles /\ s[1].role \notin Roles \ {"primary", "publisher"}
        <5>1. s[1] \in NodeRec
          BY <3>1, <1>2, ElementOfSeq
        <5>2. ~(t \in 1..n)
          BY <2>1
        <5> QED BY <5>1, <5>2, <3>1, <1>11 DEF NodeRec
      <4>2. s[1].role # other
        BY <3>1, <1>4
      <4> QED BY <4>1, <4>2, <1>5
    <3>3. k =< 1
      BY <3>1, <3>2, <1>3
    <3> QED BY <3>1, <3>3, <1>3
  <2>2. CASE t # 0
    <3>1. second = t /\ t \in 1..n /\ s[t].role \notin {"primary", "publisher"}
      BY <1>8, <1>11, <2>2
    <3>2. s[t].role # s[k].role
      BY <3>1, <1>3, <1>5
    <3> QED BY <3>1, <3>2
  <2> QED BY <2>1, <2>2
<1>13. ASSUME replicationPair(c) # NoEdge
       PROVE  replicationPair(c)[1] = s[k].id /\ replicationPair(c)[2] # s[k].id
  <2>1. ~(second > n) /\ replicationPair(c) = <<s[k].id, s[second].id>>
    BY <1>10, <1>13
  <2>2. second \in 1..n /\ second # k
    BY <2>1, <1>12
  <2>3. s[second].id # s[k].id
    BY <2>2, <1>1, <1>2, <1>3 DEF OwnIds
  <2> QED BY <2>1, <2>3
<1> QED BY <1>1, <1>6, <1>13

(* What the invariant says of the overview shown.                          *)
LEMMA OvInvSafe == OvInv => OvTypeOK /\ OverviewOfShown
  BY DEF OvInv, Clusters, Asks, OvTypeOK

-----------------------------------------------------------------------------
(***************************************************************************)
(* EventView.  What the store keeps are the last events received; the      *)
(* statement is inductive once its sequences are known to be such.         *)
(*                                                                         *)
(* What the cells of a window are follows by induction over the window:    *)
(* after the first n events each cell is that of a count over them         *)
(* (CellRight).                                                            *)
(***************************************************************************)
EvInv == received \in Seq(EventSet) /\ events \in Seq(EventSet) /\ EventsRecent

(* The store starts without events.                                        *)
LEMMA EvInvInit == EvInit => EvInv
<1> SUFFICES ASSUME EvInit PROVE EvInv
  OBVIOUS
<1>1. received = <<>> /\ events = <<>> /\ Len(received) = 0 /\ Len(events) = 0
  BY DEF EvInit
<1>2. Len(events) = IF Len(received) < MAX_EVENTS THEN Len(received) ELSE MAX_EVENTS
  BY <1>1, EventsAssumption
<1>3. SubSeq(received, 0 - 0 + 1, 0) = <<>>
  BY <1>1
<1> QED BY <1>1, <1>2, <1>3 DEF EvInv, EventsRecent

(* The elements of a sequence from a place to its end.                     *)
LEMMA Behind ==
  ASSUME NEW A, NEW s \in Seq(A), NEW lo \in 1..(Len(s) + 1)
  PROVE  /\ SubSeq(s, lo, Len(s)) \in Seq(A)
         /\ Len(SubSeq(s, lo, Len(s))) = Len(s) - lo + 1
         /\ \A i \in 1..(Len(s) - lo + 1) : SubSeq(s, lo, Len(s))[i] = s[lo - 1 + i]
<1>1. PICK L \in Nat : L = Len(s)
  OBVIOUS
<1>2. lo \in Nat /\ L - lo + 1 \in Nat /\ lo =< L + 1 /\ lo \in 1..(L + 1)
  BY <1>1
<1>3. \A i \in lo..L : s[i] \in A
  BY <1>1, ElementOfSeq
<1>4. /\ SubSeq(s, lo, L) \in Seq(A)
      /\ Len(SubSeq(s, lo, L)) = IF lo =< L THEN L - lo + 1 ELSE 0
      /\ \A i \in 1..(L - lo + 1) : SubSeq(s, lo, L)[i] = s[lo + i - 1]
  BY <1>2, <1>3, SubSeqProperties
<1>5. L - lo + 1 = IF lo =< L THEN L - lo + 1 ELSE 0
  BY <1>2
<1>6. \A i \in 1..(L - lo + 1) : lo + i - 1 = lo - 1 + i
  BY <1>2
<1> QED BY <1>1, <1>4, <1>5, <1>6

(* An event enters, and the eldest leaves when the store is full.          *)
LEMMA AddEventInv ==
  ASSUME EvInv, NEW e \in EventSet, addEvent(e)
  PROVE  EvInv'
<1>1. PICK r \in Seq(EventSet) : r = received
  BY DEF EvInv
<1>2. PICK w \in Seq(EventSet) : w = events
  BY DEF EvInv
<1>3. PICK R \in Nat : R = Len(r)
  OBVIOUS
<1>4. PICK W \in Nat : W = Len(w)
  OBVIOUS
<1>5. PICK M \in Nat : M = MAX_EVENTS /\ M > 1
  BY EventsAssumption
<1>6. W = (IF R < M THEN R ELSE M) /\ w = SubSeq(r, R - W + 1, R)
  BY <1>1, <1>2, <1>3, <1>4, <1>5 DEF EvInv, EventsRecent
<1>7. W =< R /\ W =< M
  BY <1>6
<1>8. ASSUME NEW i \in 1..W PROVE w[i] = r[R - W + i]
  <2>1. PICK lo \in 1..(R + 1) : lo = R - W + 1
    BY <1>7
  <2>2. R - lo + 1 = W /\ lo - 1 + i = R - W + i
    BY <2>1
  <2>3. \A x \in 1..(R - lo + 1) : SubSeq(r, lo, R)[x] = r[lo - 1 + x]
    BY <1>3, Behind
  <2>4. w = SubSeq(r, lo, R)
    BY <1>6, <2>1
  <2> QED BY <1>8, <2>2, <2>3, <2>4
<1>9. PICK k : k = slice(w, M - 1)
  OBVIOUS
<1>10. PICK K \in Nat : K = (IF W =< M - 1 THEN W ELSE M - 1) /\ K =< W
  BY <1>5
<1>11. k \in Seq(EventSet) /\ Len(k) = K /\ \A i \in 1..K : k[i] = w[W - K + i]
  <2>1. CASE W =< M - 1
    <3>1. k = w /\ K = W
      BY <1>4, <1>5, <1>9, <1>10, <2>1 DEF slice
    <3>2. \A i \in 1..W : W - W + i = i
      OBVIOUS
    <3> QED BY <1>4, <3>1, <3>2
  <2>2. CASE ~(W =< M - 1)
    <3>1. PICK lo \in 1..(W + 1) : lo = W - (M - 1) + 1
      BY <1>5, <2>2
    <3>2. K = M - 1 /\ W - lo + 1 = K /\ \A i \in 1..K : lo - 1 + i = W - K + i
      BY <1>5, <1>10, <2>2, <3>1
    <3>3. k = SubSeq(w, lo, W)
      BY <1>4, <1>5, <1>9, <2>2, <3>1 DEF slice
    <3>4. /\ SubSeq(w, lo, W) \in Seq(EventSet) /\ Len(SubSeq(w, lo, W)) = W - lo + 1
          /\ \A i \in 1..(W - lo + 1) : SubSeq(w, lo, W)[i] = w[lo - 1 + i]
      BY <1>4, Behind
    <3> QED BY <3>2, <3>3, <3>4
  <2> QED BY <2>1, <2>2
<1>12. received' = Append(r, e) /\ events' = Append(k, e)
  BY <1>1, <1>2, <1>5, <1>9 DEF addEvent
<1>13. ASSUME NEW i \in 1..K PROVE k[i] = r[R - K + i]
  <2>1. W - K + i \in 1..W /\ R - W + (W - K + i) = R - K + i
    BY <1>10
  <2> QED BY <1>8, <1>11, <2>1
<1>14. PICK rr : rr = Append(r, e)
  OBVIOUS
<1>15. PICK ww : ww = Append(k, e)
  OBVIOUS
<1>16. /\ rr \in Seq(EventSet) /\ Len(rr) = R + 1 /\ rr[R + 1] = e
       /\ \A i \in 1..R : rr[i] = r[i]
  BY <1>3, <1>14, AppendProperties
<1>17. /\ ww \in Seq(EventSet) /\ Len(ww) = K + 1 /\ ww[K + 1] = e
       /\ \A i \in 1..K : ww[i] = k[i]
  <2>1. k \in Seq(EventSet) /\ Len(k) = K
    BY <1>11
  <2> QED BY <1>15, <2>1, AppendProperties
<1>18. K + 1 = IF R + 1 < M THEN R + 1 ELSE M
  BY <1>5, <1>6, <1>10
<1>19. R + 1 - (K + 1) + 1 \in 1..(R + 2) /\ R + 1 - (R + 1 - (K + 1) + 1) + 1 = K + 1
  BY <1>7, <1>10
<1>20. PICK last : last = SubSeq(rr, R + 1 - (K + 1) + 1, R + 1)
  OBVIOUS
<1>21. /\ last \in Seq(EventSet) /\ Len(last) = K + 1
       /\ \A i \in 1..(K + 1) : last[i] = rr[R + 1 - (K + 1) + i]
  <2>1. PICK lo \in 1..(R + 2) : lo = R + 1 - (K + 1) + 1
    BY <1>19
  <2>2. (R + 1) - lo + 1 = K + 1 /\ lo \in 1..(Len(rr) + 1)
    BY <1>16, <1>19, <2>1
  <2>3. \A i \in 1..(K + 1) : lo - 1 + i = R + 1 - (K + 1) + i
    BY <2>1
  <2>4. /\ SubSeq(rr, lo, R + 1) \in Seq(EventSet)
        /\ Len(SubSeq(rr, lo, R + 1)) = (R + 1) - lo + 1
        /\ \A i \in 1..((R + 1) - lo + 1) : SubSeq(rr, lo, R + 1)[i] = rr[lo - 1 + i]
    BY <1>16, <2>2, Behind
  <2> QED BY <1>20, <2>1, <2>2, <2>3, <2>4
<1>22. ASSUME NEW i \in 1..(K + 1) PROVE ww[i] = last[i]
  <2>1. CASE i = K + 1
    <3>1. R + 1 - (K + 1) + i = R + 1
      BY <2>1
    <3> QED BY <1>16, <1>17, <1>21, <2>1, <3>1
  <2>2. CASE i # K + 1
    <3>1. i \in 1..K /\ R + 1 - (K + 1) + i = R - K + i /\ R - K + i \in 1..R
      BY <1>7, <1>10, <2>2
    <3> QED BY <1>13, <1>16, <1>17, <1>21, <3>1
  <2> QED BY <2>1, <2>2
<1>23. ww = last
  BY <1>17, <1>21, <1>22, SeqEqual
<1>24. events' = SubSeq(received', Len(received') - Len(events') + 1, Len(received'))
  <2>1. received' = rr /\ events' = last
    BY <1>12, <1>14, <1>15, <1>23
  <2>2. Len(rr) = R + 1 /\ Len(last) = K + 1
    BY <1>16, <1>21
  <2>3. last = SubSeq(rr, Len(rr) - Len(last) + 1, Len(rr))
    BY <1>20, <2>2
  <2> QED BY <2>1, <2>3
<1> QED BY <1>5, <1>12, <1>14, <1>15, <1>16, <1>17, <1>18, <1>24 DEF EvInv, EventsRecent

(* Every received event keeps the window the end of what was received.     *)
LEMMA EvInvNext == EvInv /\ [EvNext]_evVars => EvInv'
<1> SUFFICES ASSUME EvInv, [EvNext]_evVars PROVE EvInv'
  OBVIOUS
<1>1. CASE EvNext
  BY <1>1, AddEventInv DEF EvNext
<1>2. CASE UNCHANGED evVars
  BY <1>2 DEF evVars, EvInv, EventsRecent
<1> QED BY <1>1, <1>2

Cell == [hits : Nat, rel : {0, 7}]
CellMap == UNION {[D -> Cell] : D \in SUBSET {1, 2}}
CellAt(c, b) == IF b \in DOMAIN c THEN c[b] ELSE [hits |-> 0, rel |-> 0]
PinStep(c, e) == IF e.type = "buffer_pin" THEN Pin(c, e) ELSE c

(* A pin has a buffer and perhaps a relation.                              *)
LEMMA PinHas ==
  ASSUME NEW e \in EventSet, e.type = "buffer_pin"
  PROVE  e.buf \in {1, 2} /\ e.rel \in {0, 7}
BY DEF EventSet

(* A pin changes the cell of its buffer and no other.                      *)
LEMMA PinIn ==
  ASSUME NEW c \in CellMap, NEW e \in EventSet, e.type = "buffer_pin"
  PROVE  /\ Pin(c, e) \in CellMap /\ DOMAIN Pin(c, e) = DOMAIN c \cup {e.buf}
         /\ \A b \in DOMAIN c \ {e.buf} : Pin(c, e)[b] = c[b]
         /\ Pin(c, e)[e.buf] =
              [hits |-> CellAt(c, e.buf).hits + 1,
               rel |-> IF e.rel # 0 THEN e.rel ELSE CellAt(c, e.buf).rel]
<1>1. PICK D \in SUBSET {1, 2} : c \in [D -> Cell]
  BY DEF CellMap
<1>2. e.buf \in {1, 2} /\ e.rel \in {0, 7}
  BY PinHas
<1> DEFINE old == CellAt(c, e.buf)
           new == [hits |-> old.hits + 1, rel |-> IF e.rel # 0 THEN e.rel ELSE old.rel]
           p == [b \in D \cup {e.buf} |-> IF b = e.buf THEN new ELSE c[b]]
<1>3. old \in Cell
  BY <1>1 DEF CellAt, Cell
<1>4. Pin(c, e) = p
  BY <1>1 DEF Pin, CellAt
<1> HIDE DEF old
<1>5. new \in Cell
  BY <1>2, <1>3 DEF Cell
<1> HIDE DEF new
<1>6. p \in [D \cup {e.buf} -> Cell] /\ D \cup {e.buf} \in SUBSET {1, 2}
  BY <1>1, <1>2, <1>5
<1>7. p \in CellMap
  BY <1>6 DEF CellMap
<1>8. DOMAIN p = D \cup {e.buf} /\ DOMAIN c = D /\ p[e.buf] = new
      /\ \A b \in D \ {e.buf} : p[b] = c[b]
  BY <1>1
<1> HIDE DEF p
<1> QED BY <1>4, <1>7, <1>8 DEF new, old

(* The cells are the last value of a loop over the events.                 *)
LEMMA CellsLoop ==
  ASSUME NEW es \in Seq(EventSet)
  PROVE  \E f \in [0..Len(es) -> CellMap] :
           /\ f[0] = NoCells /\ buildBufferCells(es) = f[Len(es)]
           /\ \A k \in 1..Len(es) : f[k] = PinStep(f[k - 1], es[k])
<1>1. PICK n \in Nat : n = Len(es)
  OBVIOUS
<1>2. \A k \in 1..n : es[k] \in EventSet
  BY <1>1, ElementOfSeq
<1>3. NoCells \in CellMap
  <2>1. NoCells \in [{} -> Cell] /\ {} \in SUBSET {1, 2}
    BY DEF NoCells
  <2> QED BY <2>1 DEF CellMap
<1> DEFINE step == [p \in (1..n) \X CellMap |-> PinStep(p[2], es[p[1]])]
<1>4. step \in [(1..n) \X CellMap -> CellMap]
  <2>1. ASSUME NEW k \in 1..n, NEW c \in CellMap PROVE PinStep(c, es[k]) \in CellMap
    BY <1>2, PinIn DEF PinStep
  <2>2. ASSUME NEW p \in (1..n) \X CellMap PROVE PinStep(p[2], es[p[1]]) \in CellMap
    <3>1. p[1] \in 1..n /\ p[2] \in CellMap
      OBVIOUS
    <3> QED BY <3>1, <2>1
  <2> QED BY <2>2
<1>5. \A k \in 1..n, c \in CellMap : step[<<k, c>>] = PinStep(c, es[k])
  OBVIOUS
<1> HIDE DEF step
<1>6. PICK f \in [0..n -> CellMap] : f[0] = NoCells /\ \A k \in 1..n : f[k] = step[<<k, f[k - 1]>>]
  <2>1. PICK A : A = CellMap
    OBVIOUS
  <2>2. PICK base \in A : base = NoCells
    BY <2>1, <1>3
  <2>3. PICK st \in [(1..n) \X A -> A] : st = step
    BY <2>1, <1>4
  <2>4. Loops(n, A, base, st) # {}
    BY LoopExists
  <2> QED BY <2>1, <2>2, <2>3, <2>4 DEF Loops
<1> DEFINE Rule(g) == [k \in 0..n |-> IF k = 0 THEN NoCells
                       ELSE IF es[k].type = "buffer_pin" THEN Pin(g[k - 1], es[k]) ELSE g[k - 1]]
           h == CHOOSE g : g = Rule(g)
<1>7. ASSUME NEW k \in 1..n PROVE k - 1 \in 0..n /\ f[k] = PinStep(f[k - 1], es[k])
  <2>1. k - 1 \in 0..n
    OBVIOUS
  <2> QED BY <2>1, <1>5, <1>6
<1>8. f = Rule(f)
  <2>1. ASSUME NEW k \in 0..n PROVE f[k] = Rule(f)[k]
    <3>1. CASE k = 0
      BY <3>1, <1>6
    <3>2. CASE k # 0
      <4>1. k \in 1..n
        BY <3>2
      <4> QED BY <4>1, <3>2, <1>7 DEF PinStep
    <3> QED BY <3>1, <3>2
  <2> QED BY <2>1, <1>6
<1>9. h = Rule(h)
  <2> HIDE DEF Rule
  <2> QED BY <1>8
<1>10. buildBufferCells(es) = h[n]
  BY <1>1 DEF buildBufferCells
<1> HIDE DEF h
<1>11. h[0] = NoCells
  BY <1>9
<1>12. ASSUME NEW k \in 1..n PROVE h[k] = PinStep(h[k - 1], es[k])
  BY <1>9 DEF PinStep
<1> HIDE DEF Rule
<1> DEFINE S == {k \in 0..n : h[k] = f[k]}
<1>13. S = 0..n
  <2>1. 0 \in S
    BY <1>6, <1>11
  <2>2. ASSUME NEW k \in 1..n, k - 1 \in S PROVE k \in S
    BY <2>2, <1>7, <1>12
  <2>3. S \subseteq 0..n
    OBVIOUS
  <2>4. \A k \in 1..n : k - 1 \in S => k \in S
    BY <2>2
  <2> HIDE DEF S
  <2> QED BY <2>1, <2>3, <2>4, UpTo
<1>14. h[n] = f[n]
  BY <1>13
<1> QED BY <1>1, <1>6, <1>7, <1>10, <1>14

(* The pins of a buffer among the first n events, and those that name a    *)
(* relation.                                                               *)
Pins(es, b, n) == {k \in 1..n : es[k].type = "buffer_pin" /\ es[k].buf = b}
Named(es, b, n) == {k \in Pins(es, b, n) : es[k].rel # 0}
CellRight(es, b, n, c) ==
  /\ b \in DOMAIN c <=> Pins(es, b, n) # {}
  /\ CellAt(c, b).hits = Cardinality(Pins(es, b, n))
  /\ CellAt(c, b).rel = IF Named(es, b, n) = {} THEN 0 ELSE es[Max(Named(es, b, n))].rel

(* The sets of pins are finite and end where the events do.                *)
LEMMA PinSets ==
  ASSUME NEW es, NEW b, NEW n \in Nat
  PROVE  /\ IsFiniteSet(Pins(es, b, n)) /\ IsFiniteSet(Named(es, b, n))
         /\ Pins(es, b, n) \subseteq 1..n /\ Named(es, b, n) \subseteq 1..n
<1>1. IsFiniteSet(1..n)
  BY FS_Interval
<1>2. Pins(es, b, n) \subseteq 1..n /\ Named(es, b, n) \subseteq 1..n
  BY DEF Pins, Named
<1> QED BY <1>1, <1>2, FS_Subset

(* A greater number is the maximum.                                        *)
LEMMA MaxAdded ==
  ASSUME NEW S, S \subseteq Nat, NEW m \in Nat, \A y \in S : y < m
  PROVE  Max(S \cup {m}) = m
<1>1. \A y \in S \cup {m} : m >= y
  OBVIOUS
<1>2. ASSUME NEW x \in S \cup {m}, \A y \in S \cup {m} : x >= y PROVE x = m
  BY <1>2
<1> QED BY <1>1, <1>2 DEF Max

(* One more event keeps the cells those of a count.                        *)
LEMMA CellStep ==
  ASSUME NEW es \in Seq(EventSet), NEW n \in 1..Len(es), NEW c \in CellMap, NEW b \in {1, 2},
         CellRight(es, b, n - 1, c)
  PROVE  CellRight(es, b, n, PinStep(c, es[n]))
<1> DEFINE e == es[n]
           P == Pins(es, b, n - 1)
           Q == Named(es, b, n - 1)
           d == PinStep(c, e)
<1>1. n \in Nat /\ n - 1 \in Nat /\ e \in EventSet
  BY ElementOfSeq
<1>2. \A k \in 1..n : k \in 1..(n - 1) \/ k = n
  BY <1>1
<1>2a. \A k \in 1..(n - 1) : k \in 1..n /\ k < n
  BY <1>1
<1>3. /\ IsFiniteSet(P) /\ IsFiniteSet(Q) /\ P \subseteq 1..(n - 1) /\ Q \subseteq 1..(n - 1)
  BY <1>1, PinSets
<1>4. CASE e.type = "buffer_pin" /\ e.buf = b
  <2>1. Pins(es, b, n) = P \cup {n}
    BY <1>1, <1>2, <1>2a, <1>4 DEF Pins
  <2>2. Named(es, b, n) = IF e.rel # 0 THEN Q \cup {n} ELSE Q
    BY <1>1, <1>2, <1>2a, <1>4 DEF Pins, Named
  <2>3. n \notin P /\ Q \subseteq Nat /\ \A y \in Q : y < n
    BY <1>1, <1>2a, <1>3
  <2> DEFINE old == CellAt(c, b)
  <2>4. /\ d[b] = [hits |-> old.hits + 1, rel |-> IF e.rel # 0 THEN e.rel ELSE old.rel]
        /\ b \in DOMAIN d
    BY <1>1, <1>4, PinIn DEF PinStep
  <2> HIDE DEF P, Q, d, e, old
  <2>5. Cardinality(P \cup {n}) = Cardinality(P) + 1
    BY <1>3, <2>3, FS_AddElement
  <2>6. CellAt(d, b) = d[b] /\ n \in P \cup {n}
    BY <2>4 DEF CellAt
  <2>7. d[b].hits = old.hits + 1 /\ d[b].rel = IF e.rel # 0 THEN e.rel ELSE old.rel
    BY <2>4
  <2>8. old.hits = Cardinality(P) /\ old.rel = IF Q = {} THEN 0 ELSE es[Max(Q)].rel
    BY DEF CellRight, old, P, Q
  <2>9. CellAt(d, b).hits = Cardinality(Pins(es, b, n))
    BY <2>1, <2>5, <2>6, <2>7, <2>8
  <2>10. CellAt(d, b).rel = IF Named(es, b, n) = {} THEN 0 ELSE es[Max(Named(es, b, n))].rel
    <3>1. CASE e.rel # 0
      <4>1. Max(Q \cup {n}) = n
        BY <1>1, <2>3, MaxAdded
      <4>2. Named(es, b, n) = Q \cup {n} /\ Q \cup {n} # {}
        BY <2>2, <3>1
      <4> QED BY <2>6, <2>7, <3>1, <4>1, <4>2 DEF e
    <3>2. CASE e.rel = 0
      BY <2>2, <2>6, <2>7, <2>8, <3>2
    <3> QED BY <3>1, <3>2
  <2>11. b \in DOMAIN d <=> Pins(es, b, n) # {}
    BY <2>1, <2>4
  <2>12. CellRight(es, b, n, d)
    BY <2>9, <2>10, <2>11 DEF CellRight
  <2> QED BY <2>12 DEF d, e
<1>5. CASE ~(e.type = "buffer_pin" /\ e.buf = b)
  <2>1. Pins(es, b, n) = P
    BY <1>1, <1>2, <1>2a, <1>5 DEF Pins
  <2>2. Named(es, b, n) = Q
    BY <2>1 DEF Named
  <2>3. CellAt(d, b) = CellAt(c, b) /\ (b \in DOMAIN d <=> b \in DOMAIN c)
    <3>1. CASE e.type = "buffer_pin"
      <4>1. /\ DOMAIN d = DOMAIN c \cup {e.buf} /\ b # e.buf
            /\ \A x \in DOMAIN c \ {e.buf} : d[x] = c[x]
        BY <1>1, <1>5, <3>1, PinIn DEF PinStep
      <4> HIDE DEF d
      <4> QED BY <4>1 DEF CellAt
    <3>2. CASE e.type # "buffer_pin"
      BY <3>2 DEF PinStep
    <3> QED BY <3>1, <3>2
  <2>4. CellRight(es, b, n, d)
    <3> HIDE DEF d
    <3> QED BY <2>1, <2>2, <2>3 DEF CellRight
  <2> QED BY <2>4
<1> QED BY <1>4, <1>5

(* The cells of a window of events are those of a count over it.           *)
LEMMA CellsCounted ==
  ASSUME NEW es \in Seq(EventSet), NEW b \in {1, 2}
  PROVE  CellRight(es, b, Len(es), buildBufferCells(es))
<1>1. PICK n \in Nat : n = Len(es)
  OBVIOUS
<1>2. PICK f \in [0..n -> CellMap] :
        /\ f[0] = NoCells /\ buildBufferCells(es) = f[n]
        /\ \A k \in 1..n : f[k] = PinStep(f[k - 1], es[k])
  BY <1>1, CellsLoop
<1> DEFINE S == {k \in 0..n : CellRight(es, b, k, f[k])}
<1>3. 0 \in S
  <2>1. Pins(es, b, 0) = {} /\ Named(es, b, 0) = {}
    BY DEF Pins, Named
  <2>2. Cardinality({}) = 0
    BY FS_EmptySet
  <2>3. b \notin DOMAIN NoCells
    BY DEF NoCells
  <2>4. CellAt(NoCells, b).hits = 0 /\ CellAt(NoCells, b).rel = 0
    BY <2>3 DEF CellAt
  <2>5. CellRight(es, b, 0, NoCells)
    BY <2>1, <2>2, <2>3, <2>4 DEF CellRight
  <2> QED BY <1>2, <2>5
<1>4. ASSUME NEW k \in 1..n, k - 1 \in S PROVE k \in S
  <2>1. f[k - 1] \in CellMap /\ CellRight(es, b, k - 1, f[k - 1])
    BY <1>2, <1>4
  <2> DEFINE c == f[k - 1]
  <2>2. c \in CellMap /\ CellRight(es, b, k - 1, c) /\ f[k] = PinStep(c, es[k])
    BY <1>2, <2>1
  <2> HIDE DEF c
  <2>3. CellRight(es, b, k, PinStep(c, es[k]))
    BY <1>1, <2>2, CellStep
  <2> QED BY <2>2, <2>3
<1>5. S \subseteq 0..n
  OBVIOUS
<1>6. \A k \in 1..n : k - 1 \in S => k \in S
  BY <1>4
<1>7. S = 0..n
  <2> HIDE DEF S
  <2> QED BY <1>3, <1>5, <1>6, UpTo
<1> QED BY <1>1, <1>2, <1>7

(* So are the cells that are shown.                                        *)
LEMMA CellsShown == ASSUME events \in Seq(EventSet) PROVE CellsExact
<1>1. PICK es \in Seq(EventSet) : es = events
  OBVIOUS
<1>2. PICK cells : cells = buildBufferCells(es)
  OBVIOUS
<1>3. useVisualizationData(events).buffers = cells
  BY <1>1, <1>2 DEF useVisualizationData
<1> DEFINE pins(b) == {k \in 1..Len(events) : events[k].type = "buffer_pin" /\ events[k].buf = b}
           named(b) == {k \in pins(b) : events[k].rel # 0}
<1>4. ASSUME NEW b \in {1, 2}
      PROVE  /\ b \in DOMAIN cells <=> pins(b) # {}
             /\ pins(b) # {} =>
                  /\ cells[b].hits = Cardinality(pins(b))
                  /\ cells[b].rel = IF named(b) = {} THEN 0 ELSE events[Max(named(b))].rel
  <2>1. CellRight(es, b, Len(es), cells)
    BY <1>2, CellsCounted
  <2>2. pins(b) = Pins(es, b, Len(es)) /\ named(b) = Named(es, b, Len(es))
    BY <1>1 DEF Pins, Named
  <2> HIDE DEF pins, named
  <2>3. pins(b) # {} => CellAt(cells, b) = cells[b]
    BY <2>1, <2>2 DEF CellRight, CellAt
  <2> QED BY <1>1, <2>1, <2>2, <2>3 DEF CellRight
<1> QED BY <1>3, <1>4 DEF CellsExact

(* The last row of the transactions is that of the last such event.        *)
LEMMA StagesShown == ASSUME events \in Seq(EventSet) PROVE StagesAgree
<1>1. PICK es \in Seq(EventSet) : es = events
  OBVIOUS
<1> DEFINE X == OfType(es, "xact_state")
           rows == buildTransactionStates(es)
           xs == Picked(es, X)
           last == es[Max(X)].state
<1>2. /\ useVisualizationData(events).transactions = rows
      /\ useVisualizationData(events).writeStages = buildWriteStages(es)
  BY <1>1 DEF useVisualizationData
<1> SUFFICES ASSUME rows # <<>>
             PROVE  /\ buildWriteStages(es).commit = "done"  <=> Last(rows) = "commit"
                    /\ buildWriteStages(es).commit = "error" <=> Last(rows) = "abort"
  BY <1>2 DEF StagesAgree
<1>3. X \subseteq 1..Len(es) /\ \A k \in X : es[k].type = "xact_state"
  BY DEF OfType
<1>4. rows = [k \in DOMAIN xs |-> transactionState(xs[k].state)]
  BY DEF buildTransactionStates
<1> HIDE DEF X
<1>5. /\ IsFiniteSet(X) /\ X \subseteq Nat /\ xs \in Seq(EventSet) /\ Len(xs) = Cardinality(X)
      /\ \A k \in 1..Cardinality(X) : xs[k] = es[InOrder(X)[k]]
  <2>1. PICK S \in SUBSET (1..Len(es)) : S = X
    BY <1>3
  <2>2. /\ IsFiniteSet(S) /\ S \subseteq Nat
        /\ Picked(es, S) \in Seq(EventSet) /\ Len(Picked(es, S)) = Cardinality(S)
        /\ \A k \in 1..Cardinality(S) : Picked(es, S)[k] = es[InOrder(S)[k]]
    BY PickedSeq
  <2> QED BY <2>1, <2>2
<1> HIDE DEF xs
<1>6. DOMAIN xs = 1..Cardinality(X)
  BY <1>5, LenProperties
<1>7. X # {}
  <2>1. ASSUME X = {} PROVE FALSE
    <3>1. Cardinality(X) = 0
      BY <2>1, FS_EmptySet
    <3>2. DOMAIN rows = {}
      BY <3>1, <1>4, <1>6
    <3>3. rows = [k \in {} |-> transactionState(xs[k].state)]
      BY <3>1, <1>4, <1>6
    <3>4. rows = <<>>
      BY <3>3
    <3> QED BY <3>4
  <2> QED BY <2>1
<1>8. Max(X) \in X /\ Cardinality(X) \in Nat \ {0} /\ InOrder(X)[Cardinality(X)] = Max(X)
  BY <1>5, <1>7, LastRanked
<1>9. Last(rows) = transactionState(last)
  <2>1. PICK c \in Nat \ {0} : c = Cardinality(X)
    BY <1>8
  <2>2. c \in 1..c /\ xs[c] = es[Max(X)]
    BY <2>1, <1>5, <1>8
  <2>3. Len(rows) = c
    <3>1. rows = [k \in 1..c |-> transactionState(xs[k].state)]
      BY <2>1, <1>4, <1>6
    <3> HIDE DEF rows
    <3> QED BY <3>1
  <2>4. rows[c] = transactionState(xs[c].state)
    BY <2>1, <2>2, <1>4, <1>6
  <2> HIDE DEF rows
  <2> QED BY <2>2, <2>3, <2>4 DEF Last
<1>10. last \in {"begin", "commit", "abort", "other"}
  <2>1. es[Max(X)] \in EventSet /\ es[Max(X)].type = "xact_state"
    BY <1>3, <1>8, ElementOfSeq
  <2> QED BY <2>1 DEF EventSet
<1>11. buildWriteStages(es).commit = Outcome(es)
  <2>1. ~\A t \in {"wal_insert", "buffer_pin", "xact_state"} : OfType(es, t) = {}
    BY <1>7 DEF X
  <2> QED BY <2>1 DEF buildWriteStages
<1>12. Outcome(es) = CASE last = "commit" -> "done" [] last = "abort" -> "error"
                       [] OTHER -> "pending"
  BY <1>7 DEF Outcome, LatestOf, X
<1> HIDE DEF last, rows
<1>13. /\ Outcome(es) = "done" <=> last = "commit"
       /\ Outcome(es) = "error" <=> last = "abort"
  BY <1>10, <1>12
<1>14. /\ transactionState(last) = "commit" <=> last = "commit"
       /\ transactionState(last) = "abort" <=> last = "abort"
  BY <1>10 DEF transactionState
<1> QED BY <1>9, <1>11, <1>13, <1>14

-----------------------------------------------------------------------------
(***************************************************************************)
(* Frontend.  A step of the whole is a step of one part in which the       *)
(* others stay as they are; so the invariants of the parts, none of which  *)
(* speaks of the variables of another, hold together.                      *)
(***************************************************************************)
FrontInv ==
  /\ TaskInv /\ ApiInv /\ TelInv /\ HostInv /\ OvInv /\ ImpInv /\ ActInv
  /\ EvInv /\ SnapInv /\ TplInv /\ PagesInv /\ WsInv

(* A step of the application is, for every part, one of its own or none.   *)
LEMMA PartSteps ==
  ASSUME [Next]_frontVars
  PROVE  /\ [TaskNext]_taskVars /\ [ApiNext]_apiVars /\ [TelNext]_telVars
         /\ [HostNext]_hostVars /\ [OvNext]_ovVars /\ [ImpNext]_impVars /\ [ActNext]_actVars
         /\ [EvNext]_evVars /\ [SnapNext]_snapVars /\ [TplNext]_tplVars
         /\ [PageNext]_pageVars /\ [WsNext]_wsVars
<1>1. ASSUME UNCHANGED ofTask
      PROVE  UNCHANGED taskVars /\ UNCHANGED apiVars /\ UNCHANGED telVars
  BY <1>1 DEF ofTask
<1>2. ASSUME UNCHANGED ofViews
      PROVE  /\ UNCHANGED hostVars /\ UNCHANGED ovVars
             /\ UNCHANGED impVars /\ UNCHANGED actVars
  BY <1>2 DEF ofViews
<1>3. ASSUME UNCHANGED ofData
      PROVE  /\ UNCHANGED evVars /\ UNCHANGED snapVars /\ UNCHANGED tplVars
             /\ UNCHANGED pageVars /\ UNCHANGED wsVars
  BY <1>3 DEF ofData
<1>4. CASE TaskParts
  BY <1>2, <1>3, <1>4 DEF TaskParts
<1>5. CASE ViewParts
  BY <1>1, <1>3, <1>5 DEF ViewParts
<1>6. CASE DataParts
  BY <1>1, <1>2, <1>6 DEF DataParts
<1>7. CASE UNCHANGED frontVars
  BY <1>1, <1>2, <1>3, <1>7 DEF frontVars
<1> QED BY <1>4, <1>5, <1>6, <1>7 DEF Next

(* Every state of the application satisfies the invariants of its parts.   *)
LEMMA FrontInvAlways == Spec => []FrontInv
<1>1. Init => FrontInv
  BY TaskInvInit, ApiInvInit, TelInvInit, HostInvInit, OvInvInit, ImpInvInit, ActInvInit,
     EvInvInit, SnapInvInit, TplInvInit, PagesInvInit, WsInvInit DEF Init, FrontInv
<1>2. FrontInv /\ [Next]_frontVars => FrontInv'
  BY PartSteps, TaskInvNext, ApiInvNext, TelInvNext, HostInvNext, OvInvNext, ImpInvNext,
     ActInvNext, EvInvNext, SnapInvNext, TplInvNext, PagesInvNext, WsInvNext DEF FrontInv
<1> QED BY <1>1, <1>2, PTL DEF Spec

(* The state of every part of the page keeps its type, for all bounds:     *)
(* with it, one addition and one scan of hosts at a time, requests for an  *)
(* overview that are all for the cluster shown, an import log within its   *)
(* limit, the counter of api.ts within its attempts.                       *)
THEOREM FrontendTypeOK == Spec => []TypeOK
<1>1. FrontInv => TypeOK
  BY TaskInvSafe, ApiInvSafe, TelInvSafe, HostInvSafe, OvInvSafe, ImpInvSafe, ActInvSafe
     DEF FrontInv, TypeOK
<1> QED BY <1>1, FrontInvAlways, PTL

(* What is drawn is what the state says: the map of a cluster and the pair *)
(* below it have one source, the lock graph is that of the rows of the     *)
(* last snapshot, the cells of the buffers are those of a count over the   *)
(* window of events, and its last stage ends as the last row of the        *)
(* transactions does.                                                      *)
THEOREM FrontendDrawnRight == Spec => []DrawnRight
<1>1. FrontInv => DrawnRight
  <2> SUFFICES ASSUME FrontInv PROVE DrawnRight
    OBVIOUS
  <2>1. TopologyAgrees
    BY TopologyRight DEF FrontInv
  <2>2. LockGraphFaithful
    BY GraphShown DEF FrontInv, SnapInv, Listed
  <2>3. CellsExact /\ StagesAgree
    BY CellsShown, StagesShown DEF FrontInv, EvInv
  <2> QED BY <2>1, <2>2, <2>3 DEF DrawnRight
<1> QED BY <1>1, FrontInvAlways, PTL

(* The banner of a task, the lists of hosts, overview and imported node,   *)
(* the active node, the snapshot of locks, the last events and the answers *)
(* of the SQL, WAL and CLOG pages are what the backend has, or has had,    *)
(* for the thing shown.  For overviews, snapshots and events this holds in *)
(* every order of answers; for the others as long as no answer about one   *)
(* task was put on another (mixed), operations on hosts did not overlap    *)
(* and their error was not taken away, reloads after imports neither       *)
(* failed nor overlapped, activations were answered one at a time, and     *)
(* queries of one page did not overlap.                                    *)
THEOREM FrontendShownHonest == Spec => []ShownHonest
<1>1. EvInv => EventsRecent
  BY DEF EvInv
<1>2. FrontInv => ShownHonest
  BY <1>1, TaskInvSafe, HostInvSafe, OvInvSafe, ImpInvSafe, ActInvSafe, SnapInvSafe,
     PagesInvSafe DEF FrontInv, ShownHonest
<1> QED BY <1>2, FrontInvAlways, PTL

(* Whatever is lost, late, repeated or aborted: api.ts has no call carried *)
(* out more often than it was sent, and once if it must not be retried;    *)
(* errorReporter.ts posts no report twice and strands none; useWebSocket   *)
(* gives up exactly at its limit, keeps no timer after a disconnect if its *)
(* url is valid, and has one socket, any it no longer refers to closing,   *)
(* as long as connect is not called while a socket is closing.             *)
THEOREM FrontendChannelsSafe == Spec => []ChannelsSafe
<1>1. FrontInv => ChannelsSafe
  BY ApiInvSafe, TelInvSafe, WsInvSafe DEF FrontInv, ChannelsSafe
<1> QED BY <1>1, FrontInvAlways, PTL

(* HostManagementView adds no host with empty fields, and updates one with *)
(* empty fields only if the user emptied them in that edit or an addition  *)
(* that ended while the edit was open cleared the form; TemplateModal      *)
(* builds no project with the parameters of another template.              *)
THEOREM FrontendSavedWell == Spec => []SavedWell
<1>1. FrontInv => SavedWell
  BY HostInvSafe, TplInvSafe DEF FrontInv, SavedWell
<1> QED BY <1>1, FrontInvAlways, PTL

(* No step of the page brings back a banner that was closed, sends an      *)
(* attempt of api.ts after its abort, or grows the breadcrumbs past their  *)
(* limit; an edit is saved to the node NodeHomeView is about, which is the *)
(* one it was opened for unless a reload moved the selection meanwhile.    *)
THEOREM FrontendStepsSafe == Spec => StepsSafe
<1>1. FrontInv /\ [Next]_frontVars =>
        [DismissedStays /\ NothingSent /\ CrumbsCapped /\ EditLands]_frontVars
  BY PartSteps, DismissedStep, NothingSentStep, CrumbsStep, EditLandsStep DEF FrontInv
<1> QED BY <1>1, FrontInvAlways, PTL DEF Spec, StepsSafe

=============================================================================
