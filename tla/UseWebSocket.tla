---------------------------- MODULE UseWebSocket ----------------------------
(***************************************************************************)
(* The hook that keeps the browser connected to the hub                    *)
(* (frontend/src/hooks/useWebSocket.ts).                                   *)
(*                                                                         *)
(* JavaScript runs one callback at a time: the effects of the component,   *)
(* calls of connect and disconnect, the timers and the events of every     *)
(* socket the hook has made, those it no longer refers to included.        *)
(* A socket that is being closed reports it later, in an event of its own, *)
(* and the handlers of all sockets work on the same references.            *)
(*                                                                         *)
(* Delays are left out: a timer that is set may fire at any time.  The     *)
(* error text, the telemetry callbacks and what is sent (send, the         *)
(* heartbeat) change nothing the hook decides on and are left out.         *)
(***************************************************************************)
EXTENDS Naturals, FiniteSets

CONSTANTS Socket,    \* bound: WebSocket objects at one time; one is reused
                     \*   when it is done
          NoSocket,
          Cap,       \* maxReconnectAttempts; 0: no limit
          MaxCalls   \* bound: mounts, unmounts and calls of the consumer

ASSUME CapAssumption == Cap \in Nat /\ MaxCalls \in Nat
ASSUME SocketAssumption == NoSocket \notin Socket

VARIABLES
  ready,      \* ready[s]: readyState; "none" before new and after onclose
  silent,     \* silent[s]: the network has stopped to carry anything on s
  urlOk,      \* new WebSocket(cfg.url) does not throw
  wsRef,      \* wsRef.current
  should,     \* shouldReconnectRef.current
  attempts,   \* attemptsRef.current, counted up to Cap + 1
  reconnect,  \* the timer in reconnectTimerRef is going to fire
  orphans,    \* reconnect timers that will fire and are not referred to
  heartbeat,  \* the interval in heartbeatTimerRef is running
  lostBeats,  \* an interval runs that is not referred to
  stale,      \* the timer in staleTimerRef is going to fire
  status,     \* the status the hook shows
  mounted, calls,
  overlapped  \* a socket has been made while another one was closing

refVars   == <<wsRef, should, attempts>>
timerVars == <<reconnect, orphans, heartbeat, lostBeats, stale>>
envVars   == <<urlOk, mounted, calls>>
wsVars == <<ready, silent, refVars, timerVars, envVars, status, overlapped>>

WsInit ==
  /\ ready = [s \in Socket |-> "none"]
  /\ silent = [s \in Socket |-> FALSE]
  /\ urlOk \in BOOLEAN
  /\ wsRef = NoSocket /\ should = TRUE /\ attempts = 0
  /\ reconnect = FALSE /\ orphans = 0
  /\ heartbeat = FALSE /\ lostBeats = FALSE /\ stale = FALSE
  /\ status = "idle"
  /\ mounted = FALSE /\ calls = 0
  /\ overlapped = FALSE

One(b) == IF b THEN 1 ELSE 0
Alive == {s \in Socket : ready[s] # "none"}
AtCap == Cap > 0 /\ attempts >= Cap

(* ws.close() on the socket the hook refers to; it has no effect twice.    *)
CloseRef ==
  ready' = [s \in Socket |-> IF s = wsRef /\ ready[s] \in {"connecting", "open"}
                               THEN "closing" ELSE ready[s]]

-----------------------------------------------------------------------------
(* scheduleReconnect, when rec tells whether a timer is referred to: the   *)
(* reference is overwritten, the timer is not cleared.                     *)
scheduleReconnect(a, rec, orph) ==
  /\ attempts' = IF a > Cap THEN a ELSE a + 1
  /\ reconnect' = TRUE
  /\ orphans' = orph + One(rec)

(* connect, with attempts a, and with the timers rec and orph.             *)
InUse == wsRef # NoSocket /\ ready[wsRef] \in {"connecting", "open"}
NewSocket(a, rec, orph) ==
  /\ \E s \in Socket \ Alive :
       /\ ready' = [ready EXCEPT ![s] = "connecting"]
       /\ silent' = [silent EXCEPT ![s] = FALSE]
       /\ wsRef' = s
  /\ overlapped' = (overlapped \/ \E s \in Socket : ready[s] = "closing")
  /\ attempts' = a /\ reconnect' = rec /\ orphans' = orph

connect(a, rec, orph) ==
  /\ should' = TRUE
  /\ \/ /\ InUse
        /\ attempts' = a /\ reconnect' = rec /\ orphans' = orph
        /\ UNCHANGED <<ready, silent, wsRef, status, overlapped>>
     \/ /\ ~InUse
        /\ status' = IF status = "open" THEN "reconnecting" ELSE "connecting"
        /\ \/ urlOk /\ NewSocket(a, rec, orph)
           \/ ~urlOk /\ scheduleReconnect(a, rec, orph)
              /\ UNCHANGED <<ready, silent, wsRef, overlapped>>
  /\ UNCHANGED <<heartbeat, lostBeats, stale>>

(* clearTimers, but for the reconnect timer its callers set again.         *)
clearTimers == heartbeat' = FALSE /\ stale' = FALSE /\ UNCHANGED lostBeats

(* Slip: the timers are not cleared.                                       *)
disconnectKeepsTimers ==
  /\ should' = FALSE
  /\ UNCHANGED <<timerVars, attempts, silent, overlapped>>
  /\ status' = "closed"
  /\ CloseRef
  /\ wsRef' = NoSocket

disconnect ==
  /\ should' = FALSE
  /\ clearTimers /\ reconnect' = FALSE /\ UNCHANGED orphans
  /\ status' = "closed"
  /\ CloseRef
  /\ wsRef' = NoSocket
  /\ UNCHANGED <<attempts, silent, overlapped>>

-----------------------------------------------------------------------------
(* The consumer.  StrictMode mounts, unmounts and mounts again; the        *)
(* references survive that.                                                *)
Call == calls < MaxCalls /\ calls' = calls + 1 /\ UNCHANGED urlOk

Mount == Call /\ ~mounted /\ mounted' = TRUE /\ connect(0, reconnect, orphans)
Unmount == Call /\ mounted /\ mounted' = FALSE /\ disconnect
Connect == Call /\ mounted /\ UNCHANGED mounted
             /\ connect(attempts, reconnect, orphans)
Disconnect == Call /\ mounted /\ UNCHANGED mounted /\ disconnect

-----------------------------------------------------------------------------
(* The timers.                                                             *)
ReconnectFires ==
  /\ reconnect
  /\ connect(attempts, FALSE, orphans)
  /\ UNCHANGED envVars
OrphanFires ==
  /\ orphans > 0
  /\ connect(attempts, reconnect, orphans - 1)
  /\ UNCHANGED envVars

(* armStaleTimer's callback closes the socket that is referred to now.     *)
StaleFires ==
  /\ stale /\ stale' = FALSE
  /\ CloseRef
  /\ UNCHANGED <<silent, refVars, reconnect, orphans, heartbeat, lostBeats,
                 envVars, status, overlapped>>

-----------------------------------------------------------------------------
(* The events of a socket.                                                 *)

(* Slip: the stale timer is not armed.                                     *)
onopenUnarmed(s) ==
  /\ ready[s] = "connecting"
  /\ ready' = [ready EXCEPT ![s] = "open"]
  /\ attempts' = 0
  /\ status' = "open"
  /\ heartbeat' = TRUE /\ lostBeats' = (lostBeats \/ heartbeat)
  /\ UNCHANGED <<silent, wsRef, should, reconnect, orphans, stale, envVars,
                 overlapped>>

onopen(s) ==
  /\ ready[s] = "connecting"
  /\ ready' = [ready EXCEPT ![s] = "open"]
  /\ attempts' = 0
  /\ status' = "open"
  /\ heartbeat' = TRUE /\ lostBeats' = (lostBeats \/ heartbeat)
  /\ stale' = TRUE
  /\ UNCHANGED <<silent, wsRef, should, reconnect, orphans, envVars, overlapped>>

(* Messages arm the stale timer again; what they carry goes to the store.  *)
onmessage(s) ==
  /\ ready[s] = "open" /\ ~silent[s]
  /\ stale' = TRUE
  /\ UNCHANGED <<ready, silent, refVars, reconnect, orphans, heartbeat,
                 lostBeats, envVars, status, overlapped>>

(* A connection attempt fails, a peer closes, or a close is completed.     *)
Closes(s) == \/ ready[s] \in {"connecting", "closing"}
             \/ ready[s] = "open" /\ ~silent[s]

onclose(s) ==
  /\ Closes(s)
  /\ ready' = [ready EXCEPT ![s] = "none"]
  /\ wsRef' = NoSocket
  /\ clearTimers
  /\ \/ /\ ~should \/ AtCap
        /\ status' = "closed"
        /\ reconnect' = FALSE
        /\ UNCHANGED <<attempts, orphans>>
     \/ /\ should /\ ~AtCap
        /\ status' = "reconnecting"
        /\ scheduleReconnect(attempts, FALSE, orphans)
  /\ UNCHANGED <<silent, should, envVars, overlapped>>

(* The network: nothing arrives on s any more, a close included.           *)
GoesSilent(s) ==
  /\ ready[s] = "open" /\ ~silent[s]
  /\ silent' = [silent EXCEPT ![s] = TRUE]
  /\ UNCHANGED <<ready, refVars, timerVars, envVars, status, overlapped>>

WsNext ==
  \/ Mount \/ Unmount \/ Connect \/ Disconnect
  \/ ReconnectFires \/ OrphanFires \/ StaleFires
  \/ \E s \in Socket : onopen(s) \/ onmessage(s) \/ onclose(s) \/ GoesSilent(s)

WsSpec == WsInit /\ [][WsNext]_wsVars

(***************************************************************************)
(* Fairness: a reconnect timer fires; a connection attempt and a close     *)
(* come to an end, as browsers give up on both; the stale timer fires      *)
(* while nothing arrives.  A server need not answer, or close.             *)
(***************************************************************************)
Quiet == \A s \in Socket : ready[s] = "open" => silent[s]
WsFairSpec ==
  /\ WsSpec
  /\ WF_wsVars(ReconnectFires) /\ WF_wsVars(OrphanFires)
  /\ WF_wsVars(Quiet /\ StaleFires)
  /\ \A s \in Socket : WF_wsVars(ready[s] # "open" /\ (onopen(s) \/ onclose(s)))

-----------------------------------------------------------------------------
(***************************************************************************)
(* "Manually disconnect.  Cancels any pending reconnect."  With a url that *)
(* is valid, the hook keeps no timer that would connect again after a      *)
(* disconnect or an unmount, and refers to no socket, whatever close       *)
(* events of old sockets come later.  With a url that is not, connect      *)
(* overwrites the reference to a timer and a disconnect leaves that one    *)
(* running.  It says nothing of sockets that are no longer referred to.    *)
(***************************************************************************)
CancelHolds ==
  (urlOk /\ ~should) => ~reconnect /\ orphans = 0 /\ wsRef = NoSocket

(***************************************************************************)
(* As long as connect is not called while a socket is still closing, there *)
(* is one socket and one heartbeat, over all closes, failures, retries and *)
(* stale resets, the status is "open" exactly when the socket is, and a    *)
(* socket that is no longer referred to is closing.  Once it has been      *)
(* called then, the late close of the old socket works on the references   *)
(* of the new one, and none of this holds.                                 *)
(***************************************************************************)
OneSocket ==
  ~overlapped =>
    /\ Cardinality(Alive) =< 1 /\ ~lostBeats
    /\ \A s \in Alive : s # wsRef => ready[s] = "closing"
    /\ status = "open" <=> wsRef # NoSocket /\ ready[wsRef] \in {"open", "closing"}

(* The hook shows "closed" only after a disconnect or when the attempts    *)
(* are used up; in all other cases it goes on trying.                      *)
GivesUpAtCap == (status = "closed" /\ should) => AtCap

(* "a half-open connection eventually gets reset rather than appearing     *)
(* permanently open in the UI".                                            *)
HalfOpenReset ==
  []<>(status # "open" \/ ~Quiet \/ overlapped)

(* A mounted hook without any socket that has not given up makes a new     *)
(* one, although the close events of other sockets clear its timer.        *)
KeepsTrying ==
  []<>(Alive # {} \/ ~should \/ status = "closed" \/ ~mounted \/ ~urlOk)
=============================================================================
