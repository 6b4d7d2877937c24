-------------------------- MODULE BrowserTelemetry --------------------------
(***************************************************************************)
(* What the page reports about itself: errors (lib/errorReporter.ts), web  *)
(* vitals (lib/webVitals.ts), and the boundary around the application that *)
(* catches errors of rendering (components/common/ErrorBoundary.tsx), as   *)
(* main.tsx connects them.                                                 *)
(*                                                                         *)
(* Both reporters collect items in a queue, start a timer with the first   *)
(* and post the queue as one batch when it fires.  The post is not retried *)
(* and a batch that cannot be delivered is dropped.  Items are numbers, in *)
(* the order they are made; breadcrumbs are only counted.                  *)
(***************************************************************************)
EXTENDS Naturals, FiniteSets

CONSTANTS MaxItems,        \* bound: errors and samples
          MaxCrumbs,       \* the larger of the two values of maxBreadcrumbs
          MaxTelCalls      \* bound: configurations and installations
ASSUME CrumbsAssumption == MaxCrumbs \in Nat \ {0}
ASSUME TelBounds == MaxItems \in Nat /\ MaxTelCalls \in Nat

Channels == {"errors", "vitals"}

VARIABLES
  queued,         \* items waiting, per reporter: queue, samples
  flushTimer,     \* the reporter's timer is running
  flying,         \* batches that have been posted and not answered
  delivered, dropped, lost,    \* what became of items; lost: page reloaded
  enabled,        \* activeConfig.enabled, per reporter
  crumbs,         \* breadcrumbs.length
  maxBreadcrumbs, \* activeConfig.maxBreadcrumbs
  listeners,      \* pairs of handlers on window
  installed,      \* installedListeners
  boundary,       \* the boundary shows its fallback for this item; 0: none
  items, telCalls \* counters

telVars == <<queued, flushTimer, flying, delivered, dropped, lost, enabled, crumbs,
             maxBreadcrumbs, listeners, installed, boundary, items, telCalls>>

TelInit ==
  /\ queued = [c \in Channels |-> {}] /\ flushTimer = [c \in Channels |-> FALSE]
  /\ flying = {} /\ delivered = {} /\ dropped = {} /\ lost = {}
  /\ enabled = [c \in Channels |-> TRUE]
  /\ crumbs = 0 /\ maxBreadcrumbs = MaxCrumbs
  /\ listeners = 1 /\ installed = TRUE         \* main.tsx installs first of all
  /\ boundary = 0 /\ items = 0 /\ telCalls = 0

fates == <<delivered, dropped, lost>>
config == <<enabled, maxBreadcrumbs, listeners, installed, telCalls>>

-----------------------------------------------------------------------------
NewItem == items < MaxItems /\ items' = items + 1

scheduleFlush(c) == flushTimer' = [flushTimer EXCEPT ![c] = TRUE]

(* n reports of the new item: one for every handler that is on window.     *)
Collect(c, n) ==
  \/ /\ enabled[c] /\ n > 0
     /\ queued' = [queued EXCEPT ![c] = @ \cup {<<items + 1, k>> : k \in 1..n}]
     /\ scheduleFlush(c)
  \/ (~enabled[c] \/ n = 0) /\ UNCHANGED <<queued, flushTimer>>

reportError(n) ==
  /\ NewItem /\ Collect("errors", n)
  /\ UNCHANGED <<flying, fates, config, crumbs>>

(* An error nobody caught, or a rejected promise.                          *)
windowError == reportError(listeners) /\ UNCHANGED boundary

(* installWebVitals' observers call record.                                *)
record ==
  /\ NewItem /\ Collect("vitals", 1)
  /\ UNCHANGED <<flying, fates, config, crumbs, boundary>>

addBreadcrumb ==
  /\ crumbs' = IF ~enabled["errors"] THEN crumbs
                 ELSE IF crumbs + 1 > maxBreadcrumbs THEN maxBreadcrumbs
                 ELSE crumbs + 1
  /\ UNCHANGED <<queued, flushTimer, flying, fates, config, boundary, items>>

-----------------------------------------------------------------------------
(* The queue becomes a batch; nothing is posted when it is empty.          *)
Post(c) ==
  /\ flying' = IF queued[c] = {} THEN flying ELSE flying \cup {queued[c]}
  /\ queued' = [queued EXCEPT ![c] = {}]

TimerFires(c) ==
  /\ flushTimer[c] /\ flushTimer' = [flushTimer EXCEPT ![c] = FALSE]
  /\ Post(c)
  /\ UNCHANGED <<fates, config, crumbs, boundary, items>>
flush == TimerFires("errors")
doFlush == TimerFires("vitals")

FlushNow(c) ==
  /\ flushTimer' = [flushTimer EXCEPT ![c] = FALSE]
  /\ Post(c)
  /\ UNCHANGED <<fates, config, crumbs, boundary, items>>
flushNow == FlushNow("errors")
flushVitals == FlushNow("vitals")

(* The post is answered, or has failed and its batch is dropped.           *)
PostEnds(b) ==
  /\ b \in flying /\ flying' = flying \ {b}
  /\ \/ delivered' = delivered \cup b /\ UNCHANGED <<dropped, lost>>
     \/ dropped' = dropped \cup b /\ UNCHANGED <<delivered, lost>>
  /\ UNCHANGED <<queued, flushTimer, config, crumbs, boundary, items>>

-----------------------------------------------------------------------------
TelCall == telCalls < MaxTelCalls /\ telCalls' = telCalls + 1
configure(c, on, max) ==
  /\ TelCall /\ enabled' = [enabled EXCEPT ![c] = on]
  /\ maxBreadcrumbs' = IF c = "errors" THEN max ELSE maxBreadcrumbs
  /\ UNCHANGED <<queued, flushTimer, flying, fates, crumbs, listeners,
                 installed, boundary, items>>
configureErrorReporter == \E on \in BOOLEAN, max \in {1, MaxCrumbs} : configure("errors", on, max)
configureVitalReporter == \E on \in BOOLEAN : configure("vitals", on, MaxCrumbs)

installGlobalErrorHandlers ==
  /\ TelCall
  /\ listeners' = IF installed THEN listeners ELSE listeners + 1
  /\ installed' = TRUE
  /\ UNCHANGED <<queued, flushTimer, flying, fates, enabled, crumbs, maxBreadcrumbs, boundary, items>>
(* The function it returned.                                               *)
uninstall ==
  /\ TelCall /\ installed /\ listeners' = listeners - 1 /\ installed' = FALSE
  /\ UNCHANGED <<queued, flushTimer, flying, fates, enabled, crumbs, maxBreadcrumbs, boundary, items>>

-----------------------------------------------------------------------------
(* Reports that were made and have not come to an end.                     *)
Waiting == (UNION flying) \cup (UNION {queued[c] : c \in Channels})

(* A descendant throws while it renders: the fallback is shown and, by the *)
(* window event main.tsx listens to, the error is reported.                *)
componentDidCatch ==
  /\ boundary = 0 /\ reportError(1)
  /\ boundary' = items + 1
boundaryReset ==
  /\ boundary # 0 /\ boundary' = 0
  /\ UNCHANGED <<queued, flushTimer, flying, fates, config, crumbs, items>>
(* "Reload page": the page starts over, and what was not answered is lost. *)
boundaryReload ==
  /\ boundary # 0 /\ boundary' = 0
  /\ lost' = lost \cup Waiting
  /\ queued' = [c \in Channels |-> {}] /\ flushTimer' = [c \in Channels |-> FALSE]
  /\ flying' = {} /\ crumbs' = 0
  /\ enabled' = [c \in Channels |-> TRUE] /\ maxBreadcrumbs' = MaxCrumbs
  /\ listeners' = 1 /\ installed' = TRUE
  /\ UNCHANGED <<delivered, dropped, items, telCalls>>

TelSends == flush \/ doFlush \/ \E b \in flying : PostEnds(b)
TelNext ==
  \/ windowError \/ record \/ addBreadcrumb \/ flushNow \/ flushVitals
  \/ configureErrorReporter \/ configureVitalReporter
  \/ installGlobalErrorHandlers \/ uninstall
  \/ componentDidCatch \/ boundaryReset \/ boundaryReload
  \/ TelSends

(* Fairness: timers fire and posts end; each post has a timeout of 3 s.    *)
TelSpec == TelInit /\ [][TelNext]_telVars /\ WF_telVars(TelSends)

-----------------------------------------------------------------------------
Gone == delivered \cup dropped \cup lost

(* The state of the reporters keeps its type; uninstalling never takes     *)
(* away more listeners than were installed.                                *)
TelTypeOK ==
  /\ \A c \in Channels : queued[c] \subseteq (1..MaxItems) \X (1..MaxTelCalls + 1)
  /\ flushTimer \in [Channels -> BOOLEAN] /\ enabled \in [Channels -> BOOLEAN]
  /\ Waiting \cup Gone \subseteq (1..items) \X (1..MaxTelCalls + 1)
  /\ crumbs \in 0..MaxCrumbs + 1 /\ maxBreadcrumbs \in 1..MaxCrumbs
  /\ listeners \in 0..(MaxTelCalls + 1) /\ installed \in BOOLEAN
  /\ boundary \in 0..items /\ items \in 0..MaxItems /\ telCalls \in 0..MaxTelCalls

(* A report is posted at most once: it is waiting in one place only and is *)
(* no longer there when it has been delivered, dropped or lost.            *)
PostedOnce ==
  /\ Waiting \cap Gone = {} /\ dropped \cap delivered = {}
  /\ \A b \in flying : \A c \in Channels : b \cap queued[c] = {}
  /\ \A b1, b2 \in flying : b1 # b2 => b1 \cap b2 = {}

(* Nothing waits in a queue without a timer that will take it along, in    *)
(* whichever order items, forced flushes, new settings and answers come.   *)
NoneStranded == \A c \in Channels : queued[c] # {} => flushTimer[c]

(* However often handlers are installed and taken away, an error on window *)
(* is reported at most once.                                               *)
ReportedOnce == \A r \in Waiting \cup Gone : r[2] = 1

(* A breadcrumb list never grows past the limit that was set when the last *)
(* one was added.                                                          *)
CrumbsCapped == crumbs' > crumbs => crumbs' =< maxBreadcrumbs

(* When nothing more is reported everything is delivered, dropped or lost. *)
ReportsLeave == <>[](items = MaxItems => Waiting = {})
=============================================================================
