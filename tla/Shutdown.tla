------------------------------ MODULE Shutdown ------------------------------
(***************************************************************************)
(* The end of the backend process: main.go stops the HTTP server, then     *)
(* closes what the handlers use, the audit log (internal/auditlog) and the *)
(* error reporter (internal/reporter) last, while handlers that outlived   *)
(* the ten seconds of srv.Shutdown, the worker of the audit log, the       *)
(* sender of the reporter and the goroutines that report a recovered panic *)
(* go on.                                                                  *)
(*                                                                         *)
(* A handler makes one audit record, which is known by the handler, as is  *)
(* the report of its panic.  The other objects main closes, the hub, the   *)
(* connections and the telemetry store, are modules of their own; here     *)
(* they are one step, which needs the lock of the connection manager: a    *)
(* handler holds it while it dials a database, and neither the dial nor    *)
(* the ping after it has a timeout of its own.  The reporter is enabled    *)
(* and samples nothing out.                                                *)
(***************************************************************************)
EXTENDS Naturals, Sequences, SequencesExt

CONSTANTS Handler,    \* requests of one life of the process
          SinkCap,    \* capacity of Logger.sink
          QueueCap    \* capacity of Reporter.queue

ASSUME CapsAssumption == SinkCap \in Nat /\ QueueCap \in Nat

VARIABLES
  mainPc,     \* what main does next
  timedOut,   \* srv.Shutdown returned the error of its context
  handler,    \* handler[h]: where the request is
  sink,       \* Logger.sink
  sinkClosed, \* close(l.sink) was done
  auditor,    \* the worker of the audit log: what it writes, or its state
  written,    \* the audit records in the log
  skipped,    \* the audit records Dropped() counts
  captures,   \* goroutines started by Recover that have not run
  queue,      \* Reporter.queue
  repStop,    \* close(r.stop) was done
  sender,     \* the goroutine of the reporter: [mode, event]
  reports,    \* reports[o]: the reports sent, or dropped and counted
  early,      \* history: the reports in the queue when Shutdown was called
  late        \* history: handlers that met the closed sink

auditVars == <<sink, sinkClosed, auditor, written, skipped>>
repVars == <<captures, queue, repStop, sender, reports, early>>
shutVars == <<mainPc, timedOut, handler, auditVars, repVars, late>>

Free == "free"          \* a goroutine that waits for its channel
Ended == "ended"        \* a goroutine that has returned
ASSUME HandlerAssumption == Free \notin Handler /\ Ended \notin Handler

ShutInit ==
  /\ mainPc = "serve" /\ timedOut = FALSE
  /\ handler = [h \in Handler |-> "none"]
  /\ sink = <<>> /\ sinkClosed = FALSE /\ auditor = Free /\ written = {} /\ skipped = {}
  /\ captures = {} /\ queue = <<>> /\ repStop = FALSE
  /\ sender = [mode |-> "run", event |-> Free]
  /\ reports = [sent |-> {}, dropped |-> {}]
  /\ early = {} /\ late = {}

AtRest == {"none", "done", "panicked"}    \* a request that is over, or none
Alive == mainPc # "exit"    \* the process ends when main returns
Working(h) == handler[h] \in {"busy", "dialled"}
LockFree == \A h \in Handler : handler[h] # "dialling"    \* connMgr.mu

-----------------------------------------------------------------------------
(* A request comes in while the server listens.                            *)
Serve(h) ==
  /\ mainPc = "serve" /\ handler[h] = "none"
  /\ handler' = [handler EXCEPT ![h] = "busy"]
  /\ UNCHANGED <<mainPc, timedOut, auditVars, repVars, late>>

(* connMgr.Activate: the lock is held until the dial and the ping have an  *)
(* answer, of whatever kind and whenever it comes.                         *)
DialStarts(h) ==
  /\ Alive /\ handler[h] = "busy" /\ LockFree
  /\ handler' = [handler EXCEPT ![h] = "dialling"]
  /\ UNCHANGED <<mainPc, timedOut, auditVars, repVars, late>>
DialEnds(h) ==
  /\ Alive /\ handler[h] = "dialling"
  /\ handler' = [handler EXCEPT ![h] = "dialled"]
  /\ UNCHANGED <<mainPc, timedOut, auditVars, repVars, late>>

(* Recover: the panic becomes a 500, and is reported by a goroutine.       *)
Recover(h) ==
  /\ handler' = [handler EXCEPT ![h] = "panicked"]
  /\ captures' = captures \cup {h}
  /\ UNCHANGED <<queue, repStop, sender, reports, early>>

HandlerPanics(h) ==
  /\ Alive /\ Working(h)
  /\ Recover(h)
  /\ UNCHANGED <<mainPc, timedOut, auditVars, late>>

(* Log: the record goes into the sink, is dropped when that is full, and   *)
(* is a panic of the handler when it is closed.                            *)
Log(h) ==
  /\ Alive /\ Working(h)
  /\ \/ /\ sinkClosed
        /\ Recover(h) /\ late' = late \cup {h} /\ UNCHANGED <<sink, skipped>>
     \/ /\ ~sinkClosed
        /\ handler' = [handler EXCEPT ![h] = "answer"]
        /\ \/ Len(sink) < SinkCap /\ sink' = Append(sink, h) /\ UNCHANGED skipped
           \/ Len(sink) >= SinkCap /\ skipped' = skipped \cup {h} /\ UNCHANGED sink
        /\ UNCHANGED <<repVars, late>>
  /\ UNCHANGED <<mainPc, timedOut, sinkClosed, auditor, written>>

Answer(h) ==
  /\ Alive /\ handler[h] = "answer"
  /\ handler' = [handler EXCEPT ![h] = "done"]
  /\ UNCHANGED <<mainPc, timedOut, auditVars, repVars, late>>

-----------------------------------------------------------------------------
(* The worker of the audit log: range over the sink, until it is closed    *)
(* and empty.                                                              *)
AuditTake ==
  /\ Alive /\ auditor = Free /\ sink # <<>>
  /\ auditor' = Head(sink) /\ sink' = Tail(sink)
  /\ UNCHANGED <<mainPc, timedOut, handler, sinkClosed, written, skipped, repVars, late>>
AuditWrite ==
  /\ Alive /\ auditor \in Handler
  /\ written' = written \cup {auditor} /\ auditor' = Free
  /\ UNCHANGED <<mainPc, timedOut, handler, sink, sinkClosed, skipped, repVars, late>>
AuditEnds ==
  /\ Alive /\ auditor = Free /\ sink = <<>> /\ sinkClosed
  /\ auditor' = Ended
  /\ UNCHANGED <<mainPc, timedOut, handler, sink, sinkClosed, written, skipped, repVars,
                 late>>

(* CaptureError, in the goroutine of Recover.                              *)
Capture(h) ==
  /\ Alive /\ h \in captures /\ captures' = captures \ {h}
  /\ \/ Len(queue) < QueueCap /\ queue' = Append(queue, h) /\ UNCHANGED reports
     \/ /\ Len(queue) >= QueueCap /\ UNCHANGED queue
        /\ reports' = [reports EXCEPT !.dropped = @ \cup {h}]
  /\ UNCHANGED <<mainPc, timedOut, handler, auditVars, repStop, sender, early, late>>

(* The goroutine of the reporter takes an event, sends it, and drains the  *)
(* queue once it has seen the stop.                                        *)
SenderTake ==
  /\ Alive /\ sender.mode # "ended" /\ sender.event = Free /\ queue # <<>>
  /\ sender' = [sender EXCEPT !.event = Head(queue)] /\ queue' = Tail(queue)
  /\ UNCHANGED <<mainPc, timedOut, handler, auditVars, captures, repStop, reports, early,
                 late>>
SenderSends ==
  /\ Alive /\ sender.event # Free
  /\ \E o \in {"sent", "dropped"} : reports' = [reports EXCEPT ![o] = @ \cup {sender.event}]
  /\ sender' = [sender EXCEPT !.event = Free]
  /\ UNCHANGED <<mainPc, timedOut, handler, auditVars, captures, queue, repStop, early, late>>
(* Slip: the stop ends the goroutine, and the queue is left.               *)
SenderStopsAtOnce ==
  /\ Alive /\ sender.event = Free /\ repStop
  /\ sender' = [sender EXCEPT !.mode = "ended"]
  /\ UNCHANGED <<mainPc, timedOut, handler, auditVars, captures, queue, repStop, reports,
                 early, late>>
(* Slip: when the queue is drained, the goroutine goes on with its loop.   *)
SenderGoesOn ==
  /\ Alive /\ sender.event = Free
  /\ \/ sender.mode = "run" /\ repStop /\ sender' = [sender EXCEPT !.mode = "drain"]
     \/ sender.mode = "drain" /\ queue = <<>> /\ sender' = [sender EXCEPT !.mode = "run"]
  /\ UNCHANGED <<mainPc, timedOut, handler, auditVars, captures, queue, repStop, reports,
                 early, late>>
SenderStops ==
  /\ Alive /\ sender.event = Free
  /\ \/ sender.mode = "run" /\ repStop /\ sender' = [sender EXCEPT !.mode = "drain"]
     \/ sender.mode = "drain" /\ queue = <<>> /\ sender' = [sender EXCEPT !.mode = "ended"]
  /\ UNCHANGED <<mainPc, timedOut, handler, auditVars, captures, queue, repStop, reports,
                 early, late>>

-----------------------------------------------------------------------------
Main(from, to) == mainPc = from /\ mainPc' = to

Signal == Main("serve", "shutdown") /\ UNCHANGED <<timedOut, handler, auditVars, repVars, late>>

(* srv.Shutdown returns when no request is being served, or when its time  *)
(* is over.                                                                *)
ServerShutdown ==
  /\ Main("shutdown", "services")
  /\ \/ (\A h \in Handler : handler[h] \in AtRest) /\ UNCHANGED timedOut
     \/ timedOut' = TRUE
  /\ UNCHANGED <<handler, auditVars, repVars, late>>

(* hub.Stop, connMgr.Close, which waits for the lock of the manager, and,  *)
(* deferred, CloseTelemetry.                                               *)
StopServices ==
  /\ Main("services", "audit") /\ LockFree
  /\ UNCHANGED <<timedOut, handler, auditVars, repVars, late>>

(* auditLogger.Close: the sink is closed and the worker waited for.        *)
CloseSink ==
  /\ Main("audit", "auditWait") /\ sinkClosed' = TRUE
  /\ UNCHANGED <<timedOut, handler, sink, auditor, written, skipped, repVars, late>>
(* Slip: Close does not wait for the worker.                               *)
AuditClosedAtOnce ==
  Main("auditWait", "reporter") /\ UNCHANGED <<timedOut, handler, auditVars, repVars, late>>
AuditClosed ==
  /\ Main("auditWait", "reporter") /\ auditor = Ended
  /\ UNCHANGED <<timedOut, handler, auditVars, repVars, late>>

(* rep.Shutdown: the stop, and the end of the goroutine.                   *)
StopReporter ==
  /\ Main("reporter", "reporterWait") /\ repStop' = TRUE /\ early' = ToSet(queue)
  /\ UNCHANGED <<timedOut, handler, auditVars, captures, queue, sender, reports, late>>
Exit ==
  /\ Main("reporterWait", "exit") /\ sender.mode = "ended"
  /\ UNCHANGED <<timedOut, handler, auditVars, repVars, late>>

(* The process is started again.                                           *)
Start ==
  /\ Main("exit", "serve") /\ timedOut' = FALSE
  /\ handler' = [h \in Handler |-> "none"]
  /\ sink' = <<>> /\ sinkClosed' = FALSE /\ auditor' = Free /\ written' = {} /\ skipped' = {}
  /\ captures' = {} /\ queue' = <<>> /\ repStop' = FALSE
  /\ sender' = [mode |-> "run", event |-> Free]
  /\ reports' = [sent |-> {}, dropped |-> {}]
  /\ early' = {} /\ late' = {}

MainSteps ==
  ServerShutdown \/ StopServices \/ CloseSink \/ AuditClosed \/ StopReporter \/ Exit
AuditSteps == AuditTake \/ AuditWrite \/ AuditEnds
SenderSteps == SenderTake \/ SenderSends \/ SenderStops
ShutNext ==
  \/ \E h \in Handler : \/ Serve(h) \/ DialStarts(h) \/ DialEnds(h)
                         \/ HandlerPanics(h) \/ Log(h) \/ Answer(h) \/ Capture(h)
  \/ AuditSteps \/ SenderSteps \/ Signal \/ MainSteps \/ Start

(* Fairness: goroutines that can run do; a post and a drain have a         *)
(* timeout.  Handlers need not end, and a dial need not either.            *)
ShutSpec ==
  /\ ShutInit /\ [][ShutNext]_shutVars
  /\ WF_shutVars(MainSteps) /\ WF_shutVars(AuditSteps) /\ WF_shutVars(SenderSteps)

-----------------------------------------------------------------------------
(* When Close of the audit log has returned, every record that Log took is *)
(* in the log, the others were counted; and a handler meets the closed     *)
(* sink only if srv.Shutdown gave up waiting for it.                       *)
AuditKept ==
  /\ (mainPc \in {"reporter", "reporterWait", "exit"}) =>
        \A h \in Handler : handler[h] \in {"answer", "done"} => h \in written \cup skipped
  /\ late # {} => timedOut

(* Every report that was in the queue when Shutdown was called has been    *)
(* sent, or counted as dropped, when the process ends.  A panic whose      *)
(* goroutine runs later than that is in neither count.                     *)
ReportsAccounted ==
  mainPc = "exit" => early \subseteq reports.sent \cup reports.dropped

(* "Each step has its own bounded timeout so a stuck dependency can't pin  *)
(* the process forever", main.go says above hub.Stop and connMgr.Close:    *)
(* the signal ends the process.  It does not: a dial that never ends keeps *)
(* the lock that connMgr.Close waits for.                                  *)
ShutdownEnds == (mainPc = "shutdown") ~> (mainPc = "exit")

(* What does hold: the signal ends the process, whatever handlers, posts   *)
(* and drains do, if no dial goes on for ever.                             *)
ShutdownEndsUnlessDialling ==
  (\A h \in Handler : []<>(handler[h] # "dialling")) => ShutdownEnds
=============================================================================
