----------------------------- MODULE EventView -----------------------------
(***************************************************************************)
(* What the pages show of the event stream: the store that keeps the last  *)
(* events (stores/eventStore.ts) and what useVisualizationData.ts makes of *)
(* them, computed anew from the whole window each time it changes.         *)
(*                                                                         *)
(* An event is its type with what the pages tell apart: the buffer and the *)
(* relation (0 when it is missing) of a pin, the state of a transaction.   *)
(***************************************************************************)
EXTENDS Naturals, Sequences, FiniteSets, SequencesExt, Lists

CONSTANTS MAX_EVENTS,   \* events the store keeps
          MaxReceived   \* bound: events received

ASSUME EventsAssumption == MAX_EVENTS \in Nat \ {0, 1}

VARIABLES events,       \* the store's events
          received      \* all events there were
evVars == <<events, received>>

EventSet ==
  {[type |-> "buffer_pin", buf |-> b, rel |-> r] : b \in {1, 2}, r \in {0, 7}}
    \cup {[type |-> "xact_state", state |-> s] : s \in {"begin", "commit", "abort", "other"}}
    \cup {[type |-> "wal_insert"], [type |-> "heartbeat", mode |-> "ebpf"]}

(* Where the events of a type are, and the last of them.                   *)
OfType(es, t) == {k \in 1..Len(es) : es[k].type = t}
LatestOf(es, t) == es[Max(OfType(es, t))]

(* The last n elements, all when there are fewer: slice(-n).               *)
slice(es, n) == IF n = 0 \/ Len(es) =< n THEN es ELSE SubSeq(es, Len(es) - n + 1, Len(es))

EvInit == events = <<>> /\ received = <<>>

addEvent(e) ==
  /\ Len(received) < MaxReceived /\ received' = Append(received, e)
  /\ events' = Append(slice(events, MAX_EVENTS - 1), e)

-----------------------------------------------------------------------------
(* Slip: a pin that names no relation takes the relation of the cell away. *)
PinForgets(cells, e) ==
  LET old == IF e.buf \in DOMAIN cells THEN cells[e.buf] ELSE [hits |-> 0, rel |-> 0]
      new == [hits |-> old.hits + 1, rel |-> e.rel]
  IN  [b \in DOMAIN cells \cup {e.buf} |-> IF b = e.buf THEN new ELSE cells[b]]
(* One cell per buffer: its pins counted, its relation the last one named. *)
Pin(cells, e) ==
  LET old == IF e.buf \in DOMAIN cells THEN cells[e.buf] ELSE [hits |-> 0, rel |-> 0]
      new == [hits |-> old.hits + 1, rel |-> IF e.rel # 0 THEN e.rel ELSE old.rel]
  IN  [b \in DOMAIN cells \cup {e.buf} |-> IF b = e.buf THEN new ELSE cells[b]]
NoCells == [b \in {} |-> [hits |-> 0, rel |-> 0]]
buildBufferCells(es) ==
  LET after[k \in 0..Len(es)] ==
        IF k = 0 THEN NoCells
        ELSE IF es[k].type = "buffer_pin" THEN Pin(after[k - 1], es[k])
        ELSE after[k - 1]
  IN  after[Len(es)]

(* One row per event of a transaction.                                     *)
transactionState(s) ==
  CASE s = "begin" -> "started" [] s = "other" -> "in_progress" [] OTHER -> s
buildTransactionStates(es) ==
  LET xs == Picked(es, OfType(es, "xact_state"))
  IN  [k \in DOMAIN xs |-> transactionState(xs[k].state)]

(* The stages that events can complete; the others stay pending.           *)
Outcome(es) ==
  IF OfType(es, "xact_state") # {}
  THEN CASE LatestOf(es, "xact_state").state = "commit" -> "done"
         [] LatestOf(es, "xact_state").state = "abort"  -> "error"
         [] OTHER -> "pending"
  ELSE "pending"
buildWriteStages(es) ==
  IF \A t \in {"wal_insert", "buffer_pin", "xact_state"} : OfType(es, t) = {} THEN <<>>
  ELSE [exec_start |-> "done",
        buf_alloc  |-> IF OfType(es, "buffer_pin") # {} THEN "done" ELSE "pending",
        wal_insert |-> IF OfType(es, "wal_insert") # {} THEN "done" ELSE "pending",
        commit     |-> Outcome(es)]

collectorMode(es) ==
  IF OfType(es, "heartbeat") # {} THEN LatestOf(es, "heartbeat").mode ELSE "unknown"

(* What the hook returns.                                                  *)
useVisualizationData(es) ==
  [buffers |-> buildBufferCells(es), collectorMode |-> collectorMode(es),
   eventCount |-> Len(es), lastEventType |-> IF es = <<>> THEN "" ELSE Last(es).type,
   transactions |-> buildTransactionStates(es), writeStages |-> buildWriteStages(es)]

EvNext == \E e \in EventSet : addEvent(e)
EvSpec == EvInit /\ [][EvNext]_evVars

-----------------------------------------------------------------------------
(* The store keeps the last MAX_EVENTS events that were received, all of   *)
(* them and in their order, across every overflow.                         *)
EventsRecent ==
  /\ events = SubSeq(received, Len(received) - Len(events) + 1, Len(received))
  /\ Len(events) = IF Len(received) < MAX_EVENTS THEN Len(received) ELSE MAX_EVENTS

(* The cells are those of a count over the window: as many hits as pins,   *)
(* and the relation of the last pin that names one.                        *)
CellsExact ==
  \A b \in {1, 2} :
    LET pins  == {k \in 1..Len(events) : events[k].type = "buffer_pin" /\ events[k].buf = b}
        named == {k \in pins : events[k].rel # 0}
        cells == useVisualizationData(events).buffers
    IN  /\ b \in DOMAIN cells <=> pins # {}
        /\ pins # {} =>
             /\ cells[b].hits = Cardinality(pins)
             /\ cells[b].rel = IF named = {} THEN 0 ELSE events[Max(named)].rel

(* The last stage and the rows of the transactions tell the same end: it   *)
(* is done, or failed, exactly when the last row is a commit, or an abort. *)
StagesAgree ==
  LET shown == useVisualizationData(events)
  IN  shown.transactions # <<>> =>
        /\ shown.writeStages.commit = "done"  <=> Last(shown.transactions) = "commit"
        /\ shown.writeStages.commit = "error" <=> Last(shown.transactions) = "abort"
=============================================================================
