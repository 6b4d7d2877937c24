----------------------------- MODULE Collector -----------------------------
(***************************************************************************)
(* The collector (src/collector): a thread polls the last two segments of  *)
(* the write-ahead log and puts the records it has not seen yet, and a     *)
(* heartbeat, into a bounded channel; a task takes them out and sends them *)
(* to the hub over a WebSocket that it opens again when a send fails.      *)
(*                                                                         *)
(* A record is its LSN, a number; Segment records fill a segment.  eBPF is *)
(* off, as it is by default.  A connection whose peer has gone is "broken" *)
(* until a send on it fails; what is written to it before is lost, too.    *)
(***************************************************************************)
EXTENDS Naturals, Sequences, SequencesExt, FiniteSets, Lists

CONSTANTS MaxLsn,     \* bound: the last record
          Segment,    \* records of a segment
          Limit,      \* limit of collect_new_wal_events
          SeenCap,    \* the size at which seen_lsns is cleared
          ChanCap,    \* capacity of the channel
          MaxBreaks   \* bound: connections that break

ASSUME LimitAssumption == Limit \in Nat \ {0} /\ Segment \in Nat \ {0} /\ SeenCap \in Nat

VARIABLES
  wal,        \* the last record PostgreSQL has written
  seen,       \* seen_lsns
  batch,      \* what the polling thread has still to send
  chan,       \* the channel
  link,       \* the connection of ws_sender: "down", "up" or "broken"
  delivered,  \* the records the hub has received
  lost,       \* the records that were sent in vain
  breaks,     \* the connections that broke, and the restarts
  cut,        \* history: the records a poll passed over at its limit
  forgotten,  \* history: the records that were in seen_lsns and dropped out
  restarted,  \* history: the collector was started again
  unread      \* history: a segment could not be read

history == <<delivered, lost, cut, forgotten, restarted, unread>>
colVars == <<wal, seen, batch, chan, link, breaks, history>>

Lsn == 1..MaxLsn
Heartbeat == 0

ColInit ==
  /\ wal = 0 /\ seen = {} /\ batch = <<>> /\ chan = <<>> /\ link = "down"
  /\ breaks = 0 /\ delivered = {} /\ lost = {} /\ cut = {} /\ forgotten = {}
  /\ restarted = FALSE /\ unread = FALSE

-----------------------------------------------------------------------------
(* PostgreSQL writes a record.                                             *)
WalWritten ==
  /\ wal < MaxLsn /\ wal' = wal + 1
  /\ UNCHANGED <<seen, batch, chan, link, breaks, history>>

SegmentOf(l) == (l - 1) \div Segment
LastSegments == {s \in {SegmentOf(l) : l \in 1..wal} : s + 1 >= SegmentOf(wal)}

(* Slip: a record is looked up in the set and not inserted.                *)
SeenLookedUp(found, events) == UNCHANGED <<seen, forgotten>>
(* Every record found is inserted; past its limit the set is cleared and   *)
(* keeps only what is reported now.                                        *)
InsertSeen(found, events) ==
  LET all == seen \cup found
  IN  /\ seen' = IF Cardinality(all) > SeenCap THEN ToSet(events) ELSE all
      /\ forgotten' = forgotten \cup (all \ seen')

(* Slip: past the limit the oldest records are reported.                   *)
FirstOf(s, n) == IF Len(s) > n THEN SubSeq(s, 1, n) ELSE s
LastOf(s, n) == IF Len(s) > n THEN SubSeq(s, Len(s) - n + 1, Len(s)) ELSE s

(* Slip: there is a heartbeat only with a record.                          *)
WithHeartbeatOnce(events) == IF events = <<>> THEN <<>> ELSE Append(events, Heartbeat)
WithHeartbeat(events) == Append(events, Heartbeat)

(* collect_new_wal_events: of the segments that can be read, the records   *)
(* not seen before, in their order, and of these the last Limit; the ones  *)
(* before them are in the set, too, and are not reported.                  *)
Poll ==
  /\ batch = <<>>
  /\ \E readable \in SUBSET LastSegments :
       LET found == {l \in 1..wal : SegmentOf(l) \in readable}
           events == LastOf(InOrder(found \ seen), Limit)
       IN  /\ batch' = WithHeartbeat(events)
           /\ InsertSeen(found, events)
           /\ cut' = cut \cup ((found \ seen) \ ToSet(events))
           /\ unread' = (unread \/ readable # LastSegments)
  /\ UNCHANGED <<wal, chan, link, breaks, delivered, lost, restarted>>

(* tx.send: the thread waits while the channel is full.                    *)
Push ==
  /\ batch # <<>> /\ Len(chan) < ChanCap
  /\ chan' = Append(chan, Head(batch)) /\ batch' = Tail(batch)
  /\ UNCHANGED <<wal, seen, link, breaks, history>>

-----------------------------------------------------------------------------
(* connect_async succeeds; a failure changes nothing and is tried again.   *)
ConnectWs ==
  /\ link = "down" /\ link' = "up"
  /\ UNCHANGED <<wal, seen, batch, chan, breaks, history>>

(* The backend or the network goes; read.next() is ignored by the loop.    *)
Break ==
  /\ link = "up" /\ breaks < MaxBreaks
  /\ link' = "broken" /\ breaks' = breaks + 1
  /\ UNCHANGED <<wal, seen, batch, chan, history>>

Records(x) == IF x = Heartbeat THEN {} ELSE {x}

(* An event is taken from the channel and sent.                            *)
Deliver ==
  /\ link = "up" /\ chan # <<>>
  /\ delivered' = delivered \cup Records(Head(chan)) /\ chan' = Tail(chan)
  /\ UNCHANGED <<wal, seen, batch, link, breaks, lost, cut, forgotten, restarted, unread>>

(* On a broken connection it is lost, whether the send fails or not; a     *)
(* failure leaves the loop, and the next connection starts without it.     *)
SendInVain ==
  /\ link = "broken" /\ chan # <<>>
  /\ lost' = lost \cup Records(Head(chan)) /\ chan' = Tail(chan)
  /\ UNCHANGED <<wal, seen, batch, link, breaks, delivered, cut, forgotten, restarted, unread>>
SendFails ==
  /\ link = "broken" /\ chan # <<>> /\ link' = "down"
  /\ lost' = lost \cup Records(Head(chan)) /\ chan' = Tail(chan)
  /\ UNCHANGED <<wal, seen, batch, breaks, delivered, cut, forgotten, restarted, unread>>

(* The collector ends, with all it has in memory, and is started again.    *)
Restart ==
  /\ breaks < MaxBreaks /\ breaks' = breaks + 1
  /\ seen' = {} /\ batch' = <<>> /\ chan' = <<>> /\ link' = "down"
  /\ restarted' = TRUE /\ forgotten' = forgotten \cup seen
  /\ lost' = lost \cup ((ToSet(batch) \cup ToSet(chan)) \ {Heartbeat})
  /\ UNCHANGED <<wal, delivered, cut, unread>>

ColNext ==
  \/ WalWritten \/ Poll \/ Push
  \/ ConnectWs \/ Break \/ Deliver \/ SendInVain \/ SendFails \/ Restart

(* Fairness: the thread polls and pushes, the backend can be reached at    *)
(* some time, a send ends, and not every send on a broken connection seems *)
(* to succeed.                                                             *)
ColSpec ==
  /\ ColInit /\ [][ColNext]_colVars
  /\ WF_colVars(Poll) /\ WF_colVars(Push) /\ WF_colVars(ConnectWs)
  /\ WF_colVars(Deliver \/ SendInVain) /\ SF_colVars(SendFails)

-----------------------------------------------------------------------------
(* What waits to be sent, oldest first, and where there are records in it. *)
Waiting == chan \o batch
RecordAt == {i \in 1..Len(Waiting) : Waiting[i] # Heartbeat}
Reported == delivered \cup lost \cup {Waiting[i] : i \in RecordAt}
Found == seen \cup forgotten

(* Of every record a poll has found, the log knows what became of it: it   *)
(* waits, was delivered, went with a connection or a restart, or was       *)
(* passed over; and it is passed over for later ones only, as many as the  *)
(* limit of a poll allows.                                                 *)
Accounted ==
  /\ Found \subseteq Reported \cup cut
  /\ \A l \in cut : Cardinality({k \in Reported : k > l}) >= Limit

(* A record is reported once, unless it dropped out of seen_lsns, which    *)
(* does not happen before a restart or more than SeenCap records.          *)
ReportedOnce ==
  /\ \A i \in RecordAt : Waiting[i] \in delivered \cup lost => Waiting[i] \in forgotten
  /\ \A i, j \in RecordAt : i # j /\ Waiting[i] = Waiting[j] => Waiting[i] \in forgotten
  /\ (delivered \cap lost) \cup (cut \cap Reported) \subseteq forgotten
  /\ forgotten # {} => restarted \/ Cardinality(Found) > SeenCap

(* As long as none dropped out and every segment could be read, what waits *)
(* is in the order of the log, after all that was sent.                    *)
ReportedInOrder ==
  forgotten = {} /\ ~unread =>
    /\ \A i, j \in RecordAt : i < j => Waiting[i] < Waiting[j]
    /\ \A i \in RecordAt, l \in delivered \cup lost : l < Waiting[i]

(* The records of the log, between a poll and the hub: each is accounted   *)
(* for, reported once, and in order.  The collector loses records at the   *)
(* limit of a poll and with its connections, and repeats them when it      *)
(* clears the set: the three parts say which, and when.                    *)
CollectorSound == Accounted /\ ReportedOnce /\ ReportedInOrder

(* A connection that broke is noticed and opened again, also when          *)
(* PostgreSQL writes nothing more: the heartbeat is sent all the same.     *)
LinkRestored == (link = "broken") ~> (link = "up")
=============================================================================
