--------------------------- MODULE TelemetryStore ---------------------------
(***************************************************************************)
(* The store of client-side error reports (internal/telemetrystore): a map *)
(* from the hash of a report to how often and when it was seen, limited in *)
(* size and age, and written to one file every FlushInterval by the        *)
(* flusher goroutine and once more by Close.                               *)
(*                                                                         *)
(* Record and maintain are critical sections of s.mu.  flush holds the     *)
(* lock only while it copies the reference of the map, and encodes the     *)
(* live map while Record changes it.  This data race has the outcomes a Go *)
(* program can show: an insertion or a deletion while the encoder iterates *)
(* over the map ends the process, or is seen, or is missed; a change of an *)
(* event while the encoder writes the values is seen or missed, each field *)
(* for itself.                                                             *)
(*                                                                         *)
(* The texts of a report are left out: its hash stands for them.           *)
(***************************************************************************)
EXTENDS Naturals, FiniteSets, Functions

CONSTANTS Hash,       \* hashes of reports
          MaxEvents,  \* s.maxEvents
          Retention,  \* s.retention
          MaxTime,    \* bound: the last time
          MaxRecords, \* bound: calls of Record
          MaxRestarts \* bound: restarts of the process

ASSUME LimitsAssumption == MaxEvents \in Nat \ {0} /\ Retention \in Nat /\ MaxTime \in Nat

Flusher == "flusher"   \* the flush goroutine
Closer  == "closer"    \* the goroutine that calls Close
Writer  == {Flusher, Closer}

VARIABLES
  events,   \* s.events: hash -> [born, count, last]; born tells apart the
            \*   objects a hash has had in the map
  disk,     \* the events of the file
  clock,    \* what nowFn returns
  phase,    \* phase[w]: where writer w is
  image,    \* image[w]: what w's encoder has read or refers to
  touched,  \* touched[w]: hashes recorded or dropped since w's flush began
  stopped,  \* s.stopCh is closed
  crashed,  \* the runtime has ended the process: concurrent map access
  records,  \* how often Record was called
  total,    \* total[h]: how often with hash h
  restarts

mapVars == <<events, image, touched, crashed>>
counts  == <<records, total, restarts>>
vars == <<mapVars, disk, clock, phase, stopped, counts>>

Empty == [h \in {} |-> 0]

-----------------------------------------------------------------------------
(* m without the hashes in S, and m with the event e stored under h.       *)
Without(m, S) == Restrict(m, DOMAIN m \ S)
With(m, h, e) == [k \in DOMAIN m \cup {h} |-> IF k = h THEN e ELSE m[k]]

(* purgeBeforeLocked(now - retention) drops these.                         *)
Expired(m, now) == {h \in DOMAIN m : m[h].last + Retention < now}

(* enforceCapLocked sorts by LastSeen and drops the first ones; the order  *)
(* of equal times is arbitrary.  The sets it may drop:                     *)
Excess(m) == IF Cardinality(DOMAIN m) > MaxEvents
             THEN Cardinality(DOMAIN m) - MaxEvents ELSE 0
Oldest(m) ==
  {E \in SUBSET DOMAIN m :
     /\ Cardinality(E) = Excess(m)
     /\ \A e \in E, k \in DOMAIN m \ E : m[e].last =< m[k].last}

-----------------------------------------------------------------------------
(* An encoder that iterates while the hashes in S are stored or dropped    *)
(* finds each of them as before or as in the new map m.                    *)
Mix(old, m, T) == [k \in (DOMAIN old \ T) \cup (T \cap DOMAIN m) |->
                     IF k \in T THEN m[k] ELSE old[k]]
SeenKeys(w, m, S) ==
  IF phase[w] = "iterate" THEN {Mix(image[w], m, T) : T \in SUBSET S}
                          ELSE {image[w]}

(* The map becomes m by storing or dropping the hashes in S.               *)
ChangeKeys(m, S) ==
  /\ events' = m
  /\ \E f \in SeenKeys(Flusher, m, S), c \in SeenKeys(Closer, m, S) :
       image' = [w \in Writer |-> IF w = Flusher THEN f ELSE c]
  /\ touched' = [w \in Writer |-> touched[w] \cup S]
  /\ crashed' \in IF S # {} /\ \E w \in Writer : phase[w] = "iterate"
                  THEN BOOLEAN ELSE {FALSE}

(* The object of h becomes e while encoders may refer to it.               *)
SeenEvent(w, h, e) ==
  LET refers == h \in DOMAIN image[w] /\ image[w][h].born = e.born
      old == image[w][h]
  IN  CASE refers /\ phase[w] = "iterate" -> {[image[w] EXCEPT ![h] = e]}
        [] refers /\ phase[w] = "encode" ->
             {[image[w] EXCEPT ![h] = [e EXCEPT !.count = c, !.last = t]] :
                c \in {old.count, e.count}, t \in {old.last, e.last}}
        [] OTHER -> {image[w]}

ChangeEvent(h, e) ==
  /\ events' = [events EXCEPT ![h] = e]
  /\ \E f \in SeenEvent(Flusher, h, e), c \in SeenEvent(Closer, h, e) :
       image' = [w \in Writer |-> IF w = Flusher THEN f ELSE c]
  /\ touched' = [w \in Writer |-> touched[w] \cup {h}]
  /\ UNCHANGED crashed

-----------------------------------------------------------------------------
Init ==
  /\ events = Empty
  /\ disk = Empty
  /\ clock = 0
  /\ phase = [w \in Writer |-> "idle"]
  /\ image = [w \in Writer |-> Empty]
  /\ touched = [w \in Writer |-> {}]
  /\ stopped = FALSE
  /\ crashed = FALSE
  /\ records = 0
  /\ total = [h \in Hash |-> 0]
  /\ restarts = 0

Tick ==
  /\ clock < MaxTime
  /\ clock' = clock + 1
  /\ UNCHANGED <<mapVars, disk, phase, stopped, counts>>

(* The event of a first report.                                            *)
NewEventCountsTwice(n) == [born |-> n, count |-> 2, last |-> clock]  \* slip
NewEvent(n) == [born |-> n, count |-> 1, last |-> clock]

(* Record: a report that is known is counted; a new one is stored and then *)
(* the cap is enforced.  Nothing refuses reports after Close.              *)
Record(h) ==
  /\ ~crashed
  /\ records < MaxRecords
  /\ records' = records + 1
  /\ total' = [total EXCEPT ![h] = @ + 1]
  /\ IF h \in DOMAIN events
       THEN ChangeEvent(h, [events[h] EXCEPT !.count = @ + 1, !.last = clock])
       ELSE LET m == With(events, h, NewEvent(records + 1))
            IN  \E E \in Oldest(m) : ChangeKeys(Without(m, E), E \cup {h})
  /\ UNCHANGED <<disk, clock, phase, stopped, restarts>>

(* The flusher's ticker fires: maintain.  When stopCh is closed as well,   *)
(* select may still choose the ticker.                                     *)
Maintain ==
  /\ ~crashed
  /\ phase[Flusher] = "idle"
  /\ phase' = [phase EXCEPT ![Flusher] = "begin"]
  /\ LET kept == Without(events, Expired(events, clock))
     IN  \E E \in Oldest(kept) :
           ChangeKeys(Without(kept, E), Expired(events, clock) \cup E)
  /\ UNCHANGED <<disk, clock, stopped, counts>>

(* Slip: the flusher returns when a flush fails.                           *)
FlushFailsExits(w) ==
  /\ ~crashed
  /\ phase[w] = "write"
  /\ phase' = [phase EXCEPT ![w] = IF w = Flusher THEN "exited" ELSE "failed"]
  /\ UNCHANGED <<mapVars, disk, clock, stopped, counts>>

(* flush takes the reference of the map and the encoder starts.            *)
FlushBegin(w) ==
  /\ ~crashed
  /\ phase[w] = "begin"
  /\ phase' = [phase EXCEPT ![w] = "iterate"]
  /\ image' = [image EXCEPT ![w] = events]
  /\ touched' = [touched EXCEPT ![w] = {}]
  /\ UNCHANGED <<events, crashed, disk, clock, stopped, counts>>

(* The encoder has iterated over the map and writes the values, sorted.    *)
FlushEncode(w) ==
  /\ ~crashed
  /\ phase[w] = "iterate"
  /\ phase' = [phase EXCEPT ![w] = "encode"]
  /\ UNCHANGED <<mapVars, disk, clock, stopped, counts>>

(* The text is complete and is written to the temporary file.              *)
FlushWrite(w) ==
  /\ ~crashed
  /\ phase[w] = "encode"
  /\ phase' = [phase EXCEPT ![w] = "write"]
  /\ UNCHANGED <<mapVars, disk, clock, stopped, counts>>

AfterFlush(w) == IF w = Flusher THEN "idle" ELSE "done"

(* The temporary file is renamed.                                          *)
FlushRename(w) ==
  /\ ~crashed
  /\ phase[w] = "write"
  /\ disk' = image[w]
  /\ phase' = [phase EXCEPT ![w] = AfterFlush(w)]
  /\ UNCHANGED <<mapVars, clock, stopped, counts>>

(* A write error: the flusher logs it and goes on, Close returns it.       *)
FlushFails(w) ==
  /\ ~crashed
  /\ phase[w] = "write"
  /\ phase' = [phase EXCEPT ![w] = IF w = Flusher THEN "idle" ELSE "failed"]
  /\ UNCHANGED <<mapVars, disk, clock, stopped, counts>>

(* Close stops the flusher ...                                             *)
CloseBegin ==
  /\ ~crashed
  /\ ~stopped
  /\ stopped' = TRUE
  /\ phase' = [phase EXCEPT ![Closer] = "wait"]
  /\ UNCHANGED <<mapVars, disk, clock, counts>>

FlusherExit ==
  /\ ~crashed
  /\ phase[Flusher] = "idle"
  /\ stopped
  /\ phase' = [phase EXCEPT ![Flusher] = "exited"]
  /\ UNCHANGED <<mapVars, disk, clock, stopped, counts>>

(* Slip: Close does not wait for the flusher.                              *)
CloseFlushAtOnce ==
  /\ ~crashed
  /\ phase[Closer] = "wait"
  /\ phase' = [phase EXCEPT ![Closer] = "begin"]
  /\ UNCHANGED <<mapVars, disk, clock, stopped, counts>>

(* ... waits until it has returned, and flushes itself.                    *)
CloseFlush ==
  /\ ~crashed
  /\ phase[Closer] = "wait"
  /\ phase[Flusher] = "exited"
  /\ phase' = [phase EXCEPT ![Closer] = "begin"]
  /\ UNCHANGED <<mapVars, disk, clock, stopped, counts>>

(* NewWithOptions: load, purge, cap.                                       *)
NewWithOptions(now) ==
  /\ clock' = now
  /\ LET kept == Without(disk, Expired(disk, now))
     IN  \E E \in Oldest(kept) : events' = Without(kept, E)

(* The process has ended, by Close and exit, killed or crashed, and starts *)
(* again; the wall clock may have been set to any other time.              *)
Restart(now) ==
  /\ restarts < MaxRestarts
  /\ restarts' = restarts + 1
  /\ NewWithOptions(now)
  /\ phase' = [w \in Writer |-> "idle"]
  /\ image' = [w \in Writer |-> Empty]
  /\ touched' = [w \in Writer |-> {}]
  /\ stopped' = FALSE
  /\ crashed' = FALSE
  /\ UNCHANGED <<disk, records, total>>

FlushStep(w) == \/ FlushBegin(w) \/ FlushEncode(w) \/ FlushWrite(w)
                \/ FlushRename(w) \/ FlushFails(w)
Next ==
  \/ Tick
  \/ \E h \in Hash : Record(h)
  \/ Maintain \/ FlusherExit \/ CloseBegin \/ CloseFlush
  \/ \E w \in Writer : FlushStep(w)
  \/ \E now \in 0..MaxTime : Restart(now)

Spec == Init /\ [][Next]_vars

(***************************************************************************)
(* Fairness: the ticker fires and the flusher runs; a write that is tried  *)
(* again and again succeeds.                                               *)
(***************************************************************************)
FairSpec ==
  /\ Spec
  /\ WF_vars(Maintain \/ FlushStep(Flusher))
  /\ SF_vars(FlushRename(Flusher))

-----------------------------------------------------------------------------
(***************************************************************************)
(* Nothing is counted twice: whatever a flush reads of a map that changes  *)
(* under it, and whatever is loaded after a crash, the count of an error,  *)
(* in memory and in the file, is at most the number of its reports.  And   *)
(* the map keeps its limit, after loads of torn and outdated files too.    *)
(***************************************************************************)
CountsHonest ==
  /\ \A h \in DOMAIN events : events[h].count =< total[h]
  /\ \A h \in DOMAIN disk : disk[h].count =< total[h]
  /\ Cardinality(DOMAIN events) =< MaxEvents

(***************************************************************************)
(* "flushes the dedup map to disk so a restart doesn't lose accumulated    *)
(* counts" (main.go): when Close has returned without an error, the file   *)
(* and the map agree on every hash that was not reported or dropped after  *)
(* Close began to write, and no late write of the flusher undoes it.       *)
(***************************************************************************)
SameAt(h, m1, m2) ==
  /\ h \in DOMAIN m1 <=> h \in DOMAIN m2
  /\ h \in DOMAIN m1 => m1[h] = m2[h]
CloseDurable ==
  (phase[Closer] = "done" /\ ~crashed) =>
    \A h \in Hash \ touched[Closer] : SameAt(h, disk, events)

(* A report that stays in the map gets to the file, unless the process     *)
(* ends before or is closed.                                               *)
EventuallyWritten ==
  \A h \in Hash :
    (h \in DOMAIN events /\ ~crashed /\ ~stopped) ~>
      (h \in DOMAIN disk \/ h \notin DOMAIN events \/ crashed \/ stopped)

(* The comment on Store: "Store is safe for concurrent use."               *)
ConcurrentUse == ~crashed
=============================================================================
