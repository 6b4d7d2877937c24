--------------------------- MODULE TelemetryProofs ---------------------------
(***************************************************************************)
(* Proofs about TelemetryStore, for any set of hashes, any limits and any  *)
(* number of reports and restarts: what is counted, what is kept, and what *)
(* Close leaves in the file.                                               *)
(***************************************************************************)
EXTENDS TelemetryStore, FiniteSetTheorems, TLAPS

(* A finite map of hashes to events.                                       *)
Event == [born : Nat, count : Nat, last : Nat]
IsMap(m) ==
  /\ DOMAIN m \in SUBSET Hash /\ IsFiniteSet(DOMAIN m)
  /\ m \in [DOMAIN m -> Event]

Phases == {"idle", "wait", "begin", "iterate", "encode", "write", "exited", "done", "failed"}
TypeOK ==
  /\ IsMap(events) /\ IsMap(disk) /\ \A w \in Writer : IsMap(image[w])
  /\ DOMAIN image = Writer /\ touched \in [Writer -> SUBSET Hash]
  /\ phase \in [Writer -> Phases] /\ clock \in Nat /\ records \in Nat
  /\ total \in [Hash -> Nat]

(***************************************************************************)
(* The inductive invariant.  No map counts more than was reported, the     *)
(* ones that encoders have read included (Honest), and the live one keeps  *)
(* its limit; Close writes only when the flusher has exited (Alone); what  *)
(* it is writing, and then the file, agrees with the map on what was not   *)
(* touched since (Agreed).                                                 *)
(***************************************************************************)
Honest(m) == \A h \in DOMAIN m : m[h].count =< total[h]
Counted ==
  /\ Honest(events) /\ Honest(disk) /\ \A w \in Writer : Honest(image[w])
  /\ Cardinality(DOMAIN events) =< MaxEvents
Alone == phase[Closer] \notin {"idle", "wait"} => phase[Flusher] = "exited"
Agreed ==
  /\ phase[Closer] \in {"iterate", "encode", "write"} =>
       \A h \in Hash \ touched[Closer] : SameAt(h, image[Closer], events)
  /\ phase[Closer] = "done" => \A h \in Hash \ touched[Closer] : SameAt(h, disk, events)
Inv == TypeOK /\ Counted /\ Alone /\ Agreed

(* The two writers are two.                                                *)
LEMMA Writers == Flusher \in Writer /\ Closer \in Writer /\ Flusher # Closer
  BY DEF Flusher, Closer, Writer

-----------------------------------------------------------------------------
(* A map without some hashes: smaller, and the same on the others.         *)
LEMMA WithoutMap ==
  ASSUME NEW m, IsMap(m), NEW S
  PROVE  /\ IsMap(Without(m, S)) /\ DOMAIN Without(m, S) = DOMAIN m \ S
         /\ \A h \in DOMAIN m \ S : Without(m, S)[h] = m[h]
         /\ Honest(m) => Honest(Without(m, S))
         /\ \A h : h \notin S => SameAt(h, m, Without(m, S))
<1>1. DOMAIN Without(m, S) = DOMAIN m \ S
      /\ \A h \in DOMAIN m \ S : Without(m, S)[h] = m[h]
  BY DEF Without, Restrict
<1>2. IsFiniteSet(DOMAIN m \ S)
  BY FS_Subset DEF IsMap
<1>3. IsMap(Without(m, S))
  BY <1>1, <1>2 DEF IsMap, Without, Restrict
<1> QED BY <1>1, <1>3 DEF Honest, SameAt

(* A map with the event of a first report.                                 *)
LEMMA WithMap ==
  ASSUME NEW m, IsMap(m), NEW h \in Hash, NEW e \in Event
  PROVE  /\ IsMap(With(m, h, e)) /\ DOMAIN With(m, h, e) = DOMAIN m \cup {h}
         /\ With(m, h, e)[h] = e
         /\ \A k \in DOMAIN m : k # h => With(m, h, e)[k] = m[k]
         /\ \A k : k # h => SameAt(k, m, With(m, h, e))
<1>1. /\ DOMAIN With(m, h, e) = DOMAIN m \cup {h} /\ With(m, h, e)[h] = e
      /\ \A k \in DOMAIN m : k # h => With(m, h, e)[k] = m[k]
  BY DEF With
<1>2. IsFiniteSet(DOMAIN m \cup {h})
  BY FS_AddElement DEF IsMap
<1>3. With(m, h, e) \in [DOMAIN m \cup {h} -> Event]
  BY DEF With, IsMap
<1>4. IsMap(With(m, h, e))
  BY <1>1, <1>2, <1>3 DEF IsMap
<1> QED BY <1>1, <1>4 DEF SameAt

(* enforceCapLocked brings a map within its limit.                         *)
LEMMA CapHolds ==
  ASSUME NEW m, IsMap(m), NEW E \in Oldest(m)
  PROVE  Cardinality(DOMAIN Without(m, E)) =< MaxEvents
<1>1. PICK D : D = DOMAIN m /\ IsFiniteSet(D)
  BY DEF IsMap
<1>2. E \in SUBSET D /\ Cardinality(E) = Excess(m)
  BY <1>1 DEF Oldest
<1>3. IsFiniteSet(E) /\ IsFiniteSet(D \ E) /\ D \cap E = E
  BY <1>1, <1>2, FS_Subset
<1>4. PICK c \in Nat : c = Cardinality(D)
  BY <1>1, FS_CardinalityType
<1>5. PICK x \in Nat : x = Cardinality(E)
  BY <1>3, FS_CardinalityType
<1>6. Cardinality(D \ E) = c - x
  <2>1. Cardinality(D \ E) = Cardinality(D) - Cardinality(D \cap E)
    BY <1>1, FS_Difference
  <2>2. Cardinality(D \cap E) = x
    BY <1>3, <1>5
  <2> QED BY <1>4, <2>1, <2>2
<1>7. x = IF c > MaxEvents THEN c - MaxEvents ELSE 0
  BY <1>1, <1>2, <1>4, <1>5 DEF Excess
<1>8. Cardinality(D \ E) =< MaxEvents
  BY <1>6, <1>7, LimitsAssumption
<1> QED BY <1>1, <1>8, WithoutMap

(* What an iterating encoder may find.                                     *)
LEMMA MixMap ==
  ASSUME NEW old, IsMap(old), NEW m, IsMap(m), NEW T
  PROVE  /\ IsMap(Mix(old, m, T))
         /\ Honest(old) /\ Honest(m) => Honest(Mix(old, m, T))
         /\ \A h : h \notin T => SameAt(h, old, Mix(old, m, T))
<1> DEFINE D == (DOMAIN old \ T) \cup (T \cap DOMAIN m)
<1>1. /\ DOMAIN Mix(old, m, T) = D
      /\ \A k \in D : Mix(old, m, T)[k] = IF k \in T THEN m[k] ELSE old[k]
  BY DEF Mix
<1>2. IsFiniteSet(D)
  <2>1. IsFiniteSet(DOMAIN old \ T) /\ IsFiniteSet(T \cap DOMAIN m)
    BY FS_Subset DEF IsMap
  <2> QED BY <2>1, FS_Union
<1>3. Mix(old, m, T) \in [D -> Event]
  BY DEF Mix, IsMap
<1>4. IsMap(Mix(old, m, T))
  BY <1>1, <1>2, <1>3 DEF IsMap
<1> QED BY <1>1, <1>4 DEF Honest, SameAt

-----------------------------------------------------------------------------
(* Keys come and go: what encoders find stays typed and honest, and what   *)
(* Close has read or written agrees with the map on what was not touched.  *)
LEMMA ChangeKeysKeeps ==
  ASSUME Inv, NEW m, NEW S \in SUBSET Hash, IsMap(m), ChangeKeys(m, S),
         \A h : h \notin S => SameAt(h, events, m),
         Honest(m)', \A h \in Hash : total[h] =< total'[h], total' \in [Hash -> Nat],
         Cardinality(DOMAIN m) =< MaxEvents,
         disk' = disk, phase'[Closer] = phase[Closer], phase' \in [Writer -> Phases],
         clock' \in Nat, records' \in Nat, Alone'
  PROVE  Inv'
<1>0. TypeOK /\ Counted /\ Agreed
  BY DEF Inv
<1>1. /\ events' = m /\ touched' = [w \in Writer |-> touched[w] \cup S]
      /\ DOMAIN image' = Writer
      /\ \A w \in Writer : image'[w] \in SeenKeys(w, m, S)
  BY Writers DEF ChangeKeys, Writer
<1>2. ASSUME NEW w \in Writer
      PROVE  /\ IsMap(image'[w]) /\ Honest(image[w])'
             /\ \A h : h \notin S => SameAt(h, image[w], image'[w])
  <2>0. IsMap(image[w]) /\ Honest(image[w])
    BY <1>0 DEF TypeOK, Counted
  <2>1. \A h \in DOMAIN image[w] : image[w][h].count =< total'[h]
    <3> SUFFICES ASSUME NEW h \in DOMAIN image[w] PROVE image[w][h].count =< total'[h]
      OBVIOUS
    <3>1. h \in Hash /\ image[w][h] \in Event
      BY <2>0 DEF IsMap
    <3>2. image[w][h].count \in Nat /\ total[h] \in Nat /\ total'[h] \in Nat
      BY <1>0, <3>1 DEF TypeOK, Event
    <3> QED BY <2>0, <3>1, <3>2 DEF Honest
  <2>2. CASE image'[w] = image[w]
    BY <2>0, <2>1, <2>2 DEF Honest, SameAt
  <2>3. CASE image'[w] # image[w]
    <3>1. PICK T \in SUBSET S : image'[w] = Mix(image[w], m, T)
      BY <1>1, <2>3 DEF SeenKeys
    <3>2. IsMap(image'[w]) /\ \A h : h \notin T => SameAt(h, image[w], image'[w])
      BY <2>0, <3>1, MixMap
    <3>3. Honest(image[w])'
      BY <2>1, <3>1 DEF Honest, Mix
    <3> QED BY <3>2, <3>3
  <2> QED BY <2>2, <2>3
<1>3. TypeOK'
  BY <1>0, <1>1, <1>2 DEF TypeOK
<1>4. Counted'
  <2>1. Honest(events)'
    BY <1>1 DEF Honest
  <2>2. Honest(disk)'
    <3> SUFFICES ASSUME NEW h \in DOMAIN disk PROVE disk[h].count =< total'[h]
      BY DEF Honest
    <3>1. h \in Hash /\ disk[h] \in Event
      BY <1>0 DEF TypeOK, IsMap
    <3>2. disk[h].count \in Nat /\ total[h] \in Nat /\ total'[h] \in Nat
      BY <1>0, <3>1 DEF TypeOK, Event
    <3> QED BY <1>0, <3>1, <3>2 DEF Counted, Honest
  <2> QED BY <1>1, <1>2, <2>1, <2>2 DEF Counted
<1>5. Agreed'
  <2>1. ASSUME NEW h \in Hash \ touched'[Closer]
        PROVE  h \notin touched[Closer] /\ SameAt(h, events, events')
               /\ SameAt(h, image[Closer], image'[Closer])
    BY <1>1, <1>2, Writers
  <2> QED BY <1>0, <2>1 DEF Agreed, SameAt
<1> QED BY <1>3, <1>4, <1>5 DEF Inv

(* The event of h changes while encoders may refer to it: each of its      *)
(* fields is found as before or as it is now.                              *)
LEMMA SeenEventIs ==
  ASSUME NEW w \in Writer, IsMap(image[w]), NEW h \in Hash, NEW e \in Event,
         NEW im, im \in SeenEvent(w, h, e), NEW tot, tot \in [Hash -> Nat],
         \A k \in DOMAIN image[w] : image[w][k].count =< tot[k], e.count =< tot[h]
  PROVE  /\ IsMap(im) /\ \A k \in DOMAIN im : im[k].count =< tot[k]
         /\ \A k : k # h => SameAt(k, image[w], im)
<1> DEFINE old == image[w][h]
<1>1. CASE im = image[w]
  BY <1>1 DEF SameAt
<1>2. CASE h \in DOMAIN image[w] /\ im = [image[w] EXCEPT ![h] = e]
  BY <1>2 DEF IsMap, SameAt
<1>3. ASSUME NEW c \in {old.count, e.count}, NEW u \in {old.last, e.last},
             h \in DOMAIN image[w], im = [image[w] EXCEPT ![h] = [e EXCEPT !.count = c, !.last = u]]
      PROVE  /\ IsMap(im) /\ \A k \in DOMAIN im : im[k].count =< tot[k]
             /\ \A k : k # h => SameAt(k, image[w], im)
  <2>1. old \in Event /\ old.count =< tot[h]
    BY <1>3 DEF IsMap
  <2>2. PICK x : x = [e EXCEPT !.count = c, !.last = u]
    OBVIOUS
  <2>3. x \in Event /\ x.count =< tot[h]
    BY <2>1, <2>2 DEF Event
  <2>4. im = [image[w] EXCEPT ![h] = x]
    BY <1>3, <2>2
  <2> QED BY <1>3, <2>3, <2>4 DEF IsMap, SameAt
<1>4. \/ im = image[w]
      \/ h \in DOMAIN image[w] /\ im = [image[w] EXCEPT ![h] = e]
      \/ /\ h \in DOMAIN image[w]
         /\ \E c \in {old.count, e.count}, u \in {old.last, e.last} :
              im = [image[w] EXCEPT ![h] = [e EXCEPT !.count = c, !.last = u]]
  <2>1. CASE h \in DOMAIN image[w] /\ image[w][h].born = e.born /\ phase[w] = "iterate"
    BY <2>1 DEF SeenEvent
  <2>2. CASE h \in DOMAIN image[w] /\ image[w][h].born = e.born /\ phase[w] = "encode"
    BY <2>2 DEF SeenEvent
  <2>3. CASE ~(h \in DOMAIN image[w] /\ image[w][h].born = e.born)
             \/ phase[w] \notin {"iterate", "encode"}
    BY <2>3 DEF SeenEvent
  <2> QED BY <2>1, <2>2, <2>3
<1> QED BY <1>1, <1>2, <1>3, <1>4

-----------------------------------------------------------------------------
(* A report is counted or stored.                                          *)
LEMMA RecordInv ==
  ASSUME Inv, NEW h \in Hash, Record(h)
  PROVE  Inv'
<1>0. TypeOK /\ Counted /\ Alone /\ Agreed
  BY DEF Inv
<1>1. /\ records' = records + 1 /\ total' = [total EXCEPT ![h] = total[h] + 1]
      /\ UNCHANGED <<disk, clock, phase>>
  BY DEF Record
<1>2. /\ total' \in [Hash -> Nat] /\ records' \in Nat
      /\ \A k \in Hash : total[k] =< total'[k]
  BY <1>0, <1>1 DEF TypeOK
<1>2a. ASSUME NEW m, IsMap(m), Honest(m) PROVE \A k \in DOMAIN m : m[k].count =< total'[k]
  <2> SUFFICES ASSUME NEW k \in DOMAIN m PROVE m[k].count =< total'[k]
    OBVIOUS
  <2>1. k \in Hash /\ m[k] \in Event
    BY <1>2a DEF IsMap
  <2>2. m[k].count \in Nat /\ total[k] \in Nat /\ total'[k] \in Nat
    BY <1>0, <1>2, <2>1 DEF TypeOK, Event
  <2> QED BY <1>2, <1>2a, <2>1, <2>2 DEF Honest
<1>3. CASE h \in DOMAIN events
  <2>1. PICK e : e = [events[h] EXCEPT !.count = events[h].count + 1, !.last = clock]
    OBVIOUS
  <2>2. events[h] \in Event /\ events[h].count =< total[h]
    BY <1>0, <1>3 DEF TypeOK, IsMap, Counted, Honest
  <2>3. e \in Event /\ e.count =< total'[h]
    <3>1. events[h].count \in Nat /\ total[h] \in Nat /\ total'[h] = total[h] + 1
      BY <1>0, <1>1, <2>2 DEF TypeOK, Event
    <3>2. e.count = events[h].count + 1
      BY <2>1, <2>2 DEF Event
    <3>3. e \in Event
      <4>1. e = [born |-> events[h].born, count |-> events[h].count + 1, last |-> clock]
        BY <2>1, <2>2 DEF Event
      <4>2. events[h].born \in Nat /\ events[h].count + 1 \in Nat /\ clock \in Nat
        BY <1>0, <2>2, <3>1 DEF Event, TypeOK
      <4> QED BY <4>1, <4>2 DEF Event
    <3>4. e.count =< total'[h]
      BY <2>2, <3>1, <3>2
    <3> QED BY <3>3, <3>4
  <2>4. ChangeEvent(h, e)
    BY <1>3, <2>1 DEF Record
  <2>5. /\ events' = [events EXCEPT ![h] = e]
        /\ touched' = [w \in Writer |-> touched[w] \cup {h}]
        /\ DOMAIN image' = Writer /\ \A w \in Writer : image'[w] \in SeenEvent(w, h, e)
    BY <2>4, Writers DEF ChangeEvent, Writer
  <2>6. ASSUME NEW w \in Writer
        PROVE  /\ IsMap(image'[w]) /\ \A k \in DOMAIN image'[w] : image'[w][k].count =< total'[k]
               /\ \A k : k # h => SameAt(k, image[w], image'[w])
    <3>1. IsMap(image[w]) /\ \A k \in DOMAIN image[w] : image[w][k].count =< total'[k]
      BY <1>0, <1>2a DEF TypeOK, Counted
    <3> QED BY <1>2, <2>3, <2>5, <3>1, SeenEventIs
  <2>7. IsMap(events') /\ DOMAIN events' = DOMAIN events
    BY <1>0, <1>3, <2>3, <2>5 DEF TypeOK, IsMap
  <2>8. TypeOK'
    BY <1>0, <1>1, <1>2, <2>5, <2>6, <2>7 DEF TypeOK
  <2>9. Counted'
    <3>1. \A k \in DOMAIN events' : events'[k].count =< total'[k]
      BY <1>0, <1>2a, <1>3, <2>3, <2>5, <2>7 DEF TypeOK, Counted
    <3>2. \A k \in DOMAIN disk' : disk'[k].count =< total'[k]
      BY <1>0, <1>1, <1>2a DEF TypeOK, Counted
    <3> QED BY <1>0, <2>6, <2>7, <3>1, <3>2 DEF Counted, Honest
  <2>10. Agreed'
    <3>1. ASSUME NEW k \in Hash \ touched'[Closer]
          PROVE  k \notin touched[Closer] /\ SameAt(k, events, events')
                 /\ SameAt(k, image[Closer], image'[Closer])
      <4>1. k # h /\ k \notin touched[Closer]
        BY <2>5, Writers
      <4> QED BY <2>5, <2>6, <4>1, Writers DEF SameAt
    <3> QED BY <1>0, <1>1, <3>1 DEF Agreed, SameAt
  <2> QED BY <1>0, <1>1, <2>8, <2>9, <2>10 DEF Inv, Alone
<1>4. CASE h \notin DOMAIN events
  <2>1. PICK e : e = NewEvent(records + 1)
    OBVIOUS
  <2>2. e \in Event /\ e.count = 1
    BY <1>0, <2>1 DEF NewEvent, Event, TypeOK
  <2>3. PICK m : m = With(events, h, e)
    OBVIOUS
  <2>4. PICK E \in Oldest(m) : ChangeKeys(Without(m, E), E \cup {h})
    BY <1>4, <2>1, <2>3 DEF Record
  <2>5. /\ IsMap(m) /\ DOMAIN m = DOMAIN events \cup {h} /\ m[h] = e
        /\ \A k \in DOMAIN events : k # h => m[k] = events[k]
        /\ \A k : k # h => SameAt(k, events, m)
    <3>1. IsMap(events)
      BY <1>0 DEF TypeOK
    <3> HIDE <2>3
    <3>2. /\ IsMap(With(events, h, e)) /\ DOMAIN With(events, h, e) = DOMAIN events \cup {h}
          /\ With(events, h, e)[h] = e
          /\ \A k \in DOMAIN events : k # h => With(events, h, e)[k] = events[k]
          /\ \A k : k # h => SameAt(k, events, With(events, h, e))
      BY <2>2, <3>1, WithMap
    <3> QED BY <2>3, <3>2
  <2>6. PICK n : n = Without(m, E)
    OBVIOUS
  <2>7. /\ IsMap(n) /\ DOMAIN n = DOMAIN m \ E /\ \A k \in DOMAIN m \ E : n[k] = m[k]
        /\ \A k : k \notin E => SameAt(k, m, n)
    BY <2>5, <2>6, WithoutMap
  <2>8. Cardinality(DOMAIN n) =< MaxEvents
    BY <2>5, <2>6, CapHolds
  <2>9. \A k \in DOMAIN n : n[k].count =< total'[k]
    <3>1. \A k \in DOMAIN events : events[k].count =< total'[k]
      BY <1>0, <1>2a DEF TypeOK, Counted
    <3>2. 1 =< total'[h]
      BY <1>0, <1>1 DEF TypeOK
    <3> QED BY <2>2, <2>5, <2>7, <3>1, <3>2
  <2>10. E \cup {h} \in SUBSET Hash
    BY <2>5 DEF Oldest, IsMap
  <2>11. \A k : k \notin E \cup {h} => SameAt(k, events, n)
    BY <2>5, <2>7 DEF SameAt
  <2>12. Honest(n)'
    BY <2>9 DEF Honest
  <2>13. PICK S : S = E \cup {h}
    OBVIOUS
  <2>14. ChangeKeys(n, S)
    BY <2>4, <2>6, <2>13
  <2> QED BY <1>0, <1>1, <1>2, <2>7, <2>8, <2>10, <2>11, <2>12, <2>13, <2>14, ChangeKeysKeeps
       DEF TypeOK, Alone
<1> QED BY <1>3, <1>4

(* Load or maintenance: the expired events go, then the cap is enforced.   *)
LEMMA PurgedMap ==
  ASSUME NEW m, IsMap(m), NEW now, NEW E \in Oldest(Without(m, Expired(m, now))),
         NEW n, n = Without(Without(m, Expired(m, now)), E)
  PROVE  /\ IsMap(n) /\ Cardinality(DOMAIN n) =< MaxEvents
         /\ Honest(m) => Honest(n)
         /\ Expired(m, now) \cup E \in SUBSET Hash
         /\ \A h : h \notin Expired(m, now) \cup E => SameAt(h, m, n)
<1>1. PICK X : X = Expired(m, now) /\ X \in SUBSET Hash
  BY DEF Expired, IsMap
<1>2. PICK k : k = Without(m, X)
  OBVIOUS
<1>3. /\ IsMap(k) /\ (Honest(m) => Honest(k)) /\ \A h : h \notin X => SameAt(h, m, k)
  BY <1>2, WithoutMap
<1>4. E \in Oldest(k) /\ n = Without(k, E)
  BY <1>1, <1>2
<1>5. /\ IsMap(n) /\ (Honest(k) => Honest(n)) /\ \A h : h \notin E => SameAt(h, k, n)
  <2>1. IsMap(k)
    BY <1>3
  <2>2. n = Without(k, E)
    BY <1>4
  <2>3. /\ IsMap(Without(k, E)) /\ (Honest(k) => Honest(Without(k, E)))
        /\ \A h : h \notin E => SameAt(h, k, Without(k, E))
    BY <2>1, WithoutMap
  <2> QED BY <2>2, <2>3
<1>6. Cardinality(DOMAIN n) =< MaxEvents
  BY <1>3, <1>4, CapHolds
<1>7. E \in SUBSET Hash
  BY <1>3, <1>4 DEF Oldest, IsMap
<1> QED BY <1>1, <1>3, <1>5, <1>6, <1>7 DEF SameAt

(* The flusher drops what is old.                                          *)
LEMMA MaintainInv ==
  ASSUME Inv, Maintain
  PROVE  Inv'
<1>0. TypeOK /\ Counted /\ Alone
  BY DEF Inv
<1>1. PICK X : X = Expired(events, clock)
  OBVIOUS
<1>2. PICK E \in Oldest(Without(events, X)) : ChangeKeys(Without(Without(events, X), E), X \cup E)
  BY <1>1 DEF Maintain
<1>3. PICK n : n = Without(Without(events, X), E)
  OBVIOUS
<1>4. IsMap(events) /\ Honest(events)
  BY <1>0 DEF TypeOK, Counted
<1>5. /\ IsMap(n) /\ Cardinality(DOMAIN n) =< MaxEvents /\ Honest(n)
      /\ X \cup E \in SUBSET Hash
      /\ \A h : h \notin X \cup E => SameAt(h, events, n)
  BY <1>1, <1>2, <1>3, <1>4, PurgedMap
<1>6. PICK S : S = X \cup E
  OBVIOUS
<1>7. ChangeKeys(n, S)
  BY <1>2, <1>3, <1>6
<1>8. /\ phase' = [phase EXCEPT ![Flusher] = "begin"] /\ phase[Flusher] = "idle"
      /\ disk' = disk /\ clock' = clock /\ total' = total /\ records' = records
  BY DEF Maintain, counts
<1>9. Honest(n)' /\ (\A h \in Hash : total[h] =< total'[h]) /\ total' \in [Hash -> Nat]
  BY <1>0, <1>5, <1>8 DEF Honest, TypeOK
<1>10. /\ phase'[Closer] = phase[Closer] /\ phase' \in [Writer -> Phases]
       /\ clock' \in Nat /\ records' \in Nat /\ Alone'
  BY <1>0, <1>8, Writers DEF TypeOK, Phases, Alone
<1> QED BY <1>5, <1>6, <1>7, <1>8, <1>9, <1>10, ChangeKeysKeeps

(* Writers move on; the maps stay as they are.                             *)
LEMMA FlushInv ==
  ASSUME Inv, NEW w \in Writer, FlushStep(w)
  PROVE  Inv'
<1>0. TypeOK /\ Counted /\ Alone /\ Agreed
  BY DEF Inv
<1>1. phase[w] \in {"begin", "iterate", "encode", "write"} /\ w = Flusher =>
        phase[Closer] \in {"idle", "wait"}
  BY <1>0 DEF Alone
<1>2. CASE FlushBegin(w)
  <2>1. /\ phase[w] = "begin" /\ phase' = [phase EXCEPT ![w] = "iterate"]
        /\ image' = [image EXCEPT ![w] = events] /\ touched' = [touched EXCEPT ![w] = {}]
        /\ UNCHANGED <<events, disk, clock, total, records>>
    BY <1>2 DEF FlushBegin, counts
  <2>2. TypeOK'
    BY <1>0, <2>1 DEF TypeOK, Phases
  <2>3. Counted'
    BY <1>0, <2>1 DEF TypeOK, Counted, Honest
  <2>4. Alone'
    BY <1>0, <1>1, <2>1, Writers DEF Alone, TypeOK, Writer
  <2>5. Agreed'
    <3>1. CASE w = Closer
      BY <1>0, <2>1, <3>1, Writers DEF Agreed, TypeOK, SameAt
    <3>2. CASE w # Closer
      BY <1>0, <2>1, <3>2, Writers DEF Agreed, TypeOK, SameAt
    <3> QED BY <3>1, <3>2
  <2> QED BY <2>2, <2>3, <2>4, <2>5 DEF Inv
<1>3. CASE FlushEncode(w) \/ FlushWrite(w) \/ FlushFails(w)
  <2>1. PICK p \in Phases : /\ phase' = [phase EXCEPT ![w] = p]
                            /\ phase[w] \in {"iterate", "encode", "write"}
                            /\ \/ p \in {"encode", "write"}
                               \/ p = IF w = Flusher THEN "idle" ELSE "failed"
    BY <1>3 DEF FlushEncode, FlushWrite, FlushFails, Phases
  <2>2. UNCHANGED <<events, image, touched, disk, clock, total, records>>
    BY <1>3 DEF FlushEncode, FlushWrite, FlushFails, mapVars, counts
  <2>3. TypeOK' /\ Counted'
    BY <1>0, <2>1, <2>2 DEF TypeOK, Counted, Honest
  <2>4. Alone' /\ Agreed'
    BY <1>0, <1>1, <2>1, <2>2, Writers DEF Alone, Agreed, TypeOK, SameAt, Writer
  <2> QED BY <2>3, <2>4 DEF Inv
<1>4. CASE FlushRename(w)
  <2>1. /\ phase' = [phase EXCEPT ![w] = AfterFlush(w)] /\ phase[w] = "write" /\ disk' = image[w]
        /\ UNCHANGED <<events, image, touched, clock, total, records>>
    BY <1>4 DEF FlushRename, mapVars, counts
  <2>2. AfterFlush(w) \in Phases /\ AfterFlush(w) = IF w = Flusher THEN "idle" ELSE "done"
    BY DEF AfterFlush, Phases
  <2>3. TypeOK' /\ Counted'
    BY <1>0, <2>1, <2>2 DEF TypeOK, Counted, Honest
  <2>4. Alone'
    BY <1>0, <1>1, <2>1, <2>2, Writers DEF Alone, TypeOK, Writer
  <2>5. Agreed'
    <3>1. CASE w = Closer
      BY <1>0, <2>1, <2>2, <3>1, Writers DEF Agreed, TypeOK, SameAt
    <3>2. CASE w # Closer
      <4>1. w = Flusher /\ phase[Closer] \in {"idle", "wait"}
        BY <1>0, <1>1, <2>1, <3>2 DEF Writer
      <4> QED BY <1>0, <2>1, <2>2, <4>1, Writers DEF Agreed, TypeOK
    <3> QED BY <3>1, <3>2
  <2> QED BY <2>3, <2>4, <2>5 DEF Inv
<1> QED BY <1>2, <1>3, <1>4 DEF FlushStep

(* Close and the end of the flusher.                                       *)
LEMMA CloseInv ==
  ASSUME Inv, CloseBegin \/ FlusherExit \/ CloseFlush
  PROVE  Inv'
<1>0. TypeOK /\ Counted /\ Alone /\ Agreed
  BY DEF Inv
<1>1. UNCHANGED <<events, image, touched, disk, clock, total, records>>
  BY DEF CloseBegin, FlusherExit, CloseFlush, mapVars, counts
<1>2. TypeOK' /\ Counted'
  <2>1. phase' \in [Writer -> Phases]
    BY <1>0 DEF CloseBegin, FlusherExit, CloseFlush, TypeOK, Phases
  <2> QED BY <1>0, <1>1, <2>1 DEF TypeOK, Counted, Honest
<1>3. Alone' /\ Agreed'
  BY <1>0, <1>1, Writers
     DEF CloseBegin, FlusherExit, CloseFlush, Alone, Agreed, TypeOK, SameAt
<1> QED BY <1>2, <1>3 DEF Inv

(* A process that starts again has what the file had, purged and capped.   *)
LEMMA RestartInv ==
  ASSUME Inv, NEW now \in 0..MaxTime, Restart(now)
  PROVE  Inv'
<1>0. TypeOK /\ Counted
  BY DEF Inv
<1>1. PICK X : X = Expired(disk, now)
  OBVIOUS
<1>2. PICK E \in Oldest(Without(disk, X)) : events' = Without(Without(disk, X), E)
  BY <1>1 DEF Restart, NewWithOptions
<1>3. IsMap(disk) /\ Honest(disk)
  BY <1>0 DEF TypeOK, Counted
<1>4. PICK n : n = Without(Without(disk, X), E)
  OBVIOUS
<1>5. IsMap(n) /\ Cardinality(DOMAIN n) =< MaxEvents /\ Honest(n)
  BY <1>1, <1>2, <1>3, <1>4, PurgedMap
<1>6. /\ disk' = disk /\ records' = records /\ total' = total /\ clock' = now
      /\ phase' = [w \in Writer |-> "idle"] /\ image' = [w \in Writer |-> Empty]
      /\ touched' = [w \in Writer |-> {}]
  BY DEF Restart, NewWithOptions
<1>7. IsMap(Empty) /\ DOMAIN Empty = {}
  BY FS_EmptySet DEF Empty, IsMap
<1>8. TypeOK'
  BY <1>0, <1>2, <1>4, <1>5, <1>6, <1>7, LimitsAssumption DEF TypeOK, Phases
<1>9. Counted'
  BY <1>0, <1>2, <1>4, <1>5, <1>6, <1>7 DEF Counted, Honest
<1>10. Alone' /\ Agreed'
  BY <1>6, Writers DEF Alone, Agreed
<1> QED BY <1>8, <1>9, <1>10 DEF Inv

-----------------------------------------------------------------------------
(* The invariant holds in every reachable state.                           *)
LEMMA InvHolds == Spec => []Inv
<1>1. Init => Inv
  <2> SUFFICES ASSUME Init PROVE Inv
    OBVIOUS
  <2>1. IsMap(Empty) /\ DOMAIN Empty = {}
    BY FS_EmptySet DEF Empty, IsMap
  <2>2. TypeOK
    BY <2>1 DEF Init, TypeOK, Phases
  <2>3. Counted
    BY <2>1, FS_EmptySet, LimitsAssumption DEF Init, Counted, Honest
  <2>4. Alone /\ Agreed
    BY Writers DEF Init, Alone, Agreed
  <2> QED BY <2>2, <2>3, <2>4 DEF Inv
<1>2. ASSUME Inv, [Next]_vars PROVE Inv'
  <2>1. CASE Tick
    BY <1>2, <2>1 DEF Tick, mapVars, counts, Inv, TypeOK, Counted, Honest, Alone, Agreed, SameAt
  <2>2. CASE UNCHANGED vars
    BY <1>2, <2>2 DEF vars, mapVars, counts, Inv, TypeOK, Counted, Honest, Alone, Agreed, SameAt
  <2>3. CASE \E h \in Hash : Record(h)
    BY <1>2, <2>3, RecordInv
  <2>4. CASE Maintain
    BY <1>2, <2>4, MaintainInv
  <2>5. CASE FlusherExit \/ CloseBegin \/ CloseFlush
    BY <1>2, <2>5, CloseInv
  <2>6. CASE \E w \in Writer : FlushStep(w)
    BY <1>2, <2>6, FlushInv
  <2>7. CASE \E now \in 0..MaxTime : Restart(now)
    BY <1>2, <2>7, RestartInv
  <2> QED BY <1>2, <2>1, <2>2, <2>3, <2>4, <2>5, <2>6, <2>7 DEF Next
<1> QED BY <1>1, <1>2, PTL DEF Spec

(* Whatever a flush reads of a map that Record changes under it (flush,    *)
(* store.go:296), and whatever a process loads after a crash, no error is  *)
(* counted more often than it was reported, and the map keeps its limit.   *)
THEOREM TelemetryCountsHonest == Spec => []CountsHonest
<1>1. Inv => CountsHonest
  BY DEF Inv, Counted, Honest, CountsHonest
<1> QED BY <1>1, InvHolds, PTL

(* When Close has returned without an error the file has what the map has, *)
(* but for what was reported or dropped since Close began to write: no     *)
(* late write of the flusher, for which Close waits, undoes it.            *)
THEOREM TelemetryCloseDurable == Spec => []CloseDurable
<1>1. Inv => CloseDurable
  BY DEF Inv, Agreed, CloseDurable
<1> QED BY <1>1, InvHolds, PTL
=============================================================================
