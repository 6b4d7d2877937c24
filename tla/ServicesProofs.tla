--------------------------- MODULE ServicesProofs ---------------------------
(***************************************************************************)
(* Proofs about four of the small objects around the handlers: the rate    *)
(* limiter (RateLimit), the logs and the end of the process (Shutdown),    *)
(* the collector (Collector) and the connection manager (ConnManager).     *)
(* They share no state.                                                    *)
(***************************************************************************)
EXTENDS RateLimit, Shutdown, Collector, ConnManager, ListLemmas

-----------------------------------------------------------------------------
(***************************************************************************)
(* The window bound of the rate limiter, for any number of requests and    *)
(* buckets and any capacity, rate and times.                               *)
(*                                                                         *)
(* The argument.  tokens - Rate * last is what a bucket would hold at time *)
(* 0; a take moves last to any time and refills accordingly, which leaves  *)
(* it as it is, or lowers it when the refill is capped.  A token granted   *)
(* lowers it by Token.  So from the first grant in a window on, the grants *)
(* of the window are paid out of what the bucket held then, which was at   *)
(* most Capacity by the beginning of the window (Spent).  Right after a    *)
(* grant the bucket is not in debt at a time of the window, and this       *)
(* bounds their number (WindowBound).                                      *)
(***************************************************************************)
(* No time that is stored is later than the clock.                         *)
Past == /\ \A k \in Bucket : last[k] =< clock
        /\ \A r \in Request : now[r] =< clock

(* A bucket that does not exist has granted nothing.                       *)
Unused ==
  /\ \A k \in Bucket : ~exists[k] => /\ tokens[k] = 0 /\ last[k] = 0
                                     /\ \A w \in Window : granted[k][w] = 0
  /\ \A r \in Request : pc[r] = "take" => exists[key[r]]

(* What a window has been granted was in the bucket when it began.         *)
Spent ==
  \A k \in Bucket, w \in Window :
    granted[k][w] > 0 =>
      Token * granted[k][w] + tokens[k] - Rate * last[k] + Rate * w[1] =< Capacity

LimitInv == LimitTypeOK /\ Past /\ Unused /\ Spent /\ NoDebt /\ WindowBound

-----------------------------------------------------------------------------
(* A product distributes over a difference.                                *)
LEMMA Distribute ==
  ASSUME NEW a \in Int, NEW b \in Int, NEW c \in Int
  PROVE  c * (a - b) = c * a - c * b /\ (a - b) * c = c * a - c * b
  OBVIOUS

(* One more grant costs one more token.                                    *)
LEMMA OneMore ==
  ASSUME NEW a \in Int, NEW c \in Int
  PROVE  c * (a + 1) = c * a + c
  OBVIOUS

(* Multiplying by a natural number keeps the order.                        *)
LEMMA Monotone ==
  ASSUME NEW a \in Int, NEW b \in Int, NEW c \in Nat, a =< b
  PROVE  c * a =< c * b
  OBVIOUS

(* Products of integers are integers.                                      *)
LEMMA ProductType ==
  ASSUME NEW a \in Int, NEW b \in Int
  PROVE  a * b \in Int
  OBVIOUS

(* Times are integers, and a window is a pair of times.                    *)
LEMMA WindowType ==
  ASSUME NEW w \in Window
  PROVE  w[1] \in Int /\ w[2] \in Int /\ w[1] =< w[2]
  BY MaxTimeAssumption DEF Window, Time

(* A time is a natural number.                                             *)
LEMMA TimeType == \A t \in Time : t \in Int /\ 0 =< t
  BY MaxTimeAssumption DEF Time

-----------------------------------------------------------------------------
(* What Refilled returns: at most the capacity, at most the refilled sum,  *)
(* and one of the two.                                                     *)
LEMMA RefilledType ==
  ASSUME LimitTypeOK, NEW k \in Bucket, NEW t \in Time
  PROVE  /\ Refilled(k, t) \in Int
         /\ Refilled(k, t) =< Capacity
         /\ Refilled(k, t) =< tokens[k] + Rate * t - Rate * last[k]
         /\ \/ Refilled(k, t) = Capacity
            \/ Refilled(k, t) = tokens[k] + Rate * t - Rate * last[k]
<1>1. tokens[k] \in Int /\ last[k] \in Int /\ t \in Int
  BY TimeType DEF LimitTypeOK
<1>2. (t - last[k]) * Rate = Rate * t - Rate * last[k]
  BY <1>1, Distribute, PartsAssumption
<1>3. Rate * t \in Int /\ Rate * last[k] \in Int
  BY <1>1, ProductType, PartsAssumption
<1> QED  BY <1>1, <1>2, <1>3, PartsAssumption DEF Refilled

(* The initial state satisfies the invariant.                              *)
LEMMA LimitInvInit == LimitInit => LimitInv
<1> SUFFICES ASSUME LimitInit PROVE LimitInv  OBVIOUS
<1>1. LimitTypeOK
  BY TimeType, MaxTimeAssumption DEF LimitInit, LimitTypeOK, Time
<1>2. Past /\ Unused
  BY <1>1 DEF LimitInit, Past, Unused
<1>3. Spent
  BY DEF LimitInit, Spent
<1>4. NoDebt
  BY PartsAssumption DEF LimitInit, NoDebt
<1>5. WindowBound
  <2> SUFFICES ASSUME NEW k \in Bucket, NEW w \in Window
               PROVE  Token * granted[k][w] =< Capacity + Rate * (w[2] - w[1])
    BY DEF WindowBound
  <2>1. Token * granted[k][w] = 0  BY PartsAssumption DEF LimitInit
  <2>2. w[2] - w[1] \in Int /\ 0 =< w[2] - w[1]  BY WindowType
  <2>3. Rate * 0 =< Rate * (w[2] - w[1])  BY <2>2, Monotone, PartsAssumption
  <2>4. Rate * (w[2] - w[1]) \in Int  BY <2>2, ProductType, PartsAssumption
  <2> QED  BY <2>1, <2>3, <2>4, PartsAssumption
<1> QED  BY <1>1, <1>2, <1>3, <1>4, <1>5 DEF LimitInv

-----------------------------------------------------------------------------
(* A take that finds a token.  The grant is paid from the bucket.          *)
LEMMA TakeGrantedInv ==
  ASSUME LimitInv, NEW r \in Request, TakeGranted(r)
  PROVE  LimitInv'
<1> DEFINE k == key[r]
           t == now[r]
           f == Refilled(k, t)
<1> USE PartsAssumption
<1>1. LimitTypeOK /\ Past /\ Unused /\ Spent /\ NoDebt /\ WindowBound
  BY DEF LimitInv
<1>2. k \in Bucket /\ t \in Time /\ t \in Int /\ clock \in Int /\ t =< clock /\ exists[k]
  BY <1>1, TimeType DEF LimitTypeOK, Past, Unused, TakeGranted
<1>3. /\ f \in Int /\ f =< Capacity /\ Token =< f
      /\ f =< tokens[k] + Rate * t - Rate * last[k]
  <2>1. f \in Int /\ f =< Capacity /\ f =< tokens[k] + Rate * t - Rate * last[k]
    BY <1>1, <1>2, RefilledType
  <2>2. f >= Token  BY DEF TakeGranted
  <2> QED  BY <2>1, <2>2
<1>4. /\ tokens' = [tokens EXCEPT ![k] = f - Token]
      /\ last' = [last EXCEPT ![k] = t]
      /\ granted' = [granted EXCEPT ![k] =
           [w \in Window |-> IF In(t, w) THEN granted[k][w] + 1 ELSE granted[k][w]]]
      /\ pc' = [pc EXCEPT ![r] = "idle"]
      /\ UNCHANGED <<clock, exists, key, now>>
  BY <1>1, <1>2 DEF TakeGranted, LimitTypeOK
<1> HIDE DEF k, t, f
<1>5. tokens'[k] = f - Token /\ last'[k] = t
  BY <1>1, <1>2, <1>4 DEF LimitTypeOK
<1>6. \A w \in Window :
        /\ granted[k][w] \in Nat
        /\ granted'[k][w] = IF In(t, w) THEN granted[k][w] + 1 ELSE granted[k][w]
  BY <1>1, <1>2, <1>4 DEF LimitTypeOK
<1>7. \A b \in Bucket : b # k => /\ tokens'[b] = tokens[b] /\ last'[b] = last[b]
                                 /\ granted'[b] = granted[b]
  BY <1>1, <1>4 DEF LimitTypeOK
<1>8. LimitTypeOK'
  <2>1. granted' \in [Bucket -> [Window -> Nat]]
    BY <1>1, <1>2, <1>4 DEF LimitTypeOK
  <2>2. tokens' \in [Bucket -> Int] /\ last' \in [Bucket -> Time]
    BY <1>1, <1>2, <1>3, <1>4 DEF LimitTypeOK
  <2> QED  BY <1>1, <1>4, <2>1, <2>2 DEF LimitTypeOK
<1>9. Past'
  BY <1>1, <1>2, <1>4, <1>5, <1>7 DEF Past
<1>10. Unused'
  <2>1. \A q \in Request : pc'[q] = "take" => pc[q] = "take"
    BY <1>1, <1>4 DEF LimitTypeOK
  <2> QED  BY <1>1, <1>2, <1>4, <1>7, <2>1 DEF Unused
<1>11. NoDebt'
  <2> SUFFICES ASSUME NEW b \in Bucket
               PROVE  tokens'[b] + (clock' - last'[b]) * Rate >= 0
    BY DEF NoDebt
  <2>1. CASE b # k  BY <1>1, <1>4, <1>7, <2>1 DEF NoDebt
  <2>2. CASE b = k
    <3>1. 0 =< clock - t /\ clock - t \in Int  BY <1>2
    <3>2. Rate * 0 =< Rate * (clock - t)  BY <3>1, Monotone
    <3>3. (clock - t) * Rate = Rate * (clock - t) /\ Rate * (clock - t) \in Int
      BY <3>1
    <3> QED  BY <1>3, <1>4, <1>5, <2>2, <3>2, <3>3
  <2> QED  BY <2>1, <2>2
<1>12. ASSUME NEW w \in Window
       PROVE  /\ granted'[k][w] > 0 =>
                   Token * granted'[k][w] + tokens'[k] - Rate * last'[k] + Rate * w[1]
                     =< Capacity
              /\ Token * granted'[k][w] =< Capacity + Rate * (w[2] - w[1])
  <2> DEFINE g == granted[k][w]
  <2>1. w[1] \in Int /\ w[2] \in Int /\ w[1] =< w[2]
    BY WindowType
  <2>2. g \in Nat /\ tokens[k] \in Int /\ last[k] \in Int
    BY <1>1, <1>2, <1>6, TimeType DEF LimitTypeOK
  <2>3. /\ Token * g \in Int /\ Rate * t \in Int /\ Rate * last[k] \in Int
        /\ Rate * w[1] \in Int /\ Rate * w[2] \in Int
    <3>1. Rate \in Int /\ Token \in Int /\ g \in Int
      BY <2>2
    <3>2. Token * g \in Int
      BY <3>1, ProductType
    <3>3. Rate * t \in Int /\ Rate * last[k] \in Int
      BY <1>2, <2>2, <3>1, ProductType
    <3>4. Rate * w[1] \in Int /\ Rate * w[2] \in Int
      BY <2>1, <3>1, ProductType
    <3> QED BY <3>2, <3>3, <3>4
  <2>4. Rate * (w[2] - w[1]) = Rate * w[2] - Rate * w[1]
    BY <2>1, Distribute
  <2>5. g > 0 => Token * g + tokens[k] - Rate * last[k] + Rate * w[1] =< Capacity
    BY <1>1, <1>2 DEF Spent
  <2>6. Token * g =< Capacity + Rate * (w[2] - w[1])
    BY <1>1, <1>2 DEF WindowBound
  <2>7. granted'[k][w] = IF In(t, w) THEN g + 1 ELSE g
    BY <1>6
  <2>8. Token * (g + 1) = Token * g + Token
    BY <2>2, OneMore
  <2> HIDE DEF g
  <2>9. CASE In(t, w)
    <3>1. granted'[k][w] = g + 1  BY <2>7, <2>9
    <3>2. Rate * w[1] =< Rate * t /\ Rate * t =< Rate * w[2]
      BY <1>2, <2>1, <2>9, Monotone DEF In
    <3>3. Token * granted'[k][w] + tokens'[k] - Rate * last'[k] + Rate * w[1] =< Capacity
      <4>1. CASE g = 0
        <5>1. Token * g = 0  BY <4>1
        <5> QED  BY <1>3, <1>5, <2>3, <2>8, <3>1, <3>2, <5>1
      <4>2. CASE g > 0
        BY <1>3, <1>5, <2>2, <2>3, <2>5, <2>8, <3>1, <4>2
      <4> QED  BY <2>2, <4>1, <4>2
    <3>4. Token * granted'[k][w] =< Capacity + Rate * (w[2] - w[1])
      BY <1>3, <1>5, <2>3, <2>4, <2>8, <3>1, <3>2, <3>3
    <3> QED  BY <3>3, <3>4
  <2>10. CASE ~In(t, w)
    <3>1. granted'[k][w] = g  BY <2>7, <2>10
    <3> QED  BY <1>3, <1>5, <2>2, <2>3, <2>5, <2>6, <3>1
  <2> QED  BY <2>9, <2>10
<1>13. Spent'
  BY <1>1, <1>7, <1>12 DEF Spent
<1>14. WindowBound'
  BY <1>1, <1>7, <1>12 DEF WindowBound
<1> QED  BY <1>8, <1>9, <1>10, <1>11, <1>13, <1>14 DEF LimitInv

(* A take that finds no token moves the bucket to another time.            *)
LEMMA TakeDeniedInv ==
  ASSUME LimitInv, NEW r \in Request, TakeDenied(r)
  PROVE  LimitInv'
<1> DEFINE k == key[r]
           t == now[r]
           f == Refilled(k, t)
<1> USE PartsAssumption
<1>1. LimitTypeOK /\ Past /\ Unused /\ Spent /\ NoDebt /\ WindowBound
  BY DEF LimitInv
<1>2. k \in Bucket /\ t \in Time /\ t \in Int /\ clock \in Int /\ t =< clock /\ exists[k]
  BY <1>1, TimeType DEF LimitTypeOK, Past, Unused, TakeDenied
<1>3. /\ f \in Int /\ f =< Capacity
      /\ f =< tokens[k] + Rate * t - Rate * last[k]
      /\ f = Capacity \/ f = tokens[k] + Rate * t - Rate * last[k]
  BY <1>1, <1>2, RefilledType
<1>4. /\ tokens' = [tokens EXCEPT ![k] = f]
      /\ last' = [last EXCEPT ![k] = t]
      /\ pc' = [pc EXCEPT ![r] = "idle"]
      /\ UNCHANGED <<clock, exists, key, now, granted>>
  BY DEF TakeDenied
<1> HIDE DEF k, t, f
<1>5. tokens'[k] = f /\ last'[k] = t
  BY <1>1, <1>2, <1>4 DEF LimitTypeOK
<1>6. \A b \in Bucket : b # k => tokens'[b] = tokens[b] /\ last'[b] = last[b]
  BY <1>1, <1>4 DEF LimitTypeOK
<1>7. tokens[k] \in Int /\ last[k] \in Int
  BY <1>1, <1>2, TimeType DEF LimitTypeOK
<1>8. LimitTypeOK'
  BY <1>1, <1>2, <1>3, <1>4 DEF LimitTypeOK
<1>9. Past'
  BY <1>1, <1>2, <1>4, <1>5, <1>6 DEF Past
<1>10. Unused'
  <2>1. \A q \in Request : pc'[q] = "take" => pc[q] = "take"
    BY <1>1, <1>4 DEF LimitTypeOK
  <2> QED  BY <1>1, <1>2, <1>4, <1>6, <2>1 DEF Unused
<1>11. NoDebt'
  <2> SUFFICES ASSUME NEW b \in Bucket
               PROVE  tokens'[b] + (clock' - last'[b]) * Rate >= 0
    BY DEF NoDebt
  <2>1. CASE b # k  BY <1>1, <1>4, <1>6, <2>1 DEF NoDebt
  <2>2. CASE b = k
    <3>1. 0 =< clock - t /\ clock - t \in Int  BY <1>2
    <3>2. Rate * 0 =< Rate * (clock - t)  BY <3>1, Monotone
    <3>3. /\ (clock - t) * Rate = Rate * clock - Rate * t
          /\ Rate * (clock - t) = Rate * clock - Rate * t
          /\ (clock - last[k]) * Rate = Rate * clock - Rate * last[k]
      <4>1. Rate \in Int
        OBVIOUS
      <4>2. /\ (clock - t) * Rate = Rate * clock - Rate * t
            /\ Rate * (clock - t) = Rate * clock - Rate * t
        BY <1>2, <4>1, Distribute
      <4>3. (clock - last[k]) * Rate = Rate * clock - Rate * last[k]
        BY <1>2, <1>7, <4>1, Distribute
      <4> QED BY <4>2, <4>3
    <3>4. Rate * clock \in Int /\ Rate * t \in Int /\ Rate * last[k] \in Int
      BY <1>2, <1>7, ProductType
    <3>5. tokens[k] + (clock - last[k]) * Rate >= 0
      BY <1>1, <1>2 DEF NoDebt
    <3>6. f + Rate * clock - Rate * t >= 0
      BY <1>3, <1>7, <3>2, <3>3, <3>4, <3>5
    <3> QED  BY <1>3, <1>4, <1>5, <2>2, <3>3, <3>4, <3>6
  <2> QED  BY <2>1, <2>2
<1>12. Spent'
  <2> SUFFICES ASSUME NEW b \in Bucket, NEW w \in Window, granted'[b][w] > 0
               PROVE  Token * granted'[b][w] + tokens'[b] - Rate * last'[b]
                        + Rate * w[1] =< Capacity
    BY DEF Spent
  <2>1. granted'[b][w] = granted[b][w] /\ granted[b][w] \in Nat
    BY <1>1, <1>4 DEF LimitTypeOK
  <2>2. Token * granted[b][w] + tokens[b] - Rate * last[b] + Rate * w[1] =< Capacity
    BY <1>1, <2>1 DEF Spent
  <2>3. CASE b # k  BY <1>6, <2>1, <2>2, <2>3
  <2>4. CASE b = k
    <3>0. w[1] \in Int /\ granted[b][w] \in Int
      BY <2>1, WindowType
    <3>1. Token * granted[b][w] \in Int /\ Rate * t \in Int /\ Rate * last[k] \in Int
            /\ Rate * w[1] \in Int
      BY <1>2, <1>7, <3>0, TimeType, ProductType
    <3> QED  BY <1>3, <1>5, <1>7, <2>1, <2>2, <2>4, <3>1
  <2> QED  BY <2>3, <2>4
<1>13. WindowBound'
  BY <1>1, <1>4 DEF WindowBound
<1> QED  BY <1>8, <1>9, <1>10, <1>11, <1>12, <1>13 DEF LimitInv

(* A new bucket is full and has granted nothing; an old one stays.         *)
LEMMA GetOrCreateInv ==
  ASSUME LimitInv, NEW r \in Request, getOrCreate(r)
  PROVE  LimitInv'
<1> DEFINE k == key[r]
<1> USE PartsAssumption
<1>1. LimitTypeOK /\ Past /\ Unused /\ Spent /\ NoDebt /\ WindowBound
  BY DEF LimitInv
<1>2. k \in Bucket /\ clock \in Time /\ clock \in Int
  BY <1>1, TimeType DEF LimitTypeOK
<1>3. /\ exists' = [exists EXCEPT ![k] = TRUE]
      /\ pc' = [pc EXCEPT ![r] = "take"]
      /\ UNCHANGED <<clock, key, now, granted>>
  BY DEF getOrCreate
<1>4. Past' /\ LimitTypeOK'
  <2>1. CASE exists[k]
    BY <1>1, <1>2, <1>3, <2>1 DEF getOrCreate, Past, LimitTypeOK
  <2>2. CASE ~exists[k]
    <3>1. tokens' = [tokens EXCEPT ![k] = Capacity] /\ last' = [last EXCEPT ![k] = clock]
      BY <2>2 DEF getOrCreate
    <3>2. LimitTypeOK'  BY <1>1, <1>2, <1>3, <3>1 DEF LimitTypeOK
    <3>3. \A b \in Bucket : last'[b] = last[b] \/ last'[b] = clock
      BY <1>1, <3>1 DEF LimitTypeOK
    <3>4. Past'  BY <1>1, <1>2, <1>3, <3>3 DEF Past
    <3> QED  BY <3>2, <3>4
  <2> QED  BY <2>1, <2>2
<1>5. \A b \in Bucket : \/ tokens'[b] = tokens[b] /\ last'[b] = last[b]
                        \/ /\ b = k /\ ~exists[b]
                           /\ tokens'[b] = Capacity /\ last'[b] = clock
  BY <1>1, <1>2 DEF getOrCreate, LimitTypeOK
<1>6. Unused'
  <2>1. \A b \in Bucket : ~exists'[b] => ~exists[b] /\ b # k
    BY <1>1, <1>2, <1>3 DEF LimitTypeOK
  <2>2. \A q \in Request : pc'[q] = "take" => exists'[key'[q]]
    BY <1>1, <1>2, <1>3 DEF LimitTypeOK, Unused
  <2> QED  BY <1>1, <1>3, <1>5, <2>1, <2>2 DEF Unused
<1>7. NoDebt'
  BY <1>1, <1>2, <1>3, <1>5 DEF NoDebt
<1>8. Spent'
  <2> SUFFICES ASSUME NEW b \in Bucket, NEW w \in Window, granted'[b][w] > 0
               PROVE  Token * granted'[b][w] + tokens'[b] - Rate * last'[b]
                        + Rate * w[1] =< Capacity
    BY DEF Spent
  <2>1. exists[b]  BY <1>1, <1>3 DEF Unused
  <2> QED  BY <1>1, <1>3, <1>5, <2>1 DEF Spent
<1>9. WindowBound'
  BY <1>1, <1>3 DEF WindowBound
<1> QED  BY <1>4, <1>6, <1>7, <1>8, <1>9 DEF LimitInv

(* Every step preserves the invariant.                                     *)
LEMMA LimitInvStep == LimitInv /\ [LimitNext]_limitVars => LimitInv'
<1> SUFFICES ASSUME LimitInv, [LimitNext]_limitVars PROVE LimitInv'  OBVIOUS
<1>1. LimitTypeOK /\ Past /\ Unused /\ Spent /\ NoDebt /\ WindowBound
  BY DEF LimitInv
<1>2. CASE Tick
  <2>1. LimitTypeOK' /\ Past' /\ Unused' /\ Spent' /\ WindowBound'
    BY <1>1, <1>2, MaxTimeAssumption
    DEF Tick, LimitTypeOK, Past, Unused, Spent, WindowBound, Time
  <2>2. NoDebt'
    <3> SUFFICES ASSUME NEW b \in Bucket
                 PROVE  tokens[b] + ((clock + 1) - last[b]) * Rate >= 0
      <4>1. clock' = clock + 1 /\ tokens' = tokens /\ last' = last
        BY <1>2 DEF Tick
      <4> QED  BY <4>1 DEF NoDebt
    <3>1. tokens[b] \in Int /\ last[b] \in Int /\ clock \in Int
      BY <1>1, TimeType DEF LimitTypeOK
    <3>2. ((clock + 1) - last[b]) * Rate = Rate * (clock - last[b]) + Rate
      <4>1. (clock + 1) - last[b] = (clock - last[b]) + 1 /\ clock - last[b] \in Int
        BY <3>1
      <4>2. ((clock - last[b]) + 1) * Rate = Rate * ((clock - last[b]) + 1)
        BY <4>1, PartsAssumption
      <4>3. Rate * ((clock - last[b]) + 1) = Rate * (clock - last[b]) + Rate
        BY <4>1, OneMore, PartsAssumption
      <4> QED  BY <4>1, <4>2, <4>3
    <3>3. Rate * (clock - last[b]) = (clock - last[b]) * Rate
            /\ Rate * (clock - last[b]) \in Int
      BY <3>1, PartsAssumption
    <3>4. tokens[b] + (clock - last[b]) * Rate >= 0
      BY <1>1 DEF NoDebt
    <3> QED  BY <3>1, <3>2, <3>3, <3>4, PartsAssumption
  <2> QED  BY <2>1, <2>2 DEF LimitInv
<1>3. ASSUME NEW r \in Request, NEW k \in Bucket, Arrive(r, k)
      PROVE  LimitInv'
  <2>1. LimitTypeOK' /\ Past'
    BY <1>1, <1>3, TimeType DEF Arrive, LimitTypeOK, Past
  <2>2. Unused'
    <3>1. \A q \in Request : pc'[q] = "take" => pc[q] = "take" /\ key'[q] = key[q]
      BY <1>1, <1>3 DEF Arrive, LimitTypeOK
    <3> QED  BY <1>1, <1>3, <3>1 DEF Arrive, Unused
  <2>3. Spent' /\ NoDebt' /\ WindowBound'
    BY <1>1, <1>3 DEF Arrive, Spent, NoDebt, WindowBound
  <2> QED  BY <2>1, <2>2, <2>3 DEF LimitInv
<1>4. CASE UNCHANGED limitVars
  BY <1>1, <1>4 DEF limitVars, LimitInv, LimitTypeOK, Past, Unused, Spent, NoDebt, WindowBound
<1> QED
  BY <1>2, <1>3, <1>4, GetOrCreateInv, TakeGrantedInv, TakeDeniedInv DEF LimitNext

(* The invariant holds in every reachable state.                           *)
LEMMA LimitInvAlways == LimitSpec => []LimitInv
  BY LimitInvInit, LimitInvStep, PTL DEF LimitSpec

(* The type invariant of the limiter.                                      *)
THEOREM RateLimitTypeOK == LimitSpec => []LimitTypeOK
<1>1. LimitInv => LimitTypeOK  BY DEF LimitInv
<1> QED  BY <1>1, LimitInvAlways, PTL

(* The limiter's promise: whatever the order of the takes and the age of   *)
(* their times, no window lets through more than the capacity and its      *)
(* refill (bucket.take, getOrCreate, Middleware).                          *)
THEOREM RateLimitWindowBound == LimitSpec => []WindowBound
<1>1. LimitInv => WindowBound  BY DEF LimitInv
<1> QED  BY <1>1, LimitInvAlways, PTL

(* Out-of-order takes leave no bucket in debt by the present time.         *)
THEOREM RateLimitNoDebt == LimitSpec => []NoDebt
<1>1. LimitInv => NoDebt  BY DEF LimitInv
<1> QED  BY <1>1, LimitInvAlways, PTL

-----------------------------------------------------------------------------
(***************************************************************************)
(* Proofs about Shutdown, for any number of handlers and any capacities of *)
(* the two queues: what Close of the audit log and Shutdown of the error   *)
(* reporter leave behind.                                                  *)
(***************************************************************************)
MainPcs == {"serve", "shutdown", "services", "audit", "auditWait", "reporter",
            "reporterWait", "exit"}
Outcomes == {"sent", "dropped"}

ShutTypeOK ==
  /\ mainPc \in MainPcs /\ timedOut \in BOOLEAN
  /\ handler \in [Handler -> {"none", "busy", "dialling", "dialled", "answer", "done", "panicked"}]
  /\ sink \in Seq(Handler) /\ sinkClosed \in BOOLEAN
  /\ auditor \in Handler \cup {Free, Ended}
  /\ written \subseteq Handler /\ skipped \subseteq Handler
  /\ captures \subseteq Handler /\ queue \in Seq(Handler) /\ repStop \in BOOLEAN
  /\ sender \in [mode : {"run", "drain", "ended"}, event : Handler \cup {Free}]
  /\ reports \in [Outcomes -> SUBSET Handler]
  /\ early \subseteq Handler /\ late \subseteq Handler

(* What a sequence gains and loses at its ends.                            *)
LEMMA ToSetEmpty == ToSet(<<>>) = {}
  BY DEF ToSet
(* The elements of a queue after a send.                                   *)
LEMMA ToSetAppend ==
  ASSUME NEW S, NEW s \in Seq(S), NEW x \in S
  PROVE  ToSet(Append(s, x)) = ToSet(s) \cup {x} /\ Append(s, x) \in Seq(S)
<1>1. /\ Append(s, x) \in Seq(S)
      /\ Len(Append(s, x)) = Len(s) + 1
      /\ \A i \in 1..Len(s) : Append(s, x)[i] = s[i]
      /\ Append(s, x)[Len(s) + 1] = x
  BY AppendProperties
<1>2. DOMAIN Append(s, x) = 1..(Len(s) + 1) /\ DOMAIN s = 1..Len(s) /\ Len(s) \in Nat
  BY <1>1, LenProperties
<1> QED BY <1>1, <1>2 DEF ToSet
(* The elements of a queue before and after a receive.                     *)
LEMMA ToSetHeadTail ==
  ASSUME NEW S, NEW s \in Seq(S), s # <<>>
  PROVE  ToSet(s) = {Head(s)} \cup ToSet(Tail(s)) /\ Tail(s) \in Seq(S) /\ Head(s) \in S
<1>1. /\ Head(s) \in S /\ Tail(s) \in Seq(S) /\ Head(s) = s[1]
      /\ Len(Tail(s)) = Len(s) - 1
      /\ \A i \in 1..Len(Tail(s)) : Tail(s)[i] = s[i + 1]
  BY HeadTailProperties
<1>2. DOMAIN Tail(s) = 1..(Len(s) - 1) /\ DOMAIN s = 1..Len(s) /\ Len(s) \in Nat \ {0}
  BY <1>1, LenProperties, EmptySeq
<1>3. ASSUME NEW i \in 1..Len(s) PROVE s[i] \in {Head(s)} \cup ToSet(Tail(s))
  <2>1. CASE i = 1
    BY <2>1, <1>1
  <2>2. CASE i # 1
    <3>1. i - 1 \in DOMAIN Tail(s) /\ Tail(s)[i - 1] = s[(i - 1) + 1] /\ (i - 1) + 1 = i
      BY <2>2, <1>1, <1>2
    <3>2. Tail(s)[i - 1] \in ToSet(Tail(s))
      BY <3>1 DEF ToSet
    <3> QED BY <3>1, <3>2
  <2> QED BY <2>1, <2>2
<1>4. ASSUME NEW i \in 1..Len(Tail(s)) PROVE Tail(s)[i] \in ToSet(s)
  BY <1>1, <1>2 DEF ToSet
<1>5. Head(s) \in ToSet(s)
  BY <1>1, <1>2 DEF ToSet
<1> QED BY <1>1, <1>2, <1>3, <1>4, <1>5 DEF ToSet
(* The elements of a queue have its type.                                  *)
LEMMA ToSetIn ==
  ASSUME NEW S, NEW s \in Seq(S) PROVE ToSet(s) \subseteq S
  BY DEF ToSet

-----------------------------------------------------------------------------
(***************************************************************************)
(* The inductive invariant.  A record that Log took is still in the sink,  *)
(* at the worker, or in the log (Kept); the worker ends with an empty sink *)
(* that is closed, and main goes past Close only when it has; handlers are *)
(* left after srv.Shutdown only if it timed out (Waited).  A report queued *)
(* before the stop is in the queue, at the sender, or accounted for, and   *)
(* accounted for when the sender has ended, which it does only after the   *)
(* stop (Drained).                                                         *)
(***************************************************************************)
Kept ==
  /\ \A h \in Handler : handler[h] \in {"answer", "done"} =>
       h \in written \cup skipped \cup ToSet(sink) \cup {auditor}
  /\ auditor = Ended => sink = <<>> /\ sinkClosed
Waited ==
  /\ sinkClosed <=> mainPc \in {"auditWait", "reporter", "reporterWait", "exit"}
  /\ mainPc \in {"reporter", "reporterWait", "exit"} => auditor = Ended
  /\ (mainPc \notin {"serve", "shutdown"} /\ ~timedOut) =>
       \A h \in Handler : handler[h] \in AtRest
  /\ late # {} => timedOut
Drained ==
  /\ repStop <=> mainPc \in {"reporterWait", "exit"}
  /\ sender.mode # "run" => repStop
  /\ ~repStop => early = {}
  /\ early \subseteq ToSet(queue) \cup {sender.event} \cup reports["sent"] \cup reports["dropped"]
  /\ sender.mode = "ended" =>
       sender.event = Free /\ early \subseteq reports["sent"] \cup reports["dropped"]
  /\ mainPc = "exit" => sender.mode = "ended"
ShutInv == ShutTypeOK /\ Kept /\ Waited /\ Drained

(* The counts at the start, as a function.                                 *)
LEMMA NoReports == [sent |-> {}, dropped |-> {}] = [o \in Outcomes |-> {}]
  BY DEF Outcomes

(* The invariant holds when the process starts.                            *)
LEMMA ShutInvInit == ShutInit => ShutInv
<1> SUFFICES ASSUME ShutInit PROVE ShutInv
  OBVIOUS
<1>1. ShutTypeOK
  <2>1. reports = [o \in Outcomes |-> {}]
    BY NoReports DEF ShutInit
  <2> QED BY <2>1, EmptySeq DEF ShutInit, ShutTypeOK, MainPcs
<1>2. Kept
  BY HandlerAssumption DEF ShutInit, Kept, Free, Ended
<1>3. Waited
  BY DEF ShutInit, Waited, AtRest
<1>4. Drained
  BY DEF ShutInit, Drained
<1> QED BY <1>1, <1>2, <1>3, <1>4 DEF ShutInv

(* A step of a handler: the record is logged, counted, or a panic.         *)
LEMMA HandlerInv ==
  ASSUME ShutInv, NEW h \in Handler,
         \/ Serve(h) \/ DialStarts(h) \/ DialEnds(h)
         \/ HandlerPanics(h) \/ Log(h) \/ Answer(h)
  PROVE  ShutInv'
<1> USE DEF ShutInv, auditVars, repVars, AtRest, Working
<1>0. CASE DialStarts(h) \/ DialEnds(h)
  <2>1. ShutTypeOK'
    BY <1>0 DEF DialStarts, DialEnds, ShutTypeOK
  <2>2. Kept' /\ Waited' /\ Drained'
    BY <1>0 DEF DialStarts, DialEnds, ShutTypeOK, Kept, Waited, Drained
  <2> QED BY <2>1, <2>2
<1>1. CASE Serve(h)
  <2>1. ShutTypeOK'
    BY <1>1 DEF Serve, ShutTypeOK
  <2>2. Kept' /\ Waited' /\ Drained'
    BY <1>1 DEF Serve, ShutTypeOK, Kept, Waited, Drained, MainPcs
  <2> QED BY <2>1, <2>2
<1>2. CASE HandlerPanics(h)
  <2>1. ShutTypeOK'
    BY <1>2 DEF HandlerPanics, Recover, ShutTypeOK
  <2>2. Kept' /\ Waited' /\ Drained'
    BY <1>2 DEF HandlerPanics, Recover, ShutTypeOK, Kept, Waited, Drained
  <2> QED BY <2>1, <2>2
<1>3. CASE Log(h)
  <2>1. CASE sinkClosed
    <3>1. ShutTypeOK'
      BY <1>3, <2>1 DEF Log, Recover, ShutTypeOK
    <3>2. timedOut
      BY <1>3, <2>1 DEF Log, Waited
    <3>3. Kept' /\ Waited' /\ Drained'
      BY <1>3, <2>1, <3>2 DEF Log, Recover, ShutTypeOK, Kept, Waited, Drained
    <3> QED BY <3>1, <3>3
  <2>2. CASE ~sinkClosed
    <3>1. /\ handler' = [handler EXCEPT ![h] = "answer"]
          /\ \/ sink' = Append(sink, h) /\ UNCHANGED skipped
             \/ skipped' = skipped \cup {h} /\ UNCHANGED sink
          /\ UNCHANGED <<mainPc, timedOut, sinkClosed, auditor, written, repVars, late>>
      BY <1>3, <2>2 DEF Log
    <3>2. sink' \in Seq(Handler) /\ ToSet(sink) \subseteq ToSet(sink')
          /\ h \in skipped' \cup ToSet(sink') /\ skipped \subseteq skipped'
      <4>1. CASE sink' = Append(sink, h) /\ UNCHANGED skipped
        BY <4>1, ToSetAppend DEF ShutTypeOK
      <4>2. CASE skipped' = skipped \cup {h} /\ UNCHANGED sink
        BY <4>2 DEF ShutTypeOK
      <4> QED BY <3>1, <4>1, <4>2
    <3>3. ShutTypeOK'
      BY <3>1, <3>2 DEF ShutTypeOK
    <3>4. auditor # Ended
      BY <2>2 DEF Kept
    <3>5. Kept'
      BY <3>1, <3>2, <3>4 DEF Kept, ShutTypeOK
    <3>6. handler[h] \in {"busy", "dialled"}
      BY <1>3 DEF Log
    <3>7. Waited'
      BY <2>2, <3>1, <3>6 DEF Waited, ShutTypeOK
    <3>8. Drained'
      BY <3>1 DEF Drained
    <3> QED BY <3>3, <3>5, <3>7, <3>8
  <2> QED BY <2>1, <2>2
<1>4. CASE Answer(h)
  <2>1. ShutTypeOK'
    BY <1>4 DEF Answer, ShutTypeOK
  <2>2. Kept' /\ Waited' /\ Drained'
    BY <1>4 DEF Answer, ShutTypeOK, Kept, Waited, Drained
  <2> QED BY <2>1, <2>2
<1> QED BY <1>0, <1>1, <1>2, <1>3, <1>4

(* The worker of the audit log moves records on and drops none.            *)
LEMMA AuditInv ==
  ASSUME ShutInv, AuditSteps PROVE ShutInv'
<1> USE DEF ShutInv, auditVars, repVars
<1>1. CASE AuditTake
  <2>1. /\ ToSet(sink) = {auditor'} \cup ToSet(sink') /\ sink' \in Seq(Handler)
        /\ auditor' \in Handler /\ auditor = Free
    BY <1>1, ToSetHeadTail DEF AuditTake, ShutTypeOK
  <2>2. ShutTypeOK'
    BY <1>1, <2>1 DEF AuditTake, ShutTypeOK
  <2>3. Kept'
    BY <1>1, <2>1, HandlerAssumption DEF AuditTake, Kept, ShutTypeOK
  <2>4. Waited' /\ Drained'
    BY <1>1 DEF AuditTake, Waited, Drained, Free, Ended
  <2> QED BY <2>2, <2>3, <2>4
<1>2. CASE AuditWrite
  <2>1. ShutTypeOK'
    BY <1>2 DEF AuditWrite, ShutTypeOK
  <2>2. Kept' /\ Waited' /\ Drained'
    BY <1>2, HandlerAssumption DEF AuditWrite, Kept, Waited, Drained, Free, Ended
  <2> QED BY <2>1, <2>2
<1>3. CASE AuditEnds
  <2>1. ShutTypeOK'
    BY <1>3 DEF AuditEnds, ShutTypeOK
  <2>2. Kept' /\ Waited' /\ Drained'
    BY <1>3, HandlerAssumption DEF AuditEnds, Kept, Waited, Drained
  <2> QED BY <2>1, <2>2
<1> QED BY <1>1, <1>2, <1>3 DEF AuditSteps

(* A late report joins the queue or is counted.                            *)
LEMMA CaptureInv ==
  ASSUME ShutInv, NEW h \in Handler, Capture(h) PROVE ShutInv'
<1> USE DEF ShutInv, auditVars
<1>0. /\ \/ queue' = Append(queue, h) /\ reports' = reports
         \/ queue' = queue /\ reports' = [reports EXCEPT !["dropped"] = @ \cup {h}]
  BY DEF Capture
<1>1. /\ ToSet(queue) \subseteq ToSet(queue') /\ queue' \in Seq(Handler)
      /\ reports' \in [Outcomes -> SUBSET Handler]
      /\ reports["sent"] \subseteq reports'["sent"]
      /\ reports["dropped"] \subseteq reports'["dropped"]
  <2>1. CASE queue' = Append(queue, h) /\ reports' = reports
    BY <2>1, ToSetAppend DEF ShutTypeOK
  <2>2. CASE queue' = queue /\ reports' = [reports EXCEPT !["dropped"] = @ \cup {h}]
    BY <2>2 DEF ShutTypeOK, Outcomes
  <2> QED BY <1>0, <2>1, <2>2
<1>2. ShutTypeOK'
  BY <1>1 DEF Capture, ShutTypeOK
<1>3. Kept' /\ Waited'
  BY DEF Capture, Kept, Waited
<1>4. Drained'
  BY <1>1 DEF Capture, Drained
<1> QED BY <1>2, <1>3, <1>4

(* The sender moves reports on, and ends with none left.                   *)
LEMMA SenderInv ==
  ASSUME ShutInv, SenderSteps PROVE ShutInv'
<1> USE DEF ShutInv, auditVars
<1>1. CASE SenderTake
  <2>1. /\ ToSet(queue) = {sender'.event} \cup ToSet(queue') /\ queue' \in Seq(Handler)
        /\ sender'.event \in Handler /\ sender.event = Free /\ sender'.mode = sender.mode
        /\ sender.mode # "ended"
        /\ sender' \in [mode : {"run", "drain", "ended"}, event : Handler \cup {Free}]
    BY <1>1, ToSetHeadTail DEF SenderTake, ShutTypeOK
  <2>2. ShutTypeOK'
    BY <1>1, <2>1 DEF SenderTake, ShutTypeOK
  <2>3. Kept' /\ Waited'
    BY <1>1 DEF SenderTake, Kept, Waited
  <2>4. Drained'
    BY <1>1, <2>1, HandlerAssumption DEF SenderTake, Drained, ShutTypeOK
  <2> QED BY <2>2, <2>3, <2>4
<1>2. CASE SenderSends
  <2>1. PICK o \in Outcomes : reports' = [reports EXCEPT ![o] = @ \cup {sender.event}]
    BY <1>2 DEF SenderSends, Outcomes
  <2>2. sender.event \in Handler /\ sender.mode # "ended"
    BY <1>2 DEF SenderSends, ShutTypeOK, Drained
  <2>3. /\ reports' \in [Outcomes -> SUBSET Handler]
        /\ reports["sent"] \cup reports["dropped"] \cup {sender.event}
             \subseteq reports'["sent"] \cup reports'["dropped"]
    BY <2>1, <2>2 DEF ShutTypeOK, Outcomes
  <2>4. /\ sender'.event = Free /\ sender'.mode = sender.mode
        /\ sender' \in [mode : {"run", "drain", "ended"}, event : Handler \cup {Free}]
    BY <1>2 DEF SenderSends, ShutTypeOK
  <2>5. ShutTypeOK'
    BY <1>2, <2>3, <2>4 DEF SenderSends, ShutTypeOK
  <2>6. Kept' /\ Waited'
    BY <1>2 DEF SenderSends, Kept, Waited
  <2>7. Drained'
    BY <1>2, <2>2, <2>3, <2>4 DEF SenderSends, Drained
  <2> QED BY <2>5, <2>6, <2>7
<1>3. CASE SenderStops
  <2>1. /\ sender.event = Free /\ sender'.event = Free
        /\ \/ sender'.mode = "drain" /\ repStop
           \/ sender.mode = "drain" /\ sender'.mode = "ended" /\ queue = <<>>
        /\ sender' \in [mode : {"run", "drain", "ended"}, event : Handler \cup {Free}]
    BY <1>3 DEF SenderStops, ShutTypeOK
  <2>2. ShutTypeOK'
    BY <1>3, <2>1 DEF SenderStops, ShutTypeOK
  <2>3. Kept' /\ Waited'
    BY <1>3 DEF SenderStops, Kept, Waited
  <2>4. mainPc # "exit" /\ Free \notin early
    BY <1>3, HandlerAssumption DEF SenderStops, Alive, ShutTypeOK
  <2>5. Drained'
    BY <1>3, <2>1, <2>4, ToSetEmpty DEF SenderStops, Drained
  <2> QED BY <2>2, <2>3, <2>5
<1> QED BY <1>1, <1>2, <1>3 DEF SenderSteps

(* main, one part after the other, and the next start.                     *)
LEMMA MainInv ==
  ASSUME ShutInv, Signal \/ MainSteps \/ Start PROVE ShutInv'
<1> USE DEF ShutInv, Main, auditVars, repVars, MainPcs, AtRest
<1>1. CASE Signal
  BY <1>1 DEF Signal, ShutTypeOK, Kept, Waited, Drained
<1>2. CASE ServerShutdown
  <2>1. ShutTypeOK'
    BY <1>2 DEF ServerShutdown, ShutTypeOK
  <2>2. Kept' /\ Waited' /\ Drained'
    BY <1>2 DEF ServerShutdown, ShutTypeOK, Kept, Waited, Drained
  <2> QED BY <2>1, <2>2
<1>3. CASE StopServices
  BY <1>3 DEF StopServices, ShutTypeOK, Kept, Waited, Drained
<1>4. CASE CloseSink
  BY <1>4 DEF CloseSink, ShutTypeOK, Kept, Waited, Drained
<1>5. CASE AuditClosed
  BY <1>5 DEF AuditClosed, ShutTypeOK, Kept, Waited, Drained
<1>6. CASE StopReporter
  <2>1. ShutTypeOK'
    BY <1>6, ToSetIn DEF StopReporter, ShutTypeOK
  <2>2. Kept' /\ Waited' /\ Drained'
    BY <1>6 DEF StopReporter, ShutTypeOK, Kept, Waited, Drained
  <2> QED BY <2>1, <2>2
<1>7. CASE Exit
  BY <1>7 DEF Exit, ShutTypeOK, Kept, Waited, Drained
<1>8. CASE Start
  <2>1. ShutTypeOK'
    <3>1. reports' = [o \in Outcomes |-> {}]
      BY <1>8, NoReports DEF Start
    <3> QED BY <1>8, <3>1, EmptySeq DEF Start, ShutTypeOK
  <2>2. Kept'
    BY <1>8, HandlerAssumption DEF Start, Kept, Free, Ended
  <2>3. Waited'
    BY <1>8 DEF Start, Waited
  <2>4. Drained'
    BY <1>8 DEF Start, Drained
  <2> QED BY <2>1, <2>2, <2>3, <2>4
<1> QED BY <1>1, <1>2, <1>3, <1>4, <1>5, <1>6, <1>7, <1>8 DEF MainSteps

(* Every step of the shutdown keeps the invariant.                         *)
LEMMA ShutInvNext == ShutInv /\ [ShutNext]_shutVars => ShutInv'
<1> SUFFICES ASSUME ShutInv, [ShutNext]_shutVars PROVE ShutInv'
  OBVIOUS
<1>1. CASE UNCHANGED shutVars
  BY <1>1 DEF shutVars, auditVars, repVars, ShutInv, ShutTypeOK, Kept, Waited, Drained
<1>2. CASE ShutNext
  BY <1>2, HandlerInv, AuditInv, CaptureInv, SenderInv, MainInv DEF ShutNext
<1> QED BY <1>1, <1>2

(* The invariant holds in every reachable state.                           *)
LEMMA ShutInvHolds == ShutSpec => []ShutInv
  BY ShutInvInit, ShutInvNext, PTL DEF ShutSpec

-----------------------------------------------------------------------------
(* The types of the two logs, their goroutines and the handlers.           *)
THEOREM ShutdownTypeOK == ShutSpec => []ShutTypeOK
  BY ShutInvHolds, PTL DEF ShutInv

(***************************************************************************)
(* When auditlog.Logger.Close has returned, every record Log accepted is   *)
(* written and every other one counted; Log meets the closed channel only  *)
(* when srv.Shutdown gave up waiting.                                      *)
(***************************************************************************)
THEOREM ShutdownAuditKept == ShutSpec => []AuditKept
<1>1. ShutInv => AuditKept
  BY ToSetEmpty, HandlerAssumption DEF ShutInv, Kept, Waited, AuditKept
<1> QED BY <1>1, ShutInvHolds, PTL

(***************************************************************************)
(* What was in the queue of the error reporter when Shutdown was called is *)
(* sent or counted when main returns, with whatever reports come late and  *)
(* however many sends fail.                                                *)
(***************************************************************************)
THEOREM ShutdownReportsAccounted == ShutSpec => []ReportsAccounted
<1>1. ShutInv => ReportsAccounted
  BY DEF ShutInv, Drained, ReportsAccounted
<1> QED BY <1>1, ShutInvHolds, PTL

-----------------------------------------------------------------------------
(***************************************************************************)
(* The collector, for any sizes of segments, batches, the set of LSNs and  *)
(* the channel and any number of breaks.  The invariant: every record that *)
(* was put into a batch is in seen_lsns or dropped out of it, and one that *)
(* is still in it was put there once (Known); what was found is reported   *)
(* or passed over, and both only after it was forgotten (Settled); as long *)
(* as nothing was, what waits is in order (Ordered), and the set holds the *)
(* last two segments up to some record p and nothing after it (Covered),   *)
(* so that a poll finds only records after all that were found before.     *)
(***************************************************************************)
ColTypeOK ==
  /\ wal \in Nat /\ seen \subseteq 1..wal /\ forgotten \subseteq 1..wal
  /\ batch \in Seq(Nat) /\ chan \in Seq(Nat)
  /\ delivered \subseteq Nat /\ lost \subseteq Nat
  /\ restarted \in BOOLEAN /\ unread \in BOOLEAN

(* Every record that was ever put into a batch was found, and once unless  *)
(* it was forgotten.                                                       *)
Known(q, snt, sn, f) ==
  /\ \A i \in 1..Len(q) : q[i] # Heartbeat =>
       q[i] \in sn \cup f /\ (q[i] \in snt => q[i] \in f)
  /\ \A i, j \in 1..Len(q) : q[i] # Heartbeat /\ i # j /\ q[i] = q[j] => q[i] \in f
  /\ snt \subseteq sn \cup f
Ordered(q, snt) ==
  /\ \A i, j \in 1..Len(q) :
       q[i] # Heartbeat /\ q[j] # Heartbeat /\ i < j => q[i] < q[j]
  /\ \A i \in 1..Len(q) : q[i] # Heartbeat => \A l \in snt : l < q[i]
Covered(p, sn) ==
  /\ sn \subseteq 1..p
  /\ \A l \in 1..p : SegmentOf(l) + 1 >= SegmentOf(p) => l \in sn
RecordsOf(q) == {q[i] : i \in {k \in 1..Len(q) : q[k] # Heartbeat}}
Settled ==
  /\ Accounted /\ cut \subseteq Found
  /\ (delivered \cap lost) \cup (cut \cap Reported) \subseteq forgotten
  /\ forgotten # {} => restarted \/ Cardinality(Found) > SeenCap

ColInv ==
  /\ ColTypeOK
  /\ Known(Waiting, delivered \cup lost, seen, forgotten)
  /\ Settled
  /\ forgotten = {} /\ ~unread => /\ Ordered(Waiting, delivered \cup lost)
                                  /\ \E p \in 0..wal : Covered(p, seen)

(* What was reported was found, and there is an end to it.                 *)
LEMMA FoundFinite ==
  ASSUME ColInv
  PROVE  IsFiniteSet(Found) /\ Reported \subseteq Found /\ IsFiniteSet(Reported)
         /\ Found \subseteq 1..wal /\ Reported = (delivered \cup lost) \cup RecordsOf(Waiting)
<1>1. Found \subseteq 1..wal /\ wal \in Nat
  BY DEF ColInv, ColTypeOK, Found
<1>2. Reported \subseteq Found
  BY DEF ColInv, Known, Reported, RecordAt, Found
<1>3. IsFiniteSet(1..wal)
  BY <1>1, FS_Interval
<1>4. IsFiniteSet(Found)
  BY <1>1, <1>3, FS_Subset
<1>5. IsFiniteSet(Reported)
  BY <1>2, <1>4, FS_Subset
<1>6. Reported = (delivered \cup lost) \cup RecordsOf(Waiting)
  BY DEF Reported, RecordAt, RecordsOf
<1> QED BY <1>1, <1>2, <1>4, <1>5, <1>6

(* A later record is in the same or a later segment.                       *)
LEMMA SegmentGrows ==
  ASSUME NEW l \in Nat, NEW m \in Nat, 1 =< l, l =< m
  PROVE  SegmentOf(l) \in Int /\ SegmentOf(m) \in Int /\ SegmentOf(l) =< SegmentOf(m)
  BY LimitAssumption DEF SegmentOf

(* The last n of an ascending list are ascending.                          *)
LEMMA LastOfProperties ==
  ASSUME NEW S, S \subseteq Nat, NEW s \in Seq(S), NEW n \in Nat,
         \A i, j \in 1..Len(s) : i < j => s[i] < s[j]
  PROVE  /\ LastOf(s, n) \in Seq(S)
         /\ \A i, j \in 1..Len(LastOf(s, n)) : i < j => LastOf(s, n)[i] < LastOf(s, n)[j]
<1>1. Len(s) \in Nat /\ \A i \in 1..Len(s) : s[i] \in S
  BY LenProperties, ElementOfSeq
<1>2. CASE Len(s) > n
  <2> DEFINE m == Len(s) - n + 1
             t == SubSeq(s, m, Len(s))
  <2>1. m \in Int /\ 1 =< m /\ LastOf(s, n) = t /\ \A i \in m..Len(s) : s[i] \in S
    BY <1>1, <1>2 DEF LastOf
  <2>2. /\ t \in Seq(S) /\ Len(t) = IF m =< Len(s) THEN Len(s) - m + 1 ELSE 0
        /\ \A i \in 1..(Len(s) - m + 1) : t[i] = s[m + i - 1]
    BY <2>1, <1>1, SubSeqProperties
  <2> HIDE DEF t, m
  <2>3. ASSUME NEW i \in 1..Len(t), NEW j \in 1..Len(t), i < j PROVE t[i] < t[j]
    <3>1. i \in 1..(Len(s) - m + 1) /\ j \in 1..(Len(s) - m + 1)
      BY <2>1, <2>2, <1>1
    <3>2. m + i - 1 \in 1..Len(s) /\ m + j - 1 \in 1..Len(s) /\ m + i - 1 < m + j - 1
      BY <3>1, <2>1, <1>1, <2>3
    <3>3. s[m + i - 1] < s[m + j - 1]
      BY <3>2
    <3> QED BY <3>1, <3>3, <2>2
  <2> QED BY <2>1, <2>2, <2>3
<1>3. CASE ~(Len(s) > n)
  BY <1>3 DEF LastOf
<1> QED BY <1>2, <1>3

(* A sequence in ascending order has as many elements as places.           *)
LEMMA AscendingCard ==
  ASSUME NEW s \in Seq(Nat), \A i, j \in 1..Len(s) : i < j => s[i] < s[j]
  PROVE  IsFiniteSet(ToSet(s)) /\ Cardinality(ToSet(s)) = Len(s)
<1>1. s \in [1..Len(s) -> Nat] /\ Len(s) \in Nat /\ DOMAIN s = 1..Len(s)
  BY LenProperties, ElementOfSeq
<1>2. ASSUME NEW i \in 1..Len(s), NEW j \in 1..Len(s), s[i] = s[j] PROVE i = j
  <2>1. i \in Nat /\ j \in Nat /\ s[i] \in Nat /\ s[j] \in Nat
    BY <1>1
  <2>2. ~(i < j) /\ ~(j < i)
    BY <1>2, <2>1
  <2> QED BY <2>1, <2>2
<1>3. ToSet(s) = {s[i] : i \in 1..Len(s)}
  BY <1>1 DEF ToSet
<1>4. s \in [1..Len(s) -> ToSet(s)] /\ \A x \in ToSet(s) : \E i \in 1..Len(s) : s[i] = x
  BY <1>1, <1>3
<1>5. s \in Bijection(1..Len(s), ToSet(s))
  BY <1>2, <1>4 DEF Bijection, Injection, Surjection, IsInjective
<1>6. IsFiniteSet(1..Len(s)) /\ Cardinality(1..Len(s)) = Len(s)
  <2> DEFINE n == Len(s)
  <2>1. n \in Nat
    BY <1>1
  <2> HIDE DEF n
  <2>2. IsFiniteSet(1..n) /\ Cardinality(1..n) = IF 1 > n THEN 0 ELSE n - 1 + 1
    BY <2>1, FS_Interval
  <2>3. IsFiniteSet(1..n) /\ Cardinality(1..n) = n
    BY <2>1, <2>2
  <2> QED BY <2>3 DEF n
<1>7. ExistsBijection(1..Len(s), ToSet(s))
  BY <1>5 DEF ExistsBijection
<1> QED BY <1>6, <1>7, FS_Bijection

(* What is not among the last n of an ascending list is before n others.   *)
LEMMA CutOff ==
  ASSUME NEW N, N \subseteq Nat, IsFiniteSet(N), NEW n \in Nat,
         NEW l \in N, l \notin ToSet(LastOf(InOrder(N), n))
  PROVE  /\ Cardinality(ToSet(LastOf(InOrder(N), n))) = n
         /\ \A k \in ToSet(LastOf(InOrder(N), n)) : k > l
<1> DEFINE s == InOrder(N)
           m == Len(s) - n + 1
           t == SubSeq(s, m, Len(s))
<1>1. s \in Seq(N) /\ \A i, j \in 1..Len(s) : i < j => s[i] < s[j]
  BY Ranked
<1>2. PICK k \in 1..Len(s) : s[k] = l
  BY RankedAll
<1> HIDE DEF s
<1>3. Len(s) \in Nat /\ DOMAIN s = 1..Len(s) /\ s \in Seq(Nat) /\ \A i \in 1..Len(s) : s[i] \in N
  BY <1>1, LenProperties, ElementOfSeq, SeqMonotonic
<1>4. l \in ToSet(s)
  BY <1>2, <1>3 DEF ToSet
<1>5. Len(s) > n /\ LastOf(s, n) = t
  BY <1>4 DEF LastOf, s
<1>6. m \in Nat /\ 1 =< m /\ m =< Len(s) + 1 /\ Len(s) - m + 1 = n
  BY <1>3, <1>5
<1>7. /\ t \in Seq(Nat) /\ Len(t) = n
      /\ \A i \in 1..n : t[i] = s[m + i - 1]
  <2>1. m \in Int /\ Len(s) \in Int /\ \A i \in m..Len(s) : s[i] \in Nat
    BY <1>3, <1>6
  <2>2. /\ t \in Seq(Nat) /\ Len(t) = IF m =< Len(s) THEN Len(s) - m + 1 ELSE 0
        /\ \A i \in 1..(Len(s) - m + 1) : t[i] = s[m + i - 1]
    BY <2>1, SubSeqProperties
  <2>3. Len(t) = n
    BY <2>2, <1>3, <1>6
  <2> QED BY <2>2, <2>3, <1>6
<1> HIDE DEF m, t
<1>8. DOMAIN t = 1..n
  BY <1>7, LenProperties
<1>9. ASSUME NEW i \in 1..n PROVE m + i - 1 \in 1..Len(s) /\ m + i - 1 >= m
  BY <1>3, <1>6
<1>10. k < m
  <2>1. SUFFICES ASSUME k >= m PROVE FALSE
    BY <1>2, <1>6
  <2>2. k - m + 1 \in 1..n /\ m + (k - m + 1) - 1 = k
    BY <2>1, <1>2, <1>3, <1>6
  <2>3. t[k - m + 1] = l
    BY <2>2, <1>2, <1>7
  <2>4. l \in ToSet(t)
    BY <2>2, <2>3, <1>8 DEF ToSet
  <2> QED BY <2>4, <1>5 DEF s
<1>11. ASSUME NEW i \in 1..n PROVE t[i] > l
  <2>1. k < m + i - 1 /\ m + i - 1 \in 1..Len(s)
    BY <1>9, <1>10, <1>2, <1>6
  <2>2. s[k] < s[m + i - 1]
    BY <2>1, <1>1, <1>2
  <2> QED BY <2>2, <1>2, <1>7
<1>12. \A i, j \in 1..Len(t) : i < j => t[i] < t[j]
  <2>1. ASSUME NEW i \in 1..n, NEW j \in 1..n, i < j PROVE t[i] < t[j]
    <3>1. m + i - 1 < m + j - 1 /\ m + i - 1 \in 1..Len(s) /\ m + j - 1 \in 1..Len(s)
      BY <1>9, <1>6, <2>1
    <3> QED BY <3>1, <1>1, <1>7
  <2> QED BY <2>1, <1>7
<1>13. Cardinality(ToSet(t)) = n
  BY <1>7, <1>12, AscendingCard
<1>14. \A x \in ToSet(t) : x > l
  BY <1>8, <1>11 DEF ToSet
<1> QED BY <1>5, <1>13, <1>14 DEF s

(* Taking from the queue and putting into it keep the order of what waits. *)
LEMMA PushKeeps ==
  ASSUME NEW c \in Seq(Nat), NEW b \in Seq(Nat), b # <<>>
  PROVE  /\ Append(c, Head(b)) \o Tail(b) = c \o b
         /\ Append(c, Head(b)) \in Seq(Nat) /\ Tail(b) \in Seq(Nat)
<1> DEFINE u == Append(c, Head(b))
           v == Tail(b)
<1>1. /\ Head(b) \in Nat /\ v \in Seq(Nat) /\ Len(v) = Len(b) - 1 /\ Head(b) = b[1]
      /\ \A i \in 1..Len(v) : v[i] = b[i + 1]
  BY HeadTailProperties
<1>2. /\ u \in Seq(Nat) /\ Len(u) = Len(c) + 1 /\ u[Len(c) + 1] = Head(b)
      /\ \A i \in 1..Len(c) : u[i] = c[i]
  BY <1>1, AppendProperties
<1>3. Len(c) \in Nat /\ Len(b) \in Nat /\ Len(b) > 0
  BY LenProperties, EmptySeq
<1>4. /\ u \o v \in Seq(Nat) /\ Len(u \o v) = Len(u) + Len(v)
      /\ \A i \in 1..(Len(u) + Len(v)) :
           (u \o v)[i] = IF i =< Len(u) THEN u[i] ELSE v[i - Len(u)]
  BY <1>1, <1>2, ConcatProperties
<1>5. /\ c \o b \in Seq(Nat) /\ Len(c \o b) = Len(c) + Len(b)
      /\ \A i \in 1..(Len(c) + Len(b)) :
           (c \o b)[i] = IF i =< Len(c) THEN c[i] ELSE b[i - Len(c)]
  BY ConcatProperties
<1> HIDE DEF u, v
<1>6. Len(u \o v) = Len(c \o b)
  BY <1>1, <1>2, <1>3, <1>4, <1>5
<1>7. ASSUME NEW i \in 1..Len(u \o v) PROVE (u \o v)[i] = (c \o b)[i]
  <2>0. i \in 1..(Len(u) + Len(v)) /\ i \in 1..(Len(c) + Len(b)) /\ i \in Nat
    BY <1>4, <1>5, <1>6, <1>1, <1>2, <1>3
  <2>1. CASE i =< Len(c)
    <3>1. i \in 1..Len(c) /\ i =< Len(u)
      BY <2>0, <2>1, <1>2, <1>3
    <3> QED BY <3>1, <2>0, <2>1, <1>2, <1>4, <1>5
  <2>2. CASE i = Len(c) + 1
    <3>1. i =< Len(u) /\ ~(i =< Len(c)) /\ i - Len(c) = 1
      BY <2>0, <2>2, <1>2, <1>3
    <3> QED BY <3>1, <2>0, <2>2, <1>1, <1>2, <1>4, <1>5
  <2>3. CASE i > Len(c) + 1
    <3>1. /\ ~(i =< Len(u)) /\ ~(i =< Len(c)) /\ i - Len(u) \in 1..Len(v)
          /\ (i - Len(u)) + 1 = i - Len(c)
      <4>1. Len(u) = Len(c) + 1 /\ Len(v) = Len(b) - 1
        BY <1>1, <1>2
      <4>2. i =< Len(c) + Len(b)
        BY <2>0, <1>3
      <4> QED BY <4>1, <4>2, <2>0, <2>3, <1>3
    <3>2. v[i - Len(u)] = b[i - Len(c)]
      BY <3>1, <1>1
    <3>3. (u \o v)[i] = v[i - Len(u)]
      BY <3>1, <2>0, <1>4
    <3>4. (c \o b)[i] = b[i - Len(c)]
      BY <3>1, <2>0, <1>5
    <3> QED BY <3>2, <3>3, <3>4
  <2>4. i =< Len(c) \/ i = Len(c) + 1 \/ i > Len(c) + 1
    BY <2>0, <1>3
  <2> QED BY <2>1, <2>2, <2>3, <2>4
<1>8. u \o v = c \o b
  BY <1>4, <1>5, <1>6, <1>7, SeqEqual
<1> QED BY <1>8, <1>1, <1>2 DEF u, v

(* Taking the first element of a channel that others wait behind.          *)
LEMMA PopKeeps ==
  ASSUME NEW c \in Seq(Nat), NEW b \in Seq(Nat), c # <<>>
  PROVE  /\ Tail(c) \in Seq(Nat) /\ Head(c) \in Nat
         /\ c \o b \in Seq(Nat) /\ Tail(c) \o b \in Seq(Nat)
         /\ Len(c \o b) \in Nat \ {0} /\ (c \o b)[1] = Head(c)
         /\ Len(Tail(c) \o b) = Len(c \o b) - 1
         /\ \A i \in 1..Len(Tail(c) \o b) : (Tail(c) \o b)[i] = (c \o b)[i + 1]
<1> DEFINE v == Tail(c)
<1>1. /\ Head(c) \in Nat /\ v \in Seq(Nat) /\ Len(v) = Len(c) - 1 /\ Head(c) = c[1]
      /\ \A i \in 1..Len(v) : v[i] = c[i + 1]
  BY HeadTailProperties
<1>3. Len(c) \in Nat /\ Len(b) \in Nat /\ Len(c) > 0
  BY LenProperties, EmptySeq
<1>4. /\ v \o b \in Seq(Nat) /\ Len(v \o b) = Len(v) + Len(b)
      /\ \A i \in 1..(Len(v) + Len(b)) :
           (v \o b)[i] = IF i =< Len(v) THEN v[i] ELSE b[i - Len(v)]
  BY <1>1, ConcatProperties
<1>5. /\ c \o b \in Seq(Nat) /\ Len(c \o b) = Len(c) + Len(b)
      /\ \A i \in 1..(Len(c) + Len(b)) :
           (c \o b)[i] = IF i =< Len(c) THEN c[i] ELSE b[i - Len(c)]
  BY ConcatProperties
<1> HIDE DEF v
<1>6. ASSUME NEW i \in 1..Len(v \o b) PROVE (v \o b)[i] = (c \o b)[i + 1]
  <2>0. i \in 1..(Len(v) + Len(b)) /\ i + 1 \in 1..(Len(c) + Len(b)) /\ i \in Nat
    BY <1>4, <1>1, <1>3
  <2>1. CASE i =< Len(v)
    <3>1. i \in 1..Len(v) /\ i + 1 =< Len(c)
      BY <2>0, <2>1, <1>1, <1>3
    <3> QED BY <3>1, <2>0, <2>1, <1>1, <1>4, <1>5
  <2>2. CASE ~(i =< Len(v))
    <3>1. ~(i + 1 =< Len(c)) /\ i - Len(v) = (i + 1) - Len(c)
      BY <2>0, <2>2, <1>1, <1>3
    <3> QED BY <3>1, <2>0, <2>2, <1>4, <1>5
  <2> QED BY <2>1, <2>2
<1>7. (c \o b)[1] = Head(c)
  <2>1. 1 \in 1..(Len(c) + Len(b)) /\ 1 =< Len(c)
    BY <1>3
  <2> QED BY <2>1, <1>5, <1>1
<1>8. Len(v \o b) = Len(c \o b) - 1 /\ Len(c \o b) \in Nat \ {0}
  BY <1>1, <1>3, <1>4, <1>5
<1> QED BY <1>1, <1>4, <1>5, <1>6, <1>7, <1>8 DEF v

(* The oldest of what waits is sent.                                       *)
LEMMA SentKeeps ==
  ASSUME NEW q \in Seq(Nat), NEW t \in Seq(Nat), Len(q) \in Nat \ {0},
         Len(t) = Len(q) - 1, \A i \in 1..Len(t) : t[i] = q[i + 1],
         NEW snt, NEW sn, NEW f, Known(q, snt, sn, f)
  PROVE  /\ Known(t, snt \cup Records(q[1]), sn, f)
         /\ Records(q[1]) \cap snt \subseteq f
         /\ RecordsOf(q) = Records(q[1]) \cup RecordsOf(t)
         /\ Ordered(q, snt) => Ordered(t, snt \cup Records(q[1]))
<1>1. 1 \in 1..Len(q) /\ \A i \in 1..Len(t) : i + 1 \in 1..Len(q) /\ i + 1 # 1
  OBVIOUS
<1>2. ASSUME NEW i \in 1..Len(t), t[i] # Heartbeat
      PROVE  t[i] \in sn \cup f /\ (t[i] \in snt \/ t[i] = q[1] => t[i] \in f)
  <2>1. t[i] = q[i + 1] /\ i + 1 \in 1..Len(q) /\ i + 1 # 1
    BY <1>1
  <2> QED BY <2>1, <1>1, <1>2 DEF Known
<1>3. ASSUME NEW i \in 1..Len(t), NEW j \in 1..Len(t), t[i] # Heartbeat, i # j, t[i] = t[j]
      PROVE  t[i] \in f
  <2>1. /\ t[i] = q[i + 1] /\ i + 1 \in 1..Len(q) /\ t[j] = q[j + 1]
        /\ j + 1 \in 1..Len(q)
    BY <1>1
  <2>2. i + 1 # j + 1
    BY <1>3
  <2> QED BY <2>1, <2>2, <1>3 DEF Known
<1>4. Records(q[1]) \subseteq sn \cup f /\ Records(q[1]) \cap snt \subseteq f
  BY <1>1 DEF Known, Records
<1>5. Known(t, snt \cup Records(q[1]), sn, f)
  <2>1. snt \cup Records(q[1]) \subseteq sn \cup f
    BY <1>4 DEF Known
  <2>2. ASSUME NEW i \in 1..Len(t), t[i] # Heartbeat
        PROVE  t[i] \in sn \cup f /\ (t[i] \in snt \cup Records(q[1]) => t[i] \in f)
    BY <1>2, <2>2 DEF Records
  <2> QED BY <2>1, <2>2, <1>3 DEF Known
<1>6. ASSUME Ordered(q, snt) PROVE Ordered(t, snt \cup Records(q[1]))
  <2>1. ASSUME NEW i \in 1..Len(t), NEW j \in 1..Len(t),
               t[i] # Heartbeat, t[j] # Heartbeat, i < j
        PROVE  t[i] < t[j]
    <3>1. /\ t[i] = q[i + 1] /\ i + 1 \in 1..Len(q) /\ t[j] = q[j + 1]
          /\ j + 1 \in 1..Len(q)
      BY <1>1
    <3>2. i + 1 < j + 1
      BY <2>1
    <3> QED BY <3>1, <3>2, <2>1, <1>6 DEF Ordered
  <2>2. ASSUME NEW i \in 1..Len(t), t[i] # Heartbeat, NEW l \in snt \cup Records(q[1])
        PROVE  l < t[i]
    <3>1. t[i] = q[i + 1] /\ i + 1 \in 1..Len(q) /\ 1 < i + 1
      BY <1>1
    <3>2. CASE l \in snt
      BY <3>1, <3>2, <2>2, <1>6 DEF Ordered
    <3>3. CASE l = q[1] /\ q[1] # Heartbeat
      BY <3>1, <3>3, <2>2, <1>6, <1>1 DEF Ordered
    <3> QED BY <3>2, <3>3 DEF Records
  <2> QED BY <2>1, <2>2 DEF Ordered
<1>7. RecordsOf(q) = Records(q[1]) \cup RecordsOf(t)
  <2>1. ASSUME NEW i \in 1..Len(q), q[i] # Heartbeat PROVE q[i] \in Records(q[1]) \cup RecordsOf(t)
    <3>1. CASE i = 1
      BY <2>1, <3>1 DEF Records
    <3>2. CASE i # 1
      <4>0. Len(t) \in Nat /\ i \in Nat /\ Len(q) = Len(t) + 1
        BY LenProperties
      <4>2. i - 1 \in 1..Len(t) /\ (i - 1) + 1 = i
        BY <3>2, <4>0
      <4>1. i - 1 \in 1..Len(t) /\ t[i - 1] = q[(i - 1) + 1] /\ (i - 1) + 1 = i
        BY <4>2
      <4> QED BY <2>1, <4>1 DEF RecordsOf
    <3> QED BY <3>1, <3>2
  <2>2. ASSUME NEW i \in 1..Len(t), t[i] # Heartbeat PROVE t[i] \in RecordsOf(q)
    <3>1. t[i] = q[i + 1] /\ i + 1 \in 1..Len(q)
      BY <1>1
    <3> QED BY <2>2, <3>1 DEF RecordsOf
  <2>3. Records(q[1]) \subseteq RecordsOf(q)
    BY <1>1 DEF Records, RecordsOf
  <2> QED BY <2>1, <2>2, <2>3 DEF RecordsOf
<1> QED BY <1>4, <1>5, <1>6, <1>7

(* A batch of records nobody has seen, in ascending order, is put behind   *)
(* what waits.                                                             *)
LEMMA BatchKeeps ==
  ASSUME NEW q \in Seq(Nat), NEW N, N \subseteq Nat \ {Heartbeat}, NEW e \in Seq(N),
         \A i, j \in 1..Len(e) : i < j => e[i] < e[j],
         NEW snt, NEW sn, NEW f, Known(q, snt, sn, f), N \cap sn = {}
  PROVE  /\ Known(q \o WithHeartbeat(e), snt, sn \cup N, f)
         /\ RecordsOf(q \o WithHeartbeat(e)) = RecordsOf(q) \cup ToSet(e)
         /\ Ordered(q, snt) /\ (\A x \in N, y \in sn \cup f : y < x)
              => Ordered(q \o WithHeartbeat(e), snt)
<1> DEFINE b == WithHeartbeat(e)
           w == q \o b
<1>1. /\ b \in Seq(Nat) /\ Len(b) = Len(e) + 1 /\ b[Len(e) + 1] = Heartbeat
      /\ \A i \in 1..Len(e) : b[i] = e[i]
  <2>1. e \in Seq(Nat)
    BY SeqMonotonic
  <2> QED BY <2>1, AppendProperties DEF WithHeartbeat, Heartbeat
<1>2. /\ w \in Seq(Nat) /\ Len(w) = Len(q) + Len(b)
      /\ \A i \in 1..(Len(q) + Len(b)) : w[i] = IF i =< Len(q) THEN q[i] ELSE b[i - Len(q)]
  <2>1. b \in Seq(Nat)
    BY <1>1
  <2> HIDE DEF b
  <2> QED BY <2>1, ConcatProperties
<1>3. Len(q) \in Nat /\ Len(e) \in Nat
  BY LenProperties
<1> HIDE DEF b, w
<1>4. ASSUME NEW i \in 1..Len(w), w[i] # Heartbeat
      PROVE  \/ i \in 1..Len(q) /\ w[i] = q[i]
             \/ /\ i > Len(q) /\ i - Len(q) \in 1..Len(e) /\ w[i] = e[i - Len(q)]
                /\ w[i] \in N
  <2>0. i \in 1..(Len(q) + Len(b)) /\ i \in Nat /\ Len(b) = Len(e) + 1
    BY <1>1, <1>2, <1>3
  <2>1. CASE i =< Len(q)
    BY <2>0, <2>1, <1>2, <1>3
  <2>2. CASE ~(i =< Len(q))
    <3>1. w[i] = b[i - Len(q)] /\ i - Len(q) \in 1..(Len(e) + 1) /\ i > Len(q)
      <4>1. w[i] = b[i - Len(q)]
        BY <2>0, <2>2, <1>2
      <4> QED BY <4>1, <2>0, <2>2, <1>3
    <3>2. i - Len(q) # Len(e) + 1
      BY <3>1, <1>1, <1>4
    <3>3. i - Len(q) \in 1..Len(e)
      BY <3>1, <3>2, <1>3
    <3>4. w[i] = e[i - Len(q)] /\ e[i - Len(q)] \in N
      BY <3>1, <3>3, <1>1, ElementOfSeq
    <3> QED BY <3>1, <3>3, <3>4
  <2> QED BY <2>1, <2>2
<1>5. ASSUME NEW i \in 1..Len(w), NEW j \in 1..Len(w), w[i] # Heartbeat, w[j] # Heartbeat, i < j
      PROVE  \/ /\ i \in 1..Len(q) /\ w[i] = q[i] /\ j \in 1..Len(q) /\ w[j] = q[j]
             \/ i \in 1..Len(q) /\ w[i] = q[i] /\ w[j] \in N
             \/ w[i] \in N /\ w[j] \in N /\ w[i] < w[j]
  <2>0. i \in Nat /\ j \in Nat
    BY <1>2, <1>3, <1>1
  <2>1. CASE i \in 1..Len(q) /\ w[i] = q[i]
    BY <2>1, <1>4, <1>5
  <2>2. CASE i > Len(q) /\ i - Len(q) \in 1..Len(e) /\ w[i] = e[i - Len(q)] /\ w[i] \in N
    <3>1. ~(j \in 1..Len(q))
      BY <2>0, <2>2, <1>3, <1>5
    <3>2. j - Len(q) \in 1..Len(e) /\ w[j] = e[j - Len(q)] /\ w[j] \in N
      BY <3>1, <1>4, <1>5
    <3>3. i - Len(q) < j - Len(q)
      BY <2>0, <1>3, <1>5
    <3> QED BY <2>2, <3>2, <3>3
  <2> QED BY <2>1, <2>2, <1>4, <1>5
<1>6. \A x \in N : x \in Nat /\ x \notin sn /\ (x \in snt => x \in f)
  BY DEF Known
<1>7. Known(w, snt, sn \cup N, f)
  <2>1. ASSUME NEW i \in 1..Len(w), w[i] # Heartbeat
        PROVE  w[i] \in (sn \cup N) \cup f /\ (w[i] \in snt => w[i] \in f)
    BY <2>1, <1>4, <1>6 DEF Known
  <2>2. ASSUME NEW i \in 1..Len(w), NEW j \in 1..Len(w), w[i] # Heartbeat, w[j] # Heartbeat, i < j,
               w[i] = w[j]
        PROVE  w[i] \in f
    <3>1. CASE i \in 1..Len(q) /\ w[i] = q[i] /\ j \in 1..Len(q) /\ w[j] = q[j]
      <4>1. i # j
        BY <2>2, <1>2, <1>3
      <4> QED BY <3>1, <4>1, <2>2 DEF Known
    <3>2. CASE i \in 1..Len(q) /\ w[i] = q[i] /\ w[j] \in N
      BY <3>2, <2>2, <1>6 DEF Known
    <3>3. CASE w[i] \in N /\ w[j] \in N /\ w[i] < w[j]
      <4>1. w[i] \in Nat /\ w[j] \in Nat /\ w[i] < w[j]
        BY <3>3, <1>6
      <4>2. w[i] # w[j]
        BY <4>1
      <4> QED BY <4>2, <2>2
    <3> QED BY <3>1, <3>2, <3>3, <2>2, <1>5
  <2>3. ASSUME NEW i \in 1..Len(w), NEW j \in 1..Len(w), w[i] # Heartbeat, i # j,
               w[i] = w[j]
        PROVE  w[i] \in f
    <3>1. i < j \/ j < i
      BY <2>3, <1>2, <1>3
    <3> QED BY <3>1, <2>2, <2>3
  <2>4. snt \subseteq (sn \cup N) \cup f
    BY DEF Known
  <2> QED BY <2>1, <2>3, <2>4 DEF Known
<1>8. ASSUME Ordered(q, snt), \A x \in N, y \in sn \cup f : y < x PROVE Ordered(w, snt)
  <2>1. ASSUME NEW i \in 1..Len(w), NEW j \in 1..Len(w), w[i] # Heartbeat, w[j] # Heartbeat, i < j
        PROVE  w[i] < w[j]
    <3>1. CASE i \in 1..Len(q) /\ w[i] = q[i] /\ j \in 1..Len(q) /\ w[j] = q[j]
      BY <3>1, <2>1, <1>8 DEF Ordered
    <3>2. CASE i \in 1..Len(q) /\ w[i] = q[i] /\ w[j] \in N
      BY <3>2, <2>1, <1>8 DEF Known
    <3> QED BY <3>1, <3>2, <2>1, <1>5
  <2>2. ASSUME NEW i \in 1..Len(w), w[i] # Heartbeat, NEW l \in snt PROVE l < w[i]
    <3>1. CASE i \in 1..Len(q) /\ w[i] = q[i]
      BY <3>1, <2>2, <1>8 DEF Ordered
    <3>2. CASE w[i] \in N
      BY <3>2, <2>2, <1>8 DEF Known
    <3> QED BY <3>1, <3>2, <2>2, <1>4
  <2> QED BY <2>1, <2>2 DEF Ordered
<1>9. RecordsOf(w) = RecordsOf(q) \cup ToSet(e)
  <2>0. DOMAIN e = 1..Len(e)
    BY LenProperties
  <2>1. ASSUME NEW i \in 1..Len(w), w[i] # Heartbeat PROVE w[i] \in RecordsOf(q) \cup ToSet(e)
    <3>1. CASE i \in 1..Len(q) /\ w[i] = q[i]
      BY <2>1, <3>1 DEF RecordsOf
    <3>2. CASE i - Len(q) \in 1..Len(e) /\ w[i] = e[i - Len(q)]
      BY <2>0, <3>2 DEF ToSet
    <3> QED BY <2>1, <3>1, <3>2, <1>4
  <2>2. ASSUME NEW i \in 1..Len(q), q[i] # Heartbeat PROVE q[i] \in RecordsOf(w)
    <3>0. Len(b) \in Nat /\ i \in Nat /\ i =< Len(q) /\ i \in 1..(Len(q) + Len(b))
      BY <1>1, <1>3
    <3>1. i \in 1..Len(w) /\ w[i] = q[i]
      BY <3>0, <1>2
    <3> QED BY <2>2, <3>1 DEF RecordsOf
  <2>3. ASSUME NEW i \in 1..Len(e) PROVE e[i] \in RecordsOf(w)
    <3>1. /\ i \in Nat /\ Len(q) + i \in 1..Len(w) /\ Len(q) + i \in 1..(Len(q) + Len(b))
          /\ ~(Len(q) + i =< Len(q)) /\ (Len(q) + i) - Len(q) = i
      <4>1. /\ i \in Nat /\ 1 =< i /\ i =< Len(e) /\ Len(b) = Len(e) + 1
            /\ Len(w) = Len(q) + Len(b)
        BY <1>1, <1>2, <1>3
      <4> QED BY <4>1, <1>3
    <3>2. w[Len(q) + i] = b[(Len(q) + i) - Len(q)]
      BY <3>1, <1>2
    <3>3. w[Len(q) + i] = e[i] /\ e[i] \in N
      BY <3>1, <3>2, <1>1, ElementOfSeq
    <3> QED BY <3>1, <3>3 DEF RecordsOf
  <2> QED BY <2>0, <2>1, <2>2, <2>3 DEF RecordsOf, ToSet
<1> QED BY <1>7, <1>8, <1>9 DEF w, b

(* What waits are the records of the channel and of the batch.             *)
LEMMA WaitingRecords ==
  ASSUME NEW c \in Seq(Nat), NEW b \in Seq(Nat)
  PROVE  RecordsOf(c \o b) = (ToSet(c) \cup ToSet(b)) \ {Heartbeat}
<1> DEFINE w == c \o b
<1>1. /\ w \in Seq(Nat) /\ Len(w) = Len(c) + Len(b)
      /\ \A i \in 1..(Len(c) + Len(b)) : w[i] = IF i =< Len(c) THEN c[i] ELSE b[i - Len(c)]
  BY ConcatProperties
<1>2. Len(c) \in Nat /\ Len(b) \in Nat /\ DOMAIN c = 1..Len(c) /\ DOMAIN b = 1..Len(b)
  BY LenProperties
<1> HIDE DEF w
<1>3. ASSUME NEW i \in 1..Len(w) PROVE w[i] \in ToSet(c) \cup ToSet(b)
  <2>0. i \in Nat /\ i \in 1..(Len(c) + Len(b))
    BY <1>1, <1>2
  <2>1. CASE i =< Len(c)
    <3>1. w[i] = c[i] /\ i \in 1..Len(c)
      BY <2>0, <2>1, <1>1, <1>2
    <3> QED BY <3>1, <1>2 DEF ToSet
  <2>2. CASE ~(i =< Len(c))
    <3>1. w[i] = b[i - Len(c)] /\ i - Len(c) \in 1..Len(b)
      <4>1. w[i] = b[i - Len(c)]
        BY <2>0, <2>2, <1>1
      <4> QED BY <4>1, <2>0, <2>2, <1>2
    <3> QED BY <3>1, <1>2 DEF ToSet
  <2> QED BY <2>1, <2>2
<1>4. ASSUME NEW i \in 1..Len(c) PROVE i \in 1..Len(w) /\ w[i] = c[i]
  BY <1>1, <1>2
<1>5. ASSUME NEW i \in 1..Len(b) PROVE Len(c) + i \in 1..Len(w) /\ w[Len(c) + i] = b[i]
  <2>1. /\ i \in Nat /\ Len(c) + i \in 1..(Len(c) + Len(b)) /\ ~(Len(c) + i =< Len(c))
        /\ (Len(c) + i) - Len(c) = i
    BY <1>2
  <2>2. w[Len(c) + i] = b[(Len(c) + i) - Len(c)]
    BY <2>1, <1>1
  <2> QED BY <2>1, <2>2, <1>1
<1>6. RecordsOf(w) \subseteq (ToSet(c) \cup ToSet(b)) \ {Heartbeat}
  BY <1>3 DEF RecordsOf
<1>7. ASSUME NEW x \in (ToSet(c) \cup ToSet(b)) \ {Heartbeat} PROVE x \in RecordsOf(w)
  <2>1. PICK i \in 1..Len(w) : w[i] = x
    BY <1>2, <1>4, <1>5 DEF ToSet
  <2> QED BY <2>1, <1>7 DEF RecordsOf
<1> QED BY <1>6, <1>7 DEF w

(* An event leaves the channel, its record is among the ones that were     *)
(* sent, and nothing else changes for the records.                         *)
LEMMA SendInv ==
  ASSUME ColInv, chan # <<>>, chan' = Tail(chan),
         UNCHANGED <<wal, seen, batch, cut, forgotten, restarted, unread>>,
         \/ lost' = lost /\ delivered' = delivered \cup Records(Head(chan))
         \/ delivered' = delivered /\ lost' = lost \cup Records(Head(chan))
  PROVE  ColInv'
<1>1. /\ Tail(chan) \in Seq(Nat) /\ Head(chan) \in Nat
      /\ Waiting \in Seq(Nat) /\ Waiting' \in Seq(Nat)
      /\ Len(Waiting) \in Nat \ {0} /\ Waiting[1] = Head(chan)
      /\ Len(Waiting') = Len(Waiting) - 1
      /\ \A i \in 1..Len(Waiting') : Waiting'[i] = Waiting[i + 1]
  BY PopKeeps DEF ColInv, ColTypeOK, Waiting
<1>2. Records(Head(chan)) \subseteq Nat
  BY <1>1 DEF Records
<1>3. (delivered \cup lost)' = (delivered \cup lost) \cup Records(Waiting[1])
  BY <1>1
<1>4. ColTypeOK'
  BY <1>1, <1>2 DEF ColInv, ColTypeOK
<1>5. /\ Known(Waiting', (delivered \cup lost) \cup Records(Waiting[1]), seen, forgotten)
      /\ Records(Waiting[1]) \cap (delivered \cup lost) \subseteq forgotten
      /\ RecordsOf(Waiting) = Records(Waiting[1]) \cup RecordsOf(Waiting')
      /\ Ordered(Waiting, delivered \cup lost)
           => Ordered(Waiting', (delivered \cup lost) \cup Records(Waiting[1]))
  <2> DEFINE snt == delivered \cup lost
             q == Waiting
             t == Waiting'
  <2>1. Known(q, snt, seen, forgotten)
    BY DEF ColInv
  <2>2. /\ q \in Seq(Nat) /\ t \in Seq(Nat) /\ Len(q) \in Nat \ {0} /\ Len(t) = Len(q) - 1
        /\ \A i \in 1..Len(t) : t[i] = q[i + 1]
    BY <1>1
  <2> HIDE DEF snt, q, t
  <2>3. /\ Known(t, snt \cup Records(q[1]), seen, forgotten)
        /\ Records(q[1]) \cap snt \subseteq forgotten
        /\ RecordsOf(q) = Records(q[1]) \cup RecordsOf(t)
        /\ Ordered(q, snt) => Ordered(t, snt \cup Records(q[1]))
    BY <2>1, <2>2, SentKeeps
  <2> QED BY <2>3 DEF snt, q, t
<1>6. Known(Waiting, delivered \cup lost, seen, forgotten)'
  BY <1>3, <1>5
<1>7. Settled'
  <2>1. Reported' = Reported /\ Found' = Found
    <3>1. Reported = (delivered \cup lost) \cup RecordsOf(Waiting)
      BY DEF Reported, RecordAt, RecordsOf
    <3>2. Reported' = (delivered' \cup lost') \cup RecordsOf(Waiting')
      BY DEF Reported, RecordAt, RecordsOf
    <3> QED BY <3>1, <3>2, <1>3, <1>5 DEF Found
  <2>2. (delivered \cap lost)' \subseteq forgotten
    BY <1>1, <1>5 DEF ColInv, Settled
  <2> QED BY <2>1, <2>2 DEF ColInv, Settled, Accounted
<1>8. (forgotten = {} /\ ~unread => /\ Ordered(Waiting, delivered \cup lost)
                                   /\ \E p \in 0..wal : Covered(p, seen))'
  <2> SUFFICES ASSUME forgotten = {}, ~unread
               PROVE  /\ Ordered(Waiting', (delivered \cup lost)')
                      /\ \E p \in 0..wal : Covered(p, seen)
    BY DEF Covered, SegmentOf
  <2>1. Ordered(Waiting, delivered \cup lost) /\ \E p \in 0..wal : Covered(p, seen)
    BY DEF ColInv
  <2>2. Ordered(Waiting', (delivered \cup lost) \cup Records(Waiting[1]))
    BY <1>5, <2>1
  <2> QED BY <2>1, <2>2, <1>3
<1> QED BY <1>4, <1>6, <1>7, <1>8 DEF ColInv

(* The steps that leave what waits, was sent and is known as it is.        *)
LEMMA SameInv ==
  ASSUME ColInv, ColTypeOK', Waiting' = Waiting, wal' \in {wal, wal + 1},
         UNCHANGED <<seen, history>>
  PROVE  ColInv'
<1>1. UNCHANGED <<delivered, lost, cut, forgotten, restarted, unread>>
  BY DEF history
<1>2. Known(Waiting, delivered \cup lost, seen, forgotten)'
  BY <1>1 DEF ColInv, Known
<1>3. Settled'
  <2>1. Reported' = Reported /\ Found' = Found
    BY <1>1 DEF Reported, RecordAt, Found
  <2> QED BY <2>1, <1>1 DEF ColInv, Settled, Accounted
<1>4. (forgotten = {} /\ ~unread => /\ Ordered(Waiting, delivered \cup lost)
                                   /\ \E p \in 0..wal : Covered(p, seen))'
  <2> SUFFICES ASSUME forgotten = {}, ~unread
               PROVE  /\ Ordered(Waiting, delivered \cup lost)
                      /\ \E p \in 0..wal' : Covered(p, seen)
    BY <1>1 DEF Ordered, Covered, SegmentOf
  <2>1. PICK p \in 0..wal : Covered(p, seen)
    BY DEF ColInv
  <2>2. p \in 0..wal'
    BY DEF ColInv, ColTypeOK
  <2> QED BY <2>1, <2>2 DEF ColInv
<1> QED BY <1>2, <1>3, <1>4 DEF ColInv

(* A poll finds records that are not in the set, reports the last of them  *)
(* and passes over the others.                                             *)
LEMMA PollInv ==
  ASSUME ColInv, Poll
  PROVE  ColInv'
<1>1. PICK readable \in SUBSET LastSegments :
        LET found == {l \in 1..wal : SegmentOf(l) \in readable}
            events == LastOf(InOrder(found \ seen), Limit)
        IN  /\ batch' = WithHeartbeat(events)
            /\ InsertSeen(found, events)
            /\ cut' = cut \cup ((found \ seen) \ ToSet(events))
            /\ unread' = (unread \/ readable # LastSegments)
  BY DEF Poll
<1> DEFINE found == {l \in 1..wal : SegmentOf(l) \in readable}
           new == found \ seen
           events == LastOf(InOrder(new), Limit)
           E == ToSet(events)
<1>2. /\ batch' = WithHeartbeat(events) /\ InsertSeen(found, events)
      /\ cut' = cut \cup (new \ E)
      /\ unread' = (unread \/ readable # LastSegments)
  BY <1>1
<1>3. batch = <<>> /\ UNCHANGED <<wal, chan, delivered, lost, restarted>>
  BY DEF Poll
<1>4. wal \in Nat /\ chan \in Seq(Nat) /\ seen \subseteq 1..wal /\ found \subseteq 1..wal
      /\ forgotten \subseteq 1..wal
  BY DEF ColInv, ColTypeOK
<1>5. IsFiniteSet(new) /\ new \subseteq Nat \ {Heartbeat} /\ new \cap seen = {} /\ new \subseteq Nat
  <2>1. IsFiniteSet(1..wal)
    BY <1>4, FS_Interval
  <2>2. IsFiniteSet(new)
    BY <2>1, <1>4, FS_Subset
  <2> QED BY <2>2, <1>4 DEF Heartbeat
<1>6. events \in Seq(new) /\ \A i, j \in 1..Len(events) : i < j => events[i] < events[j]
  <2>1. /\ InOrder(new) \in Seq(new)
        /\ \A i, j \in 1..Len(InOrder(new)) : i < j => InOrder(new)[i] < InOrder(new)[j]
    BY <1>5, Ranked
  <2> HIDE DEF new
  <2> QED BY <2>1, <1>5, LastOfProperties, LimitAssumption
<1>7. E \subseteq new
  BY <1>6, LenProperties, ElementOfSeq DEF ToSet
<1>8. batch' \in Seq(Nat)
  <2>1. events \in Seq(Nat)
    BY <1>5, <1>6, SeqMonotonic
  <2> HIDE DEF events
  <2> QED BY <2>1, <1>2, AppendProperties DEF WithHeartbeat, Heartbeat
<1>9. /\ seen' = IF Cardinality(seen \cup found) > SeenCap THEN E ELSE seen \cup found
      /\ forgotten' = forgotten \cup ((seen \cup found) \ seen')
  BY <1>2 DEF InsertSeen
<1>10. Waiting = chan /\ Waiting' = chan \o WithHeartbeat(events)
  BY <1>2, <1>3, <1>4, ConcatEmptySeq DEF Waiting
<1>11. ASSUME NEW l \in new \ E
       PROVE  Cardinality(E) = Limit /\ \A k \in E : k > l
  <2> HIDE DEF new
  <2> QED BY <1>5, <1>11, CutOff, LimitAssumption
<1> HIDE DEF events, E
<1>12. /\ seen' \subseteq 1..wal /\ forgotten' \subseteq 1..wal /\ forgotten \subseteq forgotten'
       /\ seen' \cup forgotten' = (seen \cup forgotten) \cup new
       /\ forgotten' = {} => forgotten = {} /\ seen' = seen \cup found
       /\ forgotten = {} /\ forgotten' # {} => Cardinality(seen \cup found) > SeenCap
  <2>1. seen' \subseteq seen \cup found
    BY <1>9, <1>7
  <2> QED BY <2>1, <1>9, <1>4
<1>13. ColTypeOK'
  BY <1>2, <1>3, <1>8, <1>12 DEF ColInv, ColTypeOK
<1>14. Known(Waiting, delivered \cup lost, seen, forgotten)'
       /\ RecordsOf(Waiting') = RecordsOf(chan) \cup E
  <2>1. Known(chan, delivered \cup lost, seen, forgotten)
    BY <1>10 DEF ColInv
  <2>2. /\ Known(chan \o WithHeartbeat(events), delivered \cup lost, seen \cup new, forgotten)
        /\ RecordsOf(chan \o WithHeartbeat(events)) = RecordsOf(chan) \cup ToSet(events)
    <3> HIDE DEF new
    <3> QED BY <2>1, <1>4, <1>5, <1>6, BatchKeeps
  <2>3. Known(Waiting', delivered \cup lost, seen \cup new, forgotten)
        /\ RecordsOf(Waiting') = RecordsOf(chan) \cup E
    BY <2>2, <1>10 DEF E
  <2>4. (seen \cup new) \cup forgotten \subseteq seen' \cup forgotten'
    BY <1>12
  <2>5. Known(Waiting', delivered \cup lost, seen', forgotten')
    <3> HIDE DEF new
    <3> QED BY <2>3, <2>4, <1>12 DEF Known
  <2> QED BY <2>3, <2>5, <1>3
<1>15. /\ Reported' = Reported \cup E /\ Found' = Found \cup new
       /\ Reported \subseteq Found /\ IsFiniteSet(Reported)
  <2>1. /\ Reported = (delivered \cup lost) \cup RecordsOf(chan)
        /\ Reported \subseteq Found /\ IsFiniteSet(Reported)
    BY <1>10, FoundFinite
  <2>2. Reported' = (delivered' \cup lost') \cup RecordsOf(Waiting')
    BY DEF Reported, RecordAt, RecordsOf
  <2>3. Found' = Found \cup new
    BY <1>12 DEF Found
  <2> QED BY <2>1, <2>2, <2>3, <1>3, <1>14
<1>16. Settled'
  <2>0. IsFiniteSet(E) /\ IsFiniteSet(Reported \cup E) /\ E \subseteq Nat
        /\ Reported \subseteq Nat
    <3>1. IsFiniteSet(E)
      BY <1>5, <1>7, FS_Subset
    <3>2. IsFiniteSet(Reported \cup E)
      BY <3>1, <1>15, FS_Union
    <3>3. Found \subseteq Nat
      BY <1>4 DEF Found
    <3> QED BY <3>1, <3>2, <3>3, <1>5, <1>7, <1>15
  <2>1. ASSUME NEW l \in cut' PROVE Cardinality({k \in Reported' : k > l}) >= Limit
    <3> DEFINE L == {k \in Reported \cup E : k > l}
    <3>1. IsFiniteSet(L) /\ Cardinality(L) \in Nat
      <4>1. L \subseteq Reported \cup E
        OBVIOUS
      <4> QED BY <4>1, <2>0, FS_Subset, FS_CardinalityType
    <3>2. CASE l \in cut
      <4> DEFINE K == {k \in Reported : k > l}
      <4>1. Cardinality(K) >= Limit
        BY <3>2 DEF ColInv, Settled, Accounted
      <4>2. K \subseteq L
        OBVIOUS
      <4>3. IsFiniteSet(K) /\ Cardinality(K) =< Cardinality(L)
        <5> HIDE DEF K, L
        <5> QED BY <4>2, <3>1, FS_Subset
      <4>4. Cardinality(K) \in Nat
        BY <4>3, FS_CardinalityType
      <4>5. Cardinality(L) >= Limit
        <5> HIDE DEF K, L
        <5> QED BY <4>1, <4>3, <4>4, <3>1, LimitAssumption
      <4> QED BY <4>5, <1>15
    <3>3. CASE l \in new \ E
      <4>1. Cardinality(E) = Limit /\ E \subseteq L
        BY <3>3, <1>11
      <4>2. Cardinality(E) =< Cardinality(L)
        <5> HIDE DEF L
        <5> QED BY <4>1, <3>1, FS_Subset
      <4>3. Cardinality(L) >= Limit
        <5> HIDE DEF L
        <5> QED BY <4>1, <4>2, <3>1, LimitAssumption
      <4> QED BY <4>3, <1>15
    <3> QED BY <3>2, <3>3, <1>2
  <2>2. Accounted' /\ (cut \subseteq Found)'
    <3>1. Found \subseteq Reported \cup cut /\ cut \subseteq Found
      BY DEF ColInv, Settled, Accounted
    <3>2. Found' \subseteq Reported' \cup cut' /\ cut' \subseteq Found'
      BY <3>1, <1>2, <1>7, <1>15
    <3>3. (\A l \in cut : Cardinality({k \in Reported : k > l}) >= Limit)'
      BY <2>1
    <3> QED BY <3>2, <3>3 DEF Accounted
  <2>3. (delivered \cap lost)' \subseteq forgotten'
    BY <1>3, <1>12 DEF ColInv, Settled
  <2>4. cut' \cap Reported' \subseteq forgotten'
    <3>1. cut \subseteq seen \cup forgotten /\ cut \cap Reported \subseteq forgotten
          /\ Reported \subseteq seen \cup forgotten
      BY <1>15 DEF ColInv, Settled, Found
    <3>2. E \cap seen = {} /\ new \cap seen = {}
      BY <1>7
    <3> HIDE DEF new
    <3> QED BY <3>1, <3>2, <1>2, <1>12, <1>15
  <2>5. ASSUME forgotten' # {} PROVE restarted' \/ Cardinality(Found') > SeenCap
    <3>0. IsFiniteSet(Found) /\ IsFiniteSet(Found \cup new)
      <4>1. IsFiniteSet(Found)
        BY FoundFinite
      <4> HIDE DEF new
      <4> QED BY <4>1, <1>5, FS_Union
    <3>1. CASE forgotten = {}
      <4>1. seen \cup found = Found \cup new
        BY <3>1 DEF Found
      <4>2. Cardinality(Found \cup new) > SeenCap
        BY <4>1, <3>1, <2>5, <1>12
      <4> QED BY <4>2, <1>15
    <3>2. CASE forgotten # {}
      <4>1. restarted \/ Cardinality(Found) > SeenCap
        BY <3>2 DEF ColInv, Settled
      <4>2. Cardinality(Found) =< Cardinality(Found \cup new)
        <5> HIDE DEF new
        <5> QED BY <3>0, FS_Subset
      <4>3. Cardinality(Found) \in Nat /\ Cardinality(Found \cup new) \in Nat
        <5> HIDE DEF new
        <5> QED BY <3>0, FS_CardinalityType
      <4>4. Cardinality(Found) > SeenCap => Cardinality(Found \cup new) > SeenCap
        <5> DEFINE a == Cardinality(Found)
                   b == Cardinality(Found \cup new)
        <5>1. a \in Nat /\ b \in Nat /\ a =< b
          BY <4>2, <4>3
        <5> HIDE DEF a, b
        <5>2. a > SeenCap => b > SeenCap
          BY <5>1, LimitAssumption
        <5> QED BY <5>2 DEF a, b
      <4> QED BY <4>1, <4>4, <1>3, <1>15
    <3> QED BY <3>1, <3>2
  <2> QED BY <2>2, <2>3, <2>4, <2>5 DEF Settled
<1>17. ASSUME forgotten' = {}, ~unread'
       PROVE  Ordered(Waiting, delivered \cup lost)' /\ (\E p \in 0..wal : Covered(p, seen))'
  <2>1. /\ forgotten = {} /\ ~unread /\ readable = LastSegments /\ seen' = seen \cup found
    BY <1>2, <1>12, <1>17
  <2>2. /\ Known(chan, delivered \cup lost, seen, forgotten)
        /\ Ordered(chan, delivered \cup lost)
        /\ \E p \in 0..wal : Covered(p, seen)
    BY <2>1, <1>10 DEF ColInv
  <2>3. PICK p \in 0..wal : Covered(p, seen)
    BY <2>2
  <2>4. ASSUME NEW l \in 1..wal PROVE l \in found <=> SegmentOf(l) + 1 >= SegmentOf(wal)
    BY <2>1 DEF LastSegments
  <2>5. ASSUME NEW x \in new, NEW y \in seen \cup forgotten PROVE y < x
    <3>1. x \in 1..wal /\ x \notin seen /\ y \in 1..p /\ p \in Nat /\ p =< wal
      BY <1>4, <2>1, <2>3 DEF Covered
    <3>2. SegmentOf(x) + 1 >= SegmentOf(wal)
      BY <2>4, <3>1
    <3>3. x > p
      <4>1. SUFFICES ASSUME x =< p PROVE FALSE
        BY <3>1
      <4>2. p >= 1
        BY <3>1, <4>1
      <4>3. /\ SegmentOf(x) \in Int /\ SegmentOf(p) \in Int /\ SegmentOf(wal) \in Int
            /\ SegmentOf(p) =< SegmentOf(wal)
        BY <3>1, <4>1, <4>2, <1>4, SegmentGrows
      <4>4. SegmentOf(x) + 1 >= SegmentOf(p)
        BY <4>3, <3>2
      <4>5. x \in 1..p
        BY <3>1, <4>1
      <4> QED BY <4>4, <4>5, <3>1, <2>3 DEF Covered
    <3> QED BY <3>1, <3>3
  <2>6. Ordered(chan \o WithHeartbeat(events), delivered \cup lost)
    <3> DEFINE snt == delivered \cup lost
    <3>1. Known(chan, snt, seen, forgotten) /\ Ordered(chan, snt)
      BY <2>2
    <3>2. \A x \in new, y \in seen \cup forgotten : y < x
      BY <2>5
    <3> HIDE DEF new, snt
    <3>3. Ordered(chan \o WithHeartbeat(events), snt)
      BY <3>1, <3>2, <1>4, <1>5, <1>6, BatchKeeps
    <3> QED BY <3>3 DEF snt
  <2>7. Covered(wal, seen')
    BY <2>1, <2>4, <1>4 DEF Covered
  <2>8. (\E q \in 0..wal : Covered(q, seen))'
    BY <2>7, <1>3, <1>4 DEF Covered, SegmentOf
  <2>9. Ordered(Waiting, delivered \cup lost)'
    BY <2>6, <1>3, <1>10
  <2> QED BY <2>8, <2>9
<1> QED BY <1>13, <1>14, <1>16, <1>17 DEF ColInv

(* A restart loses what waits and forgets what was found.                  *)
LEMMA RestartInv ==
  ASSUME ColInv, Restart
  PROVE  ColInv'
<1>1. /\ seen' = {} /\ batch' = <<>> /\ chan' = <<>> /\ restarted'
      /\ restarted' = TRUE /\ forgotten' = forgotten \cup seen
      /\ lost' = lost \cup ((ToSet(batch) \cup ToSet(chan)) \ {Heartbeat})
      /\ UNCHANGED <<wal, delivered, cut, unread>>
  BY DEF Restart
<1>2. /\ ColTypeOK /\ Settled
      /\ Known(Waiting, delivered \cup lost, seen, forgotten)
  BY DEF ColInv
<1>3. RecordsOf(Waiting) = (ToSet(batch) \cup ToSet(chan)) \ {Heartbeat}
  BY <1>2, WaitingRecords DEF ColTypeOK, Waiting
<1>4. Waiting' = <<>> /\ Len(Waiting') = 0
  BY <1>1, EmptySeq, ConcatEmptySeq DEF Waiting
<1>5. /\ Reported = (delivered \cup lost) \cup RecordsOf(Waiting) /\ Reported \subseteq Found
      /\ Found \subseteq 1..wal
  BY FoundFinite
<1>6. (delivered \cup lost)' = Reported
  BY <1>1, <1>3, <1>5
<1>7. Reported' = Reported /\ Found' = Found /\ forgotten' = Found
  <2>1. Reported' = (delivered \cup lost)'
    BY <1>4 DEF Reported, RecordAt
  <2> QED BY <2>1, <1>1, <1>6 DEF Found
<1>8. ColTypeOK'
  <2>1. batch' \in Seq(Nat) /\ chan' \in Seq(Nat)
    BY <1>1, EmptySeq
  <2>2. delivered' \subseteq Nat /\ lost' \subseteq Nat
    <3>0. wal \in Nat
      BY <1>2 DEF ColTypeOK
    <3>2. \A x \in 1..wal : x \in Nat
      BY <3>0
    <3>1. Reported \subseteq Nat
      BY <3>2, <1>5
    <3> QED BY <3>1, <1>6
  <2> QED BY <2>1, <2>2, <1>1, <1>2 DEF ColTypeOK
<1>9. Known(Waiting, delivered \cup lost, seen, forgotten)'
  <2>1. (delivered \cup lost)' \subseteq seen' \cup forgotten'
    BY <1>5, <1>6, <1>7
  <2> QED BY <2>1, <1>4 DEF Known
<1>10. Settled'
  <2>1. Accounted' /\ cut' \subseteq Found'
    BY <1>1, <1>2, <1>7 DEF Settled, Accounted
  <2>2. (delivered \cap lost)' \subseteq Found
    BY <1>5, <1>6
  <2> QED BY <2>1, <2>2, <1>1, <1>5, <1>7 DEF Settled
<1>11. ASSUME forgotten' = {}
       PROVE  Ordered(Waiting, delivered \cup lost)' /\ (\E p \in 0..wal : Covered(p, seen))'
  <2>1. (delivered \cup lost)' = {}
    BY <1>5, <1>6, <1>7, <1>11
  <2>2. Covered(0, seen')
    BY <1>1 DEF Covered
  <2>3. (\E p \in 0..wal : Covered(p, seen))'
    <3>1. 0 \in 0..wal'
      BY <1>1, <1>2 DEF ColTypeOK
    <3> QED BY <3>1, <2>2 DEF Covered, SegmentOf
  <2> QED BY <2>1, <2>3, <1>4 DEF Ordered
<1> QED BY <1>8, <1>9, <1>10, <1>11 DEF ColInv

(* Every step of the collector keeps the invariant.                        *)
LEMMA ColInvNext ==
  ASSUME ColInv, [ColNext]_colVars
  PROVE  ColInv'
<1>1. CASE WalWritten
  <2>1. ColTypeOK' /\ Waiting' = Waiting
    BY <1>1 DEF WalWritten, history, ColInv, ColTypeOK, Waiting
  <2> QED BY <1>1, <2>1, SameInv DEF WalWritten
<1>2. CASE Poll
  BY <1>2, PollInv
<1>3. CASE Push
  <2>1. /\ Append(chan, Head(batch)) \o Tail(batch) = chan \o batch
        /\ Append(chan, Head(batch)) \in Seq(Nat) /\ Tail(batch) \in Seq(Nat)
    BY <1>3, PushKeeps DEF Push, ColInv, ColTypeOK
  <2>2. ColTypeOK' /\ Waiting' = Waiting
    BY <1>3, <2>1 DEF Push, history, ColInv, ColTypeOK, Waiting
  <2> QED BY <1>3, <2>2, SameInv DEF Push
<1>4. CASE ConnectWs
  <2>1. ColTypeOK' /\ Waiting' = Waiting
    BY <1>4 DEF ConnectWs, history, ColInv, ColTypeOK, Waiting
  <2> QED BY <1>4, <2>1, SameInv DEF ConnectWs
<1>5. CASE Break
  <2>1. ColTypeOK' /\ Waiting' = Waiting
    BY <1>5 DEF Break, history, ColInv, ColTypeOK, Waiting
  <2> QED BY <1>5, <2>1, SameInv DEF Break
<1>6. CASE Deliver
  BY <1>6, SendInv DEF Deliver
<1>7. CASE SendInVain
  BY <1>7, SendInv DEF SendInVain
<1>8. CASE SendFails
  BY <1>8, SendInv DEF SendFails
<1>9. CASE Restart
  BY <1>9, RestartInv
<1>10. CASE UNCHANGED colVars
  <2>1. ColTypeOK' /\ Waiting' = Waiting
    BY <1>10 DEF colVars, history, ColInv, ColTypeOK, Waiting
  <2> QED BY <1>10, <2>1, SameInv DEF colVars
<1> QED BY <1>1, <1>2, <1>3, <1>4, <1>5, <1>6, <1>7, <1>8, <1>9, <1>10 DEF ColNext

(* Every record a poll has found waits, was delivered, went with a         *)
(* connection or a restart, or was passed over; it is passed over only     *)
(* for Limit later ones that were reported.  It is reported once unless it *)
(* dropped out of seen_lsns, which takes a restart or more than SeenCap    *)
(* records, and in the order of the log as long as none dropped out and    *)
(* every segment could be read (poll of wal_file.rs, send loop of main.rs).*)
THEOREM CollectorIsSound == ColSpec => []CollectorSound
<1>1. ColInit => ColInv
  <2> SUFFICES ASSUME ColInit PROVE ColInv
    OBVIOUS
  <2>1. ColTypeOK
    BY EmptySeq DEF ColInit, ColTypeOK
  <2>2. Waiting = <<>> /\ Len(Waiting) = 0
    BY EmptySeq, ConcatEmptySeq DEF ColInit, Waiting
  <2>3. /\ Known(Waiting, delivered \cup lost, seen, forgotten)
        /\ Ordered(Waiting, delivered \cup lost)
    BY <2>2 DEF ColInit, Known, Ordered
  <2>4. Covered(0, seen) /\ 0 \in 0..wal
    BY DEF ColInit, Covered
  <2>5. Settled
    BY DEF ColInit, Settled, Accounted, Found
  <2> QED BY <2>1, <2>3, <2>4, <2>5 DEF ColInv
<1>2. ColInv => CollectorSound
  <2> SUFFICES ASSUME ColInv PROVE CollectorSound
    OBVIOUS
  <2>1. ReportedOnce
    BY DEF ColInv, Known, Settled, ReportedOnce, RecordAt
  <2>2. ReportedInOrder
    BY DEF ColInv, Ordered, ReportedInOrder, RecordAt
  <2> QED BY <2>1, <2>2 DEF ColInv, Settled, CollectorSound
<1> QED BY <1>1, <1>2, ColInvNext, PTL DEF ColSpec

-----------------------------------------------------------------------------
(***************************************************************************)
(* The connection manager, for any nodes, settings and readers and any     *)
(* number of clients.                                                      *)
(*                                                                         *)
(* The inductive invariant.  That closing a node's client closes no other  *)
(* node's needs that a client belongs to one node (MapOpen) and that a *)
(* new client has a number nobody holds (Numbered).                        *)
(***************************************************************************)
Numbered ==
  /\ \A n \in Node : conns[n] # NoClient => conns[n] < fresh
  /\ \A r \in Reader : result[r] # NoResult => result[r][2] < fresh
MgrInv == TypeOK /\ ActiveConnected /\ MapOpen /\ ResultConsistent /\ Numbered

USE DEF NoClient, ClientId, NoResult

(* The manager starts in the invariant.                                    *)
LEMMA MgrInvInit == Init => MgrInv
  BY NodeAssumption, MaxClientsAssumption
  DEF Init, MgrInv, TypeOK, ActiveConnected, MapOpen, ResultConsistent, Numbered

(* Activate stores a client with a new number under the node it is for.    *)
LEMMA ActivateInv ==
  ASSUME MgrInv, NEW n \in Node, Activate(n), UNCHANGED readVars
  PROVE  MgrInv'
<1> USE DEF MgrInv
<1>1. fresh \in ClientId /\ fresh # NoClient /\ fresh + 1 \in 1..(MaxClients + 1)
  BY MaxClientsAssumption DEF Activate, Connect, TypeOK
<1>2. /\ opened' = opened \cup {fresh} /\ owner' = [owner EXCEPT ![fresh] = n]
      /\ fresh' = fresh + 1 /\ conns' = [conns EXCEPT ![n] = fresh]
      /\ active' = n /\ cfgStore' = cfgStore /\ loaded' = loaded /\ result' = result
  BY DEF Activate, Connect, readVars
<1>3. TypeOK'
  BY <1>1, <1>2 DEF TypeOK
<1>4. ActiveConnected'
  BY <1>1, <1>2 DEF TypeOK, ActiveConnected
<1>5. MapOpen'
  <2> SUFFICES ASSUME NEW m \in Node, conns'[m] # NoClient
               PROVE  conns'[m] \in opened' /\ owner'[conns'[m]] = m
    BY DEF MapOpen
  <2>1. CASE m = n
    BY <1>1, <1>2, <2>1 DEF TypeOK
  <2>2. CASE m # n
    <3>1. conns'[m] = conns[m] /\ conns[m] < fresh /\ conns[m] \in ClientId
      BY <1>2, <2>2 DEF TypeOK, Numbered
    <3>2. conns[m] # fresh
      BY <1>1, <3>1
    <3> QED BY <1>2, <3>1, <3>2 DEF TypeOK, MapOpen
  <2> QED BY <2>1, <2>2
<1>6. ResultConsistent'
  <2> SUFFICES ASSUME NEW r \in Reader, result[r] # NoResult
               PROVE  /\ result[r][1] \in Node /\ result[r][2] \in ClientId
                      /\ owner'[result[r][2]] = result[r][1]
    BY <1>2 DEF ResultConsistent
  <2>1. /\ result[r][1] \in Node /\ result[r][2] \in ClientId
        /\ owner[result[r][2]] = result[r][1] /\ result[r][2] < fresh
    BY DEF ResultConsistent, Numbered
  <2>2. result[r][2] # fresh
    BY <1>1, <2>1
  <2> QED BY <1>2, <2>1, <2>2 DEF TypeOK
<1>7. Numbered'
  <2>1. \A m \in Node : conns'[m] # NoClient => conns'[m] < fresh + 1
    BY <1>1, <1>2 DEF TypeOK, Numbered
  <2>2. \A r \in Reader : result[r] # NoResult => result[r][2] < fresh + 1
    BY <1>1 DEF Numbered, ResultConsistent
  <2> QED BY <1>2, <2>1, <2>2 DEF Numbered
<1> QED BY <1>3, <1>4, <1>5, <1>6, <1>7

(* Deactivate and Unregister close the client of one node only.            *)
LEMMA DropInv ==
  ASSUME MgrInv, NEW n \in Node, Drop(n), UNCHANGED <<owner, fresh, readVars>>,
         cfgStore' \in [Node -> Config \cup {NoConfig}]
  PROVE  MgrInv'
<1> USE DEF MgrInv, readVars
<1>1. TypeOK'
  BY DEF Drop, TypeOK
<1>2. ActiveConnected'
  BY DEF Drop, TypeOK, ActiveConnected
<1>3. MapOpen'
  <2> SUFFICES ASSUME NEW m \in Node, conns'[m] # NoClient
               PROVE  conns'[m] \in opened' /\ owner[conns'[m]] = m
    BY DEF MapOpen
  <2>1. m # n /\ conns'[m] = conns[m]
    BY DEF Drop, TypeOK
  <2>2. conns[m] \in opened /\ owner[conns[m]] = m
    BY <2>1 DEF MapOpen
  <2>3. conns[m] # conns[n]
    BY <2>1, <2>2 DEF MapOpen
  <2> QED BY <2>1, <2>2, <2>3 DEF Drop
<1>4. ResultConsistent' /\ Numbered'
  BY DEF Drop, TypeOK, ResultConsistent, Numbered
<1> QED BY <1>1, <1>2, <1>3, <1>4

(* Every step keeps the invariant.                                         *)
LEMMA MgrInvStep == MgrInv /\ [Next]_vars => MgrInv'
<1> SUFFICES ASSUME MgrInv, [Next]_vars PROVE MgrInv'
  OBVIOUS
<1>1. ASSUME NEW n \in Node, NEW c \in Config, Register(n, c), UNCHANGED readVars
      PROVE  MgrInv'
  BY <1>1 DEF Register, MgrInv, TypeOK, ActiveConnected, MapOpen,
      ResultConsistent, Numbered, readVars
<1>2. ASSUME NEW n \in Node, Activate(n), UNCHANGED readVars PROVE MgrInv'
  BY <1>2, ActivateInv
<1>3. ASSUME NEW n \in Node, Deactivate(n), UNCHANGED readVars PROVE MgrInv'
  <2>1. cfgStore' \in [Node -> Config \cup {NoConfig}]
    BY <1>3 DEF Deactivate, MgrInv, TypeOK
  <2> QED BY <1>3, <2>1, DropInv DEF Deactivate
<1>4. ASSUME NEW n \in Node, Unregister(n), UNCHANGED readVars PROVE MgrInv'
  <2>1. cfgStore' \in [Node -> Config \cup {NoConfig}]
    BY <1>4 DEF Unregister, MgrInv, TypeOK
  <2> QED BY <1>4, <2>1, DropInv DEF Unregister
<1>5. ASSUME Close, UNCHANGED readVars PROVE MgrInv'
  BY <1>5 DEF Close, MgrInv, TypeOK, ActiveConnected, MapOpen,
      ResultConsistent, Numbered, readVars
<1>6. ASSUME NEW r \in Reader, LoadActive(r) PROVE MgrInv'
  BY <1>6 DEF LoadActive, MgrInv, TypeOK, ActiveConnected, MapOpen,
      ResultConsistent, Numbered, mgrVars
<1>7. ASSUME NEW r \in Reader, Lookup(r) PROVE MgrInv'
  <2> DEFINE n == loaded[r]
  <2>1. n \in Node /\ UNCHANGED mgrVars
    BY <1>7 DEF Lookup, MgrInv, TypeOK
  <2>2. CASE conns[n] = NoClient
    BY <1>7, <2>1, <2>2 DEF Lookup, MgrInv, TypeOK, ActiveConnected, MapOpen,
        ResultConsistent, Numbered, mgrVars
  <2>3. CASE conns[n] # NoClient
    <3>1. result' = [result EXCEPT ![r] = <<n, conns[n]>>]
      BY <1>7, <2>3 DEF Lookup
    <3>2. conns[n] \in ClientId /\ owner[conns[n]] = n /\ conns[n] < fresh
      BY <2>1, <2>3 DEF MgrInv, TypeOK, MapOpen, Numbered
    <3>3. TypeOK'
      BY <1>7, <2>1, <3>1, <3>2 DEF Lookup, MgrInv, TypeOK, mgrVars
    <3>4. ActiveConnected' /\ MapOpen'
      BY <2>1 DEF MgrInv, ActiveConnected, MapOpen, mgrVars
    <3>5. ResultConsistent' /\ Numbered'
      BY <2>1, <3>1, <3>2 DEF MgrInv, TypeOK, ResultConsistent, Numbered, mgrVars
    <3> QED BY <3>3, <3>4, <3>5 DEF MgrInv
  <2> QED BY <2>2, <2>3
<1>8. CASE UNCHANGED vars
  BY <1>8 DEF vars, mgrVars, readVars, MgrInv, TypeOK, ActiveConnected,
      MapOpen, ResultConsistent, Numbered
<1> QED
  BY <1>1, <1>2, <1>3, <1>4, <1>5, <1>6, <1>7, <1>8 DEF Next, MgrNext

(* The invariant holds in every reachable state.                           *)
LEMMA MgrInvAlways == Spec => []MgrInv
  BY MgrInvInit, MgrInvStep, PTL DEF Spec

(* In every behaviour the maps of the connection manager, the active node  *)
(* and the open clients keep their types.                                  *)
THEOREM ConnManagerTypeOK == Spec => []TypeOK
<1>1. MgrInv => TypeOK
  BY DEF MgrInv
<1> QED BY <1>1, MgrInvAlways, PTL

(* In every state the client held for a node is open and is that node's,   *)
(* and the active node, if there is one, has a client.                     *)
THEOREM ConnManagerClientsOpen == Spec => []ClientsOpen
<1>1. MgrInv => ClientsOpen
  BY DEF MgrInv, ClientsOpen
<1> QED BY <1>1, MgrInvAlways, PTL

(* Whatever happens between its two halves, GetActive returns a client of  *)
(* the node it names, or nothing.                                          *)
THEOREM ConnManagerResultConsistent == Spec => []ResultConsistent
<1>1. MgrInv => ResultConsistent
  BY DEF MgrInv
<1> QED BY <1>1, MgrInvAlways, PTL
=============================================================================
