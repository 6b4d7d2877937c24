----------------------------- MODULE RateLimit -----------------------------
(***************************************************************************)
(* The per-client token-bucket rate limiter (internal/ratelimit).          *)
(*                                                                         *)
(* A request reads the clock, then finds or creates its bucket under the   *)
(* lock of the map, then takes a token under the lock of the bucket.  The  *)
(* three are separate, so a request may take with a time that is older     *)
(* than the one of the take before it, and than the creation of the        *)
(* bucket: take then computes a negative elapsed time.                     *)
(*                                                                         *)
(* Time is counted in ticks of the monotonic clock and tokens in parts, of *)
(* which a token has Token and Rate come back per tick; the rounding of    *)
(* the code's floating-point numbers is left out.  Requests for the exempt *)
(* paths touch no bucket and do not appear.                                *)
(***************************************************************************)
EXTENDS Integers

CONSTANTS Request,   \* requests being served
          Bucket,    \* bucket keys: pairs of a client address and a route
          Capacity,  \* capacity of a bucket, in parts
          Rate,      \* refill rate, in parts per tick
          Token,     \* parts of a token
          MaxTime    \* bound: the last tick

ASSUME PartsAssumption == Capacity \in Nat /\ Rate \in Nat /\ Token \in Nat \ {0}
ASSUME MaxTimeAssumption == MaxTime \in Nat

VARIABLES
  clock,    \* what l.now() returns
  exists,   \* exists[k]: the bucket is in l.buckets
  tokens,   \* tokens[k]: b.tokens, negative after takes out of order
  last,     \* last[k]: b.last
  pc,       \* pc[r]: what request r does next
  key,      \* key[r]: the bucket r uses
  now,      \* now[r]: the time r has read
  granted   \* granted[k][w]: takes by requests that read a time in the
            \*   window w and were let through

limitVars == <<clock, exists, tokens, last, pc, key, now, granted>>

Time   == 0..MaxTime
Window == {w \in Time \X Time : w[1] =< w[2]}
In(t, w) == w[1] =< t /\ t =< w[2]

LimitInit ==
  /\ clock = 0
  /\ exists = [k \in Bucket |-> FALSE]
  /\ tokens = [k \in Bucket |-> 0]
  /\ last = [k \in Bucket |-> 0]
  /\ pc = [r \in Request |-> "idle"]
  /\ key \in [Request -> Bucket]
  /\ now = [r \in Request |-> 0]
  /\ granted = [k \in Bucket |-> [w \in Window |-> 0]]

Tick ==
  /\ clock < MaxTime
  /\ clock' = clock + 1
  /\ UNCHANGED <<exists, tokens, last, pc, key, now, granted>>

(* Middleware: a request for bucket k arrives and reads the clock.         *)
Arrive(r, k) ==
  /\ pc[r] = "idle"
  /\ key' = [key EXCEPT ![r] = k]
  /\ now' = [now EXCEPT ![r] = clock]
  /\ pc' = [pc EXCEPT ![r] = "lookup"]
  /\ UNCHANGED <<clock, exists, tokens, last, granted>>

(* getOrCreate: a new bucket is full and reads the clock again.            *)
getOrCreate(r) ==
  /\ pc[r] = "lookup"
  /\ exists' = [exists EXCEPT ![key[r]] = TRUE]
  /\ IF exists[key[r]]
       THEN UNCHANGED <<tokens, last>>
       ELSE /\ tokens' = [tokens EXCEPT ![key[r]] = Capacity]
            /\ last' = [last EXCEPT ![key[r]] = clock]
  /\ pc' = [pc EXCEPT ![r] = "take"]
  /\ UNCHANGED <<clock, key, now, granted>>

(* What bucket k holds for a take at time t: refilled for the time since   *)
(* the last take, at most the capacity.                                    *)
RefilledUncapped(k, t) == tokens[k] + (t - last[k]) * Rate  \* slip: no cap
Refilled(k, t) ==
  LET sum == tokens[k] + (t - last[k]) * Rate
  IN  IF sum > Capacity THEN Capacity ELSE sum

(* take, with a token: the request is passed on.                           *)
TakeGranted(r) ==
  LET k == key[r] IN
  /\ pc[r] = "take"
  /\ Refilled(k, now[r]) >= Token
  /\ tokens' = [tokens EXCEPT ![k] = Refilled(k, now[r]) - Token]
  /\ last' = [last EXCEPT ![k] = now[r]]
  /\ granted' = [granted EXCEPT ![k] =
                   [w \in Window |-> IF In(now[r], w) THEN @[w] + 1 ELSE @[w]]]
  /\ pc' = [pc EXCEPT ![r] = "idle"]
  /\ UNCHANGED <<clock, exists, key, now>>

(* Slip: a take without a token refills the bucket and keeps b.last.       *)
TakeDeniedKeepsLast(r) ==
  LET k == key[r] IN
  /\ pc[r] = "take"
  /\ Refilled(k, now[r]) < Token
  /\ tokens' = [tokens EXCEPT ![k] = Refilled(k, now[r])]
  /\ pc' = [pc EXCEPT ![r] = "idle"]
  /\ UNCHANGED <<clock, exists, last, key, now, granted>>

(* take, without a token: 429 and Retry-After.                             *)
TakeDenied(r) ==
  LET k == key[r] IN
  /\ pc[r] = "take"
  /\ Refilled(k, now[r]) < Token
  /\ tokens' = [tokens EXCEPT ![k] = Refilled(k, now[r])]
  /\ last' = [last EXCEPT ![k] = now[r]]
  /\ pc' = [pc EXCEPT ![r] = "idle"]
  /\ UNCHANGED <<clock, exists, key, now, granted>>

LimitNext ==
  \/ Tick
  \/ \E r \in Request : \/ \E k \in Bucket : Arrive(r, k)
                        \/ getOrCreate(r) \/ TakeGranted(r) \/ TakeDenied(r)

LimitSpec == LimitInit /\ [][LimitNext]_limitVars

-----------------------------------------------------------------------------
(* The type invariant; times that are stored have been on the clock.       *)
LimitTypeOK ==
  /\ clock \in Time
  /\ exists \in [Bucket -> BOOLEAN]
  /\ tokens \in [Bucket -> Int]
  /\ last \in [Bucket -> Time]
  /\ pc \in [Request -> {"idle", "lookup", "take"}]
  /\ key \in [Request -> Bucket]
  /\ now \in [Request -> Time]
  /\ granted \in [Bucket -> [Window -> Nat]]

(***************************************************************************)
(* What the limiter promises: of the requests that read their time in any  *)
(* window, a bucket lets through no more than its capacity and what is     *)
(* refilled over the window, in whatever order their takes come and        *)
(* however stale the times are they take with.                             *)
(***************************************************************************)
WindowBound ==
  \A k \in Bucket, w \in Window :
    Token * granted[k][w] =< Capacity + Rate * (w[2] - w[1])

(***************************************************************************)
(* Takes with old times do not destroy tokens: what they take off, the     *)
(* next take with a current time gives back, so by the present time a      *)
(* bucket is never in debt.                                                *)
(***************************************************************************)
NoDebt == \A k \in Bucket : tokens[k] + (clock - last[k]) * Rate >= 0
=============================================================================
