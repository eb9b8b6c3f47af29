----------------------------- MODULE RateLimiter -----------------------------
(***************************************************************************)
(* rateLimitMiddleware: one token bucket per client address in a map under *)
(* a mutex.  A request reads the clock before it waits for the mutex, so   *)
(* the times at which a bucket is used need not be in order.               *)
(*                                                                         *)
(* Tokens are counted in units of 1/Minute of a token: a request costs     *)
(* Minute units and RPM of them are added per tick of the clock.           *)
(***************************************************************************)
EXTENDS Integers, FiniteSets

CONSTANTS
  Requests,   \* HTTP requests that are not exempt
  Clients,    \* addresses, as clientIP returns them
  Minute,     \* ticks in a minute
  RPM,        \* RATE_LIMIT_RPM
  Burst,      \* RATE_LIMIT_BURST
  Keep,       \* 10 minutes: how long an idle bucket is kept
  MapLimit,   \* 5000: buckets from which idle ones are removed
  MaxDelay,   \* bound of the wait for the mutex
  MaxTime     \* bound of the clock

ASSUME FiniteAssumption == IsFiniteSet(Requests)
ASSUME RateAssumption ==
  /\ Minute \in Nat \ {0} /\ RPM \in Nat \ {0} /\ Burst \in Nat \ {0}
  /\ Keep \in Nat /\ MapLimit \in Nat /\ MaxDelay \in Nat /\ MaxTime \in Nat

(* A bucket that is removed would have been full again.                    *)
ASSUME RefillAssumption ==
  MaxDelay <= Keep /\ RPM * (Keep - MaxDelay) >= Burst * Minute

VARIABLES
  clock,     \* time.Now()
  pc,        \* pc[r]: "new", "lock" (waits for rateMu), "admitted", "refused"
  client,    \* client[r]: key
  now,       \* now[r]: the time r read
  rateMap,   \* the buckets that exist
  served     \* served[r]: when r held the mutex

vars == <<clock, pc, client, now, rateMap, served>>

Full == Burst * Minute

Bucket == [tokens : 0 .. Full, updated : 0 .. MaxTime]

Init ==
  /\ clock = 0
  /\ pc = [r \in Requests |-> "new"]
  /\ client \in [Requests -> Clients]
  /\ now = [r \in Requests |-> 0]
  /\ rateMap = << >>
  /\ served = [r \in Requests |-> 0]

Arrive(r) ==
  /\ pc[r] = "new"
  /\ pc' = [pc EXCEPT ![r] = "lock"]
  /\ now' = [now EXCEPT ![r] = clock]
  /\ UNCHANGED <<clock, client, rateMap, served>>

AtMost(n, m) == IF n <= m THEN n ELSE m

(* Seeded faults: time may run backwards and takes tokens away, or is set  *)
(* back and pays twice.                                                    *)
RefilledBack(b, t) ==
  [tokens |-> AtMost(b.tokens + RPM * (t - b.updated), Full), updated |-> t]

RefilledTwice(b, t) ==
  [tokens |-> AtMost(b.tokens + (IF t > b.updated THEN RPM * (t - b.updated) ELSE 0), Full),
   updated |-> t]

(* A bucket is refilled for the time since it last was, and its time never *)
(* goes back.                                                              *)
Refilled(b, t) ==
  IF t > b.updated
    THEN [tokens |-> AtMost(b.tokens + RPM * (t - b.updated), Full), updated |-> t]
    ELSE b

(* Seeded fault: the buckets that are full again go; but an idle one is    *)
(* only refilled when its client comes back.                               *)
CleanedFull(m, t) ==
  IF Cardinality(DOMAIN m) > MapLimit
    THEN [c \in {c \in DOMAIN m : m[c].tokens < Full} |-> m[c]]
    ELSE m

(* Buckets idle for longer than Keep go when there are too many.           *)
Cleaned(m, t) ==
  IF Cardinality(DOMAIN m) > MapLimit
    THEN [c \in {c \in DOMAIN m : m[c].updated >= t - Keep} |-> m[c]]
    ELSE m

(* The bucket of c when a request of time t finds it. *)
BucketAt(c, t) ==
  Refilled(IF c \in DOMAIN rateMap THEN rateMap[c]
           ELSE [tokens |-> Full, updated |-> t], t)

(* The section under rateMu. *)
Limit(r) ==
  /\ pc[r] = "lock"
  /\ LET b == BucketAt(client[r], now[r])
         allowed == b.tokens >= Minute
         spent == IF allowed THEN [b EXCEPT !.tokens = @ - Minute] ELSE b
     IN  /\ pc' = [pc EXCEPT ![r] = IF allowed THEN "admitted" ELSE "refused"]
         /\ rateMap' = Cleaned([c \in DOMAIN rateMap \cup {client[r]} |->
                                  IF c = client[r] THEN spent ELSE rateMap[c]], now[r])
  /\ served' = [served EXCEPT ![r] = clock]
  /\ UNCHANGED <<clock, client, now>>

(* No request waits longer than MaxDelay for the mutex. *)
Tick ==
  /\ clock < MaxTime
  /\ \A r \in Requests : pc[r] = "lock" => clock - now[r] < MaxDelay
  /\ clock' = clock + 1
  /\ UNCHANGED <<pc, client, now, rateMap, served>>

Idle ==
  /\ \A r \in Requests : pc[r] \in {"admitted", "refused"}
  /\ UNCHANGED vars

Next == (\E r \in Requests : Arrive(r) \/ Limit(r)) \/ Tick \/ Idle

Spec == Init /\ [][Next]_vars

(***************************************************************************)
(* Properties.                                                             *)
(***************************************************************************)

(* The bucket of a client holds from 0 to Burst tokens, and no bucket is   *)
(* ahead of the clock.                                                     *)
TypeOK ==
  /\ clock \in 0 .. MaxTime
  /\ pc \in [Requests -> {"new", "lock", "admitted", "refused"}]
  /\ client \in [Requests -> Clients]
  /\ now \in [Requests -> 0 .. MaxTime]
  /\ DOMAIN rateMap \subseteq Clients
  /\ \A c \in DOMAIN rateMap : rateMap[c] \in Bucket /\ rateMap[c].updated <= clock
  /\ served \in [Requests -> 0 .. MaxTime]

(* The requests of c that were let through since time s. *)
Admitted(c, s) ==
  {r \in Requests : pc[r] = "admitted" /\ client[r] = c /\ served[r] >= s}

(* In every period a client gets no more than Burst requests and RPM per   *)
(* minute through, and what accrues in MaxDelay: neither requests that     *)
(* overtake each other on the way to the mutex nor the removal of an idle  *)
(* bucket, which later starts full, lets it exceed the rate.               *)
RateKept ==
  \A c \in Clients, s \in 0 .. clock :
    Cardinality(Admitted(c, s)) * Minute <= Full + RPM * (clock - s + MaxDelay)

(* No request is refused before its client has used up the burst: a        *)
(* request that arrives late does not take tokens away.                    *)
RefusedOnlyAfterBurst ==
  \A r \in Requests :
    pc[r] = "refused" => Cardinality(Admitted(client[r], 0)) >= Burst

Answered(r) == pc[r] \in {"admitted", "refused"}

(* rateLimitMiddleware: cleanup keeps the map bounded.  When it holds more *)
(* than MapLimit buckets, each is that of an address which was active at   *)
(* most Keep, and a wait, before the last request: idle addresses do not   *)
(* pile up, but addresses that are not idle may exceed MapLimit.           *)
MapBounded ==
  Cardinality(DOMAIN rateMap) > MapLimit =>
    \A c \in DOMAIN rateMap, q \in Requests : Answered(q) =>
      \E r \in Requests :
        Answered(r) /\ client[r] = c /\ served[r] >= served[q] - Keep - MaxDelay
=============================================================================
