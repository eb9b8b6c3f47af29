-------------------------- MODULE RateLimiterProofs --------------------------
(***************************************************************************)
(* Theorems about RateLimiter, for every rate, burst and number of clients *)
(* and requests.                                                           *)
(***************************************************************************)
EXTENDS RateLimiter, FiniteSetTheorems, TLAPS

(* A request waits with a time that is at most MaxDelay old, and has been  *)
(* served in the past.                                                     *)
TimeInv ==
  /\ \A r \in Requests : pc[r] = "lock" => now[r] <= clock /\ clock - now[r] <= MaxDelay
  /\ \A r \in Requests : served[r] <= clock

N(c, s) == Cardinality(Admitted(c, s))

(* What a client has got through since s, with what its bucket still holds *)
(* or would hold, never exceeds the rate.                                  *)
Within(n, b, s) ==
  n = 0 \/ n * Minute + b.tokens <= Full + RPM * (b.updated - s + MaxDelay)

SpentInv ==
  \A c \in Clients, s \in 0 .. clock :
    IF c \in DOMAIN rateMap THEN Within(N(c, s), rateMap[c], s)
    ELSE N(c, s) = 0 \/ N(c, s) * Minute <= RPM * (clock - s)

(* What is missing from a bucket was spent on admitted requests. *)
MissingInv ==
  \A c \in DOMAIN rateMap : rateMap[c].tokens + N(c, 0) * Minute >= Full

Inv == TypeOK /\ TimeInv /\ SpentInv /\ MissingInv /\ RefusedOnlyAfterBurst

LEMMA Times ==
  ASSUME NEW a \in Nat, NEW x \in Int, NEW y \in Int, x <= y
  PROVE a * x \in Int /\ a * y \in Int /\ a * x <= a * y
OBVIOUS

LEMMA FullNat == Full \in Nat /\ Full >= Minute
<1>1. Minute * 1 <= Minute * Burst
  BY Times, RateAssumption
<1> QED BY <1>1, RateAssumption DEF Full

LEMMA CountNat ==
  ASSUME NEW c, NEW s
  PROVE IsFiniteSet(Admitted(c, s)) /\ N(c, s) \in Nat
<1>1. IsFiniteSet(Admitted(c, s))
  BY FiniteAssumption, FS_Subset DEF Admitted
<1> QED BY <1>1, FS_CardinalityType DEF N

LEMMA InitInv == Init => Inv
<1> SUFFICES ASSUME Init PROVE Inv OBVIOUS
<1>1. \A c, s : N(c, s) = 0
  BY FS_EmptySet DEF Init, Admitted, N
<1>2. DOMAIN rateMap = {}
  BY DEF Init
<1> QED BY <1>1, <1>2, RateAssumption
        DEF Init, Inv, TypeOK, TimeInv, SpentInv, MissingInv, RefusedOnlyAfterBurst

(* The bucket a request finds. *)
LEMMA BucketFound ==
  ASSUME Inv, NEW r \in Requests, pc[r] = "lock"
  PROVE LET c == client[r]
            b == BucketAt(c, now[r])
        IN  /\ b \in Bucket /\ b.updated >= now[r] /\ b.updated <= clock
            /\ \A s \in 0 .. clock : Within(N(c, s), b, s)
            /\ b.tokens + N(c, 0) * Minute >= Full
<1> DEFINE c == client[r]
           b == BucketAt(c, now[r])
<1>0. /\ c \in Clients /\ now[r] \in 0 .. MaxTime /\ now[r] <= clock /\ clock - now[r] <= MaxDelay
      /\ clock \in Nat /\ MaxTime \in Nat /\ clock <= MaxTime
  BY RateAssumption DEF Inv, TypeOK, TimeInv
<1>1. CASE c \notin DOMAIN rateMap
  <2>1. b = [tokens |-> Full, updated |-> now[r]]
    BY <1>0, <1>1 DEF BucketAt, Refilled
  <2>2. b \in Bucket
    BY <1>0, <2>1, FullNat DEF Bucket
  <2>3. ASSUME NEW s \in 0 .. clock PROVE Within(N(c, s), b, s)
    <3>1. N(c, s) = 0 \/ N(c, s) * Minute <= RPM * (clock - s)
      BY <1>0, <1>1 DEF Inv, SpentInv
    <3>2. RPM * (clock - s) <= RPM * (now[r] - s + MaxDelay)
      BY <1>0, Times, RateAssumption
    <3>3. N(c, s) * Minute \in Int /\ RPM * (clock - s) \in Int
          /\ RPM * (now[r] - s + MaxDelay) \in Int
      BY <1>0, CountNat, RateAssumption
    <3> QED BY <2>1, <3>1, <3>2, <3>3, FullNat DEF Within
  <2>4. N(c, 0) * Minute \in Nat
    BY CountNat, RateAssumption
  <2> QED BY <1>0, <2>1, <2>2, <2>3, <2>4, FullNat
<1>2. CASE c \in DOMAIN rateMap
  <2> DEFINE o == rateMap[c]
  <2>1. o \in Bucket /\ o.updated <= clock /\ o.tokens \in 0 .. Full /\ o.updated \in Nat
    BY <1>2, <1>0 DEF Inv, TypeOK, Bucket
  <2>2. /\ \A s \in 0 .. clock : Within(N(c, s), o, s)
        /\ o.tokens + N(c, 0) * Minute >= Full
    BY <1>0, <1>2 DEF Inv, SpentInv, MissingInv
  <2>3. CASE now[r] <= o.updated
    <3>1. b = o
      BY <1>0, <1>2, <2>1, <2>3 DEF BucketAt, Refilled
    <3> QED BY <2>1, <2>2, <2>3, <3>1
  <2>4. CASE now[r] > o.updated
    <3> DEFINE gain == RPM * (now[r] - o.updated)
    <3>1. gain \in Nat
      BY <1>0, <2>1, <2>4, RateAssumption
    <3>2. b = [tokens |-> AtMost(o.tokens + gain, Full), updated |-> now[r]]
      BY <1>0, <1>2, <2>1, <2>4 DEF BucketAt, Refilled
    <3> HIDE DEF gain
    <3>3. /\ b.tokens \in 0 .. Full /\ b.tokens <= o.tokens + gain
          /\ b.tokens >= o.tokens
      BY <2>1, <3>1, <3>2, FullNat DEF AtMost
    <3>4. ASSUME NEW s \in 0 .. clock PROVE Within(N(c, s), b, s)
      <4>1. CASE N(c, s) = 0
        BY <4>1 DEF Within
      <4>2. CASE N(c, s) * Minute + o.tokens <= Full + RPM * (o.updated - s + MaxDelay)
        <5>1. RPM * (now[r] - s + MaxDelay) = RPM * (o.updated - s + MaxDelay) + gain
          BY <1>0, <2>1, RateAssumption DEF gain
        <5>2. N(c, s) * Minute \in Int /\ RPM * (o.updated - s + MaxDelay) \in Int
          BY <1>0, <2>1, CountNat, RateAssumption
        <5> QED BY <2>1, <3>1, <3>2, <3>3, <4>2, <5>1, <5>2, FullNat DEF Within
      <4> QED BY <2>2, <4>1, <4>2 DEF Within
    <3>5. N(c, 0) * Minute \in Nat
      BY CountNat, RateAssumption
    <3>6. b \in Bucket /\ b.updated = now[r]
      BY <1>0, <3>2, <3>3 DEF Bucket
    <3>7. b.tokens + N(c, 0) * Minute >= Full
      BY <2>1, <2>2, <3>3, <3>5, FullNat
    <3> QED BY <1>0, <3>4, <3>6, <3>7
  <2> QED BY <1>0, <2>1, <2>3, <2>4
<1> QED BY <1>1, <1>2

(* What the section under the mutex does to the buckets and the counts. *)
LEMMA LimitEffect ==
  ASSUME Inv, NEW r \in Requests, Limit(r), NEW c \in Clients, c = client[r]
  PROVE LET b == BucketAt(c, now[r])
            ok == b.tokens >= Minute
        IN  /\ c \in DOMAIN rateMap'
            /\ rateMap'[c] = IF ok THEN [b EXCEPT !.tokens = @ - Minute] ELSE b
            /\ DOMAIN rateMap' \subseteq DOMAIN rateMap \cup {c}
            /\ \A k \in DOMAIN rateMap' : k # c => rateMap'[k] = rateMap[k]
            /\ \A k \in DOMAIN rateMap \ DOMAIN rateMap' : rateMap[k].updated < now[r] - Keep
            /\ \A s \in 0 .. clock : N(c, s)' = IF ok THEN N(c, s) + 1 ELSE N(c, s)
            /\ \A k, s : k # c => N(k, s)' = N(k, s)
<1> DEFINE b == BucketAt(c, now[r])
           ok == b.tokens >= Minute
           spent == IF ok THEN [b EXCEPT !.tokens = @ - Minute] ELSE b
           m == [k \in DOMAIN rateMap \cup {c} |-> IF k = c THEN spent ELSE rateMap[k]]
<1>0. pc[r] = "lock" /\ now[r] \in Nat /\ Keep \in Nat /\ clock \in Nat
  BY RateAssumption DEF Limit, Inv, TypeOK
<1>1. b \in Bucket /\ b.updated >= now[r] /\ b.updated \in Nat
  BY <1>0, BucketFound DEF Bucket
<1>2. spent.updated >= now[r] - Keep
  BY <1>0, <1>1 DEF Bucket
<1>3. rateMap' = Cleaned(m, now[r])
  BY DEF Limit
<1>4. \A k \in DOMAIN rateMap : rateMap[k].updated \in Nat
  BY RateAssumption DEF Inv, TypeOK, Bucket
<1>5. /\ c \in DOMAIN rateMap' /\ rateMap'[c] = spent
      /\ DOMAIN rateMap' \subseteq DOMAIN rateMap \cup {c}
      /\ \A k \in DOMAIN rateMap' : k # c => rateMap'[k] = rateMap[k]
      /\ \A k \in DOMAIN rateMap \ DOMAIN rateMap' : rateMap[k].updated < now[r] - Keep
  <2> HIDE DEF spent
  <2>1. DOMAIN m = DOMAIN rateMap \cup {c}
        /\ \A k \in DOMAIN m : m[k] = IF k = c THEN spent ELSE rateMap[k]
    OBVIOUS
  <2> HIDE DEF m
  <2>2. CASE Cardinality(DOMAIN m) > MapLimit
    <3>1. rateMap' = [k \in {k \in DOMAIN m : m[k].updated >= now[r] - Keep} |-> m[k]]
      BY <1>3, <2>2 DEF Cleaned
    <3> QED BY <1>0, <1>2, <1>4, <2>1, <3>1
  <2>3. CASE ~ (Cardinality(DOMAIN m) > MapLimit)
    <3>1. rateMap' = m
      BY <1>3, <2>3 DEF Cleaned
    <3> QED BY <2>1, <3>1
  <2> QED BY <2>2, <2>3
<1>6. /\ pc' = [pc EXCEPT ![r] = IF ok THEN "admitted" ELSE "refused"]
      /\ served' = [served EXCEPT ![r] = clock] /\ client' = client
  BY DEF Limit
<1>7. /\ pc \in [Requests -> {"new", "lock", "admitted", "refused"}]
      /\ served \in [Requests -> 0 .. MaxTime]
  BY DEF Inv, TypeOK
<1>8. ASSUME NEW s \in 0 .. clock PROVE N(c, s)' = IF ok THEN N(c, s) + 1 ELSE N(c, s)
  <2>1. CASE ok
    <3>1. Admitted(c, s)' = Admitted(c, s) \cup {r} /\ r \notin Admitted(c, s)
      BY <1>0, <1>6, <1>7, <2>1 DEF Admitted
    <3> QED BY <2>1, <3>1, CountNat, FS_AddElement DEF N
  <2>2. CASE ~ ok
    <3>1. Admitted(c, s)' = Admitted(c, s)
      BY <1>0, <1>6, <1>7, <2>2 DEF Admitted
    <3> QED BY <2>2, <3>1 DEF N
  <2> QED BY <2>1, <2>2
<1>9. ASSUME NEW k, NEW s, k # c PROVE N(k, s)' = N(k, s)
  <2>1. Admitted(k, s)' = Admitted(k, s)
    BY <1>0, <1>6, <1>7, <1>9 DEF Admitted
  <2> QED BY <2>1 DEF N
<1> QED BY <1>5, <1>8, <1>9

LEMMA LimitInv ==
  ASSUME Inv, NEW r \in Requests, Limit(r), NEW c \in Clients, c = client[r]
  PROVE Inv'
<1> DEFINE b == BucketAt(c, now[r])
           ok == b.tokens >= Minute
           spent == IF ok THEN [b EXCEPT !.tokens = @ - Minute] ELSE b
<1>0. /\ pc[r] = "lock" /\ c \in Clients /\ now[r] <= clock /\ clock - now[r] <= MaxDelay
      /\ now[r] \in Nat /\ clock \in Nat /\ MaxTime \in Nat /\ clock <= MaxTime
      /\ Keep \in Nat /\ MaxDelay \in Nat /\ MaxDelay <= Keep /\ Minute \in Nat \ {0}
      /\ RPM \in Nat /\ UNCHANGED <<clock, client, now>>
      /\ pc' = [pc EXCEPT ![r] = IF ok THEN "admitted" ELSE "refused"]
      /\ served' = [served EXCEPT ![r] = clock]
  BY RateAssumption, RefillAssumption DEF Limit, Inv, TypeOK, TimeInv
<1>1. /\ b \in Bucket /\ b.updated >= now[r] /\ b.updated <= clock
      /\ \A s \in 0 .. clock : Within(N(c, s), b, s)
      /\ b.tokens + N(c, 0) * Minute >= Full
  BY <1>0, BucketFound
<1>2. /\ c \in DOMAIN rateMap' /\ rateMap'[c] = spent
      /\ DOMAIN rateMap' \subseteq DOMAIN rateMap \cup {c}
      /\ \A k \in DOMAIN rateMap' : k # c => rateMap'[k] = rateMap[k]
      /\ \A k \in DOMAIN rateMap \ DOMAIN rateMap' : rateMap[k].updated < now[r] - Keep
      /\ \A s \in 0 .. clock : N(c, s)' = IF ok THEN N(c, s) + 1 ELSE N(c, s)
      /\ \A k, s : k # c => N(k, s)' = N(k, s)
  BY LimitEffect
<1>3. /\ spent \in Bucket /\ spent.updated = b.updated
      /\ b.tokens \in 0 .. Full /\ b.updated \in Nat
      /\ spent.tokens = IF ok THEN b.tokens - Minute ELSE b.tokens
  BY <1>0, <1>1, FullNat DEF Bucket
<1> HIDE DEF spent, b
<1>4. TypeOK'
  BY <1>0, <1>1, <1>2, <1>3 DEF Inv, TypeOK
<1>5. TimeInv'
  BY <1>0 DEF Inv, TypeOK, TimeInv
<1>6. ASSUME NEW s \in 0 .. clock PROVE Within(N(c, s)', spent, s)
  <2>1. N(c, s) \in Nat /\ N(c, s) * Minute \in Nat
        /\ (N(c, s) + 1) * Minute = N(c, s) * Minute + Minute
    BY <1>0, CountNat
  <2>2. RPM * (b.updated - s + MaxDelay) \in Nat
    BY <1>0, <1>1, <1>3
  <2>3. CASE ~ ok
    BY <1>1, <1>2, <1>3, <2>3 DEF Within
  <2>4. CASE ok
    <3>1. N(c, s) = 0 \/ N(c, s) * Minute + b.tokens <= Full + RPM * (b.updated - s + MaxDelay)
      BY <1>1 DEF Within
    <3>2. N(c, s)' * Minute = N(c, s) * Minute + Minute
      BY <1>2, <2>1, <2>4
    <3>3. spent.tokens = b.tokens - Minute
      BY <1>3, <2>4
    <3>4. N(c, s) = 0 => N(c, s) * Minute = 0
      BY <1>0
    <3>5. N(c, s)' * Minute + spent.tokens = N(c, s) * Minute + b.tokens
      BY <1>0, <1>3, <2>1, <3>2, <3>3
    <3>6. N(c, s)' * Minute + spent.tokens <= Full + RPM * (b.updated - s + MaxDelay)
      BY <1>3, <2>1, <2>2, <3>1, <3>4, <3>5, FullNat
    <3> QED BY <1>3, <3>6 DEF Within
  <2> QED BY <2>3, <2>4
<1>7. SpentInv'
  <2> SUFFICES ASSUME NEW k \in Clients, NEW s \in 0 .. clock
               PROVE IF k \in DOMAIN rateMap' THEN Within(N(k, s)', rateMap'[k], s)
                     ELSE N(k, s)' = 0 \/ N(k, s)' * Minute <= RPM * (clock - s)
    BY <1>0 DEF SpentInv, Within
  <2>1. CASE k = c
    BY <1>2, <1>6, <2>1
  <2>2. CASE k # c /\ k \in DOMAIN rateMap'
    <3>1. k \in DOMAIN rateMap /\ rateMap'[k] = rateMap[k] /\ N(k, s)' = N(k, s)
      BY <1>2, <2>2
    <3> QED BY <2>2, <3>1 DEF Inv, SpentInv
  <2>3. CASE k # c /\ k \notin DOMAIN rateMap'
    <3>1. N(k, s)' = N(k, s)
      BY <1>2, <2>3
    <3>2. CASE k \notin DOMAIN rateMap
      BY <2>3, <3>1, <3>2 DEF Inv, SpentInv
    <3>3. CASE k \in DOMAIN rateMap
      <4> DEFINE u == rateMap[k].updated
      <4>1. u < now[r] - Keep /\ u \in Nat /\ rateMap[k].tokens \in Nat
        BY <1>2, <2>3, <3>3, RateAssumption, FullNat DEF Inv, TypeOK, Bucket
      <4>2. Within(N(k, s), rateMap[k], s)
        BY <3>3 DEF Inv, SpentInv
      <4>3. RPM * (u - s + MaxDelay) + Full <= RPM * (clock - s)
        <5>1. RPM * ((u - s + MaxDelay) + (Keep - MaxDelay)) <= RPM * (clock - s)
          BY <1>0, <4>1, Times
        <5>2. RPM * ((u - s + MaxDelay) + (Keep - MaxDelay))
              = RPM * (u - s + MaxDelay) + RPM * (Keep - MaxDelay)
          BY <1>0, <4>1
        <5>3. /\ RPM * (u - s + MaxDelay) \in Int /\ RPM * (Keep - MaxDelay) \in Int
              /\ RPM * (clock - s) \in Int
          BY <1>0, <4>1
        <5>4. RPM * (Keep - MaxDelay) >= Full
          BY RefillAssumption DEF Full
        <5> QED BY <5>1, <5>2, <5>3, <5>4, FullNat
      <4>4. /\ N(k, s) * Minute \in Int /\ RPM * (u - s + MaxDelay) \in Int
            /\ RPM * (clock - s) \in Int
        BY <1>0, <4>1, CountNat
      <4>5. N(k, s) = 0 \/ N(k, s) * Minute <= RPM * (clock - s)
        BY <4>1, <4>2, <4>3, <4>4, FullNat DEF Within
      <4> QED BY <2>3, <3>1, <4>5
    <3> QED BY <3>2, <3>3
  <2> QED BY <2>1, <2>2, <2>3
<1>8. \A k, s : s \in 0 .. clock => N(k, s)' >= N(k, s)
  <2> SUFFICES ASSUME NEW k, NEW s, s \in 0 .. clock PROVE N(k, s)' >= N(k, s) OBVIOUS
  <2>1. N(k, s) \in Nat
    BY CountNat
  <2> QED BY <1>2, <2>1
<1>9. MissingInv'
  <2> SUFFICES ASSUME NEW k \in DOMAIN rateMap'
               PROVE rateMap'[k].tokens + N(k, 0)' * Minute >= Full
    BY DEF MissingInv
  <2>1. CASE k # c
    BY <1>2, <2>1 DEF Inv, MissingInv
  <2>2. CASE k = c
    <3>1. N(c, 0) \in Nat /\ N(c, 0) * Minute \in Nat
          /\ (N(c, 0) + 1) * Minute = N(c, 0) * Minute + Minute
      BY <1>0, CountNat
    <3>2. N(c, 0)' = IF ok THEN N(c, 0) + 1 ELSE N(c, 0)
      BY <1>0, <1>2
    <3>3. spent.tokens + N(c, 0)' * Minute = b.tokens + N(c, 0) * Minute
      BY <1>0, <1>3, <3>1, <3>2
    <3> QED BY <1>1, <1>2, <2>2, <3>3
  <2> QED BY <2>1, <2>2
<1>10. RefusedOnlyAfterBurst'
  <2> SUFFICES ASSUME NEW q \in Requests, pc'[q] = "refused",
                      NEW k \in Clients, k = client[q]
               PROVE N(k, 0)' >= Burst
    BY <1>0 DEF RefusedOnlyAfterBurst, N, Inv, TypeOK
  <2>0. N(k, 0) \in Nat /\ 0 \in 0 .. clock
    BY <1>0, CountNat
  <2>1. CASE q # r
    <3>1. N(k, 0) >= Burst
      BY <1>0, <2>1 DEF Inv, TypeOK, RefusedOnlyAfterBurst, N
    <3>2. N(k, 0)' \in Nat /\ N(k, 0)' >= N(k, 0)
      BY <1>2, <1>8, <2>0
    <3> QED BY <2>0, <3>1, <3>2, RateAssumption
  <2>2. CASE q = r
    <3>1. k = c /\ ~ ok
      BY <1>0, <2>2 DEF Inv, TypeOK
    <3>2. N(k, 0)' = N(c, 0)
      BY <1>2, <2>0, <3>1
    <3>3. N(c, 0) * Minute + Minute > Burst * Minute
      BY <1>0, <1>1, <1>3, <2>0, <3>1, RateAssumption DEF Full
    <3>4. ASSUME N(c, 0) < Burst PROVE FALSE
      <4>1. Minute * (N(c, 0) + 1) <= Minute * Burst
        BY <1>0, <2>0, <3>1, <3>4, Times, RateAssumption
      <4>2. Minute * (N(c, 0) + 1) = N(c, 0) * Minute + Minute /\ Minute * Burst = Burst * Minute
        BY <1>0, <2>0, <3>1, RateAssumption
      <4> QED BY <1>0, <2>0, <3>1, <3>3, <4>1, <4>2, RateAssumption
    <3> QED BY <2>0, <3>1, <3>2, <3>4, RateAssumption
  <2> QED BY <2>1, <2>2
<1> QED BY <1>4, <1>5, <1>7, <1>9, <1>10 DEF Inv

(* A step that lets no request through and touches no bucket. *)
LEMMA QuietInv ==
  ASSUME Inv, TypeOK', TimeInv', UNCHANGED <<client, rateMap, served>>, clock' >= clock,
         \A r \in Requests : pc'[r] = pc[r] \/ (pc[r] = "new" /\ pc'[r] = "lock")
  PROVE Inv'
<1>1. \A c, s : N(c, s)' = N(c, s)
  <2> SUFFICES ASSUME NEW c, NEW s PROVE Admitted(c, s)' = Admitted(c, s)
    BY DEF N
  <2> QED BY DEF Admitted
<1>2. clock \in Nat /\ clock' \in Nat /\ clock <= clock'
  <2>1. clock \in Nat /\ clock' \in Nat
    BY RateAssumption DEF Inv, TypeOK
  <2> QED BY <2>1
<1>3. ASSUME NEW c, NEW s \in Nat, s > clock PROVE N(c, s) = 0
  <2>1. \A r \in Requests : served[r] <= clock /\ served[r] \in Nat
    BY RateAssumption DEF Inv, TypeOK, TimeInv
  <2>2. Admitted(c, s) = {}
    BY <1>2, <1>3, <2>1 DEF Admitted
  <2> QED BY <2>2, FS_EmptySet DEF N
<1>4. SpentInv'
  <2> SUFFICES ASSUME NEW c \in Clients, NEW s \in Nat
               PROVE IF c \in DOMAIN rateMap THEN Within(N(c, s), rateMap[c], s)
                     ELSE N(c, s) = 0 \/ N(c, s) * Minute <= RPM * (clock' - s)
    BY <1>1, <1>2 DEF SpentInv, Within
  <2>1. CASE s > clock
    BY <1>3, <2>1 DEF Within
  <2>2. CASE ~ (s > clock)
    <3>1. s \in 0 .. clock
      BY <1>2, <2>2
    <3>2. RPM * (clock - s) <= RPM * (clock' - s)
      <4>1. PICK t \in Nat : t = clock'
        BY <1>2
      <4>2. clock \in Nat /\ clock <= t
        BY <1>2, <4>1
      <4>3. RPM * (clock - s) <= RPM * (t - s)
        BY <4>2, Times, RateAssumption
      <4> QED BY <4>1, <4>3
    <3>3. /\ RPM * (clock - s) \in Int /\ RPM * (clock' - s) \in Int
          /\ N(c, s) * Minute \in Int
      BY <1>2, <3>1, CountNat, RateAssumption
    <3> QED BY <3>1, <3>2, <3>3 DEF Inv, SpentInv
  <2> QED BY <2>1, <2>2
<1>5. MissingInv'
  BY <1>1 DEF Inv, MissingInv
<1>6. RefusedOnlyAfterBurst'
  BY <1>1 DEF Inv, RefusedOnlyAfterBurst, N
<1> QED BY <1>4, <1>5, <1>6 DEF Inv

LEMMA StepInv == Inv /\ [Next]_vars => Inv'
<1> SUFFICES ASSUME Inv, [Next]_vars PROVE Inv' OBVIOUS
<1>1. ASSUME NEW r \in Requests, Arrive(r) PROVE Inv'
  <2>1. TypeOK' /\ TimeInv' /\ clock' >= clock
    BY <1>1, RateAssumption DEF Arrive, Inv, TypeOK, TimeInv
  <2>2. \A q \in Requests : pc'[q] = pc[q] \/ (pc[q] = "new" /\ pc'[q] = "lock")
    BY <1>1 DEF Arrive, Inv, TypeOK
  <2> QED BY <1>1, <2>1, <2>2, QuietInv DEF Arrive
<1>2. ASSUME NEW r \in Requests, Limit(r) PROVE Inv'
  BY <1>2, LimitInv DEF Inv, TypeOK
<1>3. CASE Tick
  <2>1. clock' = clock + 1 /\ clock \in Nat /\ clock' \in 0 .. MaxTime
    BY <1>3, RateAssumption DEF Tick, Inv, TypeOK
  <2>2. TypeOK'
    <3>1. \A c \in DOMAIN rateMap : rateMap[c].updated \in Nat
      BY RateAssumption DEF Inv, TypeOK, Bucket
    <3> QED BY <1>3, <2>1, <3>1 DEF Tick, Inv, TypeOK
  <2>3. TimeInv'
    <3>1. \A q \in Requests : now[q] \in Nat /\ served[q] \in Nat
      BY RateAssumption DEF Inv, TypeOK
    <3> QED BY <1>3, <2>1, <3>1, RateAssumption DEF Tick, Inv, TimeInv
  <2> QED BY <1>3, <2>1, <2>2, <2>3, QuietInv DEF Tick
<1>4. CASE UNCHANGED vars
  BY <1>4 DEF vars, Inv, TypeOK, TimeInv, SpentInv, MissingInv, RefusedOnlyAfterBurst,
              N, Admitted, Within
<1> QED BY <1>1, <1>2, <1>3, <1>4 DEF Next, Idle

LEMMA Invariant == Spec => []Inv
BY InitInv, StepInv, PTL DEF Spec

LEMMA InvImpliesRate == Inv => RateKept
<1> SUFFICES ASSUME Inv, NEW c \in Clients, NEW s \in 0 .. clock
             PROVE N(c, s) * Minute <= Full + RPM * (clock - s + MaxDelay)
  BY DEF RateKept, N
<1>0. clock \in Nat /\ MaxDelay \in Nat /\ RPM \in Nat /\ Minute \in Nat
  BY RateAssumption DEF Inv, TypeOK
<1>1. /\ N(c, s) \in Nat /\ N(c, s) * Minute \in Nat
      /\ RPM * (clock - s + MaxDelay) \in Nat /\ RPM * (clock - s) \in Nat
      /\ RPM * (clock - s) <= RPM * (clock - s + MaxDelay)
  BY <1>0, CountNat, Times
<1>2. CASE N(c, s) = 0
  BY <1>0, <1>1, <1>2, FullNat
<1>3. CASE c \notin DOMAIN rateMap
  BY <1>1, <1>2, <1>3, FullNat DEF Inv, SpentInv
<1>4. CASE c \in DOMAIN rateMap /\ N(c, s) # 0
  <2> DEFINE u == rateMap[c].updated
  <2>1. u \in Nat /\ u <= clock /\ rateMap[c].tokens \in Nat
    BY <1>4, RateAssumption, FullNat DEF Inv, TypeOK, Bucket
  <2>2. N(c, s) * Minute + rateMap[c].tokens <= Full + RPM * (u - s + MaxDelay)
    BY <1>4 DEF Inv, SpentInv, Within
  <2>3. /\ RPM * (u - s + MaxDelay) <= RPM * (clock - s + MaxDelay)
        /\ RPM * (u - s + MaxDelay) \in Int
    BY <1>0, <2>1, Times
  <2> QED BY <1>1, <2>1, <2>2, <2>3, FullNat
<1> QED BY <1>2, <1>3, <1>4

(* Buckets never hold less than nothing or more than the burst. *)
THEOREM BucketsTyped == Spec => []TypeOK
BY Invariant, PTL DEF Inv

(* The rate is kept in every period, by every client.                      *)
THEOREM RateIsKept == Spec => []RateKept
BY Invariant, InvImpliesRate, PTL

(* Nobody is refused before the burst is used up.                          *)
THEOREM RefusedOnlyAfterBurstHolds == Spec => []RefusedOnlyAfterBurst
BY Invariant, PTL DEF Inv

(***************************************************************************)
(* The map of buckets.                                                     *)
(***************************************************************************)

(* The time of a bucket is that of a request of its client, and when there *)
(* are too many, none is older than the last request allows.               *)
UsedInv ==
  /\ \A r \in Requests : Answered(r) => served[r] - MaxDelay <= now[r] /\ now[r] <= served[r]
  /\ \A c \in DOMAIN rateMap :
       \E r \in Requests : Answered(r) /\ client[r] = c /\ now[r] = rateMap[c].updated
  /\ Cardinality(DOMAIN rateMap) > MapLimit =>
       \A c \in DOMAIN rateMap, q \in Requests :
         Answered(q) => rateMap[c].updated >= served[q] - Keep - MaxDelay

(* Only a step under the mutex touches the map and the answers. *)
LEMMA QuietUsed ==
  ASSUME UsedInv, UNCHANGED <<client, rateMap, served>>,
         \A r \in Requests : Answered(r)' = Answered(r) /\ (Answered(r) => now'[r] = now[r])
  PROVE  UsedInv'
BY DEF UsedInv

LEMMA LimitUsed ==
  ASSUME Inv, UsedInv, NEW r \in Requests, Limit(r), NEW k \in Clients, k = client[r]
  PROVE  UsedInv'
<1> DEFINE b == BucketAt(k, now[r])
           kept == IF b.tokens >= Minute THEN [b EXCEPT !.tokens = @ - Minute] ELSE b
           all == [c \in DOMAIN rateMap \cup {k} |-> IF c = k THEN kept ELSE rateMap[c]]
<1>1. /\ pc[r] = "lock" /\ UNCHANGED <<clock, client, now>>
      /\ rateMap' = Cleaned(all, now[r])
      /\ \E l \in {"admitted", "refused"} : pc' = [pc EXCEPT ![r] = l]
      /\ served' = [served EXCEPT ![r] = clock]
  BY DEF Limit
<1>2. /\ now[r] <= clock /\ clock - now[r] <= MaxDelay
      /\ \A q \in Requests : now[q] \in Nat /\ served[q] \in Nat /\ served[q] <= clock
      /\ clock \in Nat /\ MaxDelay \in Nat /\ Keep \in Nat /\ MapLimit \in Nat
  BY <1>1, RateAssumption DEF Inv, TypeOK, TimeInv
<1>3. /\ Answered(r)' /\ ~ Answered(r) /\ served'[r] = clock
      /\ \A q \in Requests \ {r} : /\ Answered(q)' = Answered(q)
                                   /\ served'[q] = served[q]
  BY <1>1 DEF Answered, Inv, TypeOK
<1>4. \A q \in Requests : Answered(q)' => served'[q] - MaxDelay <= now'[q] /\ now'[q] <= served'[q]
  BY <1>1, <1>2, <1>3 DEF UsedInv
(* The bucket of r has the time of r, or of the request it had before. *)
<1>5. \E q \in Requests : Answered(q)' /\ client[q] = k /\ now[q] = b.updated
  <2>1. CASE k \in DOMAIN rateMap /\ ~ (now[r] > rateMap[k].updated)
    <3>1. PICK q \in Requests : Answered(q) /\ client[q] = k /\ now[q] = rateMap[k].updated
      BY <2>1 DEF UsedInv
    <3>2. b = rateMap[k]
      BY <2>1 DEF BucketAt, Refilled
    <3> QED BY <1>3, <3>1, <3>2
  <2>2. CASE ~ (k \in DOMAIN rateMap /\ ~ (now[r] > rateMap[k].updated))
    <3>1. b.updated = now[r]
      BY <1>2, <2>2 DEF BucketAt, Refilled
    <3> QED BY <1>3, <3>1
  <2> QED BY <2>1, <2>2
<1>6. kept.updated = b.updated
  <2>1. b \in Bucket
    BY <1>1, BucketFound
  <2> QED BY <2>1 DEF Bucket
<1> HIDE DEF b, kept
<1>7. \A c \in DOMAIN all :
        \E q \in Requests : Answered(q)' /\ client[q] = c /\ now[q] = all[c].updated
  <2> SUFFICES ASSUME NEW c \in DOMAIN all
               PROVE  \E q \in Requests : Answered(q)' /\ client[q] = c /\ now[q] = all[c].updated
    OBVIOUS
  <2>1. CASE c = k
    BY <1>5, <1>6, <2>1
  <2>2. CASE c # k
    <3>1. PICK q \in Requests : Answered(q) /\ client[q] = c /\ now[q] = rateMap[c].updated
      BY <2>2 DEF UsedInv
    <3> QED BY <1>3, <2>2, <3>1
  <2> QED BY <2>1, <2>2
<1> HIDE DEF all
<1>8. DOMAIN rateMap' \subseteq DOMAIN all /\ \A c \in DOMAIN rateMap' : rateMap'[c] = all[c]
  BY <1>1 DEF Cleaned
<1>9. \A c \in DOMAIN rateMap' :
        \E q \in Requests : Answered(q)' /\ client'[q] = c /\ now'[q] = rateMap'[c].updated
  BY <1>1, <1>7, <1>8
<1>10. ASSUME Cardinality(DOMAIN rateMap') > MapLimit,
              NEW c \in DOMAIN rateMap', NEW q \in Requests, Answered(q)'
       PROVE  rateMap'[c].updated >= served'[q] - Keep - MaxDelay
  <2>1. Cardinality(DOMAIN all) > MapLimit
    BY <1>1, <1>10 DEF Cleaned
  <2>2. rateMap'[c].updated >= now[r] - Keep
    BY <1>1, <1>10, <2>1 DEF Cleaned
  <2>3. PICK p \in Requests : now[p] = rateMap'[c].updated
    BY <1>1, <1>9
  <2>4. served'[q] <= clock /\ served'[q] \in Nat
    BY <1>2, <1>3
  <2> QED BY <1>2, <2>2, <2>3, <2>4
<1> QED BY <1>4, <1>9, <1>10 DEF UsedInv

(* Beyond MapLimit only addresses have a bucket that sent a request within *)
(* Keep, and a wait, of the last: the map holds at most MapLimit buckets   *)
(* or one for each of these.                                               *)
THEOREM MapBoundedHolds == Spec => []MapBounded
<1>1. Init => UsedInv
  <2> SUFFICES ASSUME Init PROVE UsedInv OBVIOUS
  <2>1. DOMAIN rateMap = {} /\ \A r \in Requests : ~ Answered(r)
    BY DEF Init, Answered
  <2> QED BY <2>1 DEF UsedInv
<1>2. ASSUME Inv, UsedInv, [Next]_vars PROVE UsedInv'
  <2>1. ASSUME NEW r \in Requests, Arrive(r) PROVE UsedInv'
    BY <1>2, <2>1, QuietUsed DEF Arrive, Answered, Inv, TypeOK
  <2>2. ASSUME NEW r \in Requests, Limit(r) PROVE UsedInv'
    BY <1>2, <2>2, LimitUsed DEF Inv, TypeOK
  <2>3. CASE Tick \/ UNCHANGED vars
    BY <1>2, <2>3, QuietUsed DEF Tick, vars, Answered
  <2> QED BY <1>2, <2>1, <2>2, <2>3 DEF Next, Idle
<1>3. Inv /\ UsedInv => MapBounded
  <2> SUFFICES ASSUME Inv, UsedInv, Cardinality(DOMAIN rateMap) > MapLimit,
                      NEW c \in DOMAIN rateMap, NEW q \in Requests, Answered(q)
               PROVE  \E r \in Requests : /\ Answered(r) /\ client[r] = c
                                          /\ served[r] >= served[q] - Keep - MaxDelay
    BY DEF MapBounded
  <2>1. PICK r \in Requests : Answered(r) /\ client[r] = c /\ now[r] = rateMap[c].updated
    BY DEF UsedInv
  <2>2. now[r] <= served[r] /\ rateMap[c].updated >= served[q] - Keep - MaxDelay
    BY <2>1 DEF UsedInv
  <2>3. now[r] \in Nat /\ served[r] \in Nat /\ served[q] \in Nat /\ Keep \in Nat /\ MaxDelay \in Nat
    BY RateAssumption DEF Inv, TypeOK
  <2> QED BY <2>1, <2>2, <2>3
<1> QED BY <1>1, <1>2, <1>3, Invariant, PTL DEF Spec
=============================================================================
