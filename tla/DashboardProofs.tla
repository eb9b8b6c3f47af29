--------------------------- MODULE DashboardProofs ---------------------------
(***************************************************************************)
(* Theorems about Dashboard, for every set of reports, of requests that    *)
(* write and of report keys, and for all times and limits.                 *)
(***************************************************************************)
EXTENDS Dashboard, FiniteSetTheorems, TLAPS

Question == [key : Keys, at : Times]
Answer == [value : Nat, over : SUBSET Writers]

Reading == {"evict", "query", "store"}

TypeInv ==
  /\ clock \in Times
  /\ cache \in [Keys -> Entry \cup {None}]
  /\ commits \in Seq(Times)
  /\ wpc \in [Writers -> {"new", "visit", "alert", "invalidate", "publish", "announce", "ok", "error"}]
  /\ wrote \in [Writers -> Nat]
  /\ rpc \in [Readers -> Ended \cup {"lookup", "evict", "query", "store", "send"}]
  /\ ask \in [Readers -> Question \cup {None}]
  /\ got \in [Readers -> Answer \cup {None}]
  /\ answered \in [Readers -> SUBSET Writers]
  /\ crossed \in [Readers -> SUBSET Writers]
  /\ failedAt \in Int

(* What a report knows at each stage, and a job; a job runs for a request  *)
(* that has answered.                                                      *)
StageInv ==
  /\ \A r \in Reports :
       /\ rpc[r] \in Reading \cup {"new", "ok", "error"}
       /\ rpc[r] \in Reading \cup {"ok"} =>
            ask[r] \in Question /\ ask[r].key \in Periods /\ ask[r].at <= clock
       /\ rpc[r] \in Reading => clock <= ask[r].at + Delay
       /\ rpc[r] \in {"store", "ok"} => got[r] \in Answer
  /\ \A w \in Writers :
       /\ rpc[w] \in Reading \cup {"none", "lookup", "send", "done"}
       /\ rpc[w] \in Reading \cup {"send"} =>
            ask[w] \in Question /\ ask[w].key = Chat /\ ask[w].at <= clock
       /\ rpc[w] \in {"store", "send"} => got[w] \in Answer
       /\ rpc[w] # "none" => wpc[w] = "ok"

(* Nothing shows a write that was not committed. *)
CommitInv ==
  /\ \A w \in Writers : wrote[w] <= Len(commits)
  /\ \A p \in Periods : cache[p] # None => cache[p].value <= Len(commits)
  /\ \A r \in Reports : rpc[r] = "store" => got[r].value <= Len(commits)

(* A report shows what was committed before it was asked for, and the      *)
(* entry it stores lives no longer than TTL from then, and a wait.         *)
AgeInv ==
  /\ \A p \in Periods : cache[p] # None =>
       /\ cache[p].expires <= clock + TTL
       /\ \A v \in DOMAIN commits : commits[v] < cache[p].expires - TTL - Delay => v <= cache[p].value
  /\ \A r \in Reports : rpc[r] = "store" =>
       \A v \in DOMAIN commits : commits[v] < ask[r].at => v <= got[r].value
  /\ BoundedAge

Invalidated(w) == wpc[w] \in {"announce", "ok"}

(* An entry misses only writes that were invalidated while the report that *)
(* stored it held its result, and a report still to be stored only those   *)
(* that were invalidated since it asked.                                   *)
MissInv ==
  /\ \A r \in Readers : \A w \in answered[r] : wpc[w] = "ok"
  /\ \A p \in Periods : cache[p] # None =>
       \A w \in Writers : Invalidated(w) => wrote[w] <= cache[p].value \/ w \in cache[p].over
  /\ \A r \in Reports : rpc[r] = "store" =>
       /\ \A w \in Writers : Invalidated(w) => wrote[w] <= got[r].value \/ w \in crossed[r]
       /\ \A w \in answered[r] : wrote[w] <= got[r].value
  /\ MissedOnlyIfOvertaken

(* The chat of the organisation is missing from the cache no longer than   *)
(* Floor from a failure.                                                   *)
ChatInv ==
  /\ failedAt <= clock
  /\ cache[Chat] # None /\ cache[Chat].value = NoChat => cache[Chat].expires <= failedAt + Floor
  /\ MisdirectedBriefly

SlotInv == IsFiniteSet(Jobs) /\ SlotsReturned

Inv == TypeInv /\ StageInv /\ CommitInv /\ AgeInv /\ MissInv /\ ChatInv /\ SlotInv

LEMMA InitInv == Init => Inv
<1> SUFFICES ASSUME Init PROVE Inv OBVIOUS
<1>1. Jobs = {}
  BY KeyAssumption DEF Init, Jobs, Readers, Ended
<1>2. SlotInv
  BY <1>1, FS_EmptySet, TimeAssumption DEF Init, SlotInv, SlotsReturned
<1>3. TypeInv
  <2>1. commits \in Seq(Times)
    BY DEF Init
  <2>2. failedAt \in Int /\ clock \in Times
    BY TimeAssumption DEF Init, Times
  <2> QED BY <2>1, <2>2 DEF Init, TypeInv, Ended
<1>5. StageInv /\ CommitInv
  BY KeyAssumption, TimeAssumption DEF Init, StageInv, CommitInv, Readers, Keys, Reading
<1>4. AgeInv /\ MissInv /\ ChatInv
  BY KeyAssumption, TimeAssumption
  DEF Init, AgeInv, MissInv, ChatInv, BoundedAge, MissedOnlyIfOvertaken, MisdirectedBriefly,
      Readers, Keys
<1> QED BY <1>2, <1>3, <1>4, <1>5 DEF Inv

(***************************************************************************)
(* The steps, the handlers that write by what they do.                     *)
(***************************************************************************)
Before == {"new", "visit", "alert"}

Writes(w) == wpc[w] \in Before /\ \E next \in {"invalidate", "publish"} : Write(w, next)

Walks(w) == wpc[w] \in Before /\ \E l \in {"visit", "alert", "error"} : Step(w, l)

LEMMA StepCases ==
  ASSUME Next
  PROVE  \/ \E w \in Writers : Writes(w) \/ Walks(w) \/ Invalidate(w) \/ RunAsync(w)
         \/ \E r \in Reports, p \in Periods : AskReport(r, p)
         \/ \E w \in Writers : AskChat(w) \/ Send(w) \/ Panic(w)
         \/ \E r \in Readers : Evict(r) \/ Query(r) \/ ReportFails(r) \/ ChatFails(r) \/ Store(r)
         \/ Tick
         \/ UNCHANGED vars
<1>1. ASSUME NEW w \in Writers, Handle(w)
      PROVE  Writes(w) \/ Walks(w) \/ Invalidate(w) \/ RunAsync(w)
  BY <1>1 DEF Handle, CreateEmployee, UpdateEmployee, FindCustomer, SalesVisitCheckIn,
     SalesVisitCheckOut, UpdateFraudAlert, CommitFraudReview, CommitPunch, CommitDevicePunch, Fail,
     Writes, Walks, Before
<1> QED BY <1>1 DEF Next, Read, Idle

(* What a write appends. *)
LEMMA Appended ==
  ASSUME TypeInv, NEW w \in Writers, Writes(w)
  PROVE  /\ Len(commits') = Len(commits) + 1 /\ Len(commits) \in Nat
         /\ commits' \in Seq(Times)
         /\ \A v \in DOMAIN commits' :
              v \in Nat /\ ((v \in DOMAIN commits /\ commits'[v] = commits[v]) \/ commits'[v] = clock)
         /\ wrote' = [wrote EXCEPT ![w] = Len(commits) + 1]
         /\ wpc[w] \in Before
         /\ \E l \in {"invalidate", "publish", "error"} : wpc' = [wpc EXCEPT ![w] = l]
         /\ UNCHANGED <<clock, cache, readVars, slots, crossed, failedAt>>
<1>1. commits' = Append(commits, clock) /\ commits \in Seq(Times) /\ clock \in Times
  BY DEF Writes, Write, TypeInv
<1>2. /\ Len(commits') = Len(commits) + 1 /\ Len(commits) \in Nat /\ commits' \in Seq(Times)
      /\ \A v \in DOMAIN commits' :
           v \in Nat /\ ((v \in DOMAIN commits /\ commits'[v] = commits[v]) \/ commits'[v] = clock)
  BY <1>1
<1> QED BY <1>2 DEF Writes, Write, Goto

LEMMA TypeStep ==
  ASSUME Inv, Next
  PROVE  TypeInv'
<1>0. TypeInv /\ StageInv /\ CommitInv /\ AgeInv
  BY DEF Inv
<1> USE <1>0
<1>1. ASSUME NEW w \in Writers, Writes(w) PROVE TypeInv'
  <2>1. wrote' \in [Writers -> Nat]
    BY <1>1, Appended DEF TypeInv
  <2> QED BY <1>1, <2>1, Appended DEF TypeInv, readVars
<1>2. ASSUME NEW w \in Writers, Walks(w) \/ RunAsync(w) PROVE TypeInv'
  BY <1>2 DEF TypeInv, Walks, Step, RunAsync, Goto, readVars, Ended
<1>3. ASSUME NEW w \in Writers, Invalidate(w) PROVE TypeInv'
  BY <1>3 DEF TypeInv, Invalidate, DeletePrefix, Goto, readVars
<1>4. ASSUME NEW r \in Readers, NEW k \in Keys, Lookup(r, k) PROVE TypeInv'
  <2>1. ask' \in [Readers -> Question \cup {None}]
    BY <1>4 DEF Lookup, TypeInv, Question
  <2>2. answered' \in [Readers -> SUBSET Writers]
    BY <1>4 DEF Lookup, TypeInv
  <2>3. cache[k] # None => cache[k] \in Entry
    BY DEF TypeInv
  <2>4. got' \in [Readers -> Answer \cup {None}]
    <3>1. cache[k] # None => Value(cache[k].value, cache[k].over) \in Answer
      BY <2>3 DEF Value, Answer, Entry
    <3>2. got' = got \/ (cache[k] # None /\ got' = [got EXCEPT ![r] = Value(cache[k].value, cache[k].over)])
      BY <1>4 DEF Lookup
    <3> QED BY <3>1, <3>2 DEF TypeInv
  <2>5. rpc' \in [Readers -> Ended \cup {"lookup", "evict", "query", "store", "send"}]
    BY <1>4 DEF Lookup, TypeInv, Move, Ended
  <2> QED BY <1>4, <2>1, <2>2, <2>4, <2>5 DEF Lookup, TypeInv, dbVars
<1>5. ASSUME NEW r \in Readers, Evict(r) PROVE TypeInv'
  BY <1>5 DEF TypeInv, Evict, DeletePrefix, Move, dbVars, Ended
<1>6. ASSUME NEW r \in Readers, Query(r) PROVE TypeInv'
  <2>1. Value(IF r \in Reports THEN Len(commits) ELSE OrgChat, {}) \in Answer
    BY DEF TypeInv, Value, Answer, OrgChat
  <2> QED BY <1>6, <2>1 DEF TypeInv, Query, Move, dbVars
<1>7. ASSUME NEW r \in Readers, ReportFails(r) PROVE TypeInv'
  BY <1>7 DEF TypeInv, ReportFails, Move, dbVars, Ended
<1>8. ASSUME NEW r \in Readers, ChatFails(r) PROVE TypeInv'
  BY <1>8 DEF TypeInv, ChatFails, Move, dbVars, Value, Answer, NoChat
<1>9. ASSUME NEW r \in Readers, Store(r) PROVE TypeInv'
  <2>1. got[r] \in Answer /\ ask[r] \in Question
    BY <1>9 DEF Store, StageInv, Readers, Reading
  <2>2. Kept(r) \in Nat
    BY TimeAssumption DEF Kept, MaxOf
  <2>3. clock \in Nat /\ crossed[r] \in SUBSET Writers
    BY DEF TypeInv, Times
  <2>4. [value |-> got[r].value, expires |-> clock + Kept(r), over |-> crossed[r]] \in Entry
    BY <2>1, <2>2, <2>3 DEF Entry, Answer
  <2>5. cache' \in [Keys -> Entry \cup {None}]
    BY <1>9, <2>4 DEF Store, SetJSON, TypeInv
  <2>6. failedAt' \in Int
    BY <1>9, <2>3 DEF Store, TypeInv
  <2>7. rpc' \in [Readers -> Ended \cup {"lookup", "evict", "query", "store", "send"}]
    BY <1>9 DEF TypeInv, Store, Move, Ended
  <2>8. crossed' \in [Readers -> SUBSET Writers]
    BY <1>9 DEF TypeInv, Store
  <2> QED BY <1>9, <2>5, <2>6, <2>7, <2>8 DEF TypeInv, Store, dbVars
<1>10. ASSUME NEW w \in Writers, Send(w) \/ Panic(w) PROVE TypeInv'
  <2>1. /\ rpc' = [rpc EXCEPT ![w] = "done"]
        /\ ask' = [ask EXCEPT ![w] = None] /\ got' = [got EXCEPT ![w] = None]
        /\ crossed' = crossed \/ crossed' = [crossed EXCEPT ![w] = {}]
        /\ UNCHANGED <<clock, cache, dbVars, answered, failedAt>>
    BY <1>10 DEF Send, Panic, End, Move
  <2>2. rpc' \in [Readers -> Ended \cup {"lookup", "evict", "query", "store", "send"}]
    BY <2>1 DEF TypeInv, Ended
  <2>3. /\ ask' \in [Readers -> Question \cup {None}] /\ got' \in [Readers -> Answer \cup {None}]
        /\ crossed' \in [Readers -> SUBSET Writers]
    BY <2>1 DEF TypeInv
  <2> QED BY <2>1, <2>2, <2>3 DEF TypeInv, dbVars
<1>11. CASE Tick
  BY <1>11, TimeAssumption DEF TypeInv, Tick, dbVars, readVars, Times
<1>12. CASE UNCHANGED vars
  BY <1>12 DEF TypeInv, vars, dbVars, readVars
<1> QED
  BY <1>1, <1>2, <1>3, <1>4, <1>5, <1>6, <1>7, <1>8, <1>9, <1>10, <1>11, <1>12, StepCases
  DEF AskReport, AskChat, Keys, Readers

LEMMA StageStep ==
  ASSUME Inv, Next
  PROVE  StageInv'
<1>0. TypeInv /\ StageInv /\ CommitInv /\ AgeInv
  BY DEF Inv
<1> USE <1>0
<1>1. ASSUME NEW w \in Writers, Writes(w) PROVE StageInv'
  <2>1. /\ wpc[w] # "ok" /\ UNCHANGED <<clock, rpc, ask, got>>
        /\ \E l \in {"invalidate", "publish", "error"} : wpc' = [wpc EXCEPT ![w] = l]
    BY <1>1, Appended DEF readVars, Before
  <2> QED BY <2>1 DEF TypeInv, StageInv
<1>2. ASSUME NEW w \in Writers, Walks(w) PROVE StageInv'
  BY <1>2 DEF TypeInv, StageInv, Walks, Step, Goto, readVars, Before
<1>3. ASSUME NEW w \in Writers, Invalidate(w) PROVE StageInv'
  BY <1>3 DEF TypeInv, StageInv, Invalidate, Goto, readVars
<1>4. ASSUME NEW w \in Writers, RunAsync(w) PROVE StageInv'
  BY <1>4, KeyAssumption DEF TypeInv, StageInv, RunAsync, Goto, Readers, Reading
<1>5. ASSUME NEW r \in Reports, NEW p \in Periods, AskReport(r, p) PROVE StageInv'
  <2>1. /\ r \in Readers /\ r \notin Writers /\ clock \in Times /\ p \in Keys
        /\ cache[p] # None => cache[p] \in Entry
    BY KeyAssumption DEF TypeInv, Readers, Keys
  <2>2. /\ ask' = [ask EXCEPT ![r] = [key |-> p, at |-> clock]]
        /\ UNCHANGED <<clock, wpc>>
        /\ \/ \E l \in {"evict", "query"} : rpc' = [rpc EXCEPT ![r] = l] /\ UNCHANGED got
           \/ /\ rpc' = [rpc EXCEPT ![r] = "ok"]
              /\ got' = [got EXCEPT ![r] = Value(cache[p].value, cache[p].over)]
              /\ cache[p] # None
    BY <1>5 DEF AskReport, Lookup, Move, dbVars
  <2>3. /\ ask'[r] \in Question /\ ask'[r].key = p /\ ask'[r].at = clock
        /\ rpc'[r] \in {"evict", "query", "ok"}
        /\ rpc'[r] = "ok" => got'[r] \in Answer
    BY <2>1, <2>2 DEF TypeInv, Question, Answer, Entry, Value
  <2>4. \A o \in Readers : o # r => rpc'[o] = rpc[o] /\ ask'[o] = ask[o] /\ got'[o] = got[o]
    BY <2>2 DEF TypeInv
  <2>5. clock <= clock + Delay /\ clock <= clock
    BY <2>1, TimeAssumption DEF Times
  <2> QED BY <2>1, <2>2, <2>3, <2>4, <2>5 DEF StageInv, Readers, Reading
<1>6. ASSUME NEW w \in Writers, AskChat(w) PROVE StageInv'
  <2>1. /\ w \in Readers /\ w \notin Reports /\ clock \in Times /\ Chat \in Keys
        /\ cache[Chat] # None => cache[Chat] \in Entry
    BY KeyAssumption DEF TypeInv, Readers, Keys
  <2>2. /\ ask' = [ask EXCEPT ![w] = [key |-> Chat, at |-> clock]]
        /\ UNCHANGED <<clock, wpc>> /\ rpc[w] = "lookup"
        /\ \/ \E l \in {"evict", "query"} : rpc' = [rpc EXCEPT ![w] = l] /\ UNCHANGED got
           \/ /\ rpc' = [rpc EXCEPT ![w] = "send"]
              /\ got' = [got EXCEPT ![w] = Value(cache[Chat].value, cache[Chat].over)]
              /\ cache[Chat] # None
    BY <1>6, KeyAssumption DEF AskChat, Lookup, Move, dbVars
  <2>3. /\ ask'[w] \in Question /\ ask'[w].key = Chat /\ ask'[w].at = clock
        /\ rpc'[w] \in {"evict", "query", "send"}
        /\ rpc'[w] = "send" => got'[w] \in Answer
    BY <2>1, <2>2 DEF TypeInv, Question, Answer, Entry, Value
  <2>4. \A o \in Readers : o # w => rpc'[o] = rpc[o] /\ ask'[o] = ask[o] /\ got'[o] = got[o]
    BY <2>2 DEF TypeInv
  <2>5. clock <= clock
    BY <2>1 DEF Times
  <2> QED BY <2>1, <2>2, <2>3, <2>4, <2>5 DEF StageInv, Readers, Reading
<1>7. ASSUME NEW r \in Readers, Evict(r) PROVE StageInv'
  BY <1>7, KeyAssumption DEF TypeInv, StageInv, Evict, Move, dbVars, Readers, Reading
<1>8. ASSUME NEW r \in Readers, Query(r) \/ ChatFails(r) PROVE StageInv'
  <2>1. /\ rpc[r] = "query" /\ rpc' = [rpc EXCEPT ![r] = "store"]
        /\ UNCHANGED <<clock, wpc, ask>>
        /\ \E a \in Answer : got' = [got EXCEPT ![r] = a]
    BY <1>8 DEF TypeInv, Query, ChatFails, Move, dbVars, Value, Answer, OrgChat, NoChat
  <2> QED BY <2>1, KeyAssumption DEF TypeInv, StageInv, Readers, Reading
<1>9. ASSUME NEW r \in Readers, ReportFails(r) PROVE StageInv'
  BY <1>9, KeyAssumption DEF TypeInv, StageInv, ReportFails, Move, dbVars, Readers, Reading
<1>10. ASSUME NEW r \in Readers, Store(r) PROVE StageInv'
  BY <1>10, KeyAssumption DEF TypeInv, StageInv, Store, Move, dbVars, Readers, Reading
<1>11. ASSUME NEW w \in Writers, Send(w) \/ Panic(w) PROVE StageInv'
  <2>1. /\ rpc[w] \notin {"none"} /\ rpc' = [rpc EXCEPT ![w] = "done"]
        /\ ask' = [ask EXCEPT ![w] = None] /\ got' = [got EXCEPT ![w] = None]
        /\ UNCHANGED <<clock, wpc>>
    BY <1>11 DEF Send, Panic, End, Move, Jobs, Ended, dbVars
  <2> QED BY <2>1, KeyAssumption DEF TypeInv, StageInv, Readers, Reading
<1>12. CASE Tick
  <2>1. /\ clock' = clock + 1 /\ clock \in Int /\ UNCHANGED <<rpc, ask, got, wpc>>
        /\ \A r \in Reports : rpc[r] \in Reading => clock < ask[r].at + Delay
    BY <1>12 DEF Tick, TypeInv, Times, readVars, dbVars, Reading
  <2>2. \A r \in Readers : ask[r] \in Question => ask[r].at \in Int
    BY DEF Question, Times
  <2>3. ASSUME NEW r \in Reports
        PROVE  /\ ask[r] \in Question /\ ask[r].at <= clock => ask[r].at <= clock'
               /\ ask[r] \in Question /\ rpc[r] \in Reading => clock' <= ask[r].at + Delay
    BY <2>1, <2>2, TimeAssumption DEF Readers
  <2>4. ASSUME NEW w \in Writers
        PROVE  ask[w] \in Question /\ ask[w].at <= clock => ask[w].at <= clock'
    BY <2>1, <2>2 DEF Readers
  <2> QED BY <2>1, <2>3, <2>4 DEF StageInv
<1>13. CASE UNCHANGED vars
  BY <1>13 DEF StageInv, vars, dbVars, readVars
<1> QED
  BY <1>1, <1>2, <1>3, <1>4, <1>5, <1>6, <1>7, <1>8, <1>9, <1>10, <1>11, <1>12, <1>13, StepCases

(* What a lookup that finds a fresh entry, or no entry, leads to. *)
LEMMA LookedUp ==
  ASSUME Inv, NEW r \in Readers, NEW k \in Keys, Lookup(r, k)
  PROVE  /\ ask' = [ask EXCEPT ![r] = [key |-> k, at |-> clock]]
         /\ ask'[r].at = clock
         /\ answered' = [answered EXCEPT ![r] = {w \in Writers : r \in Reports /\ wpc[w] = "ok"}]
         /\ \/ \E l \in {"evict", "query"} : rpc' = [rpc EXCEPT ![r] = l] /\ UNCHANGED got
            \/ /\ rpc' = [rpc EXCEPT ![r] = IF r \in Reports THEN "ok" ELSE "send"]
               /\ cache[k] \in Entry /\ cache[k] # None /\ clock <= cache[k].expires
               /\ got' = [got EXCEPT ![r] = [value |-> cache[k].value, over |-> cache[k].over]]
         /\ UNCHANGED <<clock, cache, commits, wpc, wrote, slots, crossed, failedAt>>
<1>1. cache[k] # None => cache[k] \in Entry
  BY DEF Inv, TypeInv
<1>2. ask' = [ask EXCEPT ![r] = [key |-> k, at |-> clock]] /\ ask'[r].at = clock
  BY DEF Lookup, Inv, TypeInv
<1> QED BY <1>1, <1>2 DEF Lookup, Move, Value, Fresh, dbVars

(* What a store changes. *)
LEMMA Stored ==
  ASSUME Inv, NEW r \in Readers, Store(r)
  PROVE  /\ rpc[r] = "store" /\ got[r] \in Answer
         /\ ask[r] \in Question /\ ask[r].at <= clock
         /\ \/ r \in Reports /\ ask[r].key \in Periods /\ clock <= ask[r].at + Delay
            \/ r \notin Reports /\ r \in Writers /\ ask[r].key = Chat
         /\ \A k \in Keys :
              \/ cache'[k] = cache[k]
              \/ /\ k = ask[r].key
                 /\ cache'[k] = [value |-> got[r].value, expires |-> clock + Kept(r), over |-> crossed[r]]
         /\ rpc' = [rpc EXCEPT ![r] = IF r \in Reports THEN "ok" ELSE "send"]
         /\ crossed' = [crossed EXCEPT ![r] = {}]
         /\ failedAt' = IF r \in Writers /\ got[r].value = NoChat THEN clock ELSE failedAt
         /\ UNCHANGED <<clock, commits, wpc, wrote, ask, got, answered, slots>>
<1>1. /\ rpc[r] = "store" /\ got[r] \in Answer /\ ask[r] \in Question /\ ask[r].at <= clock
      /\ \/ r \in Reports /\ ask[r].key \in Periods /\ clock <= ask[r].at + Delay
         \/ r \notin Reports /\ r \in Writers /\ ask[r].key = Chat
  BY KeyAssumption DEF Store, Inv, StageInv, Readers, Reading
<1>2. cache' = [cache EXCEPT ![ask[r].key] =
                  [value |-> got[r].value, expires |-> clock + Kept(r), over |-> crossed[r]]]
      \/ cache' = cache
  BY DEF Store, SetJSON
<1>3. DOMAIN cache = Keys
  BY DEF Inv, TypeInv
<1>4. ASSUME NEW k \in Keys
      PROVE  \/ cache'[k] = cache[k]
             \/ /\ k = ask[r].key
                /\ cache'[k] = [value |-> got[r].value, expires |-> clock + Kept(r), over |-> crossed[r]]
  BY <1>2, <1>3
<1> QED BY <1>1, <1>4 DEF Store, Move, dbVars

LEMMA StoredPeriod ==
  ASSUME Inv, NEW r \in Readers, Store(r), NEW p \in Periods
  PROVE  \/ cache'[p] = cache[p]
         \/ /\ r \in Reports /\ clock <= ask[r].at + Delay
            /\ cache'[p].value = got[r].value
            /\ cache'[p].expires = clock + TTL
            /\ cache'[p].over = crossed[r]
<1>1. p \in Keys /\ p # Chat
  BY KeyAssumption DEF Keys
<1>2. \/ cache'[p] = cache[p]
      \/ /\ p = ask[r].key
         /\ cache'[p] = [value |-> got[r].value, expires |-> clock + Kept(r), over |-> crossed[r]]
  BY <1>1, Stored
<1>3. \/ r \in Reports /\ ask[r].key \in Periods /\ clock <= ask[r].at + Delay
      \/ r \notin Reports /\ r \in Writers /\ ask[r].key = Chat
  BY Stored
<1>4. r \in Reports => Kept(r) = TTL
  BY KeyAssumption DEF Kept
<1> QED BY <1>1, <1>2, <1>3, <1>4

LEMMA CommitStep ==
  ASSUME Inv, Next
  PROVE  CommitInv'
<1>0. TypeInv /\ StageInv /\ CommitInv /\ AgeInv
  BY DEF Inv
<1> USE <1>0
<1> USE KeyAssumption
<1>1. ASSUME NEW w \in Writers, Writes(w) PROVE CommitInv'
  <2>1. /\ \A p \in Periods : cache[p] # None => cache[p].value \in Nat
        /\ \A r \in Reports : rpc[r] = "store" => got[r].value \in Nat
    BY DEF TypeInv, StageInv, Keys, Entry, Answer
  <2>2. /\ Len(commits') = Len(commits) + 1 /\ Len(commits) \in Nat
        /\ wrote' = [wrote EXCEPT ![w] = Len(commits) + 1]
        /\ UNCHANGED <<cache, rpc, got>>
    BY <1>1, Appended DEF readVars
  <2>3. \A o \in Writers : wrote'[o] <= Len(commits')
    BY <2>2 DEF TypeInv, CommitInv
  <2> QED BY <2>1, <2>2, <2>3 DEF CommitInv
<1>2. ASSUME NEW w \in Writers, Walks(w) \/ RunAsync(w) PROVE CommitInv'
  BY <1>2 DEF TypeInv, StageInv, CommitInv, Walks, Step, RunAsync, readVars, Readers
<1>3. ASSUME NEW w \in Writers, Invalidate(w) PROVE CommitInv'
  BY <1>3 DEF CommitInv, Invalidate, DeletePrefix, readVars, Keys
<1>4. ASSUME NEW r \in Readers, NEW k \in Keys, Lookup(r, k) PROVE CommitInv'
  BY <1>4 DEF TypeInv, CommitInv, Lookup, Move, dbVars, Readers
<1>5. ASSUME NEW r \in Readers, Evict(r) PROVE CommitInv'
  BY <1>5 DEF TypeInv, CommitInv, Evict, DeletePrefix, Move, dbVars, Readers, Keys
<1>6. ASSUME NEW r \in Readers, Query(r) PROVE CommitInv'
  <2>1. Len(commits) \in Nat
    BY DEF TypeInv
  <2> QED BY <1>6, <2>1 DEF TypeInv, CommitInv, Query, Move, dbVars, Readers, Value
<1>7. ASSUME NEW r \in Readers, ReportFails(r) PROVE CommitInv'
  BY <1>7 DEF TypeInv, CommitInv, ReportFails, Move, dbVars, Readers
<1>8. ASSUME NEW r \in Readers, ChatFails(r) PROVE CommitInv'
  BY <1>8 DEF TypeInv, CommitInv, ChatFails, Move, dbVars, Readers
<1>9. ASSUME NEW r \in Readers, Store(r) PROVE CommitInv'
  <2>1. /\ UNCHANGED <<commits, wrote, got>> /\ rpc[r] = "store"
        /\ rpc' = [rpc EXCEPT ![r] = IF r \in Reports THEN "ok" ELSE "send"]
    BY <1>9, Stored
  <2>2. ASSUME NEW p \in Periods
        PROVE  cache'[p] = cache[p] \/ (cache'[p].value = got[r].value /\ r \in Reports)
    BY <1>9, StoredPeriod
  <2> QED BY <2>1, <2>2 DEF TypeInv, CommitInv, Readers
<1>10. ASSUME NEW w \in Writers, Send(w) \/ Panic(w) PROVE CommitInv'
  BY <1>10 DEF TypeInv, CommitInv, Send, Panic, End, Move, dbVars, Readers
<1>11. CASE Tick
  BY <1>11 DEF CommitInv, Tick, dbVars, readVars
<1>12. CASE UNCHANGED vars
  BY <1>12 DEF CommitInv, vars, dbVars, readVars
<1> QED
  BY <1>1, <1>2, <1>3, <1>4, <1>5, <1>6, <1>7, <1>8, <1>9, <1>10, <1>11, <1>12, StepCases
  DEF AskReport, AskChat, Keys, Readers

(***************************************************************************)
(* How old a report may be.                                                *)
(***************************************************************************)
LEMMA AgeStep ==
  ASSUME Inv, Next
  PROVE  AgeInv'
<1>0. TypeInv /\ StageInv /\ CommitInv /\ AgeInv
  BY DEF Inv
<1> USE <1>0
<1>1. /\ clock \in Nat /\ TTL \in Nat /\ Delay \in Nat
      /\ \A v \in DOMAIN commits : commits[v] \in Nat /\ v \in Nat
      /\ \A p \in Periods : cache[p] # None => cache[p].expires \in Nat /\ cache[p].value \in Nat
      /\ \A r \in Reports : rpc[r] \in Reading \cup {"ok"} => ask[r].at \in Nat /\ ask[r].at <= clock
      /\ \A r \in Reports : rpc[r] \in {"store", "ok"} => got[r].value \in Nat
  BY TimeAssumption DEF TypeInv, StageInv, Times, Entry, Keys, Question, Answer
<1>2. ASSUME NEW w \in Writers, Writes(w) PROVE AgeInv'
  <2>1. /\ \A v \in DOMAIN commits' :
             (v \in DOMAIN commits /\ commits'[v] = commits[v]) \/ commits'[v] = clock
        /\ UNCHANGED <<clock, cache, rpc, ask, got>>
    BY <1>2, Appended DEF readVars
  <2>2. ASSUME NEW p \in Periods, cache[p] # None, NEW v \in DOMAIN commits',
               commits'[v] < cache[p].expires - TTL - Delay
        PROVE  v <= cache[p].value
    BY <1>1, <2>1, <2>2 DEF AgeInv
  <2>3. ASSUME NEW r \in Reports, rpc[r] = "store", NEW v \in DOMAIN commits', commits'[v] < ask[r].at
        PROVE  v <= got[r].value
    BY <1>1, <2>1, <2>3 DEF AgeInv, Reading
  <2>4. ASSUME NEW r \in Reports, rpc[r] = "ok", NEW v \in DOMAIN commits',
               commits'[v] < ask[r].at - TTL - Delay
        PROVE  v <= got[r].value
    BY <1>1, <2>1, <2>4 DEF AgeInv, BoundedAge
  <2> QED BY <2>1, <2>2, <2>3, <2>4 DEF AgeInv, BoundedAge
<1>3. ASSUME NEW w \in Writers, Walks(w) PROVE AgeInv'
  BY <1>3 DEF AgeInv, BoundedAge, Walks, Step, readVars
<1>4. ASSUME NEW w \in Writers, RunAsync(w) PROVE AgeInv'
  BY <1>4, KeyAssumption DEF TypeInv, AgeInv, BoundedAge, RunAsync, Readers
<1>5. ASSUME NEW w \in Writers, Invalidate(w) PROVE AgeInv'
  BY <1>5 DEF AgeInv, BoundedAge, Invalidate, DeletePrefix, readVars, Keys
<1>6. ASSUME NEW r \in Reports, NEW p \in Periods, AskReport(r, p) PROVE AgeInv'
  <2>1. r \in Readers /\ p \in Keys /\ Lookup(r, p)
    BY <1>6 DEF AskReport, Readers, Keys
  <2>2. /\ \A o \in Reports : o # r => rpc'[o] = rpc[o] /\ ask'[o] = ask[o] /\ got'[o] = got[o]
        /\ UNCHANGED <<clock, cache, commits>> /\ ask'[r].at = clock
        /\ rpc'[r] \in {"evict", "query", "ok"}
        /\ rpc'[r] = "ok" => cache[p] # None /\ clock <= cache[p].expires /\ got'[r].value = cache[p].value
    BY <2>1, LookedUp DEF TypeInv, Readers
  <2>3. ASSUME rpc'[r] = "ok", NEW v \in DOMAIN commits, commits[v] < clock - TTL - Delay
        PROVE  v <= got'[r].value
    <3>1. commits[v] < cache[p].expires - TTL - Delay
      BY <1>1, <2>2, <2>3
    <3> QED BY <2>2, <2>3, <3>1 DEF AgeInv
  <2> QED BY <2>2, <2>3 DEF AgeInv, BoundedAge
<1>7. ASSUME NEW w \in Writers, AskChat(w) PROVE AgeInv'
  <2>1. w \in Readers /\ Chat \in Keys /\ Lookup(w, Chat)
    BY <1>7 DEF AskChat, Readers, Keys
  <2>2. /\ \A o \in Reports : rpc'[o] = rpc[o] /\ ask'[o] = ask[o] /\ got'[o] = got[o]
        /\ UNCHANGED <<clock, cache, commits>>
    BY <2>1, LookedUp, KeyAssumption DEF TypeInv, Readers
  <2> QED BY <2>2 DEF AgeInv, BoundedAge
<1>8. ASSUME NEW r \in Readers, Evict(r) PROVE AgeInv'
  BY <1>8 DEF TypeInv, AgeInv, BoundedAge, Evict, DeletePrefix, Move, dbVars, Readers, Keys
<1>9. ASSUME NEW r \in Readers, Query(r) PROVE AgeInv'
  <2>1. /\ \A o \in Reports : o # r => rpc'[o] = rpc[o] /\ got'[o] = got[o]
        /\ UNCHANGED <<clock, cache, commits, ask>> /\ rpc'[r] = "store"
        /\ r \in Reports => got'[r].value = Len(commits)
    BY <1>9 DEF TypeInv, Query, Move, Value, dbVars, Readers
  <2>2. \A v \in DOMAIN commits : v <= Len(commits)
    BY DEF TypeInv
  <2> QED BY <2>1, <2>2 DEF AgeInv, BoundedAge
<1>10. ASSUME NEW r \in Readers, ReportFails(r) PROVE AgeInv'
  <2>1. /\ \A o \in Reports : o # r => rpc'[o] = rpc[o] /\ ask'[o] = ask[o]
        /\ UNCHANGED <<clock, cache, commits, got>> /\ rpc'[r] = "error"
    BY <1>10 DEF TypeInv, ReportFails, Move, dbVars, Readers
  <2> QED BY <2>1 DEF AgeInv, BoundedAge
<1>11. ASSUME NEW r \in Readers, ChatFails(r) PROVE AgeInv'
  <2>1. /\ \A o \in Reports : rpc'[o] = rpc[o] /\ got'[o] = got[o]
        /\ UNCHANGED <<clock, cache, commits, ask>>
    BY <1>11, KeyAssumption DEF TypeInv, ChatFails, Move, dbVars, Readers
  <2> QED BY <2>1 DEF AgeInv, BoundedAge
<1>12. ASSUME NEW r \in Readers, Store(r) PROVE AgeInv'
  <2>1. /\ UNCHANGED <<clock, commits, ask, got>> /\ rpc[r] = "store"
        /\ \A o \in Reports : rpc'[o] = IF o = r THEN "ok" ELSE rpc[o]
    <3>1. /\ UNCHANGED <<clock, commits, ask, got>> /\ rpc[r] = "store"
          /\ rpc' = [rpc EXCEPT ![r] = IF r \in Reports THEN "ok" ELSE "send"]
      BY <1>12, Stored
    <3> QED BY <3>1 DEF TypeInv, Readers
  <2>2. ASSUME NEW p \in Periods
        PROVE  \/ cache'[p] = cache[p]
               \/ /\ r \in Reports /\ clock <= ask[r].at + Delay
                  /\ cache'[p].expires = clock + TTL /\ cache'[p].value = got[r].value
    BY <1>12, StoredPeriod
  <2>3. ASSUME NEW p \in Periods, cache'[p] # None
        PROVE  /\ cache'[p].expires <= clock + TTL
               /\ \A v \in DOMAIN commits :
                    commits[v] < cache'[p].expires - TTL - Delay => v <= cache'[p].value
    <3>1. CASE cache'[p] = cache[p]
      BY <2>3, <3>1 DEF AgeInv
    <3>2. CASE cache'[p] # cache[p]
      <4>1. /\ r \in Reports /\ clock <= ask[r].at + Delay
            /\ cache'[p].expires = clock + TTL /\ cache'[p].value = got[r].value
        BY <2>2, <3>2
      <4>2. ask[r].at \in Nat
        BY <1>1, <2>1, <4>1 DEF Reading
      <4>3. \A v \in DOMAIN commits :
              commits[v] < (clock + TTL) - TTL - Delay => commits[v] < ask[r].at
        BY <1>1, <4>1, <4>2
      <4>4. cache'[p].expires <= clock + TTL
        BY <1>1, <4>1
      <4> QED BY <2>1, <4>1, <4>3, <4>4 DEF AgeInv
    <3> QED BY <3>1, <3>2
  <2>4. ASSUME r \in Reports, NEW v \in DOMAIN commits, commits[v] < ask[r].at - TTL - Delay
        PROVE  v <= got[r].value
    <3>1. ask[r].at \in Nat
      BY <1>1, <2>1, <2>4 DEF Reading
    <3>2. commits[v] < ask[r].at
      BY <1>1, <2>4, <3>1
    <3> QED BY <2>1, <2>4, <3>2 DEF AgeInv
  <2> QED BY <2>1, <2>3, <2>4 DEF AgeInv, BoundedAge
<1>13. ASSUME NEW w \in Writers, Send(w) \/ Panic(w) PROVE AgeInv'
  <2>1. /\ \A o \in Reports : rpc'[o] = rpc[o] /\ ask'[o] = ask[o] /\ got'[o] = got[o]
        /\ UNCHANGED <<clock, cache, commits>>
    BY <1>13, KeyAssumption DEF TypeInv, Send, Panic, End, Move, dbVars, Readers
  <2> QED BY <2>1 DEF AgeInv, BoundedAge
<1>14. CASE Tick
  <2>1. clock' = clock + 1 /\ UNCHANGED <<cache, commits, rpc, ask, got>>
    BY <1>14 DEF Tick, dbVars, readVars
  <2>2. \A p \in Periods : cache[p] # None => cache[p].expires <= clock' + TTL
    BY <1>1, <2>1 DEF AgeInv
  <2> QED BY <2>1, <2>2 DEF AgeInv, BoundedAge
<1>15. CASE UNCHANGED vars
  BY <1>15 DEF AgeInv, BoundedAge, vars, dbVars, readVars
<1> QED
  BY <1>2, <1>3, <1>4, <1>5, <1>6, <1>7, <1>8, <1>9, <1>10, <1>11, <1>12, <1>13, <1>14, <1>15, StepCases

(***************************************************************************)
(* Which answered writes a report may miss.                                *)
(***************************************************************************)
LEMMA MissStep ==
  ASSUME Inv, Next
  PROVE  MissInv'
<1>0. TypeInv /\ StageInv /\ CommitInv /\ MissInv
  BY DEF Inv
<1> USE <1>0
<1>1. /\ Len(commits) \in Nat
      /\ \A w \in Writers : wrote[w] \in Nat
      /\ \A r \in Readers : answered[r] \in SUBSET Writers /\ crossed[r] \in SUBSET Writers
      /\ \A r \in Reports : r \in Readers
  BY DEF TypeInv, Readers
<1>15. ASSUME UNCHANGED <<cache, got, answered, crossed>>,
              \A r \in Reports : rpc'[r] = rpc[r],
              \A w \in Writers : Invalidated(w)' => Invalidated(w) /\ wrote'[w] = wrote[w],
              \A r \in Readers : \A w \in answered[r] : wpc'[w] = "ok"
       PROVE  MissInv'
  <2>1. \A r \in Readers : \A w \in answered[r] : Invalidated(w)' /\ wrote'[w] = wrote[w]
    BY <1>1, <1>15 DEF Invalidated
  <2>2. MissedOnlyIfOvertaken'
    BY <1>1, <1>15, <2>1 DEF MissInv, MissedOnlyIfOvertaken
  <2> QED BY <1>1, <1>15, <2>1, <2>2 DEF MissInv
<1>2. ASSUME NEW w \in Writers, Writes(w) PROVE MissInv'
  <2>1. /\ wpc[w] \in Before /\ wpc'[w] \notin {"announce", "ok"}
        /\ \A o \in Writers : o # w => wpc'[o] = wpc[o] /\ wrote'[o] = wrote[o]
        /\ UNCHANGED <<cache, rpc, got, answered, crossed>>
    <3>1. /\ wpc[w] \in Before /\ wrote' = [wrote EXCEPT ![w] = Len(commits) + 1]
          /\ \E l \in {"invalidate", "publish", "error"} : wpc' = [wpc EXCEPT ![w] = l]
          /\ UNCHANGED <<cache, rpc, got, answered, crossed>>
      BY <1>2, Appended DEF readVars
    <3> QED BY <3>1 DEF TypeInv
  <2>2. \A o \in Writers : Invalidated(o)' => Invalidated(o) /\ wrote'[o] = wrote[o]
    BY <2>1 DEF Invalidated
  <2>3. \A r \in Readers : \A o \in answered[r] : wpc'[o] = "ok"
    BY <1>1, <2>1 DEF MissInv, Before
  <2> QED BY <1>15, <2>1, <2>2, <2>3
<1>3. ASSUME NEW w \in Writers, Walks(w) PROVE MissInv'
  <2>1. /\ wpc[w] \in Before /\ wpc'[w] \notin {"announce", "ok"}
        /\ \A o \in Writers : o # w => wpc'[o] = wpc[o]
        /\ UNCHANGED <<wrote, cache, rpc, got, answered, crossed>>
    BY <1>3 DEF Walks, Step, Goto, readVars, TypeInv
  <2>2. \A o \in Writers : Invalidated(o)' => Invalidated(o) /\ wrote'[o] = wrote[o]
    BY <2>1 DEF Invalidated
  <2>3. \A r \in Readers : \A o \in answered[r] : wpc'[o] = "ok"
    BY <1>1, <2>1 DEF MissInv, Before
  <2> QED BY <1>15, <2>1, <2>2, <2>3
<1>4. ASSUME NEW w \in Writers, Invalidate(w) PROVE MissInv'
  <2>1. /\ wpc[w] \notin {"announce", "ok"} /\ wpc'[w] \in {"announce", "ok"}
        /\ \A o \in Writers : o # w => wpc'[o] = wpc[o]
        /\ \A p \in Periods : cache'[p] = None
        /\ \A r \in Readers : crossed'[r] =
             IF r \in Reports /\ rpc[r] = "store" THEN crossed[r] \cup {w} ELSE crossed[r]
        /\ UNCHANGED <<wrote, rpc, got, answered>>
    BY <1>4 DEF Invalidate, DeletePrefix, Goto, readVars, TypeInv, Keys
  <2>2. \A r \in Readers : w \notin answered[r]
    BY <2>1 DEF MissInv
  <2>3. \A o \in Writers : Invalidated(o)' => o = w \/ Invalidated(o)
    BY <2>1 DEF Invalidated
  <2>4. \A r \in Readers : \A o \in answered'[r] : wpc'[o] = "ok"
    BY <1>1, <2>1, <2>2 DEF MissInv
  <2>5. ASSUME NEW r \in Reports, rpc[r] = "store", NEW o \in Writers, Invalidated(o)'
        PROVE  wrote[o] <= got[r].value \/ o \in crossed'[r]
    BY <1>1, <2>1, <2>3, <2>5 DEF MissInv
  <2>6. MissedOnlyIfOvertaken'
    BY <2>1 DEF MissInv, MissedOnlyIfOvertaken
  <2>7. \A r \in Reports : rpc[r] = "store" => \A o \in answered[r] : wrote[o] <= got[r].value
    BY DEF MissInv
  <2> QED BY <2>1, <2>4, <2>5, <2>6, <2>7 DEF MissInv
<1>5. ASSUME NEW w \in Writers, RunAsync(w) PROVE MissInv'
  <2>1. /\ wpc[w] = "announce" /\ wpc'[w] = "ok"
        /\ \A o \in Writers : o # w => wpc'[o] = wpc[o]
        /\ \A r \in Reports : rpc'[r] = rpc[r]
        /\ UNCHANGED <<wrote, cache, got, answered, crossed>>
    BY <1>5, KeyAssumption DEF RunAsync, Goto, TypeInv, Readers
  <2>2. \A o \in Writers : Invalidated(o)' <=> Invalidated(o)
    BY <2>1 DEF Invalidated
  <2>3. \A r \in Readers : \A o \in answered[r] : wpc'[o] = "ok"
    BY <1>1, <2>1 DEF MissInv
  <2> QED BY <1>15, <2>1, <2>2, <2>3
<1>6. ASSUME NEW r \in Reports, NEW p \in Periods, AskReport(r, p) PROVE MissInv'
  <2>1. r \in Readers /\ p \in Keys /\ Lookup(r, p)
    BY <1>6 DEF AskReport, Readers, Keys
  <2>2. /\ answered' = [answered EXCEPT ![r] = {w \in Writers : r \in Reports /\ wpc[w] = "ok"}]
        /\ UNCHANGED <<cache, wpc, wrote, crossed>>
        /\ \/ \E l \in {"evict", "query"} : rpc' = [rpc EXCEPT ![r] = l] /\ UNCHANGED got
           \/ /\ rpc' = [rpc EXCEPT ![r] = IF r \in Reports THEN "ok" ELSE "send"]
              /\ cache[p] # None
              /\ got' = [got EXCEPT ![r] = [value |-> cache[p].value, over |-> cache[p].over]]
    BY <2>1, LookedUp
  <2>3. /\ \A o \in Readers : o # r => rpc'[o] = rpc[o] /\ got'[o] = got[o] /\ answered'[o] = answered[o]
        /\ answered'[r] = {w \in Writers : wpc[w] = "ok"}
        /\ rpc'[r] \in {"evict", "query", "ok"}
        /\ rpc'[r] = "ok" => /\ cache[p] # None
                             /\ got'[r].value = cache[p].value /\ got'[r].over = cache[p].over
    BY <2>1, <2>2 DEF TypeInv
  <2>4. rpc'[r] = "ok" =>
          \A w \in answered'[r] : wrote[w] <= got'[r].value \/ w \in got'[r].over
    BY <2>3 DEF MissInv, Invalidated
  <2>5. \A o \in Readers : \A w \in answered'[o] : wpc[w] = "ok"
    BY <2>3 DEF MissInv
  <2>6. MissedOnlyIfOvertaken'
    BY <1>1, <2>2, <2>3, <2>4 DEF MissInv, MissedOnlyIfOvertaken
  <2> QED BY <1>1, <2>2, <2>3, <2>5, <2>6 DEF MissInv, Invalidated
<1>7. ASSUME NEW w \in Writers, AskChat(w) PROVE MissInv'
  <2>1. w \in Readers /\ Chat \in Keys /\ Lookup(w, Chat)
    BY <1>7 DEF AskChat, Readers, Keys
  <2>2. /\ answered' = [answered EXCEPT ![w] = {o \in Writers : w \in Reports /\ wpc[o] = "ok"}]
        /\ UNCHANGED <<cache, wpc, wrote, crossed>>
        /\ \A o \in Readers : o # w => rpc'[o] = rpc[o] /\ got'[o] = got[o]
    BY <2>1, LookedUp DEF TypeInv
  <2>3. \A o \in Reports : o # w
    BY KeyAssumption
  <2>4. /\ \A o \in Readers : o # w => answered'[o] = answered[o]
        /\ \A o \in answered'[w] : wpc[o] = "ok"
    BY <2>1, <2>2 DEF TypeInv
  <2> QED BY <1>1, <2>2, <2>3, <2>4 DEF MissInv, MissedOnlyIfOvertaken, Invalidated
<1>8. ASSUME NEW r \in Readers, Evict(r) PROVE MissInv'
  <2>1. /\ \A p \in Periods : cache'[p] # None => cache'[p] = cache[p]
        /\ \A o \in Readers : o # r => rpc'[o] = rpc[o]
        /\ rpc'[r] = "query"
        /\ UNCHANGED <<wpc, wrote, got, answered, crossed>>
    BY <1>8 DEF Evict, DeletePrefix, Move, dbVars, TypeInv, Keys
  <2> QED BY <1>1, <2>1 DEF MissInv, MissedOnlyIfOvertaken, Invalidated
<1>9. ASSUME NEW r \in Readers, Query(r) PROVE MissInv'
  <2>1. /\ \A o \in Readers : o # r => rpc'[o] = rpc[o] /\ got'[o] = got[o] /\ crossed'[o] = crossed[o]
        /\ rpc'[r] = "store"
        /\ r \in Reports => got'[r].value = Len(commits)
        /\ UNCHANGED <<cache, wpc, wrote, answered>>
    BY <1>9 DEF Query, Move, dbVars, TypeInv, Value
  <2>2. \A w \in Writers : wrote[w] <= Len(commits)
    BY DEF CommitInv
  <2> QED BY <1>1, <2>1, <2>2 DEF MissInv, MissedOnlyIfOvertaken, Invalidated
<1>10. ASSUME NEW r \in Readers, ReportFails(r) PROVE MissInv'
  <2>1. /\ \A o \in Readers : o # r => rpc'[o] = rpc[o] /\ answered'[o] = answered[o]
        /\ rpc'[r] = "error" /\ answered'[r] = {}
        /\ UNCHANGED <<cache, wpc, wrote, got, crossed>>
    BY <1>10 DEF ReportFails, Move, dbVars, TypeInv
  <2> QED BY <1>1, <2>1 DEF MissInv, MissedOnlyIfOvertaken, Invalidated
<1>11. ASSUME NEW r \in Readers, ChatFails(r) PROVE MissInv'
  <2>1. /\ \A o \in Reports : rpc'[o] = rpc[o] /\ got'[o] = got[o]
        /\ UNCHANGED <<cache, wpc, wrote, answered, crossed>>
    BY <1>11, KeyAssumption DEF ChatFails, Move, dbVars, TypeInv, Readers
  <2> QED BY <1>1, <2>1 DEF MissInv, MissedOnlyIfOvertaken, Invalidated
<1>12. ASSUME NEW r \in Readers, Store(r) PROVE MissInv'
  <2>1. /\ rpc[r] = "store" /\ rpc' = [rpc EXCEPT ![r] = IF r \in Reports THEN "ok" ELSE "send"]
        /\ crossed' = [crossed EXCEPT ![r] = {}]
        /\ UNCHANGED <<wpc, wrote, got, answered>>
    BY <1>12, Stored
  <2>2. /\ \A o \in Readers : o # r => rpc'[o] = rpc[o] /\ crossed'[o] = crossed[o]
        /\ rpc'[r] # "store"
    BY <2>1 DEF TypeInv
  <2>3. \A p \in Periods : \/ cache'[p] = cache[p]
                           \/ /\ r \in Reports
                              /\ cache'[p].value = got[r].value /\ cache'[p].over = crossed[r]
    BY <1>12, StoredPeriod
  <2>4. \A p \in Periods : cache'[p] # None =>
          \A w \in Writers : Invalidated(w) => wrote[w] <= cache'[p].value \/ w \in cache'[p].over
    BY <2>1, <2>3 DEF MissInv
  <2>5. MissedOnlyIfOvertaken'
    BY <1>1, <2>1, <2>2 DEF MissInv, MissedOnlyIfOvertaken
  <2> QED BY <1>1, <2>1, <2>2, <2>4, <2>5 DEF MissInv, Invalidated
<1>13. ASSUME NEW w \in Writers, Send(w) \/ Panic(w) PROVE MissInv'
  <2>1. /\ \A o \in Reports : rpc'[o] = rpc[o] /\ got'[o] = got[o] /\ crossed'[o] = crossed[o]
        /\ UNCHANGED <<cache, wpc, wrote, answered>>
    BY <1>13, KeyAssumption DEF Send, Panic, End, Move, dbVars, TypeInv, Readers
  <2> QED BY <1>1, <2>1 DEF MissInv, MissedOnlyIfOvertaken, Invalidated
<1>14. CASE Tick \/ UNCHANGED vars
  <2>1. UNCHANGED <<cache, dbVars, readVars, crossed>>
    BY <1>14 DEF Tick, vars
  <2> QED BY <2>1 DEF MissInv, MissedOnlyIfOvertaken, Invalidated, dbVars, readVars
<1> QED
  BY <1>2, <1>3, <1>4, <1>5, <1>6, <1>7, <1>8, <1>9, <1>10, <1>11, <1>12, <1>13, <1>14, StepCases

(***************************************************************************)
(* How long a failed lookup is remembered as an answer.                    *)
(***************************************************************************)
LEMMA ChatStep ==
  ASSUME Inv, Next
  PROVE  ChatInv'
<1>0. TypeInv /\ StageInv /\ ChatInv
  BY DEF Inv
<1> USE <1>0
<1>1. /\ clock \in Nat /\ failedAt \in Int /\ Floor \in Nat /\ Chat \in Keys
      /\ cache[Chat] # None => cache[Chat] \in Entry
      /\ \A w \in Writers : w \in Readers /\ w \notin Reports
  BY TimeAssumption, KeyAssumption DEF TypeInv, Times, Readers, Keys
<1>2. ASSUME UNCHANGED <<clock, failedAt>>, cache'[Chat] \in {cache[Chat], None},
             \A w \in Writers : rpc'[w] = "send" => rpc[w] = "send" /\ got'[w] = got[w] /\ ask'[w] = ask[w]
      PROVE  ChatInv'
  BY <1>2 DEF ChatInv, MisdirectedBriefly
<1>3. ASSUME NEW w \in Writers, Writes(w) PROVE ChatInv'
  BY <1>2, <1>3, Appended DEF readVars
<1>4. ASSUME NEW w \in Writers, Walks(w) PROVE ChatInv'
  BY <1>2, <1>4 DEF Walks, Step, readVars
<1>5. ASSUME NEW w \in Writers, Invalidate(w) PROVE ChatInv'
  <2>1. cache'[Chat] \in {cache[Chat], None}
    BY <1>1, <1>5 DEF Invalidate, DeletePrefix
  <2> QED BY <1>2, <1>5, <2>1 DEF Invalidate, readVars
<1>6. ASSUME NEW w \in Writers, RunAsync(w) PROVE ChatInv'
  <2>1. \A o \in Writers : rpc'[o] = "send" => rpc[o] = "send"
    BY <1>1, <1>6 DEF RunAsync, TypeInv
  <2> QED BY <1>2, <1>6, <2>1 DEF RunAsync
<1>7. ASSUME NEW r \in Reports, NEW p \in Periods, AskReport(r, p) PROVE ChatInv'
  <2>1. r \in Readers /\ p \in Keys /\ Lookup(r, p)
    BY <1>7 DEF AskReport, Readers, Keys
  <2>2. /\ \A o \in Readers : o # r => rpc'[o] = rpc[o] /\ got'[o] = got[o] /\ ask'[o] = ask[o]
        /\ UNCHANGED <<clock, cache, failedAt>>
    BY <2>1, LookedUp DEF TypeInv
  <2> QED BY <1>1, <1>2, <2>2
<1>8. ASSUME NEW w \in Writers, AskChat(w) PROVE ChatInv'
  <2>1. /\ ask'[w].at = clock
        /\ ask' = [ask EXCEPT ![w] = [key |-> Chat, at |-> clock]]
        /\ \/ \E l \in {"evict", "query"} : rpc' = [rpc EXCEPT ![w] = l] /\ UNCHANGED got
           \/ /\ rpc' = [rpc EXCEPT ![w] = IF w \in Reports THEN "ok" ELSE "send"]
              /\ cache[Chat] \in Entry /\ cache[Chat] # None /\ clock <= cache[Chat].expires
              /\ got' = [got EXCEPT ![w] = [value |-> cache[Chat].value, over |-> cache[Chat].over]]
        /\ UNCHANGED <<clock, cache, failedAt>>
    BY <1>1, <1>8, LookedUp DEF AskChat
  <2>2. /\ \A o \in Writers : o # w => rpc'[o] = rpc[o] /\ got'[o] = got[o] /\ ask'[o] = ask[o]
        /\ rpc'[w] = "send" =>
             /\ cache[Chat] # None /\ cache[Chat].expires \in Nat /\ clock <= cache[Chat].expires
             /\ got'[w].value = cache[Chat].value
    BY <1>1, <2>1 DEF TypeInv, Entry
  <2>3. rpc'[w] = "send" /\ got'[w].value = NoChat => ask'[w].at <= failedAt + Floor
    BY <1>1, <2>1, <2>2 DEF ChatInv
  <2> QED BY <2>1, <2>2, <2>3 DEF ChatInv, MisdirectedBriefly
<1>9. ASSUME NEW r \in Readers, Evict(r) PROVE ChatInv'
  <2>1. /\ cache'[Chat] \in {cache[Chat], None}
        /\ \A w \in Writers : rpc'[w] = "send" => rpc[w] = "send"
    BY <1>1, <1>9 DEF Evict, DeletePrefix, Move, TypeInv
  <2> QED BY <1>2, <1>9, <2>1 DEF Evict, dbVars
<1>10. ASSUME NEW r \in Readers, Query(r) \/ ReportFails(r) \/ ChatFails(r) PROVE ChatInv'
  <2>1. /\ \A o \in Readers : o # r => rpc'[o] = rpc[o] /\ got'[o] = got[o] /\ ask'[o] = ask[o]
        /\ rpc'[r] # "send" /\ UNCHANGED <<clock, cache, failedAt>>
    BY <1>10 DEF Query, ReportFails, ChatFails, Move, dbVars, TypeInv
  <2> QED BY <1>1, <1>2, <2>1
<1>11. ASSUME NEW r \in Readers, Store(r) PROVE ChatInv'
  <2>1. /\ ask[r] \in Question /\ ask[r].at <= clock
        /\ \/ r \in Reports /\ ask[r].key \in Periods
           \/ r \notin Reports /\ r \in Writers /\ ask[r].key = Chat
        /\ \/ cache'[Chat] = cache[Chat]
           \/ /\ Chat = ask[r].key
              /\ cache'[Chat] = [value |-> got[r].value, expires |-> clock + Kept(r), over |-> crossed[r]]
        /\ rpc' = [rpc EXCEPT ![r] = IF r \in Reports THEN "ok" ELSE "send"]
        /\ failedAt' = IF r \in Writers /\ got[r].value = NoChat THEN clock ELSE failedAt
        /\ UNCHANGED <<clock, ask, got>>
    BY <1>1, <1>11, Stored
  <2>2. /\ failedAt \in Int /\ failedAt' \in Int /\ failedAt <= failedAt' /\ failedAt' <= clock
        /\ ask[r].at \in Nat
    BY <1>1, <2>1 DEF ChatInv, Question, Times
  <2>3. \A o \in Readers : o # r => rpc'[o] = rpc[o]
    BY <2>1 DEF TypeInv
  <2>4. cache'[Chat] # None /\ cache'[Chat].value = NoChat => cache'[Chat].expires <= failedAt' + Floor
    <3>1. CASE cache'[Chat] = cache[Chat]
      BY <1>1, <2>2, <3>1 DEF ChatInv, Entry
    <3>2. CASE cache'[Chat] # cache[Chat]
      <4>1. /\ cache'[Chat].value = got[r].value /\ cache'[Chat].expires = clock + Kept(r)
            /\ r \in Writers /\ r \notin Reports
        BY <2>1, <3>2, KeyAssumption
      <4>2. got[r].value = NoChat => Kept(r) = Floor
        BY <4>1 DEF Kept, NoChat, OrgChat
      <4> QED BY <1>1, <2>1, <4>1, <4>2
    <3> QED BY <3>1, <3>2
  <2>5. ASSUME NEW w \in Writers, rpc'[w] = "send", got[w].value = NoChat
        PROVE  ask[w].at <= failedAt' + Floor
    <3>1. CASE w = r
      BY <1>1, <2>1, <2>2, <2>5, <3>1
    <3>2. CASE w # r
      <4>1. rpc[w] = "send" /\ ask[w].at \in Nat
        BY <1>1, <2>3, <2>5, <3>2 DEF StageInv, Question, Times
      <4>2. ask[w].at <= failedAt + Floor
        BY <2>5, <4>1 DEF ChatInv, MisdirectedBriefly
      <4> QED BY <1>1, <2>2, <4>1, <4>2
    <3> QED BY <3>1, <3>2
  <2> QED BY <2>1, <2>2, <2>4, <2>5 DEF ChatInv, MisdirectedBriefly
<1>12. ASSUME NEW w \in Writers, Send(w) \/ Panic(w) PROVE ChatInv'
  <2>1. /\ \A o \in Readers : o # w => rpc'[o] = rpc[o] /\ got'[o] = got[o] /\ ask'[o] = ask[o]
        /\ rpc'[w] = "done" /\ UNCHANGED <<clock, cache, failedAt>>
    BY <1>1, <1>12 DEF Send, Panic, End, Move, dbVars, TypeInv
  <2> QED BY <1>1, <1>2, <2>1
<1>13. CASE Tick
  <2>1. clock' = clock + 1 /\ UNCHANGED <<cache, readVars, failedAt>>
    BY <1>13 DEF Tick
  <2>2. failedAt <= clock'
    BY <1>1, <2>1 DEF ChatInv
  <2> QED BY <2>1, <2>2 DEF ChatInv, MisdirectedBriefly, readVars
<1>14. CASE UNCHANGED vars
  BY <1>2, <1>14 DEF vars, readVars
<1> QED
  BY <1>3, <1>4, <1>5, <1>6, <1>7, <1>8, <1>9, <1>10, <1>11, <1>12, <1>13, <1>14, StepCases

(***************************************************************************)
(* The semaphore.                                                          *)
(***************************************************************************)
LEMMA SlotStep ==
  ASSUME Inv, Next
  PROVE  SlotInv'
<1>0. TypeInv /\ StageInv /\ SlotInv
  BY DEF Inv
<1> USE <1>0
<1>1. /\ IsFiniteSet(Jobs) /\ slots = Cardinality(Jobs) /\ Cardinality(Jobs) \in Nat /\ slots <= Limit
      /\ \A w \in Writers : w \in Readers /\ w \notin Reports
      /\ Limit \in Nat
  BY FS_CardinalityType, KeyAssumption, TimeAssumption DEF SlotInv, SlotsReturned, Readers
<1>2. ASSUME \A w \in Writers : rpc'[w] \in Ended <=> rpc[w] \in Ended, slots' = slots
      PROVE  SlotInv'
  <2>1. Jobs' = Jobs
    BY <1>2 DEF Jobs
  <2> QED BY <1>1, <1>2, <2>1 DEF SlotInv, SlotsReturned
<1>3. ASSUME NEW w \in Writers, Writes(w) \/ Walks(w) \/ Invalidate(w) PROVE SlotInv'
  <2>1. UNCHANGED <<rpc, slots>>
    BY <1>3 DEF Writes, Write, Walks, Step, Invalidate, readVars
  <2> QED BY <1>2, <2>1
<1>4. ASSUME NEW w \in Writers, RunAsync(w) PROVE SlotInv'
  <2>1. CASE slots < Limit
    <3>1. /\ slots' = slots + 1 /\ rpc[w] = "none"
          /\ rpc'[w] = "lookup" /\ \A o \in Writers : o # w => rpc'[o] = rpc[o]
      BY <1>1, <1>4, <2>1 DEF RunAsync, StageInv, TypeInv
    <3>2. w \notin Jobs /\ Jobs' = Jobs \cup {w}
      BY <3>1 DEF Jobs, Ended
    <3>3. IsFiniteSet(Jobs') /\ Cardinality(Jobs') = Cardinality(Jobs) + 1
      BY <1>1, <3>2, FS_AddElement
    <3> QED BY <1>1, <2>1, <3>1, <3>3 DEF SlotInv, SlotsReturned
  <2>2. CASE ~ (slots < Limit)
    BY <1>2, <1>4, <2>2 DEF RunAsync
  <2> QED BY <2>1, <2>2
<1>5. ASSUME NEW r \in Reports, NEW p \in Periods, AskReport(r, p) PROVE SlotInv'
  <2>1. r \in Readers /\ p \in Keys /\ Lookup(r, p)
    BY <1>5 DEF AskReport, Readers, Keys
  <2>2. UNCHANGED slots /\ \A o \in Readers : o # r => rpc'[o] = rpc[o]
    BY <2>1, LookedUp DEF TypeInv
  <2> QED BY <1>1, <1>2, <2>2
<1>6. ASSUME NEW w \in Writers, AskChat(w) PROVE SlotInv'
  <2>1. w \in Readers /\ Chat \in Keys /\ Lookup(w, Chat) /\ rpc[w] = "lookup"
    BY <1>1, <1>6 DEF AskChat, Keys
  <2>2. UNCHANGED slots /\ \E l \in {"evict", "query", "send"} : rpc' = [rpc EXCEPT ![w] = l]
    BY <1>1, <2>1, LookedUp
  <2>3. \A o \in Writers : rpc'[o] \in Ended <=> rpc[o] \in Ended
    BY <1>1, <2>1, <2>2 DEF TypeInv, Ended
  <2> QED BY <1>2, <2>2, <2>3
<1>7. ASSUME NEW r \in Readers, Evict(r) \/ Query(r) \/ ReportFails(r) \/ ChatFails(r) \/ Store(r)
      PROVE  SlotInv'
  <2>1. /\ UNCHANGED slots /\ rpc[r] \in {"evict", "query", "store"}
        /\ \E l \in {"query", "store", "error", "ok", "send"} :
             /\ rpc' = [rpc EXCEPT ![r] = l]
             /\ r \in Writers => l \in {"query", "store", "send"}
    BY <1>1, <1>7 DEF Evict, Query, ReportFails, ChatFails, Store, Move
  <2>2. \A o \in Writers : rpc'[o] \in Ended <=> rpc[o] \in Ended
    BY <1>1, <2>1 DEF TypeInv, Ended
  <2> QED BY <1>2, <2>1, <2>2
<1>8. ASSUME NEW w \in Writers, Send(w) \/ Panic(w) PROVE SlotInv'
  <2>1. /\ slots' = slots - 1 /\ rpc[w] \notin Ended
        /\ rpc'[w] = "done" /\ \A o \in Writers : o # w => rpc'[o] = rpc[o]
    BY <1>1, <1>8 DEF Send, Panic, End, Move, Jobs, TypeInv, Ended
  <2>2. w \in Jobs /\ Jobs' = Jobs \ {w}
    BY <2>1 DEF Jobs, Ended
  <2>3. IsFiniteSet(Jobs') /\ Cardinality(Jobs') = Cardinality(Jobs) - 1
    BY <1>1, <2>2, FS_RemoveElement
  <2> QED BY <1>1, <2>1, <2>3 DEF SlotInv, SlotsReturned
<1>9. CASE Tick \/ UNCHANGED vars
  BY <1>2, <1>9 DEF Tick, vars, readVars
<1> QED
  BY <1>3, <1>4, <1>5, <1>6, <1>7, <1>8, <1>9, StepCases

LEMMA Invariant == Spec => []Inv
<1>1. Inv /\ [Next]_vars => Inv'
  <2>1. ASSUME Inv, Next PROVE Inv'
    BY <2>1, TypeStep, StageStep, CommitStep, AgeStep, MissStep, ChatStep, SlotStep DEF Inv
  <2>2. ASSUME Inv, UNCHANGED vars PROVE Inv'
    BY <2>2 DEF vars, dbVars, readVars, Inv, TypeInv, StageInv, CommitInv, AgeInv, BoundedAge,
       MissInv, MissedOnlyIfOvertaken, Invalidated, ChatInv, MisdirectedBriefly, SlotInv,
       SlotsReturned, Jobs
  <2> QED BY <2>1, <2>2
<1> QED BY <1>1, InitInv, PTL DEF Spec

(* Every entry, question and answer has its shape, no report is about a    *)
(* write still to be committed, and the semaphore stays within its limit.  *)
THEOREM TypeCorrect == Spec => []TypeOK
<1>1. Inv => TypeOK
  <2> SUFFICES ASSUME Inv PROVE TypeOK OBVIOUS
  <2>1. TypeInv /\ CommitInv /\ SlotInv
    BY DEF Inv
  <2>2. slots \in 0 .. Limit
    BY <2>1, FS_CardinalityType, TimeAssumption DEF SlotInv, SlotsReturned
  <2>3. \A w \in Writers : wrote[w] \in 0 .. Len(commits)
    BY <2>1 DEF TypeInv, CommitInv
  <2>4. \A k \in Keys : cache[k] = None \/ cache[k] \in Entry
    BY <2>1 DEF TypeInv
  <2>5. \A r \in Readers : got[r] = None \/ got[r] \in [value : Nat, over : SUBSET Writers]
    BY <2>1 DEF TypeInv, Answer
  <2> QED BY <2>1, <2>2, <2>3, <2>4, <2>5 DEF TypeInv, CommitInv, Question, TypeOK
<1> QED BY <1>1, Invariant, PTL

(* No report misses a write older than TTL and the wait for the database,  *)
(* whatever overtakes what: also the writes of another instance.           *)
THEOREM BoundedAgeHolds == Spec => []BoundedAge
BY Invariant, PTL DEF Inv, AgeInv

(* A report misses an answered write only if the entry it is served from   *)
(* was read before and stored after the write was invalidated.             *)
THEOREM MissedOnlyIfOvertakenHolds == Spec => []MissedOnlyIfOvertaken
BY Invariant, PTL DEF Inv, MissInv

(* A punch goes to the default chat only within Floor of a failed lookup.  *)
THEOREM MisdirectedBrieflyHolds == Spec => []MisdirectedBriefly
BY Invariant, PTL DEF Inv, ChatInv

(* The slots taken are the jobs that run, also after panics, and no more   *)
(* than the limit.                                                         *)
THEOREM SlotsReturnedHolds == Spec => []SlotsReturned
BY Invariant, PTL DEF Inv, SlotInv
=============================================================================
