------------------------------ MODULE Dashboard ------------------------------
(***************************************************************************)
(* The reports of one organisation on one instance: the handlers whose     *)
(* writes reportSummary counts, the process-local MemoryCache it is served *)
(* from, and the jobs runAsync starts to announce punches on Telegram,     *)
(* which keep the chat of the organisation in the same cache.              *)
(*                                                                         *)
(* An element of Reports is one GET of a report, one of Writers one        *)
(* request that writes and the job it may start.  What the tables hold is  *)
(* abstracted to the writes committed so far.                              *)
(***************************************************************************)
EXTENDS Integers, Sequences, FiniteSets

CONSTANTS
  Reports,    \* GET /reports/summary
  Writers,    \* requests that write what a report counts
  Periods,    \* the report_summary keys of the organisation
  Chat,       \* its org_telegram key
  TTL,        \* CACHE_TTL_SECONDS; 0 turns the cache of reports off
  Floor,      \* the 30 s a chat is kept at least
  Delay,      \* the 10 s a report may wait for the database
  Limit,      \* ASYNC_WORKER_LIMIT
  MaxClock,   \* bound of the model on the clock
  None

ASSUME TimeAssumption ==
  /\ TTL \in Nat /\ Floor \in Nat \ {0} /\ Delay \in Nat /\ Limit \in Nat \ {0}
  /\ MaxClock \in Nat
ASSUME KeyAssumption == Chat \notin Periods /\ Reports \cap Writers = {}

VARIABLES
  clock,
  cache,     \* cache[k]: the entry of key k, or None
  commits,   \* commits[v]: when the v-th write was committed
  wpc,       \* wpc[w]: the next step of request w, or its answer
  wrote,     \* wrote[w]: the number of the write of w, 0 if it made none
  rpc,       \* rpc[r]: the next step of report or job r
  ask,       \* ask[r]: the key r looks up and when it did
  got,       \* got[r]: what r found, in the cache or the database
  slots,     \* len(asyncSem)
  answered,  \* answered[r]: the writers that had answered 2xx when report r began
  crossed,   \* crossed[r]: those that invalidated since r asked the database
  failedAt   \* when "" was last stored for a chat that could not be read

dbVars == <<commits, wpc, wrote>>
readVars == <<rpc, ask, got, answered>>
vars == <<clock, cache, dbVars, readVars, slots, crossed, failedAt>>

Readers == Reports \cup Writers
Keys == Periods \cup {Chat}
NoChat == 0
OrgChat == 1

Ended == {"new", "ok", "error", "done", "none"}

(* The jobs that run; job w was started by request w. *)
Jobs == {w \in Writers : rpc[w] \notin Ended}

Init ==
  /\ clock = 0
  /\ cache = [k \in Keys |-> None]
  /\ commits = <<>>
  /\ wpc = [w \in Writers |-> "new"]
  /\ wrote = [w \in Writers |-> 0]
  /\ rpc = [r \in Readers |-> IF r \in Reports THEN "new" ELSE "none"]
  /\ ask = [r \in Readers |-> None]
  /\ got = [r \in Readers |-> None]
  /\ slots = 0
  /\ answered = [r \in Readers |-> {}]
  /\ crossed = [r \in Readers |-> {}]
  /\ failedAt = -Floor - 1

(***************************************************************************)
(* MemoryCache.                                                            *)
(***************************************************************************)

(* Seeded fault: an entry is served at any age. *)
FreshAlways(k) == cache[k] # None

(* GetJSON: hit unless now is after the end of the entry. *)
Fresh(k) == cache[k] # None /\ clock <= cache[k].expires

(* DeletePrefix removes every key of the prefix under one lock. *)
DeletePrefix(K) == cache' = [k \in Keys |-> IF k \in K THEN None ELSE cache[k]]

SetJSON(k, value, ttl, over) ==
  cache' = [cache EXCEPT ![k] = [value |-> value, expires |-> clock + ttl, over |-> over]]

(***************************************************************************)
(* The handlers that write.                                                *)
(***************************************************************************)
Goto(w, l) == wpc' = [wpc EXCEPT ![w] = l]

(* The write of w is committed.  When its confirmation is lost the handler *)
(* answers 500 and goes no further.                                        *)
Write(w, next) ==
  /\ commits' = Append(commits, clock)
  /\ wrote' = [wrote EXCEPT ![w] = Len(commits) + 1]
  /\ \E l \in {next, "error"} : Goto(w, l)
  /\ UNCHANGED <<clock, cache, readVars, slots, crossed, failedAt>>

Step(w, l) ==
  /\ Goto(w, l)
  /\ UNCHANGED <<clock, cache, commits, wrote, readVars, slots, crossed, failedAt>>

CreateEmployee(w) == wpc[w] = "new" /\ Write(w, "invalidate")

(* The UPDATE finds the employee, or the answer is 404. *)
UpdateEmployee(w) == wpc[w] = "new" /\ (Write(w, "invalidate") \/ Step(w, "error"))

(* The customer of a visit is read before the visit is inserted. *)
FindCustomer(w) == wpc[w] = "new" /\ (Step(w, "visit") \/ Step(w, "error"))

SalesVisitCheckIn(w) == wpc[w] = "visit" /\ Write(w, "invalidate")

SalesVisitCheckOut(w) == wpc[w] = "new" /\ (Write(w, "invalidate") \/ Step(w, "error"))

(* One transaction: the alert is updated, then the audit row is written. *)
UpdateFraudAlert(w) == wpc[w] = "new" /\ (Step(w, "alert") \/ Step(w, "error"))

CommitFraudReview(w) == wpc[w] = "alert" /\ Write(w, "invalidate")

(* The end of clock; what comes before it is module Attendance. *)
CommitPunch(w) == wpc[w] = "new" /\ Write(w, "publish")

(* The end of faceDeviceWebhook, which announces nothing. *)
CommitDevicePunch(w) == wpc[w] = "new" /\ Write(w, "invalidate")

Fail(w) == wpc[w] \in {"visit", "alert"} /\ Step(w, "error")

(* Seeded fault: a punch is published without invalidating the reports. *)
InvalidateUnlessPunch(w) ==
  /\ wpc[w] \in {"invalidate", "publish"}
  /\ DeletePrefix(IF wpc[w] = "publish" THEN {} ELSE Periods)
  /\ Goto(w, IF wpc[w] = "publish" THEN "announce" ELSE "ok")
  /\ crossed' = [r \in Readers |-> IF r \in Reports /\ rpc[r] = "store" THEN crossed[r] \cup {w} ELSE crossed[r]]
  /\ UNCHANGED <<clock, commits, wrote, readVars, slots, failedAt>>

(* invalidateOrgCaches, after the commit: every report goes, the chat      *)
(* stays.                                                                  *)
Invalidate(w) ==
  /\ wpc[w] \in {"invalidate", "publish"}
  /\ DeletePrefix(Periods)
  /\ Goto(w, IF wpc[w] = "publish" THEN "announce" ELSE "ok")
  /\ crossed' = [r \in Readers |-> IF r \in Reports /\ rpc[r] = "store" THEN crossed[r] \cup {w} ELSE crossed[r]]
  /\ UNCHANGED <<clock, commits, wrote, readVars, slots, failedAt>>

(* Seeded fault: a job is started whether or not there is a slot. *)
RunAsyncAlways(w) ==
  /\ wpc[w] = "announce"
  /\ Goto(w, "ok")
  /\ slots' = slots + 1
  /\ rpc' = [rpc EXCEPT ![w] = "lookup"]
  /\ UNCHANGED <<clock, cache, commits, wrote, ask, got, answered, crossed, failedAt>>

(* runAsync: the job takes a slot or is skipped; the handler answers.      *)
RunAsync(w) ==
  /\ wpc[w] = "announce"
  /\ Goto(w, "ok")
  /\ IF slots < Limit
       THEN slots' = slots + 1 /\ rpc' = [rpc EXCEPT ![w] = "lookup"]
       ELSE UNCHANGED <<slots, rpc>>
  /\ UNCHANGED <<clock, cache, commits, wrote, ask, got, answered, crossed, failedAt>>

(***************************************************************************)
(* reportSummary and sendAttendanceTelegram.                               *)
(***************************************************************************)
Move(r, l) == rpc' = [rpc EXCEPT ![r] = l]

Value(v, over) == [value |-> v, over |-> over]

(* The key is looked up.  With no fresh entry r asks the database; an      *)
(* expired one is left for Evict.                                          *)
Lookup(r, k) ==
  /\ ask' = [ask EXCEPT ![r] = [key |-> k, at |-> clock]]
  /\ answered' = [answered EXCEPT ![r] = {w \in Writers : r \in Reports /\ wpc[w] = "ok"}]
  /\ IF (k \in Periods => TTL > 0) /\ cache[k] # None
       THEN IF Fresh(k)
              THEN /\ Move(r, IF r \in Reports THEN "ok" ELSE "send")
                   /\ got' = [got EXCEPT ![r] = Value(cache[k].value, cache[k].over)]
              ELSE Move(r, "evict") /\ UNCHANGED got
       ELSE Move(r, "query") /\ UNCHANGED got
  /\ UNCHANGED <<clock, cache, dbVars, slots, crossed, failedAt>>

AskReport(r, p) == r \in Reports /\ rpc[r] = "new" /\ Lookup(r, p)

(* orgTelegramChatID *)
AskChat(w) == w \in Writers /\ rpc[w] = "lookup" /\ Lookup(w, Chat)

(* GetJSON deletes the key it found expired under a lock of its own: by    *)
(* then another reader may have stored a fresh entry.                      *)
Evict(r) ==
  /\ rpc[r] = "evict"
  /\ DeletePrefix({ask[r].key})
  /\ Move(r, "query")
  /\ UNCHANGED <<clock, dbVars, ask, got, answered, slots, crossed, failedAt>>

(* One SELECT, one snapshot. *)
Query(r) ==
  /\ rpc[r] = "query"
  /\ got' = [got EXCEPT ![r] = Value(IF r \in Reports THEN Len(commits) ELSE OrgChat, {})]
  /\ crossed' = [crossed EXCEPT ![r] = {}]
  /\ Move(r, "store")
  /\ UNCHANGED <<clock, cache, dbVars, ask, answered, slots, failedAt>>

(* A report answers 500.  A job takes a SELECT that failed for an          *)
(* organisation without a chat of its own.                                 *)
ReportFails(r) ==
  /\ r \in Reports
  /\ rpc[r] = "query"
  /\ Move(r, "error")
  /\ ask' = [ask EXCEPT ![r] = None]
  /\ answered' = [answered EXCEPT ![r] = {}]
  /\ UNCHANGED <<clock, cache, dbVars, got, slots, crossed, failedAt>>

ChatFails(w) ==
  /\ w \in Writers
  /\ rpc[w] = "query"
  /\ got' = [got EXCEPT ![w] = Value(NoChat, {})]
  /\ Move(w, "store")
  /\ UNCHANGED <<clock, cache, dbVars, ask, answered, slots, crossed, failedAt>>

MaxOf(a, b) == IF a > b THEN a ELSE b

(* Seeded fault: the times are added, and a failed lookup is kept as long  *)
(* as a successful one.                                                    *)
KeptTooLong(r) == IF r \in Reports THEN TTL ELSE Floor + TTL

Kept(r) ==
  CASE r \in Reports -> TTL
    [] r \in Writers /\ got[r].value = OrgChat -> MaxOf(Floor, TTL)
    [] OTHER -> Floor

(* The result is stored, whatever was invalidated since it was read. *)
Store(r) ==
  /\ rpc[r] = "store"
  /\ IF Kept(r) > 0
       THEN SetJSON(ask[r].key, got[r].value, Kept(r), crossed[r])
       ELSE UNCHANGED cache
  /\ failedAt' = IF r \in Writers /\ got[r].value = NoChat THEN clock ELSE failedAt
  /\ Move(r, IF r \in Reports THEN "ok" ELSE "send")
  /\ crossed' = [crossed EXCEPT ![r] = {}]
  /\ UNCHANGED <<clock, dbVars, ask, got, answered, slots>>

End(w) ==
  /\ Move(w, "done")
  /\ ask' = [ask EXCEPT ![w] = None]
  /\ got' = [got EXCEPT ![w] = None]

(* SendMessage has answered, failed or timed out; its error is ignored and *)
(* the deferred receive frees the slot.                                    *)
Send(w) ==
  /\ rpc[w] = "send"
  /\ End(w)
  /\ slots' = slots - 1
  /\ UNCHANGED <<clock, cache, dbVars, answered, crossed, failedAt>>

(* Seeded fault: a job that panics keeps its slot. *)
PanicLeaks(w) ==
  /\ w \in Jobs
  /\ End(w)
  /\ crossed' = [crossed EXCEPT ![w] = {}]
  /\ UNCHANGED <<clock, cache, dbVars, answered, slots, failedAt>>

(* A panic is recovered and the slot freed. *)
Panic(w) ==
  /\ w \in Jobs
  /\ End(w)
  /\ crossed' = [crossed EXCEPT ![w] = {}]
  /\ slots' = slots - 1
  /\ UNCHANGED <<clock, cache, dbVars, answered, failedAt>>

(* A report ends within its deadline; nothing bounds a job. *)
Tick ==
  /\ clock < MaxClock
  /\ \A r \in Reports : rpc[r] \in {"evict", "query", "store"} => clock < ask[r].at + Delay
  /\ clock' = clock + 1
  /\ UNCHANGED <<cache, dbVars, readVars, slots, crossed, failedAt>>

Idle ==
  /\ clock = MaxClock
  /\ \A w \in Writers : wpc[w] \in {"ok", "error"} /\ w \notin Jobs
  /\ \A r \in Reports : rpc[r] \in {"ok", "error"}
  /\ UNCHANGED vars

Handle(w) ==
  \/ CreateEmployee(w) \/ UpdateEmployee(w) \/ FindCustomer(w) \/ SalesVisitCheckIn(w)
  \/ SalesVisitCheckOut(w) \/ UpdateFraudAlert(w) \/ CommitFraudReview(w)
  \/ CommitPunch(w) \/ CommitDevicePunch(w) \/ Fail(w) \/ Invalidate(w) \/ RunAsync(w)

Read(r) == Evict(r) \/ Query(r) \/ ReportFails(r) \/ ChatFails(r) \/ Store(r)

Next ==
  \/ \E w \in Writers : Handle(w) \/ AskChat(w) \/ Send(w) \/ Panic(w)
  \/ \E r \in Reports, p \in Periods : AskReport(r, p)
  \/ \E r \in Readers : Read(r)
  \/ Tick
  \/ Idle

Spec == Init /\ [][Next]_vars


(***************************************************************************)
(* Properties.                                                             *)
(***************************************************************************)
Times == 0 .. MaxClock

Entry == [value : Nat, expires : Nat, over : SUBSET Writers]

(* The shape of the state; no report is about writes not yet committed.    *)
TypeOK ==
  /\ clock \in Times
  /\ \A k \in Keys : cache[k] = None \/ cache[k] \in Entry
  /\ \A r \in Readers : got[r] = None \/ got[r] \in [value : Nat, over : SUBSET Writers]
  /\ \A p \in Periods : cache[p] # None => cache[p].value <= Len(commits)
  /\ commits \in Seq(Times)
  /\ \A w \in Writers : wrote[w] \in 0 .. Len(commits)
  /\ wpc \in [Writers -> {"new", "visit", "alert", "invalidate", "publish", "announce", "ok", "error"}]
  /\ rpc \in [Readers -> Ended \cup {"lookup", "evict", "query", "store", "send"}]
  /\ ask \in [Readers -> [key : Keys, at : Times] \cup {None}]
  /\ answered \in [Readers -> SUBSET Writers]
  /\ crossed \in [Readers -> SUBSET Writers]
  /\ slots \in 0 .. Limit

(* A report never misses a write that was committed longer ago than the    *)
(* time an entry is kept plus the time a report may wait for the database: *)
(* the writes of another instance, those whose confirmation was lost and   *)
(* those a fill in flight overtook are late by no more than that.          *)
BoundedAge ==
  \A r \in Reports : rpc[r] = "ok" =>
    \A v \in DOMAIN commits : commits[v] < ask[r].at - TTL - Delay => v <= got[r].value

(* docs/ARCHITECTURE.md: write actions invalidate the caches.  A report    *)
(* asked for after a write was answered shows it, unless it is served from *)
(* an entry that was read before the write was invalidated and stored      *)
(* after.                                                                  *)
MissedOnlyIfOvertaken ==
  \A r \in Reports : rpc[r] = "ok" =>
    \A w \in answered[r] : wrote[w] <= got[r].value \/ w \in got[r].over

(* A punch is announced to the default chat instead of that of the         *)
(* organisation only within 30 s of a lookup that failed, however long the *)
(* cache keeps the rest: the failure is not remembered as an answer.       *)
MisdirectedBriefly ==
  \A w \in Writers :
    (rpc[w] = "send" /\ got[w].value = NoChat) => ask[w].at <= failedAt + Floor

(* Every slot of the semaphore is held by a job that still runs, also      *)
(* after jobs that panicked: none is lost, and never more than Limit run.  *)
SlotsReturned == slots = Cardinality(Jobs) /\ slots <= Limit
=============================================================================
