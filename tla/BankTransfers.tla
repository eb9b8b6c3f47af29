---------------------------- MODULE BankTransfers ----------------------------
(***************************************************************************)
(* How the employees of an approved run are paid: createBankAccount keeps  *)
(* the accounts, createBankTransferBatch writes one transfer for every     *)
(* item and primary account, markBankBatchSubmitted closes the batch.  An  *)
(* element of Accounts is one request for an account, one of Batches one   *)
(* request for a batch and the bank_transfer_batches row it inserts.       *)
(***************************************************************************)
EXTENDS Payroll

CONSTANTS
  Accounts,   \* POST /bank-accounts
  Numbers,    \* account numbers
  Batches     \* POST /payroll/runs/{id}/bank-batch

ASSUME NoAccountAssumption == None \notin {"primary", "other"}

VARIABLES
  bpc,        \* bpc[p]: the next statement of request p, or its answer
  want,       \* want[p]: the account p asks for
  demotes,    \* demotes[p]: the rows p has found to demote, then demoted
  accounts,   \* accounts[e][n]: "primary", "other", or None if there is none
  met,        \* met[p]: requests for the same employee that ran while p did
  tpc,        \* tpc[b]: the next statement of request b, or its answer
  batch,      \* batch[b]: the run and the total of the batch
  transfers,  \* transfers[b]: its bank_transfer_items
  batches,    \* the batches committed
  submitted   \* those with status 'submitted'

accountVars == <<bpc, want, demotes, accounts, met>>
batchVars == <<tpc, batch, transfers, batches, submitted>>
bankVars == <<accountVars, batchVars>>

BankInit ==
  /\ bpc = [p \in Accounts |-> "new"]
  /\ want = [p \in Accounts |-> None]
  /\ demotes = [p \in Accounts |-> {}]
  /\ accounts = [e \in Emps |-> [n \in Numbers |-> None]]
  /\ met = [p \in Accounts |-> {}]
  /\ tpc = [b \in Batches |-> "new"]
  /\ batch = [b \in Batches |-> None]
  /\ transfers = [b \in Batches |-> {}]
  /\ batches = {}
  /\ submitted = {}

(***************************************************************************)
(* createBankAccount.                                                      *)
(***************************************************************************)
AccountGoto(p, l) == bpc' = [bpc EXCEPT ![p] = l]

Running(p) == bpc[p] \in {"demote", "insert", "commit"}

(* p has demoted or inserted the row of account n of e and not ended. *)
Holds(p, e, n) ==
  /\ bpc[p] \in {"insert", "commit"}
  /\ want[p].emp = e
  /\ n \in demotes[p] \/ (bpc[p] = "commit" /\ n = want[p].number)

HeldByOther(p, n) == \E q \in Accounts \ {p} : Holds(q, want[p].emp, n)

(* The transaction begins; for a primary account the UPDATE takes its      *)
(* snapshot of the employee's rows.                                        *)
AddAccount(p, e, n, primary) ==
  /\ bpc[p] = "new"
  /\ want' = [want EXCEPT ![p] = [emp |-> e, number |-> n, primary |-> primary]]
  /\ AccountGoto(p, IF primary THEN "demote" ELSE "insert")
  /\ demotes' = [demotes EXCEPT ![p] =
       IF primary THEN {m \in Numbers : accounts[e][m] # None} ELSE {}]
  /\ LET now == {q \in Accounts : Running(q) /\ want[q].emp = e}
     IN  met' = [q \in Accounts |->
            IF q = p THEN now ELSE IF q \in now THEN met[q] \cup {p} ELSE met[q]]
  /\ UNCHANGED <<accounts, batchVars, vars>>

(* Each of those rows is demoted once no other transaction holds it; a row *)
(* inserted meanwhile is not among them.                                   *)
Demote(p) ==
  /\ bpc[p] = "demote"
  /\ \A n \in demotes[p] : ~ HeldByOther(p, n)
  /\ AccountGoto(p, "insert")
  /\ UNCHANGED <<want, demotes, accounts, met, batchVars, vars>>

(* INSERT ... ON CONFLICT(org_id, user_id, account_number) DO UPDATE waits *)
(* for another transaction that inserts or updates the row.                *)
InsertAccount(p) ==
  /\ bpc[p] = "insert"
  /\ ~ HeldByOther(p, want[p].number)
  /\ AccountGoto(p, "commit")
  /\ UNCHANGED <<want, demotes, accounts, met, batchVars, vars>>

Rank(p) == IF want[p].primary THEN "primary" ELSE "other"

(* Seeded fault: a new primary account leaves the others as they are. *)
CommitAccountOnly(p) ==
  /\ bpc[p] = "commit"
  /\ accounts' = [accounts EXCEPT ![want[p].emp][want[p].number] = Rank(p)]
  /\ AccountGoto(p, "done")
  /\ demotes' = [demotes EXCEPT ![p] = {}]
  /\ UNCHANGED <<want, met, batchVars, vars>>

CommitAccount(p) ==
  /\ bpc[p] = "commit"
  /\ accounts' = [accounts EXCEPT ![want[p].emp] = [n \in Numbers |->
       CASE n = want[p].number -> Rank(p)
         [] n \in demotes[p] \ {want[p].number} -> "other"
         [] OTHER -> @[n]]]
  /\ AccountGoto(p, "done")
  /\ demotes' = [demotes EXCEPT ![p] = {}]
  /\ UNCHANGED <<want, met, batchVars, vars>>

AbortAccount(p) ==
  /\ Running(p)
  /\ AccountGoto(p, "done")
  /\ want' = [want EXCEPT ![p] = None]
  /\ demotes' = [demotes EXCEPT ![p] = {}]
  /\ met' = [q \in Accounts |-> IF q = p THEN {} ELSE met[q] \ {p}]
  /\ UNCHANGED <<accounts, batchVars, vars>>

(***************************************************************************)
(* createBankTransferBatch.                                                *)
(***************************************************************************)
BatchGoto(b, l) == tpc' = [tpc EXCEPT ![b] = l]

(* Seeded fault: a draft run is paid. *)
CheckAnyRun(b, r) ==
  /\ tpc[b] = "new"
  /\ r \in runs
  /\ BatchGoto(b, "open")
  /\ batch' = [batch EXCEPT ![b] = [run |-> r, total |-> 0]]
  /\ UNCHANGED <<transfers, batches, submitted, accountVars, vars>>

(* The status of the run is read, and not locked. *)
CheckRun(b, r) ==
  /\ tpc[b] = "new"
  /\ r \in runs
  /\ BatchGoto(b, IF r \in approved THEN "open" ELSE "done")
  /\ batch' = [batch EXCEPT ![b] = IF r \in approved THEN [run |-> r, total |-> 0] ELSE None]
  /\ UNCHANGED <<transfers, batches, submitted, accountVars, vars>>

(* The sum of the items and the batch itself. *)
OpenBatch(b) ==
  /\ tpc[b] = "open"
  /\ batch' = [batch EXCEPT ![b].total = SumFunction([e \in Emps |-> items[batch[b].run][e].net])]
  /\ BatchGoto(b, "fill")
  /\ UNCHANGED <<transfers, batches, submitted, accountVars, vars>>

Primaries(e) == {n \in Numbers : accounts[e][n] = "primary"}

(* One line for every item and primary account; an employee who has none   *)
(* gets a line 'missing_bank_account'.                                     *)
Lines(r) ==
  UNION {{[emp |-> e, account |-> n, cents |-> items[r][e].net] :
            n \in IF Primaries(e) = {} THEN {None} ELSE Primaries(e)} : e \in Emps}

(* Seeded fault: a batch that fails puts its run back to draft. *)
FillBatchOrReopen(b) ==
  /\ tpc[b] = "fill"
  /\ IF \E line \in Lines(batch[b].run) : line.cents = 0
       THEN /\ approved' = approved \ {batch[b].run}
            /\ batch' = [batch EXCEPT ![b] = None]
            /\ BatchGoto(b, "done")
            /\ UNCHANGED transfers
       ELSE /\ transfers' = [transfers EXCEPT ![b] = Lines(batch[b].run)]
            /\ BatchGoto(b, "commit")
            /\ UNCHANGED <<batch, approved>>
  /\ UNCHANGED <<pc, old, items, total, runs, ewaVars, batches, submitted, accountVars>>

(* INSERT ... SELECT, one snapshot.  amount_cents > 0 is a constraint: one *)
(* employee whose net pay is 0 fails the batch.                            *)
FillBatch(b) ==
  /\ tpc[b] = "fill"
  /\ IF \E line \in Lines(batch[b].run) : line.cents = 0
       THEN /\ batch' = [batch EXCEPT ![b] = None]
            /\ BatchGoto(b, "done")
            /\ UNCHANGED transfers
       ELSE /\ transfers' = [transfers EXCEPT ![b] = Lines(batch[b].run)]
            /\ BatchGoto(b, "commit")
            /\ UNCHANGED batch
  /\ UNCHANGED <<batches, submitted, accountVars, vars>>

CommitBatch(b) ==
  /\ tpc[b] = "commit"
  /\ batches' = batches \cup {b}
  /\ BatchGoto(b, "done")
  /\ UNCHANGED <<batch, transfers, submitted, accountVars, vars>>

AbortBatch(b) ==
  /\ tpc[b] \in {"open", "fill", "commit"}
  /\ BatchGoto(b, "done")
  /\ batch' = [batch EXCEPT ![b] = None]
  /\ transfers' = [transfers EXCEPT ![b] = {}]
  /\ UNCHANGED <<batches, submitted, accountVars, vars>>

(* Seeded fault: a batch that was never committed can be submitted. *)
MarkAnySubmitted(b) ==
  /\ b \in Batches \ submitted
  /\ submitted' = submitted \cup {b}
  /\ UNCHANGED <<tpc, batch, transfers, batches, accountVars, vars>>

(* One UPDATE guarded by status='draft'. *)
MarkSubmitted(b) ==
  /\ b \in batches \ submitted
  /\ submitted' = submitted \cup {b}
  /\ UNCHANGED <<tpc, batch, transfers, batches, accountVars, vars>>

BankNext ==
  \/ \E p \in Accounts :
       \/ \E e \in Emps, n \in Numbers, primary \in BOOLEAN : AddAccount(p, e, n, primary)
       \/ Demote(p) \/ InsertAccount(p) \/ CommitAccount(p) \/ AbortAccount(p)
  \/ \E b \in Batches :
       \/ \E r \in Calcs : CheckRun(b, r)
       \/ OpenBatch(b) \/ FillBatch(b) \/ CommitBatch(b) \/ AbortBatch(b) \/ MarkSubmitted(b)


(***************************************************************************)
(* Properties.                                                             *)
(***************************************************************************)

(* A batch pays an approved run: every employee is in it, for the net pay  *)
(* of his or her payslip, which is more than 0, and the total of the batch *)
(* is that of the payslips.  The run and the accounts are read by separate *)
(* statements, without a lock.                                             *)
BatchPaysEveryone ==
  \A b \in batches :
    LET r == batch[b].run
    IN  /\ r \in approved
        /\ {line.emp : line \in transfers[b]} = Emps
        /\ \A line \in transfers[b] : line.cents = items[r][line.emp].net /\ line.cents > 0
        /\ batch[b].total = total[r].net

(* An employee has two transfers in a batch, and is paid twice, only if    *)
(* the requests that made those accounts primary ran at the same time.     *)
PaidTwiceOnlyByRace ==
  \A b \in batches : \A x, y \in transfers[b] :
    (x.emp = y.emp /\ x # y) =>
      \E p, q \in Accounts :
        /\ p \in met[q]
        /\ want[p] = [emp |-> x.emp, number |-> x.account, primary |-> TRUE]
        /\ want[q] = [emp |-> x.emp, number |-> y.account, primary |-> TRUE]
=============================================================================
