--------------------------- MODULE PayrollProofs -----------------------------
(***************************************************************************)
(* Theorems about Payroll, for every set of calculations, employees and    *)
(* advances and all amounts of money.                                      *)
(***************************************************************************)
EXTENDS Payroll, Sums, TLAPS

Busy == {"select", "wait", "insert", "items", "commit"}

(* The part of TypeOK that does not depend on sums of money. *)
ShapeInv ==
  /\ pc \in [Calcs -> Answers \cup Busy \cup {"new"}]
  /\ old \in [Calcs -> Calcs \cup {None}]
  /\ DOMAIN items = Calcs /\ DOMAIN total = Calcs
  /\ runs \subseteq {c \in Calcs : pc[c] \in {"created", "error"}}
  /\ approved \subseteq runs

(* A run that is being replaced is a draft and is replaced by one          *)
(* calculation; one calculation at a time has inserted its run, and there  *)
(* is no run then but the one it replaces.                                 *)
RunInv ==
  /\ \A c \in Calcs : (pc[c] = "insert" \/ Inserted(c)) /\ old[c] # None =>
       old[c] \in runs \ approved
  /\ \A c, d \in Calcs : \A r \in runs : Replaces(c, r) /\ Replaces(d, r) => c = d
  /\ \A c, d \in Calcs : Inserted(c) /\ Inserted(d) => c = d
  /\ \A c \in Calcs : Inserted(c) => runs \subseteq {old[c]}
  /\ OneRunPerMonth

Inv == ShapeInv /\ RunInv

LEMMA InitInv == Init => Inv
BY NoneAssumption DEF Init, Inv, ShapeInv, RunInv, OneRunPerMonth, Inserted, Replaces, Answers

(* A step that leaves the runs alone and moves one calculation c. *)
LEMMA MoveInv ==
  ASSUME Inv, NEW c \in Calcs, NEW l \in Answers \cup Busy, NEW o \in Calcs \cup {None},
         pc[c] \in Busy \cup {"new"}, pc' = [pc EXCEPT ![c] = l], old' = [old EXCEPT ![c] = o],
         UNCHANGED <<runs, approved>>, DOMAIN items' = Calcs, DOMAIN total' = Calcs,
         l \in {"insert", "items", "commit"} =>
            /\ o # None => o \in runs \ approved
            /\ \A d \in Calcs : d # c /\ o \in runs => ~ Replaces(d, o),
         l \in {"items", "commit"} =>
            /\ \A d \in Calcs : d # c => ~ Inserted(d)
            /\ runs \subseteq {o}
  PROVE Inv'
<1>1. ShapeInv'
  BY DEF Inv, ShapeInv, Answers, Busy
<1>2. \A d \in Calcs : d # c => /\ Inserted(d)' = Inserted(d) /\ old'[d] = old[d] /\ pc'[d] = pc[d]
                               /\ \A r : Replaces(d, r)' = Replaces(d, r)
  BY DEF Inv, ShapeInv, Inserted, Replaces
<1>3. /\ Inserted(c)' => l \in {"items", "commit"}
      /\ \A r : Replaces(c, r)' => l \in {"insert", "items", "commit"} /\ r = o
      /\ old'[c] = o /\ pc'[c] = l
  BY DEF Inv, ShapeInv, Inserted, Replaces
<1>4. RunInv'
  BY <1>2, <1>3 DEF Inv, ShapeInv, RunInv, OneRunPerMonth, Inserted
<1> QED BY <1>1, <1>4 DEF Inv

LEMMA FoundInv ==
  ASSUME Inv, NEW c \in Calcs, NEW r \in runs, pc[c] \in {"select", "wait"},
         ~ Locked(r), RunFound(c, r)
  PROVE Inv'
<1>1. CASE r \in approved
  BY <1>1, MoveInv DEF RunFound, Goto, Inv, ShapeInv, Answers, Busy
<1>2. CASE r \notin approved
  <2>1. \A d \in Calcs : ~ Replaces(d, r)
    BY DEF Locked
  <2> QED BY <1>2, <2>1, MoveInv DEF RunFound, Goto, Inv, ShapeInv, Answers, Busy
<1> QED BY <1>1, <1>2

LEMMA CalculateInv ==
  ASSUME Inv, NEW c \in Calcs, Calculate(c), ~ Commit(c)
  PROVE Inv'
<1>1. CASE SelectRun(c)
  BY <1>1, FoundInv, MoveInv DEF SelectRun, NoRunFound, AwaitRun, Goto, Inv, ShapeInv, Answers, Busy
<1>2. CASE RecheckRun(c)
  <2>1. CASE old[c] \in runs
    BY <1>2, <2>1, FoundInv DEF RecheckRun
  <2>2. CASE old[c] \notin runs
    <3>1. /\ pc[c] = "wait"
          /\ pc' = [pc EXCEPT ![c] = "insert"] /\ old' = [old EXCEPT ![c] = None]
          /\ UNCHANGED <<items, total, runs, approved>>
      BY <1>2, <2>2 DEF RecheckRun, NoRunFound, Goto
    <3>2. None \notin runs
      BY NoneAssumption DEF Inv, ShapeInv
    <3> QED BY <3>1, <3>2, MoveInv DEF Inv, ShapeInv, Answers, Busy
  <2> QED BY <2>1, <2>2
<1>3. CASE InsertRun(c)
  <2>1. old' = [old EXCEPT ![c] = old[c]] /\ old[c] \in Calcs \cup {None}
    BY <1>3 DEF InsertRun, Inv, ShapeInv
  <2>2. \A d \in Calcs : d # c /\ old[c] \in runs => ~ Replaces(d, old[c])
    BY <1>3 DEF InsertRun, Replaces, Inv, RunInv
  <2> QED BY <1>3, <2>1, <2>2, MoveInv
          DEF InsertRun, Goto, Inv, ShapeInv, RunInv, Answers, Busy
<1>4. CASE \E e \in Emps, earned \in Earnings : AddItem(c, e, earned)
  <2>1. /\ UNCHANGED <<pc, old, runs, approved>>
        /\ DOMAIN items' = Calcs /\ DOMAIN total' = Calcs
    BY <1>4 DEF AddItem, Inv, ShapeInv
  <2> QED BY <2>1 DEF Inv, ShapeInv, RunInv, OneRunPerMonth, Inserted, Replaces
<1>5. CASE Totals(c)
  <2>1. /\ old' = [old EXCEPT ![c] = old[c]] /\ old[c] \in Calcs \cup {None}
        /\ Inserted(c)
    BY <1>5 DEF Totals, Inserted, Inv, ShapeInv
  <2>2. \A d \in Calcs : d # c /\ old[c] \in runs => ~ Replaces(d, old[c])
    BY <2>1 DEF Replaces, Inv, RunInv
  <2> QED BY <1>5, <2>1, <2>2, MoveInv
          DEF Totals, Goto, Inv, ShapeInv, RunInv, Answers, Busy
<1> QED BY <1>1, <1>2, <1>3, <1>4, <1>5 DEF Calculate

(* What a commit does to the month. *)
LEMMA CommitMonth ==
  ASSUME Inv, NEW c \in Calcs, Commit(c)
  PROVE /\ runs' = {c} /\ c \notin runs /\ runs \subseteq {old[c]}
        /\ approved = {} /\ approved' = {}
        /\ UNCHANGED <<old, items, total>>
        /\ \E answer \in {"created", "error"} : pc' = [pc EXCEPT ![c] = answer]
<1>1. /\ pc[c] = "commit" /\ Inserted(c)
      /\ runs' = (runs \ {old[c]}) \cup {c}
      /\ UNCHANGED <<old, items, total, approved>>
      /\ \E answer \in {"created", "error"} : pc' = [pc EXCEPT ![c] = answer]
  BY DEF Commit, Goto, Inserted
<1>2. c \notin runs /\ runs \subseteq {old[c]}
  BY <1>1 DEF Inv, ShapeInv, RunInv
<1>3. approved = {}
  BY <1>1, <1>2, NoneAssumption DEF Inv, ShapeInv, RunInv
<1> QED BY <1>1, <1>2, <1>3

LEMMA CommitInv ==
  ASSUME Inv, NEW c \in Calcs, Commit(c)
  PROVE Inv'
<1>1. /\ runs' = {c} /\ approved' = {} /\ UNCHANGED <<old, items, total>>
      /\ runs \subseteq {old[c]} /\ Inserted(c)
      /\ \E answer \in {"created", "error"} : pc' = [pc EXCEPT ![c] = answer]
  BY CommitMonth DEF Commit, Inserted
<1>2. ShapeInv'
  BY <1>1 DEF Inv, ShapeInv, Answers
<1>3. \A d \in Calcs : d # c => ~ Inserted(d) /\ ~ Inserted(d)' /\ pc'[d] = pc[d]
  BY <1>1 DEF Inv, ShapeInv, RunInv, Inserted
<1>4. pc'[c] \in {"created", "error"}
  BY <1>1 DEF Inv, ShapeInv
(* No other transaction had locked a run, and none has locked the new one. *)
<1>5. \A d \in Calcs : pc'[d] = "insert" \/ Inserted(d)' => old[d] = None
  <2> SUFFICES ASSUME NEW d \in Calcs, pc'[d] = "insert" \/ Inserted(d)', old[d] # None
               PROVE FALSE OBVIOUS
  <2>1. d # c /\ pc[d] = "insert"
    BY <1>3, <1>4 DEF Inserted
  <2>2. old[d] \in runs /\ old[d] = old[c]
    BY <1>1, <2>1 DEF Inv, RunInv
  <2> QED BY <1>1, <2>1, <2>2 DEF Inv, RunInv, Replaces
<1>6. RunInv'
  BY <1>1, <1>3, <1>4, <1>5, NoneAssumption DEF RunInv, OneRunPerMonth, Replaces, Inserted
<1> QED BY <1>2, <1>6 DEF Inv

LEMMA StepInv == Inv /\ [Next]_vars => Inv'
<1> SUFFICES ASSUME Inv, [Next]_vars PROVE Inv' OBVIOUS
<1>1. ASSUME NEW c \in Calcs, Start(c) \/ Abort(c) PROVE Inv'
  <2>1. old' = [old EXCEPT ![c] = old[c]] /\ old[c] \in Calcs \cup {None}
    BY <1>1 DEF Start, Abort, Inv, ShapeInv
  <2> QED BY <1>1, <2>1, MoveInv DEF Start, Abort, Goto, Inv, ShapeInv, Answers, Busy
<1>2. ASSUME NEW c \in Calcs, Calculate(c) PROVE Inv'
  BY <1>2, CalculateInv, CommitInv
<1>3. ASSUME NEW r \in Calcs, Approve(r) PROVE Inv'
  BY <1>3 DEF Approve, Locked, Inv, ShapeInv, RunInv, OneRunPerMonth, Inserted, Replaces
<1>4. CASE UNCHANGED runVars
  BY <1>4 DEF runVars, Inv, ShapeInv, RunInv, OneRunPerMonth, Inserted, Replaces
<1>5. CASE \/ \E a \in Advances, e \in Emps, cents \in Amounts : AskAdvance(a, e, cents)
           \/ \E a \in Advances : InsertAdvance(a) \/ FailAdvance(a)
           \/ \E a \in Advances, d \in {"approved", "rejected"} : ReviewAdvance(a, d)
           \/ Idle \/ UNCHANGED vars
  BY <1>4, <1>5 DEF AskAdvance, InsertAdvance, FailAdvance, ReviewAdvance, Idle, vars
<1> QED BY <1>1, <1>2, <1>3, <1>5 DEF Next

LEMMA Invariant == Spec => []Inv
BY InitInv, StepInv, PTL DEF Spec

(* A month never has two runs, whatever calculations run at once. *)
THEOREM OneRunPerMonthHolds == Spec => []OneRunPerMonth
BY Invariant, PTL DEF Inv, RunInv

(***************************************************************************)
(* Payroll implements PayMonth.                                            *)
(***************************************************************************)
finalBar == runs \cap approved # {}
payslipsBar == IF runs = {} THEN None ELSE <<items[TheRun], total[TheRun]>>

LEMMA StepMonth == Inv /\ [Next]_vars => [Month!Next]_<<TheRun, finalBar, payslipsBar>>
<1> SUFFICES ASSUME Inv, [Next]_vars
             PROVE Month!Next \/ UNCHANGED <<TheRun, finalBar, payslipsBar>> OBVIOUS
<1>1. ASSUME NEW c \in Calcs, Commit(c) PROVE Month!Next
  <2>1. /\ runs' = {c} /\ c \notin runs /\ approved = {} /\ approved' = {}
    BY <1>1, CommitMonth
  <2>2. TheRun' = c
    BY <2>1 DEF TheRun
  <2>3. TheRun # c
    BY <2>1, NoneAssumption DEF TheRun, Inv, ShapeInv
  <2>4. ~ finalBar /\ ~ finalBar'
    BY <2>1 DEF finalBar
  <2> QED BY <2>2, <2>3, <2>4 DEF Month!Next, Month!Calculate, finalBar
<1>2. ASSUME NEW r \in Calcs, Approve(r) PROVE Month!Next
  <2>1. /\ runs = {r} /\ r \notin approved /\ approved' = approved \cup {r}
        /\ UNCHANGED <<runs, items, total>>
    BY <1>2 DEF Approve, Inv, RunInv, OneRunPerMonth
  <2>2. approved = {}
    BY <2>1 DEF Inv, ShapeInv
  <2>3. TheRun = r /\ TheRun' = TheRun
    BY <2>1 DEF TheRun
  <2>4. payslipsBar' = payslipsBar
    BY <2>1, <2>3 DEF payslipsBar
  <2>5. ~ finalBar /\ finalBar'
    BY <2>1, <2>2 DEF finalBar
  <2>6. TheRun # None
    BY <2>3, NoneAssumption
  <2> QED BY <2>3, <2>4, <2>5, <2>6 DEF Month!Next, Month!Approve, finalBar, payslipsBar
<1>3. ASSUME UNCHANGED <<runs, approved>>,
             \A r \in runs : items'[r] = items[r] /\ total'[r] = total[r]
      PROVE UNCHANGED <<TheRun, finalBar, payslipsBar>>
  <2>1. TheRun' = TheRun /\ finalBar' = finalBar
    BY <1>3 DEF TheRun, finalBar
  <2>2. runs # {} => TheRun \in runs
    BY DEF TheRun
  <2> QED BY <1>3, <2>1, <2>2 DEF payslipsBar
<1>4. CASE \E c \in Calcs, e \in Emps, earned \in Earnings : AddItem(c, e, earned)
  <2>1. PICK c \in Calcs, e \in Emps, earned \in Earnings : AddItem(c, e, earned)
    BY <1>4
  <2>2. c \notin runs /\ runs \subseteq Calcs
    BY <2>1 DEF AddItem, Inv, ShapeInv
  <2>3. \A r \in runs : items'[r] = items[r] /\ total'[r] = total[r]
    BY <2>1, <2>2 DEF AddItem, Inv, ShapeInv
  <2> QED BY <1>3, <2>1, <2>3 DEF AddItem
<1>5. CASE UNCHANGED <<runs, approved, items, total>>
  BY <1>3, <1>5
<1> QED
  BY <1>1, <1>2, <1>4, <1>5
  DEF Next, Start, Abort, Calculate, SelectRun, RecheckRun, RunFound, NoRunFound, AwaitRun,
      InsertRun, Totals, AskAdvance, InsertAdvance, FailAdvance, ReviewAdvance, Idle,
      vars, runVars

(* The run of a month is replaced only while it is a draft, by a complete  *)
(* one, and nothing in an approved run ever changes.                       *)
THEOREM ImplementsPayMonth == Spec => MonthSpec
<1>1. Init => Month!Init
  BY DEF Init, Month!Init, TheRun
<1>2. Inv /\ [Next]_vars => [Month!Next]_Month!month
  BY StepMonth DEF Month!month, finalBar, payslipsBar
<1> QED BY <1>1, <1>2, Invariant, PTL DEF Spec, MonthSpec, Month!Spec

(* An approved run stays approved and as it is. *)
LEMMA ApprovedStay ==
  ASSUME Inv, [Next]_vars
  PROVE  /\ approved \subseteq approved'
         /\ \A r \in approved : items'[r] = items[r] /\ total'[r] = total[r]
<1>1. \A r \in approved : r \in Calcs /\ pc[r] # "items"
  BY DEF Inv, ShapeInv
<1>2. ASSUME NEW c \in Calcs, NEW e \in Emps, NEW earned \in Earnings, AddItem(c, e, earned)
      PROVE  /\ approved \subseteq approved'
             /\ \A r \in approved : items'[r] = items[r] /\ total'[r] = total[r]
  BY <1>1, <1>2 DEF AddItem, Inv, ShapeInv
<1>3. ASSUME NEW c \in Calcs, Approve(c)
      PROVE  approved \subseteq approved' /\ UNCHANGED <<items, total>>
  BY <1>3 DEF Approve
<1>4. ASSUME NEW c \in Calcs, Start(c) \/ SelectRun(c) \/ RecheckRun(c) \/ InsertRun(c)
                                \/ Totals(c) \/ Commit(c) \/ Abort(c)
      PROVE  UNCHANGED <<approved, items, total>>
  BY <1>4 DEF Start, SelectRun, RecheckRun, InsertRun, Totals, Commit, Abort, RunFound, NoRunFound, AwaitRun
<1>5. ASSUME NEW a \in Advances,
             \/ \E e \in Emps, cents \in Amounts : AskAdvance(a, e, cents)
             \/ InsertAdvance(a) \/ FailAdvance(a)
             \/ \E d \in {"approved", "rejected"} : ReviewAdvance(a, d)
      PROVE  UNCHANGED <<approved, items, total>>
  BY <1>5 DEF AskAdvance, InsertAdvance, FailAdvance, ReviewAdvance, runVars
<1>6. CASE UNCHANGED vars
  BY <1>6 DEF vars, runVars
<1> QED BY <1>2, <1>3, <1>4, <1>5, <1>6 DEF Next, Calculate, Idle

(* The same of the tables themselves: no step takes an approval back,      *)
(* removes an approved run or writes to its items or totals.               *)
THEOREM ApprovedIsFinal ==
  Spec => [][\A r \in approved : /\ r \in runs' \cap approved'
                                 /\ items'[r] = items[r] /\ total'[r] = total[r]]_vars
<1>1. Inv /\ Inv' /\ [Next]_vars =>
        [\A r \in approved : /\ r \in runs' \cap approved'
                             /\ items'[r] = items[r] /\ total'[r] = total[r]]_vars
  <2> SUFFICES ASSUME Inv, Inv', [Next]_vars, NEW r \in approved
               PROVE  /\ r \in runs' \cap approved'
                      /\ items'[r] = items[r] /\ total'[r] = total[r]
    OBVIOUS
  <2>1. approved \subseteq approved' /\ items'[r] = items[r] /\ total'[r] = total[r]
    BY ApprovedStay
  <2> QED BY <2>1 DEF Inv, ShapeInv
<1> QED BY <1>1, Invariant, PTL DEF Spec

(***************************************************************************)
(* The books: items, totals and advances.  Nothing is assumed finite: only *)
(* finitely many employees have an item and finitely many advances a row,  *)
(* because each was inserted by a step.                                    *)
(***************************************************************************)
Item == [ewa : Nat, net : Nat]

(* The employees the loop of c has been through. *)
Paid(c) == {e \in Emps : items[c][e] # None}

Nets(c) == [e \in Paid(c) |-> items[c][e].net]
Ewas(c) == [e \in Paid(c) |-> items[c][e].ewa]

ItemInv ==
  /\ items \in [Calcs -> [Emps -> Item \cup {None}]]
  /\ total \in [Calcs -> Item]
  /\ \A c \in Calcs : pc[c] = "commit" \/ c \in runs => Paid(c) = Emps

(* The totals are right after every turn of the loop. *)
TotalInv ==
  \A c \in Calcs :
    /\ IsFiniteSet(Paid(c))
    /\ total[c].net = SumFunction(Nets(c))
    /\ total[c].ewa = SumFunction(Ewas(c))

Rows == {a \in Advances : status[a] # None}

(* What is asked for is fixed before the row is inserted. *)
AdvanceInv ==
  /\ apc \in [Advances -> Answers \cup {"new", "insert"}]
  /\ ask \in [Advances -> [emp : Emps, cents : Amounts] \cup {None}]
  /\ status \in [Advances -> {None, "pending", "approved", "rejected"}]
  /\ \A a \in Rows : apc[a] # "new" /\ apc[a] # "insert"
  /\ \A a \in Advances : apc[a] # "new" => ask[a] \in [emp : Emps, cents : Amounts]
  /\ IsFiniteSet(Rows)

Deductible(e) == Amount(Requested(e, {"approved"}))

(* Also an item that is not committed yet deducts approved advances only. *)
DeductedInv ==
  \A c \in Calcs, e \in Emps : items[c][e] # None => items[c][e].ewa <= Deductible(e)

Books == ItemInv /\ TotalInv /\ AdvanceInv /\ DeductedInv

LEMMA RowsAreAmounts ==
  ASSUME AdvanceInv, NEW S \in SUBSET Rows
  PROVE  IsFiniteSet(S) /\ [a \in S |-> ask[a].cents] \in [S -> Nat] /\ Amount(S) \in Nat
<1>1. IsFiniteSet(S)
  BY FS_Subset DEF AdvanceInv
<1>2. \A a \in S : ask[a].cents \in Nat
  BY MoneyAssumption DEF AdvanceInv, Rows
<1>3. [a \in S |-> ask[a].cents] \in [S -> Nat]
  BY <1>2
<1>4. SumFunction([a \in S |-> ask[a].cents]) \in Nat
  BY <1>1, <1>3, SumType
<1> QED BY <1>1, <1>3, <1>4 DEF Amount

LEMMA ApprovedAreRows ==
  ASSUME NEW e
  PROVE  Requested(e, {"approved"}) \in SUBSET Rows
BY NoRowAssumption DEF Requested, Rows

LEMMA InitBooks == Init => Books
<1> SUFFICES ASSUME Init PROVE Books OBVIOUS
<1>1. ItemInv
  BY DEF Init, ItemInv, Item
<1>2. TotalInv
  <2>1. \A c \in Calcs : Paid(c) = {}
    BY DEF Init, Paid
  <2>2. \A c \in Calcs : DOMAIN Nets(c) = {} /\ DOMAIN Ewas(c) = {}
    BY <2>1 DEF Nets, Ewas
  <2>3. \A c \in Calcs : SumFunction(Nets(c)) = 0 /\ SumFunction(Ewas(c)) = 0
    BY <2>2, SumEmpty
  <2>4. \A c \in Calcs : total[c].net = 0 /\ total[c].ewa = 0
    BY DEF Init
  <2> QED BY <2>1, <2>3, <2>4, FS_EmptySet DEF TotalInv
<1>3. AdvanceInv
  <2>1. Rows = {}
    BY DEF Init, Rows
  <2> QED BY <2>1, FS_EmptySet DEF Init, AdvanceInv, Answers
<1>4. DeductedInv
  BY DEF Init, DeductedInv
<1> QED BY <1>1, <1>2, <1>3, <1>4 DEF Books

(* One turn of the loop. *)
LEMMA AddItemBooks ==
  ASSUME Inv, Books, NEW c \in Calcs, NEW e \in Emps, NEW earned \in Earnings, AddItem(c, e, earned)
  PROVE  Books'
<1> DEFINE ewa == Deductible(e)
           net == Payable(earned, ewa)
<1>1. ewa \in Nat
  BY RowsAreAmounts, ApprovedAreRows DEF Deductible, Books
<1>2. net \in Nat
  BY <1>1, MoneyAssumption DEF Payable
<1>3. /\ pc[c] = "items" /\ items[c][e] = None
      /\ items' = [items EXCEPT ![c][e] = [ewa |-> ewa, net |-> net]]
      /\ total' = [total EXCEPT ![c].ewa = @ + ewa, ![c].net = @ + net]
      /\ UNCHANGED <<pc, old, runs, approved, apc, ask, status>>
  BY DEF AddItem, Deductible, ewaVars
<1> HIDE DEF ewa, net
<1> USE DEF Books
<1>4. /\ items'[c][e] = [ewa |-> ewa, net |-> net] /\ items'[c][e] \in Item
      /\ \A d \in Calcs, f \in Emps : d # c \/ f # e => items'[d][f] = items[d][f]
      /\ items' \in [Calcs -> [Emps -> Item \cup {None}]]
  BY <1>1, <1>2, <1>3 DEF ItemInv, Item
<1>5. /\ total[c].ewa \in Nat /\ total[c].net \in Nat
      /\ total'[c] = [ewa |-> total[c].ewa + ewa, net |-> total[c].net + net]
      /\ \A d \in Calcs : d # c => total'[d] = total[d]
  BY <1>3 DEF ItemInv, Item
<1>6. total' \in [Calcs -> Item]
  BY <1>1, <1>2, <1>3, <1>5 DEF ItemInv, Item
<1>7. items'[c][e] # None
  BY <1>4, NoRowAssumption DEF Item
<1>8. /\ e \notin Paid(c) /\ Paid(c)' = Paid(c) \cup {e}
      /\ \A d \in Calcs : d # c => Paid(d)' = Paid(d)
  BY <1>3, <1>4, <1>7 DEF Paid
<1>9. c \notin runs /\ pc[c] # "commit"
  BY <1>3 DEF Inv, ShapeInv
<1>10. ItemInv'
  BY <1>3, <1>4, <1>6, <1>8, <1>9 DEF ItemInv
<1>11. TotalInv'
  <2>1. ASSUME NEW d \in Calcs, d # c
        PROVE  /\ IsFiniteSet(Paid(d)')
               /\ total'[d].net = SumFunction(Nets(d)') /\ total'[d].ewa = SumFunction(Ewas(d)')
    <3>1. Nets(d)' = Nets(d) /\ Ewas(d)' = Ewas(d)
      BY <1>4, <1>8, <2>1 DEF Nets, Ewas, Paid
    <3> QED BY <1>5, <1>8, <2>1, <3>1 DEF TotalInv
  <2>2. IsFiniteSet(Paid(c)) /\ IsFiniteSet(Paid(c)')
    BY <1>8, FS_AddElement DEF TotalInv
  <2>3. /\ Nets(c) \in [Paid(c) -> Nat] /\ Ewas(c) \in [Paid(c) -> Nat]
        /\ \A f \in Paid(c) : items[c][f] \in Item
    BY DEF ItemInv, Item, Paid, Nets, Ewas
  <2>4. /\ Nets(c)' \in [Paid(c) \cup {e} -> Nat] /\ Ewas(c)' \in [Paid(c) \cup {e} -> Nat]
        /\ Nets(c)'[e] = net /\ Ewas(c)'[e] = ewa
        /\ \A f \in Paid(c) : Nets(c)'[f] = Nets(c)[f] /\ Ewas(c)'[f] = Ewas(c)[f]
    <3>1. \A f \in Paid(c) : f # e /\ f \in Emps /\ items'[c][f] = items[c][f]
      BY <1>4, <1>8 DEF Paid
    <3>2. \A f \in Paid(c) \cup {e} : items'[c][f] \in Item
      BY <1>4, <2>3, <3>1
    <3>3. /\ Nets(c)' = [f \in Paid(c) \cup {e} |-> items'[c][f].net]
          /\ Ewas(c)' = [f \in Paid(c) \cup {e} |-> items'[c][f].ewa]
      BY <1>8 DEF Nets, Ewas
    <3> QED BY <1>1, <1>2, <1>4, <3>1, <3>2, <3>3 DEF Item, Nets, Ewas
  <2>5. ASSUME NEW f \in [Paid(c) -> Nat], NEW g \in [Paid(c) \cup {e} -> Nat],
               \A x \in Paid(c) : g[x] = f[x]
        PROVE  SumFunction(g) = SumFunction(f) + g[e]
    BY <1>8, <2>2, <2>5, SumAdd
  <2>6. /\ SumFunction(Nets(c)') = SumFunction(Nets(c)) + Nets(c)'[e]
        /\ SumFunction(Ewas(c)') = SumFunction(Ewas(c)) + Ewas(c)'[e]
    BY <2>3, <2>4, <2>5
  <2>7. total'[c].net = SumFunction(Nets(c)') /\ total'[c].ewa = SumFunction(Ewas(c)')
    BY <1>5, <2>4, <2>6 DEF TotalInv
  <2> QED BY <2>1, <2>2, <2>7 DEF TotalInv
<1>12. AdvanceInv'
  BY <1>3 DEF AdvanceInv, Rows
<1>13. DeductedInv'
  <2>1. \A f : Deductible(f)' = Deductible(f)
    BY <1>3 DEF Deductible, Requested, Amount
  <2>2. items'[c][e].ewa <= Deductible(e)
    BY <1>1, <1>4 DEF ewa
  <2> QED BY <1>4, <2>1, <2>2 DEF DeductedInv
<1> QED BY <1>10, <1>11, <1>12, <1>13

(* The advances that are approved stay approved, and what they ask for     *)
(* stays as it was.                                                        *)
LEMMA DeductibleGrows ==
  ASSUME AdvanceInv, AdvanceInv', NEW e,
         \A a \in Rows : ask'[a] = ask[a] /\ (status[a] = "approved" => status'[a] = "approved")
  PROVE  Deductible(e) <= Deductible(e)'
<1> DEFINE S == Requested(e, {"approved"})
           T == Requested(e, {"approved"})'
<1>1. S \in SUBSET Rows /\ T \in SUBSET Rows'
  BY NoRowAssumption DEF Requested, Rows
<1>2. S \in SUBSET T
  BY <1>1 DEF Requested, Rows
<1> DEFINE f == [a \in S |-> ask[a].cents]
           g == [a \in T |-> ask'[a].cents]
<1>3. f \in [S -> Nat]
  BY <1>1, RowsAreAmounts
<1>4. IsFiniteSet(T) /\ g \in [T -> Nat]
  <2>1. \A a \in T : ask'[a].cents \in Nat
    BY <1>1, MoneyAssumption DEF AdvanceInv, Rows
  <2>2. IsFiniteSet(T)
    BY <1>1, FS_Subset DEF AdvanceInv
  <2> QED BY <2>1, <2>2
<1>5. \A a \in S : f[a] <= g[a]
  <2>1. \A a \in S : a \in T /\ f[a] = g[a] /\ f[a] \in Nat
    BY <1>1, <1>2, <1>3
  <2> QED BY <2>1
<1>6. Deductible(e) = SumFunction(f) /\ Deductible(e)' = SumFunction(g)
  BY DEF Deductible, Amount
<1> HIDE DEF S, T, f, g
<1>7. SumFunction(f) <= SumFunction(g)
  BY <1>2, <1>3, <1>4, <1>5, SumMono
<1> QED BY <1>6, <1>7

(* A step of a request for an advance or of its review. *)
LEMMA AdvanceBooks ==
  ASSUME Inv, Books, AdvanceInv', UNCHANGED runVars,
         \A a \in Rows : ask'[a] = ask[a] /\ (status[a] = "approved" => status'[a] = "approved")
  PROVE  Books'
<1> USE DEF Books
<1>1. ItemInv' /\ TotalInv'
  BY DEF runVars, ItemInv, TotalInv, Paid, Nets, Ewas
<1>2. DeductedInv'
  <2>1. ASSUME NEW c \in Calcs, NEW e \in Emps, items[c][e] # None
        PROVE  items[c][e].ewa <= Deductible(e)'
    <3>1. Deductible(e) <= Deductible(e)'
      BY DeductibleGrows
    <3>2. Deductible(e) \in Nat
      BY RowsAreAmounts, ApprovedAreRows DEF Deductible
    <3>3. Deductible(e)' \in Nat
      <4>1. \A a \in Rows' : ask'[a].cents \in Nat
        BY MoneyAssumption DEF AdvanceInv, Rows
      <4>2. Requested(e, {"approved"})' \in SUBSET Rows'
        BY NoRowAssumption DEF Requested, Rows
      <4> DEFINE T == Requested(e, {"approved"})'
                 g == [a \in T |-> ask'[a].cents]
      <4>3. IsFiniteSet(T) /\ g \in [T -> Nat]
        BY <4>1, <4>2, FS_Subset DEF AdvanceInv
      <4>4. Deductible(e)' = SumFunction(g)
        BY DEF Deductible, Amount
      <4> HIDE DEF T, g
      <4> QED BY <4>3, <4>4, SumType
    <3>4. items[c][e].ewa \in Nat /\ items[c][e].ewa <= Deductible(e)
      BY <2>1 DEF DeductedInv, ItemInv, Item
    <3> QED BY <3>1, <3>2, <3>3, <3>4
  <2> QED BY <2>1 DEF DeductedInv, runVars
<1> QED BY <1>1, <1>2

LEMMA StepBooks == Inv /\ Books /\ [Next]_vars => Books'
<1> SUFFICES ASSUME Inv, Books, [Next]_vars PROVE Books' OBVIOUS
<1> USE DEF Books
<1>1. ASSUME NEW a \in Advances, NEW e \in Emps, NEW cents \in Amounts, AskAdvance(a, e, cents)
      PROVE  Books'
  <2>1. /\ ask' = [ask EXCEPT ![a] = [emp |-> e, cents |-> cents]]
        /\ UNCHANGED status /\ apc[a] = "new" /\ UNCHANGED runVars
        /\ \E l \in {"insert", "refused"} : apc' = [apc EXCEPT ![a] = l]
    BY <1>1 DEF AskAdvance
  <2>2. a \notin Rows /\ Rows' = Rows
    BY <2>1 DEF AdvanceInv, Rows
  <2>3. AdvanceInv'
    BY <2>1, <2>2 DEF AdvanceInv, Answers
  <2>4. \A b \in Rows : ask'[b] = ask[b] /\ status'[b] = status[b]
    BY <2>1, <2>2 DEF AdvanceInv, Rows
  <2> QED BY <2>1, <2>3, <2>4, AdvanceBooks
<1>2. ASSUME NEW a \in Advances, InsertAdvance(a)
      PROVE  Books'
  <2>1. /\ apc[a] = "insert" /\ status' = [status EXCEPT ![a] = "pending"]
        /\ \E l \in {"created", "error"} : apc' = [apc EXCEPT ![a] = l]
        /\ UNCHANGED ask /\ UNCHANGED runVars
    BY <1>2 DEF InsertAdvance
  <2>2. a \notin Rows /\ Rows' = Rows \cup {a}
    BY <2>1, NoRowAssumption DEF AdvanceInv, Rows
  <2>3. IsFiniteSet(Rows')
    BY <2>2, FS_AddElement DEF AdvanceInv
  <2>4. AdvanceInv'
    BY <2>1, <2>2, <2>3 DEF AdvanceInv, Answers
  <2>5. \A b \in Rows : ask'[b] = ask[b] /\ status'[b] = status[b]
    BY <2>1, <2>2 DEF AdvanceInv, Rows
  <2> QED BY <2>1, <2>4, <2>5, AdvanceBooks
<1>3. ASSUME NEW a \in Advances, FailAdvance(a)
      PROVE  Books'
  <2>1. /\ apc[a] = "insert" /\ UNCHANGED <<ask, status>> /\ UNCHANGED runVars
        /\ apc' = [apc EXCEPT ![a] = "error"]
    BY <1>3 DEF FailAdvance
  <2>2. AdvanceInv'
    BY <2>1 DEF AdvanceInv, Answers, Rows
  <2> QED BY <2>1, <2>2, AdvanceBooks
<1>4. ASSUME NEW a \in Advances, NEW d \in {"approved", "rejected"}, ReviewAdvance(a, d)
      PROVE  Books'
  <2>1. /\ status[a] = "pending" /\ status' = [status EXCEPT ![a] = d]
        /\ UNCHANGED <<apc, ask>> /\ UNCHANGED runVars
    BY <1>4 DEF ReviewAdvance
  <2>2. Rows' = Rows
    BY <2>1, NoRowAssumption DEF AdvanceInv, Rows
  <2>3. AdvanceInv'
    BY <2>1, <2>2 DEF AdvanceInv
  <2>4. \A b \in Rows : status[b] = "approved" => status'[b] = "approved"
    BY <2>1 DEF AdvanceInv, Rows
  <2> QED BY <2>1, <2>3, <2>4, AdvanceBooks
<1>5. ASSUME NEW c \in Calcs, NEW e \in Emps, NEW earned \in Earnings, AddItem(c, e, earned)
      PROVE  Books'
  BY <1>5, AddItemBooks
<1>6. ASSUME UNCHANGED <<items, total, ewaVars>>,
             \A c \in Calcs : pc'[c] = "commit" \/ c \in runs' => pc[c] = "commit" \/ c \in runs \/ Paid(c) = Emps
      PROVE  Books'
  <2>1. ItemInv'
    BY <1>6 DEF ItemInv, Paid
  <2>2. TotalInv'
    BY <1>6 DEF TotalInv, Paid, Nets, Ewas
  <2>3. AdvanceInv'
    BY <1>6 DEF ewaVars, AdvanceInv, Rows
  <2>4. \A e : Deductible(e)' = Deductible(e)
    BY <1>6 DEF ewaVars, Deductible, Amount, Requested
  <2>5. DeductedInv'
    BY <1>6, <2>4 DEF DeductedInv
  <2> QED BY <2>1, <2>2, <2>3, <2>5
<1>7. ASSUME NEW c \in Calcs, Start(c) \/ SelectRun(c) \/ RecheckRun(c) \/ InsertRun(c) \/ Abort(c)
      PROVE  Books'
  <2>1. /\ UNCHANGED <<items, total, runs, ewaVars>>
        /\ \E l \in {"select", "refused", "insert", "wait", "items", "error"} :
              pc' = [pc EXCEPT ![c] = l]
    BY <1>7 DEF Start, SelectRun, RecheckRun, InsertRun, Abort, RunFound, NoRunFound, AwaitRun, Goto
  <2>2. \A d \in Calcs : pc'[d] = "commit" => pc[d] = "commit"
    BY <2>1 DEF Inv, ShapeInv
  <2> QED BY <1>6, <2>1, <2>2
<1>8. ASSUME NEW c \in Calcs, Totals(c)
      PROVE  Books'
  <2>1. /\ UNCHANGED <<items, total, runs, ewaVars>> /\ pc' = [pc EXCEPT ![c] = "commit"]
        /\ Paid(c) = Emps
    BY <1>8 DEF Totals, Goto, Paid
  <2>2. \A d \in Calcs : pc'[d] = "commit" => pc[d] = "commit" \/ d = c
    BY <2>1 DEF Inv, ShapeInv
  <2> QED BY <1>6, <2>1, <2>2
<1>9. ASSUME NEW c \in Calcs, Commit(c)
      PROVE  Books'
  <2>1. /\ UNCHANGED <<items, total, ewaVars>> /\ runs' \subseteq runs \cup {c} /\ pc[c] = "commit"
        /\ \E l \in {"created", "error"} : pc' = [pc EXCEPT ![c] = l]
    BY <1>9 DEF Commit, Goto
  <2>2. \A d \in Calcs : pc'[d] = "commit" => pc[d] = "commit"
    BY <2>1 DEF Inv, ShapeInv
  <2> QED BY <1>6, <2>1, <2>2
<1>10. ASSUME NEW c \in Calcs, Approve(c)
       PROVE  Books'
  BY <1>6, <1>10 DEF Approve
<1>11. CASE UNCHANGED vars
  BY <1>6, <1>11 DEF vars, runVars
<1> QED
  BY <1>1, <1>2, <1>3, <1>4, <1>5, <1>7, <1>8, <1>9, <1>10, <1>11 DEF Next, Calculate, Idle

LEMMA BooksInvariant == Spec => [](Inv /\ Books)
BY InitInv, InitBooks, StepInv, StepBooks, PTL DEF Spec

(* Every row has the shape its table gives it: no amount is negative,      *)
(* whatever is earned, asked for and deducted.                             *)
THEOREM TypeCorrect == Spec => []TypeOK
<1>1. Inv /\ Books => TypeOK
  <2> SUFFICES ASSUME Inv, Books PROVE TypeOK OBVIOUS
  <2>1. \A c \in Calcs, e \in Emps : items[c][e] = None \/ items[c][e] \in [ewa : Money, net : Money]
    BY DEF Books, ItemInv, Item, Money
  <2>2. total \in [Calcs -> [ewa : Money, net : Money]]
    BY DEF Books, ItemInv, Item, Money
  <2>3. pc \in [Calcs -> Answers \cup {"new", "select", "wait", "insert", "items", "commit"}]
    BY DEF Inv, ShapeInv, Busy
  <2> QED BY <2>1, <2>2, <2>3 DEF Inv, ShapeInv, Books, AdvanceInv, TypeOK
<1> QED BY <1>1, BooksInvariant, PTL

(* The totals anyone can read are the sums of the items, for any number of *)
(* employees and however calculations and reviews interleave.              *)
THEOREM RunAddsUpHolds == Spec => []RunAddsUp
<1>1. Inv /\ Books => RunAddsUp
  <2> SUFFICES ASSUME Inv, Books, NEW r \in runs
               PROVE  /\ \A e \in Emps : items[r][e] # None
                      /\ total[r].net = SumFunction([e \in Emps |-> items[r][e].net])
                      /\ total[r].ewa = SumFunction([e \in Emps |-> items[r][e].ewa])
    BY DEF RunAddsUp
  <2>1. r \in Calcs /\ Paid(r) = Emps
    BY DEF Inv, ShapeInv, Books, ItemInv
  <2>2. /\ Nets(r) = [e \in Emps |-> items[r][e].net]
        /\ Ewas(r) = [e \in Emps |-> items[r][e].ewa]
    BY <2>1 DEF Nets, Ewas
  <2>3. total[r].net = SumFunction(Nets(r)) /\ total[r].ewa = SumFunction(Ewas(r))
    BY <2>1 DEF Books, TotalInv
  <2>4. \A e \in Emps : items[r][e] # None
    BY <2>1 DEF Paid
  <2> QED BY <2>2, <2>3, <2>4
<1> QED BY <1>1, BooksInvariant, PTL

(* What a run deducts from an employee never exceeds his or her approved   *)
(* advances, then or later: an approval is not taken back.                 *)
THEOREM OnlyApprovedDeductedHolds == Spec => []OnlyApprovedDeducted
<1>1. Inv /\ Books => OnlyApprovedDeducted
  BY DEF Inv, ShapeInv, Books, ItemInv, DeductedInv, Paid, Deductible, OnlyApprovedDeducted
<1> QED BY <1>1, BooksInvariant, PTL

(***************************************************************************)
(* Calculations never wait for each other in a cycle.                      *)
(***************************************************************************)

(* The next statement of c waits for a lock of d or for its run. *)
WaitsFor(c, d) ==
  \/ pc[c] = "wait" /\ Replaces(d, old[c])
  \/ /\ pc[c] = "insert" /\ c # d
     /\ Inserted(d) \/ \E r \in runs \ {old[c]} : Replaces(d, r)

Level(c) ==
  IF Inserted(c) THEN 3
  ELSE IF pc[c] = "insert" THEN IF old[c] = None THEN 1 ELSE 2
  ELSE 0

(* Whoever is waited for is further on, so no calculations wait in a       *)
(* cycle: what NeverStuck says of the locks.  Of two that are about to     *)
(* insert, only the one that replaces the run can be waited for.           *)
THEOREM NoWaitCycle == Spec => [](\A c, d \in Calcs : WaitsFor(c, d) => Level(c) < Level(d))
<1>1. Inv => \A c, d \in Calcs : WaitsFor(c, d) => Level(c) < Level(d)
  <2> SUFFICES ASSUME Inv, NEW c \in Calcs, NEW d \in Calcs, WaitsFor(c, d)
               PROVE  Level(c) < Level(d)
    OBVIOUS
  <2>1. CASE pc[c] = "wait"
    BY <2>1 DEF WaitsFor, Level, Replaces, Inserted
  <2>2. CASE pc[c] = "insert" /\ Inserted(d)
    BY <2>2 DEF Level, Inserted
  <2>3. CASE pc[c] = "insert" /\ \E r \in runs \ {old[c]} : Replaces(d, r)
    <3>1. PICK r \in runs \ {old[c]} : Replaces(d, r)
      BY <2>3
    <3>2. old[c] = None
      BY <2>3, <3>1 DEF Inv, RunInv, OneRunPerMonth
    <3>3. old[d] # None /\ (pc[d] = "insert" \/ Inserted(d))
      BY <3>1, NoneAssumption DEF Replaces, Inv, ShapeInv
    <3> QED BY <2>3, <3>2, <3>3 DEF Level, Inserted
  <2> QED BY <2>1, <2>2, <2>3 DEF WaitsFor
<1> QED BY <1>1, Invariant, PTL

(* The locks do not keep c from its next statement. *)
Unhindered(c) ==
  \/ pc[c] \in {"select", "items", "commit"}
  \/ pc[c] = "wait" /\ ~ Locked(old[c])
  \/ /\ pc[c] = "insert"
     /\ \A d \in Calcs : d # c => ~ Inserted(d)
     /\ \A r \in runs \ {old[c]} : ~ Locked(r)

(* NeverStuck without ENABLED: as long as a calculation is under way, one  *)
(* of them finds the guards of its next statement true, and does not need  *)
(* another to fail or to run out of time.                                  *)
THEOREM SomeoneGoesOn ==
  Spec => []((\E c \in Calcs : pc[c] \in Busy) => \E c \in Calcs : Unhindered(c))
<1>1. Inv => ((\E c \in Calcs : pc[c] \in Busy) => \E c \in Calcs : Unhindered(c))
  <2> SUFFICES ASSUME Inv, NEW c \in Calcs, pc[c] \in Busy
               PROVE  \E d \in Calcs : Unhindered(d)
    OBVIOUS
  <2>1. ASSUME NEW d \in Calcs, Inserted(d)
        PROVE  Unhindered(d)
    BY <2>1 DEF Inserted, Unhindered
  (* One that replaces the run waits at most for one that has inserted. *)
  <2>2. ASSUME NEW d \in Calcs, NEW r \in runs, Replaces(d, r)
        PROVE  \E x \in Calcs : Unhindered(x)
    <3>1. runs \ {old[d]} = {}
      BY <2>2 DEF Replaces, Inv, RunInv, OneRunPerMonth
    <3> QED BY <2>1, <2>2, <3>1 DEF Replaces, Unhindered
  <2>3. ASSUME NEW d \in Calcs, pc[d] = "insert"
        PROVE  \E x \in Calcs : Unhindered(x)
    BY <2>1, <2>2, <2>3 DEF Unhindered, Locked
  <2>4. CASE pc[c] = "wait"
    BY <2>1, <2>3, <2>4 DEF Unhindered, Locked, Replaces
  <2> QED BY <2>3, <2>4 DEF Busy, Unhindered
<1> QED BY <1>1, Invariant, PTL

(***************************************************************************)
(* What it would take for advances to stay within the cap.                 *)
(***************************************************************************)
Owed(e) == Amount(Requested(e, {"pending", "approved"}))

(* A request for an advance is checked only while no other request of the  *)
(* employee is between its own check and its row.                          *)
AsksAlone ==
  \A a \in Advances : apc[a] = "new" /\ apc'[a] = "insert" =>
    \A b \in Advances : apc[b] = "insert" => ask[b].emp # ask'[a].emp

CapInv ==
  /\ \A e \in Emps : Owed(e) <= Cap
  /\ \A a \in Advances, e \in Emps :
       apc[a] = "insert" /\ ask[a].emp = e => Owed(e) + ask[a].cents <= Cap
  /\ \A a, b \in Advances :
       apc[a] = "insert" /\ apc[b] = "insert" /\ ask[a].emp = ask[b].emp => a = b

LEMMA OwedAreRows ==
  ASSUME AdvanceInv, NEW e
  PROVE  /\ Requested(e, {"pending", "approved"}) \in SUBSET Rows
         /\ Owed(e) \in Nat
<1>1. Requested(e, {"pending", "approved"}) \in SUBSET Rows
  BY NoRowAssumption DEF Requested, Rows
<1> QED BY <1>1, RowsAreAmounts DEF Owed

(* What is owed for the same rows, or for some of them. *)
LEMMA OwedShrinks ==
  ASSUME AdvanceInv, NEW e,
         Requested(e, {"pending", "approved"})' \subseteq Requested(e, {"pending", "approved"}),
         \A a \in Rows : ask'[a] = ask[a]
  PROVE  Owed(e)' <= Owed(e)
<1> DEFINE S == Requested(e, {"pending", "approved"})'
           T == Requested(e, {"pending", "approved"})
           f == [a \in S |-> ask'[a].cents]
           g == [a \in T |-> ask[a].cents]
<1>1. S \in SUBSET T /\ T \in SUBSET Rows
  BY OwedAreRows
<1>2. IsFiniteSet(T) /\ g \in [T -> Nat]
  BY <1>1, RowsAreAmounts
<1>3. \A a \in S : f[a] = g[a] /\ f[a] \in Nat
  BY <1>1, <1>2
<1>4. f \in [S -> Nat] /\ \A a \in S : f[a] <= g[a]
  <2>1. \A a \in S : f[a] <= g[a]
    BY <1>3
  <2> QED BY <1>3, <2>1
<1>5. Owed(e)' = SumFunction(f) /\ Owed(e) = SumFunction(g)
  BY DEF Owed, Amount
<1> HIDE DEF S, T, f, g
<1>6. SumFunction(f) <= SumFunction(g)
  BY <1>1, <1>2, <1>4, SumMono
<1> QED BY <1>5, <1>6

(* What is owed grows by the amount of a row that is inserted. *)
LEMMA OwedAdds ==
  ASSUME AdvanceInv, NEW a \in Advances, InsertAdvance(a), NEW e \in Emps, ask[a].emp = e
  PROVE  Owed(e)' = Owed(e) + ask[a].cents
<1> DEFINE S == Requested(e, {"pending", "approved"})
           f == [b \in S |-> ask[b].cents]
           g == [b \in S \cup {a} |-> ask[b].cents]
<1>1. /\ apc[a] = "insert" /\ status' = [status EXCEPT ![a] = "pending"] /\ UNCHANGED ask
      /\ a \notin Rows /\ ask[a] \in [emp : Emps, cents : Amounts]
  BY DEF InsertAdvance, AdvanceInv
<1>2. S \in SUBSET Rows
  BY OwedAreRows
<1>3. a \notin S /\ IsFiniteSet(S) /\ f \in [S -> Nat]
  BY <1>1, <1>2, RowsAreAmounts
<1>4. g \in [S \cup {a} -> Nat] /\ (\A b \in S : g[b] = f[b]) /\ g[a] = ask[a].cents
  <2>1. ask[a].cents \in Nat
    BY <1>1, MoneyAssumption
  <2>2. \A b \in S : ask[b].cents = f[b] /\ f[b] \in Nat
    BY <1>3
  <2> QED BY <2>1, <2>2
<1>5. Requested(e, {"pending", "approved"})' = S \cup {a}
  BY <1>1 DEF Requested, AdvanceInv
<1>6. Owed(e) = SumFunction(f)
  BY DEF Owed, Amount
<1>7. Owed(e)' = SumFunction(g)
  BY <1>1, <1>5 DEF Owed, Amount
<1> HIDE DEF S, f, g
<1>8. SumFunction(g) = SumFunction(f) + g[a]
  BY <1>3, <1>4, SumAdd
<1> QED BY <1>1, <1>4, <1>6, <1>7, <1>8

LEMMA StepCap ==
  ASSUME AdvanceInv, AdvanceInv', CapInv, Next, Reliable, AsksAlone
  PROVE  CapInv'
<1>0. \A e : Owed(e) \in Nat /\ Owed(e)' \in Nat
  <2>1. \A e : Owed(e) \in Nat
    BY OwedAreRows
  <2>2. ASSUME NEW e
        PROVE  Owed(e)' \in Nat
    <3> DEFINE S == Requested(e, {"pending", "approved"})'
               f == [b \in S |-> ask'[b].cents]
    <3>1. S \in SUBSET Rows'
      BY NoRowAssumption DEF Requested, Rows
    <3>2. IsFiniteSet(S)
      BY <3>1, FS_Subset DEF AdvanceInv
    <3>3. \A b \in S : ask'[b].cents \in Nat
      BY <3>1, MoneyAssumption DEF AdvanceInv, Rows
    <3>4. f \in [S -> Nat] /\ Owed(e)' = SumFunction(f)
      BY <3>3 DEF Owed, Amount
    <3> HIDE DEF S, f
    <3> QED BY <3>2, <3>4, SumType
  <2> QED BY <2>1, <2>2
<1>1. CASE UNCHANGED ewaVars
  <2>1. UNCHANGED <<apc, ask>> /\ \A e : Owed(e)' = Owed(e)
    BY <1>1 DEF ewaVars, Owed, Amount, Requested
  <2> QED BY <2>1 DEF CapInv
<1>2. ASSUME NEW a \in Advances, NEW e \in Emps, NEW cents \in Amounts, AskAdvance(a, e, cents)
      PROVE  CapInv'
  <2>1. /\ apc[a] = "new" /\ UNCHANGED status
        /\ ask' = [ask EXCEPT ![a] = [emp |-> e, cents |-> cents]]
        /\ \E l \in {"insert", "refused"} : apc' = [apc EXCEPT ![a] = l]
    BY <1>2 DEF AskAdvance
  <2>2. /\ ask'[a] = [emp |-> e, cents |-> cents]
        /\ \A b \in Advances : b # a => ask'[b] = ask[b] /\ apc'[b] = apc[b]
        /\ status[a] = None
    BY <2>1 DEF AdvanceInv, Rows
  <2>3. ASSUME NEW f
        PROVE  Owed(f)' = Owed(f)
    <3>1. Requested(f, {"pending", "approved"})' = Requested(f, {"pending", "approved"})
      BY <2>1, <2>2, NoRowAssumption DEF Requested
    <3>2. \A b \in Requested(f, {"pending", "approved"}) : ask'[b] = ask[b]
      BY <2>2, NoRowAssumption DEF Requested
    <3>3. [b \in Requested(f, {"pending", "approved"})' |-> ask'[b].cents]
            = [b \in Requested(f, {"pending", "approved"}) |-> ask[b].cents]
      BY <3>1, <3>2
    <3> QED BY <3>3 DEF Owed, Amount
  <2>4. apc'[a] = "insert" => Owed(e) + cents <= Cap
    <3>1. apc'[a] = "insert" => cents <= Cap - Owed(e)
      BY <2>1, <2>2 DEF Reliable, Owed
    <3> QED BY <1>0, <3>1, MoneyAssumption
  <2>5. apc'[a] = "insert" => \A b \in Advances : apc[b] = "insert" => ask[b].emp # e
    BY <2>1, <2>2 DEF AsksAlone
  <2>6. \A b \in Advances, f \in Emps :
          apc'[b] = "insert" /\ ask'[b].emp = f => Owed(f)' + ask'[b].cents <= Cap
    BY <2>2, <2>3, <2>4 DEF CapInv
  <2>7. \A b, d \in Advances :
          apc'[b] = "insert" /\ apc'[d] = "insert" /\ ask'[b].emp = ask'[d].emp => b = d
    BY <2>2, <2>5 DEF CapInv
  <2> QED BY <2>3, <2>6, <2>7 DEF CapInv
<1>3. ASSUME NEW a \in Advances, InsertAdvance(a)
      PROVE  CapInv'
  <2>1. /\ apc[a] = "insert" /\ status' = [status EXCEPT ![a] = "pending"] /\ UNCHANGED ask
        /\ \E l \in {"created", "error"} : apc' = [apc EXCEPT ![a] = l]
    BY <1>3 DEF InsertAdvance
  <2>2. /\ apc'[a] # "insert" /\ status'[a] = "pending"
        /\ \A b \in Advances : b # a => status'[b] = status[b] /\ apc'[b] = apc[b]
    BY <2>1 DEF AdvanceInv
  <2> PICK e \in Emps : ask[a].emp = e
    BY <2>1 DEF AdvanceInv
  <2>3. Owed(e)' <= Cap
    BY <1>3, <2>1, OwedAdds DEF CapInv
  <2>4. ASSUME NEW f, f # e
        PROVE  Owed(f)' <= Owed(f)
    <3>1. Requested(f, {"pending", "approved"})' \subseteq Requested(f, {"pending", "approved"})
      BY <2>1, <2>2, <2>4 DEF Requested
    <3> QED BY <2>1, <3>1, OwedShrinks
  <2>5. \A f \in Emps : Owed(f)' <= Cap
    <3> SUFFICES ASSUME NEW f \in Emps PROVE Owed(f)' <= Cap OBVIOUS
    <3>1. CASE f = e
      BY <2>3, <3>1
    <3>2. CASE f # e
      BY <1>0, <2>4, <3>2, MoneyAssumption DEF CapInv
    <3> QED BY <3>1, <3>2
  <2>6. ASSUME NEW b \in Advances, NEW f \in Emps, apc'[b] = "insert", ask'[b].emp = f
        PROVE  Owed(f)' + ask'[b].cents <= Cap
    <3>1. apc[b] = "insert" /\ ask'[b] = ask[b] /\ ask[b].emp = f /\ f # e
      BY <2>1, <2>2, <2>6 DEF CapInv
    <3>2. Owed(f)' <= Owed(f) /\ Owed(f) + ask[b].cents <= Cap
      BY <2>4, <3>1 DEF CapInv
    <3>3. ask[b].cents \in Nat
      BY <3>1, MoneyAssumption DEF AdvanceInv
    <3> QED BY <1>0, <3>1, <3>2, <3>3, MoneyAssumption
  <2>7. \A b, d \in Advances :
          apc'[b] = "insert" /\ apc'[d] = "insert" /\ ask'[b].emp = ask'[d].emp => b = d
    BY <2>1, <2>2 DEF CapInv
  <2> QED BY <2>5, <2>6, <2>7 DEF CapInv
<1>4. ASSUME UNCHANGED ask, \A b \in Advances : apc'[b] = "insert" => apc[b] = "insert",
             \A f : Requested(f, {"pending", "approved"})' \subseteq Requested(f, {"pending", "approved"})
      PROVE  CapInv'
  <2>1. \A f : Owed(f)' <= Owed(f)
    BY <1>4, OwedShrinks
  <2>2. \A f \in Emps : Owed(f)' <= Cap
    BY <1>0, <2>1, MoneyAssumption DEF CapInv
  <2>3. ASSUME NEW b \in Advances, NEW f \in Emps, apc'[b] = "insert", ask'[b].emp = f
        PROVE  Owed(f)' + ask'[b].cents <= Cap
    <3>1. apc[b] = "insert" /\ ask'[b] = ask[b] /\ ask[b].emp = f /\ ask[b].cents \in Nat
      BY <1>4, <2>3, MoneyAssumption DEF AdvanceInv
    <3>2. Owed(f)' <= Owed(f) /\ Owed(f) + ask[b].cents <= Cap
      BY <2>1, <3>1 DEF CapInv
    <3> QED BY <1>0, <3>1, <3>2, MoneyAssumption
  <2> QED BY <1>4, <2>2, <2>3 DEF CapInv
<1>5. ASSUME NEW a \in Advances,
             FailAdvance(a) \/ \E d \in {"approved", "rejected"} : ReviewAdvance(a, d)
      PROVE  CapInv'
  <2>1. CASE FailAdvance(a)
    BY <1>4, <2>1 DEF FailAdvance, AdvanceInv, Requested
  <2>2. CASE \E d \in {"approved", "rejected"} : ReviewAdvance(a, d)
    <3>1. /\ UNCHANGED <<apc, ask>> /\ status[a] = "pending"
          /\ \A b \in Advances : b # a => status'[b] = status[b]
      BY <2>2 DEF ReviewAdvance, AdvanceInv
    <3>2. \A f : Requested(f, {"pending", "approved"})' \subseteq Requested(f, {"pending", "approved"})
      BY <3>1 DEF Requested
    <3> QED BY <1>4, <3>1, <3>2
  <2> QED BY <1>5, <2>1, <2>2
<1>6. ASSUME NEW c \in Calcs, Start(c) \/ Calculate(c) \/ Abort(c) \/ Approve(c)
      PROVE  UNCHANGED ewaVars
  BY <1>6 DEF Start, Calculate, SelectRun, RecheckRun, InsertRun, AddItem, Totals, Commit, Abort, Approve,
              RunFound, NoRunFound, AwaitRun
<1> QED BY <1>1, <1>2, <1>3, <1>5, <1>6 DEF Next, Idle, vars

(* Finding 2 has these causes and no other: a SELECT that fails, or two    *)
(* requests of one employee of which one is checked before the row of the  *)
(* other is there.                                                         *)
THEOREM CapIfAskedAlone == ReliableSpec /\ [][AsksAlone]_vars => []AdvancesWithinCap
<1>1. ReliableSpec => Spec
  <2>1. [Next /\ Reliable]_vars => [Next]_vars
    OBVIOUS
  <2> QED BY <2>1, PTL DEF ReliableSpec, Spec
<1>2. Init => CapInv
  <2> SUFFICES ASSUME Init PROVE CapInv OBVIOUS
  <2>1. \A e : Requested(e, {"pending", "approved"}) = {}
    BY NoRowAssumption DEF Init, Requested
  <2>2. \A e : Owed(e) = 0
    BY <2>1, SumEmpty DEF Owed, Amount
  <2>3. \A a \in Advances : apc[a] = "new"
    BY DEF Init
  <2> QED BY <2>2, <2>3, MoneyAssumption DEF CapInv
<1>3. /\ Inv /\ Books /\ (Inv /\ Books)' /\ CapInv /\ [Next /\ Reliable]_vars /\ [AsksAlone]_vars
      => CapInv'
  <2> SUFFICES ASSUME Books, Books', CapInv, [Next /\ Reliable]_vars, [AsksAlone]_vars
               PROVE  CapInv'
    OBVIOUS
  <2>1. CASE UNCHANGED vars
    <3>1. UNCHANGED <<apc, ask>> /\ \A e : Owed(e)' = Owed(e)
      BY <2>1 DEF vars, ewaVars, Owed, Amount, Requested
    <3> QED BY <3>1 DEF CapInv
  <2>2. CASE Next /\ Reliable /\ AsksAlone
    BY <2>2, StepCap DEF Books
  <2> QED BY <2>1, <2>2
<1>4. CapInv => AdvancesWithinCap
  BY DEF CapInv, AdvancesWithinCap, Owed
<1> QED BY <1>1, <1>2, <1>3, <1>4, BooksInvariant, PTL DEF ReliableSpec

(***************************************************************************)
(* What it would take for every approved advance to be repaid.             *)
(***************************************************************************)

(* A run that is stored or about to be. *)
Live(c) == Inserted(c) \/ c \in runs

(* An advance is approved only while no such run has an item of its        *)
(* employee: before the calculation of the month comes to the employee.    *)
ApprovedInTime ==
  \A a \in Advances : status[a] # "approved" /\ status'[a] = "approved" =>
    \A c \in Calcs : Live(c) => items[c][ask[a].emp] = None

RepaidInv ==
  /\ \A c \in Calcs, e \in Emps : pc[c] \in {"new", "select", "wait", "insert"} => items[c][e] = None
  /\ \A c \in Calcs, e \in Emps :
       Live(c) /\ items[c][e] # None => items[c][e].ewa = Deductible(e)

(* A step of a request for an advance, or of its review. *)
LEMMA AdvanceRepaid ==
  ASSUME AdvanceInv, RepaidInv, UNCHANGED runVars, ApprovedInTime, NEW a \in Advances,
         \/ \E e \in Emps, cents \in Amounts : AskAdvance(a, e, cents)
         \/ InsertAdvance(a) \/ FailAdvance(a)
         \/ \E d \in {"approved", "rejected"} : ReviewAdvance(a, d)
  PROVE  RepaidInv'
<1>1. \A b \in Rows : ask'[b] = ask[b]
  BY DEF AskAdvance, InsertAdvance, FailAdvance, ReviewAdvance, AdvanceInv, Rows
<1>2. /\ \A b \in Advances : b # a => status'[b] = status[b]
      /\ status[a] = "approved" => status'[a] = "approved"
      /\ status'[a] = "approved" => a \in Rows
  BY NoRowAssumption DEF AskAdvance, InsertAdvance, FailAdvance, ReviewAdvance, AdvanceInv, Rows
<1>3. ASSUME NEW e, ~ (status[a] # "approved" /\ status'[a] = "approved" /\ ask[a].emp = e)
      PROVE  Deductible(e)' = Deductible(e)
  <2>1. Requested(e, {"approved"})' = Requested(e, {"approved"})
    BY <1>1, <1>2, <1>3, NoRowAssumption DEF Requested, Rows
  <2>2. \A b \in Requested(e, {"approved"}) : ask'[b] = ask[b]
    BY <1>1, ApprovedAreRows
  <2>3. [b \in Requested(e, {"approved"})' |-> ask'[b].cents]
          = [b \in Requested(e, {"approved"}) |-> ask[b].cents]
    BY <2>1, <2>2
  <2> QED BY <2>3 DEF Deductible, Amount
<1>4. UNCHANGED <<pc, items, runs>> /\ \A c : Live(c)' = Live(c)
  BY DEF runVars, Live, Inserted
<1>5. ASSUME NEW c \in Calcs, NEW e \in Emps, Live(c), items[c][e] # None
      PROVE  Deductible(e)' = Deductible(e)
  BY <1>3, <1>5 DEF ApprovedInTime
<1> QED BY <1>4, <1>5 DEF RepaidInv

LEMMA AddItemRepaid ==
  ASSUME Inv, Books, RepaidInv, NEW c \in Calcs, NEW e \in Emps, NEW earned \in Earnings,
         AddItem(c, e, earned)
  PROVE  RepaidInv'
<1>1. PICK item : item = [ewa |-> Deductible(e), net |-> Payable(earned, Deductible(e))]
  OBVIOUS
<1>2. /\ pc[c] = "items" /\ UNCHANGED <<pc, runs, ewaVars>>
      /\ items' = [items EXCEPT ![c][e] = item]
  BY <1>1 DEF AddItem, Deductible
<1>3. /\ items'[c][e] = item
      /\ \A d \in Calcs, f \in Emps : d # c \/ f # e => items'[d][f] = items[d][f]
  BY <1>2 DEF Books, ItemInv
<1>4. /\ \A d : Live(d)' = Live(d)
      /\ \A f : Deductible(f)' = Deductible(f)
  BY <1>2 DEF Live, Inserted, Deductible, Amount, Requested, ewaVars
<1>5. item.ewa = Deductible(e)
  BY <1>1
<1> QED BY <1>2, <1>3, <1>4, <1>5 DEF RepaidInv

(* A step of a calculation c that adds no item. *)
LEMMA MoveRepaid ==
  ASSUME Inv, RepaidInv, NEW c \in Calcs,
         Start(c) \/ SelectRun(c) \/ RecheckRun(c) \/ InsertRun(c) \/ Totals(c) \/ Commit(c) \/ Abort(c)
           \/ Approve(c)
  PROVE  RepaidInv'
<1>1. /\ UNCHANGED <<items, ewaVars>> /\ \A d \in Calcs : d # c => pc'[d] = pc[d]
      /\ pc'[c] \in {"new", "select", "wait", "insert"} => pc[c] \in {"new", "select", "wait", "insert"}
      /\ pc'[c] \in {"items", "commit"} => pc[c] \in {"insert", "items", "commit"}
      /\ runs' \subseteq runs \cup {c} /\ (c \in runs' => c \in runs \/ pc[c] = "commit")
  BY DEF Start, SelectRun, RecheckRun, InsertRun, Totals, Commit, Abort, Approve, RunFound, NoRunFound,
         AwaitRun, Goto, Inv, ShapeInv, Answers, Busy
<1>2. \A e : Deductible(e)' = Deductible(e)
  BY <1>1 DEF Deductible, Amount, Requested, ewaVars
<1>3. \A d \in Calcs, e \in Emps : Live(d)' /\ items[d][e] # None => Live(d)
  BY <1>1 DEF Live, Inserted, RepaidInv
<1> QED BY <1>1, <1>2, <1>3 DEF RepaidInv

(* Finding 3 has this one cause: if advances are decided before the        *)
(* calculation comes to the employee, an approved run deducts exactly what *)
(* was approved, whatever runs were calculated, replaced or given up.      *)
THEOREM RepaidIfInTime == Spec /\ [][ApprovedInTime]_vars => []AdvancesRepaid
<1>1. Init => RepaidInv
  BY DEF Init, RepaidInv
<1>2. Inv /\ Books /\ RepaidInv /\ [Next]_vars /\ [ApprovedInTime]_vars => RepaidInv'
  <2> SUFFICES ASSUME Inv, Books, RepaidInv, [Next]_vars, [ApprovedInTime]_vars PROVE RepaidInv'
    OBVIOUS
  <2>1. CASE UNCHANGED vars
    BY <2>1 DEF vars, runVars, ewaVars, RepaidInv, Live, Inserted, Deductible, Amount, Requested
  <2>2. ASSUME NEW a \in Advances,
               \/ \E e \in Emps, cents \in Amounts : AskAdvance(a, e, cents)
               \/ InsertAdvance(a) \/ FailAdvance(a)
               \/ \E d \in {"approved", "rejected"} : ReviewAdvance(a, d)
        PROVE  RepaidInv'
    <3>1. UNCHANGED runVars
      BY <2>2 DEF AskAdvance, InsertAdvance, FailAdvance, ReviewAdvance
    <3>2. CASE ApprovedInTime
      BY <2>2, <3>1, <3>2, AdvanceRepaid DEF Books
    <3> QED BY <2>1, <3>2
  <2>3. ASSUME NEW c \in Calcs, Start(c) \/ Calculate(c) \/ Abort(c) \/ Approve(c)
        PROVE  RepaidInv'
    BY <2>3, AddItemRepaid, MoveRepaid DEF Calculate
  <2> QED BY <2>1, <2>2, <2>3 DEF Next, Idle
<1>3. Inv /\ Books /\ RepaidInv => AdvancesRepaid
  <2> SUFFICES ASSUME Inv, Books, RepaidInv, NEW r \in approved, NEW e \in Emps
               PROVE  items[r][e].ewa = Amount(Requested(e, {"approved"}))
    BY DEF AdvancesRepaid
  <2>1. r \in runs /\ r \in Calcs
    BY DEF Inv, ShapeInv
  <2>2. items[r][e] # None
    BY <2>1 DEF Books, ItemInv, Paid
  <2> QED BY <2>1, <2>2 DEF RepaidInv, Live, Deductible
<1> QED BY <1>1, <1>2, <1>3, BooksInvariant, PTL DEF Spec
=============================================================================
