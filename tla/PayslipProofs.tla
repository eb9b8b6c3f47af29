---------------------------- MODULE PayslipProofs ----------------------------
(***************************************************************************)
(* Theorems about the arithmetic of a payslip, for every salary and every  *)
(* number of minutes and days.                                             *)
(***************************************************************************)
EXTENDS Payslip, Sums, TLAPS

LEMMA RoundBounds ==
  ASSUME NEW n \in Nat
  PROVE  /\ Round(n, 4100) \in Nat
         /\ 8200 * Round(n, 4100) <= 2 * n + 4100
         /\ 2 * n + 4100 < 8200 * Round(n, 4100) + 8200
BY DEF Round

LEMMA RoundType ==
  ASSUME NEW n \in Nat, NEW d \in Nat \ {0}
  PROVE  Round(n, d) \in Nat
BY DEF Round

LEMMA OvertimeType ==
  ASSUME NEW base \in Nat, NEW minutes \in Nat
  PROVE  OvertimeCents(base, minutes) \in Nat /\ OvertimeCents(base, 0) = 0
BY DEF OvertimeCents, Round, MonthMinutes

Tax(gross) == LET khr == 41 * gross IN Positive(khr * Bracket(khr).rate - 100 * Bracket(khr).less)

LEMMA TaxType ==
  ASSUME NEW g \in Nat
  PROVE  Tax(g) \in Nat
BY DEF Tax, Positive, Bracket

LEMMA TaxGrows ==
  ASSUME NEW g \in Nat, NEW h \in Nat, g <= h
  PROVE  Tax(h) <= Tax(g) + 820 * (h - g)
BY DEF Tax, Positive, Bracket

LEMMA TaxBounds ==
  ASSUME NEW g \in Nat
  PROVE  /\ SalaryTaxCents(g) \in Nat
         /\ 8200 * SalaryTaxCents(g) <= 2 * Tax(g) + 4100
         /\ 2 * Tax(g) + 4100 < 8200 * SalaryTaxCents(g) + 8200
<1>1. SalaryTaxCents(g) = Round(Tax(g), 4100)
  BY DEF SalaryTaxCents, Tax
<1>2. PICK n \in Nat : n = Tax(g)
  BY TaxType
<1>3. /\ Round(n, 4100) \in Nat
      /\ 8200 * Round(n, 4100) <= 2 * n + 4100
      /\ 2 * n + 4100 < 8200 * Round(n, 4100) + 8200
  BY RoundBounds
<1> QED BY <1>1, <1>2, <1>3

LEMMA NssfBounds ==
  ASSUME NEW g \in Nat
  PROVE  /\ NssfEmployee(g) \in Nat
         /\ 2000 * NssfEmployee(g) <= 66 * g + 1000
         /\ 66 * g + 1000 < 2000 * NssfEmployee(g) + 2000
BY DEF NssfEmployee, Round

(* The tax in cents grows by no more than 20 %, and a cent of rounding;    *)
(* that for social security by 3.3 %.                                      *)
LEMMA DeductionsGrow ==
  ASSUME NEW g \in Nat, NEW h \in Nat, g <= h
  PROVE  /\ SalaryTaxCents(g) \in Nat /\ NssfEmployee(g) \in Nat
         /\ SalaryTaxCents(h) \in Nat /\ NssfEmployee(h) \in Nat
         /\ SalaryTaxCents(h) + NssfEmployee(h) <= SalaryTaxCents(g) + NssfEmployee(g) + (h - g) + 1
<1> DEFINE tg == SalaryTaxCents(g)
           th == SalaryTaxCents(h)
           ng == NssfEmployee(g)
           nh == NssfEmployee(h)
<1>1. /\ tg \in Nat /\ 8200 * tg <= 2 * Tax(g) + 4100 /\ 2 * Tax(g) + 4100 < 8200 * tg + 8200
      /\ th \in Nat /\ 8200 * th <= 2 * Tax(h) + 4100 /\ 2 * Tax(h) + 4100 < 8200 * th + 8200
  BY TaxBounds
<1>2. /\ ng \in Nat /\ 2000 * ng <= 66 * g + 1000 /\ 66 * g + 1000 < 2000 * ng + 2000
      /\ nh \in Nat /\ 2000 * nh <= 66 * h + 1000 /\ 66 * h + 1000 < 2000 * nh + 2000
  BY NssfBounds
<1>3. Tax(g) \in Nat /\ Tax(h) \in Nat
  BY TaxType
<1>4. Tax(h) <= Tax(g) + 820 * (h - g)
  BY TaxGrows
<1>5. g = h => tg = th /\ ng = nh
  OBVIOUS
<1> HIDE DEF tg, th, ng, nh
<1>6. th + nh <= tg + ng + (h - g) + 1
  BY <1>1, <1>2, <1>3, <1>4, <1>5
<1> QED BY <1>1, <1>2, <1>6 DEF tg, th, ng, nh

LEMMA ProductGrows ==
  ASSUME NEW base \in Nat, NEW m \in Nat, NEW n \in Nat, m <= n
  PROVE  base * m \in Nat /\ base * n \in Nat /\ base * m <= base * n
<1>1. PICK k \in Nat : n = m + k
  BY SMT
<1>2. base * k \in Nat /\ base * n = base * m + base * k
  BY <1>1, SMT
<1> QED BY <1>2, SMT

LEMMA ShareGrows ==
  ASSUME NEW base \in Nat, NEW m \in Nat, NEW n \in Nat, m <= n
  PROVE  /\ OvertimeCents(base, m) <= OvertimeCents(base, n)
         /\ LateDeduction(base, m) <= LateDeduction(base, n)
         /\ UnpaidDeduction(base, m) <= UnpaidDeduction(base, n)
<1>1. PICK p \in Nat : p = base * m
  BY ProductGrows
<1>2. PICK q \in Nat : q = base * n
  BY ProductGrows
<1>3. p <= q
  BY <1>1, <1>2, ProductGrows
<1>4. 3 * base * m = 3 * p /\ 3 * base * n = 3 * q
  BY <1>1, <1>2, SMT
<1>5. /\ OvertimeCents(base, m) = Round(3 * p, 2 * MonthMinutes)
      /\ OvertimeCents(base, n) = Round(3 * q, 2 * MonthMinutes)
      /\ LateDeduction(base, m) = Round(p, MonthMinutes)
      /\ LateDeduction(base, n) = Round(q, MonthMinutes)
      /\ UnpaidDeduction(base, m) = Round(p, 22) /\ UnpaidDeduction(base, n) = Round(q, 22)
  BY <1>1, <1>2, <1>4 DEF OvertimeCents, LateDeduction, UnpaidDeduction
<1>6. /\ Round(3 * p, 2 * MonthMinutes) <= Round(3 * q, 2 * MonthMinutes)
      /\ Round(p, MonthMinutes) <= Round(q, MonthMinutes)
      /\ Round(p, 22) <= Round(q, 22)
  BY <1>3, SMT DEF Round, MonthMinutes
<1> QED BY <1>5, <1>6

(* Whoever was late for fewer minutes, took fewer days of unpaid leave and *)
(* worked more overtime takes home no less, but for a cent of rounding,    *)
(* whatever brackets the two salaries fall into.                           *)
THEOREM DiligencePays ==
  ASSUME NEW base \in Nat,
         NEW worse \in [late : Nat, overtime : Nat, days : Nat],
         NEW better \in [late : Nat, overtime : Nat, days : Nat],
         better.late <= worse.late, better.days <= worse.days, worse.overtime <= better.overtime
  PROVE  TakeHome(base, worse) <= TakeHome(base, better) + 1
<1> DEFINE gross(slip) == base + OvertimeCents(base, slip.overtime)
           fines(slip) == LateDeduction(base, slip.late) + UnpaidDeduction(base, slip.days)
           g == gross(worse)
           h == gross(better)
<1>1. ASSUME NEW slip \in [late : Nat, overtime : Nat, days : Nat]
      PROVE  /\ gross(slip) \in Nat /\ fines(slip) \in Nat
             /\ TakeHome(base, slip) = Positive(gross(slip) - fines(slip)
                                          - SalaryTaxCents(gross(slip)) - NssfEmployee(gross(slip)))
  <2>1. OvertimeCents(base, slip.overtime) \in Nat
    BY OvertimeType
  <2>2. LateDeduction(base, slip.late) \in Nat /\ UnpaidDeduction(base, slip.days) \in Nat
    <3>1. base * slip.late \in Nat /\ base * slip.days \in Nat
      BY ProductGrows
    <3> QED BY <3>1, RoundType DEF LateDeduction, UnpaidDeduction, MonthMinutes
  <2>3. gross(slip) \in Nat
    BY <2>1
  <2>4. SalaryTaxCents(gross(slip)) \in Nat /\ NssfEmployee(gross(slip)) \in Nat
    BY <2>3, DeductionsGrow
  <2> QED BY <2>1, <2>2, <2>3, <2>4 DEF TakeHome
<1>2. g <= h
  <2>1. OvertimeCents(base, worse.overtime) <= OvertimeCents(base, better.overtime)
    BY ShareGrows
  <2>2. /\ OvertimeCents(base, worse.overtime) \in Nat
        /\ OvertimeCents(base, better.overtime) \in Nat
    BY OvertimeType
  <2> QED BY <2>1, <2>2
<1>3. fines(better) <= fines(worse)
  <2>1. LateDeduction(base, better.late) <= LateDeduction(base, worse.late)
    BY ShareGrows
  <2>2. UnpaidDeduction(base, better.days) <= UnpaidDeduction(base, worse.days)
    BY ShareGrows
  <2>3. /\ LateDeduction(base, better.late) \in Nat /\ LateDeduction(base, worse.late) \in Nat
        /\ UnpaidDeduction(base, better.days) \in Nat /\ UnpaidDeduction(base, worse.days) \in Nat
    <3>1. /\ base * better.late \in Nat /\ base * worse.late \in Nat
          /\ base * better.days \in Nat /\ base * worse.days \in Nat
      BY ProductGrows
    <3> QED BY <3>1, RoundType DEF LateDeduction, UnpaidDeduction, MonthMinutes
  <2> QED BY <2>1, <2>2, <2>3
<1>4. /\ g \in Nat /\ h \in Nat /\ fines(worse) \in Nat /\ fines(better) \in Nat
      /\ TakeHome(base, worse) = Positive(g - fines(worse) - SalaryTaxCents(g) - NssfEmployee(g))
      /\ TakeHome(base, better) = Positive(h - fines(better) - SalaryTaxCents(h) - NssfEmployee(h))
  BY <1>1
<1> HIDE DEF g, h, gross, fines
<1>5. /\ SalaryTaxCents(g) \in Nat /\ NssfEmployee(g) \in Nat
      /\ SalaryTaxCents(h) \in Nat /\ NssfEmployee(h) \in Nat
      /\ SalaryTaxCents(h) + NssfEmployee(h) <= SalaryTaxCents(g) + NssfEmployee(g) + (h - g) + 1
  BY <1>2, <1>4, DeductionsGrow
<1> QED BY <1>2, <1>3, <1>4, <1>5 DEF Positive

(* Overtime never costs more than it brings, but for a cent of rounding,   *)
(* whatever bracket the salary and the overtime fall into.                 *)
THEOREM OvertimePays ==
  ASSUME NEW base \in Nat, NEW slip \in [late : Nat, overtime : Nat, days : Nat]
  PROVE  TakeHome(base, [slip EXCEPT !.overtime = 0]) <= TakeHome(base, slip) + 1
<1> DEFINE none == [slip EXCEPT !.overtime = 0]
<1>1. /\ none \in [late : Nat, overtime : Nat, days : Nat]
      /\ none.late = slip.late /\ none.days = slip.days /\ none.overtime = 0
  OBVIOUS
<1>2. slip.late \in Nat /\ slip.days \in Nat /\ slip.overtime \in Nat
  OBVIOUS
<1>3. slip.late <= none.late /\ slip.days <= none.days /\ none.overtime <= slip.overtime
  BY <1>1, <1>2
<1> HIDE DEF none
<1>4. TakeHome(base, none) <= TakeHome(base, slip) + 1
  BY <1>1, <1>3, DiligencePays
<1> QED BY <1>4 DEF none

(* The brackets are what the slices of the salary owe, each at its rate.   *)
THEOREM BracketsAreSlices ==
  ASSUME NEW gross \in Nat
  PROVE  SalaryTaxCents(gross) = TaxBySlices(gross)
<1> DEFINE f == [l \in Limits |-> 5 * Positive(41 * gross - l)]
<1>1. f \in [Limits -> Nat]
  BY SMT DEF Limits, Positive
<1>2. SumFunction(f) = f[1500000] + f[2000000] + f[8500000] + f[12500000]
  <2>1. /\ 1500000 # 2000000 /\ 1500000 # 8500000 /\ 1500000 # 12500000
        /\ 2000000 # 8500000 /\ 2000000 # 12500000 /\ 8500000 # 12500000
    BY SMT
  <2>2. Limits = {1500000, 2000000, 8500000, 12500000}
    BY SMT DEF Limits
  <2>3. AreFour(Limits, 1500000, 2000000, 8500000, 12500000)
    BY <2>1, <2>2, SMT DEF AreFour
  <2> HIDE DEF f
  <2> QED BY <1>1, <2>3, SumOfFour, SMT
<1>3. f[1500000] + f[2000000] + f[8500000] + f[12500000] = Tax(gross)
  BY SMT DEF Limits, Positive, Tax, Bracket
<1>4. TaxBySlices(gross) = Round(Tax(gross), 4100)
  BY <1>2, <1>3, SMT DEF TaxBySlices
<1> QED BY <1>4 DEF SalaryTaxCents, Tax
=============================================================================
