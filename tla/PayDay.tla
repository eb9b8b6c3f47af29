------------------------------- MODULE PayDay -------------------------------
(***************************************************************************)
(* A month from the requests of the employees to their bank accounts: the  *)
(* payroll with what it reads (PayInputs) and the transfers that pay it    *)
(* (BankTransfers), over one set of tables.                                *)
(***************************************************************************)
EXTENDS PayInputs, BankTransfers

payDayVars == <<vars, inputVars, bankVars>>

PayDayInit == Init /\ InputInit /\ BankInit

PayDayIdle ==
  /\ Idle
  /\ \A p \in Accounts : bpc[p] = "done"
  /\ \A b \in Batches : tpc[b] = "done"
  /\ UNCHANGED <<inputVars, bankVars>>

PayDayNext ==
  \/ InputNext /\ UNCHANGED bankVars
  \/ BankNext /\ UNCHANGED inputVars
  \/ PayDayIdle

PayDaySpec == PayDayInit /\ [][PayDayNext]_payDayVars


(***************************************************************************)
(* Properties.                                                             *)
(***************************************************************************)

(* The shape of the tables; what is stored was written by a request that   *)
(* went through all of its statements.                                     *)
TablesTyped ==
  /\ \A q \in Requests : request[q] = None \/
       request[q] \in [kind : {"leave", "overtime"}, emp : Emps, sum : Minutes \cup Days,
                       status : {"pending", "approved", "rejected"}]
  /\ \A c \in Calcs : reading[c] # None => pc[c] = "items" /\ items[c][reading[c].emp] = None
  /\ \A c \in Calcs, e \in Emps : details[c][e] = None <=> items[c][e] = None
  /\ accounts \in [Emps -> [Numbers -> {"primary", "other", None}]]
  /\ \A p \in Accounts : Running(p) => want[p] \in [emp : Emps, number : Numbers, primary : BOOLEAN]
  /\ submitted \subseteq batches
  /\ batches \subseteq {b \in Batches : tpc[b] = "done" /\ (transfers[b] # {} \/ Emps = {})}

(* From the requests to the account: each line of a batch pays exactly     *)
(* what the lateness that was read and the overtime and leave approved now *)
(* leave of the salary, less what the run deducted for advances, unless a  *)
(* request of the employee moved since the calculation began.  Requests,   *)
(* payslip, run and account are read by different transactions.            *)
PaidAsDecided ==
  \A b \in batches : \A line \in transfers[b] :
    LET r == batch[b].run
        e == line.emp
        slip == [late |-> details[r][e].late, overtime |-> SumApproved("overtime", e),
                 days |-> SumApproved("leave", e)]
    IN  (\A q \in changed[r] : request[q].emp # e) =>
          line.cents = Payable(TakeHome(Base, slip), items[r][e].ewa)

(* Read statement by statement, with payslips instead of a set of possible *)
(* earnings and with transfers going out meanwhile, the payroll is still   *)
(* the one of module Payroll: what holds there holds here.                 *)
IsPayroll == Init /\ [][UNCHANGED vars \/ Next]_vars
=============================================================================
