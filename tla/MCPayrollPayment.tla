-------------------------- MODULE MCPayrollPayment --------------------------
(* One payslip, paid and reversed by concurrent requests.                   *)
EXTENDS PayrollPayment, FiniteSets, TLC

ClerkSymmetry == Permutations(Clerks)

\* What a request remembers is forgotten once it is not read again.
ClerkView(c) ==
  CASE clerk[c].step = "insert" -> <<"insert", clerk[c].slip, clerk[c].gateway>>
    [] clerk[c].step = "check_active" ->
         <<"check_active", clerk[c].slip, clerk[c].gateway, clerk[c].pmt>>
    [] OTHER -> <<clerk[c].step, clerk[c].slip, clerk[c].pmt>>

\* The number of a payout does not matter, only who refers to it.  One that nobody
\* refers to sends no event that finds a payment; all that is left of it is whose
\* it was and whether it was ever paid.
About(o) == IF o = None THEN <<>> ELSE <<payout[o].status, payout[o].past>>

Forgotten ==
  {o \in Payouts \ FreePayouts :
     /\ \A p \in Payments : payment[p].payout # o /\ job[p].payout # o
     /\ \A n \in Stalls : late[n].payout # o}

\* Nothing reads payslips.active_payment_id.
PaymentView ==
  <<[s \in Payslips |-> payslip[s].status],
    [p \in Payments |-> <<payment[p].status, payment[p].slip, payment[p].gateway,
                          About(payment[p].payout),
                          job[p].state, job[p].tries, About(job[p].payout)>>],
    [c \in Clerks |-> ClerkView(c)],
    [n \in Stalls |-> <<late[n].pmt, late[n].state, About(late[n].payout)>>],
    Cardinality(FreePayouts), {<<payout[o].pmt, "paid" \in payout[o].past>> : o \in Forgotten},
    hook>>
=============================================================================
