------------------------------ MODULE LedgerReads ------------------------------
(***************************************************************************)
(* The billing screens whose server side reads the ledger in several       *)
(* statements outside any transaction: a client's own page                 *)
(* (getClientLedger), the receivables list (getReceivables) and the        *)
(* at-risk report (ReportsService.atRisk).  Requests commit between their  *)
(* statements.                                                             *)
(*                                                                         *)
(* The tables and the rules of their commits are those of LedgerTables,    *)
(* which AtomicLedger, the ledger Billing implements, takes too.  A page   *)
(* is computed for one client, whose rows the other clients' do not        *)
(* change; asOf splits the charges once and for all into those due and     *)
(* those not yet due.                                                      *)
(***************************************************************************)
EXTENDS LedgerTables, Sequences

CONSTANT Due   \* the charges whose dueOn is not after asOf

VARIABLES
  overdue,  \* the client, not archived, has an overdue obligation
  page      \* the page being computed, then shown

readVars == <<vars, overdue, page>>

Total(f) == SumFunction(f)
ChargesOf(k)   == {c \in Charge : charge[c].client = k}
PaymentsOf(k)  == {p \in Payment : payment[p].client = k}
Outstanding(c) == charge[c].cents - allocated[c]

\* charge_balances, status not WRITTEN_OFF, outstandingCents > 0, due.
OpenCharges(k) == {c \in ChargesOf(k) \cap Due : charge[c].reason = None /\ Outstanding(c) > 0}
Gross(k)       == Total([c \in OpenCharges(k) |-> Outstanding(c)])
\* payment_credits, as getAvailableCredit and the two reports sum them.
Credit(k)      == Total([p \in PaymentsOf(k) |-> payment[p].cents - drawn[p]])

\* settleOnPaper: what the credit does not cover.
OnPaper(gross, credit) == IF credit > gross THEN 0 ELSE gross - credit

Blank == [of |-> "none", client |-> None, todo |-> <<>>, overdue |-> FALSE, credit |-> 0, charges |-> <<>>,
          payments |-> <<>>, allocated |-> <<>>, open |-> <<>>, issued |-> 0, net |-> 0, covered |-> FALSE]

LedgerReadsInit == Init /\ overdue = FALSE /\ page = Blank

-------------------------------------------------------------------------------
(* What commits meanwhile.  Two members of page are history: the cents of    *)
(* due charges issued since the open charges were read, and whether the      *)
(* client's credit covered its debt ever since the page was asked for.       *)

\* What commits once a page is complete changes nothing of it, and is left to the next page.
Complete == page.of # "none" /\ page.todo = <<>>

Noted(issued) ==
  /\ ~Complete
  /\ \E k \in {page.client} :
       page' = [page EXCEPT !.issued = @ + issued, !.covered = @ /\ OnPaper(Gross(k), Credit(k))' = 0]

IssueCharge(c, k, n) ==
  /\ Owe(c, k, n)
  /\ UNCHANGED overdue
  /\ Noted(IF c \in Due /\ k = page.client /\ page.todo = <<"credit">> THEN n ELSE 0)

WriteOff(c, why) ==
  /\ Forgive(c, why)
  /\ UNCHANGED overdue
  /\ Noted(0)

Gifts == [Payment -> [Charge -> {0} \cup Amount]]

RecordPayment(p, k, n) ==
  /\ Receive(p, k, n)
  /\ \E body \in Gifts : Pairs(body) \subseteq {p} \X Charge /\ Settle(k, body)
  /\ UNCHANGED overdue
  /\ Noted(0)

ApplyCredit(k) ==
  /\ PaymentsOf(k) # {}
  /\ UNCHANGED payment
  /\ \E body \in Gifts : Pairs(body) # {} /\ Settle(k, body)
  /\ UNCHANGED overdue
  /\ Noted(0)

\* An obligation falls due or is done, the client is archived or restored.
WorkChanges ==
  /\ ~Complete
  /\ overdue' = ~overdue
  /\ UNCHANGED <<vars, page>>

-------------------------------------------------------------------------------
(* The pages *)

\* Variant: the credit is read before the charges it is spent on.
ReadsCreditFirst ==
  [ledger      |-> <<"credit", "charges", "payments", "allocated">>,
   receivables |-> <<"credit", "open">>,
   atRisk      |-> <<"overdue", "credit", "open">>]

\* Variant: the allocations are read before the charges.
ReadsAllocationsFirst ==
  [ledger      |-> <<"credit", "allocated", "charges", "payments">>,
   receivables |-> <<"open", "credit">>,
   atRisk      |-> <<"overdue", "open", "credit">>]

\* The statements of each, in order.
Reads ==
  [ledger      |-> <<"credit", "charges", "payments", "allocated">>,
   receivables |-> <<"open", "credit">>,
   atRisk      |-> <<"overdue", "open", "credit">>]

Ask(of, k) ==
  /\ page.todo = <<>>
  /\ page' = [Blank EXCEPT !.of = of, !.client = k, !.todo = Reads[of], !.covered = OnPaper(Gross(k), Credit(k)) = 0]
  /\ UNCHANGED <<vars, overdue>>

Found(what, k) ==
  CASE what = "overdue"   -> overdue
    [] what = "open"      -> [c \in OpenCharges(k) |-> Outstanding(c)]
    [] what = "credit"    -> Credit(k)
    [] what = "charges"   -> [c \in ChargesOf(k) |-> charge[c]]
    [] what = "payments"  -> [p \in PaymentsOf(k) |-> payment[p].cents]
    [] what = "allocated" -> [c \in ChargesOf(k) |-> allocated[c]]

\* atRisk asks for nothing more when nobody is overdue.
Read ==
  /\ page.todo # <<>>
  /\ LET what == Head(page.todo)
         rest == IF what = "overdue" /\ ~overdue THEN <<>> ELSE Tail(page.todo)
     IN page' = [page EXCEPT ![what] = Found(what, page.client), !.todo = rest,
                             !.net = OnPaper(Gross(page.client), Credit(page.client))]
  /\ UNCHANGED <<vars, overdue>>

LedgerReadsNext ==
  \/ \E c \in Charge, k \in Client, n \in Amount : IssueCharge(c, k, n)
  \/ \E c \in Charge, why \in Reason : WriteOff(c, why)
  \/ \E p \in Payment, k \in Client, n \in Amount : RecordPayment(p, k, n)
  \/ \E k \in Client : ApplyCredit(k)
  \/ WorkChanges
  \/ \E of \in DOMAIN Reads, k \in Client : Ask(of, k)
  \/ Read

LedgerReadsSpec == LedgerReadsInit /\ [][LedgerReadsNext]_readVars

-------------------------------------------------------------------------------
(* Properties *)

Shown(of) == page.todo = <<>> /\ page.of \in of

\* outstandingCents of the client's row; 0 is no row.
Seen == OnPaper(Total(page.open), page.credit)

\* The entry a write-off makes on the ledger, which cancels what was open.
ForgivenCents(c) ==
  page.charges[c].cents - (IF c \in DOMAIN page.allocated THEN page.allocated[c] ELSE 0)

\* Whatever is paid, applied or written off between the two statements, the receivables list and
\* the at-risk report never understate a client's debt, but for charges issued meanwhile: credit
\* spent between them is not counted twice.
NoDebtIsHidden ==
  Shown({"receivables"}) \/ (Shown({"atRisk"}) /\ page.overdue) => page.net <= Seen + page.issued

\* The ledger cancels exactly what was open when a charge was forgiven, never a part that was
\* paid, although charges and allocations are read apart.
ForgivenEntryIsExact ==
  Shown({"ledger"}) => \A c \in DOMAIN page.charges :
    page.charges[c].reason # None => ForgivenCents(c) = Outstanding(c)

\* The credit beside the ledger is money of payments the ledger lists.
CreditIsBacked == Shown({"ledger"}) => page.credit <= Total(page.payments)

\* reports.service.ts:109: "A client whose own unspent money covers its debt is not in arrears,
\* whatever the gross figure says."
CoveredClientIsNotListed == Shown({"receivables", "atRisk"}) /\ page.covered => Seen = 0
===============================================================================
