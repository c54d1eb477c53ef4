------------------------------ MODULE MCBilling ------------------------------
(***************************************************************************)
(* Small instances of what surrounds a subscription, for TLC: the credits, *)
(* the finance ledger, the checkout pages and the sale of plans.  They run *)
(* side by side in one run; `part` says which one a behaviour is of.       *)
(***************************************************************************)
EXTENDS Credits, FinanceLedger, Checkout, PlanSales, TLC

VARIABLE part

Init ==
    /\ CreditsInit /\ LedgerInit /\ CheckoutInit /\ SaleInit
    /\ part \in {"credits", "ledger", "checkout", "sales"}
    \* Amounts are alike: the plan starts at the least.
    /\ \A a \in Amounts : plan["monthly"] <= a

OthersOf(vars) == UNCHANGED <<part, vars>>

Next ==
    \/ /\ part = "credits" /\ CreditsNext
       /\ OthersOf(<<ledgerVars, checkoutVars, saleVars>>)
    \/ /\ part = "ledger" /\ LedgerNext
       /\ OthersOf(<<creditVars, checkoutVars, saleVars>>)
    \/ /\ part = "checkout" /\ CheckoutNext
       /\ OthersOf(<<creditVars, ledgerVars, saleVars>>)
    \/ /\ part = "sales" /\ SaleNext
       /\ OthersOf(<<creditVars, ledgerVars, checkoutVars>>)

Spec ==
    Init /\ [][Next]_<<part, creditVars, ledgerVars, checkoutVars, saleVars>>

\* Workers of all kinds are alike, the referred accounts are, and so are the
\* prices, which take the same model values.
Symmetry == Permutations(CreditWorkers) \cup Permutations(Referred)

\* Every variable of the part that moves keeps its type.
TypesOK ==
    CASE part = "credits" -> CreditsTypeOK
      [] part = "ledger" -> LedgerTypeOK
      [] part = "checkout" -> CheckoutTypeOK
      [] part = "sales" -> SaleTypeOK
=============================================================================
