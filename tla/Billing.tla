------------------------------- MODULE Billing -------------------------------
(***************************************************************************)
(* Plan changes of tenants: at once and invoice-only, or paid through a    *)
(* hosted checkout that the provider's webhook completes.  The provider    *)
(* delivers a payment's event at least once, to any replica, also while an *)
(* earlier delivery is still worked on.                                    *)
(***************************************************************************)
EXTENDS Naturals, FiniteSets

CONSTANTS Tenant, Plan,
          Amount,      \* prices; 0 is the free plan's
          Checkout,    \* ids of tenant.billing_checkouts, never used again
          Delivery,    \* webhook calls that are in flight
          MaxInvoices, \* bound: invoices of a tenant
          None

VARIABLES
  price,     \* platform.billing_plan_prices, in one currency a card provider serves
  sub,       \* tenant.subscriptions
  checkout,  \* tenant.billing_checkouts
  session,   \* the provider's side of a checkout: "none", "open", "known" to the payer, "paid"
  hook,      \* the checkout a delivery's transaction has claimed, whose row it has locked
  invoices,  \* the number of a tenant's invoices
  activated  \* history: how often a checkout activated its plan

vars == <<price, sub, checkout, session, hook, invoices, activated>>

Subscription == [plan : Plan, cancel : BOOLEAN]
Row == [tenant : Tenant, plan : Plan, amount : Amount,
        status : {"pending", "failed", "completed"}]

BillingInit ==
  /\ price \in [Plan -> Amount]
  /\ sub = [t \in Tenant |-> None]
  /\ checkout = [c \in Checkout |-> None]
  /\ session = [c \in Checkout |-> "none"]
  /\ hook = [w \in Delivery |-> None]
  /\ invoices = [t \in Tenant |-> 0]
  /\ activated = [c \in Checkout |-> 0]

BillingTypeOK ==
  /\ price \in [Plan -> Amount]
  /\ sub \in [Tenant -> Subscription \cup {None}]
  /\ checkout \in [Checkout -> Row \cup {None}]
  /\ session \in [Checkout -> {"none", "open", "known", "paid"}]
  /\ hook \in [Delivery -> Checkout \cup {None}]
  /\ invoices \in [Tenant -> Nat]
  /\ activated \in [Checkout -> Nat]

-----------------------------------------------------------------------------
(* cmd/seed writes the built-in catalogue again.                           *)
SeedBuiltins(p, v) ==
  /\ price' = [price EXCEPT ![p] = v]
  /\ UNCHANGED <<sub, checkout, session, hook, invoices, activated>>

(* The subscription is replaced and the new period is invoiced.            *)
UpsertSubscription(t, p) == sub' = [sub EXCEPT ![t] = [plan |-> p, cancel |-> FALSE]]
InsertInvoice(t) == invoices' = [invoices EXCEPT ![t] = @ + 1]

ChangePlan(t, p) ==
  /\ invoices[t] < MaxInvoices
  /\ UpsertSubscription(t, p)
  /\ InsertInvoice(t)

(* PUT /billing/subscription, whatever the plan costs.                     *)
PutSubscription(t, p) ==
  /\ ChangePlan(t, p)
  /\ UNCHANGED <<price, checkout, session, hook, activated>>

Cancel(t) ==
  /\ sub[t] # None
  /\ sub' = [sub EXCEPT ![t].cancel = TRUE]
  /\ UNCHANGED <<price, checkout, session, hook, invoices, activated>>

-----------------------------------------------------------------------------
CheckoutFree(t, p) ==
  /\ price[p] = 0
  /\ ChangePlan(t, p)
  /\ UNCHANGED <<price, checkout, session, hook, activated>>

CheckoutPaid(t, p, c) ==
  /\ price[p] > 0
  /\ checkout[c] = None
  /\ checkout' = [checkout EXCEPT ![c] =
       [tenant |-> t, plan |-> p, amount |-> price[p], status |-> "pending"]]
  /\ UNCHANGED <<price, sub, session, hook, invoices, activated>>

(* The provider opens the payment.                                         *)
Open(c) ==
  /\ checkout[c] # None /\ checkout[c].status = "pending" /\ session[c] = "none"
  /\ session' = [session EXCEPT ![c] = "open"]
  /\ UNCHANGED <<price, sub, checkout, hook, invoices, activated>>

(* Its answer arrives: the reference is kept and the payer is sent there.  *)
Answered(c) ==
  /\ session[c] = "open" /\ checkout[c].status = "pending"
  /\ session' = [session EXCEPT ![c] = "known"]
  /\ UNCHANGED <<price, sub, checkout, hook, invoices, activated>>

(* It refuses, or its answer is lost: nobody learns where to pay.          *)
CheckoutFails(c) ==
  /\ checkout[c] # None /\ session[c] \in {"none", "open"}
  /\ checkout' = [checkout EXCEPT ![c].status = "failed"]
  /\ UNCHANGED <<price, sub, session, hook, invoices, activated>>

Pay(c) ==
  /\ session[c] = "known"
  /\ session' = [session EXCEPT ![c] = "paid"]
  /\ UNCHANGED <<price, sub, checkout, hook, invoices, activated>>

-----------------------------------------------------------------------------
(* Mutant: the status is not looked at, as when the row were only read and *)
(* updated by its id.                                                      *)
AnyRow(c) == checkout[c] # None
Claimable(c) == checkout[c] # None /\ checkout[c].status = "pending"

(* A paid event: its UPDATE waits for the transaction that has the row.    *)
HandleWebhook(w, c) ==
  /\ hook[w] = None
  /\ session[c] = "paid"
  /\ \A v \in Delivery : hook[v] # c
  /\ Claimable(c)
  /\ hook' = [hook EXCEPT ![w] = c]
  /\ UNCHANGED <<price, sub, checkout, session, invoices, activated>>

(* CompleteCheckout's other writes and its commit.                         *)
CompleteCheckout(w) ==
  /\ hook[w] # None
  /\ LET c == hook[w]
     IN  /\ ChangePlan(checkout[c].tenant, checkout[c].plan)
         /\ checkout' = [checkout EXCEPT ![c].status = "completed"]
         /\ activated' = [activated EXCEPT ![c] = @ + 1]
  /\ hook' = [hook EXCEPT ![w] = None]
  /\ UNCHANGED <<price, session>>

(* The plan is no longer offered, or the connection breaks: rolled back.   *)
CompletionFails(w) ==
  /\ hook[w] # None
  /\ hook' = [hook EXCEPT ![w] = None]
  /\ UNCHANGED <<price, sub, checkout, session, invoices, activated>>

BillingNext ==
  \/ \E p \in Plan, v \in Amount : SeedBuiltins(p, v)
  \/ \E t \in Tenant :
       \/ Cancel(t)
       \/ \E p \in Plan :
            \/ PutSubscription(t, p) \/ CheckoutFree(t, p)
            \/ \E c \in Checkout : CheckoutPaid(t, p, c)
  \/ \E c \in Checkout :
       \/ Open(c) \/ Answered(c) \/ CheckoutFails(c) \/ Pay(c)
       \/ \E w \in Delivery : HandleWebhook(w, c)
  \/ \E w \in Delivery : CompleteCheckout(w) \/ CompletionFails(w)

-----------------------------------------------------------------------------
(* billing.go:386, "webhook retries (or a duplicate event) activate the    *)
(* subscription exactly once": a checkout is activated only if it was      *)
(* paid, at most once, and is completed exactly when it was activated,     *)
(* however deliveries and failures overlap.                                *)
PaidIsActivatedOnce ==
  \A c \in Checkout :
    /\ activated[c] <= 1
    /\ activated[c] = 1 => session[c] = "paid"
    /\ checkout[c] # None => (checkout[c].status = "completed" <=> activated[c] = 1)
=============================================================================
