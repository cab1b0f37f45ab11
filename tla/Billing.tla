------------------------------- MODULE Billing -------------------------------
(***************************************************************************)
(* What an organisation is charged for and credited: claiming a referral,  *)
(* starting a checkout and the events Stripe sends                         *)
(* (routes/management.rs, billing/stripe.rs).  Stripe is external: it      *)
(* creates a customer when asked, has one subscription of the              *)
(* organisation, sends an event when that changes, and sends it again, in  *)
(* any order, until it is acknowledged.                                    *)
(***************************************************************************)
EXTENDS Tenant, Sequences

CONSTANTS
  MaxClaims,    \* bound: referral claims and checkouts begun
  MaxEvents     \* bound: events Stripe sends

ASSUME BillingAssumption == "free" \in Plan /\ MaxClaims \in Nat /\ MaxEvents \in Nat

VARIABLES
  claimed,     \* referral_credits of the organisation, reason referred_signup
  rewards,     \* those of the organisations that referred it, reason referral_reward
  customer,    \* stripe_customer_id, 0 for none
  customers,   \* customers Stripe has created for the organisation
  asked,       \* claims and checkouts begun
  inHand,      \* the customer, or the event, a call holds
  subscribed,  \* the plan the subscription is for, at Stripe
  sent,        \* every event: what it says, and whether it names the organisation
  acked,       \* the events acknowledged
  newest,      \* the newest event that set the plan, 0 for none
  late         \* the last event that set it was older

billingVars ==
  <<claimed, rewards, customer, customers, asked, inHand, subscribed, sent, acked, newest, late>>

EventNo == 1 .. MaxEvents

\* checkout.session.completed fares as subscription.updated does, invoice.paid as payment_failed.
EventType ==
  {"customer.subscription.updated", "customer.subscription.deleted", "invoice.payment_failed",
   "charge.refunded"}

Event == [type : EventType, plan : Plan \cup {None}, org : BOOLEAN]

BillingStatement ==
  {"idle", "check_claim", "credit", "reward", "find_org", "create_customer", "set_customer", "checkout",
   "find_org_of_event", "update_plan", "respond"}

Webhook == {"find_org_of_event", "update_plan", "respond"}

BillingTypeOK ==
  /\ pc \in [Call -> BillingStatement]
  /\ {claimed, rewards} \subseteq 0 .. MaxClaims
  /\ customer \in 0 .. customers /\ customers \in 0 .. MaxClaims
  /\ asked \in 0 .. MaxClaims
  /\ inHand \in [Call -> Nat]
  /\ subscribed \in Plan
  /\ DOMAIN sent \subseteq EventNo /\ \A n \in DOMAIN sent : sent[n] \in Event
  /\ acked \subseteq DOMAIN sent
  /\ newest \in 0 .. MaxEvents /\ late \in BOOLEAN

BillingInit ==
  /\ claimed = 0 /\ rewards = 0
  /\ customer = 0 /\ customers = 0
  /\ asked = 0
  /\ inHand = [c \in Call |-> 0]
  /\ subscribed = plan
  /\ sent = << >> /\ acked = {}
  /\ newest = 0 /\ late = FALSE

stripeVars   == <<subscribed, sent, acked, newest, late>>
customerVars == <<customer, customers>>
creditVars   == <<claimed, rewards>>

Answers(c, from) == Goes(c, from, "idle") /\ inHand' = [inHand EXCEPT ![c] = 0]

Proceeds(c, from, to) == Goes(c, from, to) /\ UNCHANGED inHand

-----------------------------------------------------------------------------
(* claim_referral: the check and the two credits are three statements      *)

Asks(c, statement) ==
  /\ asked < MaxClaims /\ asked' = asked + 1
  /\ Proceeds(c, "idle", statement)
  /\ UNCHANGED <<plan, faults, creditVars, customerVars, stripeVars>>

ClaimReferral(c) == Asks(c, "check_claim")

HasClaimedReferral(c) ==
  /\ IF claimed > 0 THEN Answers(c, "check_claim") ELSE Proceeds(c, "check_claim", "credit")
  /\ UNCHANGED <<plan, faults, creditVars, customerVars, asked, stripeVars>>

CreditReferred(c) ==
  /\ Proceeds(c, "credit", "reward")
  /\ claimed' = claimed + 1
  /\ UNCHANGED <<plan, faults, rewards, customerVars, asked, stripeVars>>

CreditReferrer(c) ==
  /\ Answers(c, "reward")
  /\ rewards' = rewards + 1
  /\ UNCHANGED <<plan, faults, claimed, customerVars, asked, stripeVars>>

-----------------------------------------------------------------------------
(* create_checkout: the customer is created on the first one               *)

CreateCheckout(c) == Asks(c, "find_org")

FindOrg(c) ==
  /\ IF customer # 0
       THEN Goes(c, "find_org", "checkout") /\ inHand' = [inHand EXCEPT ![c] = customer]
       ELSE Proceeds(c, "find_org", "create_customer")
  /\ UNCHANGED <<plan, faults, creditVars, customerVars, asked, stripeVars>>

CreateCustomer(c) ==
  /\ Goes(c, "create_customer", "set_customer")
  /\ customers' = customers + 1
  /\ inHand' = [inHand EXCEPT ![c] = customers + 1]
  /\ UNCHANGED <<plan, faults, creditVars, customer, asked, stripeVars>>

SetStripeCustomerId(c) ==
  /\ Proceeds(c, "set_customer", "checkout")
  /\ customer' = inHand[c]
  /\ UNCHANGED <<plan, faults, creditVars, customers, asked, stripeVars>>

\* The session is created: the person pays at Stripe, or does not.
CheckoutSession(c) ==
  /\ Answers(c, "checkout")
  /\ UNCHANGED <<plan, faults, creditVars, customerVars, asked, stripeVars>>

-----------------------------------------------------------------------------
(* Stripe                                                                  *)

\* The subscription's own events name the organisation, in metadata set at checkout.
Send(e) ==
  /\ Len(sent) < MaxEvents
  /\ sent' = Append(sent, e)
  /\ UNCHANGED <<pc, plan, faults, creditVars, customerVars, asked, inHand, acked, newest, late>>

SubscriptionChanges(p) ==
  /\ subscribed' = p
  /\ Send([type |-> "customer.subscription.updated", plan |-> p, org |-> TRUE])

SubscriptionEnds ==
  /\ subscribed' = "free"
  /\ Send([type |-> "customer.subscription.deleted", plan |-> None, org |-> TRUE])

\* An invoice, or an event nothing handles, may carry the customer alone; a subscription's metadata
\* may name no plan that is sold.
OtherEvent ==
  /\ UNCHANGED subscribed
  /\ \E type \in EventType \ {"customer.subscription.deleted"} :
       Send([type |-> type, plan |-> None, org |-> FALSE])

-----------------------------------------------------------------------------
(* stripe_webhook                                                          *)

Handled == EventType \ {"charge.refunded"}

\* plan_change_for: the plan to move to, None for no move.  An event's plan is one of those that are
\* sold (is_valid_plan), or None.
PlanChangeFor(e) ==
  IF e.type = "customer.subscription.updated" THEN e.plan
  ELSE IF e.type = "customer.subscription.deleted" THEN "free" ELSE None

\* By the organisation it names, else by the customer, when that one is stored.
OrgOf(e) == e.org \/ customer # 0

Awaiting == DOMAIN sent \ acked

Acknowledge(c) == acked' = acked \cup {inHand[c]}

\* An unacknowledged event is sent, or sent again; it may be in the hands of two calls at once.
Deliver(c, n) ==
  /\ n \in Awaiting
  /\ Goes(c, "idle", "find_org_of_event") /\ inHand' = [inHand EXCEPT ![c] = n]
  /\ UNCHANGED <<plan, faults, creditVars, customerVars, asked, stripeVars>>

\* What nothing handles, what no organisation is found for and what changes no plan is
\* acknowledged as well.
FindOrgOfEvent(c) ==
  /\ pc[c] = "find_org_of_event"
  /\ LET e == sent[inHand[c]] IN
       IF e.type \in Handled /\ OrgOf(e) /\ PlanChangeFor(e) # None
         THEN Proceeds(c, "find_org_of_event", "update_plan") /\ UNCHANGED acked
         ELSE Answers(c, "find_org_of_event") /\ Acknowledge(c)
  /\ UNCHANGED <<plan, faults, creditVars, customerVars, asked, subscribed, sent, newest, late>>

\* update_org_plan sets the plan and its savings share together.
UpdateOrgPlan(c) ==
  /\ pc[c] = "update_plan"
  /\ plan' = PlanChangeFor(sent[inHand[c]])
  /\ newest' = IF inHand[c] > newest THEN inHand[c] ELSE newest
  /\ late' = (inHand[c] < newest)
  /\ Proceeds(c, "update_plan", "respond")
  /\ UNCHANGED <<faults, creditVars, customerVars, asked, subscribed, sent, acked>>

Respond(c) ==
  /\ Answers(c, "respond") /\ Acknowledge(c)
  /\ UNCHANGED <<plan, faults, creditVars, customerVars, asked, subscribed, sent, newest, late>>

\* Mutant of FailCall: a failed webhook is acknowledged.
FailAcknowledged(c) ==
  /\ Fault
  /\ pc[c] # "idle" /\ Answers(c, pc[c])
  /\ acked' = IF pc[c] \in Webhook THEN acked \cup {inHand[c]} ELSE acked
  /\ UNCHANGED <<plan, creditVars, customerVars, asked, subscribed, sent, newest, late>>

\* The statement or the call to Stripe fails: an error, and an event that stays unacknowledged.
FailCall(c) ==
  /\ Fault
  /\ pc[c] # "idle" /\ Answers(c, pc[c])
  /\ UNCHANGED <<plan, creditVars, customerVars, asked, stripeVars>>

ReferralsNext ==
  \E c \in Call :
    \/ ClaimReferral(c) \/ HasClaimedReferral(c) \/ CreditReferred(c) \/ CreditReferrer(c)
    \/ FailCall(c)

SubscriptionNext ==
  \/ \E c \in Call :
       \/ CreateCheckout(c) \/ FindOrg(c) \/ CreateCustomer(c) \/ SetStripeCustomerId(c)
       \/ CheckoutSession(c)
       \/ \E n \in EventNo : Deliver(c, n)
       \/ FindOrgOfEvent(c) \/ UpdateOrgPlan(c) \/ Respond(c)
       \/ FailCall(c)
  \/ \E p \in Plan : SubscriptionChanges(p)
  \/ SubscriptionEnds \/ OtherEvent

-----------------------------------------------------------------------------
(* Properties                                                              *)

\* However often an organisation claims, it is credited no more often than claims can be under
\* way at once: the check does not hold off a claim that has made it too.
ClaimsBounded == claimed <= Cardinality(Call)

\* Stripe has no more customers for an organisation than checkouts can be under way at once,
\* and one more for each that was created and not stored.
CustomersBounded == customers <= Cardinality(Call) + faults

\* An organisation whose events are all acknowledged is on the plan it pays for, however often
\* they were delivered, unless the last that set its plan was older than one that had set it.
PlanCurrent == Awaiting = {} => plan = subscribed \/ late

\* What overlapping and repeated calls, of an organisation or of Stripe, may cost or leave wrong.
BillingSafety == ClaimsBounded /\ CustomersBounded /\ PlanCurrent

===============================================================================
