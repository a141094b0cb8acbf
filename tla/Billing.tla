------------------------------ MODULE Billing ------------------------------
(***************************************************************************)
(* Billing state of one account: the cardless trial, Stripe checkouts, and *)
(* the webhook that re-derives the account's row from all subscriptions of *)
(* its Stripe customer.  Stripe's own objects change on their own; a       *)
(* webhook lists them, reads the row and writes it, three steps with       *)
(* nothing held between them.                                              *)
(*                                                                         *)
(* Statuses are those the code treats differently.  Dates are days.        *)
(***************************************************************************)
EXTENDS Naturals

CONSTANTS
  Subs,       \* Stripe subscriptions, numbered as they are created
  Customers,  \* Stripe customers that can be created for the account
  Webhooks,   \* webhook deliveries that can be in progress at once
  Checkouts,  \* checkout requests that can be in progress at once
  TrialDays,  \* DEFAULT_TRIAL_PERIOD_DAYS
  Horizon,    \* bound: the last day
  MaxEvents,  \* bound: undelivered events of a customer
  NoValue

ASSUME NumbersAssumption == Subs \subseteq Nat /\ TrialDays \in Nat \ {0} /\ Horizon \in Nat
ASSUME MaxEventsAssumption == MaxEvents \in Nat \ {0}
ASSUME NoValueAssumption == NoValue \notin Nat \cup Customers

VARIABLES
  now,
  user,      \* users: the billing columns
  subs,      \* Stripe's subscriptions
  events,    \* Stripe events of a customer that are still to be delivered
  webhook,   \* deliveries in progress: what was listed and read
  checkout   \* checkout requests in progress

billingVars == <<now, user, subs, events, webhook, checkout>>

StripeStatuses == {"active", "past_due", "incomplete", "canceled"}
Dates == Nat \cup {NoValue}

User == [status : StripeStatuses \cup {"FREE"}, trialEnd : Dates, consumed : BOOLEAN,
         periodEnd : Dates, endedAt : Dates, customer : Customers \cup {NoValue}]
Sub == [customer : Customers, status : StripeStatuses, entitled : BOOLEAN,
        periodEnd : Dates, endedAt : Dates]

\* A delivery in progress: the subscription it listed, and what it read of the account.
Delivery == [customer : Customers, at : {"listed", "read"}, sub : Sub, trialEnd : Dates,
             consumed : BOOLEAN]

ASSUME NoSubAssumption == NoValue \notin Sub \cup Delivery

BillingTypeOK ==
  /\ now \in 0..Horizon
  /\ user \in User
  /\ subs \in [Subs -> Sub \cup {NoValue}]
  /\ events \in [Customers -> 0..MaxEvents]
  /\ webhook \in [Webhooks -> Delivery \cup {NoValue}]
  /\ checkout \in [Checkouts ->
       [at : {"allowed", "created", "open"}, customer : Customers \cup {NoValue}]
         \cup {NoValue}]

BillingInit ==
  /\ now = 0
  /\ user = [status |-> "FREE", trialEnd |-> NoValue, consumed |-> FALSE,
             periodEnd |-> NoValue, endedAt |-> NoValue, customer |-> NoValue]
  /\ subs = [s \in Subs |-> NoValue]
  /\ events = [c \in Customers |-> 0]
  /\ webhook = [w \in Webhooks |-> NoValue]
  /\ checkout = [k \in Checkouts |-> NoValue]

Later(date, day) == date # NoValue /\ date > day

\* hasActiveSubscription, hasBillingAccess, keepUnexpiredTrial.
ActiveStatus(status) == status = "active"
HasBillingAccess(u, day) ==
  ActiveStatus(u.status) \/ Later(u.trialEnd, day) \/ Later(u.periodEnd, day)
KeepUnexpiredTrial(trialEnd, day) == IF Later(trialEnd, day) THEN trialEnd ELSE NoValue

-----------------------------------------------------------------------------
(* Time, the trial and Stripe itself.                                      *)

NextDay ==
  /\ now < Horizon
  /\ now' = now + 1
  /\ UNCHANGED <<user, subs, events, webhook, checkout>>

\* startCardlessTrial, where the address is proven.
StartCardlessTrial ==
  /\ user.trialEnd = NoValue /\ ~user.consumed
  /\ user' = [user EXCEPT !.trialEnd = now + TrialDays, !.consumed = TRUE]
  /\ UNCHANGED <<now, subs, events, webhook, checkout>>

Notify(c) ==
  /\ events[c] < MaxEvents
  /\ events' = [events EXCEPT ![c] = @ + 1]

\* What Stripe may make of a subscription: a charge, a failed one, a cancellation.
Becomes(status) ==
  CASE status = "incomplete" -> {"active", "canceled"}
    [] status = "active" -> {"past_due", "canceled"}
    [] status = "past_due" -> {"active", "canceled"}
    [] OTHER -> {}

ChangeSub(s, status) ==
  /\ subs[s] # NoValue /\ status \in Becomes(subs[s].status)
  /\ subs' = [subs EXCEPT ![s].status = status,
                ![s].endedAt = IF status = "canceled" THEN now ELSE @]
  /\ Notify(subs[s].customer)
  /\ UNCHANGED <<now, user, webhook, checkout>>

\* Another price than the configured one.
SwapPrice(s) ==
  /\ subs[s] # NoValue /\ subs[s].entitled
  /\ subs' = [subs EXCEPT ![s].entitled = FALSE]
  /\ Notify(subs[s].customer)
  /\ UNCHANGED <<now, user, webhook, checkout>>

-----------------------------------------------------------------------------
(* POST /billing/checkout.                                                 *)

\* getStripeCheckoutState, and the first read of getOrCreateStripeCustomerId.  "By
\* the time anyone reaches checkout they have already had" the trial.
AllowCheckout(k) ==
  /\ checkout[k] = NoValue /\ user.consumed
  /\ user.status \in {"FREE", "canceled"}
  /\ checkout' = [checkout EXCEPT ![k] =
       [at |-> IF user.customer = NoValue THEN "allowed" ELSE "open",
        customer |-> user.customer]]
  /\ UNCHANGED <<now, user, subs, events, webhook>>

CreateCustomer(k, c) ==
  /\ checkout[k] # NoValue /\ checkout[k].at = "allowed"
  /\ c # user.customer /\ \A j \in Checkouts : checkout[j] # NoValue => checkout[j].customer # c
  /\ \A s \in Subs : subs[s] # NoValue => subs[s].customer # c
  /\ checkout' = [checkout EXCEPT ![k] = [at |-> "created", customer |-> c]]
  /\ UNCHANGED <<now, user, subs, events, webhook>>

\* UPDATE users SET stripeCustomerId: whatever is there by now.
SaveCustomer(k) ==
  /\ checkout[k] # NoValue /\ checkout[k].at = "created"
  /\ user' = [user EXCEPT !.customer = checkout[k].customer]
  /\ checkout' = [checkout EXCEPT ![k].at = "open"]
  /\ UNCHANGED <<now, subs, events, webhook>>

\* The Stripe page is completed: the first charge may fail.
Subscribe(k, s, status, periodEnd) ==
  /\ checkout[k] # NoValue /\ checkout[k].at = "open"
  /\ subs[s] = NoValue /\ \A r \in Subs : r < s => subs[r] # NoValue
  /\ status \in {"active", "incomplete"}
  /\ subs' = [subs EXCEPT ![s] =
       [customer |-> checkout[k].customer, status |-> status, entitled |-> TRUE,
        periodEnd |-> periodEnd, endedAt |-> NoValue]]
  /\ Notify(checkout[k].customer)
  /\ checkout' = [checkout EXCEPT ![k] = NoValue]
  /\ UNCHANGED <<now, user, webhook>>

AbandonCheckout(k) ==
  /\ checkout[k] # NoValue
  /\ checkout' = [checkout EXCEPT ![k] = NoValue]
  /\ UNCHANGED <<now, user, subs, events, webhook>>

-----------------------------------------------------------------------------
(* The webhook: syncStripeCustomerSubscriptions.                           *)

Priority(status) ==
  CASE status = "active" -> 3 [] status = "past_due" -> 2
    [] status = "incomplete" -> 1 [] OTHER -> 0

SubsOf(c) == {s \in Subs : subs[s] # NoValue /\ subs[s].customer = c}

\* Mutant of Authoritative: the newest subscription decides.
NewestDecides(c) == CHOOSE s \in SubsOf(c) : \A r \in SubsOf(c) : r <= s

\* selectAuthoritativeSubscription: the entitled price, then the status, then age.
Authoritative(c) ==
  CHOOSE s \in SubsOf(c) : \A r \in SubsOf(c) \ {s} :
    \/ subs[s].entitled /\ ~subs[r].entitled
    \/ /\ subs[s].entitled = subs[r].entitled
       /\ \/ Priority(subs[s].status) > Priority(subs[r].status)
          \/ Priority(subs[s].status) = Priority(subs[r].status) /\ r < s

\* stripe.subscriptions.list.
ListSubs(w, c) ==
  /\ webhook[w] = NoValue /\ events[c] > 0
  /\ events' = [events EXCEPT ![c] = @ - 1]
  /\ webhook' = [webhook EXCEPT ![w] =
       [customer |-> c, at |-> "listed", sub |-> subs[Authoritative(c)],
        trialEnd |-> NoValue, consumed |-> FALSE]]
  /\ UNCHANGED <<now, user, subs, checkout>>

\* findUnique by stripeCustomerId; a customer nobody has is no error.
ReadUser(w) ==
  /\ webhook[w] # NoValue /\ webhook[w].at = "listed"
  /\ webhook' = [webhook EXCEPT ![w] =
       IF user.customer = @.customer
         THEN [@ EXCEPT !.at = "read", !.trialEnd = user.trialEnd,
                        !.consumed = user.consumed]
         ELSE NoValue]
  /\ UNCHANGED <<now, user, subs, events, checkout>>

\* Mutant of Synced: a subscription without a trial of its own clears the trial.
SyncedOverTrial(sub, trialEnd, consumed) ==
  [user EXCEPT !.status = IF sub.entitled THEN sub.status ELSE "FREE",
               !.periodEnd = IF sub.entitled THEN sub.periodEnd ELSE NoValue,
               !.trialEnd = NoValue, !.consumed = consumed,
               !.endedAt = IF ActiveStatus(sub.status) THEN NoValue ELSE now]

\* Mutant of Synced: the end of access is dated by the subscription alone.
SyncedEndedTooSoon(sub, trialEnd, consumed) ==
  [user EXCEPT !.status = IF sub.entitled THEN sub.status ELSE "FREE",
               !.periodEnd = IF sub.entitled THEN sub.periodEnd ELSE NoValue,
               !.trialEnd = KeepUnexpiredTrial(trialEnd, now), !.consumed = consumed,
               !.endedAt = IF sub.entitled /\ ActiveStatus(sub.status) THEN NoValue ELSE now]

\* syncStripeSubscriptionToUser's update; Stripe grants no trials any more.
Synced(sub, trialEnd, consumed) ==
  LET status == IF sub.entitled THEN sub.status ELSE "FREE"
      periodEnd == IF sub.entitled THEN sub.periodEnd ELSE NoValue
      kept == KeepUnexpiredTrial(trialEnd, now)
      reference == IF periodEnd # NoValue THEN periodEnd
                   ELSE IF sub.endedAt # NoValue THEN sub.endedAt ELSE now
  IN [user EXCEPT !.status = status, !.periodEnd = periodEnd, !.trialEnd = kept,
                  !.consumed = consumed,
                  !.endedAt = IF ActiveStatus(status) \/ Later(periodEnd, now) \/ kept # NoValue
                                THEN NoValue ELSE reference]

WriteUser(w) ==
  /\ webhook[w] # NoValue /\ webhook[w].at = "read"
  /\ user' = Synced(webhook[w].sub, webhook[w].trialEnd, webhook[w].consumed)
  /\ webhook' = [webhook EXCEPT ![w] = NoValue]
  /\ UNCHANGED <<now, subs, events, checkout>>

\* A 500: Stripe delivers the event again.
FailWebhook(w) ==
  /\ webhook[w] # NoValue
  /\ Notify(webhook[w].customer)
  /\ webhook' = [webhook EXCEPT ![w] = NoValue]
  /\ UNCHANGED <<now, user, subs, checkout>>

-----------------------------------------------------------------------------
BillingNext ==
  \/ NextDay \/ StartCardlessTrial
  \/ \E s \in Subs : SwapPrice(s) \/ \E status \in StripeStatuses : ChangeSub(s, status)
  \/ \E k \in Checkouts :
       \/ AllowCheckout(k) \/ SaveCustomer(k) \/ AbandonCheckout(k)
       \/ \E c \in Customers : CreateCustomer(k, c)
       \/ \E s \in Subs, status \in StripeStatuses, d \in {NoValue, now + TrialDays} :
            Subscribe(k, s, status, d)
  \/ \E w \in Webhooks :
       \/ ReadUser(w) \/ WriteUser(w) \/ FailWebhook(w)
       \/ \E c \in Customers : ListSubs(w, c)

BillingSpec == BillingInit /\ [][BillingNext]_billingVars

-----------------------------------------------------------------------------
(* Properties.                                                             *)

\* "Billing state may add access but must never take a trial back before it has
\* run out", and the trial is once per account: its mark "is never cleared".
TrialOnceAndKept ==
  [][/\ Later(user.trialEnd, now) => user'.trialEnd = user.trialEnd
     /\ user.consumed => user'.consumed /\ user'.trialEnd \in {user.trialEnd, NoValue}]_billingVars

\* The date the storage cleanup counts from is stamped only on an account that has
\* no access left, by subscription, paid period or trial.
EndedMeansNoAccess == user.endedAt # NoValue => ~HasBillingAccess(user, now)

\* Once Stripe's events are delivered, the account is active exactly when its
\* customer holds an active subscription at the configured price: "a stale event
\* can never clobber a newer active one".
SubscriptionDecides ==
  (\A c \in Customers : events[c] = 0) /\ (\A w \in Webhooks : webhook[w] = NoValue)
    => (ActiveStatus(user.status)
          <=> \E s \in Subs : subs[s] # NoValue /\ subs[s].entitled /\ subs[s].status = "active")
=============================================================================
