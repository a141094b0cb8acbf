--------------------------- MODULE Accounts_proofs ---------------------------
(***************************************************************************)
(* Proofs about what an account holds: its trial and its access (Billing), *)
(* its invitations (Invitations) and its uploads (Uploads), for any number *)
(* of webhooks, requests, rows and sessions.                               *)
(***************************************************************************)
EXTENDS Billing, Invitations, Uploads, DataLemmas, TLAPS

-----------------------------------------------------------------------------
(* Billing: the type.  A webhook lists the subscriptions of a customer     *)
(* that has some, so one of them is authoritative.                         *)

USE DEF Delivery

EventsOfSubs ==
  \A c \in Customers :
    \/ events[c] > 0
    \/ \E w \in Webhooks : webhook[w] # NoValue /\ webhook[w].customer = c
    => SubsOf(c) # {}

\* Subscriptions are made one at a time: there is always a newest.
SubsBounded == \E n \in Nat : \A s \in Subs : subs[s] # NoValue => s <= n

\* Entitlement, then status, then age order any subscriptions: one comes first.
LEMMA OneIsAuthoritative ==
  ASSUME BillingTypeOK, SubsBounded, NEW c \in Customers, SubsOf(c) # {}
  PROVE  /\ Authoritative(c) \in SubsOf(c)
         /\ \A r \in SubsOf(c) \ {Authoritative(c)} :
              \/ subs[Authoritative(c)].entitled /\ ~subs[r].entitled
              \/ /\ subs[Authoritative(c)].entitled = subs[r].entitled
                 /\ Priority(subs[Authoritative(c)].status) >= Priority(subs[r].status)
<1> USE NumbersAssumption
<1> DEFINE P(s) == Priority(subs[s].status)
           Top == {s \in SubsOf(c) : subs[s].entitled}
           Best == IF Top # {} THEN Top ELSE SubsOf(c)
<1>1. Best # {} /\ Best \subseteq SubsOf(c) /\ SubsOf(c) \subseteq Nat
      BY DEF SubsOf
<1>2. \A s \in SubsOf(c) : P(s) \in 0..3
      BY DEF Priority
<1>3. PICK p \in 0..3 : (\E s \in Best : P(s) = p) /\ \A s \in Best : P(s) <= p
  <2>1. CASE \E s \in Best : P(s) = 3
        BY <1>1, <1>2, <2>1
  <2>2. CASE (\E s \in Best : P(s) = 2) /\ \A s \in Best : P(s) # 3
        BY <1>1, <1>2, <2>2
  <2>3. CASE (\E s \in Best : P(s) = 1) /\ \A s \in Best : P(s) \notin {2, 3}
        BY <1>1, <1>2, <2>3
  <2>4. CASE \A s \in Best : P(s) = 0
        BY <1>1, <2>4
  <2> QED BY <1>1, <1>2, <2>1, <2>2, <2>3, <2>4
<1> DEFINE M == {s \in Best : P(s) = p}
<1>4. M # {} /\ M \subseteq Nat
      BY <1>1, <1>3
<1>5. PICK m \in M : \A s \in M : s <= m
  <2>1. PICK n \in Nat : \A s \in M : s <= n
        BY <1>1 DEF SubsBounded, SubsOf
  <2> QED BY <1>4, <2>1, GreatestNumber
<1>6. m \in SubsOf(c) /\ m \in Nat
      BY <1>1
<1>7. ASSUME NEW r \in SubsOf(c) \ {m}
      PROVE  \/ subs[m].entitled /\ ~subs[r].entitled
             \/ /\ subs[m].entitled = subs[r].entitled
                /\ P(m) > P(r) \/ (P(m) = P(r) /\ r < m)
  <2>1. P(m) = p /\ P(m) \in Nat /\ P(r) \in Nat /\ r \in Nat
        BY <1>1, <1>2, <1>6
  <2>2. subs[m].entitled \in BOOLEAN /\ subs[r].entitled \in BOOLEAN
        BY <1>6 DEF BillingTypeOK, Sub, SubsOf
  <2>3. CASE r \in Best
    <3>1. subs[m].entitled = subs[r].entitled
          BY <1>1, <2>2, <2>3
    <3>2. P(r) <= p
          BY <1>3, <2>3
    <3>3. P(r) = p => r <= m
          BY <1>5, <2>3
    <3> QED BY <3>1, <3>2, <3>3, <2>1, <1>6
  <2>4. CASE r \notin Best
        BY <2>2, <2>4
  <2> QED BY <2>3, <2>4
<1> HIDE DEF P
<1>8. \E s \in SubsOf(c) : \A r \in SubsOf(c) \ {s} :
        \/ subs[s].entitled /\ ~subs[r].entitled
        \/ /\ subs[s].entitled = subs[r].entitled
           /\ \/ Priority(subs[s].status) > Priority(subs[r].status)
              \/ Priority(subs[s].status) = Priority(subs[r].status) /\ r < s
      BY <1>6, <1>7 DEF P
<1>9. Authoritative(c) = CHOOSE s \in SubsOf(c) : \A r \in SubsOf(c) \ {s} :
        \/ subs[s].entitled /\ ~subs[r].entitled
        \/ /\ subs[s].entitled = subs[r].entitled
           /\ \/ Priority(subs[s].status) > Priority(subs[r].status)
              \/ Priority(subs[s].status) = Priority(subs[r].status) /\ r < s
      BY DEF Authoritative, SubsOf
<1> DEFINE a == Authoritative(c)
<1>10. /\ a \in SubsOf(c)
       /\ \A r \in SubsOf(c) \ {a} :
            \/ subs[a].entitled /\ ~subs[r].entitled
            \/ /\ subs[a].entitled = subs[r].entitled
               /\ \/ Priority(subs[a].status) > Priority(subs[r].status)
                  \/ Priority(subs[a].status) = Priority(subs[r].status) /\ r < a
      BY <1>8, <1>9
<1>11. \A s \in SubsOf(c) : Priority(subs[s].status) \in Nat
      BY <1>2 DEF P
<1> QED BY <1>10, <1>11
-----------------------------------------------------------------------------
\* A checkout that has come to Stripe has a customer there.
OpenHasCustomer ==
  \A k \in Checkouts :
    checkout[k] # NoValue /\ checkout[k].at # "allowed" => checkout[k].customer \in Customers

BillingInv == BillingTypeOK /\ EventsOfSubs /\ SubsBounded /\ OpenHasCustomer

LEMMA InitBilling == BillingInit => BillingInv
  BY NumbersAssumption, MaxEventsAssumption
  DEF BillingInit, BillingInv, BillingTypeOK, EventsOfSubs, SubsBounded, OpenHasCustomer,
      User, StripeStatuses, Dates

\* What a step of Stripe's does to the events keeps their type.
LEMMA NotifyType ==
  ASSUME BillingTypeOK, NEW c \in Customers, Notify(c)
  PROVE  events' \in [Customers -> 0..MaxEvents]
<1>1. events[c] \in 0..MaxEvents /\ events[c] < MaxEvents
      BY DEF BillingTypeOK, Notify
<1>2. events[c] + 1 \in 0..MaxEvents
      BY <1>1, MaxEventsAssumption
<1> QED BY <1>2 DEF BillingTypeOK, Notify

\* A change of one subscription makes or removes none, and is announced.
LEMMA SubChanges ==
  ASSUME BillingInv, NEW s \in Subs, NEW new \in Sub, subs[s] # NoValue,
         new.customer = subs[s].customer, subs' = [subs EXCEPT ![s] = new],
         Notify(subs[s].customer), UNCHANGED <<now, user, webhook, checkout>>
  PROVE  BillingInv'
<1> USE NumbersAssumption DEF BillingInv
<1>1. subs[s] \in Sub /\ subs[s].customer \in Customers
      BY DEF BillingTypeOK, Sub
<1>2. subs' \in [Subs -> Sub \cup {NoValue}]
      BY DEF BillingTypeOK
<1>3. BillingTypeOK'
      BY <1>1, <1>2, NotifyType DEF BillingTypeOK
<1>4. SubsBounded'
      BY DEF SubsBounded, BillingTypeOK
<1>5. new # NoValue /\ \A c \in Customers : SubsOf(c)' = SubsOf(c)
      BY <1>1, NoSubAssumption DEF SubsOf, BillingTypeOK
<1>6. \A c \in Customers : events'[c] > 0 => events[c] > 0 \/ SubsOf(c) # {}
      BY <1>1 DEF Notify, BillingTypeOK, SubsOf
<1>7. EventsOfSubs'
      BY <1>5, <1>6 DEF EventsOfSubs
<1>8. OpenHasCustomer'
      BY DEF OpenHasCustomer
<1> QED BY <1>3, <1>4, <1>7, <1>8

LEMMA CheckoutSteps ==
  ASSUME BillingInv, NEW k \in Checkouts,
         \/ AllowCheckout(k) \/ SaveCustomer(k) \/ AbandonCheckout(k)
         \/ \E c \in Customers : CreateCustomer(k, c)
  PROVE  BillingInv'
<1> USE DEF BillingInv, BillingTypeOK, EventsOfSubs, SubsBounded, OpenHasCustomer
<1>1. CASE AllowCheckout(k)
  <2>1. /\ user.customer \in Customers \cup {NoValue}
        /\ checkout' = [checkout EXCEPT ![k] =
             [at |-> IF user.customer = NoValue THEN "allowed" ELSE "open",
              customer |-> user.customer]]
        /\ UNCHANGED <<now, user, subs, events, webhook>>
        BY <1>1 DEF AllowCheckout, User
  <2> QED BY <2>1 DEF SubsOf
<1>2. CASE SaveCustomer(k)
  <2>1. /\ checkout[k] # NoValue /\ checkout[k].at = "created"
        /\ checkout[k].customer \in Customers
        /\ user' = [user EXCEPT !.customer = checkout[k].customer]
        /\ checkout' = [checkout EXCEPT ![k].at = "open"]
        /\ UNCHANGED <<now, subs, events, webhook>>
        BY <1>2 DEF SaveCustomer
  <2>2. user' \in User
        BY <2>1 DEF User
  <2>3. /\ checkout' \in [Checkouts ->
             [at : {"allowed", "created", "open"}, customer : Customers \cup {NoValue}]
               \cup {NoValue}]
        /\ \A j \in Checkouts : checkout'[j] # NoValue /\ checkout'[j].at # "allowed"
             => checkout'[j].customer \in Customers
        BY <2>1
  <2> QED BY <2>1, <2>2, <2>3 DEF SubsOf
<1>3. CASE AbandonCheckout(k)
      BY <1>3 DEF AbandonCheckout, SubsOf
<1>4. ASSUME NEW c \in Customers, CreateCustomer(k, c) PROVE BillingInv'
      BY <1>4 DEF CreateCustomer, SubsOf
<1> QED BY <1>1, <1>2, <1>3, <1>4

LEMMA SubscribeStep ==
  ASSUME BillingInv, NEW k \in Checkouts, NEW s \in Subs, NEW status \in StripeStatuses,
         NEW d \in {NoValue, now + TrialDays}, Subscribe(k, s, status, d)
  PROVE  BillingInv'
<1> USE NumbersAssumption DEF BillingInv
<1> DEFINE new == [customer |-> checkout[k].customer, status |-> status, entitled |-> TRUE,
                   periodEnd |-> d, endedAt |-> NoValue]
<1>1. checkout[k].customer \in Customers /\ subs[s] = NoValue
      BY DEF Subscribe, BillingTypeOK, OpenHasCustomer
<1>2. new \in Sub /\ new # NoValue /\ new.customer = checkout[k].customer
  <2>1. now + TrialDays \in Nat
        BY DEF BillingTypeOK
  <2>2. d \in Dates /\ NoValue \in Dates
        BY <2>1 DEF Dates
  <2>3. new \in Sub
        BY <1>1, <2>2 DEF Sub
  <2> QED BY <2>3, NoSubAssumption
<1> HIDE DEF new
<1>3. /\ subs' = [subs EXCEPT ![s] = new] /\ Notify(new.customer)
      /\ checkout' = [checkout EXCEPT ![k] = NoValue]
      /\ UNCHANGED <<now, user, webhook>>
      BY <1>2 DEF Subscribe, new
<1>4. BillingTypeOK'
      BY <1>1, <1>2, <1>3, NotifyType DEF BillingTypeOK
<1>5. \A c \in Customers :
        /\ SubsOf(c) \subseteq SubsOf(c)'
        /\ events'[c] > 0 => events[c] > 0 \/ SubsOf(c)' # {}
      BY <1>1, <1>2, <1>3 DEF SubsOf, Notify, BillingTypeOK
<1>6. EventsOfSubs'
      BY <1>3, <1>5 DEF EventsOfSubs
<1>7. SubsBounded'
  <2>1. PICK n \in Nat : \A r \in Subs : subs[r] # NoValue => r <= n
        BY DEF SubsBounded
  <2>2. \A r \in Subs : subs'[r] # NoValue => r <= n + s
        BY <1>3, <2>1 DEF BillingTypeOK
  <2> QED BY <2>2 DEF SubsBounded
<1>8. OpenHasCustomer'
      BY <1>3 DEF OpenHasCustomer, BillingTypeOK
<1> QED BY <1>4, <1>6, <1>7, <1>8

LEMMA SyncedType ==
  ASSUME BillingTypeOK, NEW sub \in Sub, NEW trialEnd \in Dates, NEW consumed \in BOOLEAN
  PROVE  Synced(sub, trialEnd, consumed) \in User
<1>1. /\ user \in User /\ now \in Nat
      /\ sub.status \in StripeStatuses /\ sub.periodEnd \in Dates /\ sub.endedAt \in Dates
      BY NumbersAssumption DEF BillingTypeOK, Sub
<1> DEFINE status == IF sub.entitled THEN sub.status ELSE "FREE"
           periodEnd == IF sub.entitled THEN sub.periodEnd ELSE NoValue
           kept == KeepUnexpiredTrial(trialEnd, now)
           ended == IF ActiveStatus(status) \/ Later(periodEnd, now) \/ kept # NoValue THEN NoValue
                    ELSE IF periodEnd # NoValue THEN periodEnd
                    ELSE IF sub.endedAt # NoValue THEN sub.endedAt ELSE now
<1>2. /\ status \in StripeStatuses \cup {"FREE"} /\ periodEnd \in Dates /\ kept \in Dates
      /\ ended \in Dates
      BY <1>1 DEF Dates, KeepUnexpiredTrial
<1>3. Synced(sub, trialEnd, consumed) =
        [user EXCEPT !.status = status, !.periodEnd = periodEnd, !.trialEnd = kept,
                     !.consumed = consumed, !.endedAt = ended]
      BY DEF Synced
<1> HIDE DEF status, periodEnd, kept, ended
<1> QED BY <1>1, <1>2, <1>3 DEF User

LEMMA WebhookSteps ==
  ASSUME BillingInv, NEW w \in Webhooks,
         ReadUser(w) \/ WriteUser(w) \/ FailWebhook(w) \/ \E c \in Customers : ListSubs(w, c)
  PROVE  BillingInv'
<1> USE NumbersAssumption DEF BillingInv
<1>1. ASSUME NEW c \in Customers, ListSubs(w, c) PROVE BillingInv'
  <2>1. /\ events[c] > 0 /\ events' = [events EXCEPT ![c] = @ - 1]
        /\ webhook' = [webhook EXCEPT ![w] =
             [customer |-> c, at |-> "listed", sub |-> subs[Authoritative(c)],
              trialEnd |-> NoValue, consumed |-> FALSE]]
        /\ UNCHANGED <<now, user, subs, checkout>>
        BY <1>1 DEF ListSubs
  <2>2. SubsOf(c) # {}
        BY <2>1 DEF EventsOfSubs
  <2>3. subs[Authoritative(c)] \in Sub
        BY <2>2, OneIsAuthoritative DEF SubsOf, BillingTypeOK
  <2>4. events[c] - 1 \in 0..MaxEvents
        BY <2>1, MaxEventsAssumption DEF BillingTypeOK
  <2>5. BillingTypeOK'
        BY <2>1, <2>3, <2>4 DEF BillingTypeOK, Dates
  <2>6. EventsOfSubs'
        BY <2>1, <2>2 DEF EventsOfSubs, SubsOf, BillingTypeOK
  <2> QED BY <2>1, <2>5, <2>6 DEF SubsBounded, OpenHasCustomer
<1>2. CASE ReadUser(w)
  <2>1. /\ webhook[w] # NoValue /\ UNCHANGED <<now, user, subs, events, checkout>>
        /\ user.trialEnd \in Dates /\ user.consumed \in BOOLEAN
        BY <1>2 DEF ReadUser, BillingTypeOK, User
  <2>2. CASE user.customer = webhook[w].customer
    <3>1. webhook' = [webhook EXCEPT ![w] =
            [@ EXCEPT !.at = "read", !.trialEnd = user.trialEnd, !.consumed = user.consumed]]
          BY <1>2, <2>2 DEF ReadUser, BillingTypeOK
    <3>2. /\ webhook'[w].customer = webhook[w].customer
          /\ \A x \in Webhooks \ {w} : webhook'[x] = webhook[x]
          BY <2>1, <3>1 DEF BillingTypeOK
    <3>3. BillingTypeOK'
          BY <2>1, <3>1 DEF BillingTypeOK
    <3>4. EventsOfSubs'
          BY <2>1, <3>2 DEF EventsOfSubs, SubsOf
    <3> QED BY <2>1, <3>3, <3>4 DEF SubsBounded, OpenHasCustomer
  <2>3. CASE user.customer # webhook[w].customer
    <3>1. webhook' = [webhook EXCEPT ![w] = NoValue]
          BY <1>2, <2>3 DEF ReadUser
    <3> QED BY <2>1, <3>1 DEF BillingTypeOK, EventsOfSubs, SubsOf, SubsBounded, OpenHasCustomer
  <2> QED BY <2>2, <2>3
<1>3. CASE WriteUser(w)
  <2>1. webhook[w].sub \in Sub /\ webhook[w].trialEnd \in Dates /\ webhook[w].consumed \in BOOLEAN
        BY <1>3 DEF WriteUser, BillingTypeOK
  <2>2. user' \in User
        BY <1>3, <2>1, SyncedType DEF WriteUser
  <2> QED BY <1>3, <2>2
      DEF WriteUser, BillingTypeOK, EventsOfSubs, SubsOf, SubsBounded, OpenHasCustomer
<1>4. CASE FailWebhook(w)
  <2>1. webhook[w] # NoValue /\ webhook[w].customer \in Customers
        BY <1>4 DEF FailWebhook, BillingTypeOK
  <2>2. /\ Notify(webhook[w].customer) /\ webhook' = [webhook EXCEPT ![w] = NoValue]
        /\ UNCHANGED <<now, user, subs, checkout>>
        BY <1>4 DEF FailWebhook
  <2>3. BillingTypeOK'
        BY <2>1, <2>2, NotifyType DEF BillingTypeOK
  <2>4. EventsOfSubs'
        BY <2>1, <2>2 DEF Notify, EventsOfSubs, SubsOf, BillingTypeOK
  <2> QED BY <2>2, <2>3, <2>4 DEF SubsBounded, OpenHasCustomer
<1> QED BY <1>1, <1>2, <1>3, <1>4

LEMMA StripeSteps ==
  ASSUME BillingInv, NEW s \in Subs,
         SwapPrice(s) \/ \E status \in StripeStatuses : ChangeSub(s, status)
  PROVE  BillingInv'
<1>1. subs[s] # NoValue => subs[s] \in Sub
      BY DEF BillingInv, BillingTypeOK
<1>2. CASE SwapPrice(s)
  <2> DEFINE new == [subs[s] EXCEPT !.entitled = FALSE]
  <2>1. new \in Sub /\ new.customer = subs[s].customer
        BY <1>1, <1>2 DEF SwapPrice, Sub
  <2> HIDE DEF new
  <2>2. /\ subs' = [subs EXCEPT ![s] = new] /\ subs[s] # NoValue
        /\ Notify(subs[s].customer) /\ UNCHANGED <<now, user, webhook, checkout>>
        BY <1>2 DEF SwapPrice, new
  <2> QED BY <2>1, <2>2, SubChanges
<1>3. ASSUME NEW status \in StripeStatuses, ChangeSub(s, status) PROVE BillingInv'
  <2> DEFINE new == [subs[s] EXCEPT !.status = status,
                       !.endedAt = IF status = "canceled" THEN now ELSE @]
  <2>0. now \in Dates /\ subs[s] \in Sub
    <3>1. subs[s] # NoValue
          BY <1>3 DEF ChangeSub
    <3> QED BY <1>1, <3>1, NumbersAssumption DEF Dates, BillingInv, BillingTypeOK
  <2>1. new \in Sub /\ new.customer = subs[s].customer
        BY <2>0 DEF Sub
  <2>2. /\ subs' = [subs EXCEPT ![s] = new] /\ subs[s] # NoValue
        /\ Notify(subs[s].customer) /\ UNCHANGED <<now, user, webhook, checkout>>
        BY <1>3 DEF ChangeSub, BillingInv, BillingTypeOK, Sub
  <2> QED BY <2>1, <2>2, SubChanges
<1> QED BY <1>2, <1>3

LEMMA StepBilling == BillingInv /\ [BillingNext]_billingVars => BillingInv'
<1> SUFFICES ASSUME BillingInv, [BillingNext]_billingVars PROVE BillingInv'
    OBVIOUS
<1> USE NumbersAssumption
<1>1. CASE NextDay
      BY <1>1 DEF NextDay, BillingInv, BillingTypeOK, EventsOfSubs, SubsOf, SubsBounded, OpenHasCustomer
<1>2. CASE StartCardlessTrial
  <2>0. user \in User /\ now + TrialDays \in Dates
        BY DEF BillingInv, BillingTypeOK, Dates
  <2>1. user' \in User
        BY <1>2, <2>0 DEF StartCardlessTrial, User
  <2> QED BY <1>2, <2>1
      DEF StartCardlessTrial, BillingInv, BillingTypeOK, EventsOfSubs, SubsOf, SubsBounded, OpenHasCustomer
<1>3. CASE UNCHANGED billingVars
      BY <1>3
      DEF billingVars, BillingInv, BillingTypeOK, EventsOfSubs, SubsOf, SubsBounded, OpenHasCustomer
<1> QED BY <1>1, <1>2, <1>3, StripeSteps, CheckoutSteps, SubscribeStep, WebhookSteps DEF BillingNext

\* The account, Stripe's subscriptions and the webhooks in progress keep their types: a
\* webhook always has a subscription to sync.
THEOREM BillingTypeCorrect == BillingSpec => []BillingTypeOK
<1>1. BillingInv => BillingTypeOK
      BY DEF BillingInv
<1> QED BY <1>1, InitBilling, StepBilling, PTL DEF BillingSpec

-----------------------------------------------------------------------------
(* Billing: the trial and the access.  Nobody reaches a checkout, and so   *)
(* no webhook is about a customer of the account, before the trial is      *)
(* consumed; and what a webhook read of the trial is what the account      *)
(* still has, unless that has run out.                                     *)

TrialMarked ==
  /\ user.trialEnd # NoValue => user.consumed
  /\ user.customer # NoValue => user.consumed
  /\ user.endedAt # NoValue => user.consumed
  /\ \A k \in Checkouts : checkout[k] # NoValue => user.consumed

ReadStillHolds ==
  \A w \in Webhooks :
    webhook[w] # NoValue /\ webhook[w].at = "read" =>
      /\ webhook[w].consumed /\ user.consumed
      /\ \/ webhook[w].trialEnd = user.trialEnd
         \/ user.trialEnd = NoValue /\ ~Later(webhook[w].trialEnd, now)

TrialInv == TrialMarked /\ ReadStillHolds /\ EndedMeansNoAccess

LEMMA InitTrial == BillingInit => TrialInv
  BY DEF BillingInit, TrialInv, TrialMarked, ReadStillHolds, EndedMeansNoAccess

LEMMA LaterFades ==
  ASSUME NEW date \in Dates, NEW day \in Nat, ~Later(date, day)
  PROVE  ~Later(date, day + 1)
  BY NoValueAssumption DEF Later, Dates

\* What a webhook writes of the trial: what the account has, unless that has run out.
LEMMA SyncKeepsTrial ==
  ASSUME BillingTypeOK, TrialInv, NEW w \in Webhooks, WriteUser(w)
  PROVE  /\ user'.consumed /\ user.consumed
         /\ user'.trialEnd = KeepUnexpiredTrial(user.trialEnd, now)
         /\ user'.customer = user.customer
         /\ user'.endedAt # NoValue =>
              ~ActiveStatus(user'.status) /\ ~Later(user'.periodEnd, now) /\ user'.trialEnd = NoValue
<1>1. /\ webhook[w].consumed /\ user.consumed
      /\ KeepUnexpiredTrial(webhook[w].trialEnd, now) = KeepUnexpiredTrial(user.trialEnd, now)
      BY DEF TrialInv, ReadStillHolds, WriteUser, KeepUnexpiredTrial
<1>2. user' = Synced(webhook[w].sub, webhook[w].trialEnd, webhook[w].consumed) /\ user \in User
      BY DEF WriteUser, BillingTypeOK
<1>3. /\ user'.trialEnd = KeepUnexpiredTrial(webhook[w].trialEnd, now)
      /\ user'.consumed = webhook[w].consumed /\ user'.customer = user.customer
      BY <1>2 DEF Synced, User
<1>4. user'.endedAt # NoValue =>
        ~ActiveStatus(user'.status) /\ ~Later(user'.periodEnd, now) /\ user'.trialEnd = NoValue
      BY <1>2 DEF Synced, User
<1> QED BY <1>1, <1>3, <1>4

LEMMA StepTrial == BillingTypeOK /\ TrialInv /\ [BillingNext]_billingVars => TrialInv'
<1> SUFFICES ASSUME BillingTypeOK, TrialInv, [BillingNext]_billingVars PROVE TrialInv'
    OBVIOUS
<1> USE DEF TrialInv, TrialMarked, ReadStillHolds, EndedMeansNoAccess, HasBillingAccess
<1>0. user \in User /\ now \in Nat
      BY NumbersAssumption DEF BillingTypeOK
<1>1. CASE NextDay
  <2>1. now' = now + 1 /\ UNCHANGED <<user, webhook, checkout>>
        BY <1>1 DEF NextDay
  <2>2. \A d \in Dates : ~Later(d, now) => ~Later(d, now')
        BY <1>0, <2>1, LaterFades
  <2>3. user.trialEnd \in Dates /\ user.periodEnd \in Dates
        BY <1>0 DEF User
  <2>4. \A w \in Webhooks : webhook[w] # NoValue => webhook[w].trialEnd \in Dates
        BY DEF BillingTypeOK
  <2> QED BY <2>1, <2>2, <2>3, <2>4
<1>2. CASE StartCardlessTrial
  <2>1. /\ ~user.consumed /\ UNCHANGED <<now, webhook, checkout>>
        /\ user' = [user EXCEPT !.trialEnd = now + TrialDays, !.consumed = TRUE]
        BY <1>2 DEF StartCardlessTrial
  <2>2. user'.consumed /\ user'.endedAt = NoValue
        BY <1>0, <2>1 DEF User
  <2>3. \A w \in Webhooks : ~(webhook[w] # NoValue /\ webhook[w].at = "read")
        BY <2>1
  <2> QED BY <2>1, <2>2, <2>3
<1>3. ASSUME NEW s \in Subs, SwapPrice(s) \/ \E status \in StripeStatuses : ChangeSub(s, status)
      PROVE  TrialInv'
      BY <1>3 DEF SwapPrice, ChangeSub
<1>4. ASSUME NEW k \in Checkouts, AllowCheckout(k) \/ AbandonCheckout(k) PROVE TrialInv'
      BY <1>4 DEF AllowCheckout, AbandonCheckout, BillingTypeOK
<1>5. ASSUME NEW k \in Checkouts, SaveCustomer(k) PROVE TrialInv'
  <2>1. /\ user.consumed /\ UNCHANGED <<now, webhook>>
        /\ user' = [user EXCEPT !.customer = checkout[k].customer]
        BY <1>5 DEF SaveCustomer
  <2> QED BY <1>0, <2>1 DEF User
<1>6. ASSUME NEW k \in Checkouts, NEW c \in Customers, CreateCustomer(k, c) PROVE TrialInv'
      BY <1>6 DEF CreateCustomer, BillingTypeOK
<1>7. ASSUME NEW k \in Checkouts, NEW s \in Subs, NEW status \in StripeStatuses,
             NEW d \in {NoValue, now + TrialDays}, Subscribe(k, s, status, d)
      PROVE  TrialInv'
      BY <1>7 DEF Subscribe, BillingTypeOK
<1>8. ASSUME NEW w \in Webhooks, ReadUser(w) PROVE TrialInv'
  <2>1. UNCHANGED <<now, user, checkout>> /\ \A x \in Webhooks \ {w} : webhook'[x] = webhook[x]
        BY <1>8 DEF ReadUser, BillingTypeOK
  <2>2. CASE user.customer = webhook[w].customer
    <3>1. user.customer # NoValue /\ user.consumed
          BY <1>8, <2>2, NoValueAssumption DEF ReadUser, BillingTypeOK
    <3>2. webhook'[w].trialEnd = user.trialEnd /\ webhook'[w].consumed = user.consumed
          BY <1>8, <2>2 DEF ReadUser, BillingTypeOK
    <3> QED BY <2>1, <3>1, <3>2
  <2>3. CASE user.customer # webhook[w].customer
    <3>1. webhook'[w] = NoValue
          BY <1>8, <2>3 DEF ReadUser, BillingTypeOK
    <3> QED BY <2>1, <3>1
  <2> QED BY <2>2, <2>3
<1>9. ASSUME NEW w \in Webhooks, WriteUser(w) PROVE TrialInv'
  <2>1. /\ user'.consumed /\ user.consumed
        /\ user'.trialEnd = KeepUnexpiredTrial(user.trialEnd, now)
        /\ user'.endedAt # NoValue =>
             ~ActiveStatus(user'.status) /\ ~Later(user'.periodEnd, now) /\ user'.trialEnd = NoValue
        BY <1>9, SyncKeepsTrial
  <2>2. /\ UNCHANGED <<now, checkout>> /\ webhook'[w] = NoValue
        /\ \A x \in Webhooks \ {w} : webhook'[x] = webhook[x]
        BY <1>9 DEF WriteUser, BillingTypeOK
  <2>3. EndedMeansNoAccess'
        BY <2>1, <2>2 DEF Later
  <2>4. TrialMarked'
        BY <2>1, <2>2
  <2>5. ReadStillHolds'
        BY <2>1, <2>2 DEF KeepUnexpiredTrial
  <2> QED BY <2>3, <2>4, <2>5
<1>10. ASSUME NEW w \in Webhooks, NEW c \in Customers, ListSubs(w, c) PROVE TrialInv'
  <2>1. /\ UNCHANGED <<now, user, checkout>> /\ webhook'[w].at = "listed"
        /\ \A x \in Webhooks \ {w} : webhook'[x] = webhook[x]
        BY <1>10 DEF ListSubs, BillingTypeOK
  <2> QED BY <2>1
<1>11. ASSUME NEW w \in Webhooks, FailWebhook(w) PROVE TrialInv'
      BY <1>11 DEF FailWebhook, BillingTypeOK
<1>12. CASE UNCHANGED billingVars
      BY <1>12 DEF billingVars
<1> QED BY <1>1, <1>2, <1>3, <1>4, <1>5, <1>6, <1>7, <1>8, <1>9, <1>10, <1>11, <1>12 DEF BillingNext

\* For any number of webhooks, checkouts and subscriptions: the date the storage
\* cleanup counts from is on no account that still has access.
THEOREM EndedMeansNoAccessHolds == BillingSpec => []EndedMeansNoAccess
<1>1. BillingInv => BillingTypeOK
      BY DEF BillingInv
<1>2. TrialInv => EndedMeansNoAccess
      BY DEF TrialInv
<1> QED BY <1>1, <1>2, InitBilling, StepBilling, InitTrial, StepTrial, PTL DEF BillingSpec

LEMMA TrialStepKept ==
  ASSUME BillingTypeOK, TrialInv, [BillingNext]_billingVars
  PROVE  [/\ Later(user.trialEnd, now) => user'.trialEnd = user.trialEnd
          /\ user.consumed => user'.consumed /\ user'.trialEnd \in {user.trialEnd, NoValue}]_billingVars
<1>0. user \in User
      BY DEF BillingTypeOK
<1>1. CASE UNCHANGED user
      BY <1>1
<1>2. CASE StartCardlessTrial
      BY <1>0, <1>2 DEF StartCardlessTrial, Later, User
<1>3. ASSUME NEW k \in Checkouts, SaveCustomer(k)
      PROVE  user'.trialEnd = user.trialEnd /\ user'.consumed = user.consumed
      BY <1>0, <1>3 DEF SaveCustomer, User
<1>4. ASSUME NEW w \in Webhooks, WriteUser(w)
      PROVE  user'.consumed /\ user'.trialEnd = KeepUnexpiredTrial(user.trialEnd, now)
      BY <1>4, SyncKeepsTrial
<1>5. \/ UNCHANGED user \/ StartCardlessTrial \/ \E k \in Checkouts : SaveCustomer(k)
      \/ \E w \in Webhooks : WriteUser(w)
      BY DEF BillingNext, billingVars, NextDay, SwapPrice, ChangeSub, AllowCheckout, AbandonCheckout,
         CreateCustomer, Subscribe, ReadUser, FailWebhook, ListSubs
<1> QED BY <1>1, <1>2, <1>3, <1>4, <1>5 DEF KeepUnexpiredTrial

\* No webhook, however late, takes an unexpired trial back, and no step ever starts a
\* second one.
THEOREM TrialOnceAndKeptHolds == BillingSpec => TrialOnceAndKept
<1>1. BillingInv => BillingTypeOK
      BY DEF BillingInv
<1> QED BY <1>1, InitBilling, StepBilling, InitTrial, StepTrial, TrialStepKept, PTL
        DEF BillingSpec, TrialOnceAndKept

-----------------------------------------------------------------------------
(* Billing: what the account shows.  With one delivery at a time (and one  *)
(* Stripe customer) the last one has listed what Stripe has: a later       *)
(* change leaves an event, and so another delivery.  Two deliveries that   *)
(* overlap write in either order, and the run of that shows it fails.      *)

EntitledActive(sub) == sub.entitled /\ ActiveStatus(sub.status)
SomeActive == \E s \in Subs : subs[s] # NoValue /\ EntitledActive(subs[s])

\* Whoever has a subscription, or is about to, is the customer of the account.
CustomerSaved ==
  /\ \A k \in Checkouts : checkout[k] # NoValue /\ checkout[k].at = "open" => user.customer \in Customers
  /\ \A s \in Subs : subs[s] # NoValue => user.customer \in Customers

\* With no event left, the delivery in progress knows, or the account shows, what
\* Stripe has.
LastDeliveryKnows ==
  (\A c \in Customers : events[c] = 0) =>
    /\ (\A w \in Webhooks : webhook[w] = NoValue) => (ActiveStatus(user.status) <=> SomeActive)
    /\ \A w \in Webhooks : webhook[w] # NoValue => (EntitledActive(webhook[w].sub) <=> SomeActive)

OneDelivery == (\E w : Webhooks = {w}) /\ (\E c : Customers = {c})

ShownInv == CustomerSaved /\ LastDeliveryKnows

LEMMA InitShown == BillingInit => ShownInv
  BY DEF BillingInit, ShownInv, CustomerSaved, LastDeliveryKnows, SomeActive, ActiveStatus

\* The subscription that is listed is active and at the configured price if any is.
LEMMA AuthoritativeShows ==
  ASSUME BillingInv, NEW c \in Customers, Customers = {c}, SubsOf(c) # {}
  PROVE  EntitledActive(subs[Authoritative(c)]) <=> SomeActive
<1> DEFINE a == Authoritative(c)
<1>1. /\ a \in SubsOf(c)
      /\ \A r \in SubsOf(c) \ {a} :
           \/ subs[a].entitled /\ ~subs[r].entitled
           \/ /\ subs[a].entitled = subs[r].entitled
              /\ Priority(subs[a].status) >= Priority(subs[r].status)
      BY OneIsAuthoritative DEF BillingInv
<1> HIDE DEF a
<1>2. a \in Subs /\ subs[a] # NoValue
      BY <1>1 DEF SubsOf
<1>3. ASSUME NEW r \in Subs, subs[r] # NoValue, EntitledActive(subs[r]), r # a
      PROVE  EntitledActive(subs[a])
  <2>1. r \in SubsOf(c)
        BY <1>3 DEF SubsOf, BillingInv, BillingTypeOK, Sub
  <2>2. subs[a].entitled /\ Priority(subs[a].status) >= 3
        BY <1>1, <1>3, <2>1 DEF EntitledActive, ActiveStatus, Priority
  <2> QED BY <2>2 DEF EntitledActive, ActiveStatus, Priority
<1> QED BY <1>2, <1>3 DEF SomeActive, a

\* What Stripe does is announced.
LEMMA NotifyPending ==
  ASSUME BillingTypeOK, NEW c \in Customers, Notify(c)
  PROVE  ~(\A d \in Customers : events'[d] = 0)
<1>1. events'[c] = events[c] + 1 /\ events[c] \in Nat
      BY MaxEventsAssumption DEF BillingTypeOK, Notify
<1> QED BY <1>1

LEMMA StripeShown ==
  ASSUME BillingInv, ShownInv, NEW s \in Subs,
         SwapPrice(s) \/ \E status \in StripeStatuses : ChangeSub(s, status)
  PROVE  ShownInv'
<1>1. /\ subs[s] # NoValue /\ subs[s].customer \in Customers
      /\ Notify(subs[s].customer) /\ UNCHANGED <<user, checkout>>
      /\ \A r \in Subs \ {s} : subs'[r] = subs[r]
      BY DEF SwapPrice, ChangeSub, BillingInv, BillingTypeOK, Sub
<1>2. LastDeliveryKnows'
      BY <1>1, NotifyPending DEF LastDeliveryKnows, BillingInv
<1> QED BY <1>1, <1>2 DEF ShownInv, CustomerSaved

LEMMA CheckoutShown ==
  ASSUME BillingInv, ShownInv, NEW k \in Checkouts,
         \/ AllowCheckout(k) \/ SaveCustomer(k) \/ AbandonCheckout(k)
         \/ \E c \in Customers : CreateCustomer(k, c)
  PROVE  ShownInv'
<1>1. user \in User /\ UNCHANGED <<subs, events, webhook>>
      BY DEF AllowCheckout, SaveCustomer, AbandonCheckout, CreateCustomer, BillingInv, BillingTypeOK
<1>2. CASE SaveCustomer(k)
  <2>1. user'.customer \in Customers /\ user'.status = user.status
        BY <1>1, <1>2 DEF SaveCustomer, BillingInv, OpenHasCustomer, User
  <2> QED BY <1>1, <2>1 DEF ShownInv, CustomerSaved, LastDeliveryKnows, SomeActive
<1>3. CASE AllowCheckout(k)
  <2>1. /\ user' = user /\ user.customer \in Customers \cup {NoValue}
        /\ checkout' = [checkout EXCEPT ![k] =
             [at |-> IF user.customer = NoValue THEN "allowed" ELSE "open", customer |-> user.customer]]
        BY <1>1, <1>3 DEF AllowCheckout, User
  <2>2. CustomerSaved'
        BY <1>1, <2>1 DEF ShownInv, CustomerSaved, BillingInv, BillingTypeOK
  <2> QED BY <1>1, <2>1, <2>2 DEF ShownInv, LastDeliveryKnows, SomeActive
<1>4. CASE AbandonCheckout(k) \/ \E c \in Customers : CreateCustomer(k, c)
  <2>1. /\ user' = user
        /\ \E x : checkout' = [checkout EXCEPT ![k] = x] /\ (x # NoValue => x.at # "open")
        BY <1>4 DEF AbandonCheckout, CreateCustomer
  <2>2. CustomerSaved'
        BY <1>1, <2>1 DEF ShownInv, CustomerSaved, BillingInv, BillingTypeOK
  <2> QED BY <1>1, <2>1, <2>2 DEF ShownInv, LastDeliveryKnows, SomeActive
<1> QED BY <1>2, <1>3, <1>4

LEMMA SubscribeShown ==
  ASSUME BillingInv, ShownInv, NEW k \in Checkouts, NEW s \in Subs, NEW status \in StripeStatuses,
         NEW d \in {NoValue, now + TrialDays}, Subscribe(k, s, status, d)
  PROVE  ShownInv'
<1>1. /\ checkout[k] # NoValue /\ checkout[k].at = "open" /\ checkout[k].customer \in Customers
      /\ Notify(checkout[k].customer) /\ user' = user
      /\ checkout' = [checkout EXCEPT ![k] = NoValue]
      BY DEF Subscribe, BillingInv, OpenHasCustomer
<1>2. user.customer \in Customers
      BY <1>1 DEF ShownInv, CustomerSaved
<1>3. LastDeliveryKnows'
      BY <1>1, NotifyPending DEF LastDeliveryKnows, BillingInv
<1> QED BY <1>1, <1>2, <1>3 DEF ShownInv, CustomerSaved, BillingInv, BillingTypeOK

LEMMA WebhookShown ==
  ASSUME BillingInv, ShownInv, OneDelivery, NEW w \in Webhooks,
         ReadUser(w) \/ WriteUser(w) \/ FailWebhook(w) \/ \E c \in Customers : ListSubs(w, c)
  PROVE  ShownInv'
<1> USE DEF ShownInv
<1>1. Webhooks = {w} /\ UNCHANGED <<subs, checkout>>
      BY DEF OneDelivery, ReadUser, WriteUser, FailWebhook, ListSubs
<1>2. ASSUME NEW c \in Customers, ListSubs(w, c) PROVE ShownInv'
  <2>1. /\ SubsOf(c) # {} /\ Customers = {c} /\ user' = user
        /\ webhook'[w] # NoValue /\ webhook'[w].sub = subs[Authoritative(c)]
    <3>1. /\ user' = user /\ events[c] > 0
          /\ webhook' = [webhook EXCEPT ![w] =
               [customer |-> c, at |-> "listed", sub |-> subs[Authoritative(c)],
                trialEnd |-> NoValue, consumed |-> FALSE]]
          BY <1>2 DEF ListSubs
    <3>2. SubsOf(c) # {} /\ subs[Authoritative(c)] \in Sub
          BY <3>1, OneIsAuthoritative DEF BillingInv, EventsOfSubs, SubsOf, BillingTypeOK
    <3>3. webhook'[w] \in Delivery /\ webhook'[w].sub = subs[Authoritative(c)]
          BY <3>1, <3>2 DEF BillingInv, BillingTypeOK, Dates
    <3> QED BY <3>1, <3>2, <3>3, NoSubAssumption DEF OneDelivery
  <2>2. EntitledActive(webhook'[w].sub) <=> SomeActive
        BY <2>1, AuthoritativeShows
  <2>3. SomeActive' <=> SomeActive
        BY <1>1 DEF SomeActive
  <2> QED BY <1>1, <2>1, <2>2, <2>3 DEF CustomerSaved, LastDeliveryKnows
<1>3. CASE ReadUser(w)
  <2>1. webhook[w] # NoValue /\ webhook[w].customer \in Customers /\ UNCHANGED <<user, events>>
        BY <1>3 DEF ReadUser, BillingInv, BillingTypeOK
  <2>2. user.customer = webhook[w].customer
    <3>1. SubsOf(webhook[w].customer) # {}
          BY <2>1 DEF BillingInv, EventsOfSubs
    <3> QED BY <2>1, <3>1 DEF CustomerSaved, SubsOf, OneDelivery
  <2>3. webhook'[w].sub = webhook[w].sub /\ webhook'[w] # NoValue
    <3>1. webhook[w] \in Delivery /\ user.trialEnd \in Dates /\ user.consumed \in BOOLEAN
          BY <2>1 DEF BillingInv, BillingTypeOK, User
    <3>2. webhook'[w] = [webhook[w] EXCEPT !.at = "read", !.trialEnd = user.trialEnd,
                                           !.consumed = user.consumed]
          BY <1>3, <2>2 DEF ReadUser, BillingInv, BillingTypeOK
    <3>3. webhook'[w].sub = webhook[w].sub /\ webhook'[w] \in Delivery
          BY <3>1, <3>2
    <3> QED BY <3>3, NoSubAssumption
  <2> QED BY <1>1, <2>1, <2>3 DEF CustomerSaved, LastDeliveryKnows, SomeActive
<1>4. CASE WriteUser(w)
  <2>1. /\ webhook[w] # NoValue /\ webhook[w].sub.status \in StripeStatuses
        /\ user' = Synced(webhook[w].sub, webhook[w].trialEnd, webhook[w].consumed)
        /\ webhook'[w] = NoValue /\ events' = events /\ user \in User
        BY <1>4 DEF WriteUser, BillingInv, BillingTypeOK, Sub
  <2>2. user'.customer = user.customer
        BY <2>1 DEF Synced, User
  <2>3. ActiveStatus(user'.status) <=> EntitledActive(webhook[w].sub)
        BY <2>1 DEF Synced, User, ActiveStatus, EntitledActive
  <2> QED BY <1>1, <2>1, <2>2, <2>3 DEF CustomerSaved, LastDeliveryKnows, SomeActive
<1>5. CASE FailWebhook(w)
  <2>1. /\ Notify(webhook[w].customer) /\ webhook[w].customer \in Customers /\ user' = user
        BY <1>5 DEF FailWebhook, BillingInv, BillingTypeOK
  <2>2. LastDeliveryKnows'
        BY <2>1, NotifyPending DEF LastDeliveryKnows, BillingInv
  <2> QED BY <1>1, <2>1, <2>2 DEF CustomerSaved
<1> QED BY <1>2, <1>3, <1>4, <1>5

LEMMA StepShown ==
  ASSUME OneDelivery PROVE BillingInv /\ ShownInv /\ [BillingNext]_billingVars => ShownInv'
<1> SUFFICES ASSUME BillingInv, ShownInv, [BillingNext]_billingVars PROVE ShownInv'
    OBVIOUS
<1> USE DEF ShownInv, CustomerSaved, LastDeliveryKnows, SomeActive
<1>1. CASE NextDay
      BY <1>1 DEF NextDay
<1>2. CASE StartCardlessTrial
  <2>1. user'.customer = user.customer /\ user'.status = user.status /\ UNCHANGED <<subs, events, webhook, checkout>>
        BY <1>2 DEF StartCardlessTrial, BillingInv, BillingTypeOK, User
  <2> QED BY <2>1
<1>3. CASE UNCHANGED billingVars
      BY <1>3 DEF billingVars
<1> QED BY <1>1, <1>2, <1>3, StripeShown, CheckoutShown, SubscribeShown, WebhookShown DEF BillingNext

\* With one delivery at a time and one Stripe customer, for any number of subscriptions
\* and checkouts: when all events are delivered, the account is active exactly when a
\* subscription at the configured price is.
THEOREM SubscriptionDecidesHolds ==
  ASSUME OneDelivery PROVE BillingSpec => []SubscriptionDecides
<1>1. BillingInit => BillingInv /\ ShownInv
      BY InitBilling, InitShown
<1>2. BillingInv /\ ShownInv /\ [BillingNext]_billingVars => BillingInv' /\ ShownInv'
      BY StepBilling, StepShown
<1>3. ShownInv => SubscriptionDecides
      BY DEF ShownInv, LastDeliveryKnows, SubscriptionDecides, SomeActive, EntitledActive, ActiveStatus
<1> QED BY <1>1, <1>2, <1>3, PTL DEF BillingSpec

-----------------------------------------------------------------------------
(* Invitations: a transaction that can still commit has seen every live    *)
(* invitation, and what it saw is still pending; so the one it leaves      *)
(* pending is the only live one.                                           *)

InTx(s) == sender[s] # Nobody /\ sender[s].at = "tx"
LiveInvites == PendingIn(invite) \ lapsed

SawAllLive ==
  \A s \in Senders : InTx(s) => LiveInvites \subseteq sender[s].saw /\ sender[s].saw \subseteq PendingIn(invite)

\* What an accept or a cancel has read is a row.
ReadRows ==
  /\ \A v \in Visitors : visitor[v] # Nobody => invite[visitor[v].invite] # Nobody
  /\ \A c \in Cancels : canceler[c] # Nobody => invite[canceler[c]] # Nobody

InviteInv == InvitationsTypeOK /\ SawAllLive /\ ReadRows /\ OneLiveInvitation

LEMMA InitInvites == InvitationsInit => InviteInv
  BY DEF InvitationsInit, InviteInv, InvitationsTypeOK, SawAllLive, ReadRows, OneLiveInvitation,
         InTx, LiveInvites, PendingIn

SenderTypes ==
  [Senders -> [at : {"allowed", "tx", "conflict"}, role : Roles, attempt : 1..Attempts,
               saw : SUBSET Invites] \cup {Nobody}]

\* A write refuses the transactions that read what it writes and leaves the others.
LEMMA SendersAfterWrite ==
  ASSUME InvitationsTypeOK, NEW written
  PROVE  /\ SendersAfter(written) \in SenderTypes
         /\ \A s \in Senders :
              SendersAfter(written)[s] # Nobody /\ SendersAfter(written)[s].at = "tx" =>
                SendersAfter(written)[s] = sender[s] /\ s \notin Conflicting(written)
<1>1. ASSUME NEW s \in Senders, s \in Conflicting(written)
      PROVE  /\ SendersAfter(written)[s] = [sender[s] EXCEPT !.at = "conflict"]
             /\ [sender[s] EXCEPT !.at = "conflict"] \in
                  [at : {"allowed", "tx", "conflict"}, role : Roles, attempt : 1..Attempts,
                   saw : SUBSET Invites]
             /\ [sender[s] EXCEPT !.at = "conflict"].at = "conflict"
      BY <1>1 DEF SendersAfter, Conflicting, InvitationsTypeOK
<1>2. ASSUME NEW s \in Senders, s \notin Conflicting(written)
      PROVE  SendersAfter(written)[s] = sender[s]
      BY <1>2 DEF SendersAfter
<1>3. SendersAfter(written) = [s \in Senders |-> SendersAfter(written)[s]]
      BY DEF SendersAfter
<1>4. SendersAfter(written) \in SenderTypes
      BY <1>1, <1>2, <1>3 DEF SenderTypes, InvitationsTypeOK
<1> QED BY <1>1, <1>2, <1>4

\* A row is accepted, expired or canceled: no new one is live, and whoever saw it
\* pending is refused.
LEMMA RowEnds ==
  ASSUME InviteInv, NEW i \in Invites, invite[i] # Nobody,
         NEW status \in {"ACCEPTED", "EXPIRED", "CANCELED"}, SetStatus(i, status),
         UNCHANGED lapsed
  PROVE  /\ invite' \in [Invites -> Invite \cup {Nobody}] /\ sender' \in SenderTypes
         /\ \A j \in Invites : invite[j] # Nobody => invite'[j] # Nobody
         /\ SawAllLive' /\ OneLiveInvitation'
<1> DEFINE new == [invite[i] EXCEPT !.status = status]
<1>1. new \in Invite /\ new.status = status /\ new # Nobody
      BY NoInviteAssumption DEF InviteInv, InvitationsTypeOK, Invite
<1>2. invite' = [invite EXCEPT ![i] = new] /\ sender' = SendersAfter({i})
      BY DEF SetStatus
<1> HIDE DEF new
<1>3. invite' \in [Invites -> Invite \cup {Nobody}]
      BY <1>1, <1>2 DEF InviteInv, InvitationsTypeOK
<1>4. \A j \in Invites : invite[j] # Nobody => invite'[j] # Nobody
      BY <1>1, <1>2 DEF InviteInv, InvitationsTypeOK
<1>5. PendingIn(invite') = PendingIn(invite) \ {i}
      BY <1>1, <1>2 DEF PendingIn, InviteInv, InvitationsTypeOK
<1>6. sender' \in SenderTypes
      BY <1>2, SendersAfterWrite DEF InviteInv
<1>7. OneLiveInvitation'
      BY <1>5 DEF OneLiveInvitation, InviteInv
<1>8. ASSUME NEW s \in Senders, InTx(s)'
      PROVE  (LiveInvites \subseteq sender[s].saw /\ sender[s].saw \subseteq PendingIn(invite))'
  <2>1. sender'[s] = sender[s] /\ s \notin Conflicting({i}) /\ InTx(s)
        BY <1>2, <1>8, SendersAfterWrite DEF InTx, InviteInv
  <2>2. i \notin PendingIn(invite)
        BY <2>1 DEF Conflicting, InTx
  <2>3. PendingIn(invite') = PendingIn(invite)
        BY <1>5, <2>2
  <2> QED BY <2>1, <2>3 DEF SawAllLive, LiveInvites, InviteInv
<1> QED BY <1>3, <1>4, <1>6, <1>7, <1>8 DEF SawAllLive

\* The refreshed invitation is the only live one, and every other transaction that read
\* a pending row, or found none, is refused.
LEMMA CommitLeavesOne ==
  ASSUME InviteInv, NEW s \in Senders, CommitInvite(s)
  PROVE  InviteInv'
<1>1. /\ InTx(s) /\ invite' = Refreshed(s) /\ lapsed' = lapsed \ {Target(s)}
      /\ sender' = [SendersAfter(PendingIn(invite) \cup {Target(s)}) EXCEPT ![s] = Nobody]
      /\ applied' = Nobody /\ UNCHANGED <<member, visitor, canceler>>
      BY DEF CommitInvite, InTx
<1>2. /\ sender[s].role \in Roles /\ sender[s].saw \subseteq Invites
      /\ LiveInvites \subseteq sender[s].saw /\ sender[s].saw \subseteq PendingIn(invite)
      BY <1>1 DEF InviteInv, InvitationsTypeOK, SawAllLive, InTx
<1>3. \A i \in Invites :
        /\ i = Target(s) => invite'[i] = [status |-> "PENDING", role |-> sender[s].role]
        /\ i # Target(s) /\ i \in sender[s].saw => invite'[i] = [invite[i] EXCEPT !.status = "CANCELED"]
        /\ i # Target(s) /\ i \notin sender[s].saw /\ i \in PendingIn(invite) \cap lapsed
             => invite'[i] = [invite[i] EXCEPT !.status = "EXPIRED"]
        /\ i # Target(s) /\ i \notin sender[s].saw /\ i \notin PendingIn(invite) \cap lapsed
             => invite'[i] = invite[i]
      BY <1>1 DEF Refreshed
<1>4. \A i \in Invites :
        /\ invite'[i] \in Invite \cup {Nobody}
        /\ invite[i] # Nobody => invite'[i] # Nobody
        /\ i # Target(s) => ~(invite'[i] # Nobody /\ invite'[i].status = "PENDING")
  <2> SUFFICES ASSUME NEW i \in Invites
               PROVE  /\ invite'[i] \in Invite \cup {Nobody}
                      /\ invite[i] # Nobody => invite'[i] # Nobody
                      /\ i # Target(s) => ~(invite'[i] # Nobody /\ invite'[i].status = "PENDING")
      OBVIOUS
  <2>1. CASE i = Target(s)
    <3>1. [status |-> "PENDING", role |-> sender[s].role] \in Invite
          BY <1>2 DEF Invite
    <3> QED BY <1>3, <2>1, <3>1, NoInviteAssumption
  <2>2. CASE i # Target(s) /\ i \in PendingIn(invite)
    <3>1. invite[i] \in Invite /\ invite[i] # Nobody
          BY <2>2 DEF PendingIn, InviteInv, InvitationsTypeOK
    <3>2. i \in sender[s].saw \/ i \in lapsed
          BY <1>2, <2>2 DEF LiveInvites
    <3>3. invite'[i] \in {[invite[i] EXCEPT !.status = "CANCELED"], [invite[i] EXCEPT !.status = "EXPIRED"]}
          BY <1>3, <2>2, <3>2
    <3> QED BY <3>1, <3>3, NoInviteAssumption DEF Invite
  <2>3. CASE i # Target(s) /\ i \notin PendingIn(invite)
    <3>1. invite'[i] = invite[i]
          BY <1>2, <1>3, <2>3
    <3> QED BY <2>3, <3>1 DEF PendingIn, InviteInv, InvitationsTypeOK
  <2> QED BY <2>1, <2>2, <2>3
<1>5. invite' \in [Invites -> Invite \cup {Nobody}]
      BY <1>1, <1>4 DEF Refreshed
<1>6. PendingIn(invite') \subseteq {Target(s)}
      BY <1>4 DEF PendingIn
<1>7. sender' \in SenderTypes
      BY <1>1, SendersAfterWrite DEF InviteInv, SenderTypes
<1>8. InvitationsTypeOK'
      BY <1>1, <1>5, <1>7 DEF InviteInv, InvitationsTypeOK, SenderTypes
<1>9. OneLiveInvitation'
      BY <1>6 DEF OneLiveInvitation
<1>10. ReadRows'
      BY <1>1, <1>4 DEF ReadRows, InviteInv, InvitationsTypeOK
<1>11. SawAllLive'
  <2> SUFFICES ASSUME NEW t \in Senders, InTx(t)'
               PROVE  (LiveInvites \subseteq sender[t].saw /\ sender[t].saw \subseteq PendingIn(invite))'
      BY DEF SawAllLive
  <2> DEFINE written == PendingIn(invite) \cup {Target(s)}
  <2>1. t # s /\ sender'[t] = SendersAfter(written)[t]
        BY <1>1, SendersAfterWrite DEF InTx, InviteInv, SenderTypes
  <2>2. sender'[t] = sender[t] /\ InTx(t) /\ t \notin Conflicting(written)
        BY <2>1, SendersAfterWrite DEF InTx, InviteInv
  <2>3. PendingIn(invite) = {} /\ Target(s) \notin Unused
        BY <2>2 DEF Conflicting, InTx
  <2>4. sender[s].saw = {} /\ Unused # {} /\ Unused \in SUBSET Nat
        BY <1>2, <2>3, InviteNumbersAssumption DEF CommitInvite, Unused
  <2>5. \E i \in Unused : \A j \in Unused : i <= j
        BY <2>4, LeastNumber
  <2>6. Target(s) \in Unused
        BY <2>4, <2>5 DEF Target
  <2> QED BY <2>3, <2>6
<1> QED BY <1>8, <1>9, <1>10, <1>11 DEF InviteInv

\* A step of one request that leaves the rows and every running transaction alone.
LEMMA RowsKept ==
  ASSUME InviteInv, InvitationsTypeOK', UNCHANGED invite, lapsed \subseteq lapsed', ReadRows',
         \A s \in Senders : InTx(s)' => InTx(s) /\ sender'[s] = sender[s]
  PROVE  InviteInv'
<1>1. PendingIn(invite') = PendingIn(invite) /\ LiveInvites' \subseteq LiveInvites
      BY DEF PendingIn, LiveInvites
<1>2. SawAllLive'
      BY <1>1 DEF SawAllLive, InviteInv
<1>3. OneLiveInvitation'
      BY <1>1 DEF OneLiveInvitation, LiveInvites, InviteInv
<1> QED BY <1>2, <1>3 DEF InviteInv

LEMMA SenderSteps ==
  ASSUME InviteInv, NEW s \in Senders,
         \/ BeginInvite(s) \/ CommitInvite(s) \/ RefuseInvite(s)
         \/ \E role \in Roles : AllowInvite(s, role)
  PROVE  InviteInv'
<1>1. CASE CommitInvite(s)
      BY <1>1, CommitLeavesOne
<1>2. CASE BeginInvite(s)
  <2>1. /\ sender[s] # Nobody /\ sender[s] \in [at : {"allowed", "tx", "conflict"}, role : Roles,
                                               attempt : 1..Attempts, saw : SUBSET Invites]
        /\ LiveInvites \subseteq Invites
        /\ sender' = [sender EXCEPT ![s].at = "tx", ![s].saw = LiveInvites]
        /\ applied' = Nobody /\ UNCHANGED <<invite, lapsed, member, visitor, canceler>>
        BY <1>2 DEF BeginInvite, InviteInv, InvitationsTypeOK, LiveInvites, PendingIn
  <2>2. /\ sender'[s].saw = LiveInvites /\ \A t \in Senders \ {s} : sender'[t] = sender[t]
        /\ sender' \in SenderTypes
        BY <2>1 DEF InviteInv, InvitationsTypeOK, SenderTypes
  <2>3. InvitationsTypeOK' /\ ReadRows' /\ OneLiveInvitation' /\ LiveInvites' = LiveInvites
        BY <2>1, <2>2
        DEF InviteInv, InvitationsTypeOK, SenderTypes, ReadRows, OneLiveInvitation, LiveInvites
  <2>4. SawAllLive'
        BY <2>1, <2>2, <2>3 DEF SawAllLive, InTx, InviteInv, LiveInvites
  <2> QED BY <2>3, <2>4 DEF InviteInv
<1>3. CASE RefuseInvite(s)
  <2>1. /\ sender[s] # Nobody /\ sender[s] \in [at : {"allowed", "tx", "conflict"}, role : Roles,
                                               attempt : 1..Attempts, saw : SUBSET Invites]
        /\ UNCHANGED <<invite, lapsed, member, visitor, canceler>> /\ applied' = Nobody
        BY <1>3 DEF RefuseInvite, InviteInv, InvitationsTypeOK
  <2>2. CASE sender[s].attempt = Attempts
    <3>1. sender' = [sender EXCEPT ![s] = Nobody]
          BY <1>3, <2>2 DEF RefuseInvite
    <3>2. InvitationsTypeOK' /\ ReadRows'
          BY <2>1, <3>1 DEF InviteInv, InvitationsTypeOK, ReadRows
    <3>3. \A t \in Senders : InTx(t)' => InTx(t) /\ sender'[t] = sender[t]
          BY <3>1 DEF InTx, InviteInv, InvitationsTypeOK
    <3> QED BY <2>1, <3>2, <3>3, RowsKept
  <2>3. CASE sender[s].attempt # Attempts
    <3> DEFINE new == [sender[s] EXCEPT !.at = "allowed", !.attempt = @ + 1, !.saw = {}]
    <3>0. sender' = [sender EXCEPT ![s] = IF sender[s].attempt = Attempts THEN Nobody ELSE new]
          BY <1>3 DEF RefuseInvite
    <3>1. sender' = [sender EXCEPT ![s] = new]
          BY <2>3, <3>0
    <3>2. sender[s].attempt + 1 \in 1..Attempts
      <4>1. sender[s].attempt \in 1..Attempts /\ Attempts \in Nat
            BY <2>1, InviteNumbersAssumption
      <4> QED BY <2>3, <4>1
    <3>3. /\ new \in [at : {"allowed", "tx", "conflict"}, role : Roles, attempt : 1..Attempts,
                      saw : SUBSET Invites]
          /\ new.at = "allowed"
          BY <2>1, <3>2
    <3> HIDE DEF new
    <3>4. InvitationsTypeOK' /\ ReadRows'
          BY <2>1, <3>1, <3>3 DEF InviteInv, InvitationsTypeOK, ReadRows
    <3>5. \A t \in Senders : InTx(t)' => InTx(t) /\ sender'[t] = sender[t]
          BY <3>1, <3>3 DEF InTx, InviteInv, InvitationsTypeOK
    <3> QED BY <2>1, <3>4, <3>5, RowsKept
  <2> QED BY <2>2, <2>3
<1>4. ASSUME NEW role \in Roles, AllowInvite(s, role) PROVE InviteInv'
  <2>1. /\ sender' = [sender EXCEPT ![s] =
             [at |-> "allowed", role |-> role, attempt |-> 1, saw |-> {}]]
        /\ UNCHANGED <<invite, lapsed, member, visitor, canceler>> /\ applied' = Nobody
        BY <1>4 DEF AllowInvite
  <2>2. 1 \in 1..Attempts
        BY InviteNumbersAssumption
  <2>3. InvitationsTypeOK' /\ ReadRows'
        BY <2>1, <2>2 DEF InviteInv, InvitationsTypeOK, ReadRows
  <2>4. \A t \in Senders : InTx(t)' => InTx(t) /\ sender'[t] = sender[t]
        BY <2>1 DEF InTx, InviteInv, InvitationsTypeOK
  <2> QED BY <2>1, <2>3, <2>4, RowsKept
<1> QED BY <1>1, <1>2, <1>3, <1>4

LEMMA RowSteps ==
  ASSUME InviteInv, NEW i \in Invites,
         \/ LapseInvite(i) \/ ExpireLink(i) \/ \E v \in Visitors : ReadLink(v, i)
         \/ \E c \in Cancels : ReadToCancel(c, i)
  PROVE  InviteInv'
<1>1. CASE LapseInvite(i)
  <2>1. InvitationsTypeOK' /\ ReadRows' /\ lapsed \subseteq lapsed' /\ UNCHANGED <<invite, sender>>
        BY <1>1 DEF LapseInvite, InviteInv, InvitationsTypeOK, ReadRows
  <2> QED BY <2>1, RowsKept DEF InTx
<1>2. CASE ExpireLink(i)
  <2>1. /\ invite[i] # Nobody /\ SetStatus(i, "EXPIRED") /\ applied' = Nobody
        /\ UNCHANGED <<lapsed, member, visitor, canceler>>
        BY <1>2 DEF ExpireLink
  <2>2. /\ invite' \in [Invites -> Invite \cup {Nobody}] /\ sender' \in SenderTypes
        /\ \A j \in Invites : invite[j] # Nobody => invite'[j] # Nobody
        /\ SawAllLive' /\ OneLiveInvitation'
        BY <2>1, RowEnds
  <2> QED BY <2>1, <2>2 DEF InviteInv, InvitationsTypeOK, SenderTypes, ReadRows
<1>3. ASSUME NEW v \in Visitors, ReadLink(v, i) PROVE InviteInv'
  <2>1. /\ invite[i] # Nobody /\ invite[i].role \in Roles
        /\ visitor' = [visitor EXCEPT ![v] = [invite |-> i, role |-> invite[i].role]]
        /\ UNCHANGED <<invite, lapsed, member, sender, canceler>> /\ applied' = Nobody
        BY <1>3 DEF ReadLink, InviteInv, InvitationsTypeOK, Invite
  <2>2. InvitationsTypeOK' /\ ReadRows'
        BY <2>1 DEF InviteInv, InvitationsTypeOK, ReadRows
  <2> QED BY <2>1, <2>2, RowsKept DEF InTx
<1>4. ASSUME NEW c \in Cancels, ReadToCancel(c, i) PROVE InviteInv'
  <2>1. InvitationsTypeOK' /\ ReadRows' /\ UNCHANGED <<invite, lapsed, sender>>
        BY <1>4 DEF ReadToCancel, InviteInv, InvitationsTypeOK, ReadRows
  <2> QED BY <2>1, RowsKept DEF InTx
<1> QED BY <1>1, <1>2, <1>3, <1>4

LEMMA AnswerSteps ==
  ASSUME InviteInv,
         (\E v \in Visitors : AcceptLink(v)) \/ \E c \in Cancels : CancelInvite(c)
  PROVE  InviteInv'
<1>1. ASSUME NEW v \in Visitors, AcceptLink(v) PROVE InviteInv'
  <2> DEFINE i == visitor[v].invite
  <2>1. /\ i \in Invites /\ invite[i] # Nobody /\ SetStatus(i, "ACCEPTED") /\ applied' = v
        /\ visitor' = [visitor EXCEPT ![v] = Nobody]
        /\ member' = Upserted(visitor[v].role) /\ UNCHANGED <<lapsed, canceler>>
        /\ visitor[v].role \in Roles
        BY <1>1 DEF AcceptLink, InviteInv, InvitationsTypeOK, ReadRows
  <2> HIDE DEF i
  <2>2. /\ invite' \in [Invites -> Invite \cup {Nobody}] /\ sender' \in SenderTypes
        /\ \A j \in Invites : invite[j] # Nobody => invite'[j] # Nobody
        /\ SawAllLive' /\ OneLiveInvitation'
        BY <2>1, RowEnds
  <2>3. member' \in Roles \cup {Nobody}
        BY <2>1 DEF Upserted, InviteInv, InvitationsTypeOK
  <2>4. InvitationsTypeOK'
        BY <2>1, <2>2, <2>3 DEF InviteInv, InvitationsTypeOK, SenderTypes
  <2>5. ReadRows'
        BY <2>1, <2>2 DEF InviteInv, InvitationsTypeOK, ReadRows
  <2> QED BY <2>2, <2>4, <2>5 DEF InviteInv
<1>2. ASSUME NEW c \in Cancels, CancelInvite(c) PROVE InviteInv'
  <2> DEFINE i == canceler[c]
  <2>1. /\ i \in Invites /\ invite[i] # Nobody /\ SetStatus(i, "CANCELED") /\ applied' = Nobody
        /\ canceler' = [canceler EXCEPT ![c] = Nobody] /\ UNCHANGED <<lapsed, member, visitor>>
        BY <1>2 DEF CancelInvite, InviteInv, InvitationsTypeOK, ReadRows
  <2> HIDE DEF i
  <2>2. /\ invite' \in [Invites -> Invite \cup {Nobody}] /\ sender' \in SenderTypes
        /\ \A j \in Invites : invite[j] # Nobody => invite'[j] # Nobody
        /\ SawAllLive' /\ OneLiveInvitation'
        BY <2>1, RowEnds
  <2>3. InvitationsTypeOK'
        BY <2>1, <2>2 DEF InviteInv, InvitationsTypeOK, SenderTypes
  <2>4. ReadRows'
        BY <2>1, <2>2 DEF InviteInv, InvitationsTypeOK, ReadRows
  <2> QED BY <2>2, <2>3, <2>4 DEF InviteInv
<1> QED BY <1>1, <1>2

LEMMA StepInvites == InviteInv /\ [InvitationsNext]_inviteVars => InviteInv'
<1> SUFFICES ASSUME InviteInv, [InvitationsNext]_inviteVars PROVE InviteInv'
    OBVIOUS
<1>1. ASSUME NEW role \in Roles \cup {Nobody}, ChangeMember(role) PROVE InviteInv'
  <2>1. InvitationsTypeOK' /\ ReadRows' /\ UNCHANGED <<invite, lapsed, sender>>
        BY <1>1 DEF ChangeMember, InviteInv, InvitationsTypeOK, ReadRows
  <2> QED BY <2>1, RowsKept DEF InTx
<1>2. CASE UNCHANGED inviteVars
  <2>1. InvitationsTypeOK' /\ ReadRows' /\ UNCHANGED <<invite, lapsed, sender>>
        BY <1>2 DEF inviteVars, InviteInv, InvitationsTypeOK, ReadRows
  <2> QED BY <2>1, RowsKept DEF InTx
<1> QED BY <1>1, <1>2, SenderSteps, RowSteps, AnswerSteps DEF InvitationsNext

\* For any number of senders, links and cancels: the address holds at most one link that
\* works.
THEOREM OneLiveInvitationHolds == InvitationsSpec => []OneLiveInvitation
<1>1. InviteInv => OneLiveInvitation
      BY DEF InviteInv
<1> QED BY <1>1, InitInvites, StepInvites, PTL DEF InvitationsSpec

LEMMA LinkPromotes ==
  ASSUME InviteInv, [InvitationsNext]_inviteVars
  PROVE  [applied' # Nobody => Rank(member') >= Rank(member)]_inviteVars
<1> SUFFICES ASSUME applied' # Nobody, ~UNCHANGED inviteVars
             PROVE  Rank(member') >= Rank(member)
    OBVIOUS
<1>1. PICK v \in Visitors : AcceptLink(v)
      BY DEF InvitationsNext, BeginInvite, CommitInvite, RefuseInvite, AllowInvite, LapseInvite,
         ExpireLink, ReadLink, ReadToCancel, CancelInvite, ChangeMember
<1>2. /\ member' = Upserted(visitor[v].role) /\ visitor[v].role \in Roles
      /\ member \in Roles \cup {Nobody}
      BY <1>1 DEF AcceptLink, InviteInv, InvitationsTypeOK
<1> QED BY <1>2, NobodyAssumption DEF Upserted, Rank, Roles

\* No link, however late it is applied, takes a role away from a member.
THEOREM LinksOnlyPromoteHolds == InvitationsSpec => LinksOnlyPromote
  BY InitInvites, StepInvites, LinkPromotes, PTL DEF InvitationsSpec, LinksOnlyPromote

-----------------------------------------------------------------------------
(* Uploads: the session decides between the version and the cleanup.  It   *)
(* leaves INITIATED once; what deletes the object has taken it to another  *)
(* status than FINALIZED, or found an object that could not become a       *)
(* version.                                                                *)

UploadTypes ==
  /\ admission \in [Uploads -> {"idle", "checked", "reserved", "answered", "refused"}]
  /\ hold \in [Uploads -> {"none", "live", "lapsed"}]
  /\ session \in [Uploads -> {"none", "INITIATED", "FINALIZED", "CANCELLED"}]
  /\ expired \subseteq Uploads
  /\ object \in [Uploads -> {"none", "there", "deleted"}]
  /\ completion \in [Uploads -> {"idle", "read", "failed", "cancelled", "over"}]
  /\ cleanup \in [Uploads -> {"idle", "read", "cancelled", "deleted", "over"}]
  /\ final \in [Finals -> [upload : Uploads \cup {NoUpload},
                           at : {"idle", "found", "checked", "rejected", "deleting", "over"}]]
  /\ versions \in [Uploads -> Nat]

\* The session opens last, and the object comes after it: at once, or when the parts
\* are completed.
OneSession ==
  \A u \in Uploads :
    /\ session[u] # "none" <=> admission[u] = "answered"
    /\ object[u] # "none" => session[u] # "none"
    /\ cleanup[u] # "idle" => session[u] # "none"
    /\ completion[u] # "idle" => u \in Multipart /\ session[u] # "none"
    /\ u \in Multipart /\ completion[u] # "over" => object[u] = "none"

\* Who deletes: a cleanup that has canceled the session, or a request that has refused
\* what it found.
Deleting ==
  /\ \A u \in Uploads : cleanup[u] \in {"cancelled", "deleted"} => session[u] = "CANCELLED"
  /\ \A u \in Uploads : object[u] = "deleted" => session[u] = "CANCELLED" \/ session[u] = "FINALIZED"
  /\ \A f \in Finals :
       LET u == final[f].upload
       IN final[f].at # "idle" =>
            /\ u \in Uploads /\ session[u] # "none" /\ object[u] # "none"
            /\ final[f].at = "checked" => u \notin Invalid
            /\ final[f].at \in {"rejected", "deleting"} => u \in Invalid \/ object[u] = "deleted"
            /\ final[f].at = "deleting" => session[u] # "INITIATED"

OneVersion ==
  \A u \in Uploads :
    /\ versions[u] = IF session[u] = "FINALIZED" THEN 1 ELSE 0
    /\ session[u] = "FINALIZED" =>
         u \notin Invalid /\ hold[u] = "none" /\ object[u] = "there" /\ Finals # {}

UploadInv == UploadTypes /\ OneSession /\ Deleting /\ OneVersion

LEMMA InitUploads == UploadsInit => UploadInv
  BY DEF UploadsInit, UploadInv, UploadTypes, OneSession, Deleting, OneVersion

LEMMA AdmissionSteps ==
  ASSUME UploadInv, NEW u \in Uploads,
         \/ EnforceQuota(u) \/ ReserveQuota(u) \/ FailPresign(u) \/ FailSession(u)
         \/ OpenSession(u) \/ LapseHold(u) \/ ExpireSession(u)
  PROVE  UploadInv'
<1> USE DEF UploadInv, UploadTypes, OneSession, Deleting, OneVersion
<1>1. CASE EnforceQuota(u)
      BY <1>1 DEF EnforceQuota
<1>2. CASE ReserveQuota(u)
  <2>1. /\ session[u] = "none" /\ admission' \in {[admission EXCEPT ![u] = "reserved"],
                                                [admission EXCEPT ![u] = "refused"]}
        /\ hold' \in {hold, [hold EXCEPT ![u] = "live"]}
        /\ UNCHANGED <<session, expired, object, completion, cleanup, final, versions>>
        BY <1>2 DEF ReserveQuota
  <2> QED BY <2>1
<1>3. CASE FailPresign(u)
      BY <1>3 DEF FailPresign
<1>4. CASE FailSession(u)
      BY <1>4 DEF FailSession
<1>5. CASE OpenSession(u)
      BY <1>5 DEF OpenSession
<1>6. CASE LapseHold(u)
      BY <1>6 DEF LapseHold
<1>7. CASE ExpireSession(u)
      BY <1>7 DEF ExpireSession
<1> QED BY <1>1, <1>2, <1>3, <1>4, <1>5, <1>6, <1>7

LEMMA StorageSteps ==
  ASSUME UploadInv, NEW u \in Uploads,
         \/ PutObject(u) \/ ReadToComplete(u) \/ CompleteParts(u) \/ FailParts(u)
         \/ CancelFailed(u) \/ ReleaseFailed(u)
  PROVE  UploadInv'
<1> USE DEF UploadInv, UploadTypes, OneSession, Deleting, OneVersion
<1>1. CASE PutObject(u)
      BY <1>1 DEF PutObject
<1>2. CASE ReadToComplete(u)
      BY <1>2 DEF ReadToComplete, Open
<1>3. CASE CompleteParts(u)
      BY <1>3 DEF CompleteParts
<1>4. CASE FailParts(u)
      BY <1>4 DEF FailParts
<1>5. CASE CancelFailed(u)
      BY <1>5 DEF CancelFailed, Cancelled
<1>6. CASE ReleaseFailed(u)
      BY <1>6 DEF ReleaseFailed
<1> QED BY <1>1, <1>2, <1>3, <1>4, <1>5, <1>6

LEMMA CleanupSteps ==
  ASSUME UploadInv, NEW u \in Uploads,
         ReadToCleanUp(u) \/ CancelSession(u) \/ DeleteObject(u) \/ ReleaseHold(u)
  PROVE  UploadInv'
<1> USE DEF UploadInv, UploadTypes, OneSession, Deleting, OneVersion
<1>1. CASE ReadToCleanUp(u)
      BY <1>1 DEF ReadToCleanUp, Open
<1>2. CASE CancelSession(u)
      BY <1>2 DEF CancelSession, Cancelled
<1>3. CASE DeleteObject(u)
      BY <1>3 DEF DeleteObject
<1>4. CASE ReleaseHold(u)
      BY <1>4 DEF ReleaseHold
<1> QED BY <1>1, <1>2, <1>3, <1>4

LEMMA FinalizeSteps ==
  ASSUME UploadInv, NEW f \in Finals,
         \/ CheckObject(f) \/ RejectUpload(f) \/ DeleteRejected(f) \/ MakeVersion(f)
         \/ \E u \in Uploads : FindSession(f, u)
  PROVE  UploadInv'
<1> USE DEF UploadInv, UploadTypes, OneSession, Deleting, OneVersion
<1>1. ASSUME NEW u \in Uploads, FindSession(f, u) PROVE UploadInv'
      BY <1>1 DEF FindSession, Open
<1>2. CASE CheckObject(f)
      BY <1>2 DEF CheckObject
<1>3. CASE RejectUpload(f)
      BY <1>3 DEF RejectUpload, Cancelled
<1>4. CASE DeleteRejected(f)
      BY <1>4 DEF DeleteRejected
<1>5. CASE MakeVersion(f)
  <2>1. CASE session[final[f].upload] = "INITIATED"
        BY <1>5, <2>1 DEF MakeVersion
  <2>2. CASE session[final[f].upload] # "INITIATED"
        BY <1>5, <2>2 DEF MakeVersion
  <2> QED BY <2>1, <2>2
<1> QED BY <1>1, <1>2, <1>3, <1>4, <1>5

LEMMA StepUploads == UploadInv /\ [UploadsNext]_uploadVars => UploadInv'
<1> SUFFICES ASSUME UploadInv, [UploadsNext]_uploadVars PROVE UploadInv'
    OBVIOUS
<1>1. CASE UNCHANGED uploadVars
      BY <1>1 DEF uploadVars, UploadInv, UploadTypes, OneSession, Deleting, OneVersion
<1> QED BY <1>1, AdmissionSteps, StorageSteps, CleanupSteps, FinalizeSteps DEF UploadsNext

\* The variables of the uploads keep their types: an upload has no more versions than there
\* are requests that finalize.
THEOREM UploadsTypeCorrect == UploadsSpec => []UploadsTypeOK
<1>1. ASSUME UploadInv PROVE UploadsTypeOK
  <2>1. Finals # {} => Cardinality(Finals) \in Nat \ {0}
        BY FiniteAssumption, FS_CardinalityType, FS_EmptySet
  <2>2. Cardinality(Finals) \in Nat
        BY FiniteAssumption, FS_CardinalityType
  <2>3. versions \in [Uploads -> 0..Cardinality(Finals)]
        BY <1>1, <2>1, <2>2 DEF UploadInv, UploadTypes, OneVersion
  <2> QED BY <1>1, <2>3 DEF UploadInv, UploadTypes, UploadsTypeOK
<1> QED BY <1>1, InitUploads, StepUploads, PTL DEF UploadsSpec

\* For any number of uploads and of requests that finalize and clean them up: an upload
\* becomes one version or none, and a version keeps its object.
THEOREM UploadBecomesOneVersionHolds == UploadsSpec => []UploadBecomesOneVersion
<1>1. UploadInv => UploadBecomesOneVersion
      BY DEF UploadInv, OneVersion, UploadBecomesOneVersion, UploadTypes
<1> QED BY <1>1, InitUploads, StepUploads, PTL DEF UploadsSpec

-----------------------------------------------------------------------------
(* The room of the account.  While the session is open the upload is held: *)
(* the hold may have lapsed, but nobody has released it.  So making a      *)
(* version takes no more room than the hold did, unless it had lapsed.     *)

HeldWhileOpen ==
  \A u \in Uploads :
    /\ admission[u] = "reserved" \/ session[u] = "INITIATED" => hold[u] # "none"
    /\ completion[u] = "cancelled" => session[u] # "INITIATED"

QuotaInv == UploadInv /\ HeldWhileOpen

Stored == [u \in Uploads |-> IF session[u] = "FINALIZED" THEN Size[u] ELSE 0]
Reserved == [u \in Uploads |-> IF hold[u] = "live" THEN Size[u] ELSE 0]

LEMMA InitHeld == UploadsInit => HeldWhileOpen
  BY DEF UploadsInit, HeldWhileOpen

LEMMA AdmissionHolds ==
  ASSUME QuotaInv, NEW u \in Uploads,
         \/ EnforceQuota(u) \/ ReserveQuota(u) \/ FailPresign(u) \/ FailSession(u)
         \/ OpenSession(u) \/ LapseHold(u) \/ ExpireSession(u)
  PROVE  HeldWhileOpen'
<1> USE DEF QuotaInv, HeldWhileOpen, UploadInv, UploadTypes, OneSession
<1>1. CASE EnforceQuota(u)
      BY <1>1 DEF EnforceQuota
<1>2. CASE ReserveQuota(u)
  <2>1. /\ session[u] = "none"
        /\ \/ admission' = [admission EXCEPT ![u] = "reserved"] /\ hold' = [hold EXCEPT ![u] = "live"]
           \/ admission' = [admission EXCEPT ![u] = "refused"] /\ hold' = hold
        /\ UNCHANGED <<session, completion>>
        BY <1>2 DEF ReserveQuota
  <2> QED BY <2>1
<1>3. CASE FailPresign(u)
      BY <1>3 DEF FailPresign
<1>4. CASE FailSession(u)
      BY <1>4 DEF FailSession
<1>5. CASE OpenSession(u)
      BY <1>5 DEF OpenSession
<1>6. CASE LapseHold(u)
      BY <1>6 DEF LapseHold
<1>7. CASE ExpireSession(u)
      BY <1>7 DEF ExpireSession
<1> QED BY <1>1, <1>2, <1>3, <1>4, <1>5, <1>6, <1>7

LEMMA RequestsHold ==
  ASSUME QuotaInv, NEW u \in Uploads,
         \/ PutObject(u) \/ ReadToComplete(u) \/ CompleteParts(u) \/ FailParts(u)
         \/ CancelFailed(u) \/ ReleaseFailed(u)
         \/ ReadToCleanUp(u) \/ CancelSession(u) \/ DeleteObject(u) \/ ReleaseHold(u)
  PROVE  HeldWhileOpen'
<1> USE DEF QuotaInv, HeldWhileOpen, UploadInv, UploadTypes, OneSession, Deleting
<1>1. CASE PutObject(u) \/ CompleteParts(u) \/ FailParts(u)
      BY <1>1 DEF PutObject, CompleteParts, FailParts
<1>2. CASE ReadToComplete(u) \/ ReadToCleanUp(u) \/ DeleteObject(u)
      BY <1>2 DEF ReadToComplete, ReadToCleanUp, DeleteObject
<1>3. CASE CancelFailed(u)
      BY <1>3 DEF CancelFailed, Cancelled
<1>4. CASE ReleaseFailed(u)
      BY <1>4 DEF ReleaseFailed
<1>5. CASE CancelSession(u)
      BY <1>5 DEF CancelSession, Cancelled
<1>6. CASE ReleaseHold(u)
      BY <1>6 DEF ReleaseHold
<1> QED BY <1>1, <1>2, <1>3, <1>4, <1>5, <1>6

LEMMA FinalizingHolds ==
  ASSUME QuotaInv, NEW f \in Finals,
         \/ CheckObject(f) \/ RejectUpload(f) \/ DeleteRejected(f) \/ MakeVersion(f)
         \/ \E u \in Uploads : FindSession(f, u)
  PROVE  HeldWhileOpen'
<1> USE DEF QuotaInv, HeldWhileOpen, UploadInv, UploadTypes, OneSession, Deleting
<1>1. CASE CheckObject(f) \/ DeleteRejected(f) \/ \E u \in Uploads : FindSession(f, u)
      BY <1>1 DEF CheckObject, DeleteRejected, FindSession
<1>2. CASE RejectUpload(f)
      BY <1>2 DEF RejectUpload, Cancelled
<1>3. CASE MakeVersion(f)
      BY <1>3 DEF MakeVersion
<1> QED BY <1>1, <1>2, <1>3

LEMMA StepQuota == QuotaInv /\ [UploadsNext]_uploadVars => QuotaInv'
<1> SUFFICES ASSUME QuotaInv, [UploadsNext]_uploadVars PROVE HeldWhileOpen'
    BY StepUploads DEF QuotaInv
<1>1. CASE UNCHANGED uploadVars
      BY <1>1 DEF uploadVars, QuotaInv, HeldWhileOpen
<1> QED BY <1>1, AdmissionHolds, RequestsHold, FinalizingHolds DEF UploadsNext

\* What the account uses, without the product.
LEMMA UsedIsStoredAndHeld == UploadInv => UsedBytes = SumFunction(Stored) + SumFunction(Reserved)
<1> SUFFICES ASSUME UploadInv PROVE [u \in Uploads |-> Size[u] * versions[u]] = Stored
    BY DEF UsedBytes, Reserved
<1>1. ASSUME NEW u \in Uploads PROVE Size[u] * versions[u] = Stored[u]
  <2>1. Size[u] \in Nat /\ versions[u] = IF session[u] = "FINALIZED" THEN 1 ELSE 0
        BY SizeAssumption DEF UploadInv, OneVersion
  <2>2. Size[u] * 1 = Size[u] /\ Size[u] * 0 = 0
        BY <2>1
  <2> QED BY <2>1, <2>2 DEF Stored
<1> QED BY <1>1 DEF Stored

LEMMA UsedIsStoredAndHeldNext == (UploadInv => UsedBytes = SumFunction(Stored) + SumFunction(Reserved))'
  BY UsedIsStoredAndHeld, PTL

\* A step that only moves one hold changes what is used by the size of that hold.
LEMMA HoldMoves ==
  ASSUME UploadInv, UploadInv', NEW u \in Uploads, NEW h \in {"none", "live", "lapsed"},
         hold' = [hold EXCEPT ![u] = h], Stored' = Stored
  PROVE  /\ UsedBytes \in Nat /\ UsedBytes' \in Nat
         /\ UsedBytes' + Reserved[u] = UsedBytes + (IF h = "live" THEN Size[u] ELSE 0)
<1>1. Reserved \in [Uploads -> Nat] /\ Stored \in [Uploads -> Nat] /\ Size[u] \in Nat
      BY SizeAssumption DEF Reserved, Stored
<1> DEFINE n == IF h = "live" THEN Size[u] ELSE 0
<1>2. Reserved' = [Reserved EXCEPT ![u] = n]
      BY DEF Reserved, UploadInv, UploadTypes
<1>3. SumFunction(Stored) \in Nat
      BY <1>1, SumNat, FiniteAssumption
<1>4. /\ SumFunction(Reserved) \in Nat /\ SumFunction(Reserved') \in Nat
      /\ SumFunction(Reserved') + Reserved[u] = SumFunction(Reserved) + n
  <2>1. Reserved' \in [Uploads -> Nat] /\ Reserved'[u] = n /\ \A v \in Uploads \ {u} : Reserved'[v] = Reserved[v]
        BY <1>1, <1>2
  <2> QED BY <1>1, <2>1, SumNat, SumChange, FiniteAssumption
<1>5. /\ UsedBytes = SumFunction(Stored) + SumFunction(Reserved)
      /\ UsedBytes' = SumFunction(Stored') + SumFunction(Reserved')
      BY UsedIsStoredAndHeld, UsedIsStoredAndHeldNext
<1>6. Reserved[u] \in Nat /\ n \in Nat
      BY <1>1
<1> QED BY <1>3, <1>4, <1>5, <1>6

\* A step of the quota: what it may do to the room that is used.
Overfills == UsedBytes' > UsedBytes /\ UsedBytes' >= Limit

LEMMA AdmissionFits ==
  ASSUME QuotaInv, QuotaInv', NEW u \in Uploads,
         ReserveQuota(u) \/ FailPresign(u) \/ LapseHold(u) \/ ReleaseFailed(u) \/ ReleaseHold(u)
  PROVE  ~Overfills
<1>1. Stored' = Stored
      BY DEF Stored, ReserveQuota, FailPresign, LapseHold, ReleaseFailed, ReleaseHold
<1>2. Reserved[u] \in Nat /\ Size[u] \in Nat /\ Limit \in Nat
      BY SizeAssumption DEF Reserved
<1>3. CASE hold' = hold
  <2>1. Reserved' = Reserved
        BY <1>3 DEF Reserved
  <2>2. UsedBytes' = UsedBytes /\ UsedBytes \in Nat
    <3>1. UploadInv /\ UploadInv'
          BY DEF QuotaInv
    <3>2. hold' = [hold EXCEPT ![u] = hold[u]] /\ hold[u] \in {"none", "live", "lapsed"}
          BY <1>3, <3>1 DEF UploadInv, UploadTypes
    <3>3. UsedBytes \in Nat
          BY <1>1, <3>1, <3>2, HoldMoves
    <3> QED BY <1>1, <2>1, <3>1, <3>3, UsedIsStoredAndHeld, UsedIsStoredAndHeldNext
  <2> QED BY <2>2 DEF Overfills
<1>4. ASSUME NEW h \in {"none", "lapsed"}, hold' = [hold EXCEPT ![u] = h] PROVE ~Overfills
  <2>1. /\ UsedBytes \in Nat /\ UsedBytes' \in Nat
        /\ UsedBytes' + Reserved[u] = UsedBytes + 0
        BY <1>1, <1>4, HoldMoves DEF QuotaInv
  <2> QED BY <1>2, <2>1 DEF Overfills
<1>5. CASE ReserveQuota(u) /\ Fits(u) /\ hold' = [hold EXCEPT ![u] = "live"]
  <2>1. /\ UsedBytes \in Nat /\ UsedBytes' \in Nat
        /\ UsedBytes' + Reserved[u] = UsedBytes + Size[u]
        BY <1>1, <1>5, HoldMoves DEF QuotaInv
  <2> QED BY <1>2, <1>5, <2>1 DEF Overfills, Fits
<1> QED BY <1>3, <1>4, <1>5 DEF ReserveQuota, FailPresign, LapseHold, ReleaseFailed, ReleaseHold

\* The version takes the room of its hold: as much, if the hold was live.
LEMMA VersionFits ==
  ASSUME QuotaInv, QuotaInv', NEW f \in Finals, MakeVersion(f), Overfills
  PROVE  \E u \in Uploads : hold[u] = "lapsed" /\ versions'[u] > versions[u]
<1> DEFINE u == final[f].upload
<1>0. UploadInv /\ UploadInv' /\ u \in Uploads /\ versions[u] \in Nat
      BY DEF QuotaInv, MakeVersion, UploadInv, UploadTypes, Deleting
<1> SUFFICES ASSUME session[u] = "INITIATED", hold[u] = "live" PROVE FALSE
  <2>1. CASE session[u] # "INITIATED"
    <3>1. UNCHANGED <<session, hold, versions>>
          BY <2>1 DEF MakeVersion
    <3>2. UsedBytes' = UsedBytes
          BY <3>1 DEF UsedBytes
    <3>3. UsedBytes \in Nat
      <4>1. hold' = [hold EXCEPT ![u] = hold[u]] /\ hold[u] \in {"none", "live", "lapsed"} /\ Stored' = Stored
            BY <1>0, <3>1 DEF UploadInv, UploadTypes, Stored
      <4> QED BY <1>0, <4>1, HoldMoves
    <3> QED BY <3>2, <3>3 DEF Overfills
  <2>2. CASE session[u] = "INITIATED" /\ hold[u] = "lapsed"
    <3>1. versions'[u] = versions[u] + 1
          BY <1>0, <2>2 DEF MakeVersion, UploadInv, UploadTypes
    <3> QED BY <1>0, <2>2, <3>1
  <2>3. session[u] = "INITIATED" => hold[u] \in {"live", "lapsed"}
        BY <1>0 DEF QuotaInv, HeldWhileOpen, UploadInv, UploadTypes
  <2> QED BY <2>1, <2>2, <2>3
<1>1. session' = [session EXCEPT ![u] = "FINALIZED"] /\ hold' = [hold EXCEPT ![u] = "none"]
      BY DEF MakeVersion
<1>2. Reserved \in [Uploads -> Nat] /\ Stored \in [Uploads -> Nat] /\ Size[u] \in Nat
      BY <1>0, SizeAssumption DEF Reserved, Stored
<1>3. /\ Reserved[u] = Size[u] /\ Stored[u] = 0 /\ Reserved'[u] = 0 /\ Stored'[u] = Size[u]
      /\ \A v \in Uploads \ {u} : Reserved'[v] = Reserved[v] /\ Stored'[v] = Stored[v]
      BY <1>0, <1>1 DEF Reserved, Stored, UploadInv, UploadTypes
<1>4. Reserved' \in [Uploads -> Nat] /\ Stored' \in [Uploads -> Nat]
      BY SizeAssumption DEF Reserved, Stored
<1>5. /\ SumFunction(Reserved) \in Nat /\ SumFunction(Reserved') \in Nat
      /\ SumFunction(Reserved') + Size[u] = SumFunction(Reserved) + 0
      BY <1>0, <1>2, <1>3, <1>4, SumNat, SumChange, FiniteAssumption
<1>6. /\ SumFunction(Stored) \in Nat /\ SumFunction(Stored') \in Nat
      /\ SumFunction(Stored') + 0 = SumFunction(Stored) + Size[u]
      BY <1>0, <1>2, <1>3, <1>4, SumNat, SumChange, FiniteAssumption
<1>7. /\ UsedBytes = SumFunction(Stored) + SumFunction(Reserved)
      /\ UsedBytes' = SumFunction(Stored') + SumFunction(Reserved')
      BY <1>0, UsedIsStoredAndHeld, UsedIsStoredAndHeldNext
<1>8. ~(UsedBytes' > UsedBytes)
      BY <1>2, <1>5, <1>6, <1>7
<1> QED BY <1>8 DEF Overfills

LEMMA StepFits ==
  ASSUME QuotaInv, QuotaInv', [UploadsNext]_uploadVars, Overfills
  PROVE  \E u \in Uploads : hold[u] = "lapsed" /\ versions'[u] > versions[u]
<1>1. ~(UNCHANGED <<hold, versions>>)
  <2> SUFFICES ASSUME UNCHANGED <<hold, versions>> PROVE ~(UsedBytes' > UsedBytes)
      BY DEF Overfills
  <2>1. UsedBytes' = UsedBytes
        BY DEF UsedBytes
  <2>2. UsedBytes \in Nat
    <3>1. Reserved \in [Uploads -> Nat] /\ Stored \in [Uploads -> Nat]
          BY SizeAssumption DEF Reserved, Stored
    <3> QED BY <3>1, UsedIsStoredAndHeld, SumNat, FiniteAssumption DEF QuotaInv
  <2> QED BY <2>1, <2>2
<1>2. CASE \E u \in Uploads : \/ ReserveQuota(u) \/ FailPresign(u) \/ LapseHold(u)
                              \/ ReleaseFailed(u) \/ ReleaseHold(u)
      BY <1>2, AdmissionFits
<1>3. CASE \E f \in Finals : MakeVersion(f)
      BY <1>3, VersionFits
<1> QED BY <1>1, <1>2, <1>3
        DEF UploadsNext, uploadVars, EnforceQuota, FailSession, OpenSession, ExpireSession,
            PutObject, ReadToComplete, CompleteParts, FailParts, CancelFailed, ReadToCleanUp,
            CancelSession, DeleteObject, FindSession, CheckObject, RejectUpload, DeleteRejected

\* For any number of uploads and of requests side by side: the account goes over its
\* limit only by a version whose hold had lapsed.
THEOREM OnlyLateUploadsOverfillHolds == UploadsSpec => OnlyLateUploadsOverfill
<1>1. QuotaInv /\ QuotaInv' /\ [UploadsNext]_uploadVars /\ Overfills
        => \E u \in Uploads : hold[u] = "lapsed" /\ versions'[u] > versions[u]
      BY StepFits
<1>2. QuotaInv /\ QuotaInv' /\ [UploadsNext]_uploadVars
        => [UsedBytes' > UsedBytes /\ UsedBytes' >= Limit =>
              \E u \in Uploads : hold[u] = "lapsed" /\ versions'[u] > versions[u]]_uploadVars
      BY <1>1 DEF Overfills
<1>3. UploadsInit => QuotaInv
      BY InitUploads, InitHeld DEF QuotaInv
<1> QED BY <1>2, <1>3, StepQuota, PTL DEF UploadsSpec, OnlyLateUploadsOverfill
=============================================================================
