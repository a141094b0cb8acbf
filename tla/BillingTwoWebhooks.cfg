\* One subscription, two deliveries of its events at once.
SPECIFICATION BillingSpec
CONSTANTS
  Subs = {1}
  Customers = {c1}
  Webhooks = {w1, w2}
  Checkouts = {k1}
  TrialDays = 1
  Horizon = 1
  MaxEvents = 1
  NoValue = NoValue
INVARIANT SubscriptionDecides
CHECK_DEADLOCK FALSE
