CONSTANTS
  h1 = h1
  h2 = h2
  Handler = {h1, h2}
  Subscription <- MCSubscription
  Attributes <- MCAttributes
  Capacity = 1
  MaxEvents = 3
SPECIFICATION ServerSpec
INVARIANTS TypeOK SendsAreSafe Delivery
PROPERTIES BroadcastsReturn GoneIsForgotten ShutdownReturns
CHECK_DEADLOCK FALSE
