SPECIFICATION Spec
CONSTANTS
  BaseDelay = 5
  MaxDelay = 5
  p1 = p1
  p2 = p2
  n1 = n1
  n2 = n2
  a = a
  b = b
  NoMethod = NoMethod
  Methods = {a, b}
  ProvideOps = {p1, p2}
  NotifyOps = {n1, n2}
  MethodOf <- MCMethodOf
INVARIANTS
  ProviderIsRouted
  SubscriptionIsRoutedUnlessRefused
CHECK_DEADLOCK FALSE
