\* One worker, two requests at a time, one case that needs a human.
CONSTANTS
  p1 = p1
  p2 = p2
  w1 = w1
  w2 = w2
  h1 = h1
  h2 = h2
  c1 = c1
  NoContact = NoContact
  Contacts = {c1}
  ContactOf <- OneContact
  Registered = {p1, p2}
  Payments = {p1, p2}
  Escalating = {p2}
  PaidLater = {p1, p2}
  Workers = {w1}
  Handlers = {h1, h2}
  MaxFailures = 1
  CountLimit = 2
SPECIFICATION Spec
SYMMETRY Symmetry
INVARIANTS
  RecoveredMeansPaid
  AcceptedFailureHasCase
  AttemptedOnce
