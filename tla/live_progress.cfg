\* One worker and two requests at a time, which conflict, and fairness.
CONSTANTS
  p1 = p1
  p2 = p2
  w1 = w1
  w2 = w2
  h1 = h1
  h2 = h2
  c1 = c1
  NoContact = NoContact
  Contacts = {c1}
  ContactOf <- OneContact
  Registered = {p1, p2}
  Payments = {p1, p2}
  Escalating = {p2}
  PaidLater = {p1}
  Workers = {w1}
  Handlers = {h1, h2}
  MaxFailures = 1
  CountLimit = 0
SPECIFICATION FairSpec
PROPERTIES
  EveryCaseEnds
  EveryFailureGetsItsCase
