SPECIFICATION Spec
CONSTANTS
  c1 = c1
  c2 = c2
  s1 = s1
  Nil = Nil
  Slots = {1, 2}
  Statics <- MCStatics
  Clients <- MCClients
  Careless = {}
  Periods = {1, 2}
  TickMs = 2
  MaxStep = 2
  MaxSleep = 4
  MaxOps = 2
SYMMETRY SymClients
INVARIANTS PoolSound NothingCancelledFires NoneSkipped NotEarly
PROPERTIES NearestIsLeast CancelsOwn
