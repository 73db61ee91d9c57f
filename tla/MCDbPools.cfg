SPECIFICATION Spec
CONSTANTS
  c1 = c1
  c2 = c2
  c3 = c3
  c4 = c4
  Connectors = {c1, c2, c3, c4}
  Queries = {q1, q2}
  NoConnector = NoConnector
  Driver <- MCDriver
  Max <- MCMax
INVARIANTS ConnectionsAreReturned
PROPERTIES PoolsGoOn
