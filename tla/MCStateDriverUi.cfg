SPECIFICATION Spec
CONSTANTS
  Tabs = {t1}
  Conns = {c1}
  NoConn = NoConn
  Topics = {plain, composed}
  Composed = {composed}
  Entities = {e1}
  MaxEdits = 1
INVARIANT SubsetOfSubscription
