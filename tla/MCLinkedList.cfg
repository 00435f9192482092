SPECIFICATION Spec
CONSTANTS
  LISTS = {unscheduled, scheduled}
  ADDRS = {a1, a2, a3, a4}
  DATA = {t1, t2}
  NULL = NULL
INVARIANT RingWellFormed
INVARIANT HeapPartitioned
PROPERTY ImplementsAbstractLists
PROPERTY EachFunctionImplementsItsOperation
