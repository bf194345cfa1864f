SPECIFICATION Spec
INVARIANTS
  ShippedConfigLoads
CHECK_DEADLOCK FALSE
