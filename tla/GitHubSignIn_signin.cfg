CONSTANTS
  Thread = {t1}
  Loader = {l1}
  Daemon = Daemon
  MaxGrants = 2
SPECIFICATION Spec
INVARIANTS RefreshedAutomatically
CHECK_DEADLOCK FALSE
