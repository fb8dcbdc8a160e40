CONSTANTS
  k1 = k1
  k2 = k2
  Thread = {t1, t2, t3}
  Key = {k1, k2}
  Value = {v1}
  NULL = NULL
  N_BUCKETS = 2
  get_hash <- CollidingHash
SPECIFICATION FairSpec
INVARIANTS TypeOK MapWhole IteratorValid
PROPERTIES ImplementsAtomicMap CallsKeepReturning
