SPECIFICATION Spec
CONSTANTS
  Threads = {t1, t2, t3}
  Articles = {a1, a2}
  Locks = {l1, l2, l3, l4, l5}
  NoLock = none
  NoThread = nobody
  NoArticle = nothing
  MaxLocks = 1
  MaxMessages = 2
INVARIANT MutualExclusion
CHECK_DEADLOCK FALSE
