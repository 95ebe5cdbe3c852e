CONSTANTS
  t1 = t1
  t2 = t2
  b1 = b1
  b2 = b2
  n1 = n1
  n2 = n2
  Null = Null
  Threads = {t1, t2}
  Blocks = {b1, b2}
  Sizes = {n1}
  Layout <- MCOneLayout
  Bits = 1
  MaxHeld = 2
SPECIFICATION Spec
INVARIANT NoDoubleAllocation
