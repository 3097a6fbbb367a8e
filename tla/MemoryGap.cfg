SPECIFICATION Spec
CONSTANTS
  k1 = k1
  k2 = k2
  k3 = k3
  f = f
  s = s
  Nil = Nil
  Threads = {1, 2}
  Calls <- WriterAndLister
  Kinds = {f, s}
  Keys = {k1}
  KindOf <- TwoKinds
  Versions = {1, 2}
  Cells = {c1, c2, c3}
  Gap = TRUE
INVARIANT AssociatedAlive
