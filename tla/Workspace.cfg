SPECIFICATION Spec
CONSTANTS
  Request = {r1, r2}
  Project = {p1}
  Cluster = {c1}
  Node = {n1}
  Host = {h1}
  Password = {x}
  Key = {k1, k2}
  NoKey = nokey
  MaxUpdates = 5
INVARIANTS FileWhole PasswordsSealed
PROPERTIES CommitsExactly StoreAtomic
SYMMETRY Symmetry
