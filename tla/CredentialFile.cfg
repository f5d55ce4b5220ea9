SPECIFICATION Spec
CONSTANTS
  Procs = {p1, p2}
  Profiles = {work, home}
  MaxGen = 1
  Inodes = {i1, i2, i3, i4}
  Nothing = Nothing
  Temps = {t1}
SYMMETRY Symmetry
INVARIANT TypeOK
INVARIANT OneHolder
INVARIANT NeverTorn
PROPERTY ImplementsStore
CHECK_DEADLOCK FALSE
