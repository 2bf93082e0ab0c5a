SPECIFICATION Spec
CONSTANTS
  t1 = t1
  t2 = t2
  home = home
  away = away
SYMMETRY Symmetry
INVARIANT PasswordVerifies
INVARIANT KeyPairIsStable
INVARIANT IdentityIsKept
INVARIANT UnpairedMeansGone
INVARIANT FilesAreGenuine
INVARIANT SettingsAreCurrent
CHECK_DEADLOCK FALSE
