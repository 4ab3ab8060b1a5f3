SPECIFICATION Spec
CONSTANTS
  Users = {u1, u2}
  Seen = {u1}
  Perms = {p}
  Unknown = bad
  Logins = {l1, l2}
  Updates = {a1, a2}
  Seed = seed
  NoKey = nokey
SYMMETRY RequestSymmetry
CHECK_DEADLOCK FALSE
INVARIANTS
  RevokedStaysRevoked
  FreshPermissions
  NoSpuriousRefusal
