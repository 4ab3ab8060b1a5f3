SPECIFICATION Spec
CONSTANTS
  Users = {u1}
  Tenants = {t1}
  t1 = t1
  Home <- OneHome
  Words = {w1, w2}
  Keep = keep
  Updates = {a1, a2}
  Clients = {c1}
INVARIANTS
  TokenIsEarned
PROPERTIES
  OnlyOverlapReverts
  AccessFadesOut
