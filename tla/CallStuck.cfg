SPECIFICATION Spec
CONSTANTS
  alice = alice bob = bob a1 = a1 b1 = b1 b2 = b2 c1 = c1 c2 = c2 None = None
  User = {alice, bob}
  Session = {a1, b1}
  Call = {c1, c2}
  UserOf <- PairUserOf
  MaxFault = 0
INVARIANT NoCallIsStuck
