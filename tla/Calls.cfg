SPECIFICATION Spec
CONSTANTS
  alice = alice bob = bob a1 = a1 b1 = b1 b2 = b2 c1 = c1 c2 = c2 None = None
  User = {alice, bob}
  Session = {a1, b1, b2}
  Call = {c1, c2}
  UserOf <- MCUserOf
  MaxFault = 1
SYMMETRY Symmetry
CONSTRAINT Focus
INVARIANTS TypeOK LiveCallIsFollowed PeerIsTold
