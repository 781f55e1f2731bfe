SPECIFICATION MCSpec
CONSTANTS
  Name = {n1, n2, n3}
  Request = {r1, r2}
  None = None
  Caps = {1}
  MaxRecent = 1
  Owner = {r1, r2}
  Token = {i1, w1, a1}
  Ios = {i1, w1}
  Voip = {w1}
  Android = {a1}
  Dispatch = {d1}
SYMMETRY Symmetry
INVARIANTS TypeOK CapOvershoot RateOvershoot OneBootstrap NoTokensBeforeApproval PushInv
