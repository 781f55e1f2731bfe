SPECIFICATION Spec
CONSTANTS
  note = note follow = follow None = None Nobody = Nobody
  Activity = {note, follow}
  Sent = {note}
  Note = {note}
  Delivery = {d1, d2, d3}
  Worker = {w1, w2}
  MaxAttempts = 3
  MaxList = 2
  Destination = {i1, i2}
  MaxCrash = 1
SYMMETRY Symmetry
INVARIANTS TypeOK AcceptedIsStored PendingIsAttended
PROPERTIES KeepsContract DeliveredIsFinal
CHECK_DEADLOCK FALSE
