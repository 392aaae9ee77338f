SPECIFICATION Spec
CONSTANTS
  Orders = {o1}
  Workers = {w1, w2}
  Admins = {a1}
  Artwork = 25
  Shipping = 5
  Tax = 2
  CourierCost = 4
  Bps = 1000
  Fee = 3
  PrepaidFee = 2
  MaxTransfers = 2
  Hazards = {"crash", "by_hand", "chargeback", "bounce", "early", "late_cost"}
CHECK_DEADLOCK FALSE
SYMMETRY CallSymmetry
INVARIANTS
  PaidOrRefunded
  OneTransfer
  PaidOutWasDelivered
  RowsMatchBooks
