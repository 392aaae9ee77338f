SPECIFICATION FairSpec
CONSTANTS
  Orders = {o1}
  Workers = {w1, w2}
  Admins = {a1}
  Artwork = 25
  Shipping = 5
  Tax = 2
  CourierCost = 4
  Bps = 1000
  Fee = 3
  PrepaidFee = 2
  MaxTransfers = 1
  Hazards = {"reversal", "onboarding", "late_cost"}
CHECK_DEADLOCK FALSE
INVARIANTS
  BooksAreTrue
PROPERTIES
  KeepsCustody
  ConfirmationPays
