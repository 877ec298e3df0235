SPECIFICATION Spec
CONSTANTS
  LoanAddr = {l1, l2, l3}
  BandAddr = {b1, b2}
  LOAN_RENT = 2
  BAND_RENT = 2
  EMPTY_RENT = 1
  MAX_LOANS = 2
  FUNDS = 7
  Transfers = {1}
  MAX_IX = 3
SYMMETRY Symmetry
INVARIANTS TypeOK MembersExact NeverBlocked RentExempt
