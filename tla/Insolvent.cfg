SPECIFICATION Spec
CONSTANTS
  WAD = 20
  BPS_DENOM = 10
  WORD_BITS = 9
  LOG2_WAD = 4
  BAND_OFFSET = 5
  MAX_BAND_ID = 6
  SWAP_FEE_BPS = 4
  PROTOCOL_FEE_BPS = 2
  LIQ_RATIO_BPS = 11
  MAX_LTV_BPS = 8
  INTEREST_BASE_BPS = 0
  INTEREST_SLOPE1_BPS = 1
  INTEREST_SLOPE2_BPS = 30
  INTEREST_KINK_BPS = 8
  SLOTS_PER_YEAR = 4
  INDEX_CAP_WAD = 60
  REF_PRICE_WINDOW_SLOTS = 3
  MIN_FIRST_DEPOSIT = 3
  MINIMUM_LIQUIDITY = 2
  LoanId = {1}
  SUPPLY <- LentOutSupply
  LP_MAX = 40
  MAX_LOANS = 3
  MAX_LIQ_PER_SWAP = 2
  MAX_TAIL = 2
  MAX_SLOT = 0
  Deposits <- LentOutDeposits
  Burns <- Nothing
  LoanTerms <- LentOutTerms
  SwapIns <- LentOutSwaps
  Mins = {0}
  Boundaries = {1}
  Donations <- Nothing
  DirectBurns <- Nothing
INVARIANTS PayoutAlwaysCovered
