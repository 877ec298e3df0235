SPECIFICATION Spec
CONSTANTS
  Mint = {1, 2}
  Decimals = {6, 9}
  Funding = {1, 2, 3}
  RENT = 2
  Prefundable <- PrefundedRoles
INVARIANTS TypeOK MintsStayVetted CreationNeverBlocked
PROPERTIES DecimalsFixed
