\* Words of four bits, overflow checks on.
CONSTANTS
  Modulus = 16
  Checked = TRUE
  MaxGrants = 3
SPECIFICATION Spec
INVARIANTS UniqueIds
