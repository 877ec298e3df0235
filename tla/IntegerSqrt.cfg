SPECIFICATION Spec
CHECK_DEADLOCK FALSE
CONSTANT W = 12
INVARIANTS FloorSqrt StaysInWord
PROPERTIES Terminates
