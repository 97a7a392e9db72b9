\* An ARM target: does identifying the chip leave the program alone?
CONSTANT RiscV = FALSE
SPECIFICATION WindowSpec
INVARIANT AttachHarmless
CHECK_DEADLOCK FALSE
