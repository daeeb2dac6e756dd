CONSTANTS
  XLEN = 32
  Csr = {"mtvec"}
  Operand <- Operands
  FieldValue <- FieldValues
  MaxIrq = 1
  Idle = Idle
SPECIFICATION FairCsrSpec
PROPERTY
  FieldReadsBack
