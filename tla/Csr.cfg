CONSTANTS
  XLEN = 32
  Csr <- AllCsrs
  Operand <- Operands
  FieldValue <- FieldValues
  MaxIrq = 1
  Idle = Idle
SPECIFICATION CsrSpec
PROPERTIES
  ReadOnlyKept
  OthersKept
  ConstAsRegister
