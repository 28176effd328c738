\* Every executable operation, programs of 5 instructions.
CONSTANTS
  MaxStack = 2
  CodeLength = 5
  vx = vx
  vb = vb
  lk = lk
  lw = lw
  sf = sf
  ValueTypes = {}
  Variables <- MCTwo
  VarType <- MCTwoTypes
  Literals <- MCLiterals
  LitType <- MCLitType
  LitCil <- MCLitCil
  LitVal <- MCLitVal
  ConvTypes = {"int8", "int16", "int32"}
  Signatures = {sf}
  SigParams <- MCSigParams
  SigResult <- MCSigResult
  ReturnType = "int32"
  Precision <- MCPrecision
  Size <- MCSize
  Arguments <- MCArguments
  Ops <- ExecOps
  NoArg = NoArg
  Uninit = Uninit
SPECIFICATION ExecSpec
INVARIANTS ExecTypeOK NoLiveVariableReused GotosHaveLabels ExecutionAgrees
CHECK_DEADLOCK FALSE
