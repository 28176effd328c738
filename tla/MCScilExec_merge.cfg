\* Two paths of different widths to one instruction.
CONSTANTS
  MaxStack = 2
  CodeLength = 6
  vx = vx
  vb = vb
  lk = lk
  lw = lw
  sf = sf
  ValueTypes = {}
  Variables <- MCVariables
  VarType <- MCWide
  Literals <- MCLiterals
  LitType <- MCLitType
  LitCil <- MCLitCil
  LitVal <- MCLitVal
  ConvTypes = {"int8", "int16", "int32"}
  Signatures = {sf}
  SigParams <- MCSigParams
  SigResult <- MCSigResult
  ReturnType = "int32"
  Precision <- MCPrecision
  Size <- MCSize
  Arguments <- MCArguments
  Ops <- MergeOps
  NoArg = NoArg
  Uninit = Uninit
SPECIFICATION ExecSpec
INVARIANT OneSavedStackIsEnough
CHECK_DEADLOCK FALSE
