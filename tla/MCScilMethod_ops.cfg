\* Every operation, programs of 4 instructions.
CONSTANTS
  MaxStack = 3
  CodeLength = 4
  vx = vx
  vs = vs
  lk = lk
  lkl = lkl
  sf = sf
  sg = sg
  VT = VT
  ValueTypes <- MCValueTypes
  Variables <- MCVariables
  VarType <- MCVarType
  Literals <- MCLiterals
  LitType <- MCLitType
  LitCil <- MCLitCil
  ConvTypes <- MCConvTypes
  Signatures <- MCSignatures
  SigParams <- MCSigParams
  SigResult <- MCSigResult
  ReturnType = "int32"
  Precision <- MCPrecision
  Ops <- AllOps
  NoArg = NoArg
SPECIFICATION Spec
INVARIANTS TypeOK HeightsAgree IndexInBounds
CHECK_DEADLOCK FALSE
