\* Virtual methods: vtables built in every order.
CONSTANTS
  Object = Object
  B = B
  D = D
  S = S
  T = T
  V = V
  G = G
  ToString = ToString
  Bctor = Bctor
  Bf = Bf
  Bg = Bg
  Dctor = Dctor
  Dg = Dg
  Dn = Dn
  Main = Main
  Scctor = Scctor
  Tcctor = Tcctor
  Vctor = Vctor
  Invoke = Invoke
  Sx = Sx
  Sy = Sy
  Tx = Tx
  None = None
  Classes <- VirtualClasses
  Methods <- VirtualProgram
  StaticFields = {}
  EntryPoint = Main
  Owner <- MCOwner
  Base <- MCBase
  Lineage <- MCLineage
  NewVirtuals <- MCNewVirtuals
  Root <- MCRoot
  Virtuals <- MCVirtuals
  Overridden <- MCOverridden
  Ctors <- MCCtors
  Cctor <- NoCctor
  ValueTypes = {}
  Delegates = {}
  Builtin = {Object}
  Runtime = {ToString}
  NoCode = {Bf}
  MaxRefs = 2
SPECIFICATION FairSpec
INVARIANTS TypeOK ClosedProgram DispatchRight
PROPERTY Terminates
CHECK_DEADLOCK FALSE
