\* Static fields and class constructors met in every order.
CONSTANTS
  Object = Object
  B = B
  D = D
  S = S
  T = T
  V = V
  G = G
  ToString = ToString
  Bctor = Bctor
  Bf = Bf
  Bg = Bg
  Dctor = Dctor
  Dg = Dg
  Dn = Dn
  Main = Main
  Scctor = Scctor
  Tcctor = Tcctor
  Vctor = Vctor
  Invoke = Invoke
  Sx = Sx
  Sy = Sy
  Tx = Tx
  None = None
  Classes <- StaticClasses
  Methods <- StaticProgram
  StaticFields = {Sx, Sy, Tx}
  EntryPoint = Main
  Owner <- MCOwner
  Base <- MCBase
  Lineage <- MCLineage
  NewVirtuals <- MCNewVirtuals
  Root <- MCRoot
  Virtuals <- MCVirtuals
  Overridden <- MCOverridden
  Ctors <- MCCtors
  Cctor <- MCCctor
  ValueTypes = {V}
  Delegates = {G}
  Builtin = {Object}
  Runtime = {}
  NoCode = {}
  MaxRefs = 2
SPECIFICATION Spec
INVARIANTS NothingForgotten ConstructorsRunFirst
CHECK_DEADLOCK FALSE
