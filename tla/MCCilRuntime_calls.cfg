\* Plain programs: classes parsed and initialised in every order.
CONSTANTS
  Object = Object
  E = E
  F = F
  H = H
  IA = IA
  ID = ID
  obj = obj
  ia = ia
  id1 = id1
  id2 = id2
  ve = ve
  vf = vf
  None = None
  MaxId = 2
  Classes <- MCClasses
  Interfaces <- MCInterfaces
  Programs <- PlainPrograms
SPECIFICATION Spec
INVARIANTS TypeOK NoInternalError VirtualCallRight InterfaceCallRight
PROPERTY IndicesStable
CHECK_DEADLOCK FALSE
