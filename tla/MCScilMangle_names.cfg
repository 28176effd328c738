\* Every pair and triple of methods, fields, vtables and labels, in every order.
CONSTANTS
  x = x
  y = y
  inner = inner
  other = other
  ILClasses = {x, y, inner, other}
  AssemblyName <- MCAssembly
  Namespace <- MCNamespace
  ClassName <- MCClassName
  NestedParent <- MCNestedParent
  ValueTypes = {other}
  Primitives = {"int32", "nativeint", "bool"}
  native_type_trees <- MCNative
  ILMethods <- MCMethods
  ILFields <- MCFields
  Labels = {"L1"}
  DigitNames = {"1x"}
  MaxNames = 3
  NoClass = NoClass
SPECIFICATION Spec
INVARIANTS TypeOK NamesDistinct NamesFixed
CHECK_DEADLOCK FALSE
