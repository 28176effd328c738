\* An instance method and a static one that takes the object as its argument.
CONSTANTS
  x = x
  y = y
  inner = inner
  other = other
  ILClasses = {x, y, inner, other}
  AssemblyName <- MCAssembly
  Namespace <- MCNamespace
  ClassName <- MCClassName
  NestedParent <- MCNestedParent
  ValueTypes = {other}
  Primitives = {"int32", "nativeint", "bool"}
  native_type_trees <- MCNative
  ILMethods <- TwoOverloads
  ILFields <- MCFields
  Labels = {"L1"}
  DigitNames = {"1x"}
  MaxNames = 3
  NoClass = NoClass
SPECIFICATION Spec
INVARIANT OverloadsKeptApart
CHECK_DEADLOCK FALSE
