CONSTANT Half = 16
SPECIFICATION Spec
INVARIANT IInv
PROPERTIES
  ResultRight
  Returns
