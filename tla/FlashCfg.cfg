SPECIFICATION Spec
CONSTANTS
  Ids = {"wifi", "meter", "sys"}
  Values = {"short", "long", "long2"}
  SizeOf <- Sizes
  MaxObj = 3
  Bank = 9
  None = None
  Torn = Torn
INVARIANTS
  TypeOK
  FitsSector
PROPERTIES
  ImplementsConfigStore
