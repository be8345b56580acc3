CONSTANTS
  ptr1 = ptr1
  ptr2 = ptr2
  str = str
  one = one
  half = half
  x = x
  Nil = Nil
  Ints <- Integer
  Floats = {one, half}
  ToInteger <- IntegerOf
  Strs = {str}
  Ptrs = {ptr1, ptr2}
  Hash <- HashOf
  Val = {x}
  MaxSize = 4
  Asked = {0, 4}
  MaxInteger = 7
  KeySets <- Programs
SPECIFICATION Spec
INVARIANTS TraversalGoesOn BorderFound FreeNodes
PROPERTIES ImplementsMap ArrayMoreThanHalf
SYMMETRY Interchange
