CONSTANTS
  Components = {"TiffImage"}
  MaxDepth = 1
  MaxTokItems = 4
  Nil = Nil
  Word1 = Word1
  Word2 = Word2
SPECIFICATION Spec
INVARIANTS
  PackedIsShown
CHECK_DEADLOCK FALSE
