CONSTANTS
  Components = {"MemStream"}
  MaxDepth = 2
  MaxTokItems = 4
  Nil = Nil
  Word1 = Word1
  Word2 = Word2
SPECIFICATION Spec
INVARIANTS
  SubReaderInside
CHECK_DEADLOCK FALSE
