CONSTANTS
  Components = {"DynAry", "BankedVector", "BitVector", "BitVectorWords", "KdTree", "TokParser",
    "MemStream", "Serialize", "Format", "Text", "ArrayString", "Utf8", "Paths", "TgaImage",
    "TiffImage"}
  MaxDepth = 1
  MaxTokItems = 4
  Nil = Nil
  Word1 = Word1
  Word2 = Word2
SPECIFICATION Spec
INVARIANTS
  ContainersHoldTheirElements
  WrittenIsParsed StoredIsLoaded TextsAreWhole FilesAreRead
CHECK_DEADLOCK FALSE
