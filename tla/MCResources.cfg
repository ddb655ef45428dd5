CONSTANTS
  Bytes = 4
  Messages <- SomeMessages
  MaxMessageSize = 4
  IncomingBufferSize = 5
  ReadChunk = 2
  MaxSends = 3
  MaxStream = 3
  Null = Null
  None = None
  Callers <- SomeCallers
  Wants <- SomeWants
  Parts <- SomeParts
  Handles = {a, b}
  Threads = {s, t, u}
  Fds = {1, 2, 3, 4}
  Bad = 0
  Users = {"a", "b"}
  MaxAddresses = 2
  Small = {"s"}
  Large = {"l", "k"}
  Objects = {"k", "m", "n"}
  Locals = {"p", "q"}
  Heap = {"h", "i", "j"}
  Values = {1, 2}
  Size = 3
  Unset = 0
  Nodes = {1, 2, 3, 4}
  MaxCleared = 1
  Pools = {"a", "b"}
  Blocks = {1, 2}
  MaxItems = 2
  BlockSize = 4
  MaxAlloc = 3
  MaxBlocks = 3
  PoolIds = {0, 1}
  Aligns = {4, 64}
  Requests = {0, 1, 40}
  Places = {1024, 2064}
  MallocAlign = 16
  MaxLive = 2
  Strings = {"x", "y", "z"}
  StrBlocks = {1, 2, 3, 4}
  Chars = {"a", "b"}
  MaxLength = 1
  MaxRefs = 2
  Numbers = {1, 2, 3}
  MaxRange = 6
  OptionNames <- SomeNames
  NumArgs <- SomeNumArgs
  CmdWords <- CommandWords
  HelpName <- HelpWord
  Dash = "-"
  MaxOptions = 2
  MaxArgc = 3
  HashKeys = {1, 2, 3, 4}
  HashValues = {"u", "v"}
  Hash <- SomeHash
  MapSizes = {3, 4}
  PathKeys = {1, 2, 3}
  MaxNodes = 4
SPECIFICATION AllSpec
INVARIANTS DeliveredInOrder SemaphoreSound OneOwnerEach QueuesHoldTheirElements AllocationsAreSound
  OwnersAreCounted StoredIsFound StringsAreShared WordsAreServed
PROPERTIES SentIsHandled AcquiresReturn RequestsServed StopReturns
CHECK_DEADLOCK FALSE
