----------------------------- MODULE MCResources -----------------------------
(***************************************************************************)
(* What is waited for and what is owned, checked together: message         *)
(* processors, the semaphore and fibers that wait for a service, under     *)
(* fairness; the owners of threads, descriptors and callables; rings and   *)
(* lists; the allocators; and the tables, texts and searches that are      *)
(* proved about.  A behaviour moves the component it starts with and no    *)
(* other, so that their state spaces add up.                               *)
(***************************************************************************)
EXTENDS MessageProcessor

CONSTANTS Null, None,
          Callers, Wants, Parts,                               \* of Semaphore
          Handles, Threads,                                    \* of Thread
          Fds, Bad, Users, MaxAddresses,                       \* of Connections
          Small, Large, Heap,                                  \* of Function
          Objects, Locals,                                     \* of IntrusivePtr
          Values, Size, Unset,                                 \* of CircularQueue
          Nodes, MaxCleared,                                   \* of IntrusiveList
          Pools, Blocks, MaxItems,                             \* of PoolAllocator
          BlockSize, MaxAlloc, MaxBlocks,                      \* of LinearChunkAllocator
          PoolIds, Aligns, Requests, Places, MallocAlign, MaxLive,   \* of PoolMemory
          Strings, StrBlocks, Chars, MaxLength, MaxRefs,       \* of Str
          Numbers, MaxRange,                                   \* of BinSearch
          OptionNames, NumArgs, CmdWords, HelpName, Dash,      \* of CmdLine
          MaxOptions, MaxArgc,
          HashKeys, HashValues, Hash, MapSizes,                \* of HashMap
          PathKeys, MaxNodes                                   \* of PrefixTree

ASSUME CallersAssumption == /\ IsFiniteSet(Callers)
                            /\ Wants \in [Callers -> Nat] /\ Parts \in [Callers -> Nat]
ASSUME HandlesAssumption == IsFiniteSet(Handles) /\ Null \notin Threads
ASSUME SocketsAssumption == /\ Fds \subseteq Nat /\ Bad \notin Fds
                            /\ Users \cap {"server", "result", "nobody"} = {}
                            /\ MaxAddresses \in Nat
ASSUME CallablesAssumption == /\ Small \cap Large = {} /\ {"f", "g"} \cap Heap = {}
                              /\ Null \notin Small \cup Large \cup Heap \cup {"f", "g"}
ASSUME PointersAssumption == /\ IsFiniteSet(Objects) /\ IsFiniteSet(Locals)
                             /\ Objects \cap Locals = {} /\ Null \notin Objects \cup Locals
ASSUME RingAssumption == Size \in Nat \ {0}
ASSUME NodesAssumption == Null \notin Nodes /\ MaxCleared \in Nat
ASSUME PoolsAssumption == MaxItems \in Nat /\ Null \notin Blocks \X Nat
ASSUME ChunksAssumption == BlockSize \in Nat /\ MaxAlloc \in Nat /\ MaxBlocks \in Nat
ASSUME MemoryAssumption ==    \* malloc aligns its blocks; the distance to the header fits a byte
    /\ Requests \subseteq Nat /\ Places \subseteq Nat /\ MallocAlign \in Nat /\ MaxLive \in Nat
    /\ \A align \in Aligns : align \in Nat \ {0} /\ align <= 250
    /\ \A p \in Places, align \in Aligns : align <= MallocAlign => p % align = 0
ASSUME StringsAssumption ==    \* memory does not run out
    /\ IsFiniteSet(Strings) /\ IsFiniteSet(StrBlocks) /\ Cardinality(StrBlocks) > Cardinality(Strings)
    /\ Null \notin StrBlocks /\ MaxRefs \in Nat \ {0}
ASSUME NumbersAssumption == Numbers \subseteq Int /\ None \notin Nat
ASSUME ArgumentsAssumption == NumArgs \subseteq Nat \cup {-1}
ASSUME TablesAssumption ==     \* a map of one or two slots can fill up
    /\ Hash \in [HashKeys -> Nat] /\ \A n \in MapSizes : n \in Nat /\ n >= 3
    /\ None \notin [key : HashKeys, value : HashValues]

VARIABLES component,
          \* of Semaphore
          count, doing, wanted,
          \* of FiberService
          running, last, executeQueue, pc, left, waiting, counter, numWaiting, mutex, sleeping,
          queue, notified, semaphore, finished, spc, serving, requeued, draining,
          \* of Thread, Connections, Function and IntrusivePtr
          thread, stage, impl, joined, owns, state, attempt, callee, storage, alive, calls, bad,
          points, refs, objects, misused, release,
          \* of CircularQueue and IntrusiveList
          cells, readPos, writePos, queued, list, next, prev, seq, cleared,
          \* of PoolAllocator, LinearChunkAllocator and PoolMemory
          pool, link, live, free, chunks, cur, pos, size, allocated, heap, used, copied,
          \* of Str, BinSearch and CmdLine
          strData, strBlock, strValue, ary, val, begin, length, result,
          opts, helpRan, argv, argi, remainingIndex, parses, parsed,
          \* of HashMap and PrefixTree
          hashTable, resizes, deletion, iterator, dictionary, passed, treeNodes, paths
semaphoreVars == <<count, doing, wanted>>
serviceVars   == <<running, last, executeQueue, pc, left, waiting, counter, numWaiting, mutex,
                   sleeping, queue, notified, semaphore, finished, spc, serving, requeued, draining>>
threadVars    == <<thread, stage, impl, joined>>
socketVars    == <<owns, state, attempt>>
functionVars  == <<callee, storage, alive, calls, bad>>
pointerVars   == <<points, refs, objects, misused, release>>
ringVars      == <<cells, readPos, writePos, queued>>
listVars      == <<list, next, prev, seq, cleared>>
poolVars      == <<pool, link, live, free>>
chunkVars     == <<chunks, cur, pos, size, allocated>>
memoryVars    == <<heap, used, copied>>
resourceVars  == <<vars, semaphoreVars, serviceVars, threadVars, socketVars, functionVars,
                   ringVars, listVars, poolVars, chunkVars, memoryVars>>
stringVars    == <<strData, strBlock, strValue>>
searchVars    == <<ary, val, begin, length, result>>
argumentVars  == <<opts, helpRan, argv, argi, remainingIndex, parses, parsed>>
mapVars       == <<hashTable, resizes, deletion, iterator, dictionary, passed>>
treeVars      == <<treeNodes, paths>>
dataVars      == <<pointerVars, stringVars, searchVars, argumentVars, mapVars, treeVars>>

(* What a MessageProcessor is sent: two messages that fit, the second      *)
(* wrapping around in a ring of five bytes, and one that is too long for   *)
(* the message buffer.                                                     *)
SomeMessages == {[type |-> 1, payload |-> <<>>], [type |-> 0, payload |-> <<2, 1>>],
                 [type |-> 3, payload |-> <<1, 1, 3>>]}

(* Three threads that want two units, one and two; two that release three  *)
(* and two, in parts.                                                      *)
SomeCallers == {"a", "b", "c", "r", "s"}
SomeWants == [t \in SomeCallers |-> CASE t = "a" -> 2 [] t = "b" -> 1 [] t = "c" -> 2 [] OTHER -> 0]
SomeParts == [t \in SomeCallers |-> CASE t = "r" -> 3 [] t = "s" -> 2 [] OTHER -> 0]
S == INSTANCE Semaphore WITH Thread <- Callers, pc <- doing, left <- wanted

(* One thread and two fibers that make two requests each: a fiber asks     *)
(* again while the service still works for the other, and both wait.       *)
FS == INSTANCE FiberService
        WITH Thread <- {"t"}, Fiber <- {"f", "g"}, MainFiber <- "f",
             Requests <- [f \in {"f", "g"} |-> IF f = "f" THEN 2 ELSE 1], Deferred <- {"g"}, LateRequests <- FALSE

(* Keys that collide in tables of every size the map takes.                *)
SomeHash == [k \in HashKeys |-> CASE k <= 2 -> 1 [] k = 3 -> 2 [] OTHER -> 5]

(* Two options, with one argument or all the rest; words with a dash and a *)
(* letter, two dashes and a name, a dash alone and none.                   *)
SomeNames == {<<"a", "b">>, <<"r">>}
SomeNumArgs == {-1, 1}
HelpWord == <<"h">>
CommandWords == {<<"-", "a">>, <<"-", "-", "a", "b">>, <<"-">>, <<"x">>, <<"-", "r">>, <<"-", "h">>}

Th == INSTANCE Thread WITH Empty <- Null, pc <- stage
Co == INSTANCE Connections
F == INSTANCE Function WITH impl <- callee
IP == INSTANCE IntrusivePtr WITH alive <- objects, bad <- misused, call <- release
CQ == INSTANCE CircularQueue WITH buffer <- cells
IL == INSTANCE IntrusiveList
PA == INSTANCE PoolAllocator
LC == INSTANCE LinearChunkAllocator WITH blocks <- chunks, live <- allocated
PM == INSTANCE PoolMemory
St == INSTANCE Str WITH Vars <- Strings, Blocks <- StrBlocks,
                        data <- strData, block <- strBlock, value <- strValue
BS == INSTANCE BinSearch WITH MaxLength <- MaxRange, count <- length
CL == INSTANCE CmdLine WITH Names <- OptionNames, Words <- CmdWords,
                            i <- argi, calls <- parses, result <- parsed
HM == INSTANCE HashMap WITH Keys <- HashKeys, Values <- HashValues, Sizes <- MapSizes,
                            table <- hashTable, frames <- resizes, del <- deletion,
                            iter <- iterator, dict <- dictionary, seen <- passed
PT == INSTANCE PrefixTree WITH Keys <- PathKeys, Values <- HashValues, nodes <- treeNodes, words <- paths

AllInit == /\ component \in {"MessageProcessor", "Semaphore", "FiberService", "Thread", "Connections",
                            "Function", "IntrusivePtr", "CircularQueue", "IntrusiveList",
                            "PoolAllocator", "LinearChunkAllocator", "PoolMemory",
                            "Str", "BinSearch", "CmdLine", "HashMap", "PrefixTree"}
           /\ Init /\ S!Init /\ FS!Init /\ Th!Init /\ Co!Init /\ F!Init /\ IP!Init
           /\ CQ!Init /\ IL!Init /\ PA!Init /\ LC!Init /\ PM!Init
           /\ St!Init /\ BS!Init /\ CL!Init /\ HM!Init /\ PT!Init
           \* what is left alone starts in one way
           /\ component # "FiberService" => executeQueue = <<"g">>
           /\ component # "BinSearch" => ary = <<>> /\ val = CHOOSE n \in Numbers : TRUE
           /\ component # "HashMap" => hashTable = HM!Empty(CHOOSE n \in MapSizes : TRUE)
AllNext ==
    \/ /\ component = "MessageProcessor" /\ Next
       /\ UNCHANGED <<component, semaphoreVars, serviceVars, threadVars, socketVars, functionVars,
                      ringVars, listVars, poolVars, chunkVars, memoryVars, dataVars>>
    \/ /\ component = "Semaphore" /\ S!Next
       /\ UNCHANGED <<component, vars, serviceVars, threadVars, socketVars, functionVars,
                      ringVars, listVars, poolVars, chunkVars, memoryVars, dataVars>>
    \/ /\ component = "FiberService" /\ FS!Next
       /\ UNCHANGED <<component, vars, semaphoreVars, threadVars, socketVars, functionVars,
                      ringVars, listVars, poolVars, chunkVars, memoryVars, dataVars>>
    \/ /\ component = "Thread" /\ Th!Next
       /\ UNCHANGED <<component, vars, semaphoreVars, serviceVars, socketVars, functionVars,
                      ringVars, listVars, poolVars, chunkVars, memoryVars, dataVars>>
    \/ /\ component = "Connections" /\ Co!Next
       /\ UNCHANGED <<component, vars, semaphoreVars, serviceVars, threadVars, functionVars,
                      ringVars, listVars, poolVars, chunkVars, memoryVars, dataVars>>
    \/ /\ component = "Function" /\ F!Next
       /\ UNCHANGED <<component, vars, semaphoreVars, serviceVars, threadVars, socketVars,
                      ringVars, listVars, poolVars, chunkVars, memoryVars, dataVars>>
    \/ /\ component = "CircularQueue" /\ CQ!Next
       /\ UNCHANGED <<component, vars, semaphoreVars, serviceVars, threadVars, socketVars,
                      functionVars, listVars, poolVars, chunkVars, memoryVars, dataVars>>
    \/ /\ component = "IntrusiveList" /\ IL!Next
       /\ UNCHANGED <<component, vars, semaphoreVars, serviceVars, threadVars, socketVars,
                      functionVars, ringVars, poolVars, chunkVars, memoryVars, dataVars>>
    \/ /\ component = "PoolAllocator" /\ PA!Next
       /\ UNCHANGED <<component, vars, semaphoreVars, serviceVars, threadVars, socketVars,
                      functionVars, ringVars, listVars, chunkVars, memoryVars, dataVars>>
    \/ /\ component = "LinearChunkAllocator" /\ LC!Next
       /\ UNCHANGED <<component, vars, semaphoreVars, serviceVars, threadVars, socketVars,
                      functionVars, ringVars, listVars, poolVars, memoryVars, dataVars>>
    \/ /\ component = "PoolMemory" /\ PM!Next
       /\ UNCHANGED <<component, vars, semaphoreVars, serviceVars, threadVars, socketVars,
                      functionVars, ringVars, listVars, poolVars, chunkVars, dataVars>>
    \/ /\ component = "IntrusivePtr" /\ IP!Next
       /\ UNCHANGED <<component, resourceVars, stringVars, searchVars, argumentVars, mapVars, treeVars>>
    \/ /\ component = "Str" /\ St!Next
       /\ UNCHANGED <<component, resourceVars, pointerVars, searchVars, argumentVars, mapVars, treeVars>>
    \/ /\ component = "BinSearch" /\ BS!Next
       /\ UNCHANGED <<component, resourceVars, pointerVars, stringVars, argumentVars, mapVars, treeVars>>
    \/ /\ component = "CmdLine" /\ CL!Next
       /\ UNCHANGED <<component, resourceVars, pointerVars, stringVars, searchVars, mapVars, treeVars>>
    \/ /\ component = "HashMap" /\ HM!Next
       /\ UNCHANGED <<component, resourceVars, pointerVars, stringVars, searchVars, argumentVars, treeVars>>
    \/ /\ component = "PrefixTree" /\ PT!Next
       /\ UNCHANGED <<component, resourceVars, pointerVars, stringVars, searchVars, argumentVars, mapVars>>

(* The fairness of the three modules, each for the behaviours in which it  *)
(* moves.                                                                  *)
Processing == component = "MessageProcessor"
Acquiring  == component = "Semaphore"
Serving    == component = "FiberService"
AllFairness ==
    /\ WF_vars(Processing /\ \E n \in 1 .. MaxStream : SendSome(n))
    /\ WF_vars(Processing /\ SendLoopDone)
    /\ SF_vars(Processing /\ Update)
    /\ SF_vars(Processing /\ \E n \in 1 .. MaxStream : UpdateReads(n))
    /\ WF_vars(Processing /\ UpdateReturns)
    /\ SF_vars(Processing /\ Process)
    /\ WF_vars(Processing /\ SkipTooBig)
    /\ WF_vars(Processing /\ ProcessReturns)
    /\ WF_vars(Processing /\ \E closes \in BOOLEAN : HandleMessage(closes))
    /\ \A t \in Callers : WF_semaphoreVars(Acquiring /\ S!Step(t))
    /\ WF_serviceVars(Serving /\ FS!ServiceStep)
    /\ WF_serviceVars(Serving /\ FS!FiberStep("t"))
allVars == <<component, resourceVars, dataVars>>
AllSpec == AllInit /\ [][AllNext]_allVars /\ AllFairness
-----------------------------------------------------------------------------
(* The semaphore loses and makes no unit, and no thread sleeps in front of *)
(* a positive count unless a notification is still to come                 *)
(* (parallel.cpp:8, 23).                                                   *)
SemaphoreSound == S!IInv

(* A descriptor is open exactly while one object owns it, also when an     *)
(* attempt at an address fails; a thread has one handle and its            *)
(* implementation lives until it has run; a callable belongs to one        *)
(* function (network.cpp:60, thread.cpp:62, function.hh:148).              *)
OneOwnerEach == Th!IInv /\ Co!IInv /\ F!IInv

(* An object that pointers share is deleted with the last of them, also in *)
(* a chain of releases, and its count is their number (intrusiveptr.hh:67). *)
OwnersAreCounted == IP!IInv

(* Ring and linked list hold the sequence that their operations describe   *)
(* (circularqueue.hh:47, intrusivelist.hh:215).                            *)
QueuesHoldTheirElements == CQ!IInv /\ IL!IInv

(* Allocations that are alive lie apart, in blocks that are held, and the  *)
(* books say what they take (pool_allocator.cpp:81, 108,                   *)
(* linear_chunk_allocator.cpp:80, mem.cpp:142).                            *)
AllocationsAreSound == PA!IInv /\ LC!IInv /\ PM!IInv

(* Tables are the dictionaries that set, del, resize and iteration should  *)
(* make of them, and every path of a prefix tree leads to its last value,  *)
(* however keys collide and tables grow; a binary search finds the first   *)
(* element that is not less (hashmap.hh:381, 498, prefixtree.hh:71,        *)
(* binsearch.hh:31).                                                       *)
StoredIsFound == /\ HM!ProbeEnds /\ HM!IsDictionary /\ HM!IterationComplete
                 /\ PT!PathsFound /\ BS!FindsLowerBound

(* Strings that share their characters have the value that was assigned to *)
(* each of them, and a block counts those that share it (str.hh:298, 478). *)
StringsAreShared == St!StringsAreValues /\ St!CountsSharers

(* Words on a command line are served once and in order                    *)
(* (cmdhelper.cpp:156).                                                    *)
WordsAreServed == CL!ArgumentsGoOnce /\ CL!OptionsServed

(* If as much is released as is wanted, every Acquire returns              *)
(* (parallel.cpp:8).                                                       *)
AcquiresReturn == Acquiring => S!AcquiresReturn

(* The requests of fibers are completed, and Stop returns, when every      *)
(* thread goes on (fiber.cpp:630).                                         *)
RequestsServed == FS!RequestsServed
StopReturns == FS!StopReturns
=============================================================================
