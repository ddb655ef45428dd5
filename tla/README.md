# lptoolkit in TLA+

lptoolkit is a C++ toolkit for games and tools: a fiber-based task system with
services, lock-based queues, TCP messaging, containers, memory pools,
serialization, a token parser, and a lot of vector and matrix arithmetic. This
directory holds specifications of its stateful parts, configurations that check
them with TLC on small instances, and theorems checked by TLAPS. Line numbers
refer to the files under `src/src/`; `PROJECT.json` maps every definition to them.

## 1. Inventory

| Component | State | Operations | Hard because | Correct when |
|---|---|---|---|---|
| Fiber scheduler (`fiber.cpp`, `fiber.hh`) | current, last and queued fibers per thread, the global fiber queue, two task queues, `m_numTasks`, a mutex and a condition variable, counters | `Init`, `RunTasks`, `WaitForCounter`, `YieldFiber`, `Purge`; inside, `NextFiber`, `WaitForTasks`, `FinishFiber` | code moves between threads in the middle of a function; threads sleep on a count that is changed with and without the mutex; waits nest | every task runs once and finishes, a wait ends when and only when its tasks have, no stack is run by two threads, `Purge` returns |
| Fiber services (`FiberService`) | request queue, flag and semaphore, count of waiting fibers, `m_finished` | `EnqueueRequest`, `Update` (user code), `CompleteRequest`, `PushServiceFiber`, `Stop` | requests live on the stack of a fiber that polls; two handshakes of two steps each | every request is completed once while its fiber waits, nobody sleeps through a notification, `Stop` returns |
| Spin-lock queues (`spinlockqueue.hh`) | linked nodes, head, tail, one lock or two | `push`, `push_range`, `pop` | concurrent; memory is freed and reused; the two locks meet on an empty queue | linearizable FIFO, no use after free, no leak, locks released |
| Locked queues (`lockedqueue.hh`) | the same with mutexes | `push`, `pop` | the same | the same |
| `Spinlock`, `Semaphore` (`parallel.*`) | a flag; a count, a mutex and a condition variable | `lock`, `unlock`; `Acquire(n)`, `Release(n)` | partial acquisition, notification only from zero | exclusion; counts conserved, nobody sleeps while there is a count |
| Threads, mutexes (`thread.*`) | handles; an implementation object that points to itself | start, run, join, move, lock | the object must outlive the handle and go when the thread has run; a start may fail | one handle per thread, the object lives until `Run` is over |
| Network (`network.*`) | descriptors, a ring buffer, a message buffer | `Write`, `Read`, `Peek`, `Skip`; `Update`, `Process`, `SendMessage`; connect, listen, accept | bytes arrive in any pieces, messages wrap around the ring, sizes are 16 bits, attempts at addresses fail | messages come out as they went in, in order, whole; a descriptor has one owner |
| Hash map, prefix tree (`hashmap.hh`, `prefixtree.hh`) | slots, used bits, item count; nodes and edges | `set`, `get`, `del`, `resize`, iteration; insert, find | open addressing: deletion re-inserts, insertion resizes | behaves like a dictionary; every key stays reachable by its probe sequence |
| Sequence containers (`dynary.hh`, `bankedvector.*`, `bitvector.*`, `circularqueue.hh`, `intrusivelist.hh`) | buffers, capacities, chunks, bits, links | insert, erase, push, pop, reserve, resize, find | growth, last partial word or chunk, wrap-around, failing allocations | behave like sequences and sets; nothing lives twice or leaks |
| Smart pointers and functions (`intrusiveptr.hh`, `function.hh`) | reference counts; a callable in place or on the heap | copy, move, assign, reset, call | self-assignment, last release, chains of owners | freed once, when the last owner goes |
| Memory (`mem.cpp`, `mem/*`) | block headers, counts per pool, free lists, chunks | alloc, realloc, free, clear, move | reuse after `Clear`, headers found from pointers, free lists inside the items | live blocks are apart, accounts add up |
| Serialization and streams (`serialize.*`, `memstream.*`) | positions and ranges of a buffer; a tree of serializers | read, write, sub reader; put, merge, save, load | nested ranges, truncated input, alignment, ids that are renumbered | never outside the range, what was written is read, what an object points to twice is there once |
| Text (`tokparser.*`, `str.hh`, `strutil.hh`, `format.inl`, `utf8str.*`) | position and token; shared data with a count | tokens in and out; copy on write; substitute, match, format, decode | two passes that must agree, counts that saturate, look-ahead | what is written is parsed, in step; a string is a value; room for what is written |
| Utilities (`cmdhelper.cpp`, `filehelper.cpp`, `kdtree.inl`, `binsearch.hh`) | registered options, a stack of directories, a tree over an array | process arguments; make and push directories; build and search | two indices into one array, failures half way, in-place selection | words served once, directories as they were, the nearest is found |
| Images (`image.cpp`, `imageutils.cpp`) | pixels, settings read from a file | load and save TGA, load TIFF | orientations, packets and strips that end anywhere, half bytes | the image shows the picture of the file |
| Math and graphics; clocks, statistics, shell | none, or the operating system's | arithmetic, calls | floating point | out of TLC's reach |

How they interact: the scheduler's task, fiber and request queues are all
`IntrusiveSpinLockQueue`s, whose lock is `Spinlock`; a service uses one such
queue and a `Semaphore`, and calls back into the scheduler's count of waiting
fibers; the containers take memory from the pools; `MessageProcessor` is built
on the socket and the ring buffer; the prefix tree on the hash map; formats,
serializers and image loaders on arrays, arenas and `MemReader`. The concurrent
core is therefore queues → scheduler → services, and the rest are sequential
components whose users call them one operation at a time. The scheduler only builds on
Windows (`fiber.cpp` has an `#error` for Linux), which matters for what the
operating system does in a fiber switch and for nothing else here.

`PROJECT.json` lists, under `hazards`, the places where this code can go wrong
in ways a test would hardly reach, with the properties that cover them.

## 2. Modules

| Module | Models | Uses |
|---|---|---|
| `FifoQueue` | what a shared queue promises: calls take effect at one instant, first in, first out, ranges as a whole | |
| `IntrusiveQueue` | `IntrusiveSpinLockQueue`, one action per shared access | implements `FifoQueue` |
| `TwoLockQueue` | `SpinLockQueue` (and, step for step, `LockedQueue`), with heap cells that are reused | implements `FifoQueue` |
| `TaskPool` | what the task system promises its users | |
| `FiberManager` | the scheduler | implements `TaskPool` |
| `FiberService` | services and the fibers that wait for them | |
| `Semaphore` | mutex, count and condition variable of `Semaphore` | |
| `MessageProcessor` | the ring, and two processors at the ends of a stream | |
| `Connections`, `Thread` | who owns a descriptor, and a thread's implementation | |
| `HashMap`, `PrefixTree` | a map and its iterator against a dictionary, the loops of `resize` and `del` one turn a step; nodes whose children are such dictionaries | |
| `DynAry`, `BankedVector`, `BitVector`, `CircularQueue`, `IntrusiveList` | the containers, against sequences | |
| `IntrusivePtr`, `Function`, `Str`, `ArrayString` | owners and sharers, copy on write | |
| `PoolAllocator`, `LinearChunkAllocator`, `PoolMemory` | pools of items, chunks, `mem.cpp`'s headers and accounts | |
| `MemStream`, `Serialize` | writer, reader and sub readers; serializers, merging, files, loading | |
| `TokParser`, `Text`, `Format`, `Utf8` | writer against tokenizer and getters; searching and cutting; formatting; decoding | |
| `CmdLine`, `Paths`, `KdTree`, `BinSearch` | options, directories and names, searches | |
| `TgaImage`, `TiffImage` | loading and saving | |
| `IntrusiveQueue_proofs`, `TwoLockQueue_proofs`, `FiberManager_proofs`, `FiberService_proofs`, `MessageProcessor_proofs` | theorems about these modules (section 5) | the module named, `SequenceLemmas` |
| `Data_proofs` | theorems about `HashMap`, `PrefixTree`, `BinSearch`, `Str` and `CmdLine` | `MCResources`, `SequenceLemmas` |
| `Resources_proofs` | theorems about `Semaphore`, `Thread`, `Connections`, `Function`, `CircularQueue`, `IntrusiveList`, the three allocators and `IntrusivePtr` | `MCResources`, `SequenceLemmas` |
| `SequenceLemmas` | what appending, prepending, shortening, concatenating, inserting and removing do to the elements of a sequence; that a set of numbers has a least one | |
| `MCToolkit` | the sequential components in one instance, but for those of `MCResources` | all of them |
| `MCResources` | the components that wait for others, own a resource or hand out memory, and the pointers, maps, texts and searches that are proved about | `MessageProcessor`, `Semaphore`, `FiberService`, `Thread`, `Connections`, `Function`, `CircularQueue`, `IntrusiveList`, `PoolAllocator`, `LinearChunkAllocator`, `PoolMemory`, `IntrusivePtr`, `Str`, `BinSearch`, `CmdLine`, `HashMap`, `PrefixTree` |

`IntrusiveQueue`, `TwoLockQueue`, `FiberManager` and `FiberService` are checked
themselves; the programs the configurations of `FiberManager` run are at its end.

Operators preceded by a comment *Mistake:* are not part of any specification.
Each is a variation of the definition that follows it, such as a dropped guard
or a missing reset, that breaks one of the properties: it documents what the
property guards against.

### IntrusiveQueue
Variables are the fields (`head`, `tail`, `locked`, every node's `next`) plus,
per thread, a program counter and the range or node in hand. `push` is a range
of one. Each of `Push`, `PushLock`, `PushLink`, `PushTail`, `PushUnlock`, `Pop`,
`PopLock`, `PopHead`, `PopTail`, `PopUnlock`, `PopClear` is one access to shared
memory (or a few that only the thread itself can see), so every interleaving of
the real code's accesses is there. `queue` is a history variable that follows
the instant an operation takes effect; the abstraction to `FifoQueue` reads it.
The guard of `Push`, that nodes are free, is the contract of an intrusive queue
and is what the fiber manager keeps (`FiberInOnePlace` below).

### TwoLockQueue
The same for the queue with a dummy node and separate locks for pushing and
popping. `heap` is the set of allocated cells: `new` takes any free cell,
including one that has just been deleted, so a dangling pointer meets a reused
cell. A new cell's value is the abstract item; popping moves it out. `chain` is
a second history variable, the cells from the dummy on.

### FiberManager
A fiber carries its call stack from thread to thread, so program counters belong
to fibers and `running[t]` says which fiber thread `t` is executing. `stack[f]`
has a bottom frame (`Fiber::Run`, or main) and one frame per task being
executed; it grows when `WaitForCounter` executes another task on top of the
waiting one. A frame's `at` is where it continues when `NextFiber`, called in
it, returns, perhaps on another thread. Every access to shared state is an
action: the pops and pushes of the queues (atomic, which `IntrusiveQueue`
justifies), the loads, additions and subtractions of `m_numTasks`, the two
halves of a condition variable's wait, notifications. A wait tests its predicate
with the mutex held (`Predicate`) and then releases it and sleeps in one step
(`Sleep`); `mutex` is the thread between the two. A critical section that makes
one access is one action guarded by `mutex = None`.

Programs are data: `Children[p]` is the array main or a task hands to
`RunTasks`, after which it calls `WaitForCounter`; `Urgent` programs use the
high priority, `Yielders` call `YieldFiber` first. A task is handed out once
(`TreeAssumption`): the queues link tasks through their own `m_next`, and a task
has one `m_counter`, so giving it to two `RunTasks` is outside the contract. Counters are named by the
program in whose frame they live. `numTasks` is an integer: a negative value
stands for the wrapped unsigned one, which every test treats as "not zero".

Abstracted: `InitMain`'s allocation and `InitThread`'s system calls, thread
names, what tasks compute. The initial state is after `Init`, with all worker
threads about to run their first instruction. Spurious wakeups of the condition
variables are left out, which makes the liveness results stronger; a model with
them would hide the lost wakeups below behind luck.

### FiberService
A request is named by the fiber that made it, since a fiber has at most one.
`Update` is written by users: it pops a request and serves it, or for `Deferred`
fibers puts it back once with `PushServiceFiber` first; it returns false when the queue is empty.
`Notify` and `WaitForUpdate` are their two steps each, exchange and semaphore;
the service thread's loop, its drain after `Stop`, and `NotifyServiceComplete`
with its three accesses follow `fiber.cpp:480-493` and `601-656`. Of the
scheduler only `m_executeQueue` remains and the tasks are taken to be running,
so that `WaitForTasks` never sleeps: the module is about the other condition
variable, `m_allWaitingCondition`. `NextFiber` is one step here, since
`FiberManager` shows what its parts do.

### Sequential components
Each module has the component's fields as variables, one action per operation,
and history variables with what a user would expect: a sequence, a dictionary, a
set of live allocations, the order of a free list, the items that were written. An element is not only a
value: `DynAry` and `BankedVector` construct, move and destroy cell by cell in
the order of the code and record one that meets a cell in the wrong state.
Loops that other operations cannot interrupt are folds or recursive functions
inside one action; loops a property or a proof looks into (`CmdLine`,
`BinSearch`, `Utf8`, the strips of `TiffImage`, `resize` and `del` of `HashMap`,
the `decRef`s that one assignment of an `IntrusivePtr` causes) take one action per
turn. In `HashMap`, `frames` is the stack of the calls of
`resize` under way: filling the new table may make that one grow, and so on. A
node of `PrefixTree` has a dictionary for its `HashMap`, which `IsDictionary`
of `HashMap` justifies; what the map moves when it grows are pointers to nodes.

Failures the code handles are choices: a chunk that cannot be allocated after
others were, an address that refuses, a thread that does not start, `recv` and
`send` that take any number of bytes, close or fail, a file that ends early, a
call of the parser for the wrong type. What callers owe is in the guards and is
named in the comments: nodes pushed have null links, an item freed belongs to
the pool, patterns are not empty.

### MessageProcessor
`CircularBuffer` is a record with operators, since nothing interleaves with its
calls: `Write`, `Read`, `Skip` and `Peek` take the parts at the end and at the
beginning of the storage as the code does. Around it are two processors: the
sender's `SendMessage` leaves a header and a payload to be sent, which go
into the stream in pieces of any size (`SendSome`) until a `send` fails; the
receiver's `Update` moves pieces of any size from the stream to the ring, and
`Process` takes one complete message in each turn, to handle it or to skip it.
`sent` and `handled` are history variables. A unit of the stream is a number
below `Bytes`, which is also the width of the header's fields, so that a payload
too long for its size field is written the way the code writes it.

### Composition
`MCToolkit` and `MCResources` check components side by side: the variable
`component` is chosen in the initial state and never changes, and only that
component moves, so that their state spaces add up instead of multiplying.
`x1`, ... `x8` of `MCToolkit` stand for the variables of whichever component it
is, in the order of its `VARIABLES`; `Of(name, property)` says that a property
is that component's. `CONSTANT Components` selects; a single component can be
checked by giving a set of one. `MCResources` names the variables and has the
constants of its components as its own, with an assumption for each component
that needs one (`CallersAssumption`, `RingAssumption`, `TablesAssumption`, ...),
so that its theorems are about every value of them.

## 3. Runs

| Run | Instance | Shows |
|---|---|---|
| `queue_intrusive` | 3 threads, 3 nodes, ranges up to 2 (no symmetry, because of the liveness property) | exclusion, links, one place per node, the inductive invariant, refinement of `FifoQueue`, release of the lock |
| `queue_two_lock` | 3 threads, 4 cells, 2 values | the inductive invariant, no use after free, no leak, the chain holds the queue, refinement of `FifoQueue` |
| `fiber_pool` | 2 threads, 2 + 2 fibers, 3 tasks in a tree | the inductive invariant, one place per fiber, current fiber bookkeeping, counters, `m_numTasks`, refinement of `TaskPool`; with one worker all tasks finish |
| `fiber_service` | 2 threads, 3 fibers with one request each, one put back | the inductive invariant, requests are alive and completed once, the count of waiting fibers, no lost notification to the service |
| `resources` | 3 messages and a ring of 5 bytes; 3 threads that acquire and 2 that release; 1 thread and 2 fibers with 3 requests; 2 handles for 3 threads; 4 descriptors for 2 users' sockets, the server's and the result, 2 addresses; 3 callables; a queue of 3 cells; 2 lists of 4 nodes; 2 pools of 2 blocks; chunks of 4 units; 2 memory pools; 2 pointers and 3 objects with a member each; 3 strings in 4 blocks; ranges up to 6 elements; 2 options and 3 words; maps of 4 keys that collide in 3 or 4 slots and more; trees of 4 nodes | messages are handled in order, and each that was sent is; the semaphore conserves units, forgets no sleeper and serves everyone; requests are served and `Stop` returns; threads, descriptors and callables have one owner; ring and lists hold their sequences; allocations are apart and accounted for; counts are the numbers of owners; what was stored in maps and trees is found and a search finds what is there; shared strings are values; words of a command line are served |
| `toolkit` | 14 components, below, the bit vector in two sizes | containers, parsing, streams, texts and files agree with their abstract counterparts |
| `fiber_main_stuck` | 2 threads, 2 + 2 fibers, a chain of 2 tasks | **finding:** main's wait may never return |
| `fiber_tasks_stuck` | 3 threads, 3 + 1 fibers, a chain of 2 tasks | **finding:** with two workers a task may never finish |
| `fiber_purge_stuck` | 3 threads, 3 + 1 fibers, 1 task | **finding:** `Purge` may wait in join for ever |
| `service_stuck` | 1 thread, 2 fibers, 1 request each | **finding:** a completed requester may never go on |
| `sub_reader` | readers of readers | **finding:** a sub reader of a sub reader reaches outside |
| `pack_bits` | one packed strip | **finding:** packed TIFF strips are shown black |

A run that checks `IInv` checks type correctness with it: `TypeOK` is its first
conjunct. `SemaphoreSound`, `OneOwnerEach`, `QueuesHoldTheirElements`,
`AllocationsAreSound` and `OwnersAreCounted` of `resources` are the inductive
invariants of `Semaphore`, of `Thread`, `Connections` and `Function`, of
`CircularQueue` and `IntrusiveList`, of the three allocators, and of `IntrusivePtr`
in the same way. `StringsAreShared`,
`WordsAreServed` and `StoredIsFound` are the properties that the inductive
invariants of `Str`, of `CmdLine`, and of `HashMap`, `PrefixTree` and `BinSearch`
are for: every string has its own value and a block counts those that share it;
every word goes to one option once, in order; probes end, a map is the dictionary
its calls describe, an iteration that ends has passed every key, every path of a
tree leads to its last value, and a search has the result of one through
everything.

The properties of `toolkit` group components by what they promise:

| Property | Components | Says |
|---|---|---|
| `ContainersHoldTheirElements` | `DynAry`, `BankedVector`, `BitVector`, `KdTree` | the cells hold the sequence, nothing else lives and nothing is destroyed twice, but for chunked vectors destroyed with a spare chunk; bits are the last written, through `resize`, `subtract` and `add` within the limits `BitVector` names; searches find the next bit from the first word or one like it, and the nearest point |
| `WrittenIsParsed` | `TokParser` | strings, symbols, Booleans, tokens, integers, numbers with a negative exponent and single flags are read call for call; other exponents, several flags and none as the tokens they fall into; all of it in step, after mistakes too |
| `StoredIsLoaded` | `MemStream`, `Serialize` | values return in order, aligned and swapped; a graph of objects returns, and pointers of one object lead to one place exactly if they did |
| `TextsAreWhole` | `Format`, `Text`, `ArrayString`, `Utf8` | first and second passes agree; cutting, matching and decoding give what is there |
| `FilesAreRead` | `Paths`, `TgaImage`, `TiffImage` | directories made are there; where a `PushWorkingDirectory` ends, the program is where it was made; images show their files |

**Bounds.** Threads, fibers, nodes, cells and tasks are the constants above.
Three threads are the smallest number in which a third interferes between two
steps of a conflict of the other two; three nodes make queues that are empty,
of one node (head and tail equal) and longer, while other nodes are under way.
Four cells do the same behind a dummy. The tree of tasks is the smallest in
which a task waits inside a task, on top of another, a task changes threads in
the middle, both priorities are used and a worker finishes before it was
announced. `MaxBatch` bounds ranges, `Requests` the requests of a fiber,
`Deferred` how often `Update` puts a request back (once), `MaxSends` and
`MaxStream` the messages sent and the bytes on the way.

In `resources`, the ring of the messages has one byte more than the longest one
that is handled, so that messages wrap at every place; one message does not fit
the message buffer and is skipped; a byte has four values, which also is the
width of a header's fields. The semaphore's callers want 2, 1 and 2 units and
get 3 and 2 in any parts: acquirers hold parts while others sleep, and releases
come onto zero and positive counts. Two handles for three threads are moved onto
each other and onto themselves; four descriptors run out when both users, the
server and an attempt hold one; of three callables one fits into a function, and
there is one place more on the heap than functions use. The queue of three cells is full, empty and
somewhere in between at each of the six pairs of positions its counters pass;
the two lists share four nodes. Pools have two blocks of two items; chunks have
four units, requests are up to three, and there are up to three chunks
(`MaxBlocks`); `PoolMemory` has two live blocks (`MaxLive`) at two places,
under alignments below and above malloc's. Two pointers and three objects, whose
members are pointers too, make chains of three that one assignment releases, from
its beginning or its middle, and objects with two and three owners. Four keys collide in chains and across
the end of tables of three slots or four, which grow once or twice, also while
the loop of `resize` refills them; trees have four nodes (`MaxNodes`). Three
strings of at most one character (`MaxLength`) share data up to a largest count
of two (`MaxRefs`), with a block for each and one for a sum; the theorem is about
strings of any length. Command lines have up to three words (`MaxArgc`) and two
options (`MaxOptions`) besides help, one of them with the rest of the words;
sorted ranges are up to six long (`MaxRange`), with equal elements.
In `toolkit`, arrays have three elements and two chunks of two, whose elements
have destructors; bit vectors have five bits in words of four, where half a word
is more than a bit, and six in words of two, where a search or a growth passes a
whole word. Serialized graphs are all with a root and two objects, shared,
nested, null or in arrays of two (`Graphs`). The parser's texts have up to
`MaxTokItems` (four) items of every kind that is written, read as five tokens at
most (`MaxPieces`), with buffers shorter and longer than the strings; stream buffers have seven
bytes with up to three items; formats and patterns up to four characters,
trees five points in buckets of two; pictures
are two by two or three by one, in every orientation, cut into packets in every
way and ending anywhere. Each of these is the smallest at which the boundary in
question, a wrap, a partial word, a growth, a second sharer, is crossed with
something on both sides of it.

**Fairness.** `WF_vars(Step(t))` for every thread and `WF_vars(ServiceStep)`:
the operating system runs every thread that can run. Callers owe nothing:
starting an operation of a queue is not fair. Weak fairness is enough because a
thread at a lock can be overtaken only while others hold it; in
`IntrusiveQueue`, `LockReleased` states what that needs, that no path keeps the
lock, and not that every thread gets it, which a spin lock does not promise.
A thread blocked on a condition variable is not enabled until it is notified;
in `Semaphore` it may also wake on its own, which no property relies on.
For `MessageProcessor` it is the program's loop that is fair: `Update` and
`Process` are called again and again (strongly fair, as each is possible only
while the other is not running), bytes on the way arrive at some time, and a
handler returns. Nobody has to send, and sockets need not stay open:
`SentIsHandled` speaks of messages sent while they do.
Atomic variables are sequentially consistent in all modules; the code's acquire
and release orders are on single variables whose order with others is through
queue locks and mutexes.

**Deadlock** is checked in the queue runs and in `fiber_pool` (`Finished`
stutters when the program is over); `fiber_tasks_stuck` does not check it
because the hang of `Purge` would hide the finding it is about. It is not
checked in `toolkit` and `resources`, where components come to an end: a file is
loaded, all units are acquired, all threads have run. In
`FiberService` it is not either: after the last request and `Stop` all fiber threads
may rightly sleep or spin, and a thread that sleeps for ever in `service_stuck`
is the finding itself.

**Liveness and its limits.** `TasksFinish` holds with main's thread and one
worker and fails with two workers (`fiber_tasks_stuck`): it takes one thread
that announces late, one that has finished the tasks already, and one that goes
to sleep. `MainWaitReturns` fails even with one worker. The safety properties
do not depend on any of this: `fiber_pool` checks them in the interleavings of
finding 1 as well. `RequestsServed` is checked with `LateRequests = FALSE`:
`Stop` drains the queue once, so a request made during `Stop` may stay there;
the caller has to make sure there is none.

## 4. Findings

1. **Main's wait may never return** (`fiber_main_stuck`). `NextFiber` gives a
   fiber it may not run to its owner, then pops again (`fiber.cpp:235`) and runs
   the second fiber unseen. If that one is main's, main's stack goes on
   on a worker, where `WaitForTasks` sleeps. A task that finished between main's
   test of its counter and that sleep was the last, and nothing wakes it. The
   documentation of `WaitForCounter` (`fiber.hh:253`) promises a return
   when the counter has reached zero, and `fiber.cpp:379` that the scheduler
   never chooses main's fiber. In other interleavings of the same steps main
   calls `Purge` on the worker, which then joins its own thread.
2. **A task may never finish** (`fiber_tasks_stuck`). `RunTasks` pushes before it
   announces. When the tasks are executed first, `m_numTasks` reads 0 with a
   waiting task still on a worker's stack; that worker sleeps, its counter
   becomes zero, and the late announcement, whose load was not zero
   (`fiber.cpp:443`), neither locks nor notifies.
3. **Purge may hang** (`fiber_purge_stuck`). `Cleanup` wakes workers through
   `NotifyWorkerThreadsOfTasks`, which trusts a load made before the lock
   (`fiber.cpp:433`). While the last task is between its `DecRef`, which lets
   main go on, and its `fetch_sub`, the load says 1; no mutex, no notify. A
   worker that had already found 0 goes to sleep and `join` waits for it.
4. **A requester may sleep for ever** (`service_stuck`). `NotifyServiceComplete`
   subtracts without the mutex when the count was below the maximum at its load
   (`fiber.cpp:490`); when it reaches the maximum in between, the notification
   falls between test and sleep of `WaitForFiber`.

5. **A reader inside a reader reaches outside** (`sub_reader`).
   `GetSubReader(offset, requestedSize)` compares with the size of the whole
   buffer, but its position counts from its own start (`memstream.cpp:187`);
   `memstream.hh:107` promises a part of "this reader". From the top reader the
   two are the same, and `FirstSubReaderInside` (part of `StoredIsLoaded`) holds.
6. **Packed strips are black** (`pack_bits`). `DecompressStrip` resizes its
   result to the unpacked size and then appends the unpacked bytes behind that
   many zeros (`imageutils.cpp:618`, 631, 643).

Met while modelling, and kept out of the checked instances or of what a property
says by a guard, a condition or an assumption that the module names:

* `mem_reallocate` copies the whole old block, so that a request that shrinks
  writes behind the new one (`mem.cpp:142`; `GrowingCopyFits` is about the others).
* A hash map of capacity two can fill up, and a probe for a missing key then has
  no answer (`hashmap.hh:498`).
* A message longer than the ring is never complete and stops `Update` and
  `Process` for good (`network.cpp:499`); a payload over 16 bits loses the
  framing (`network.cpp:626`).
* `IntrusiveListDL::empty()` answers the opposite (`intrusivelist.hh:57`), `clear`
  keeps `m_size` and `erase` keeps head and tail (215, 228).
* `PoolAlloc` with no item per block counts down from zero
  (`pool_allocator.cpp:81`), and `KdTree::Init` called twice adds to the old tree.
* `SaveTGA` takes its buffer by value, and the file written through it is empty;
  TIFF strips without compression are read to the end of the file, a last half
  byte is lost, and rows of odd width share a byte in 4-bit images.
* `sub` with a pattern that overlaps with itself counts more occurrences than it
  replaces (`str.hh:404`); `EndsWith` with an ending longer than the text wraps;
  `StrMatchPattern` takes a star in the text for one in the pattern.
* The token writer prints every exponent that is not negative with a plus sign
  (`tokparser.cpp:603`, 610), which the tokenizer does not read as part of the
  number (98): a call of `GetFloat` gets the digits before it, and two tokens are
  left. `Flag` joins the names of several flags with plus signs (626), which are
  tokens of their own for the reader, so that `GetFlag` gets the first of them; no
  flag is written as an empty string, which `GetFlag` takes for the first flag, as
  it does with a name that is the beginning of an earlier one (322). Both are
  modelled; `RoundTrip` is about the tokens such an item is read as (`Pieces`).
* `GetString` copies on behind the end of the string up to the size of the
  caller's buffer, and returns that size less one and not the length
  (`tokparser.cpp:190`); `GetSymbol` stops. A buffer longer than a token's is read
  past.
* `BitVector::resize` from a partial word into another word repairs the wrong one
  (`bitvector.cpp:80`): growing leaves what is behind the old end and loses ones,
  shrinking cuts off bits; ones up to the end of the same word are lost by a shift
  of 64 (84). `subtract` and `add` mask the used bits by the number of the free ones
  and so lose bits unless all words are whole or at most half of one is used (195,
  219). `find_next_true` and `find_next_false` read the first word wherever they
  begin (134, 163), and with them `BitVectorEnumerator` (`bitvector.hh:67`), which
  asks for the next bit behind each. `ResizeKeeps`, `MaskKeeps`, `CombineKeeps` and
  the condition in `SearchesAgree` say where the answers are right, and none
  can be dropped: without any one of them the run fails. A step outside them is
  modelled as it is, and what it leaves is taken for what the vector should hold.
* `BankedVector::destroy` runs the destructors in all of a chunk that lies behind
  the last element, after `reserve`, `pop_back` or `erase`, as the number of elements
  left wraps (`bankedvector.inl:53`). The instance has elements with destructors;
  `IsSequence` allows for this case and no other (`spare`).
* Serialization writes an object to which two objects point once for each of them,
  as every serializer has a map of its own (`serialize.hh:147`), and does not end
  when objects point to each other in a circle.
* `MakeDirs` of an absolute path fails at its empty first part
  (`filehelper.cpp:119`); a lone percent sign at the end of a format is read past.
* `reserve` of the configured maximum asks a `BankedVector` for a chunk more
  (`bankedvector.inl:375`) and fails.
* A start of a thread that fails leaves the handle undefined on POSIX
  (`thread.cpp:62`), and a member pointer that is move-assigned from inside the
  object it releases reads freed memory (`intrusiveptr.hh:85`).

## 5. Proofs

Twenty modules are proved correct for every value of their constants. Each of
the first five has a proof module of its own with the same theorems: `Invariance`
(`Spec => []IInv`, the inductive invariant, which the run of each of the first
four checks first on its instance), type correctness, one theorem for each
safety property that follows from `IInv`, and, where there is an abstract
specification, the refinement. The others are proved in `Resources_proofs` and
`Data_proofs`, each with its `IInv`; `resources` checks those of the first, and
the properties that follow from those of the second. Each module has one lemma per action
(or per few actions that change the same variables) for `IInv`, with a step per
conjunct the action can disturb; conjuncts that depend on a few variables only
are carried over by lemmas of their own (`StaysApart`, `FramesStay`, `TasksStay`).

| Module | Theorems | For every | Assumed |
|---|---|---|---|
| `IntrusiveQueue` | `Exclusion`, `NodesInOnePlace`, `AlwaysWellLinked`, `Linearizable` | set of threads and nodes, finite or not, and `MaxBatch` | `Null` is not a node, `MaxBatch` is positive |
| `TwoLockQueue` | `ChainIsQueue`, `NothingLeaks`, `CellsAlive`, `Linearizable` | set of threads, cells and values, finite or not | `Null` is not a cell, `NoValue` not a value |
| `FiberManager` | `FibersInOnePlace`, `CurrentFibersRun`, `CountersCount`, `TasksAreCounted`, `Implements` | number of threads and fibers, finite tree of tasks, choice of urgent and yielding ones | at least one thread and fiber (the code takes the maximum with 1), names differ, a task is handed out once |
| `FiberService` | `RequestsOutliveService`, `WaitersAreCounted`, `NotificationsArrive` | finite set of threads and fibers, numbers of requests, `Deferred` and `LateRequests` | more fibers than threads (there is a fiber per thread and at least one other) |
| `MessageProcessor` | `Delivered` | set of messages, finite or not, payloads of any length, sizes of ring, message buffer and reads, width of the size field, pieces the stream is cut into | the ring has room for a byte, a read asks for at least one, messages are made of bytes |
| `Semaphore` | `SemaphoreIsSound` | finite set of threads, units each wants and releases | none |
| `Thread` | `ThreadsHaveOneHandle` | finite set of handles, set of threads, finite or not | `Null` is not a thread |
| `Connections` | `DescriptorsAreOwned` | set of descriptors (natural numbers) and of users' sockets, finite or not, number of addresses | `Bad` is not a descriptor, the users' sockets are not the server's or the result |
| `Function` | `CallablesAreOwned`; with the two before, `OwnersAreUnique` | sets of callables, small and large, and of places on the heap | a callable is small or large, names differ |
| `CircularQueue` | `RingsHoldTheirValues` | set of values, size | the size is positive |
| `IntrusiveList` | `ListsHoldTheirNodes`; with the one before, `QueuesAreSound` | set of nodes, finite or not | `Null` is not a node |
| `LinearChunkAllocator` | `ChunksAreSound` | block size, sizes of requests, number of blocks | none but that these are numbers |
| `PoolMemory` | `MemoryIsAccounted` | set of pools, of places malloc gives and of sizes | alignments are up to 250, since the distance to the header is stored in a byte (the code asserts it); malloc's places are multiples of the alignments it keeps |
| `PoolAllocator` | `PoolItemsAreAccounted`; with the two before, `AllocationsStaySound` | set of pools and of blocks, finite or not, items per block | `Null` is not an item |
| `IntrusivePtr` | `OwnersStayCounted` | finite set of objects and of pointers | no pointer is an object's member and a local at once, `Null` is neither |
| `Str` | `StringsKeepTheirValues`, `StringsStayShared` | finite set of strings, texts of any characters and length, largest count | there are more blocks than strings, finitely many (the code takes `new` to succeed), the largest count is positive |
| `CmdLine` | `ArgumentsAreServed`, `WordsStayServed` | set of names and words, finite or not, number of options and of words | an option takes a number of arguments, or -1 for all |
| `BinSearch` | `LowerBoundsAreFound` | set of integers, length of the range | `None` is not a position |
| `HashMap` | `TablesAreSound` | set of keys and values, finite or not, hash function, sizes asked for | hashes are numbers, sizes at least three (a map of one or two slots can fill up, and then `Probe` asserts), `None` is not a pair |
| `PrefixTree` | `TreesKeepTheirPaths`; with the two before, `StoredStaysFound` | set of keys and values, finite or not, number of nodes | `None` is not a position |

### IntrusiveQueue
`WellLinked` speaks of moments when the lock is free and is not inductive: a
push that links while `tail` is stale must be known to be about to repair it,
and a popped node's link is cleared outside the lock, so it must be known to be
out of the queue by then. `IInv` adds what makes it so: `Holdings` ties what a
thread has in hand to where it is, `OnePlace` keeps queue, ranges and popped
nodes apart, so writing one node's `next` disturbs no other list, and
`ListShape` says how the list looks at every step, the lag of `tail` included.
For `FifoQueue`, `PushLink` is `EffectPush`, `PopHead` is `EffectPop`, `Push`
and `Pop` are the calls, `PushUnlock`, `PopClear` and an empty `PopUnlock` the
returns, all else stutters.

### TwoLockQueue
A pusher and a popper are inside at once, and with the dummy alone in the chain
they work on the same cell. Nobody tests for that; what protects them is where
cells are. `CellsApart` says a cell is at one position of the chain or one
thread's own, `Holdings` that the popper's dummy is `chain[1]`, that it goes on
only with a second cell behind it, and that a pusher's `tail` is the last cell
of the chain except between its link and its assignment of `tail`, and `Locks`
that there is one of each. `NoUseAfterFree` follows: the popper deletes a cell
that has left the chain, and the pusher links from one in it. A push takes
effect at `PushLink`, a pop when `PopData` has moved the value, before `head`
is moved (`Taking` is the difference of one between chain and queue in between),
an empty pop when it reads the null link.

### FiberManager
`IInv` has two halves.

*Fibers* (`FiberInv`): `FibersApart` is `FiberInOnePlace` place by place, so
that an action which moves a fiber between two places has to look at these two
only. `Parked` says a fiber that no thread runs is at its start or where
`NextFiber` resumes it, which is what lets a thread take any fiber from a queue;
`Running` ties `m_currentFiber` and `m_lastFiber` to what the thread executes.
`FibersInOnePlace` then counts: of the five kinds of place, each has at most one
entry for a fiber, and no two kinds meet.

*Tasks* (`TaskInv`): `Stacked` and `Placed` say which frames a stack holds,
where each continues, and that the location of a fiber belongs to its innermost
frame, since a frame is left and entered again, perhaps on another thread, in the
middle of a function. `TasksApart` says that a task is in one queue once or in one frame
of one stack. `ForkedOnce` says that a program's children are new until it has
pushed them and have its counter afterwards; with the tree assumption no other
program can touch them. `Awaited` carries the test of the counter in `WaitTest`
over the steps between it and `DecRef` or `Purge`, which holds because a done
task never runs again. `Purging` says `Purge` runs in main's bottom frame.

`CounterCountsTasks` and `NumTasksCounts` are counting arguments: every action
moves one task (or, in `RunTasks`, the tasks of one array) between the sets whose
cardinalities they speak of, and adds as much to the counter. The second is
stated with the sets `Unannounced` (pushed, not yet added) and `Unfinished`
(queued or begun) because tasks may be begun and finished before they are
announced. In `TaskPool`, `RunTasks` is `Submit`, `PopHigh` and `PopLow` with
a task are `Start`, `DecRef` is `Finish`, `Purge` is `Return`; all other
actions stutter.

The findings about this module are about liveness and contradict none of this.

### FiberService
`RequestsAlive` is inductive with `FibersApart` and `Requesting`, which say
that a fiber waits inside one call while its request is held.
`NumWaitingCounts` is a counting argument again. `NoLostNotification` is not
inductive: the service is safe at its semaphore only if the flag and the
semaphore were right before. `Notifying` says how: a clear flag with a request
in the queue means that somebody has still to exchange it, at any location
from which the service may go to sleep, and a set flag with a semaphore of zero
that the one who set it has still to release.

### MessageProcessor
The ring first, as lemmas about its operators for a ring of any size
(`Rings`: start, end and size fit each other): `WriteAppends`, `SkipDrops`,
`ReadGives` and `PeekedGives` say that each operation does to `Contents`, the
bytes from start on, what its name promises, wherever the two parts lie. The
arithmetic of the wrap is in `WriteArithmetic` and `ReadArithmetic`, about
integers only: that the second part of a write ends before the first byte of the
data, for one, and that a full ring, whose start and end are equal like an empty
one's, is walked around once.

`DeliveredInOrder` alone is not inductive, since it does not mention the bytes
under way. `Delivery` does: the `Pipe`, that is ring, stream and what the sender
has left, holds the frames of the messages behind the `k`-th, the `i`-th of
which ends at `off[i]` of all the bytes ever sent; nothing is missing while the
sender's socket is open, and only the end when a `send` failed. Whatever moves
bytes leaves the pipe as it is (`MovingPreserves`); `SendMessage` puts a frame
behind it, and a turn of `Process` that finds a complete message takes exactly
the next frame from its front (`NextIsNext`, `FrameLeaves`), so the header it reads
is a header. `pick` in `HandledAre` says which of the `k` messages were handled:
those that fit, in their order. The property is stated with these positions and
not with `SelectSeq`, which would need induction. It is about behaviours in
which sizes fit their field (`Framed`); type correctness, and with it the soundness of
the ring, needs no such condition.

### Semaphore, Thread, Connections and Function
These and the following run in `MCResources`, and the theorems are about its
specification `AllSpec`, with the constants of these components left open.

*Semaphore* (`SemaphoreSound`). A unit that a thread has acquired or released is
a pair of the thread and a number (`Moved`), so that a step of `n` units adds a
set of `n` pairs to one side of `Conserved` and to the other, or to the count
(`MovedGrows`, `MovedStays`). `NoSleeperForgotten` is inductive: a thread goes to
sleep in front of zero only, and who makes the count positive is in `notify` and
wakes everyone who sleeps by then.

*Thread*. `OneHandleEach` counts handles; that the count is 0 or 1 is first
put as there being none or exactly one (`NumberOfHandles`, `OneHandle`), which
a swap of two handles leaves alone. `JoinedAreDone` is what makes it
inductive: a thread that was joined does not start again.

*Connections*. Whatever an operation does is
one of two transfers: a Socket closes what it has and gets a descriptor nobody
owns, or one of another Socket, which is then empty (`AssignOwns`,
`TransferOwns`). A new descriptor is the least that is closed; that there is one
is `LeastNumber` of `SequenceLemmas`, proved with a minimal counterexample. `Attempting` keeps the
Socket of an attempt that is over empty, without which the next attempt could
start on a descriptor of an earlier one.

*Function*. A function's `Impl` lies in its own storage or on the heap. `OwnStorage`
says which: a small callable is in the function itself, a large one is in a place
on the heap that no other function points to. That makes `CallsOwnImpl`
inductive, since a step then reaches no `Impl` but those of the functions it names.

### CircularQueue
Positions run modulo twice the size, so that a full queue differs from an empty
one. `Stored` says that as many values as the positions are apart lie behind the
read position; `IsBoundedFifo` follows from it. The arithmetic of the remainders
is in `RingArithmetic`, about integers only: a remainder of a number less than
three times the divisor is one of two subtractions (`RemainderOf`), and the
cell written is none of those that hold a value.

### IntrusiveList
`Linked` says of one list what `LinksAgree` says of both. `OneListChanges`
then is the frame: a step at one list that touches the links only of nodes the
other does not hold leaves the other sound. An action is left with its own
list: which nodes get new neighbours, and that the sequence with one node more
or less is the one these links spell out, at the head, at the tail and, for
`Erase`, between two others.

### The allocators
*LinearChunkAllocator*. `AllocationsApart` needs to know that nothing lies behind
`pos` in the current block and nothing in the blocks behind it, which are used
again after `Clear` (`InUse`). A block put between others moves those behind it
by one (`InsertFacts`) and keeps their ids, by which allocations name them.

*PoolMemory*. `PaddingBounds` is about `writeHeader`: the data begins at the only
multiple of the alignment that is more than the header and at most header and
alignment behind the block's begin. Two blocks of the same alignment, if malloc
keeps it, have the same padding (`PaddingsEqual`), and thus a growing
reallocation copies no more than there is room for. `UsedIsSum` counts bytes as
pairs of a block and a number (`Taken`), so that a block adds and takes away a set.

*PoolAllocator*. The free list is a path through the links, and that no item of it is
lost needs the path: `free` is a history variable with the items in their order,
and `FreeLinked` says that `next` and the links spell it out. `ItemsAccounted` is
inductive with it and with `BlocksApart`, by which a link changed in one pool is
not in the list of another. `PopAccounted`, `PushAccounted` and `FillAccounted`
are the three things that happen to a free list.

### IntrusivePtr
An assignment counts the new object, gives up the old one, and only then writes
the pointer; what it gives up may be deleted, whose member then gives up another,
and so on. In between the counts are not the numbers of pointers. `CountsPointers`
therefore counts the pointer that is assigned to where it will point (`Held`), and
one more for the object whose `decRef` comes next. Whatever is done moves one
pointer (`HoldersChange`, `HoldersMove`). The chain could delete the object whose
member is assigned to; it does not, since pointers make no cycle: `Releasing` has
a set of objects that own nothing outside it, with the chain inside and the
pointer outside (`ChainLeaves`). That users make no cycles, and do not move from a
member of what they release (section 4), are guards of the model.

### Str
A call is a few changes of one string's pointer and one block, made one after
the other on a record of both (`DecRef`, `CopyString`, `CopyData`, ...). `StrSound`
is the invariant of such a record together with what the strings should be; each
change keeps it, for the string it lets go or gives a text (`DecRefSound`,
`ShareSound`, `CopyStringSound`), so that a call keeps it by going through its
changes. The count of a block is the size of a set of strings that gains or
loses one (`SharersCount`). A free block exists since every used one has a string
and there are more blocks than strings (`FreshExists`). `RewrittenSound` needs
what `Unshared` gives: the block written has one sharer.

### BinSearch
`FindsLowerBound` is inductive: what lies before the range is less, what lies
behind it is not. When the range is empty, the elements that are less are exactly
those before it, and their number is the position found (`SmallerOnes`).

### CmdLine
Two indices move over the words: the next word, and the first word behind what
the options took. `Parsing` cuts the words at the index into those that options
took, where every option is served or was short of arguments, and those that
remain, among which is no option. `OptionKeeps` follows an option through its
turn: `AvailableIs` says that the words counted for it are words and not options,
so that the words it takes are skipped with no option among them.

### HashMap
What makes a probe right is `Settled`: from a key's hash to its pair no slot is
free. Then the first slot at which a probe may end is the pair, if there is one
(`SettledProbe`), and what is stored at the end of a probe is settled again
(`StoreSettles`); distances are counted around the table, with the remainders of
`RemainderGoesOn`, a lemma about integers. Storing needs a free slot,
which `Sound` keeps: but for one pair, a table is at most half full, and has
three slots or more.

`resize` fills a new table with the pairs of the old one, and each of these
insertions may call `resize` again. `Refilling` says of each layer that the table
it came from is the one being filled above it, the slots still to come, and the
pair that waits for the layer above; so, by `HoldsPairs`, nothing is lost or
doubled whatever the depth (`PushLayer`, `RefillSets`, `Returns`). The layers
above need not be bounded for this.

`del` breaks `Settled` between its steps. `Deleting` looks at the table from a
slot that is free throughout the loop, which exists since a table never is full
but for the one slot just freed: no pair's way leads across it, so that
distances from it put slots, hashes and pairs in one order. In this order a free
slot on a way is behind the loop and the pair is in front of it. The loop meets
the pair, and either it is in place or it is stored again from its hash
(`LoopSkips`, `LoopMoves`). At the first free slot no way is left that leads over
a free slot, since it would lead over this one (`LoopEnds`). The re-insertion
never makes the table grow here: the load was at most a half before it, because
a pair was removed.

### PrefixTree
`PathsFound` is stated so that it is inductive: every path's node has the value
last set and, for each key, exactly the child that the longer path names, and two
paths have two nodes. Following a path with `get` from the root thus ends at the
node its insertion returned. `ValueIsSet` is about one node given a value, by a
handle or by an insertion that finds the key.

### Only model-checked
* Liveness and what uses fairness: `LockReleased`, `TasksFinish`,
  `SentIsHandled`, `AcquiresReturn`, `RequestsServed`, `StopReturns`. TLAPS
  does not reach them.
* The properties of `toolkit`, which conjoin those of several components each. Of
  these, the modules that recurse over data through `RECURSIVE` operators
  (`TokParser`, `Text`, `Format`, `Utf8`, `Serialize`, `KdTree` and the images) stay with TLC; the others are written
  with folds and recursive functions, of which only what does not need
  induction over data can be proved.

## 6. Plan

1. Done: queues, scheduler, services; semaphore, messages and connections;
   containers, owners, memory; streams, serialization, text; utilities and images.
2. Done: invariants and refinements of both queues and the scheduler, the safety
   of the services, the delivery of messages, the semaphore, threads,
   descriptors and callables, ring and linked lists, the allocators, shared objects,
   the hash map and the prefix tree, shared strings, command lines and binary search, proved.
3. Next proofs, of components of `MCToolkit`: the vectors (`DynAry`,
   `BankedVector`) and `BitVector`, the latter within its limits; they need instances with named variables as
   in `MCResources`.

## 7. Not modelled

* Vectors, matrices, quaternions, curves, colors and filter kernels: functions on
  floating-point numbers without state.
* Clocks, statistics, the shell, `flags.hh`, and the vendored parts (googletest,
  build scripts): calls of the operating system or no program of their own.
* Of modelled components: conversion of numbers to and from text, hash functions
  (any function of the key), color conversion and scaling of images, whole-file
  reading and directory listing, socket options and `select`, addresses as text,
  an error inside a child serializer, elements of an array passed to the array's
  own growing operations, destructors that run when no other thread is left.
* Weak memory effects on plain variables, such as `LockedQueue`'s `m_next`, are
  taken as atomic.

Running: `tlc -config MCToolkit.cfg MCToolkit` in this directory and likewise for
the others; `tlapm IntrusiveQueue_proofs.tla` and likewise for the other `*_proofs`
modules and `SequenceLemmas`.
