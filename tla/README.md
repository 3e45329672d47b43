# Specifications of pyctp

`pyctp` is two Windows programs around CTP, the API of the Chinese futures
exchanges: **ctpmdapi**, a recorder that writes the ticks of every contract to
CSV files, and **pyctpmdapi**, a Python binding of the market-data API. This
directory holds TLA+ models of their code, TLC configurations that check them,
and proofs that TLAPS checks.

## 1. Inventory

### The recorder (`src/ctpmdapi`)

| part | state | operations | met by |
|---|---|---|---|
| `main` (main.cpp) | where it is | trader init and connect, a sleep of 20 s, market-data init, connect, pause, close, return | one thread |
| `MdApi` (mdapi.h, mdapi.cpp) | `_api`, `_queue`, `_t`, `request_id` | twelve `OnXxx` callbacks, `subscribe`, `login`, `close`, `process_task` and its handlers | main, the API's callback thread, the worker |
| tick files (`insert_data`, FileUtil.h) | one CSV file for each contract | make folders, open, header, line | the worker |
| task queue, blocking part (blockingconcurrentqueue.h) | semaphore | `enqueue`, `wait_dequeue` and their try, timed and bulk forms | callback thread, worker |
| task queue, lock-free part (concurrentqueue.h) | streams of blocks, block index, free list, hash of producers | `enqueue`, `try_dequeue`, growth of the index and of the hash | callback thread, worker |
| `tdapi` (tdapi.cpp) | `api`, `request_id`, symbol.csv | log in on connect, query all contracts, append each answer to symbol.csv | its own callback thread |
| `Config` (Config.cpp, Config.h) | map of keys | parse config.ini, `Read`, `Remove`, save | every thread |
| easylogging++ | - | logging | - |

The CTP API calls `OnXxx` on a thread of its own. Each callback wraps its
arguments in a `Task` and enqueues it; the worker, started by `init()`, takes
the tasks in order and handles them: `ON_FRONT_CONNECTED` sends a login, a tick
goes to a file, the rest is only cast. `OnRspUserLogin` also calls
`subscribe()`, on the callback thread. Nothing locks `_api`; `close()` clears it
and the destructor detaches the worker. `tdapi` and `MdApi` meet in the file
symbol.csv, which one writes and the other reads.

The task queue is moodycamel's, kept in the repository. A call of `enqueue`
finds the producer of its thread in the hash, puts the element into the last
block of the producer's stream (a new one comes from the free list and is
entered in the block index) and signals the semaphore; `wait_dequeue` takes a
permit of the semaphore and then an element of some stream.

### The binding (`src/pyctpmdapi`)

| part | state | operations | met by |
|---|---|---|---|
| `ConcurrentQueue` (ctpmdapi.h) | `std::queue`, mutex, condition variable | `push`, `fetch` | callback thread, task thread |
| `MdApi` (ctpmdapi.cpp) | `api`, `task_queue` | twelve callbacks, `processTask` and twelve handlers, requests, `release`, `join` | callback thread, task thread, the Python main thread |
| `MdApiWrap` | - | looks up and calls the Python overrides | task thread, under the GIL |

### What is hard, and what correct means

* *Queues.* No lost wakeup, every task once and in order, a callback is never
  held up.
* *Lock-free structures.* Whatever an atomic operation overtakes: no permit
  without an element, no element taken twice, no block handed out twice or lost,
  no thread with two producers, every search of a hash ends; also when an
  allocation or a constructor fails half way and when indices wrap.
* *The session.* The worker learns of connections late. Every connection is
  logged in on and subscribed, no tick is lost or doubled in between, `_api` is
  not used before it is set nor after it is released.
* *The callback thread.* `subscribe()` runs on it: while it does not return the
  API can report nothing.
* *Files.* The process may be killed between any two writes; the format of a
  tick file must survive the restart. A configuration must load as it is
  written.
* *The symbol file.* Removed and rewritten by one API while the other may read
  it, with a sleep as the only synchronisation.
* *The GIL.* Python objects are only touched under it; whoever keeps it while
  blocked stops every callback.

`PROJECT.json` lists these hazards at their lines.

## 2. Modules

```
MdSession ----- MdSessionProofs      main, callback thread, worker of the recorder
TickFile ------ TickFileProofs       one tick file, kills and restarts
ContractList -- ContractListProofs   trader API, symbol.csv, subscribe()
ConfigFile                           Config and the two logins that read it
   both in MCRecorderFiles

TaskQueue  <--- PyTaskQueue - PyTaskQueueProofs     the binding's queue
  (promise) <-- MCBlockingQueue ---- BlockingQueue  the recorder's queue,
                  BlockingQueueProofs                  of permits and streams:
Semaphore  <--- LwSemaphore                            its semaphore,
                ImplicitQueue (MCImplicitQueue)        one of its streams,
                  - ImplicitQueueProofs
                FreeList                               its blocks,
                ProducerHash                           its producers
   FreeList, LwSemaphore and ProducerHash in MCQueueParts - QueuePartsProofs

PyMdApi ------- PyMdApiProofs        callbacks, task thread, GIL of the binding
```

**TaskQueue** is what both programs ask of a queue: `accepted`, the tasks
enqueued, and `delivered`, a prefix of it that `Deliver` extends by one; under
fairness it is extended until it is equal. MdSession and PyMdApi take it for
granted: their queue is an atomic sequence.

**PyTaskQueue** has one action for each access of `push` and `fetch` to the
mutex, the condition variable and the `std::queue`: lock, push and unlock,
`notify_one` *after* the unlock; lock, test, wait (which gives up the mutex),
wake (also spuriously), take the mutex again, copy the front, pop. The code has
one producer and one consumer; the model takes any number of both.

**MdSession** has one action for each statement of `main`, `connect` and `close`
that another thread can see, for each kind of callback (the eight that only push
are one action), for the two steps of `subscribe()` and for each kind of task
the worker handles. `front` is the connection: "lost" is the time in which it is
broken and the API has not yet called `OnFrontDisconnected`, because its thread
is still in another callback or simply has not come to it. `CallApi` is a call
through `_api`: fine when the object lives, the end of the process through null,
either outcome through an uninitialised or freed pointer. After `MainReturn` the
members, queue included, are destroyed while the worker runs on until
`MainExit`. A worker that waits in the destroyed queue, or a `subscribe()` that
fills memory, may crash the process. The loop of `subscribe()` ends at `eof`: it
does not when the file is missing, nor when a line does not fit into its buffer
of 128 bytes (`long_line`), after which every `getline` fails (`Readable`).

**TickFile** follows one tick from the folder to the closed stream. `Killed` may
come at every step; a line is written out by its `endl`, so a kill leaves whole
lines. Header and lines have sizes in bytes, because `insert_data` decides on
the header by `static_cast<int>(f.tellp())`: `IntValues` stands for 2^32.
`OpenFails` is a folder that is missing or a file that another program has open.

**ContractList** puts the callbacks of `tdapi` that change something (connected,
disconnected, login response, answer to the query) beside `subscribe()`, which
opens symbol.csv, reads it line by line and closes it when it has made its
request. `RemoveFile` fails while `subscribe()` has the file open, as `remove()`
does on Windows. The login response is handled without a look at its error, so a
refused login also removes the file (`LoginReply`), and the query without a
session may be answered with a null contract, which `OnRspQryInstrument` reads
through (`AnswerNull`). main starts the second API whenever its sleep is over:
the model gives the 20 s no length. A file of another day is there or not, and
names any contracts, current ones and expired ones. The history `origin` says
of each line which connection's query it answers.

**ConfigFile** has one action for each turn of the two loops of `operator>>`,
with the stream's `eof` and `fail` as `getline` leaves them, and the line that
the inner loop reads ahead; `operator<<` with a reload; `Remove`, where a
missing key is an `erase` of `end()`; and the two logins. A line is its key, its
text and whether a comment follows, a value the sequence of the lines it goes
over.

**Semaphore** counts permits signalled and acquired. **LwSemaphore** has one
action for each atomic operation of LightweightSemaphore on `m_count` and for
each call of the kernel semaphore: the fast path, the spin, the announcement by
a count below zero, the sleep, and after a timeout the loop that takes the
announcement back or finds that a permit has come for it. `try`, `timed` and
`forever` are the three kinds of calls. It implements Semaphore.

**BlockingQueue** is `enqueue` and the dequeues over that semaphore. A stream is
the four counters of its producer. A consumer takes permits, scores the streams
(`try_dequeue` compares three), and claims elements of one: `Check` reads the
counters, `Claim` is the `fetch_add` of `dequeueOptimisticCount`, `Decide` looks
at what it got and gives the rest to `dequeueOvercommit`, `Take` is the
`fetch_add` of `headIndex`. A failed look starts again, as the loops around
`try_dequeue` do. The streams are numbered in the order in which `AddProducer`
puts them in the list; `listed` is the newest, where every search begins.

**ImplicitQueue** opens one stream: the blocks, the circular block index that
grows by copying, indices that wrap (`IndexValues` stands for 2^32 or 2^64),
single and bulk enqueues with the failures of an allocation or of a constructor
and their undoing, and the dequeues: the loads of `tailIndex`,
`dequeueOvercommit` and `dequeueOptimisticCount` that tell whether and how much
to claim (`DequeueCall`, `LoadOvercommit`, `LoadCount`), the claim, the second
load of `tailIndex` (`Decide`), what is given back (`GiveBack`), and the way to
the block and its return to the pool.

**FreeList** is the pool of blocks: `add`, `try_get` and
`add_knowing_refcount_is_zero`, with the reference counts that stand against
ABA.

**ProducerHash** is `get_or_add_implicit_producer`: search, copy from an older
table, count, resize under the flag, failed allocations, insertion, and the list
of producers that `add_producer` extends. What a search reaches through `prev`
(`Older`) and a consumer through `next` (`Behind`) are least sets closed under
the link, as is `Listed` in FreeList: a definition without recursion, which
proofs can use.

**PyMdApi** keeps for each kind of callback which of the two `boost::any`
members it fills (`Filled`), which its handler casts (`Cast`) and whether the
wrapper calls the override or only looks it up (`Invoked`). The main thread and
the task thread pass the GIL to each other; an override may make requests,
release the API and be switched out. `join()` waits with the GIL. The methods
look at nothing before they use `api`: `Start`, `ReqUserLogin`, `Release` and
`Join` may be called before `createFtdcMdApi()` has set the pointer and after
`release()` has freed its object; such a call is remembered in `misused` and may
end the process (`CallApi`). One API object lives at a time: a second
`createFtdcMdApi()` beside a living one is left out. The queue is the atomic
sequence that PyTaskQueue implements.

### How the parts of the recorder's queue are put together

LwSemaphore gives BlockingQueue its permits, ImplicitQueue opens one of its
streams, and FreeList and ProducerHash give ImplicitQueue an atomic pool and its
one producer. Each module uses the result of the one below as atomic operations,
and the product of all is never built: it is far out of TLC's reach. For the
semaphore that step is a proved refinement; for the other parts it rests on
their invariants, with no refinement between the modules.

Modules that share no state are checked in one run, in which a behaviour follows
*one* of them while the others keep their initial state: the variable `part` of
**MCQueueParts** chooses semaphore, list or hash, `which` of **MCRecorderFiles**
contracts or configuration, `recorder` of **MCBlockingQueue** the general queue
or the queue as the recorder uses it, and `long` of **MCImplicitQueue** many
elements with one consumer call at a time (so that indices wrap) or few with
several. The reachable states are the union of those of the parts, not their
product, and the invariants say of each part what they would say of it alone.

### Granularity and memory

An action of a lock-free module is one access to what the threads share; a load
and the compare-exchange that succeeds on the loaded value are one action, since
a value that changed in between makes it fail and be tried again. Where ABA
would make that unsound (the head of the free list, whose `next` is read in
between) the steps are apart. Some steps are coarser. In ImplicitQueue, taking
back an insertion that failed is one action for the entry's value, the tail of
the index and the block, and so is counting the places of a block that one
consumer has emptied. BlockingQueue's `Check` reads the counters of a stream at
once; ImplicitQueue has its three loads apart. Memory is sequentially consistent: the acquire and
release orderings of the code are taken to do what they are for, and nothing
here speaks of a weaker machine.

### External code

Modelled from the way the code uses it: the CTP APIs (one callback thread each,
a connection that comes and goes, an answer for every login while the connection
lasts, silence after `RegisterSpi(nullptr)`), the interpreter's thread switch,
the file system, `getline`, the kernel's semaphore, and the operating system's
kill. The kernel's semaphore is that of the Windows build and ideal: a timed wait
ends with a permit or says that it timed out. The POSIX branch of the header does
not keep that at one value: when the nanoseconds come to exactly 10^9
(blockingconcurrentqueue.h:219) `sem_timedwait` fails with EINVAL, and
`timed_wait` returns as if it had a permit. The recorder is not built there.

## 3. Runs

| run | what it shows |
|---|---|
| py_queue | mutex, front and wakeups of ConcurrentQueue; it implements TaskQueue, liveness included; `push` always returns |
| md_session | the session under every interleaving of its threads |
| md_session_no_file | *violated*: without symbol.csv the API cannot reconnect (see 6) |
| py_mdapi | GIL, order of the overrides, what can end the process, what keeps callbacks from being handled |
| py_mdapi_login | *violated*: a login response ends the process |
| py_mdapi_overrides | *violated*: two overrides are never called |
| tick_file | header, order and loss of lines over kills, failures and the wrap of the size |
| queue_parts | the semaphore counts right, loses no wakeup and implements Semaphore; the free list and the hash of producers are sound |
| blocking_queue | permits and elements match, a permit is served in the end; as the recorder uses it the queue implements TaskQueue, liveness included |
| implicit_queue | a consumer finds the block and the elements it claimed; blocks are neither lost nor reused early |
| recorder_files | what symbol.csv names and what `subscribe()` reads of it; what Config loads and saves |
| config_file_user | *violated*: the two logins read different users |

**Bounds.** `py_queue`: two producers with two pushes each and two consumers, so
that two consumers wait when one push notifies, and one is woken by a push whose
task another has taken. `md_session`: two connections, so that the worker can
hold the news of the first while the second is up, and two logins can be sent on
one connection; two symbols with two ticks each, so that order and mixing show;
one other callback; every symbol file over the symbols, with a line that is too
long or without, and none. A connection
is only lost while another is left, so that the bound never looks like an API
that does not reconnect. `py_mdapi`: three callbacks of the code's twelve kinds
(connected, login response and one behind it) and two requests. `tick_file`:
four ticks of 2 or 4 bytes, a header of 3 and an int of 7 values, so that a file
of exactly 7 bytes occurs; two kills or failures.

`queue_parts` (about 822 000 states): two waiters and two signallers with three
permits, two at most in a call, so that a bulk wait is cut short, a timeout
meets a signal and a signal wakes two; three threads and two blocks, so that a
head can be taken off and put back while a third thread holds a reference to it,
and 5 for the flag SHOULD_BE_ON_FREELIST, which need only be above what three
threads can count (the code's is 2^31, and the proofs ask for no more);
a hash of two slots that grows twice for three threads, with every collision of
two slots and one failed allocation. `blocking_queue`: two streams of two
elements and two consumers, single and bulk, so that both overshoot on one
stream and the elements are in the other; ten tasks for the recorder.
`implicit_queue` (about 1 361 000 states): blocks of two, three blocks, an index
of two that grows once, indices modulo 8 (a multiple of all sizes, as 2^w is)
and 14 elements, so that they wrap; enqueues of 1 and 3, dequeues of 1 and 2, so
that a bulk goes over blocks and fails in the middle; in short behaviours five
elements and both consumers at once. A call reads `dequeueOvercommit` and claims
later; were half of all values of an index_t given back in between, the circular
comparison would take what was claimed for what is free. `MaxLate` bounds how
much that is, in the guard of `GiveBack`, which waits for the slow call: 2 in the
run, so that its claims and MaxLate stay within half of 8 as `ClaimsAssumption`
asks. The code gives back without such a guard; it would take 2^31 or 2^63
elements, given back while one call sleeps between two of its loads, to get there.
`recorder_files` (about 509 000 states):
two contracts and one expired, a file of another day of up to two lines over all
three, three connections of the trader API, two
subscriptions, one failure; every file of up to three lines over two keys, two
texts, comments and blanks, ended by a newline or not, then another load of one
line, or a reload of what was saved.

**Symmetry** is used in queue_parts (threads of list and hash, blocks) and in
implicit_queue (consumers, blocks): the modules never choose among them by name.
Neither run has a liveness property.

**Deadlock** is checked in py_queue, where a consumer that waits can always be
woken spuriously, so that no state is without a successor. The other runs end:
the process exits, crashes or waits for input (md_session, py_mdapi), or the
bounded ticks, permits, elements, threads and loads are used up (tick_file,
queue_parts, blocking_queue, implicit_queue, recorder_files).

**Fairness.** Threads that can run do run (weak fairness); a thread that keeps
asking for a mutex or the GIL gets it (strong fairness: Windows mutexes and the
GIL are handed on, and the interpreter switches threads after a fixed interval).
In MdSession and ContractList the API reports a lost connection and connects
again, and the server answers while the connection lasts: that is what
mdapi.h:98-102 says of it. In MCBlockingQueue a thread inside the queue runs on,
a waiting one is let through while there are permits, and the worker calls
`wait_dequeue` again, as its loop does; no fairness makes a look at the streams
succeed. No fairness is assumed for what need not happen: a tick, an enqueue, a
subscription, the loss of a connection, a timeout, the key that ends the pause,
a call of the binding's API, a spurious wakeup, a crash. queue_parts and
implicit_queue have no fairness: lock-freedom promises progress to some thread
and not to each.

## 4. Properties

*py_queue.* `CriticalSections` (one thread in a critical section, and nobody
changes the front between `front()` and `pop()`), `NoLostWakeup` (while a
consumer sleeps there are at least as many threads about to notify or awake as
there are tasks), `ImplementsTaskQueue`, `PushReturns`.

*md_session.* `LoginFollowsConnect`, `SubscribeInSession`, `NoTickLost` (file,
worker and queue together hold exactly the ticks received, in order),
`CrashOnlyInClose`; `SubscribedInTheEnd`, `TicksAreWritten`, `Reconnects`. The
last three except what the code does not provide for: a refused login (never
retried), the end of the program, and a symbol file that is missing or has a line
longer than the buffer. `CrashOnlyInClose` confines the races of `close()` and of
the destructor (mdapi.cpp:176, mdapi.h:69) to the time from `close()` on; there
they do end the process.

*tick_file.* `WellFormed` (the header comes first), `OneHeader` (until the size
reaches the range of the int), `LinesAreTicks`, `LossNeedsFailure`,
`AppendOnly`.

*recorder_files.* `FileFollowsQuery` is five facts. An answered query leaves a
complete file unless it could not be opened (`CompleteWhenAnswered`). The running
query has added exactly the contracts it was answered with so far, fewer if the
file could not be opened, none twice, and behind all older lines
(`AsFarAsItGot`). The file has lines of one origin only, those of the query
while one runs, *unless* `remove()` last failed because `subscribe()` held the
file: then older lines stay before the new ones (`OneListUnlessHeld`). What
`subscribe()` has read is a beginning of the file as it is now
(`ReadsFileFromStart`); so it is of one list just when the file is, and it reads
two as one in the case excepted. The file is missing only before the first query,
before its first answer, or after a refusal or a failed opening
(`MissingBeforeAnswer`). `FirstListStays`: with one connection, a list that was complete is
complete whenever it is opened. With a second connection that is false (see 6).
`ListedInTheEnd`: a connection that lasts gets its complete file.
`LoadedAsWritten` compares `operator>>` with the reference `Reference`;
`SavedIsLoaded` is the round trip through `operator<<`, which the programs do not
call yet.

*queue_parts.* `CountsMatch` (every permit is in `m_count`, taken, or owed to a
thread already counted off; the kernel's permits match the sleepers),
`NoLostWakeup` (a thread sleeps with nothing on its way to it only when every
permit has been taken), `ImplementsSemaphore`; `ListIsSound`, `NoneLostAtRest`;
`OneProducerEach`, `HashIsSound` (with the code's own claim that a slot is
always free).

*blocking_queue.* `PermitsMatchElements` (as many elements as permits, in the
semaphore, in calls or still to be signalled; none is taken twice; no failed
claim hides one from later ones), `PermitsAreServed`, `ImplementsTaskQueue`.

*implicit_queue.* `IndexIsSound`, `RightElement` (the content moved out is the
element claimed, in order), `BlocksAreKept` (at rest every block is in the pool
or is one the destructor walks to, and is not both).

*py_mdapi.* `GilIsHeld`, `OnlyLoginTerminates` (only the handler of the login
response ends the process, or Python itself with a call through an `api` that is
no object: such calls, also those of an override after `release()`, are
excepted),
`SeenInOrder`, `HandledUnlessJoined` (excepted is the deadlock of `join()`,
which the model has).

## 5. Proofs

All are for every value of the constants, from the ASSUMEs of the modules
(disjoint finite sets of threads, bounds that are natural numbers, `None` that
is no symbol, sizes that are positive with a header smaller than the range of
int, contracts that are not expired, fewer threads than the flag of the free
list lets it count, hash values that are numbers and a first hash table of two
slots or more; blocks of more than one place, indices that count a whole number
of the largest block index and two blocks at least, and of which all calls but
one claim, with MaxLate, no more than half at a time).

* **PyTaskQueueProofs.** `SectionsExclude`: types, mutual exclusion and the
  unchanged front form an inductive invariant, `CriticalSections`, with
  `PushesInBound`. `WakeupsReachTheQueue`: on top of it, each step is followed
  through the two sides of the inequality between the length of the queue and
  the number of awake threads. `QueueImplementsTaskQueue`: with `accepted`
  mapped to `delivered \o event_queue`, a push is an `Accept`, a pop a
  `Deliver`, and the rest stutters.
* **MdSessionProofs.** `IInv` adds `BuiltInOrder` to the properties: before the
  API runs there is no callback and no task, and from `connect()` until
  `close()` `_api` points to the running object. Hence `ApiIsUsable`, from which
  the absence of crashes and the effect of a login follow. `TypeCorrect`,
  `LoginsFollowConnections`, `SubscriptionsHaveSession`, `ApiIsSafeUntilClose`.
  `TicksAreKept` (`NoTickLost`): the ticks of a symbol that are queued or in the
  worker's hands are those behind the lines of its file, in order. Stated of
  positions and not of a filtered sequence it is inductive with the types.
* **PyMdApiProofs.** `BindingType`, `PythonIsExclusive`,
  `OtherCallbacksAreSafe`; the last by `OnlyLoginThrows`: every handler but one
  casts no more than its callback fills, and every other step that can end the
  process is a call of Python's that sets `misused`. `PythonSeesInOrder` (`SeenInOrder`): a
  callback is found in what Python saw at its rank, the number of invoked ones
  up to it, so that no sequence is filtered. `SeenInv` adds that the override
  which runs is of an invoked kind.
* **TickFileProofs.** `FilesBeginWithHeader` needs that a file is empty exactly
  when its size is 0 (`FileInv`), which holds whatever the sizes are.
  `HeadersAreFirst` (`OneHeader`) needs that the header of a file that is not
  empty is only about to be written when its size has reached IntValues
  (`HeaderInv`): a positive multiple is not smaller. `LinesFollowTicks`
  (`LinesAreTicks`) needs that only a tick that is done with is lost and that
  the one in the worker's hands is behind all that are (`LinesInv`).
  `LossesHaveACause`; `FilesOnlyGrow`.
* **ContractListProofs.** `ListFollowsQuery`: FileFollowsQuery with `QueryInv`,
  which says how far a query has come: the login that removes the file is behind
  a query that runs, a refused login leaves nothing to be answered, and no line is
  of a connection before its query. `FirstListIsKept` adds `FirstInv`: on the first connection
  nothing is complete before the one query, which comes after the one removal.
* **BlockingQueueProofs.** `PermitsAreKept` (`PermitsMatchElements`). That no
  element is taken twice and no permit lacks one rests on claims made in any
  order: a consumer reads `dequeueOvercommit`, then adds what it wants to
  `dequeueOptimisticCount`, and only then learns what it is granted. The
  invariant is about each stream: the optimistic count is what is taken or
  granted, given back and still claimed (`CountInv`); open claims are disjoint
  ranges of it (`RangeInv`); and there is a point up to which every open claim
  can be granted in full, behind which a claim is granted no more than what is
  left after all that begin before it (`ClaimInv`). `Total` counts units by a
  cardinality, so that sums over consumers need no recursion.
  `BothUsesKeepPermits` says the same of the run's specification.
  `RecorderImplementsTasks`: with the one stream and single elements an enqueue
  is an `Accept`, a `Take` that got its element a `Deliver`, the rest stutters.
* **QueuePartsProofs.** The semaphore, the free list and the hash of producers;
  that a behaviour of the run is one of all three parts is `EveryPartIsSound`.
  + `CountsAlwaysMatch`: each of the two equations of CountsMatch breaks without
    the other (a signal releases by what the count says of the sleepers),
    together they are inductive. The steps are followed through the
    cardinalities of the waiting threads and of the permits that signallers owe.
    `SleepersAreWoken` follows from the two equations; `SemaphoreImplemented`:
    taking permits from `m_count`, or one from the kernel, is an `Acquire`, the
    `fetch_add` of a signal a `Signal`, the rest stutters.
  + `ListStaysSound` and `NoNodeIsLost`. The list is a chain from the head
    (`StackInv`), and each block is in exactly one place, which tells its count
    (`NodeInv`): never used or with an owner, the references taken to it; on the
    list or between its link and its push, one more; waiting to be added, the
    flag and the references, until a thread that finds none adds it. `ThreadInv`
    is what makes ABA harmless: between the reference it takes and its
    compare-exchange a thread's copy of `freeListNext` is still the block's.
  + `OneProducerForEach`, `HashStaysSound`. `HashInv` says of the tables that
    newer ones are not smaller and that only the one who holds the flag has made
    one that is not the main table yet (`TablesAre`, `OneResizes`); of the keys
    that a thread is in a table once and that a search for it meets no empty
    slot before it (`KeysAre`); of a call how far its search has come and that a
    thread which is still to register is in no table (`CallIs`); of the list
    that every producer is on it but those whose compare-exchange is to come
    (`ListIs`); of the count that it is the number of threads registered or
    being registered, and that no more than n have a key in a table, or may
    still put one there, of those that were told a count up to n, where n + 1
    is three quarters of the table (`CountIs`). With it a slot is free by the
    pigeonhole principle: a full table would have a key twice. That resizing
    doubles the capacity until it is enough uses 2^k > k, which is proved by
    counting the subsets of an interval, in place of an induction.
* **ImplicitQueueProofs.** What wraps is followed by numbers that do not: the
  invariant names them with quantifiers, each index is the wrapped value of one,
  and two of them that are near enough are equal when their remainders are.
  Every step is proved to keep the invariant with the same numbers or new ones.
  + `NoMoreIsClaimed` (`ClaimedIsEnqueued`). The claims of all calls are ranges
    on a line of numbers (`ClaimsInv`): those open are disjoint, no call can be
    granted what lies beyond the last element, and what a call read of
    `dequeueOvercommit` is at most MaxLate behind when it claims. Nothing rests on
    what it read of `tailIndex` before: however old, it only bounds the claim. So each circular comparison
    of `dequeue` and `dequeue_bulk` compares numbers less than half the range
    apart.
  + `IndexStaysSound` (`IndexIsSound`). Blocks are numbered in the order of
    their elements (`Numbers`), and the test for room keeps the numbers in use
    within half of an index_t (`InRange`). Block k is in slot k + o modulo the
    capacity of every index that has it, with an o for each (`Ring`); its key is
    that of its number, its value the block until the consumer that empties it
    takes it out. Older indices agree with the newest on what both have
    (`Nested`), so a consumer may go on with one that was replaced. Growth moves
    the live entries to the front of the new index, another o; taking back a
    failed insertion leaves an entry that the next one overwrites.
  + `ElementsInOrder` (`RightElement`). A consumer holds the elements behind the
    ones claimed before (`Holds`) and has found the block of their number
    (`Finds`); the places of a block contain its elements (`Contents`). The
    block goes back to the pool only when all its places are counted as emptied,
    and a place is counted after it has been emptied (`Counted`): no block is
    filled anew under a consumer.
  + `NoBlockIsLost` (`BlocksAreKept`). A block has at most one number, is with
    the producer and about to be linked, or in the pool (`Allocated`, `Placed`,
    `TailBlock`), through the failures of an allocation or a constructor and
    their undoing. At rest that leaves the blocks the destructor walks to.

  A stream whose first index could not be allocated is never enqueued to; it is
  treated apart (`Empty`). The run's MCSpec only takes steps of Spec, for which the four
  theorems are stated.

Only model-checked:

* liveness, which is out of TLAPS's reach together with ENABLED: `PushReturns`,
  `SubscribedInTheEnd`, `TicksAreWritten`, `Reconnects`, `HandledUnlessJoined`,
  `PermitsAreServed` (for two consumers; of more nothing is claimed),
  `ListedInTheEnd`, and the liveness halves of the two refinements of TaskQueue;
* `LoadedAsWritten` and `SavedIsLoaded`, whose reference folds sequences:
  induction over data is out of the provers' reach.

## 6. Findings

1. The binding's `OnRspUserLogin` never sets `task_error`, and
   `processRspUserLogin` casts it: the first login response ends the process
   (py_mdapi_login).
2. `onFrontConnected` and `onFrontDisconnected` of the wrapper look the override
   up without calling it (py_mdapi_overrides).
3. When symbol.csv cannot be opened, or one of its lines is longer than the
   buffer, `subscribe()` loops for ever on the API's callback thread, and a lost
   connection is neither reported nor replaced (md_session_no_file), against
   mdapi.h:102.
4. `MdApi::login` reads the key `investorId` (mdapi.cpp:215), while
   config.ini:10 and `tdapi::login` (tdapi.cpp:49) have `investorID`; `Read`
   falls back to the empty string (config_file_user).

Observations that modelling brought up, for which no line of the repository says
otherwise; the properties are worded around them:

* A last line that continues a value and has no newline is added to the value
  twice: the `getline` that fails leaves `nextline` as it was
  (Config.cpp:102-108, `BreaksOff` in ConfigFile).
* A reconnection of the trader API removes a symbol.csv that was complete
  (tdapi.cpp:93, on every login response, tdapi.cpp:124): a `subscribe()` then
  finds it missing, and never returns, or short. After a refused login it stays
  missing on that connection.
* If `subscribe()` holds symbol.csv when the query wants to remove it, the new
  list is appended to the old, and `subscribe()` reads both as one.
* `assert(overcommit <= myDequeueCount)` (concurrentqueue.h:2480) compares
  counters that wrap with an ordinary `<=`, where the code around it uses
  `circular_less_than`: in a build with assertions it may fail after a wrap.

## 7. History of the plan

Done: TaskQueue, PyTaskQueue, MdSession, TickFile, PyMdApi and their proofs;
then the semaphore with its proofs, the blocking queue, the stream with its
block index, the free list and the hash of producers; the contract list with its
proofs and the configuration; then the proofs about ticks and lines in a form
without a filter, the blocking queue with its refinement, the free list and the
hash; last the proofs of the stream. Open, in this order:

1. A refinement of the streams of BlockingQueue by ImplicitQueue, and of a free
   list that is a set by FreeList, as PROPERTY of a run.
2. ConfigFile: the part of `LoadedAsWritten` that needs no fold.
3. ExplicitProducer and the tokens, should the recorder come to use them.

## 8. Not modelled

* Of the task queue: producer and consumer tokens with ExplicitProducer,
  `try_dequeue_non_interleaved`, swapping and moving of queues, and statistics
  (MemStats): the recorder makes no token and calls none of it. Weaker memory
  than sequential consistency. That some thread always makes progress in the
  free list and the hash.
* Of the recorder: `logout`, `join`, `release` and `getTradingDay` of MdApi and
  `logout` and `close` of tdapi, which nothing calls; callbacks of tdapi that
  only log; Config's `Add` and `ReadInto`, templates that nothing instantiates;
  the null pointers that the API may pass to the recorder's callbacks
  (undocumented); the columns of the CSV line.
* Of the binding: the conversion of fields to Python dicts (layout, no control)
  and requests that only pass their arguments on.
* easylogging++ (third-party; no state of the program depends on it), the DLL
  entry and precompiled headers.
