# A verification development for libtrace (`libtrs`)

libtrace processes side-channel traces through a chain of *trace sets*. A
source set reads a file or a network peer; every other set applies a
*transformation* (`tfm_*`) to the set before it. Nothing is computed until
somebody asks for a trace: `trace_get(set, index)` looks in the set's cache,
otherwise calls the transformation, which calls `trace_get` on the previous set,
and so on down to the backend. The demand comes from a pool of render threads or
from an export server, so every layer is entered by many threads at once, and
almost every layer holds state that those threads share.

## 1. Inventory

| component | source | state it keeps | operations | hard behaviour |
|---|---|---|---|---|
| trace cache | `lib/trace/cache.c` | per set: lock, valid/lru/refcount/trace per way; one cache lock | `tc_lookup`, `tc_store`, `tc_deref`, `tc_free` | set lock kept from a miss until the store; `uint8_t` counters; lock order; error returns that keep a lock |
| trace access | `lib/trace/trace.c` | the trace object (owner, index, buffers) | `trace_get`, `trace_free`, `trace_copy` | ownership passes between caller and cache; failure paths free |
| trace sets | `lib/trace/trace_set.c` | chain of sets (prev, tfm, cache, backend) | `ts_open`, `ts_close`, `ts_transform` | teardown order, teardown that waits for threads |
| render pool | `lib/trace/frontend/render.c` | done semaphore, per worker: signal semaphore, index, return code | `ts_render`, `ts_render_async`, `ts_render_join` | token accounting, worker death, shutdown racing with work |
| export server | `lib/trace/frontend/export.c` | list of client threads, sockets | `ts_export(_async)`, `ts_export_join` | reaping of finished threads, one client's failure |
| network backend | `lib/trace/backend/backend_net.c`, `lib/platform/secure_socket.c`, `platform_socket.c` | a connection per read | `open`, `read` | lost connection between request and answer |
| trs backend | `lib/trace/backend/backend_trs.c`, `riscure_trs.c` | file, offset, header list, number written | `open/create/close/read/write` | crash between trace and header; error return that keeps the file lock |
| ztrs backend | `lib/trace/backend/backend_ztrs.c` | file cursor and the `position` that describes it | `read/write` | cursor and `position` must agree after every path |
| save | `transform/system/tfm_save.c` | sorted commit queue, commit thread, sentinel, counters | `get`, commit thread, `exit` | out-of-order completion, end of stream, thread join under a lock |
| synchronize | `transform/system/tfm_synchronize.c` | list of requests in flight, list of stalled requests | `get` | missed and premature wake-ups |
| wait_on | `transform/system/tfm_wait_on.c` | per port: cache of pushed traces, list of wanted indices | `push`, `get` | wake-up racing with eviction; request for what never comes |
| visualize | `transform/system/tfm_visualize.c` | list of partially filled plots, draw thread | `get`, draw thread, `exit` | slot filled outside the lock; join of a thread that never ends |
| block | `transform/tfm_block.c` | list of open blocks, next source index, next result index | `get` (accumulate, finalize) | a block completed while another is still unconsumed |
| reduce/select/sort | `transform/block/*.c` | per block accumulators | initialize/accumulate/finalize | several results per block |
| extract | `transform/extract/*.c` | match lists of one trace | search matches, gaps, tail | interval arithmetic at the ends |
| stream tfms | `tfm_align.c`, `tfm_match.c`, `tfm_average.c`, `tfm_verify.c`, `trace/*.c`, `tfm_nop.c` | none or a lazily read reference | `get` | references leaked on early return |
| power analysis | `transform/power_analysis/*.c` | accumulator per thread | `get`, pushes to `wait_on` | producer of `wait_on` |
| statistics | `lib/stats/*` | running sums | accumulate, get, get_all | the order of updates, lanes and remainders |
| configuration and main | `main.c` | parsed pipeline | parse, run, join, close | order of join and close |
| platform | `lib/platform/platform_sem.c`, `platform_thread.c` | - | semaphores, threads | return conventions |
| crypto | `lib/crypto/aes.c` | - | AES round functions | - |
| list | `include/list.h` | intrusive list | kernel list | vendored |

### How the parts interact

- **Calls.** A consumer (the render pool, the export server, or a transformation
  that fetches from the set before it) calls `trace_get(set, index)`. `trace_get`
  calls `tc_lookup`; on a miss it computes the trace with `tfm->get` or
  `backend->read` and calls `tc_store`; `trace_free` calls `tc_deref`.
- **Shared state.** Everything that belongs to a set is shared by all threads that
  enter it: its cache, the state of its transformation, its file and its
  `num_traces`.
- **Callbacks.** `tfm_next` of a set is called by its transformation to push
  intermediate results forward (correlation progress, debugging traces of an
  extraction); only `tfm_wait_on` registers one.
- **Threads.** A render has a controller and `nthreads` workers; `tfm_save` has a
  commit thread, `tfm_visualize` a drawing thread, the export server a thread per
  client. All synchronise with semaphores; there are no condition variables, and
  a lock is a semaphore that is 1 when free.
- **Ends.** `main` starts all renders and servers, joins them one by one and then
  closes the sets from the last to the first. A set whose number of traces is not
  known ends when `tfm_save` sets `num_traces`.

### What makes each part correct

| component | properties |
|---|---|
| trace cache, trace access | nobody uses freed memory; the reference count is the number of holders; one trace per index; nothing is lost; every get returns; it behaves as an atomic LRU cache |
| render pool | every index is rendered exactly once; the tokens of `done_signal` are exact; no worker outlives the shared arguments; a failure is reported; the render ends |
| save | no trace is lost or duplicated between the set before and the file; what is read back was written; who waits for the end is told; close returns |
| synchronize | entries count their users; no wake-up is lost; nobody is left stalled |
| wait_on | no push is missed; what is read stays; a get fails or waits only for what is gone |
| visualize | a drawing shows each trace of its block once; a block that is full is drawn; the draw thread and the getters never meet at a freed entry |
| block and its operations | every trace of the set before is used once; an index that is promised has its block; the best comes first; a set ends only when its traces do |
| trs, ztrs | what is read is what was written at that index, whatever the order of accesses and wherever the program stops |
| extract | a trace that is given carries the data of its run; a trace that is accepted has all its runs |
| statistics | what is given is what a definition over all observations makes it, for every capability and shape |

## 2. Plan

Each component has one module that is written to be checked and proved:
parameters are constants with named assumptions, an action is one critical
section or one blocking call, and invariants are conjunctions of named parts.
`X.tla` with `XProofs.tla` beside it is the pattern; `MCX.tla` gives the
constants that a configuration cannot write.

| step | modules | state |
|---|---|---|
| 1 | `LruPolicy`, `TraceCache`, `SharedCache`, `TraceCacheRefinement`, `TraceCacheProofs` | checked and proved |
| 2 | `RenderPool`, `WorkerPool`, `RenderPoolRefinement`, `RenderPoolProofs` | checked and proved |
| 3 | `Synchronize`, `SynchronizeProofs` | checked and proved |
| 4 | `SaveQueue`, `CommitLog`, `SaveQueueRefinement`, `SaveQueueProofs`, `WaitOn`, `ResultBoard`, `WaitOnRefinement`, `WaitOnProofs` | checked and proved |
| 5 | `TraceFile`, `TraceFileProofs`: the two kinds of file, with crashes | checked and proved |
| 6 | `Blocks`, `BlocksProofs`: the block transformation and its four consumers | checked and proved |
| 7 | `Extract`: the search for runs in one trace | checked |
| 8 | `Statistics`: the accumulators and the match of a pattern | checked |
| 9 | `Visualize`, `VisualizeProofs`: the gathering and drawing of plots | checked and proved |

No run lists the `TypeOK` of `SaveQueue`, `WaitOn`, `TraceFile`, `Blocks` and `Visualize`: it is
proved.

## 3. The modules and the code

**`LruPolicy`** holds the replacement policy: `FreshAges` (`__initialize_set`),
`UpdateLru` (`__update_lru`, with the wrap of `uint8_t`) and `Highest` (the scan
for the first way with the highest age). It is shared by `TraceCache` and `WaitOn`.

**`TraceCache`** models `trace_get` and `trace_free` over `cache.c`. A client is one
outstanding reference. A step runs from one semaphore operation that may block to
the next; the labels of `pc` are the places in between. `Get`, `LookupEnter/Leave`,
`LookupInit/Nested` (first access to a set) and `ScanHit/Miss` are `tc_lookup`;
`Alloc`, `Fill` and `Drop` are the part of `trace_get` after a miss; `StoreEnter/Leave`,
`Place` and `PlaceFails` are `tc_store`; `Deref` is `tc_deref`; `CloseBegin/CloseSet`
are `tc_free`. Addresses are explicit and reused, so a use after a free is visible
as a trace of another index. The actions whose name ends in `Fails` are the error
returns, with the locks they keep; `Faults` says which may happen.

**`SharedCache`** says what a cache promises: atomic hits, misses, evictions of the
least recently used trace nobody holds, returns. **`TraceCacheRefinement`** maps the
valid ways of a set, in the order of their ages, to its shelf: a way stands behind as
many others as are younger (`Rank`). What a client holds is on loan; `ScanHit` and
`Place` lend, `Deref` returns, `CloseSet` empties, and no other step can be seen.

**`RenderPool`** models `render.c`: the controller's loop (`WaitDone`, `Scan*`,
`Dispatch`, `Drain`, `Kill`, `Join`) and the worker's (`Wake`, `Proceed`, `GetTrace`,
`Finish`, `Post`). `done` is `done_signal`; `signal`, `index`, `code` and `ts` are the
worker's `thread_signal` and the fields of its argument, read and written without a
lock; each such access is a step. `calls` is history.

**`WorkerPool`** says what a render promises to who waits for it: indices are given one by
one and in order, each to one worker that has no other, who asks for it once; the render
ends when every worker has left, well when all indices were asked for and otherwise only
after a failure. **`RenderPoolRefinement`** maps onto it the workers that may still touch
their arguments (`Present`), the index a worker was handed and has not asked for (`Jobs`),
and an outcome that turns to failing when the controller has read an error (`Outcome`).
`Dispatch` gives, `GetTrace` asks, a worker's end leaves, `Join` of the last one or a failed
set-up ends; the tokens, the scan and the writes to the arguments cannot be seen.

**`Synchronize`** models `tfm_synchronize`. The two lists are kept as counts per index,
because an entry is found by its index and counts its users. `inOrder` says whether
a render asks, each index once and in order, or the clients of a server ask as they
like. `leaked` is a lock that a failed call kept. `StallEndsBeforeTail` says that a stall ends
when at least as many indices are left as there are other threads: a later request is let
through then, and its end wakes the stalled one. With fewer left a stall may last for ever
(finding 4).

**`SaveQueue`** models `tfm_save`. The commit queue is sorted by `prev_index` with the
sentinels last, and an index is in it at most once, so it is a set of indices,
those among them that are complete (`ready`) and a number of sentinels. `batch` is
what the commit thread has cut off the front. Taking an index (`Take`) and queueing
its entry (`Insert`) are two critical sections, as in the code, and between them the memory
of the entry may be missing (`InsertFails`): the index is taken and the get fails, which
with several threads leaves a hole in the file that nobody hears of but the one that asked.
`pool` is the set of threads that the render has in this behaviour.

**`CommitLog`** says what a saved set promises: each usable trace of the set before is taken
once and goes once into a log, in order when one thread asks; the length of the log is
announced when the set before is used up and is then final; a request ends when its trace
is in the log or is known not to come. **`SaveQueueRefinement`** maps onto it the index each
thread asks for (`Wants`), the traces that are with a getter, in the queue or in the batch
(`OnTheWay`), the file, `num_traces` as the length and `Failed` as the death of the log. The
counters, the sentinels and the semaphores cannot be seen, and `Close` may set any length
once the log has failed, as the code does.

**`WaitOn`** models one waiter of `tfm_wait_on`: `Push*` are `__tfm_wait_on_push`,
`Request*`, `Wake`, `Find` and `FindsNothing` are `__search_for_entry` with
`__wait_for_entry`, `Copy*` is the rest of `__tfm_wait_on_get`. The buffer is a cache
used under the waiter's lock, except for the `tc_deref` after the copy. `over` is
history: the indices whose push has returned.

**`ResultBoard`** says what a wait for results promises to who asks: a result is put on a
board once and stays there until its place is needed for another and nobody reads it; who
asks for an index reads its result from the board, or hears that it was missed, because it
came and went or others came too far ahead. **`WaitOnRefinement`** maps onto it the index a
getter looks or waits for (`Wants`), the one it copies or still has a reference to
(`Reading`), the buffered traces as the board and `leaked` as the board that is closed
(`stuck`: one request may fail for want of memory, and is the last that is answered). The
list of requests, the wake-ups, the ages and the reference counts cannot be seen.

**`TraceFile`** models `backend_trs.c`, `backend_ztrs.c` and the headers of
`riscure_trs.c` behind one `kind`. The file is a sequence of cells; a write adds one cell
per `fwrite` (`WriteCell`) and may fail between any two, keeping the lock where the code
jumps past its release (`WriteCellFails`, `SkipsUnlock`). A trs is read with one seek, a
ztrs by walking along the chain of sizes (`SeekBack`, `SeekForward`) from `position`.
A read of a ztrs that has no memory for the compressed samples ends with the success of its
seek and nothing read, two sizes further (`ReadUnallocated`). Memory that is asked for
before the lock is taken is left out: its lack fails the call and changes nothing shared.
`Crash` may come at any step; the file is then opened again and read. `FinishWrite`
rewrites `NUMBER_TRACES` after each trace, as `finalize_headers` does.

**`Blocks`** models `tfm_block.c` with its consumers `reduce_along`, `select_along`,
`sort_along` and the extraction. `Check`, `Take`, `Fetch`, `Accumulate` and `Finalize` are
the loop of `__tfm_block_get`, a step for each critical section. A consumer is its
`...Interesting`, `...Accumulate` and `...Finalize` operators. The reference trace of an
extraction, which is processed once under `cfg->lock`, is here; the search itself is
in `Extract`. `AccumulateFails` is a search that fails, and a new block or its consumer's part
without memory. `TitleFails` is the end of the finalisation: by the time a title turns out too
long, or to have no memory, the consumer has given its trace and either promised the next
index or freed its part (`LeaveFreed`); that trace is gone, and a block without its part
stays in the list (`Freed`). A later trace is compared with what is there now, and may be
added to it (`JoinFreed`): it is lost, and what the write does to others is not modelled.
`result` keeps what each get returned, `late` the traces that joined a block
after its array was made. A sort is specified by what `qsort` achieves, not how: the
n-th of the array is the one that n - 1 others come `Before`.

**`Extract`** models what a pattern or timing extraction does with one trace: a phase
for each function of `extract_internal.c` (`SearchMatches`, `SearchGaps`, `OptimizeGaps`,
`SearchTail`) or a step for each timing of the walk, then a `Give` for each trace that is
finalised, with its plaintext (how often `data` was encrypted) and ciphertext. Means and
deviations are kept as three sums and compared in squares, so that the comparison with
1.96 deviations is exact. `overcounted` is history: in some gap, predictable or not, more
runs were counted than there are.

**`Statistics`** models `lib/stats`: creation, accumulation, reset and both getters of
the accumulators of one value, two values, an array, and two arrays on the GPU, and the
GPU's search for a pattern. `gpu` and `gpucov` are the device's memory, which starts as
junk; `Sync` copies it piece by piece and each copy may fail. Capabilities and their
`dependencies` decide, as in the code, what is kept and what is refused. Observations
are multiples of 6 and at most three long, so that every running mean is an integer. A
match that was made for another length is refused (`Fits`).

**`Visualize`** models `tfm_visualize.c`: `GetPresent`, `GetMissing`, `Fill` and `Count` are
`__tfm_visualize_fetch`, which drops the lock while it fetches; `Draw*` is the draw thread;
`PlotIndices` computes the cell of a trace for each of the six orders of rows, columns and
plots. A draw thread that gives up releases the lock before its status says so (`ending`,
`DrawEnds`), so that a getter may still come in between. A getter whose entry was freed
while it filled a slot is `wild`.

Definitions named `Mut...` are wrong variants of the definition after them; they
are not part of the specifications and serve to see that a property can fail.

## 4. The runs

| run | question | bounds |
|---|---|---|
| `cache` | Do threads that hit, miss, evict and fail ever use freed memory, lose a trace, compute one twice, miscount or fail to find room without need? Is each step one of the atomic cache? | 3 threads, 2 gets each, 3 indices, one set of 2 ways, 4 addresses, every failure: hits on held traces, eviction, a full set, reuse of an address and the LRU order all occur |
| `cache_live` | Does every get return and the cache close, without failures? | 2 threads, 2 gets each, 2 sets of 2 ways: both locks of two sets are contended |
| `render` | Are the tokens exact, is each index rendered once, does the render return? Is each step one of a pool that gives an index to one free worker and ends when none is left? | 3 workers, 4 indices: a worker is reused, and is handed an index on another's token; every failure |
| `sync` | Are entries and wake-ups exact, and does a stall end while as many indices are left as there are other threads? | 3 threads; 6 indices in order, or 4 requests in any order; distance 1, so that stalls start at the third index; every failure |
| `save` | Is every usable trace in exactly one place on its way to the file, is the file in order and without a gap when one thread asks, does who waits get its sentinel? Is each step one of a log whose announced length is final and from which what is read back was written? | 1 or 2 threads, 4 traces of which one is empty, failures of gets, of memory and of writes: entries complete out of order, several sentinels are in the queue |
| `save_close` | Does closing a saved set return? It does not. | 1 thread, 2 traces, no failure |
| `wait_on` | Is a push missed, are the references to a trace exactly its readers, is each step one of a board from which nothing goes that is read or has room, and which answers "missed" only for what was there or is overdue; and does a get wait for ever only for what is gone? | 2 producers, 2 getters, 4 results, a buffer of 2: every result but the first two evicts one, requests are timed out; every failure |
| `files` | Is a trace that the header announces always found, and is it the trace of its index that is returned, whatever was read or written before and wherever the program stopped? Does the header announce every trace whose write succeeded, and none that is not there? Does every access return? | both kinds of file, 3 traces of two compressed sizes, 2 readers and the writer, one failure of an access or of memory, a crash at any step: the walk goes both ways and over records of different length |
| `blocks` | Is a trace lost, used twice, or put into a block that is already given? Does who is promised a block find it? What is gone when a title fails? | 2 threads, 6 traces of three keys, one without samples, blocks of 2, 4 results, every consumer, one failure, of the previous set, of memory or of a title: blocks are completed by one thread and finalised by another, and the list grows past its length |
| `extract` | Does each trace carry the data of its own run, whatever was recognised, unless a gap was counted too high? Is none counted too high when runs come evenly? | 5 runs at seven patterns of distances of 4 to 6 samples, each run strong, weak or invisible, with or without one peak that is no run; 4 reference traces, both tools, one failed push: gaps before, between and after matches, predictable ones rounded up and down, and one gap counted too low that another, counted too high, makes up for |
| `stats` | Are the results those of a definition over all observations? | every kind and all shapes of two arrays up to 3 by 3, up to 3 observations of 4 values before and after a reset, a transfer that fails |
| `visualize` | Is a drawing whole, and is a full block drawn, when threads fill slots in any order and the same slot at once? | 2 threads, 6 gets of 4 traces, drawings of 2 and 4 traces in every order, one failure: also a get between the draw thread's end and its status |

The bounds are small because the code treats threads, addresses and (within a set)
indices alike; what matters is that there are more threads than ways, more indices
than ways, a thread that is in between while two others act, and one round more
than it takes to reuse a slot. `MaxGets` (cache, visualize), `RequestBound`
(synchronize), `Asked` (blocks), `MaxCount` and `MaxResets` (statistics) and `MaxFaults` are
the bounds that cut behaviours off; the safety theorems of section 6 do not depend on
theirs. `AgeMod` and `RefMod` have their real value, 256. The addresses and clients of
`cache` are symmetric; no liveness is checked there. `Unknown` in `SaveQueue` and
`TraceFile` stands for `UNKNOWN_NUM_TRACES` and only has to be larger than every number
of traces; `Huge` stands for the size `(uint32_t) -1` before the first record of a ztrs.
`Lowest` stands for `-FLT_MAX`.

Deadlock checking is off where the model may really stop: after a failure kept a
lock, when a thread of a render was not created, when a stalled or waiting getter
is never woken, and when all that was asked for is answered.

**Fairness.** Each thread is weakly fair as long as it is not blocked on a semaphore:
the operating system schedules runnable threads. Semaphores are not assumed to be fair,
with one exception: in `TraceFile` obtaining `file_lock` is strongly fair. There the other
threads come back to the lock without end, and the property says that the walk along the
file ends, not that POSIX semaphores serve everybody. The set before answers (`Fill`, `Passthrough`, `Fetch`
may take any finite time), a holder gives its trace back, and the set is closed in
the end, as the consumers in this repository do. A client of the cache need not ask.

**What properties excuse**, and why the code makes them:
- `MissingThread` (render): a thread that could not be created.
- `Broken` (synchronize), `Stopped` (save), `Gone` (wait_on): a failed call kept a lock,
  lost an index or ended the commit thread, or the result came and went.
- The last indices of a render, fewer than the other threads (synchronize): see finding 4.
- `disturbed` (files): an access that ends between two sizes, for a failure or for want of
  memory, leaves the cursor of a ztrs where `position` does not say; reads after it may
  return another trace.
- `late`, `overran`, `ReferenceStuck`, `Untitled`, `Freed` (blocks): see finding 10.
- `Ghost`, `overcounted`, the last match of a timing extraction (extract): see finding 11.
- `Overlapping`, `doubled`, `unstarted`, `leaked` (visualize): see finding 13.
- Extremes of two arrays, and a covariance cell outside `Lanes` (statistics): see finding 12.

## 5. What the modelling and the checks found

The run `save_close` shows finding 5. The others were met while the code was
translated; where a property would fail because of one, it names the case as an excuse.

1. **A failed read blocks its cache set.** When `tfm->get` or `backend->read` fails after a
   cohesive miss, `trace_get` jumps to `__fail` (trace.c:91) and returns with `set_lock`
   held, where `trace.h:154` says "@return 0 on success, or a standard errno error code
   on failure/". Set initialisation that fails keeps `cache_lock` (cache.c:290).
2. **A render returns 0 although a trace failed** (render.c:184): after the last index the
   controller only counts tokens; `trace.h:69` says "@return 0 on success, or a standard
   errno error code on failure."
3. **A thread that was not created is not noticed** (render.c:145): `p_thread_create`
   answers with a positive number. The index handed to it is never rendered and the
   render does not return.
4. **The end of a synchronised render may stay stalled** (tfm_synchronize.c:202). A
   request that ends wakes only those within its own distance; the one that a stalled
   request waited for may end unnoticed. Also, a woken request is not checked again, so
   that it may pass while a request more than `max_distance` behind is still in flight;
   nothing in the code depends on it.
5. **Closing a saved set never returns** (`save_close`, tfm_save.c:355): the drain loop
   is left with the lock the commit thread needs. As the exit never gets further,
   what follows it, among it that the backend is closed by the exit and again by
   `ts_close` (trace_set.c:81), is not reached.
6. **A trace may follow a sentinel** (tfm_save.c:397), and the commit thread ends with
   "Encountered trace to write after seeing sentinel" (tfm_save.c:173), also without any
   failure: a thread takes an index, another meets the end and queues the sentinel.
   `NothingLost` therefore speaks of a commit thread that lives.
7. **After a failed write** a getter that waits for its sentinel waits for ever
   (tfm_save.c:223).
8. **A get of a result that came and went waits for ever** (tfm_wait_on.c:353), unless a
   later push times it out.
9. **A failed write keeps the lock of the file** (backend_trs.c:367 for the title, and in
   the same way its data and samples, and those of backend_ztrs.c): every later access
   blocks. A failed write of one of the sizes of a ztrs releases it (`__unlock`). A read of a ztrs that has no memory for the compressed
   samples returns 0 without samples (backend_ztrs.c:155), and leaves the cursor behind the
   sizes while `position` says otherwise.
10. **Blocks.** A block is completed when the list has exactly two (tfm_block.c:195): when
    several threads make it longer before the first is given, no later one is completed.
    A trace may join a block along data that is being sorted and given out, and raises
    its count past the sorted array: the block gives what is behind the array, and the
    trace, which is in no array, goes with it. A reference trace that cannot be got keeps
    `cfg->lock`. A title that is too long or has no memory (tfm_block.c:268-284) fails the get
    after the consumer has given its trace and freed what it gave it from: the trace is lost
    although its index was promised, and a finished block stays in the list with a freed
    part that later traces are compared with. A selection of `MIN` or `MINABS` starts at `-FLT_MAX`, never selects, and
    dereferences `NULL` when the block is finalised; a reduction along numbers passes
    traces without samples to the accumulator; both are left out of the inputs. The
    finalisation of a reduction always fails, by finding 12.
11. **Extract.** More runs may be counted in a gap than are there (`overcounted`): those of
    one that is not predictable are counted from both ends, and those of a predictable one
    are a rounded quotient (extract_internal.c:147), which runs that come late one after
    the other raise. The total may fit all the same, if another gap was counted too low, and
    the traces in between are given the data of other runs. `EvenRunsCounted` says that
    neither happens when runs come at even distances. The walk of a timing extraction stops before it compares its
    last match (tfm_extract_timing.c:222); the search behind the last match always fails,
    by finding 12, and its test of confidence is the inverse of what the comment above it
    says (extract_internal.c:420); a gap shorter than half the mean has size -1.
12. **Statistics.** `stat_create_single_array` never stores the capabilities it is asked
    for (single_array.c:184): every get is refused, so `tfm_average`, `tfm_reduce_along`
    and the search for missing runs always fail. The GPU's first observation clears one
    covariance for each lane only (gpu_dual_array.cu:82): of a larger table the rest is
    what the memory held. GPU accumulators of two arrays never compute extremes. The
    index into a transposed array is one too far (dual_array.c:103), and that of a
    correlation is turned with the wrong dimension. A buffer that is only used when
    transposed is freed always (dual_array.c:400). The covariance is a sum in `get` and a
    mean in `get_all`.
13. **Visualize.** Two getters of one trace that is not there yet both count it
    (tfm_visualize.c:403): the entry looks full too early, the draw thread gives up on the
    hole, or frees the entry under the second. With rows before columns the cell is a
    sum of row and column (line 52), so that two traces share a cell and others are not
    shown. A failed copy keeps the lock (line 446). Nothing tells the draw thread to
    end, so that exit waits for ever (line 319).
14. **Nothing crosses a socket.** `p_safesocket_write` and `p_safesocket_read` compare the
    number of bytes of the length, 4, with 1 and give up (secure_socket.c:121, 194).

## 6. What is proved

`TraceCacheProofs`, for all numbers of threads, addresses, sets, ways and indices, and
for every choice of failures:

- `TypeCorrect`: types, among them that ages and counts stay in their 8 bits; for
  cohesive and other caches alike.
- `Inductive`: `IndInv`, for cohesive caches. The four properties of `CacheSafe` are not
  inductive by themselves. What they need is who holds which lock (`LocksHeld`; one
  direction only, for a failed call may keep a lock without needing it), that a trace
  being filled is in no set and a held one is in its own (`PlaceOfTraces`), that a miss
  still stands when the trace is allocated (`MissStands`: the set lock is held since the
  miss), that ways have different traces (`SlotsDistinct`), and that the thread that
  initialises a set is alone in it (`Initialising`).
- `CacheSafe`: `NoDangling`, with `RefcountExact` (`RefcountsExact`), `OneTracePerIndex`
  (`Cohesion`) and `NoLeak` (`NothingLeaks`).
- `WaysSuffice`: a filled trace finds no slot only when as many other threads as there
  are ways hold traces of the set: by `RefcountExact` each way has a holder, and by
  `SlotsDistinct` they differ.
- `Implements`: `TraceCache` implements `SharedCache`, step by step. The ranks of the
  ways are the numbers from 0, each once (`Ranks`: a one-to-one map of a finite set into
  one of its size), so that a shelf is determined by what stands at each rank
  (`RankedBy`). `UpdateLru` makes one way the youngest and keeps the others in order
  (`HitToFront`, `StoreToFront`), which on the shelf is to take one entry out and put one in
  front (`FrontAgain`, `FrontNew`). The counts of the abstract entries follow from
  `RefcountExact`, that a miss is a miss from `OneTracePerIndex`, and that the victim is the
  last entry nobody has on loan from `Highest`. The theorem supposes `AgesLow`: no
  trace in a set has reached age 255. At the next store such an age wraps to 0 and the
  oldest trace of the set counts as the youngest, so that without the hypothesis the
  refinement is false of the code. (An unused trace of that age is the victim of
  that store, so it takes one that is referenced at the time; in the run there are at
  most six stores.)

`RenderPoolProofs`, for all numbers of workers and indices, with every failure:

- `TypeCorrect` and `Inductive` (`IndInv` of the pool).
- `TokensExact` and `ScanSucceeds`: the tokens in `done_signal`, in the controller's hand
  and about to be posted are exactly the workers not marked busy; so a token the
  controller has taken stands for a worker at or after the place its scan has reached.
- `RendersExactly`: `IndicesExact` says that an index handed out and not yet asked for is
  with exactly one worker. When the controller has collected all `NThreads` tokens
  no worker is busy, so none has an index, so all were asked for.
- `NoWorkerOutlives` (`WorkersGone`): by `Stopped`, the workers before the one being joined
  have ended. No run lists it: `ImplementsWorkerPool` says it of every end of a render.
- `Implements`: `RenderPool` implements `WorkerPool`, step by step. Beyond `IndInv` this needs
  that who works for an index is marked busy and who is marked dead is on its way out
  (`Marked`), so that an index is given to nobody who still has one; and that a controller
  which stops its workers without having failed meets none that works (`Settled`), so that
  a worker which stops has lost no index. That the render ends well only when all was asked
  for is `RendersExactly`; that nobody is present then is `NoWorkerOutlives`.

`SynchronizeProofs`, for all numbers of threads and traces, every distance and number of
requests, with every failure:

- `CountsAreExact` and `NoWakeupLost`. The invariant is their conjunction with the types and
  `Placed` (who is under way asks for an index of the set); the two need each other,
  because a woken thread decrements a count that is only above zero if it was counted.
  `AllCounted` says once for all steps how the three counts of an index change when one
  thread goes from one label to another, so that a step is arithmetic.
- `TypeCorrect`: no count is negative or exceeds the number of threads.
- `ListsConsistent`: "Signalled flag not set after wakeup" and "Couldn't find index" are
  never reached, so that these two error returns, which keep the lock, do not matter.

`SaveQueueProofs`, for all numbers of threads and traces, any choice of traces with
samples, and every failure:

- `NoTraceLost`. That a trace is in one place at a time needs who holds it (`Held`: the
  entry of a trace being fetched stays in the queue, and an index is taken once), that the
  queue, the batch and the file share nothing (`Apart`; an index whose entry had no memory
  stays with who took it), and that what was taken is
  somewhere while the commit thread lives (`Somewhere`). The sentinels of the run are
  exactly those who wait for one (`SentinelsOwed`), and with one thread nothing overtakes
  on the way from the queue through the batch into the file (`Ordered`).
- `ReadsAreWritten` (`ReadsWritten`): `num_traces_written` never runs ahead of the file.
  `Accounted` relates it to the file and to the batch that the commit thread has counted
  already. No run lists it: it is the guard of `Answer` in `CommitLog`.
- `FileIsFaithful`: with one thread the file is in order and without a gap, also after a
  failed get or write (`Ordered`: whatever is before a written trace is written). When the
  end is announced the number is the length of the file and it grows no more
  (`Announced`); if the commit thread lives, all usable traces are in it.
- `Implements`: `SaveQueue` implements `CommitLog`, step by step. A trace goes from the hand of
  a getter into the queue and from there into the batch without leaving `OnTheWay`, so
  these steps stutter; that it leaves for the file once, and for nothing else while the
  commit thread lives, is `Apart` and `Held`. The end is announced only when the set before
  is used up, because sentinels come from threads that have run past its end
  (`EndReached`); with one thread nothing is on the way then (`Ordered`). That a request is
  answered only when its trace is in the log is `Accounted`, read at the step where the
  counter is.

`WaitOnProofs`, for all numbers of producers, getters, traces and every buffer:

- `PushesFound` and `ReadersPin` are proved together with the types: who copies without the
  lock keeps its trace in the buffer because the reference count of a slot is exactly the
  number of its readers, and a push that is over cannot be missed because an index is
  pushed once (`PushedOnce`) and a trace is in its own set (`InItsSet`).
- `FailuresExplained` (`FailureHasReason`): a wait that was ended was answered
  (`WaitsAnswered`). No run lists it: it is the guard of `Miss` in `ResultBoard`.
- `Implements`: `WaitOn` implements `ResultBoard`, step by step. A shelf is what stands in
  the ways of one set (`ShelfIs`), and as no trace stands in two of them it is full exactly
  when no way is empty (`FullMeans`); so a push that finds an empty way takes nothing from
  the board. The victim of one that finds none has a reference count of zero, which by
  `ReadersKeepTrace` means that nobody reads it, also nobody who copies without the lock;
  a push that finds no victim meets a shelf of which all is read. `WaitsAnswered` gives the
  reason of a miss.

`TraceFileProofs`, for all numbers of readers and traces, every layout of a record and
every compressed size, both kinds of file, every failure, and a crash at any step:

- `ReadsTrue`. Every cell of the file is that of the file with all traces (`CellsTrue`),
  what was written is there, and the rest of a record goes right behind (`Grown`). One
  thread is at the FILE at a time (`Exclusive`), and where it stands is the place of its
  trace, or for a ztrs the one `position` says (`CursorTrue`). That the end of the file cuts
  no read of an announced trace short needs, for the walk, that `position` is never past
  the traces that were written (`Reach`), and that the size in front of each written record and the one
  behind the last are in the file (`GapsThere`); every piece that the walk reads lies
  between two of these (`WalkWithin`).
- `HeaderTrue`: what the header announces is at most what was written, and that is there;
  what was committed is announced (`Durable`: a writer that stopped has written at most one
  trace that it did not commit, and who closes the file repeats the number committed).
- The places of a ztrs are sums of sizes. That they grow is proved with the least record
  at which they would not (`LeastNat`, from the well-foundedness of the naturals), since
  the induction theorems cannot be instantiated.

`BlocksProofs`, for all numbers of threads, every previous set, consumer and block
size, every `LIST_LENGTH`, and every failure:

- `EveryTraceUsedOnce`. A trace that was taken is in one hand (`Hands`), in one place of one
  block (`Apart`), or given (`Given`), and these exclude each other; it is in one of them,
  lost, or `late` (`Somewhere`). What a get whose title failed was handed counts as given, and a
  freed block holds nothing. What a sort has still to give is the items of the block
  without the part of its array before `finalized`, so `Flat` says that the array has no
  trace twice and holds all of the block but the late ones. That the array is a
  permutation in order is a lemma about `Sorted`: the places that come `Before` one
  another are ordered, so each rank belongs to exactly one place.
- `PromisesTrue`: under each index below `done_index` one block waits that can give, or none
  any more once a trace was handed to the get of that index (`Promises`); a
  getter comes to finalise only below `done_index` (`Asking`).
- `BestTrue`: a selection knows the best of its block (`Best`). For a sort, what a block gave
  stands in its array before what it has still to give, under a lower index (`Order`).
- `EndTrue`: the list is no longer than `LIST_LENGTH`, and when it is as long its first block
  is complete (`Listed`).

`VisualizeProofs`, for all numbers of threads and traces, every layout, and every failure:

- `PlottedIs`: each order of `__plot_indices` writes the number of a trace with three digits
  (`ThreeDigits`), in the bases rows, columns and plots in some order, so that the cells of a
  drawing are mapped one to one onto the traces of a block. Rows before columns is the
  exception (`Overlapping`): there every cell still shows a trace of the block.
- `DrawsWhole`: a slot is empty or holds its own trace (`SlotsTrue`), which two threads that fill
  it at once do not change; a drawing has no hole, so it is what the layout says (`DrawnTrue`).
- `BreaksByDoublingOnly`. Unless a trace is fetched twice at once, the count of an entry and
  the threads about to count are as many as its filled slots (`Counted`), so that an entry
  is full when nobody works on it any more (`FullMeans`), and there is one signal for each
  full entry (`Signalled`), so that the draw thread always finds one.

**Assumptions.** `RefModAssumption`: fewer clients than 256; with more outstanding
references to one trace the `uint8_t` count wraps to "unused" and the theorem is
false of the code. `NWaysAssumption`, `AgeModAssumption`: at least one way and no
more than 256, or the ages of a fresh set would not fit. `NamesAssumption`: `NULL` is
neither a thread nor an address. The sizes are natural numbers, the threads of
`Synchronize`, `SaveQueue`, `WaitOn` and `Visualize` a finite set (their number is an argument of the
render). `UnknownAssumption`: fewer traces than `UNKNOWN_NUM_TRACES`, which is
`SIZE_MAX - 4` (trace.h:117). `SourceAssumption` and `ConsumersAssumption` of `Blocks`: a
value is above `-FLT_MAX` and only greatest values are selected (finding 10 says what
happens otherwise). `LayoutsAssumption` of `Visualize`: at least one row, column and plot
(`__tfm_visualize_get` divides by their product), in one of the six orders that
`__plot_indices` knows; for any other it returns -1. TLC evaluates all of them in the runs.

**Only model-checked.** Liveness (fairness and `ENABLED` are out of the prover's reach),
and what `Extract` and `Statistics` compute. Their results are sums over sets, which are
folds, and facts about them need induction over data. Besides, they are not true for every
value of the constants: `StatisticsTrue`, `CorrelationsTrue` and `MatchTrue` hold of
observations for which each running mean is an integer, and `PatternDataTrue`,
`TimingDataTrue` and `EvenRunsCounted` of scenes whose runs are about as far apart as the
configuration supposes.

## 7. What is not modelled

- **Export server and network backend.** By finding 14 no command and no trace is ever
  exchanged, and a model of the exchange would be a model of another program. Beyond that,
  the accept loop looks at finished clients only when the next one connects, one
  client's failure ends the server (export.c:180), `ts_export_async` never initialises the
  list of threads, and a failed connection leaks the buffer of `backend_net_read`.
- **Trace sets, configuration and main**: sequential set-up and tear-down that call the
  operations of the other components, and the parser of a text.
- **Stream transformations and power analysis**: one trace in, one trace out; the
  numerics of AES leakage. The accumulators they use are `Statistics`, what
  `tfm_cpa` pushes is `WaitOn`. **AES**, the vendored **list** and the wrappers of the
  **platform**.
- Trace data, but for what an extraction looks at. A trace is its index, with or without
  samples where the code looks, or the cells of its record in `TraceFile`.
- Floating point: the roundings of `lib/stats`, and the lanes of vector instructions as
  far as a property could tell them apart; the loops over two arrays without a GPU
  (that build does not compile).
- Data races. `args[i].ret`, `queue->ts`, `num_traces` and `num_traces_written` are
  accessed without a lock; each access is taken to be atomic and in program order.
- Memory of list entries in `Synchronize` and `WaitOn`. An entry is its index (and
  `CountsExact` says when it may be freed). Allocation does not fail in `Statistics` and
  `Visualize`.
- `Blocks`: a consumer that fails while a trace joins a block that is there already, and
  what a write into a freed block does beyond losing its trace, be it a crash.
- Caches built without `COHESIVE_CACHES`: `TraceCache` has the actions, `TypeCorrect`
  covers them, the other properties are stated for the default.
- The hit, miss and eviction statistics, the sizing of a cache from bytes (a cache of
  zero sets, for a buffer of fewer than eight traces in tfm_wait_on.c:247, is assumed
  away), logging.
- In `tc_store`, the initialisation of a set: `trace_get` always looks up first. In
  `WaitOn` a set is initialised from the start, which cannot be told apart.
- The wrap of an age after 256 stores into a set whose pinned way is never used: it
  is in `UpdateLru`, but takes more steps than TLC can take; `AgesLow` is where the
  refinement theorem sets it aside.
- `tfm_save`: the set-up, and a previous set whose number of traces changes while it is
  saved. The branch of the commit thread for `queue->ts == NULL` is not reached,
  because the exit never releases the lock.
- `tfm_wait_on`: several waiters on one set, and exit; a result that is pushed twice.
- `Extract`: keys other than of AES-128; timings that are not those of the runs.
