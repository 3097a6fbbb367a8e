# TLA+ models of the LaunchDarkly C server SDK

This directory holds TLA+ models of the server-side SDK's concurrent and
fault-handling parts, TLC configurations that check small instances of them,
and TLAPS proofs of results that hold for every size. Paths below are relative
to the repository's root. `PROJECT.json` maps every definition to the lines it
models and lists the runs, mutants, findings, hazards and theorems.

## 1. The system

The SDK keeps feature flags and segments in a *store*, receives them through a
*data source* on its network thread, evaluates flags for users on application
threads, and sends *analytics events* back.

| component | state | operations | interacts with |
|---|---|---|---|
| memory store, `src/store/memory_store.c`, `ldjsonrc.c` | two hash tables of reference-counted items, an initialized flag, one rwlock | init, get, all, upsert, initialized | callers keep references to items after the lock is released |
| caching wrapper, `src/store/caching_wrapper.c`, `memory_cache.c` | hash table of items, of collections (`all:kind`) and of a negative `$initChecked` sentinel, each with its time; a latch `initialized` | the same five | calls the persistent backend without its lock; the backend is shared with other processes |
| redis store, `stores/redis/src/redis.c` | connection pool, redis hashes | the same five as redis commands | WATCH/MULTI/EXEC against other clients |
| streaming, `src/streaming.c`, `c-sdk-common/src/sse.c` | parser buffer, attempts, wait, times, permanentFailure | poll, done, write callback; put, patch, delete | driven by the network loop, writes to the store |
| polling, `src/polling.c` | last poll, buffer | poll, done | as streaming |
| event processor, `src/event_processor.c`, `lru.c` | queue of events, summary counters, LRU of users | evaluation, track, identify, alias, payload creation | application threads fill it, the sender empties it |
| sender, `src/events.c` | payload and its id, failure time, last flush | poll, done, destroy | `LDClientFlush` sets a flag it reads |
| network thread, `src/network.c` | up to three interfaces | poll all, perform, done | ends on 401/403 or on close |
| client, `src/client.c` | shouldFlush, shuttingdown | init, close, flush, record | starts and joins the thread |
| evaluation, `src/evaluate.c`, `operator.c` | none of its own | `LDi_evaluate`, recursive | reads the store for each prerequisite and segment |
| variations, `src/variations.c`, `all_flags_state.c`, `flag_model.c` | the details and the collected states of one call | the variation calls, `LDAllFlags`, `LDAllFlagsState` | evaluation, store, event processor |
| test data, `src/integrations/test_data.c` | builders, current flags, instances, one rwlock | builder API, update, start, close | writes to the stores of clients from application threads |
| file data, `src/integrations/file_data.c` | the merged set | load, start | fills the store once |

What is hard in it, and what correctness means:

- *Caching wrapper.* A lookup, the backend call and the fill are separate
  critical sections. Correct: what is cached wrongly is served no longer than
  the timeout allows, an undisturbed read sees the last write, an init is never
  forgotten, and the negative answer about initialization expires.
- *Memory store.* Items outlive the lock. Correct: reference counts are exact,
  and the store looks like a map of versioned items.
- *Streaming.* Chunk boundaries anywhere, aborted transfers, silent peers,
  retries. Correct: the store follows the service, reconnects wait, and a lost
  stream is tried again.
- *Events.* Lost answers and retries, capacity, flush requests in parallel.
  Correct: every event is accounted for exactly once.
- *Redis.* Optimistic transactions on pooled connections. Correct: nothing newer
  is overwritten, connections are counted, waiting threads are served.
- *Evaluation.* The store changes between the reads of one evaluation, reads may
  fail at any depth, flags may be malformed. Correct: the result is what the
  data that was read means, its events explain it, and it is counted once.
- *Test data.* Builders are copied and reused, and changes are passed on outside
  the lock while clients start and close. Correct: a flag does what the calls
  say, and clients follow.

## 2. Modules

| module | models | proved about |
|---|---|---|
| `CachingStore` | caching wrapper, its cache, store.c's entry points; the backend as an external map | yes, `CachingStoreProofs` |
| `VersionedStore` | abstract: what a store promises | implemented by `MemoryStore`, proved |
| `MemoryStore` | memory store and reference counts; implements `VersionedStore` | yes, `MemoryStoreProofs` |
| `SSEParser` | the SSE parser, as operators on its state | with `Streaming` |
| `Streaming` | streaming data source over `SSEParser`, with the service and the network | yes, `StreamingProofs` |
| `EventProcessor` | queue, summary, known users | with `Events` |
| `Events` | the sender, over `EventProcessor`; the events service | yes, `EventsProofs` |
| `Client` | client lifecycle, loop of the network thread, polling; transfers of the analytics interface | yes, `ClientProofs` |
| `RedisStore` | the redis store: pool, commands, the redis server | yes, `RedisStoreProofs` |
| `Evaluate` | the parts of evaluation that read only the flag, a segment and the user, as operators | with `Evaluation` |
| `FlagSemantics` | reference: what a flag means over a fixed content of the store, with sets and quantifiers | |
| `Evaluation` | calls of the evaluation API step by step, beside a data source; the summary of events | yes, `EvaluationProofs` |
| `FlagBuilder` | the builder API of test data as operators, and what sequences of calls are meant to give | |
| `FileData` | what one more file adds to a set of flags | with `DataSources` |
| `DataSources` | test data and file data of several clients, over the two | yes, `DataSourcesProofs` |
| `MC*` | instances for TLC | |

### CachingStore

`items`, `alls` and `initChecked` are the three sorts of entries of the one
hash table, with the age of each entry in place of its time stamp; `initialized`
is the latch. `pc`, `arg`, `got`, `snap` are each thread's call in progress.
`storeGet` is `GetHit`, or `GetMiss` (read lock), `BackendGet` (no lock) and
`GetFill` (write lock, `upsertMemory`); `storeAll` likewise; `storeUpsert` and
`storeInit` call the backend and then change the cache. `storeInitialized` is
`quickCheckInitialization` and `queryAndUpdateInitialization`, which holds the
write lock over its backend call. `LDi_addToCache` does not replace an entry of
the same key, so several collections may be cached under `all:kind`; a lookup
meets any of them. `Tick` ages everything. `quiet`, `dirty`, `calm`, `ownInit`
are history variables of the properties.

The backend (`LDStoreInterface`) is external: a map that an upsert changes only
to a newer version. Calls may fail (`Faulty`), also after they took effect.
`deployment` says which operations each thread calls and whether another process
writes; it is chosen at the start from `Deployments`, so that one run covers a
client with a feed and a client in daemon mode. `FeedOrdered` says that the feed
never sends what the store has superseded, which is the case on one stream and not
across a reconnect, nor when several processes feed one backend: `ReadYourWrites`
needs it, and `CachingOlder` shows what happens without.

### MemoryStore and VersionedStore

`heap` gives each memory cell its item and count, `table` the cell of each key.
Writers hold the write lock and are one action; `storeInit` frees and then
allocates, so a freed cell may be reused at once. `storeAll` collects pointers
(`todo`) under the read lock, and `LDJSONRCAssociate` retains them one at a time
after it. The constant `Gap` says whether a writer may come between the two.
Nothing in the code prevents it: `MemoryGap` shows what happens then, and the
passing run covers the behaviours without that race. Releases are one cell at a
time. `Refinement` maps `table` to the abstract map and the items a reader
refers to, looked up in the heap, to its answer.

### SSEParser and Streaming

A line is a token; the parser holds nothing, part of a line, or (after
`LDSSEParserDestroy` freed a non-empty buffer and left its size) uninitialized
bytes. A line appended to uninitialized bytes is an unknown line unless these
bytes happen to end in a newline. The body of an error answer goes through the
same callback (`ReceiveErrorBody`) and may leave part of a line behind. `ReceivePart` and `ReceiveLine` are pieces of a
chunk, so every chunking is covered. The body of a put takes two data lines. An event dispatches
through `LDi_onEvent` or, when the body is not one of such an event or the store
fails, `LDi_onEventFails`, which aborts the transfer. `done` is one operator
for all ways a transfer ends. Times are relative to now. The network thread polls every few
milliseconds, so `Tick` does not happen while a poll has something to do.

### EventProcessor and Events

The queue and the summary are numbers. `LDi_addEvent` says how much of what a
call queues fits; the rest is dropped. An evaluation brings the evaluations of
its prerequisites along (`MaxPrerequisites`), each of which counts in the
summary and may queue a feature and a debug event. Known users are the LRU list
itself, in the order of use. `pending` is an account that is kept beside the code: what was
recorded, less what was dropped, given up or counted by the service. In `Events`, `PollNew` bundles
and sends, `PollNewFails` bundles and cannot prepare the request, `PollRetry`
sends the same payload again. The service (external) counts a payload id once;
the answer may be lost after that (`doneFailure` with `request = "arrived"`).
`NetworkThreadEnds` discards the payload, as 401/403 and `LDClientClose` do.

### Client

`app` is the application's thread in `LDClientInit` and `LDClientClose`, `pc` the
network thread in its loop: the test of `shuttingdown` (`LoopStops`,
`LoopGoesOn`), the polls of the two interfaces, the messages of curl
(`ReadRefusal`, `donePolled`, `doneAborts`, `doneNotPolled`, `doneEvents`) and the wait.
A 200 without a body aborts the process by an assertion (`doneAborts`), which the
liveness properties name as the way they may end. What
`curl_multi_perform` does (`writeCallback`, `Finish`) happens between the test
and the polls. A body comes in pieces and may be cut; `memory` collects them.
`config` is any combination of offline, LDD and events switches. In LDD mode
another process fills the store (see `CachingStore`); here it stays empty. The
first poll may come late, because `lastpoll = 0` is compared with a clock that
counts from boot.

### RedisStore

`pool` and `count` are the connection pool, `session` the server's side of each
connection: whether it watches the hash, whether the hash has changed since,
whether a MULTI is open. Each `redisCommand` is a step of the server; the
commands an init queues are one step, because nothing sees them before EXEC.
A lost link sets `connection->err` (`broken`), an error reply does not, so that a
connection may go back to the pool with a MULTI open or a WATCH on. `storeAll`
reads a reply that is NULL after a lost link, which ends the process
(`AllCrashes`). A tombstone counts as no item (`Outdated`), whatever its version.
`seen` is history: what the HGET of an upsert has read. Each thread makes `MaxCalls` calls out of the requests `Calls`
gives it; other processes write what `Foreign` allows.

### Evaluate, FlagSemantics and Evaluation

A flag is a record of its JSON fields; `Null` is an absent or null field, `Bad` one
of an unexpected type. Of a value only its type is kept. Hashes, relations
between texts, times and versions are constants, so the float arithmetic of
`LDi_bucketUser` is the table `Hash`, which may hold the value 1 that it can round
to. `Evaluate` has one operator for each function of `evaluate.c` that does not
read the store, and one for each section of `LDi_evaluate` (`on`, targets, rule,
fallthrough). A section that leaves the decision to the next one gives `Undecided`.

`Evaluation` is one call and the data source beside it. `stack` is the recursion
of `LDi_evaluate`, a frame for each flag. `ReadPrerequisite` and `ReadSegment`
read the store and are steps of their own, between which `Put` and `Change`
happen; `ReturnToPrerequisites` is the rest of `LDi_checkPrerequisites`. `Return`
goes back to `variation` (`FinishVariation`: details, events, type check) or to the
loop of `LDAllFlags` and `LDAllFlagsState` (`AddState`). `held`, `reads` and
`evaluated` are history: what the store held during the call, what was read, and
the outcomes. The event processor appears with its summary only, to which a call
adds how often each summary key occurs among its events; its queue is in
`EventProcessor`, where an evaluation brings any number of prerequisites.

`FlagSemantics` says the same without loops, early returns or a changing store:
`Meaning` gives each flag's reason and variation, `FlagOK` and `SegmentOK` say
what well formed is. `FollowsMeaning` compares the two for every evaluation whose
reads of each key agree.

The library is built with `LAUNCHDARKLY_USE_ASSERT` (`CMakeLists.txt`), so an
assertion that fails aborts the process. That happens to evaluation of a flag
whose fallthrough is missing or no object; `DataAssumption` excludes it.
Prerequisites that form a cycle recur until the stack is exhausted. The model has
them; `MaxDepth` bounds the recursion and stands for the stack, and is large enough
that without a cycle it is never met.

### FlagBuilder, FileData and DataSources

A builder is a record without its key, which no call changes, and each function of
the builder API an operator on it; `Apply` is one call and `Builders` a sequence of them. Maps (builders, flags, stores)
are functions from the keys they have. `Intended` says what a log of calls on a builder and on the
ones it was copied from should give a user, from the calls alone and by what
`include/launchdarkly/integrations/test_data.h` says of them: the last
variation chosen for the user, else the newest rule that holds (of an attribute that is
an array one element suffices), and so on. `Resets` are the calls that made the
flag boolean again, which puts its settings back. `ArrayForAllUsers` and
`OffAfterValue` are the two uses of `LDFlagBuilderValueForAllUsers` for which the
code does something else than documented (section 5).
`DataSources` runs builders, `LDTestDataUpdate` (one step under the lock, then
`BeginNotify` and a step for each instance without it), and the `start` of a client
(`Copy`, `Fill`, `Register`). `LDFileDataInit` merges a file in each step (`LoadFile`).
A change between `Copy` and `Register` reaches a
client only with the next change of the flag; `ClientsFollow` is about the changes
after the registration.

Some uses of the API read freed memory and are not in the model: clearing a
builder that has targets or rules, using a copy of a builder after the
original with rules was replaced (`Defined`, `dangling`), changing one flag from
two threads at once, closing a client while a change is passed on. They are
listed among the hazards.

## 3. Runs

| run | checks | result |
|---|---|---|
| `Caching` | types, `ReadYourWrites`, `GetConverges`, `AllConverges`, `InitVisible`, `InitNoticed` (liveness), with a feed or with another process writing | hold |
| `CachingOlder` | `UpsertOlder` with a feed that repeats older versions | violated, finding |
| `MemoryStore` | types, `CountsReferences`, `Refinement` | hold |
| `MemoryGap` | `AssociatedAlive` with writes in the gap of `storeAll` | violated, finding |
| `Streaming` | types, `CleanStreamUpToDate`, `BacksOff`, `Recovers` (liveness) | hold |
| `StreamGarbage` | `UpToDate` for every stream | violated, finding |
| `Events` | types, `Conserved`, `RemembersMostRecent`, `DiscardedAfterRetry`, `Bundled` (liveness) | hold |
| `RedisStore` | types, `CountsConnections`, `UpsertsWhatItRead`, `Served` (liveness) | hold |
| `Client` | types, `InitReturns`, `CloseReturns`, `Follows` (liveness), `RefusalStops`, `StoreAdvances` | hold |
| `RedisStaleWatch` | `OnlyErrorsFail` without faults | violated, finding |
| `Evaluation` | types and the chain of frames, `FollowsMeaning`, `CountsEvaluations`, `EventsExplain`, `AnswersWithValue`, `OneSnapshot`, `Returns` (liveness) | hold |
| `DataSources` | types, `Configured`, `ClientsFollow`, `FirstFileWins` | hold |

Each property of a passing run has a mutant: an operator next to the one it
mutates (`ExpiredIgnoringAge`, `RetryWithNewId`, ...) that makes the code's
mistake; the property fails when it is used.

### Bounds

- CachingStore: one key and one kind suffice for the races of one item and its
  collection; two versions give an old and a new item, timeout and latency of
  one tick let an entry be fresh, current and expired while a call is out; two
  cells allow a duplicate `all:kind` entry. Three threads: the one writer there
  is (the network thread) and two readers, or one that also asks whether the store
  is initialized. In daemon mode there is one reader and one external writer. About
  375,000 states.
- MemoryStore: two keys, two versions, one writer and two readers, four cells,
  so that the reuse of a freed cell and two readers of one item happen.
- Streaming: two keys, two versions, seven unread lines (a put and a change),
  three attempts (first wait, doubled wait, capped wait), lifetimes and read
  timeout of three ticks.
- Events: three users and two known ones (eviction and reordering), room for two
  events (one evaluation with one prerequisite can overflow the queue), three
  recorded calls, so up to three payloads. Three payload ids stand for all
  UUIDs, since only the one in the buffer and the last one received matter.
- Client: a wait of two ticks and an interval of one (init times out before and
  after the first answer), two versions, two pieces of a body (a cut one and one
  after it).
- RedisStore: three threads on two connections, so that one waits; one call
  each and one foreign write suffice for a write between HGET and EXEC, for a
  second user of a connection that met an error, and for a connect that fails
  while another thread waits. `RedisStaleWatch` has two calls per thread. The
  runs may end (no deadlock check): the threads have no more calls to make.
- Evaluation: three flags, the first of which requires the other two and the
  second the third, so that one flag is read twice at different depths; one
  segment that two rules look at; one change and one failing read during the
  call, at any point. A change replaces the flag that is evaluated, a
  prerequisite or the segment, by well-formed and malformed bodies, one of which
  closes a cycle of prerequisites; `MaxDepth` is three flags in two states each. The leaf
  goes through every sort of operator, negation, array, rollout and malformation
  alone. Users are at both sides of a weight's limit. The run may end (no
  deadlock check): the call has returned.
- DataSources: two threads, two clients, two flags, two changes, one failing
  start. One flag gets every sort of builder call, with rules and targets over
  a builder and its copy; the other keeps the second thread busy. One user has an
  array as an attribute, the other lacks the attribute. A value for all users is a
  text or an array, and may be followed by turning the flag off. Threads and clients
  are symmetric. The run may end: the application makes no more calls.

### Fairness

- `CachingStore`: time passes; a call that started ends, because the code has
  no unbounded wait in it; the application asks `LDStoreInitialized` again and
  again, as every evaluation does. Where two threads read at once, none of them
  asks: answers take no time in the model, and two threads that take turns would
  keep the clock from moving.
- `Streaming`: time passes and the loop of the network thread polls. Connecting
  has strong fairness because a request that could not be prepared is tried
  again by the next poll that may. Nothing is assumed of the service or the
  network.
- `Events`: time passes, the loop polls, and a request can be prepared in the
  end. That every transfer ends is assumed of the service and the network: the
  code sets a timeout for connecting (`network.c`, `CURLOPT_CONNECTTIMEOUT_MS`)
  and none for a transfer, so against a peer that is silent for ever `Bundled`
  does not hold.
- `Client`: time passes and the two threads run; nothing more for `InitReturns`
  and `CloseReturns`. `Follows` also assumes `Answers`: transfers end, and a poll
  that is made again and again gets a complete answer once.
- `RedisStore`: threads run, redis answers or the link fails, and the timed wait
  ends after its ten seconds. Threads make finitely many calls, so nobody
  takes every connection away from a waiting thread for ever.
- `Evaluation`: the thread that made the call runs. Nothing is assumed of the data
  source.

## 4. Proofs

A theorem holds for every value of the constants that the named assumptions of
the module allow: any sets of threads, keys, users and versions, any capacity,
timeout or bound. Each proof module states the inductive invariants it needs (`IInv` or its
named parts); TLC checked them on the run of the same component before they were
proved. What is proved about a specification without fairness holds for the fair one
too, which implies it.

### CachingStoreProofs

- `TypeCorrect`: `Spec => []TypeOK`.
- `Converges`: `GetConverges` and `AllConverges` (`AllAnswersConverge` states
  the second by itself). They speak of answers only and are not inductive. The
  invariant `Fresh` adds that every value the cache or a call in progress holds either equals what the
  backend holds or is younger than the last write: an entry of age `a` was
  true of the backend at most `a + Latency` ticks ago, so if the backend has
  been quiet for longer, it still is. Each action preserves it; `Tick`
  ages both sides alike and an entry older than the timeout is not served.
- `InitIsVisible`: `InitVisible`, assuming that the query for the marker does
  not fail. The invariant `InitKnown` says that after a successful init the
  backend has its marker and no negative sentinel is current.
- `ReadsOwnWrites`: `ReadYourWrites`, which speaks of deployments without another
  process, assuming `OwnBackend`: a feed that sends nothing superseded, one thread
  that writes, and a backend call that takes no longer than the timeout. The last is no formality: with a latency
  of two ticks and a timeout of one TLC finds a read that began before the
  write, fills the cache after the written item has expired, and is served.
  The invariant `Orderly` says that an entry is up to date or older than what the
  backend holds (`EntriesPast`), that a writer caches what it has just written
  (`WritesCurrent`), that a read which a write overtook finds the written entry in
  the cache, no older than itself, once the write is complete (`ReadsPast`), and
  that the entries of a key no write is under way for, and the reads that met no
  write, agree with the backend (`CleanCurrent`, `CalmReads`).

### MemoryStoreProofs

All but types assume `~Gap`: no writer between the two halves of `storeAll`.
`MemoryGap` shows what happens otherwise.

- `TypeCorrect`: `TypeOK`.
- `ReferencesCounted`: `CountsReferences`. The count of a cell is the
  cardinality of the set of references to it, so each step is an argument about
  adding and removing an element of a finite set; a cell with a reference is allocated,
  and a freed one has none left.
- `AssociatedStaysAlive`: `AssociatedAlive`, the property that `MemoryGap`
  violates: the gap is the whole of the finding.
- `StoreRefines`: the refinement of `VersionedStore`. Initial states map to initial
  states; each action maps to the abstract action of the same name or to a
  stutter (retaining and releasing). What a reader has collected and not yet retained is still
  in the table (`Collected`), so its answer is the map at one instant.

### StreamingProofs

Assumed: a stream can hold a put with its blank line (`MaxLines >= 4`), and the null
item is no version.

- `TypeCorrect`: `TypeOK`, with the parser's state in step with the wire.
- `BackoffKept`: `BacksOff`. No wait is pending during a connection, and
  the time left to wait plus the time already waited is at least the shortest
  backoff for the number of attempts (`Waits`).
- `CleanStreamsDeliver`: `CleanStreamUpToDate`. `Shape` describes the states of
  a stream: the lines on the wire are the end of an event, then whole
  events, and the parser holds the beginning of the first one, but for a line that
  uninitialized bytes hid. `Brought` says that the data
  which the changes on the wire apply to (a put on its way, else the
  store) lack only what these changes bring, in order of versions. When
  the wire and the parser are empty, the store is the service's data.

### EventsProofs

- `TypeCorrect`: `TypeOK`.
- `Conservation`: `Spec => []Conserved`. `Conserved` is not inductive alone: a
  step needs to know that what `done` or the service handles is the payload in
  the buffer. `PayloadKept` says so (something in flight or waiting for its retry
  has a buffer, and what arrived has the id the service has), and `FreshId` that
  a new payload never has the id the service knows. Each action then either
  leaves the account alone or takes off exactly what leaves the system
  (`SettleType`).
- `Retried`: `Spec => DiscardedAfterRetry`, from the invariant `SendsCounted`:
  `failureTime` is set exactly between the first failure and the end of the
  second transfer.
- `MostRecentRemembered`: `RemembersMostRecent`, for every capacity. `KeysKept`
  says that the history `recency` names a user once, and that the list is its
  beginning, cut at the capacity; a hit moves the user to the front of both.

### RedisStoreProofs

Assumed: the null connection is no connection (`NilAssumption`).

- `TypeCorrect`: `TypeOK`.
- `ConnectionsCounted`: `CountsConnections`. The count is a cardinality; each
  step moves one thread into or out of a set that it sums, and `PoolDistinct`
  says that no connection is in the pool twice.
- `UpsertReplacesRead`: `UpsertsWhatItRead`. From its WATCH to its EXEC an upsert's
  connection watches the hash, and once it has read the item, either the server
  knows of a write or the item is still the one that was read, which is none, deleted or
  older (`Watched`). Of a tombstone nothing more is said: its version is not looked
  at, see section 5.

### ClientProofs

- `TypeCorrect`: `TypeOK`.
- `PollsAdvance`: `StoreAdvances`. Every piece of a body in memory is
  no older than the store and no newer than the service, or cut off (`Received`).
- `RefusalEndsSending`: `RefusalStops`. A thread that was refused has ended
  (`RefusedEnded`), and nobody else starts a transfer.

### EvaluationProofs

Assumed (`DataAssumption`): flags are finitely many and name flags as their
prerequisites, flags and segments have keys of their own (the store keeps the two
kinds apart, so a key of the model is a kind and a text), a clause on segments names
segments, an item has a key and a version, a list of rules or clauses is a list or
malformed, a flag has a fallthrough (section 2). Variations, rules and targets may
be malformed in every way the model knows. Further: an absent or malformed field is
no number (`AbsentAssumption`), the table of hashes has an entry within the scale for
whatever may be hashed (`HashAssumption`), and an attribute that is an array is a list
(`UsersAssumption`).

- `TypeCorrect`: `TypeOK`, the chain of frames.
- `ServesReported`: `AnswersWithValue`. Every result of a section is `Sound`: its
  value is the one of its variation, and if it is an error that has a value, the flag has a rule
  whose id is no text, which is the exception that the property names.
- `SnapshotShown`: `OneSnapshot`. The invariant `Collecting` divides the flags the
  store had when the call began into the collected ones, the one under
  evaluation and those to come; nothing that the data source does meanwhile
  touches them. The proof attempt showed that `AddState` was written with a `CASE` whose
  guards overlap, which leaves the choice open; it is now a conditional.
- `EventsShown`: `EventsExplain`. The invariant `EInv` speaks of the frames (`Work`):
  the events of a frame are those of the prerequisites it is past, in order, each with the
  variation required of it, and a frame that looks at targets or rules is past all of
  them. When the evaluation of a prerequisite returns, its events and then its own event
  go behind those of its requirer (`AfterWorks`), which closes the run of one more prerequisite. A
  decided frame is explained by the reason it gives (`Explains`), and a read that
  failed or malformed data leaves no reason to explain.
- `CountsShown`: `CountsEvaluations`. The property says that the reads that found a flag
  can be dealt out to the counters. The invariant `CInv` says it of an evaluation under
  way: there is a bijection between these reads and the places of the stack, a place
  being a frame (a flag under evaluation) or an event of a frame (one that is done),
  such that the read and the place agree on key and version (`Matched`). Reading
  a prerequisite adds a read and a frame; returning turns the place of the frame
  into the place of its event and moves those of its events. When the call
  returns, each place is an event of the summary and the sizes of the classes are the counters.
  A read of a segment adds no place: a key is a flag's or a segment's, not both.
- `MeaningShown`: `FollowsMeaning`. Lemmas show of each operator that it gives what
  `FlagSemantics` says (`ClauseVerdict`, `SegmentVerdict`, `PickVerdict` and so on), for lists of any
  length: the first element that decides is the least one, and a rollout's running sum is compared with
  the buckets below it, which are inductions through the least element of a set of numbers.
  `Meaning` is defined by levels, as many as there are flags; a set of flags is settled when
  the levels from its size on agree about it. The invariant
  `MInv` says, for every well-formed content that agrees with what was read so far, where a
  frame stands in it (`FrameFollows`): the prerequisites it is past are met, the rules it is past
  do not match, and a decided frame gives the meaning. It needs `IInv`, `EInv` and `CInv`,
  which say that the flags read are the ones of the frames and events.

### DataSourcesProofs

Assumed: lists of files are lists and a flag in a file has variations
(`FilesAssumption`); an absent or malformed field is none of the values
(`AbsentAssumption`); the arguments of builder calls have the types of the API, which
has no Boolean variant of the calls that set variations (`ScriptsAssumption`, `CallOK`); the
elements of an attribute that is an array are no collections (`AppUsersAssumption`).

- `TypeCorrect`: `TypeOK`; `Listed` adds that no client is in the list of instances
  twice, so that taking one out takes all of it out.
- `ChangesArrive`: `ClientsFollow`. What a client or a copy holds is the flag of the test
  data or has an older version (`Past`), a thread passes on the flag as it is
  (`PassesOn`, because one flag is changed by one thread at a time), and a change that a
  registered client lacks is still on its way to it (`PassedTo`).
- `FirstFileTaken`: `FirstFileWins`. `Merged` states the property for the
  files loaded so far; what a flag value gives a user is worked out from the sections of
  the evaluation (`SimpleValue`).
- `CallsObeyed`: `Configured`, with its two exceptions. `Fits` says what a builder is after
  a sequence of calls: unless an array was given to `ValueForAllUsers`, its
  settings are the intended ones and its variations too (`ScalarsFit`; `OffIs` tells the off
  variation from the one a value for all users should have made it), the
  last variation chosen for a user is the one target that has the user (`TargetsFit`), and its
  rules are the "if" calls, newest first, each with its clauses and its last "then"
  (`RulesFit`). One call more keeps each part (`FitsMore`), so a whole script does
  (`ScriptFits`, by induction over its beginnings); the evaluation of a flag built from
  a builder that fits gives every user what is intended (`FitGives`). The invariant `BInv`
  says that the builders in the map and in the hands of threads fit their logs. The
  proof attempt showed that `Resets` counted a call that sets true and false by hand as making the flag
  something else than boolean, and that `Intended` had no account of attributes that are
  arrays; both are corrected, and the instance has a script and a user for them.

### Only model-checked

Only liveness under fairness (`InitNoticed`, `Recovers`, `Bundled`, `Served`, `InitReturns`,
`CloseReturns`, `Follows`, `Returns`): the prover does neither fairness nor `ENABLED`.
Every invariant and action property that a passing run checks is stated by a theorem.
Where a proof needs an induction over data (the length of a list, the depth of
prerequisites, the number of calls) it takes a least counterexample from a set of numbers
(`WFMin` and `NatLessThanWellFounded` of `WellFoundedInduction`).

## 5. Findings

Each is a run that TLC ends with a counterexample:

1. `CachingOlder`: `storeUpsert` of the wrapper caches what it sent, whether or not
   the backend has kept it (`caching_wrapper.c:331`). If the backend has a newer
   version and the cache does not, the older one is then served, although
   `internal_store.h:79` says that the store is not changed and the test `UpsertOlder`
   (`tests/test-stores.cpp:252`, where the newer item is still cached) expects
   the newer one.
2. `MemoryGap`: `storeAll` retains its items after it released the lock; a writer
   may have freed them.
3. `StreamGarbage`: `LDSSEParserDestroy` leaves `bufferSize`; after a stream that
   ended inside a line the next stream's first event is lost.
4. `RedisStaleWatch`: an upsert that is outdated leaves its WATCH on the pooled
   connection; an init that uses the connection later fails for no reason.

Where the code departs from its documentation and a property that holds names the
departure as its exception (TLC finds the property violated when the exception is
taken out):

- An upsert in redis takes a tombstone for no item (`redis.c:654`), so one that is
  late brings back what a newer delete removed, against `internal_store.h:79`
  ("If an existing item is of a more recent version, then the store will not be
  changed") and `store.h:108`. `UpsertsWhatItRead` excepts tombstones.
- A poll answered by a 200 without a body aborts the process: `done` passes a
  NULL buffer to `updateStore`, which asserts that there is one (`polling.c:20`, called
  at line 122). `Follows`, `InitReturns` and `CloseReturns` except it (`Aborted`).
- A rule whose id is no text serves its value with an error as the reason
  (`evaluate.c:454`, `variations.c:327`), against the comment at `variations.c:334`.
  `AnswersWithValue` excepts flags with such a rule (`OddRuleId`).
- Prerequisites that form a cycle recur without end (`evaluate.c:592`). `Returns`
  excepts calls during which the store held a cycle (`Cyclic`).
- `LDFlagBuilderValueForAllUsers` leaves the off variation alone, so that a flag that
  is off has no value (`test_data.c:849`), and takes an array for the list of
  variations, so that its first element is served (`asJSONArray`, `test_data.c:931`).
  `test_data.h:268` speaks of any JSON type, and of the same variation whether
  targeting is on or off. `Configured` excepts both.

Behaviour that the models have, that a reader of the code should know of, and that
no property is about:

- A flush asked for while a payload is in flight is forgotten (`events.c:75`).
- A peer that is silent after it was connected keeps a poll or a payload open for
  ever (`network.c:114`).
- A change of test data while a client starts, after it copied the flags and before
  it is registered, reaches it only with the next change of that flag
  (`test_data.c:409`, against `test_data.h:60` and 130).
- A flag without a fallthrough aborts the process (`evaluate.c:490`); a failed
  prerequisite makes a flag without off variation malformed (`evaluate.c:335`).
- A redis error reply inside a MULTI puts the connection back with the MULTI open
  (`redis.c:371`); `storeAll` reads a NULL reply after a lost link (`redis.c:521`).
- A first stream that closes at once counts as a success (`streaming.c:422`), a
  failed poll is repeated at once (`polling.c:126`), and `debugEventsUntilDate` is
  compared with the uptime (`all_flags_state.c:382`).
- Without `LAUNCHDARKLY_USE_ASSERT`, `LDAllFlagsState` returns NULL (`variations.c:848`).

## 6. Plan

Every component with control of its own is modelled and every safety property has its
theorem. Liveness stays with TLC.

## 7. Not modelled

- Configuration (`src/config.c`), users and their builders, logging: setters
  without control flow. Private attributes matter for the text of events only.
- JSON, cJSON, sockets, curl and its TLS options, hashes, regular expressions and
  version parsers: libraries. The models use what the code relies on.
- Threads, locks and clocks (`c-sdk-common/src/concurrency.c`): thin wrappers; a
  critical section is a step, time is relative.
- The JSON text of an all flags state and of events.
- Allocation failures, except as the failure of an operation. The library is built
  with assertions (`LAUNCHDARKLY_USE_ASSERT`), many of which abort on a failed
  allocation.
- A clock that cannot be read: the wrapper then treats an entry as neither current
  nor expired (`LD_EXP_ERROR`, `caching_wrapper.c:203`, 265, 527) and the operation fails.
- Serialization of items for the backend (`persistent_store_collection.c`).
- Numbers are exact. The code keeps the sender's `failureTime` as an unsigned int made from
  a double of milliseconds (`events.c:35`, 94), casts a variation index to an unsigned
  int (`evaluate.c:160`), so that a fraction is cut off, and adds up the weights of a
  rollout as floats (`evaluate.c:1284`, 1392); of floats the model has only the
  rounding of the bucket.
- A `flagValues` section of a file that is no object aborts the process
  (`file_data.c:106`); sections are objects here.
- A data source that changes prerequisites without end: the number of changes during
  a call is bounded (`MaxWrites`), and `Returns` says nothing about a call that a chain
  of ever new flags keeps busy.
