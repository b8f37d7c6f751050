# Adriva core framework: a TLA+ development

Adriva is a set of .NET libraries with a documentation site. Most of the
libraries converts data; what is modelled here is the part with state that
several threads, requests, timers or processes share: the analytics pipeline,
the scheduled jobs, the two caches, the Faster storage service and the workflow
engine. Of the site (`docs/styles`, the JavaScript that the generator docfx put
there, with the version 2.1.2 of lunr it brings) the search is modelled:
page, worker and full-text index. Paths below are relative to `src/`.

## The system

| Component | State | Operations | What is hard |
|---|---|---|---|
| **Analytics pipeline** `Analytics/src/Adriva.Extensions.Analytics.Server` | a `BlockingCollection`, one buffer per processor task | requests enqueue, tasks take, persist and clear, the host starts, completes and stops | check-then-act in `Enqueue`, several consumers, failures of the repository at three places, a stop that blocks |
| **Worker, schedule** `Worker/src/Adriva.Extensions.Worker/ScheduledJobsHost.cs` | `ScheduledItem` dates and flags, the timer and its gate | timer callback, manual runs, start, stop, dispose | overlapping callbacks, jobs that block the callback, dates computed from dates, stop before start |
| **Worker, runs** `ScheduledJobsHostBase.cs` | the worker lock | `RunItemAsync` | exceptions before, inside and after the `try`; a refused run shares the holder's `finally` |
| **In-memory cache** `Caching/src/Adriva.Extensions.Caching.Memory` | `MemoryCache`, tokens per moniker, notification queue, reader-writer lock | get or create, notify, remove, clear | a thread-affine lock across `await`, queued notifications, racing token creation, swapping the cache |
| **SQL Server cache** `Caching/src/Adriva.Extensions.Caching.SqlServer` | tables of items and monikers | the same interface over SQL commands | commands of several statements, items and monikers written separately, expiry scans by every server |
| **Faster storage** `Faster/Adriva.Extensions.Faster` | records with ETag and expiry, lock records | get, upsert, delete, acquire, release | optimistic concurrency inside the store's callbacks, self-releasing locks, records that leave the mutable log |
| **Workflow engine** `Workflow/src` | compilations cached by name, the steps' properties, a context's stacks | hash, compile, run steps | names that collide, dictionaries that all runs fill, ways out of nested loops |
| **Site, search worker** `docs/styles/search-worker.js`, `lunr.js` | two requests, the index made of their answers | build the index, answer a query | an index that waits for two requests and is announced after one; a minimal automaton built while words are added, walked by wildcards and fuzzy terms |
| **Site, page** `docs/styles/docfx.js` | text in the search box, results, `indexReady`, breadcrumb, navigations | keyup, messages of the worker, paging, loading of the navigations | answers to earlier texts, text typed before the index is there, two loads in either order |
| **Text search** `TextSearch/src` | the searcher, a count of searches | search, rebuild, recycle | disposal under a search |
| **Blob storage**, **AutoStream** `Storage/src`, `Common/src/AutoStream.cs` | a flag under a semaphore | initialise once, swap once | a semaphore that is not always released |
| **Reporting** `Reporting/src` | none between calls | resolve definitions, execute, render | chains of base definitions |
| **Documents, Forms, Runtime, Web, DevTools** | none | conversions | nothing concurrent |

The components are libraries: they meet in an application, not in each other.
The exceptions are modelled together: middleware, queue and processors
(`AnalyticsQueue`), the run that the timer's scan starts, which
`ScheduledJobs` sees from outside and `JobRuns` from inside, and page, worker
and lunr, which `DocsSearch` composes.

What makes each component correct:

- *analytics*: an accepted item ends in the repository, in its error handler or
  with a task that died, once; a clean stop leaves none; a stop ends;
- *schedule*: each occurrence launches its job once; none is missed; a stop queues
  no further scan, and the host falls silent; a stop waits for what runs;
- *runs*: a singleton's runs exclude each other, if the lock an application
  registers looks at its holder; a lock is given back however a run ends;
- *in-memory cache*: no call returns data older than a notification carried out;
  notifications reach every item; a clear does not pull the cache from under calls;
- *SQL Server cache*: a change reaches every item that was stored and listed before
  it; no item is read past its absolute expiration; scans keep their distance;
- *workflows*: a run executes the definitions of its own workflow, in their order,
  with its properties where it is nested like the one compiled, by the operators; results form
  the tree of the steps; a step finds the properties it inherits; a run ends;
- *search*: the index holds the documents and nothing else; an answer is what
  the query asks for; results do not go back to those of an earlier text, and the
  last text typed gets its results; a breadcrumb names both navigations;
- *Faster*: no acknowledged conditional update is lost; two clients do not hold
  one lock.

`PROJECT.json` lists the hazards behind these, each at its line.

## Modules

### AnalyticsQueue, AnalyticsDelivery

`AnalyticsQueue` has one action per step of `QueueingService` and
`QueueProcessorService` that others can observe. An item is its ticket, the
number it got when the collection accepted it. The collection is FIFO, so two
counters are the queue. `Enqueue` is two actions (the `IsCompleted` test, then
`TryAdd`), because `CompleteAdding` can fall between them; `PersistBufferAsync`
is `ResolveRepository`/`ResolveFails` (outside its `try`), `StoreSucceeds`/
`StoreThrows`, `HandleError` and `ClearBuffer`, which ends both. `resume` says
which of the two call sites `PersistBufferAsync` returns to. `TakeNothing` is
`TryGetNext` returning false; the 10 s of its timeout are not counted, so it may
happen whenever the queue is empty. A `HandleErrorAsync` that throws is logged and ends
like one that returns.

`AnalyticsDelivery` is the abstract specification: accept, settle a batch of at
most `BufferCapacity` pending items, close, finish. `AnalyticsQueue` implements
it under `closed <- addingCompleted`, with `stop` seen as the outcome.

### ScheduledJobs

The clock, the timer, the scan of `OnTimerElapsed` item by item, the launch of a
run inside the callback and its return, and start and stop of the host. A
schedule is the set of its occurrences; `GetNext` is the code's, rounding
included, with `Period` for 5 s. `inline` is the job whose synchronous part
occupies the callback; `RunItemAsyncReturns` is where `RunItemAsync` gives its
task back, at the first `await` or at the end. The two lock blocks of the loop body are
one action with the test between them, since only the gated callback writes
items. `crashed` is the exception that leaves the callback when `GetNext` has no
date.

The timer (external) queues callbacks on the thread pool, `due` of them. `Elapses` adds one
while the timer is on, whether or not the last has run, up to `MaxDue`. `Timer.Change` in `StopAsync` and
`Timer.Dispose` leave queued ones where they are, and `OnTimerElapsed` looks at no
stop flag. So scans may begin, and launch runs, after `StopAsync` has returned; the properties say
how many: what was queued and no more.

### JobRuns

`RunItemAsync`: create owner and parameters, acquire for a singleton, execute,
`catch`, `finally` with `Dispose` and `ReleaseLockAsync`. Each may throw. The
repository has one lock, `NullLock`, which grants always. `IWorkerLock` is a bare interface,
so that what an application registers is an assumption (`Grants`, `Frees`, external): it grants a job that
nobody holds, and its release either looks at the holder ("checksHolder") or frees the job
whoever asks ("freesTheJob"). The difference matters, since `RunItemAsync` calls the release for a
run that was refused, too. `robbed` is history: the runs whose lock another's release
freed. An instance id is used again after a run that ended
cleanly; one whose `finally` block threw while it held the lock is `leaked`.

### InMemoryCache

Calls of `GetOrCreateAsync` on threads of a pool. The read lock is counted per
thread, as `ReaderWriterLockSlim` does with recursion: a call that awaits its
factory leaves its thread and continues on any. Dequeuing and carrying out a notification, looking a
token up, creating and registering one, reading the data and storing the item
are separate actions. `MemoryCache` is modelled from how the code uses it
(external): replacing or removing an entry runs its eviction callbacks later, on
the pool. `source` is the data behind each moniker as a version, `announced` the
newest version whose notification was carried out.

### FasterStorage

`FasterStorageService` and its `CallbackFunctions`. FASTER itself is external:
the callback for an in-place update (`ConcurrentWriter`, `InPlaceUpdater`) runs
while the record is in the mutable part of the log, the one for a new record
(`SingleWriter`, the default copy of the input) otherwise; with `UseLocks` the
callback and the write it allows are isolated per record. Each write is two
actions, the callback's decision and the store's write, so that the absence of
isolation can be expressed. A record's value is the set of updates merged into
it. The middleware gives the requests their shape: which ETags a client sends,
and that it reads again after a conflict.

### SqlServerCache

The servers' threads and the tables they share. A step is one SQL statement: the
UPDATE and the SELECT of a get, the UPDATE and the INSERT of a set, one upsert per
moniker, two deletes each of a scan and of `NotifyChanged`. A call carries the
`@UtcNow` it took at its beginning. `Doing` and `Goes` keep of a call what its rest needs. Every
command is followed by `ScanForExpiredItemsIfRequired` (`Checked`,
`ScanUnderLock`): its first check reads a `DateTimeOffset` outside the lock, which
may give any answer while another thread is under it. `Fail` is every early end:
an exception, a null from the factory, the end of the server. The value of a row
is history: which call stored it, whether it was listed with no notification in
progress ("settled"), and whether the data changed afterwards ("outdated").
The monikers a row needs are a function of its key. The threads are modelled as
those of one server as to the scan's lock and date, which makes them race more, not less.

### WorkflowEngine

Runs of workflows with one name. `CompileWorkflowAsync` is `TakeHash`, and `Lookup`, `Compile` and
`RemoveStale`, each of which is one access to the `MemoryCache`; after `RemoveStale` the method calls
itself, and the hash is taken again, of the properties the steps have by then. It throws where a
run is adding to them. A compilation holds
the step objects of the workflow it was made from, so that later runs of other
objects with the same hash use those. The hash is the preorder of the steps with
their properties: `WorkflowStep.CalculateHash` leaves no trace of nesting. A run is
therefore promised the definitions of its own workflow in their order, and the properties those
steps have when the two workflows nest them alike (`SameNesting`), but not its own tree.
`RunStepAsync` is a stack of frames, and `WorkflowContext` its own stack, pushed by
`EnterStep` (`EnterRoot`, `Inherit`) and popped by `ExitStep`; that the two stay
together is a property, not the shape of the model. `EnterChild` is the part of `EnterStep`
before it copies properties and `Inherit` the copying, so that two runs can
copy into one `Dictionary` at a time: then any addition may get lost and later uses
may throw (`clashed`). Predicates and actions come to any result or throw.

### LunrTokenSet, LunrQuery, LunrIndex

lunr as three layers of operators over strings, which are sequences of
characters. They translate the code's algorithms, not their purpose:

- `LunrTokenSet`: the builder of the minimal automaton with its list of nodes
  still open and its register of finished ones, keyed by finality, labels and ids
  written side by side (`NodeKey`); the automata of a wildcard term, with their
  cycles, and of a fuzzy one; `IntersectWords`, the walk along two of them.
- `LunrQuery`: the lexer as a function of the position it has reached, the parser
  as a fold over the lexemes. `nextClause` gives the clause so far to the
  query (`Completed`); a `QueryParseError` is the state "error".
- `LunrIndex`: tokenizer, pipeline, inverted index, vectors with their binary
  search and merge, `toJSON` and `load`, expansion of a clause and `search`. `Object.keys`
  puts keys that look like array indices first, so `ObjectKeys` does.

What is abstracted: a weight is the number of occurrences of a term, where the
code has BM25 and a cosine, so that the sign of a score is right (up to the
rounding of a weight to three decimals) and the order of the hits is left out. A field
reference is a pair, not a string with a slash. Node ids start at 2 in each
builder; the code counts them for the whole life of the worker, which makes but one index.
Of the stemmer only step 1a is there; no other suffix occurs with the letters
a, b, c, k, s, t.

### SearchMeaning

The reference: what words a text has, what a part of a query means (`Glob`,
`OneEdit`), how it is typed, and which documents it asks for (`Answer`), without
automata, postings or vectors. `OneEdit` is the distance lunr documents, an insertion anywhere included;
`OneAppended` is the one edit the code does not make, and `FoundFor` a part's meaning without it. Of the
two comments on wildcards `Glob` is that on `fromString` (`lunr.js:1386`), any number of characters. `IsIndexOf` and `IsMinimalFor` say what an index has to be.

### DocsSearch

Page and worker, one action per event handler: the arrival of either file at
the worker, `AnswerQuery` (its `onmessage`), and in the page the two navigations,
`Keyup`, the two messages of the worker and the paging. `toWorker` and `toPage`
are the message queues, FIFO as `postMessage` is. `loadNavbar`'s callback calls
`showSearch`, whose `renderNavbar` ends in another call: the handler is bound
twice, hence `keyupHandlers`, and each text is posted twice. A request
may fail; then its callback is never run. `unanswered` and `keyups` are history. An
answer keeps what `search` returned, with the matched terms and scores; the
code sends href, title and keywords of each hit.

## Runs

| Run | Checks | Bounds and why they suffice |
|---|---|---|
| `analytics` | types, `ItemConservation`, `DrainedAtStop`, liveness `AcceptedIsSettled`, `StopCompletes`, refinement `DeliverySpec` | two requests, two processors, buffer of two, three items: one full batch and one rest, in either processor or split; every check-then-act has a rival |
| `analytics_storage_timeout` | expects a violation of `StorageTimeoutApplies` | one processor, a repository that may not answer |
| `scheduled_jobs` | types, `NoOccurrenceRunsTwice`, `EveryOccurrenceIsServed`, `StopQueuesNoScan`, liveness `StoppedHostFallsSilent` | two jobs (one can block the other), two periods, a schedule with dates on and off the period and one rounded down, which also runs out; two queued callbacks, so that a stop finds one behind another |
| `scheduled_jobs_stop` | expects a violation of `StopWaitsForRunningItems` | the same |
| `job_runs` | types, `SingletonExclusion`, `LockOwnerLives`, liveness `LockIsReleased` | three runs: a holder, a refused run and a successor; a singleton job and another; each of three kinds of lock |
| `in_memory_cache` | types, `LiveItemIsFresh`, `LiveItemIsReachable`, `ClearWaitsForCalls` | two calls and two threads, one key and one moniker: the races are about one item; three tokens: two calls' and a stale one; two versions |
| `in_memory_cache_threads` | expects a violation of `CallReturnsTheData` | the same |
| `faster_storage` | types, `NoLostUpdate`, `LockExclusion`, `OnlyTheHolderReleases` | two clients, one record and its lock; a lifetime of 2 within a clock of 3 so that both sides of every expiry occur; four ETags and tokens |
| `sql_server_cache` | types, `NoReadPastAbsoluteExpiration`, `SwallowedOnlyForARival`, `ChangesReachSettledItems`, `ScansAreSpaced` | two threads with one item and one moniker: a rival between any two statements; one notification and one scan in progress; a clock of 0..2 with a sliding expiration longer than the absolute one, an absolute one alone, and none; an interval of 1 between scans, so that some fall inside it and some after it |
| `workflow_engine` | `StepsFollowTheOperators`, `ResultsFollowTheSteps`, `CompiledFromItsDefinition`, `PropertiesAreInherited`, liveness `RunsEnd` | two runs of four workflows with one name: two objects of one definition, three levels deep, a twin of it that differs in nesting alone, and another definition; And, Or and no operator, a disabled step, two property keys, one of them overridden |
| `docs_search` | types, `UnansweredHasACause`, `BreadcrumbIsComplete`, `IndexHoldsTheCorpus`, `AnswersMeanTheirQueries`, `ResultsNeverGoBack`, liveness `LastQueryIsShown` | sites of 0, 3 and 3 documents with shared prefixes and suffixes, digits, separators, stems and terms in one field or both; two sets of stop words; five queries that use fields, boosts, wildcards, edits, escapes and several clauses, among them a fuzzy term of which the sites have a word with a character more at the end; three texts that are no query or too short; two texts typed: an earlier answer and a later one; pages of one hit |
| `docs_search_titles` | expects a violation of `TitleFindsItsPage` | the same sites; the user types titles, one of them with a dot |

The bounds in guards: `MaxItems` (items offered), `MaxFailures` (exceptions in `finally`
that leak a lock), `Horizon`, `MaxRuns` and `MaxDue` (schedule), `MaxVersion`, `MaxQueue`,
`MaxLocks` (in-memory cache), `Horizon` and `MaxGuids` (Faster), `Horizon` and
`MaxChanges` (SQL Server cache: notifications in progress at once; one after
another they are unbounded), `MaxKeyups` (search). Runs and workflows of the engine are finite sets, not bounds of a guard. At the horizon of the
schedule the clock stands still and the timer goes on, so liveness is not an
artefact of the end of time. `CHECK_DEADLOCK FALSE` stands where the program
really ends: a stopped pipeline, a crashed process, a clock that ran out, a
user who types no more.

### Fairness

- `AnalyticsQueue.SchedulingFairness`: the thread pool runs tasks that can run,
  and the host calls and completes `StopAsync`. `RepositoryFairness`, used for
  the liveness properties alone, is that `StoreAsync` returns or throws. Nothing is
  assumed of requests, `StartAsync` or shutdown.
- `ScheduledJobs.Fairness`: the clock, the pool and the synchronous part of a
  job go on; a callback that is queued runs, as one of the pool does. `StoppedHostFallsSilent`
  needs that and no end of runs or of `StopAsync`. The asynchronous rest of a run, manual runs and the stop need not.
- `JobRuns.FairSpec`: a run in progress goes on; job methods and lock calls
  complete. Nobody has to start a run.
- `WorkflowEngine.Spec`: a run that can go on does; predicates and actions return or
  throw. `RunsEnd` needs no more, although two definitions evict each other: a run
  that compiles uses its own compilation.
- `DocsSearch.Fairness`: the browser answers a request or lets it fail, and
  delivers messages. It is stated of the variables these steps change; each of
  them is a step of one action. Typing, paging and the loading of the navigations
  are not fair.
- `InMemoryCache`, `SqlServerCache` and `FasterStorage` are checked for safety alone.

### What the runs show

Four runs end in the disagreement they were written for:

1. `StorageTimeout` of `AnalyticsServerOptions` is never read;
   `PersistBufferAsync` passes `CancellationToken.None`.
2. `ScheduledJobsHost.StopAsync` waits for `RunningItemCount`, which nothing
   increments: it returns while jobs run.
3. `InMemoryCache.GetOrCreateAsync` exits its read lock on whatever thread it
   continues on; on another one than it entered it throws instead of returning
   the data, and `ClearAsync` can no longer get the write lock.
4. lunr says that the query lexer's separator should match the tokenizer's
   (`lunr.js:2636`). It is copied when lunr is loaded, and the worker changes the
   tokenizer's afterwards: a dotted title, as every namespace has, is indexed as its
   parts and not found when it is typed.

Two more are statements of lunr that the passing run `docs_search` shows to be false of its code, as
`AnswersMeanTheirQueries` names exactly where answers differ from them:

5. Insertions have an edit distance of 1 (`lunr.js:1216`, `:1252`), but a fuzzy term does not
   match a word that has another character *after its end*: `bac~1` does not find "back".
   The frames that insert need a rest to put it before. Without `~OneAppended` in `FoundFor`
   the run fails at this query.
6. A wildcard stands for one or more characters according to `lunr.js:1677`, for any number
   according to `:1386`; the code takes none as well: `Glob` allows it, and the answers agree.

Seen while modelling, kept in the models as the code has it, and not counted as
disagreements because nothing documents the intent:

- `CronExpressionParser` rounds seconds to the nearest multiple of five. An
  occurrence rounded *down* is found again from its own rounded date, so such a
  job runs at every scan (`RoundsForward` in `ScheduledJobs` excludes it from
  two properties, the run includes it).
- `ClearAsync` never leaves the write lock it took: calls on other threads go
  past the cache from then on.
- An exception of `GetNext`'s missing date ends the process with all other jobs.
- Reading compares expiry with `<`, writing with `<=` (`CallbackFunctions`).
- `SqlServerCache.ClearAsync` always returns false: `DeleteAllItemsAsync` begins its
  transaction before it opens the connection.
- An item with both expirations is stored with the sliding one alone as
  `ExpiresAtTime`; a get whose UPDATE came before such a store can read it past
  its absolute expiration (`overtaken` in `NoReadPastAbsoluteExpiration`).
- The second statement of `NotifyChanged` removes the monikers of an item that
  was stored again after the first one; that item hears of no later change. Items
  stored while a notification is in progress are therefore not "settled".
- Two workflows of one name that differ in nesting alone share a compilation: the
  second runs the tree of the first. The run has such a twin; `CompiledFromItsDefinition`
  says what the two still agree in.
- A callback that the timer queued before `StopAsync` scans, and launches runs, after it
  has returned.
- `RunItemAsync` releases the lock for a run that was refused. Under a lock that frees a job
  whoever asks, that ends the exclusion (`robbed` in `SingletonExclusion`).
- A compilation's argument type is that of the inputs of the run that compiled:
  the same workflow with other input types throws (`BindArguments`).
- Running a workflow adds inherited properties to the caller's step objects, so
  its hash may be another one the next time.
- `CacheUpsertRequest` documents its time to live in milliseconds;
  `StorageMiddleware` takes seconds. Outside the models: units are not modelled.
- The worker announces its index when index.json is there, before the stop words
  are: a query in between throws and is never answered
  (`UnansweredHasACause` names this case). `index-ready` is posted for an empty
  site, too.
- A text that is no query (`abc~`, or a word before a colon that is no field) throws in the
  worker, and the results of the text before stay in the page.
- Stop words are words of the index, filtered from queries alone: the worker
  gives lunr its filter after the documents. Wildcards find them.
- A node's key writes label and id side by side, so keys of different nodes may
  agree when labels are digits and ids long enough; in the sites of the run they do not.
- A boost of 0 makes the code's cosine 0/0; such queries are not among the inputs.
- `linksOf` in the results: the links of a page of results get the text that is in
  the box when they are made, which need not be the one searched for.

## Proofs

`AnalyticsQueueProofs` proves, for every set of requests and processors and every
capacity, from `ConstantsAssumption` alone: `TypeCorrect`, `Conservation`,
`Drained` and `Refinement`, that is `Spec => DeliverySpec`.
The inductive invariant is `IInv`:

- `ItemConservation` itself: an item taken is in one buffer or has one outcome;
- `BufferInv`: how full a buffer is at each place of its task. `TakeItem` needs
  it for the batch bound of `AnalyticsDelivery`, `LoopTest` for not dropping a
  rest when it makes a new buffer;
- `ShutdownInv`: a task that is done saw the queue completed. With
  `addingCompleted` stable, nothing is accepted afterwards, so that all tasks
  done leave nothing in the queue or in a buffer.

`DrainedAtStop` follows from the three. For the refinement each action is mapped to a step of
`AnalyticsDelivery` or a stutter: `EnqueueAdds` to `Accept`, the three ways out of a
buffer to `Settle` of that buffer, `WaitAllEnds` to `Finish`, which needs
`ShutdownInv` once more.

`JobRunsProofs` proves for all jobs, singletons and instances and each kind of lock: `TypeCorrect`,
`Exclusion` and `OwnerLives`. `SingletonExclusion` is not inductive: the
strengthening `ExecutesUnderLock` says that a singleton's method executes while
the lock names its run, unless it was robbed, and two runs cannot both be named;
`HoldersKeepTheLock`, that a lock which looks at the holder lets nobody be robbed. `LockOwnerLives` is
what keeps a grant from going to an instance that already ended.

`FasterStorageProofs` proves for all clients, keys, lifetimes and horizons, and
for either value of `UseLocks`: `TypeCorrect`, `UpdatesAreKept`, `LocksExclude`
and `HolderReleases`. Types and `FreshGuids` hold without isolation; the three properties are
about `UseLocks` and rest on what it gives:

- `FreshGuids`: a Guid drawn and not yet written is in no record, no client has seen
  it and no other operation has it. So an ETag or token names one write;
- `Isolation`: one operation at a time between its callback and its write;
- `DataInv`: a client that saw the record's ETag saw its value, and a write under
  way that builds on the record holds all that was acknowledged;
- `LeaseInv`: the lock a client holds, unexpired and not lost with the log, is the
  one in the store, and an operation on a lock still finds what its callback found.

`ScheduledJobsProofs` proves for all jobs and schedules, any odd period and any
horizon: `TypeCorrect`, `LaunchesMoveOn` (that is `NoOccurrenceRunsTwice`) and
`StoppedTimersStaySilent` (`StopQueuesNoScan`). `LaunchInv` follows an item from its launch to
the next: it keeps the date it was launched for until a scan prepares it with
a date of `GetNext`, which is later (`NextIsLater`, for schedules that round forward).
`StopInv` says that what runs after `StopAsync` cannot start the timer, so that no callback joins
those queued, and each scan that begins takes one of them. That `GetNext` finds
the *first* date needs the least element of a set of numbers (`LeastOccurrence`).

`InMemoryCacheProofs` proves for all calls, threads, keys, monikers and tokens:
`TypeCorrect`, `CachedDataIsFresh`, `NotificationsFindItems` and `ClearFindsNobodyInside`.

- `LockInv`: which threads a call, and a caller of `ClearAsync`, are on;
- `EveryCallIsCounted`: the calls inside map one to one to read locks, whatever
  threads hold them. A call that ends on another thread than it began on
  may give back the lock of a call still inside, but leaves its own to be counted for that one,
  so a write lock granted means nobody is inside;
- `TokenInv`: a token created and not yet registered belongs to one call and one
  moniker; one that a call attached is the registered one until it is gone;
- `SourceInv`, `ReadInv`: what a factory read is no older than the last
  notification carried out for any moniker whose token the call still has intact;
- the two properties about items themselves.

`SqlServerCacheProofs` proves for all threads, items, monikers and expirations:
`TypeCorrect`, `ReadsAreFresh`, `DuplicatesAreRivals`, `ChangesArrive` and
`ScansKeepTheirInterval`. For the first: `ExpirationInv`, an item with no sliding expiration
ends at its absolute one. `ScansKeepTheirInterval` is shown of each step: the second check is under the lock that the
date is written under. `ChangesArrive` needs the most:

- `CalmInv`: a call that found the data calm has all monikers of its item yet
  to list;
- `ListingInv`: an item on its way to "settled" belongs to the call listing
  it, and each of its monikers is listed or to come;
- `ListedInv`: a settled or outdated item is listed under all its monikers, so
  that the first statement of `NotifyChanged` finds it;
- `ChangeInv`: while a notification is in progress nothing is calm, and an
  item is outdated only while the eviction of one of its monikers is to come.

`WorkflowEngineProofs` proves for any number of runs, workflows of one name,
trees, predicates' answers and properties: `RunsItsOwnDefinition`,
`ResultsAreTheTree`, `StepsFindProperties` and `OperatorsAreFollowed`. `CompileInv` says that the cache
and every run before its steps go by a hash that spells the definitions of their own workflow and
properties its steps have had since (`TakenOf`); properties are only added, so a hash once taken stays
below them. Where two workflows nest their steps alike, equal hashes then mean equal properties
(`OneHashSameProperties`): at the first place where they differ, both steps would have inherited
the same. `RunsItsOwnDefinition` claims no more of workflows that nest differently. `PathInv` holds the two stacks together:
the context's is the path of steps that the calls are in, and the result of each is put under
the step above it. `PropsInv` and `FoundInv` say that what is added to a step is
what it has to find, and that all of it was added to the steps on a path, down
to the first at which two runs clashed.

`OperatorInv` is the longest. It gives each run a set `good`, the steps that
returned TRUE, and says of it

- that a step that was left holds by its operator as the schema says, and had its
  children processed up to the one that ended it (`Settled`);
- that each call of the stack is in the child below it, all children before
  that one let it go on and none after it was begun (`CallsInv`, `TopInv`);
- that a step seen is a root, of which all before the current one are, or a child of a
  step whose predicate held (`SeenInv`).

When a run is done nothing is on the stack, so every step is settled and `good`
obeys the recursive equation of `Holds`. In a tree the equation has one solution (`HoldsFrom`, from the last conjunct
of `TreeAssumption`: every set of steps has one with no child in it), and
`StepsFollowTheOperators` follows.

`DocsSearchProofs` proves for every site, all texts and any number of keys:
`TypeCorrect`, `NeverGoesBack`, `BreadcrumbComplete` and `AnsweredOrCaused`. That the results do not
go back rests on `InOrder`: the numbers of the texts rise from the results shown over
the answers and the queries on their way to the last key, along both
FIFO queues; an answer takes the number of the query at the head, and what is
posted has the number of the last key. lunr stays opaque in these proofs: whatever
`search` returns or throws, the first three hold. `AnsweredOrCaused` is about worker and page:
`IndexInv` says that an index is that of index.json, is there as soon as both
files are, and that nobody asks before index.json is. That `search` throws at no text of
`Meanings` is its hypothesis `LunrAnswers`; the run checks it for the sites and texts it
has, since it asks each of them of each index (`UnansweredHasACause` fails where `search` throws).

Assumptions are those of the modules, and TLC evaluates all of them in the
runs: the types of the constants (`ConstantsAssumption`, `BoundsAssumption`); that what stands for "nothing"
is no record, row, call or index (`NoneAssumption`, `NeverAssumption`, `NoIndexAssumption`),
as null is none; `PreOrderAssumption` (the steps of a workflow, each
before its children, are a finite list); and `TreeAssumption`. `WorkflowValidator` refuses a workflow that
reaches one name twice (`ValidateUniqueNames`), so a step is in one place and not below
itself; that no step object is of two workflows is how callers make them.

Only model-checked: the liveness properties `AcceptedIsSettled`, `StopCompletes`,
`EveryOccurrenceIsServed`, `StoppedHostFallsSilent`, `LockIsReleased`, `RunsEnd` and `LastQueryIsShown`, since the prover handles neither
fairness nor ENABLED; and lunr's algorithms, `IndexHoldsTheCorpus`, `AnswersMeanTheirQueries`
and `LunrAnswers`, because what a recursion over words or a fold over documents computes takes
induction over data, which it cannot do either.

## Not modelled

Parsing, serialisation, HTTP, SQL text, reflection, Excel and HTML output;
logging; disposal of objects after the host stopped; time-based expiration and
eviction callbacks of the in-memory cache; `ClearAsync` of the SQL Server cache,
which changes nothing; of the workflow engine the values actions leave in the
context, custom types, the factory and the validators' rules; size limits and `Initialize` settings
of FASTER other than `UseLocks`; methods of the worker that only resolve names.
`Worker.Hangfire` and `Worker.Durable` hand scheduling to their libraries.

Of the documentation site: rendering, the filter of the table of contents, tabs,
affix and footer; the search in the page itself, which is chosen when
`new Worker` returns nothing, while it throws where it cannot; programmatic
queries, pipeline plugins and metadata of lunr, which the worker does not use;
minified vendor scripts.

Of the components without a module:

- *Text search*: what a search sees of a searcher disposed of under it is
  Lucene.NET's to say, and no document says what it may expect.
- *Blob storage*, `AutoStream`: a caller that waits for the semaphore while
  another one initialises never returns it (`SqlServerBlobManager.cs:45`,
  `AutoStream.cs:127`). One flag and one semaphore are all the state; the
  hazard is listed, with no statement of the repository to hold it against.
- *Reporting*: keeps nothing between calls. Base definitions are followed by
  name (`FileSystemReportRepository.cs:115`): a chain ends unless it is a cycle,
  which nothing refuses.
- *Common, Documents, Forms, Runtime, Web, DevTools*: sequential conversions and
  wrappers.

## Plan

Written, in this order: `AnalyticsQueue` with its contract and proofs,
`JobRuns` with proofs, `ScheduledJobs`, `InMemoryCache`, `FasterStorage`,
`SqlServerCache`, `WorkflowEngine`, `LunrTokenSet`, `LunrQuery`, `LunrIndex`, `SearchMeaning`
and `DocsSearch` with proofs, then the proofs about `FasterStorage`,
`ScheduledJobs`, `InMemoryCache`, `SqlServerCache` and `WorkflowEngine`. Every
invariant and every action property of a run that is not about lunr's algorithms is now a
theorem. What is left:

1. Lemmas about lunr that need no induction: what the parser makes of one
   lexeme (`ParseLexeme`).
2. Abstract specifications beside `AnalyticsDelivery`: a lock service that `FasterStorage`'s
   locks implement.
