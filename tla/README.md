# TLA+ specifications of rtcx

rtcx compiles CUDA code at run time (NVRTC), links fragments of it
(nvJitLink), and keeps the results in a cache in memory and on disk.  This
directory specifies the parts of it whose correctness depends on the order of
events, checks them with TLC on small instances, and proves the most important
facts with TLAPS for every instance.

Contents: [1. The system](#1-the-system), [2. The modules](#2-the-modules),
[3. What is checked](#3-what-is-checked), [4. What is proved](#4-what-is-proved),
[5. Where the code and its documentation part](#5-where-the-code-and-its-documentation-part),
[6. What is not modelled](#6-what-is-not-modelled).

## 1. The system

| Component | Code | State | Operations | What makes it correct |
|---|---|---|---|---|
| LRU table | `include/rtcx/rtcx.hpp` `lru_memory_cache` | hash -> (tick, value) | hit, purge, insert, clear | never above its limit; evicts the least recently used half |
| Compile cache | `src/rtcx.cpp` `cache_t` | two LRU tables of shared futures, one mutex, an atomic tick, the `enabled_` flag; a directory of files shared by processes | `get_or_add_blob`, `get_or_add_library`, `clear_memory_store`, `clear_disk_store`, `preload_from_disk`, `enable` | whole files and right objects only; one compile per object; every waiting caller is released; a result outlives its process |
| Statistics | `cache_stats_counter`, `get_stats`, `clear_stats` | eight atomic counters | incr, get, reset | each call counted once, as what it was |
| Library life cycle | `initialize`, `teardown`, `load_dso`, `LibCuda`, `LibNVRTC`, `LibNVJitLink` | two once-flags, three optionals with the handles of `dlopen` | initialize, teardown | once only, retried after a failure, no handle lost |
| Compile, link, load | `compile`, `link_library`, `load_library`, `library_t`, `kernel_ref` | NVRTC programs and nvJitLink handles within a call, CUDA libraries with their owners | as named | every handle released, also on failure; every call finds its library; no failure passes for a result |
| Fragment compiler | `src/nvrtc_lto_fragment_compiler.cpp` | process-wide map key -> fatbin behind a shared mutex, the architecture of the first caller's device | `compile`, `read_cache` | one entry per key, never replaced, all for one architecture |
| Algorithm planner | `src/algorithm_planner.cpp`, `src/algorithm_launcher.cpp`, `src/fragment_entry.cpp` | a plan (entrypoint, fragments, options); a `launcher_jit_cache`, given by its owner and shared by planners: map key -> launcher behind a shared mutex | `add_fragment`, `get_launcher`, `dispatch` | one launcher per key, the right one for the plan, loaded while it has an owner |
| Hashes | `src/hash.cpp`, `include/rtcx/hash.hpp` | none | `make`, `parse`, `to_hex_string` | parse inverts to_hex and refuses the rest |
| Buffers and blobs | `buffer`, `blob_t` in `include/rtcx/rtcx.hpp`, `algorithm_launcher` | an address, its size, and how to release it | construct, move, assign, convert, release, destroy | one owner at every moment, which releases the data as it was made |
| Embedding | `include/rtcx/embed.hpp`, `cmake/modules/embed/` | at build time: the files it has read, three output files | load, merge, compress, hash, generate; at run time `decompress_blob` | offsets and sizes cut the bytes back into the files; the hash changes with them |
| Build matrix | `cmake/modules/compute_matrix_product.py` | none | product of lists with joint axes | each combination once |

How they interact:

* The user's code calls `get_or_add_*` with a compile function, which usually
  calls `compile` or `link_library`.  The planner has a cache of its own and
  calls nvJitLink and the CUDA runtime directly, without `cache_t`.
* The threads of a process share `cache_t` through its mutex and the tick, and
  each other's compiles through shared futures.
* Processes share only the cache directory, through `open`, `write`, `rename`
  and `unlink`.
* File names are printed hashes; `preload_from_disk` parses them back.
* Everything but the planner and the fragment compiler needs the libraries that
  `initialize` opens; those two call NVRTC, nvJitLink and the CUDA runtime directly.
* The fragment compiler makes fragments for the planner to link.
* The embed generator runs at build time; its outputs are the headers and sources that
  user code hands to `compile`, through `decompress_blob`.

What is hard here is concurrency and failure: the tick is taken outside the
mutex, the compile runs outside it, futures pass from thread to thread, entries
are evicted while their compile is in flight, exceptions leave through half-done
states, and processes die between `write` and `rename`.  The hazards in
`PROJECT.json` list each point with its line and the properties that watch it.

## 2. The modules

| Module | What it is |
|---|---|
| `LruMemoryCache` | the LRU table as operators |
| `SharedMemo` | abstract: what `get_or_add` promises to its callers |
| `Cache` | the state machine of `cache_t` in several processes (extends `LruMemoryCache`) |
| `CacheProperties` | its promises, its fairness, the documentation it does not keep, and how it implements `SharedMemo` |
| `CacheLru` | `Cache` next to a history of the true order of uses |
| `OnceMap` | abstract: a map of things built once |
| `CacheStats` | the eight counters on top of `Cache`, and those who read and clear them |
| `NestedCalls` | `get_or_add` with compile functions that call the cache themselves |
| `LauncherCache` | the planners' launcher cache; implements `OnceMap` |
| `FragmentCompiler` | the process-wide compiler of fragments; implements `OnceMap` as well |
| `Lifecycle` | `initialize` and `teardown` |
| `Toolchain` | all that calls the opened libraries: compile, link, load, launch, release (extends `Lifecycle`, and implements it) |
| `Hash128` | the printed form of a hash, and the loop that parses it |
| `Embed` | the generator of embedded files, and the program that reads its outputs |
| `Buffers` | the objects that release something in their destructor, under moves |
| `CacheProofs`, `CacheLruProofs`, `CacheStatsProofs`, `NestedCallsProofs`, `LauncherCacheProofs`, `FragmentCompilerProofs` | theorems about the module of that name, `CacheProofs` also about `LruMemoryCache` |
| `ToolchainProofs` | theorems about `Lifecycle` and `Toolchain` |
| `SequentialProofs` | theorems about `Hash128`, `Embed` and `Buffers` |
| `MC*` | values of the constants for TLC |

A few definitions appear in two forms: the one the module uses, and before it one
commented as a slip that the code does not make (an unlock that is forgotten, a
length that is not checked).  Nothing refers to the latter; put in place of the
former it makes the property that `PROJECT.json` names under `mutants` fail, which
shows that the property has something to say about that line.

### LruMemoryCache

A table maps every hash to an entry or `None`.  `Hit` stamps, `Insert` purges
first if the table is full, as `insert()` does.  `purge` sorts by tick with an
unstable sort over an unordered map, so the victims are a choice among all sets
of the right size whose ticks are no larger than those of the rest.

### Cache

`pc[t]` is where thread t is; one action is what the code does between two points
at which another thread or process can see the difference:

| Code | Actions |
|---|---|
| `fetch_add` on the tick | `Call` |
| lookup under the mutex | `MemHit`, `MemMiss` |
| `blob_t::from_file`, insert, unlock | `OpenBlob`, `DiskMiss` |
| `get_disk_library`: `exists`, then the driver | `LibraryExists`, `LoadLibrary`, `DiskMiss` |
| `set_value` of a loaded library, after the unlock | `PublishLibrary` |
| insert of the pending future, unlock | `Reserve` |
| the compile function and `set_value` | `CompileReturns`, `CompileThrows` |
| `cache_blob_to_disk` | `MakeTemp`, `Write` (a short write is any step of the loop), `Rename` |
| a system call that throws, with the unwinding of locks | `IOThrows` |
| `get()` by the caller | `Await` |
| `clear_memory_store`, `enable` | `ClearMemory`, `Enable` |
| `clear_disk_store` | `ListForClear`, `Unlink`, `ClearDiskDone` |
| `preload_from_disk` | `ListForPreload`, `PreloadLock`, `PreloadTick`, `PreloadFile`, `PreloadDone` |
| death and restart of a process | `Crash` |

A future is pending (by a thread), ready (with a content) or broken; setting or
destroying a promise changes every copy of that thread's pending future at once, in
the tables and with the threads that wait.  A content is an object and a length: a
whole file has length `Chunks`.  `Admin` and `Faults` say which maintenance
operations are called and what may fail.

The data race on the tick is modelled by what builds of it do: the plain `tick_++`
of `preload_from_disk` is a load and a store with other threads' `fetch_add` in
between, and each later use of `tick_` in the loop is either read again or the
value in the register.

### SharedMemo

What a caller sees of all this.  Every process remembers outcomes (an object, and its
value or that its compile has failed), all share a store of objects, and a client that has
asked for an object is told an outcome because its process remembers it (`Recall`), because
the store has the object (`Load`), or because a compile has ended (`Make`, `Spoil`); what
was made is stored before its maker goes on (`Save`).  A process may forget at any time,
but it learns only from these steps, and never from another process.

`Memo` in `CacheProperties` is the refinement mapping.  The store is the directory; what a
process remembers are the settled futures of its tables, and the libraries that have been
loaded and are not published yet; a client is told when it has its future and that is settled;
those that write a file are saving.

| `SharedMemo` | `Cache` |
|---|---|
| `Ask` | `Call` |
| `Recall` | `MemHit` on a settled future, `PublishLibrary`, which tells all who wait for it at once |
| `Load` | `OpenBlob`, `LoadLibrary` |
| `Make`, `Save` | `CompileReturns`, `Rename` |
| `Spoil`, `Abort` | `CompileThrows`, `IOThrows` |
| `Take` | `Await` |
| `Forget` | `Reserve`, with what its purge evicts, `ClearMemory` |
| `Preload`, `Erase`, `Crash` | `PreloadFile`, `Unlink`, `Crash` |
| not seen | the mutex, the ticks, pending futures, temporary files, listings, `Enable` |

### CacheLru

Ticks are what the code ranks entries by, so a policy stated over ticks would say
nothing.  `CacheLru` adds the history variable `before`, which entry of a table was last
used before which, by the sections under the mutex, and states the eviction policy over it.

### CacheStats

`Count` is the step of `Cache` that a counter is next to in the code, with its increment;
`CountNothing` is any other step of a call.  The counters are exact, for `incr`, `get` and
`reset` are atomic; but they are `memory_order_relaxed` (`rtcx.hpp:631`, `637`, `643`), and the
observer is without the mutex, so that its accesses to different counters have no order, whatever
order the code names them in.  `Observe` begins `get_stats` or `clear_stats`; `ReadCounter` and
`ResetCounter` let one of its accesses take effect, any of those in `todo`; `ObservationEnds` gives
out what was read.  An increment is a moment of the caller's (callers have the mutex, which orders
them), a load takes effect right after the increment it reads, a store where it stands in
the order of its counter.  So an observation lasts from before the first of these moments until
after the last, which may be longer than the function runs: a relaxed load may give a
value that is not the latest.  `since` is history: by how much each counter grew during the observation.

### NestedCalls

`stack[t]` are the calls thread t is in: a compile function that asks for an object pushes
one (`Ask`), which goes through the mutex, the table and its own compile like any other, and
is popped when its future has been waited for (`Get`).  The dependencies of an object are
those of a compile function that links a library of blobs, and have a rank.  What `Cache`
has in detail is left open here: a lookup on disk finds the object or not, and an insert
may evict anything.

### OnceMap and LauncherCache

`OnceMap` is what a client sees: it asks for a key, and finds the value, creates one
where there is none, or goes away empty-handed where there is none.  `LauncherCache`
is how the planner does it:

| Code | Actions |
|---|---|
| `get_launcher`, the key | `GetLauncher` |
| `read_cache` under the shared lock | `ReadLock`, `ReadHit`, `ReadMiss` |
| the exclusive lock and the second look | `WriteLock`, `WriteHit`, `WriteMiss` |
| `build`: options, `nvJitLinkCreate`, `add_to`, `Complete`, `Destroy` | `Link` |
| `cudaLibraryLoadData`, `cudaLibraryGetKernel` | `Load`, `Kernel` |
| any of these throws | `BuildFails` |
| store in the map, unlock, return | `Store` |
| last `shared_ptr` to a launcher goes: `~algorithm_launcher` | `Release`, `Renew` |

The key is the code's: the fragments' keys run together (`FlattenSeq`).  `Renew` is
the owner of the cache replacing it while no call is inside.  `origin` (the plan a
launcher was built for) and `lost` (launchers whose library a failing
`cudaLibraryGetKernel` has left loaded) are history that the code does not keep.  The refinement
mapping hides the lock, the two looks and the build: a client waits while its thread
is anywhere between the call and the return.

### FragmentCompiler

| Code | Actions |
|---|---|
| the local static in `nvrtc_compiler()` | `Begin`, `Construct`, `ConstructFails` |
| `read_cache` under the shared lock | `ReadLock`, `ReadCache` |
| the exclusive lock and the second look | `WriteLock`, `FoundNow`, `MissingStill` |
| `nvrtcCreateProgram` | `CreateProgram`, `CreateFails` |
| `nvrtcCompileProgram`; in the handler the log, destruction, and the exception | `CompileProgram`, `LogThrows` |
| `nvrtcGetLTOIR`, `nvrtcDestroyProgram` | `GetLTOIR`, `DestroyProgram` |
| one of these fails outside the try block | `LosesProgram` |
| store in the map, unlock, return a copy | `Store` |

The options of the compiler have the architecture of the device that is current for the
thread that constructs it; `arch` is that device's.  `lost` counts the programs that
nobody will destroy.  Waiters for a local static that another thread constructs go on when
it is done or has failed, so that its construction is one step.

### Lifecycle

| Code | Actions |
|---|---|
| `initialize`, `call_once` | `Initialize`, `RunOnce`, `AlreadyDone` |
| `load_dso` and the constructors of the three libraries | `LoadLib`, `OpenFails`, `SymbolMissing` |
| `cu->Init` | `StartCuda` |
| `teardown` | `Teardown`, `TeardownSkipped` |

`opened` counts the handles of `dlopen` that are not closed, `lost` those whose
constructor threw on a missing symbol, so that no instance will ever close them.
`teardown` is documented as not thread-safe and is called while nobody is inside.  It
makes its own once-flag anew inside the `call_once` on it, which is undefined:
afterwards the flag may be fresh or done.

### Toolchain

A function is the sequence of calls it makes (`Script`), `job[t]` the rest of it:

| Code | Actions |
|---|---|
| argument checks, `RTCX_EXPECTS` | `Start`, with a job that has thrown |
| a call through `cu`, `nvrtc` or `nvjitlink` that succeeds | `Call`, `LoadModule` |
| the compile or the link itself fails | `Reports`, and what comes after it goes on |
| a log that is empty is not fetched | `EmptyLog` |
| the check of the result, after the logs | `Check` |
| `make_shared<library_t>` | `Wrap` |
| a call fails, or the type has no case: `RTCX_CHECK_*`, `RTCX_FAIL`, and the deferred destruction | `Throws` |
| the check inside the deferred unload throws | `Terminates` |
| return, and the deferred destruction | `Return` |
| copies of a `library` pointer, `~library_t` | `Share`, `Drop` |

`Throws` at any call stands for every reason to leave there: `byte_buffer::make` without
memory and `to_nvjitlink_input_type` without a case leave like the call next to them.
`ready` is what the documentation asks of callers: nothing is used before `initialize()`
has returned or after `teardown()`, and `teardown()` is called while nobody uses anything.
`failed` in a job is history: something has gone wrong in this call.

### Embed

`Configure` and `Edit` are what happens between builds, `Build` a run of the generator:
`Load` for each file, `Generate`, and `Write` for each of the three outputs.  The lists go
through the runner as one string each, joined and split at semicolons.  `GenerateThrows` is
any check that fails, `Kill` the end of the generator anywhere.  Output streams are never
looked at, so that an output may come out `Short`; `torn` and `built` are history, of
what the outputs have been made of.  The hash is modelled by the bytes it is fed, the
compressor by what zstd promises, the header by the values it declares.

### Buffers

`object[s]` is the object in variable s; `origin[b]` is how address or handle b has to be
released, `taken` what `release()` has given to the program.  A move is followed by the
empty state the code leaves behind, a move assignment destroys first and does nothing on
itself.

### Hash128

A hash is the sequence of its `NumBytes` bytes (16 in the code).  `ToHex` is `make`;
`parse` is a loop of `ParseByte`, `RejectByte` and `Finish`, with `from_chars` as it
behaves: it takes the digits it finds, and no error means only that there was one.
`source` is history: the hash the string was printed from.

## 3. What is checked

| Run | Instance | Properties |
|---|---|---|
| `MCThreads` | one process, 2 threads; blobs of 2 hashes and a library of one of them; limit 1; 3 calls; clear_memory, enable, preload; compiles throw, the process dies | `TypeOK`, `CapacityRespected`, `FuturesHaveProducers`, `EveryResultStored`, `IsSharedMemo` |
| `MCProcesses` | 2 processes with a thread each; a blob and a library of one hash; files of 2 chunks; 2 calls per process; clear_disk, preload; deaths, failing system calls | `ContentIntact` |
| `MCLive` | one process, 2 threads; a blob (limit 3), libraries of 2 hashes (limit 1); 2 calls; clear_disk; compiles throw, system calls fail, the process dies; fair | `SingleFlight`, `CallsReturn`, `SlowCompileBlocksNobody` |
| `MCLru` | 1 thread; blobs of 3 hashes; limit 3; 6 calls; clear_memory, enable; compiles throw | `EvictsLeastRecentlyUsed` |
| `MCStats` | one process, 2 threads; a blob and a library of one hash; limit 1; the cache enabled or not; 2 calls; an observer that reads and clears the counters of libraries, in any order and without end; the process dies | `StatsAddUp`, `StatsTornByMisses` |
| `MCNested` | 2 threads with an outermost call each; libraries of 2 hashes, each made of the blobs of both; compiles throw; fair | `WaitersHaveProducers`, `NoCircularWait`, `NestedCallsReturn` |
| `MCLauncher` | 3 threads with a call each; 2 plans with a common first fragment; 3 launchers; every step of build may fail; fair | `TypeOK`, `LibraryLifetime`, `RightLauncher`, `IsOnceMap`, `CallsReturn` |
| `MCFragment` | 3 threads with a call each; 2 keys with a source each; 2 architectures; construction and every call of NVRTC may fail; fair | `TypeOK`, `ProgramsReleased`, `OneArch`, `RightFragment`, `CompiledOnce`, `CallsReturn`, `IsOnceMap` |
| `MCToolchain` | 2 threads with 2 calls of initialize or teardown and one of a function; 14 requests; 2 library handles; every call may fail; fair | `ToolchainTypeOK`, `DoneMeansLoaded`, `HandlesBalanced`, `CallsFindTheirTargets`, `NothingLeftOpen`, `AnswersTrue`, `InitializeReturns` |
| `MCSequential` | hashes of 2 bytes, 1,792 of them printed, and all strings of up to 5 out of 5 characters; 2 files with 3 contents, 6 registrations, 2 runs of the generator, all its faults; 3 variables, 2 blocks of up to 2 bytes | `SequentialTypeOK`, `RoundTrip`, `FilesComeBack`, `HashFollowsContents`, `OneOwner`, `ReleasedAsMade` |
| `MCBrokenFuture`, `MCTeardown` | one property each, which the code violates: section 5 | |

What the properties say, and why they could fail:

* `ContentIntact`: no file under its final name, no ready future and no result is
  ever partial or of another object.  Needs the loop over short writes, the rename,
  the kinds in the file names, and readers that survive the unlink of what they read.
* `FuturesHaveProducers`: a pending future, in a table or with a waiting thread, has
  a thread of the same process that works on that very object.  Needs every way out of
  get_or_add to settle its promise, whatever becomes of its entry in between.
* `IsSharedMemo`: the cache implements `SharedMemo`.  A caller is told what its own process
  remembers, what the directory has, or how a compile of just that object ended; what was compiled
  is whole in the directory before its caller goes on, unless that is sent away with an
  exception; nothing passes from one process to another, or survives one, but through the
  directory.  Needs every future to be settled with the object it was reserved for, also
  after its entry is gone, and every copy of it at once.  The run has one process, whose cache
  starts on any directory; for several of them, failing system calls and clears of the
  directory it is the theorem of section 4 that shows it.
* `CapacityRespected`: no table ever exceeds its limit, reservations included.
* `EveryResultStored`: what is ready in memory is on disk or being written, so that a
  crash, an eviction or a clear costs no second compile.  Stated where system calls
  do not fail and the disk store is not cleared.
* `SingleFlight`: where nothing evicts a reservation, two threads never compile one
  object at the same time.  Stated for enabled caches with more room than hashes and
  without clear_memory; section 5 says why these conditions are needed.
* `CallsReturn` and `SlowCompileBlocksNobody`: below.
* `EvictsLeastRecentlyUsed`: nothing that goes was used after something that stays.
  One thread per process only; see section 5.
* `StatsAddUp`: until somebody clears them, the counters make up exactly the calls that
  have got past the mutex, and misses in memory the lookups on disk, but for the one under
  way.  Stated where system calls do not fail, for a lookup that throws has been counted
  once, and where nothing is preloaded, which advances the tick as well.
* `StatsTornByMisses`: `get_stats` and `clear_stats` are not atomic and their accesses have no order,
  so that a snapshot may be a state the counters never had.  Nothing bounds how far it is off,
  for any number of calls may come between two accesses; but it is torn by no more than what these
  calls have missed in memory, and the lookup that was under way when it began.  A mistake of one
  field (the wrong counter, or one left out) shows as an error that no miss accounts for.
* `WaitersHaveProducers`, `NoCircularWait`: compile functions that use the cache wait for
  the futures of others while others wait for theirs.  Nobody waits in a circle, since the
  mutex is not held during a compile and the tables of blobs and libraries are apart, however
  entries are evicted and compiled again meanwhile.
* `LibraryLifetime`, `RightLauncher`, `IsOnceMap`: a library is loaded exactly while it has an owner (or is lost),
  callers get what was built for their plan, and the double-checked lookup builds one
  value per key.
* `ProgramsReleased`: the open NVRTC programs are the one of the thread that compiles and
  those lost by a failure after the try block.  `OneArch`: all fragments of a process
  are for one architecture, whichever device each thread is on.  `RightFragment`: where a key
  stands for one source, a caller gets the fragment of its source.  `CompiledOnce`: NVRTC runs
  only for a key that nobody has compiled, also after the wait for the mutex.
* `CallsFindTheirTargets`: every call into a library goes through an instance that is there
  and works on something open, through failed initializations, teardowns, and shared
  libraries.  `NothingLeftOpen`: what a call opens is closed with it, whatever fails in it, and
  a CUDA library with its last owner.  `AnswersTrue`: a compile that fails is reported
  although the logs are read first, and nothing throws without a reason.
* `FilesComeBack`: what a program cuts out of the decompressed bytes by the header's ranges
  is each registered file.  `HashFollowsContents`: the hash of the header changes exactly if a
  file, a destination, a directory or the compression does; stated for equal numbers of files
  without NULs, as the hash is fed no lengths.
* `OneOwner`, `ReleasedAsMade`: nothing is released twice, lost, or released by the wrong
  function or with a wrong size, in any order of moves and conversions.
* `DoneMeansLoaded`, `HandlesBalanced`: a flag that says done means three instances,
  through failures, retries and teardowns, and no handle is forgotten or closed twice.
* `RoundTrip`: the string of a hash is parsed, to that hash.

**Bounds.**  Two threads are enough for everything a pair can do to each other (wait
for the other's future, evict its reservation, overtake it between tick and mutex,
compile the same object), two processes for any pair of writers or a writer and a
reader, which is what a shared file can tell apart.  Limit one makes every insert
a purge and every reservation evictable; with limit three a purge takes part of the
table, so that there is something to choose.  Three calls per process are one more than the
hit that follows a miss, with a restart starting the count again; files of two chunks
are the least that can be half-written.  In `LauncherCache` three threads give a
builder, one that queues behind it and one that comes late, and three launchers suffice
for one build each; likewise in `FragmentCompiler`, where two keys and two architectures are
what a caller can be given wrongly.  In `Toolchain` two calls of the life cycle per thread allow an initialization after a
teardown and after a failure, with another thread waiting, and one call of a function each
allows a release by one owner while the other launches; functions of one thread follow each other and
share nothing but libraries.  Two threads in `NestedCalls` can wait for each other, and two
blobs under two libraries can be asked for in opposite orders.  In `Embed` two files show a
wrong offset and two runs a change; an empty content and one with a NUL are the edges.  In
`Buffers` three variables hold two objects and a place to move to.  In `CacheStats` the observer is
followed at the counters of one kind (`Followed`; in the code it takes all eight): no call
counts in both, and the property compares counters of one kind only; two calls are a lookup that was
under way when an observation began and a miss during it, which together make each bound exact.  Bytes are independent of
each other in `Hash128`, so two of them show a wrong place or order.  `MCThreads` uses the symmetry of its two threads; its
temporal property, `IsSharedMemo`, is a safety property, about single steps, and does not
name them.

**Fairness.**  `FairSpec` asks for weak fairness of `Advance(t)`: a thread inside an
operation is scheduled in the end.  Nothing makes a caller call, an administrator
clear, a process die or a step fail.  A compile need not end; only `CallsReturn` of
the cache assumes that (`CompilesEnd`, weak fairness of the end of each compile),
for a caller that waits for a compile can only return when that does.  Without the
assumption `SlowCompileBlocksNobody` says that everyone still gets past the mutex.
Weak fairness is enough for a mutex here because the number of calls is bounded, so that
nobody is overtaken for ever; of the shared mutex it is assumed that it admits readers
past a waiting writer, which is the weaker of the choices implementations make.
The same holds of a thread inside the fragment compiler, whose NVRTC is taken to end, inside
nested calls, whose compile functions end once they have what they wait for, and inside
`initialize()`, while the process has not been terminated; nothing else is fair.
Preload is left out of `MCLive`, for the size of the state graph; it holds the mutex for a
finite list, without waiting for anybody.

**Deadlock** is checked in every run.  The calls run out where the bounds say so
(`Quiescent`, `Stop`, `Rest`, `Stopped`, the last also after `std::terminate`), and nowhere
else may a state have no successor.

**Abstractions.**

* A compiled object is a function of its hash, and two hashes do not collide.
* A section of code under a mutex that touches nothing but memory is one step; the
  mutex itself is visible (`lock`, `readers`, `writer`) where it is held across steps.
* A temporary file whose write fails, or whose process dies, stays in its directory and is
  never looked at again: `tmp` forgets it.  The temporary directory is not the cache
  directory, as the defaults have it.
* Listing a directory is one step; what happens to it afterwards is seen file by file.
  Files with foreign names, which preload skips, are not modelled.
* The sum of the two limits does not wrap around in `preload_from_disk` (`uint32_t`),
  and neither do ticks.
* nvJitLink handles are not part of the launcher's state; the library's are.
* `MCStats` counts a lookup on disk in the step that ends it; nobody but the observer can
  see the counters in between.  A process has one observation at a time: the accesses of
  one have taken effect before those of the next begin to.
* Calls whose results the code ignores are taken to succeed: in `Toolchain` the deferred
  `DestroyProgram` (`rtcx.cpp:696`) and `Destroy` of nvJitLink, and the `LibraryUnload` of
  `~library_t` (`809`); in `LauncherCache` the `cudaLibraryUnload` of a launcher
  (`algorithm_launcher.cpp:17`, `30`).
* Memory does not run out in `FragmentCompiler` and `LauncherCache`: `std::bad_alloc` is not
  among their failures.
* The three parts of `MCSequential` have nothing to do with each other, and one of them runs.
* The build variants that link NVRTC or nvJitLink statically open nothing and are left
  out of `Lifecycle`.

## 4. What is proved

For every value of the constants, under the named assumptions of the modules, which
only type them (`CacheAssumption`, `NoneAssumption`, `LauncherAssumption`,
`FragmentAssumption`, `LifecycleAssumption`, `ToolchainAssumption`, `BuffersAssumption`,
`HashAssumption`, `PrintedAssumption`, `OutcomeAssumption`, `StatsAssumption`), and, for the generator, say what
CMake lets through (`EmbedAssumption`: names are not empty and hold neither NULs nor semicolons,
while the files hold any bytes and there may be any number of them):

| Module | Theorem | Statement |
|---|---|---|
| `CacheProofs` | `InsertKeepsLimit` | a table within its limit, finite, is within it after `insert()` |
| | `TypeCorrect` | `Spec => [](TypeOK /\ CallsConsistent)` |
| | `Capacity` | `Spec => []CapacityRespected` |
| | `Producers` | `Spec => []FuturesHaveProducers` |
| | `Intact` | `Spec => []ContentIntact` |
| | `Stored` | `EveryResultStored` is invariant, without `"io"` faults and `clear_disk` |
| | `MutualExclusion` | `Spec => []MutexHeld` |
| | `ImplementsSharedMemo` | `Spec => IsSharedMemo` |
| | `CompiledOnceAtATime` | `SingleFlight` is invariant, without `clear_memory` and `enable` |
| `CacheLruProofs` | `EvictsOldestFirst` | `LruSpec => EvictsLeastRecentlyUsed`, with one thread per process and without `preload` |
| `CacheStatsProofs` | `StatsImplementCache` | `StatsSpec => Spec` of `Cache` |
| | `CountersAddUp` | `StatsAddUp` is invariant, without `"io"` faults and `preload` |
| | `ClearTorn` | `StatsSpec => []ClearTornByMisses`: what `StatsTornByMisses` says of a clear, whatever fails |
| | `TornByMissesAtMost` | `StatsTornByMisses` is invariant, without `"io"` faults |
| `NestedCallsProofs` | `NestedTypes`, `ProducersCompile`, `NobodyWaitsInACircle` | `TypeOK`, `WaitersHaveProducers`, `NoCircularWait` are invariant |
| `LauncherCacheProofs` | `TypeCorrect`, `MutualExclusion`, `Lifetime` | `TypeOK`, `MutexHeld`, `LibraryLifetime` are invariant |
| | `RightLauncherGiven` | `RightLauncher` is invariant, assuming `KeysApart` |
| | `Refinement` | `Spec => IsOnceMap` |
| `FragmentCompilerProofs` | `TypeCorrect`, `CompilesOnce`, `OneArchitecture`, `RightFragmentGiven`, `ProgramsAccounted` | `TypeOK`, `CompiledOnce`, `OneArch`, `RightFragment`, `ProgramsReleased` are invariant |
| | `ImplementsOnceMap` | `Spec => IsOnceMap` |
| `ToolchainProofs` | `TypeCorrect`, `InitializedMeansLoaded`, `HandlesOwned` | `TypeOK`, `DoneMeansLoaded`, `HandlesBalanced` of `Lifecycle` are invariant |
| | `UsesTheLifecycle` | `ToolchainSpec => Spec` of `Lifecycle` |
| | `UsersFindLibraries`, `UsersLoseNoHandle` | `DoneMeansLoaded`, `HandlesBalanced` are invariant for its users too |
| | `ToolchainTyped`, `TargetsFound`, `NothingIsLeftOpen`, `AnswersAreTrue` | `ToolchainTypeOK`, `CallsFindTheirTargets`, `NothingLeftOpen`, `AnswersTrue` are invariant |
| `SequentialProofs` | `TypeCorrect`, `ParseUndoesMake` | `TypeOK`, `RoundTrip` of `Hash128` are invariant |
| | `EmbedTyped`, `EveryFileComesBack` | `EmbedTypeOK`, `FilesComeBack` of `Embed` are invariant |
| | `HashTells` | `EmbedSpec => HashFollowsContents` |
| | `SequentialTyped` | `SequentialTypeOK` is invariant |
| | `BuffersInvariant`, `OwnedOnce`, `MadeAndReleased` | `Inv`, `OneOwner`, `ReleasedAsMade` of `Buffers` are invariant |

`KeysApart` says that two plans of one cache have different keys; the code does not
ensure it (the key has neither entrypoint nor options), and the theorem is false
without it.  The other hypotheses are conditions the property cannot do without, and the
runs keep them too: a result that could not be written, or was removed by
`clear_disk_store`, is in memory and not on disk; `clear_memory_store` drops reservations,
and a call that began while the cache was off does not look for any; a lookup that throws
is counted once of twice, and preload advances the tick for no call.

The arguments:

* **Capacity.**  `CapacityRespected` is inductive given `TypeOK`, by `InsertKeepsLimit`:
  `purge` is called when the table is at its limit and leaves at most half of it, rounded
  down, whichever victims the sort picks.  The cardinalities are what makes it more than a calculation:
  the victims are a subset of the cached hashes, which the lemmas show finite.
* **Producers.**  `FuturesHaveProducers` is inductive given `TypeOK` and
  `CallsConsistent` (a thread in get_or_add has a request, an idle one holds nothing).  The three
  things a step can do to a future are one lemma each: it leaves producers alone
  (`ProducersKept`), it adds the thread itself as a producer (`ProducerAdded`), or it ends
  one and settles all copies of its future (`ProducerDone`).
* **Intact.**  `ContentIntact` alone is not inductive: a file becomes visible at the
  rename, and a library's content at the end of `publish`.  `WorkIntact` adds what the thread has in its
  hands by then: its temporary file is a part of its own object, its loaded content is
  whole.  With `Written`, a part of full length is the whole.
* **Stored.**  Inductive given `ContentIntact` (a ready future under a hash holds that hash's
  object) and `FuturesHaveProducers`.  A future becomes ready in three ways: read from the file
  that is there, published after it was loaded from it, or compiled, when its thread goes on to
  write it.  The rename puts a file where `Storing` was said before; nothing else ends the writing, and no
  step removes a file.
* **The memo.**  The mapping is of the whole state, so what a step does to each part of it is a
  lemma: what a process remembers afterwards it remembered before or has just learnt
  (`MemoryLearns`), in terms of the futures in its tables; a promise that is set or destroyed
  tells the same outcome to all that wait and to nobody else (`SettleTells`).  The first
  needs `ContentIntact` and `WorkIntact`, so that what is loaded, renamed or settled is the value
  of its object; the second needs `FuturesHaveProducers`, by which everybody who holds a thread's
  pending future waits for the object of that thread.  `CallsMatched` adds what each
  step of a call has in its hands: a thread that writes a file has its ready future already, and one that
  compiles its own pending one.  Then every action is one of the
  abstract ones or a stutter.
* **One compile at a time.**  `MutualExclusion` first: who is between the lookup and the
  insert holds the mutex.  The inductive part is that the pending future of a thread that
  compiles is the entry of its object (with room for every hash, `InsertWithRoom`, no insert
  evicts it, and `emplace` never replaces one), and that a thread about to insert has no entry,
  since its lookup and only it has had the mutex meanwhile.  Two threads that compile one object
  would be two promises behind one future.
* **Eviction.**  The ticks of a table rank its entries as the history does (`TablesRanked`),
  no tick is from the future (`StampsPast`), and a call that has its tick and has not used it yet is the
  latest of its process (`CallsLatest`), which is where the hypotheses come in: TLC finds
  the eviction that is out of order with a second thread.  What is left is one lemma about `purge` on any
  table (`PurgeTakesOldest`), and one about stamping an entry with the latest tick (`RankedStamped`).
* **Statistics.**  Every step of `CacheStats` is a step of `Cache` or leaves its variables
  alone, so that its invariants hold.  `Balanced` says of each kind that the misses in memory are
  those on disk and the lookup under way, of which the mutex allows one; `Ticks` that the tick counts the
  finished lookups and those that queue.  An observation is followed by `Tracking`, which asks for no
  order of its accesses: what has been read is between the counter at the begin and the counter now
  (`ReadWithin`), what has been reset is at most what was counted since (`ResetWithin`), and what was
  counted on disk since is at most what was missed in memory since, and the lookup that was under way
  at the begin (`MissedFirst`).  The bounds follow from these, for a clear without `Balanced`.
* **Nested calls.**  The invariant is about all frames of a stack: an object asked for inside
  another ranks lower, a frame below the top is compiling, and a pending future, in the table or
  in a frame, is of a thread that has its object in a frame that compiles.  Then, from a thread that waits to the one
  it waits for, the rank of the top falls (`WaitsForLess`), and the thread of the lowest rank in
  a set, which exists because the naturals are well-founded (`LowestRank`), waits for none in the set.
* **The launcher cache.**  The invariant is `TypeOK`, `MutexHeld`, and three more parts.  `StillAbsent`: a
  builder's key is still missing, for it has held the mutex since its second look, which
  is what the second look is for.  `Traced`: what the map, callers and builders hold was
  built for that key, and what is under construction is with its builder alone.
  `OwnedLoaded`: what is owned is loaded, so that a launcher taken for a new build cannot be
  in use.  `Refinement` needs the first two: `Store` is `Create` only because the key is
  absent and the value fresh.  `Lifetime` adds that a lost launcher has no owner
  (`LostIsApart`).
* **The life cycle.**  `OneRunner`: one thread at a time runs the initialization, and only
  while the flag says so.  `LoadedSoFar`: at each step of it the libraries of the steps before
  are there.  `EngagedOpen`: an instance has a handle, so that `reset()` never closes one
  that is not open.  A failure sets the flag back, which is why `DoneMeansLoaded` survives it.
* **The fragment compiler.**  `MutexHeld` and `CompiledOnce` as for the launcher cache.
  `ProgramsCounted` states `ProgramsReleased` without a cardinality: there is a program in use or
  there is none, since only the holder of the mutex has one.  `Constructed`: nobody is past the
  static before there is a compiler.  `Traced`: what is stored was compiled from a source that
  goes by its key for the one architecture, and what a caller holds is still stored, which the
  refinement needs, as values there are never built twice.
* **The toolchain.**  Every step of it is a step of `Lifecycle` or leaves that alone
  (`UsesTheLifecycle`), so the invariant of the life cycle holds, and `ReadyDone` gives the calls
  their libraries.  The rest is about scripts of any length.  `WellFormed` says of the rest of
  a script what makes it safe to go on: the size of a log is followed by the log, a compile or a
  link by its check later on, and nothing but the first call creates a program.  It is shown of every script by concatenation lemmas
  (`WellFormedConcat`, `WellFormedTimes`, `Scripts`) and kept by every step that takes the head or the
  first two calls off.  `JobsOK` relates the rest of a script to what is open; `ModulesOwned`
  says that a loaded library has owners or is in the hands of one call.
* **Buffers.**  `OneOwner` and `ReleasedAsMade` are inductive with the types and
  `BuffersFree`: a buffer is never a view, so that what `release()` or `from_buffer` takes out of
  it is owned.
* **Hashes.**  `SoFar`: what has been parsed is the beginning of the source, and the string is
  still its printed form.  The rest is arithmetic on the halves of a byte and on the places
  2i+1 and 2i+2, done in lemmas.
* **The generator.**  `EmbedInv` relates the header to the configuration it was made for, and
  the outputs to the header, through edits, failures and kills between the three of them.  What is left is about data
  of any length.  What is merged is a recursive function of the list, one step of
  which is a lemma (`TerminatedSteps`, `TokensSteps`); facts about whole lists are by induction on
  their length, as sets of naturals (`SetInduction`, from the well-founded naturals).  `Places` says where
  the n-th file starts and ends in the merged bytes; `ListsComeBack` that splitting at semicolons undoes
  the joining of names; `MergedTells` that merged lists of texts without the terminator, of one length,
  are equal only if the lists are, which makes the hash decide (`HashDecides`).

Only model-checked: liveness (`CallsReturn` of three modules, `SlowCompileBlocksNobody`,
`NestedCallsReturn`, `InitializeReturns`), since fairness and `ENABLED` are out of the
prover's reach.  The two properties of section 5 are false.  Everything else that a run checks
is proved, under the hypotheses above.

## 5. Where the code and its documentation part

Two runs end in a counterexample, which is what the code does:

* `MCBrokenFuture`: a compile that throws leaves its future in the table, broken; later
  calls get it, and do not try again (`src/src/rtcx.cpp:1159`).
* `MCTeardown`: the second teardown after a second initialize may do nothing
  (`rtcx.cpp:487`).  TLC's shortest trace may begin with a teardown that no initialize precedes;
  that one empties nothing and leaves the flag marked all the same.

Further observations, which the models show without a run of their own:

* A disabled cache is not looked up but still stores every miss in memory (`rtcx.cpp:1153`,
  `1217`), where it counts against the limit, although the flag is documented as "preventing any
  caching of compiled blobs and libraries in memory" (`rtcx.hpp:739`).
* Another hash's purge evicts the reservation of a compile in flight, so that the same object
  may be compiled twice at once, although a comment says "we have already reserved a spot in the
  cache for this hash" (`rtcx.cpp:1155`).  With limit one it takes two threads: one compiles, the
  other asks for another hash and then for the first.
* The plain `tick_++` of preload overwrites the `fetch_add` of others, and the tick runs back
  (`rtcx.cpp:1310`).  It takes two other threads: the overwritten increment of a single one
  only makes two uses share a tick.
* With two threads, `EvictsLeastRecentlyUsed` fails: a thread fetches its tick
  (`rtcx.cpp:1114`) before it takes the mutex (`1116`); one that is overtaken in between
  stamps an entry with a tick older than its last use, or older than that of an entry used
  earlier, and the purge takes it first.  Run `MCLru` with a second thread of the process
  to see it.
* `hash128::parse` ignores where `from_chars` stopped (`src/src/hash.cpp:61`): a byte of one
  digit and something else, such as `1g`, is accepted as `01`.  A foreign file of such a
  name is preloaded under a hash it does not belong to.
* A failing symbol lookup leaves the handle of `dlopen` open (`rtcx.cpp:312`; `lost` in
  `Lifecycle`); a failing `cudaLibraryGetKernel` leaves the library loaded
  (`src/src/algorithm_planner.cpp:107`; `lost` in `LauncherCache`); a failing link leaves
  the nvJitLink handle open (lines 69-99), and a failing `nvrtcGetLTOIR` the NVRTC program
  (`src/src/nvrtc_lto_fragment_compiler.cpp:93`; `lost` in `FragmentCompiler`).
* The key of a launcher has neither the entrypoint nor the options nor the device
  (`algorithm_planner.cpp:28`): planners that differ only there must not share a
  `launcher_jit_cache`.  The key of a fragment does not have its source, nor the device:
  fragments are for the device of the first caller (`nvrtc_lto_fragment_compiler.cpp:29`).
* The deferred unload of `load_library` checks its result (`rtcx.cpp:822`, `843`) and throws,
  out of a destructor: if `make_shared` fails and the unload then fails as well, the process is
  terminated.
* A `library_t` that is released after `teardown()` dereferences an empty optional
  (`rtcx.cpp:809`); the documentation forbids it, and `Toolchain` keeps to that.
* The embed hash has neither the lengths of the lists nor the values of arrays
  (`embed.hpp:105-119`), so files with NULs, or another number of them, can give the same
  bytes to hash; the generator ends well when an output could not be written
  (`embed.hpp:380-388`).
* `decompress_blob` with "none" copies all it is given into a buffer of the size it is told,
  without comparing the two (`rtcx.cpp:1391`); for outputs of the generator they are equal, which
  is part of `FilesComeBack`.

## 6. What is not modelled

* **The text of things**: log messages (`Toolchain` has when they are read and what follows),
  the header's layout, `reflect`, which prints values as source, and error messages.  Whether
  reflected text is good C++ (it prints `reflect<float>(1.0f)` as `1F`) is a question for a
  compiler.
* **What NVRTC, nvJitLink, zstd and the driver compute**, and `dispatch` and `call` of a
  launcher, which hand their arguments to the runtime and keep nothing.
* **The build matrix** (`cmake/modules/compute_matrix_product.py`): a recursive function over JSON
  without state, run at build time.
* **The build system and the header shims**: no state of their own.  The variants that link
  NVRTC or nvJitLink statically open nothing.
* **File lists of unequal length**: a target whose objects are several files is registered
  with one id and expands to several paths when the build system is generated; `Embed` has one
  path per id.
