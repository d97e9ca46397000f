# A verification project for packaged_task

`packaged_task` is a small C++17 engine core: a thread pool that returns futures, an event
system that raises events on the pool, a `Core` singleton that owns both, an object manager with
shared handles and serialisation, a virtual file system over plain files and ZIP archives, and a
UDP connection.  This directory holds TLA+ modules for the parts whose behaviour is hard to test,
the TLC configurations that check them on small instances, and proofs checked by TLAPS.

## Inventory

| Component | Source | State it keeps | Operations | What makes it correct |
|---|---|---|---|---|
| Thread pool | `src/src/core/threadpool.h` | `m_io_serv`'s queue of handlers, `m_threads`, `m_num_tasks` | `submit`, `getNumTasks`, `wrap_task`, the destructor | every submitted task runs at most once, its future becomes ready, the count says what is left, the destructor returns |
| Event system | `core/event.h` | `m_events` (hash to `SpecEvent`), per event the delegates and the next handle, two levels of spin flags | `registerEvent`, `subscribeToEvent`, `unSubscribeFromEvent`, `raiseEvent` | calls are atomic, a `SpecEvent` in use is not destroyed, a handle names one functor, a raise gives one future per functor |
| Core and Module | `core/core.h`, `core.cpp`, `module.h` | the singleton's pointer, `isStartedUp`, `isDestroyed`, the members | `startUp`, `instance`, `shutDown` | members die after their users, `shutDown` ends, `instance` never gives a dead Core |
| Object manager | `core/gameobjectmanager.*`, `objhandle.h` | `mObjects`, `mNextAvailableID`, weak handles, `is_del_it` | `registerObj`, `getObject`, `releaseUnusedObjects`, `serialize`, `deserialize`, the destructor | a held handle is null or valid, what nobody holds is freed, a stream can be read back |
| Objects, components, messages | `core/gameobject.*`, `component.*`, `cmpmsgs.*` | `mComponents`, `mGameObj`, the callback table | `addComponent`, `sendMessage`, `write`/`read`/`link` | links join the right objects |
| Type information | `core/object.*`, `classids.h` | the class table | `ClassIDToRTTI`, `IsDerivedFromClassID` | the table is filled before `main`, a class derives from its ancestors |
| Memory streams | `core/memory_stream.*` | buffer, head, capacity | `write`, `read`, copies, `setCapacity`, `resetHead` | what was written is read, a read that does not fit throws and moves nothing |
| Log | `log/log.*` | the sinks in boost's core, `g_output`, the filters | `InitBoostLog`, `SetSeverityFilter` | a started program logs once to each output that its configuration names |
| File system | `fs/file_system.*`, `zip.h` | the index `m_files`, the directories, the archives on disk | constructor's scan, `getFile`, `writeFile`, `createZIP`, `addFileToZIP` | an entry of the index reads back its file, archives stay well formed |
| Connection | `network/connection.*` | the queue of packets | `processIncomingPackets`, `readIncomingPacketsIntoQueue`, `processQueuedPackets` | a frame's work is bounded, packets are handled in order |
| Sockets, file, exceptions | `network/udpsocket.*`, `socketaddress.*`, `fs/file.*`, `core/exception.*` | wrappers and values | | no logic of their own |
| Demonstration | `main.cpp` | | the calls an application makes | |

How they interact: the event system calls `ThreadPool::submit` for each functor while it holds its
flags; `Core` owns pool, event system and file system in this order and destroys them in the
opposite order; its constructor also sets up the log; tasks on the pool may call `Core::instance()`
and raise events; handles call back into objects the manager owns; `link` calls back into the
manager; a message's callback may add components and send messages; a packet's handler reads from
the packet's stream.

Hard behaviours: submitters, workers and the destructor of the pool interleave; a task may throw,
submit, or run on after the service was stopped; the flags of the event system nest; `shutDown`
runs against tasks that still use the Core; handles are released outside the manager's mutex; a
message's callback re-enters the loop that calls it; a handler throws with a packet half read; the
log's set-up fails half way and is tried again; a stream ends inside of a record.
`PROJECT.json` lists each hazard at its line.

## Modules

| Module | Models | Composes |
|---|---|---|
| `TaskFutures` | what a pool promises: the life of a task's future | |
| `ThreadPool` | `threadpool.h` | implements `TaskFutures` |
| `ThreadPoolProofs` | theorems about `ThreadPool` | |
| `EventBus` | what an event system promises: calls are atomic | |
| `EventSystem` | `event.h` | a `ThreadPool`; implements `EventBus` |
| `Removal` | `std::remove_if` with `erase`, as `event.h` uses it | |
| `EventSystemProofs` | theorems about `EventSystem` | `ThreadPoolProofs`, as its pool |
| `Log` | `log/log.*`: sinks and filters | |
| `CoreModule` | `module.h`, `core.h`, `core.cpp` | a `ThreadPool` whose only client is the main thread, and the `Log` |
| `CoreModuleProofs` | theorems about `CoreModule` | `ThreadPoolProofs`, as its pool |
| `Messages` | `cmpmsgs.*`, `sendMessage`, `addComponent`, the type information of `object.*` and `objhandle.h` | |
| `MessagesProofs` | theorems about `Messages` | |
| `ObjectManager` | `gameobjectmanager.*`, `objhandle.h`, `GameObject::addComponent`, with threads | |
| `ObjectManagerProofs` | theorems about `ObjectManager` | |
| `Serialization` | `serialize`, `deserialize` and `write`, `read`, `link` of objects and components | two managers and a stream |
| `SerializationProofs` | theorems about `Serialization` | |
| `ArchiveStore` | what writing an archive promises: all or nothing for a reader | |
| `FileSystem` | `fs/file_system.*`, `fs/zip.h` | implements `ArchiveStore` |
| `FileSystemProofs` | theorems about `FileSystem` | |
| `MemoryStream` | `core/memory_stream.*`, as values with operators | |
| `Connection` | `network/connection.*` | the `MemoryStream`s of its buffer and its packets |
| `ConnectionProofs` | theorems about `Connection` | |
| `MC*` | the constants' definitions of the instances TLC checks | |

Operators named in a comment "Mutant: ..." are deliberately wrong variants of the operator that
follows them.  No specification uses them; each shows that a property would notice the bug.

### ThreadPool

`handlers` is boost's queue of handlers, which the pool reaches with `io_service::post` and
`run`; `stopped` is the service's flag.  `submit` is two steps, `SubmitCount` (`++m_num_tasks`)
and `SubmitPost`, because other threads can run between them.  A worker's `stage` says where it
is: `idle` in `run()`, `calling` inside `f()`, `counted` after `--m_num_tasks`, `exited`.  `Throw`
leaves the function without the decrement, as the code does.  A task may submit others: workers
are threads that call `submit` too.  `~ThreadPool` is `BeginDestroy` (`stop()`) and
`JoinAndDestroy` (all workers have left `run()`; the queue is destroyed, which breaks the promises
of the tasks in it).  `future[t]` is the shared state of a task's future.

### EventSystem

A call takes the system's flag (`LockSystem`), looks the event up (`FindNothing`, `LockSpec`),
takes the `SpecEvent`'s flag, works, and releases both in the opposite order (`Leave`,
`ReturnFromCall`).  `raiseEvent` submits a task per delegate (`SubmitDelegate`, `PostDelegate`)
while both flags are held.  `made[e]` counts how often `e` was registered, so that a `SpecEvent`
that was replaced is told from its successor.  The worker steps are the pool's.  `EventBus` has
one atomic step per call; the refinement mapping gives a raise its effect where it has locked the
`SpecEvent` (`LockSpec`): from then on the functors it will submit are known, and nobody else can submit
before them.

Handles come from a counter of 32 bits, `nextID`, for which `HandleMod` stands.  It may wrap: after
2^32 bindings of one `SpecEvent` the code gives out 0 and then handles that may be in use, and so does
the model.  `HandlesIdentify` is about the first `HandleMod - 1` functors bound since the event was
registered (`bindings` counts them), however many of them were unsubscribed; `EventBus` too
gives out unused handles while there are any (`Exhausted`).

### CoreModule

`members` are the members of Core that exist, `main` is where the main thread is (`out`,
`starting`, `stopping`), `inst` the singleton's pointer.  `instance()` is two steps, the check of
the flags and the dereference, which is what the race with `shutDown` needs.

A constructor that throws (`ConstructorThrows`, `InitLogThrows`, `SetFilterThrows`) leaves `main` at
`unwinding`, and the members made so far are destroyed one by one by the steps that `shutDown` has
too: file system, event system, and the pool, whose workers are stopped (`StopPool`) and joined (`JoinPool`)
before `startUp` throws (`EndUnwinding`) and may be tried again.

A task may keep a reference to the Core while `~Core` is at work.  Submitting through it is well defined
as long as the pool exists, which is what `PoolOutlivesReferences` says of every such reference.  A use of the
event system or the file system after their destruction, or of the null reference of
`core_instance`, is undefined behaviour: `UseWhatIsGone` sets `undefined`, after which the model
stops and nothing is promised; `TearDownTerminates` says that tearing down ends *unless* that happens.

The last lines of the constructor set up the log from `config.json`: `ConstructorInitsLog`, which
makes the sinks, and `ConstructorSetsFilter`.  `config` is what the latest `startUp` has read, one of
`Configs`; a text that names no output or no severity means all of them.  Boost's logging core outlives
the Core: a constructor that throws in `InitBoostLog` or after it leaves the sinks made so far, and a
`startUp` that follows, with the same or another configuration, meets them.  `sinks` counts, per kind,
how many the core has, and `g_sink` says whether the program's pointer knows one; `Renew` takes out the
ones it knows and adds those it makes, so that a sink that was forgotten, or added twice, shows.
`StartedMeansComplete` says that a started Core has its members, and one sink for each output, with the
filter, that *its* configuration asks for; and that otherwise there is no Core, no member of one and
no thread of a pool, wherever the constructor threw.
Formatting and writing of records are boost's.  `g_logger` is not one of boost's `_mt` loggers although
workers log through it; the model has no outcome for that race, since a record changes nothing here.

### Messages

Static initialisers register the classes in any order before `main` (`RegisterClass`);
`IsDerivedFromClassID` walks the table from the class to its ancestors and `dynamic_ohdl_cast` asks it.
`FollowsHierarchy` compares the walk with the closure of the declared base classes, also while base
classes are not registered yet.

`GameObject::sendMessage` is a loop over `mComponents` that calls application code, which may call
`sendMessage` and `addComponent` again.  `loops` is the stack of these calls, the inmost last: `todo` are
the entries that are still to come, `rec` is the component whose callback runs, `add` the component that
`addComponent` inserts when its announcement is over.  `Handle` begins a callback and
`CallbackReturns` ends it; code of the application runs only in between, or in `main`.  A callback may
also throw: `CallbackThrows(n)` unwinds the calls from the inmost to number `n`, where application code
catches the exception, and a component that such an `addComponent` has announced is not inserted.  A call of
`addComponent` with a new class may rehash the hash map that outer loops over the same game object go
over.  Such a loop goes on with any entries (`Disturb`), and its flag `disturbed` exempts it from
`ToldOnce`; a component of a class that the game object has already is replaced in place, and nothing is
exempt.  As in `main()`, callbacks are registered before components are added; a later registration is
outside of the model.

`KnowEachOther` is what `mDidAddComponent` is for: of two components of a game object, one was told of the
other.  It needs the exemption of `overlapped`: `addComponent` announces a component *before* it inserts
it, so that a callback of that announcement that adds another component to the same game object makes
two components that have never heard of each other.  Without the exemption TLC finds this within two
nested calls.  The repository's only class of components is `Component`, and a message is not delivered
to the sender's own class, so that in the repository's own program no callback is called; the instance has two
classes that derive from it.

### ObjectManager

`holders[i]` are the threads that share the handle of object `i`, `component[g]` the component
whose handle GameObject `g` holds.  Releasing the last reference and `~ObjHandle`'s mark are two
steps (`Drop`, `MarkDeleted`).  `releaseUnusedObjects` visits the entries one by one in any order
(`BeginRelease`, `Visit`, `EndRelease`), and so does the destructor (`Nullify`).

### Serialization

A source manager, in which callers build a graph (`createDefaultObj`, `addComponent`, `Drop`,
`releaseUnusedObjects`), is written by `serialize` in any order the hash map may have; a target
manager reads the stream as often as `MaxCalls` says.  `deserialize` is a step per record
(`ReadNext`, which fills `istance_id_remap`) and a step per entry of `mObjects` (`Link`, or
`LinkThrows`, which ends the call and leaves what was linked before, also of a GameObject whose other
components were linked already).  A GameObject has one component for each class in `Slots`.  One thread uses
both managers: `deserialize` takes the mutex for each object it registers or looks up, but goes
over `mObjects` without it, so that a caller has to keep other threads out.  The stream may be a part of
what was written, cut between two records or inside of one (`given`, `cut`): `read` then throws
(`ReadThrows`), and the records before it have made objects that this call does not link.  A record keeps
an id, a class and the ids it refers to; `ref` of a target's object has old ids but for the slots in
`linked`.  A component whose GameObject was freed holds a pointer to freed memory: `write` then puts any
id at all.

`Component::link` looks up its pointer `mGameObj`, cut to 32 bits, as if it was an old id
(`component.cpp:106`).  For a component that is linked already this is a real pointer, and whether its lower
half is an id of the table is up to the allocator: `Missing` and `LinkThrows` are the case in which it is
not, `LinkAstray` the one in which it is, and the component then gets whatever object has that id.

What the properties say needs care.  `ThrowsExactlyWhen` names the three reasons for which a call
throws: the stream ends inside of a record, a record refers to an object that is not in the stream, or
the manager held an object that was linked before, unless its pointer passes for an id, or has no partner in
this stream.  `link` is called for *every* object of the manager, not only
for those that were read, so a second `deserialize` into a manager that holds a component throws.
A reference that a failing call left unlinked is still an old id, and a later call may link it to
an object of its own stream, so that a half-linked GameObject may end up with components of two
streams: `LinksStayInOneCall` says that this, and a pointer that passed for an id (`stray`), are the
only ways out of a call.

### FileSystem

An archive on disk is a sequence of units: local header, data, directory record, end record.
`createZIP` and `addFileToZIP` are a begin step, which decides and computes the units, then
`WriteUnit` once per unit and `EndArchive`; the process may end (`Stop`) between any two.  `Mount`
is the constructor, with the directory's entries in any order.  `Directory` follows
`addZippedDir`'s backward search and its loop over signatures; `ReadAt` is what a reader gets at an
offset of the index.  `Update` and `Listing` map the state to `ArchiveStore`.  Offsets count units, so
that byte sizes, compression and time stamps are abstracted.  The stream's buffer is taken to reach
the disk one unit at a time and in order.

Behaviour of the code that the model has and that a reader may not expect: `createZIP` over an
archive that is in the index makes the index stale, which `IndexReadsBack` excludes by `recreated`; an empty
file in an archive is left out of the index; a file that was loaded from an archive has the
archive's path as its name; and `writeFile` of a new file whose name an archive's file has in the index does
not index it (`:259`), so that `getFile` goes on returning the archive's until the next start.  `hidden`
has exactly these files: `EveryFileExists` says that every other plain file on disk is found *and* comes
before an archive's of its name, and that for a hidden one the archive's comes first.

Archives are the ones that this code writes: stored or deflated, not encrypted, with no data
descriptors, extra fields or comments, at which `addZippedDir` would stop or lose its place.  A reader
whose index is stale may get any content (`loadZipFile`), since the result of `inflate` is not checked.

### Connection

A frame is `BeginFrame`, `Receive` at most `kMaxPacketsPerFrameCount` times through one static
stream (`inputStream`), and then `Call` and what the handler does while the head of `mPacketQueue` is
older than the clock.  `Receive` overwrites the first bytes of the buffer and sets the capacity: the rest keeps
what an earlier datagram left, and a datagram that is longer than the buffer loses its end.  A packet has a copy
of the stream, with a head of its own, and the sender.  `processPacket` is pure virtual and gets the packet's
own stream, not a const one: in any order it may read with any 32-bit count (`HandlerReads`,
`HandlerReadWraps`), reset the head, set the capacity up to the bytes there are, and then
return or throw.  A packet that it threw at stays in the queue, *with the head where the call left it*.

`HandledInOrder` compares what reaches the handlers with the datagrams as they were sent (`taken` has
them whole): each is handled once with success, in order, with its own sender and its own bytes as far as the
buffer holds them.  `NoOvertaking` says that none is handled before one that has failed, and
`ReadsFollowUpon` that the calls for one packet read bytes that follow upon each other.

Received times are 32 bits wide and the clock is not: `UInt32Range` stands for 2^32, and the clock
starts below it and passes it, so that packets of both sides wait in one queue.  `read` adds head and
count in 32 bits too, and `read(std::string &)` takes the count from the packet: the sum may wrap, pass the
test against the capacity and move the head *back* (`Wraps`, `HandlerReadWraps`).  The copy of that many
bytes is undefined behaviour; where the process survives it, bytes are read again.  `ReadsFollowUpon`
therefore exempts a packet whose head was moved in another way than by reading on (`moved`: a wrapped
count or `resetHead`), and `TypeOK` says that even then no head is behind the packet's bytes.

The socket is external: it holds what has arrived, and `receive_from` waits, returns or
throws.  `Connection::init` is declared and not defined, and nothing in the repository opens the
socket, so that today every call throws; the model states what the class does with a socket that
works.

## Runs

| Run | Bounds | What it shows |
|---|---|---|
| `threadpool` | 2 clients, 2 workers, 4 tasks | the invariants, `EveryFutureSettles`, `DestructorTerminates`, refinement of `TaskFutures` |
| `threadpool_count` | 1 client, 2 workers, 2 tasks | the comment on `wrap_task` is not true of a task that throws |
| `eventsystem` | 2 clients and 1 worker as callers, 6 tasks, 1 event; at most 2 registrations, 3 subscriptions, 1 unsubscription, 2 raises; handles modulo 3, so that the counter wraps | atomicity, handles, futures, release of the flags, refinement of `EventBus` |
| `core` | 2 workers, 3 tasks, 3 configurations of the log | order of construction and destruction, also after an exception at any point; a log as configured; a pool for every reference; tearing down ends |
| `core_instance` | 1 worker, 1 task, the same configurations | `instance()` during `shutDown()` hands out a null Core |
| `objects` | 2 threads, 3 objects | handles, marks and release |
| `messages` | 5 classes, 4 components of 3 classes, 1 game object, 4 callbacks that return or throw, 2 calls of `sendMessage` inside of each other | each is told once, components know each other, the cast follows the hierarchy |
| `serialization` | 3 objects in the source, 5 in the target, 2 classes of components, 3 calls of `deserialize`, streams cut anywhere | a call that returns made an image of the graph; when it throws; links stay in one stream |
| `filesystem` | 2 plain files, 1 archive, an empty and a one-unit content, 2 writing calls, 2 stops | the index reads back, every file on disk is found and wins unless `writeFile` did not index it, archives are all or nothing |
| `filesystem_scan` | the same | an empty archive hangs the constructor |
| `connection` | datagrams of 0, 1 and 3 bytes of 2 senders, a buffer of 2 bytes, 2 packets per frame, 4 arrivals, the clock from 6 to 9, 32-bit numbers modulo 8, any counts, 2 exceptions | datagrams are handled once, in order and with their sender; reading goes on where an exception stopped it |
| `connection_read` | the same, with fairness | reading does not end when nothing arrives |

Two threads of each kind are what every race here needs: one that is between two steps and one
that overtakes it.  Four tasks let a task submit another while one is queued and one is abandoned.
Two registrations let a `SpecEvent` be replaced while in use, two subscriptions with one
unsubscription between them let a handle be reused if the code reused it, and the third makes the counter wrap.
Two workers and three tasks let a task submit another one and a third be queued when the pool is stopped.  Three
objects let a GameObject hold a component and replace it by another, or hold two of different
classes, of which one is linked when the other makes the call throw.  Three calls of `deserialize` are a
failing one and one that follows it, with one between them into a manager that holds objects; five objects
of the target leave room for a whole stream behind a cut one.  Two nested calls are the least in
which a callback adds to the game object that is being told; deeper ones repeat it, and the proofs
do not bound the depth.  One game object is enough to see it told twice or not at all: loops of different
game objects share nothing but the stack.  `MCMessages` uses symmetry in the two components of one class and in
game objects; the specification has no fairness.  Two writing calls are a
`createZIP` and an `addFileToZIP` to it, or two updates with a stop in the middle of the first; with two stops the process ends in
the middle of both.  Contents of size 0 and 1 are the two cases of the index.  The index and the
archive are symmetric in the names of plain files, which no definition tells apart, and the
specification has no fairness, so `MCFileSystem` uses symmetry.  Four datagrams exceed two frames'
maximum of two, and a short datagram after a long one shows what stays in the buffer.  Deadlock is checked in every run; a system that has
finished stutters by an explicit step (`Gone`, `AtRest`, `Rest`), and so does one whose behaviour is undefined (`Undefined`).

### Fairness

Workers are scheduled: weak fairness of each worker's step, of a thread that is inside `submit`,
and of the destructor once it began.  Nothing makes a client submit, or the owner destroy the pool.
A task ends, by returning or by an exception; a task that never ends would make every claim about
its future false, in the code as in the model.  In `CoreModule` a task that may call `instance()` again and again ends nevertheless (strong fairness of
`TaskEndStep`).  In `EventSystem` a thread that holds a flag goes on, and a thread that spins takes the flag if
that stays free (weak fairness of both): the spin loop promises no more, so `FlagsAreReleased` is a
statement about holders that always let go and not about a fair lock.  In `Connection` the thread that runs the frames and the clock go on
(`FairSpec`); nothing makes a datagram arrive.

## What is proved

Every theorem is for all values of the constants that satisfy the module's named assumption, which TLC
evaluates on the instance.  Per module one invariant, `IInv`, is shown to hold at first and to be kept by
every action, one lemma per action; the invariants that TLC checks follow from it.

| Module | Theorems | Left to TLC |
|---|---|---|
| `ThreadPool` | its three invariants, `IdleCountMeansIdle` and `DestroyedPoolIsQuiet`, which no run lists, the safety part of `ImplementsTaskFutures` | `EveryFutureSettles`, `DestructorTerminates`, the fairness of `TaskFutures` |
| `EventSystem` | its four invariants, `RaiseReturnsOneFuturePerFunctor`, each step as a step or a stutter of `EventBus` | `FlagsAreReleased`, the fairness of `EventBus` |
| `CoreModule` | its four invariants | `TearDownTerminates` |
| `ObjectManager` | its four invariants, `ReleaseIsComplete` | |
| `Messages` | its four invariants | |
| `Serialization` | its five invariants | |
| `Connection` | its three invariants, `NoOvertaking` | |
| `FileSystem` | its three invariants, `ImplementsArchiveStore` | |

Liveness under fairness is out of the prover's reach (it has no rules for `ENABLED`).

### ThreadPool

That the counter is the number of counted tasks is preserved by a decrement only if no task is at two
workers, which is `TaskOwnership`, and that the destructor leaves nothing behind needs to know where
workers and clients can be in each phase, which is `Control`.  `IInv` is the conjunction of the types,
`Control`, `TaskOwnership` and `CountIsExact`.  Two lemmas on queues (`AppendQueue`, `TailQueue`) and the
library's facts on cardinalities carry the data.  The lemmas on the pool's actions take their action as
assumption, so that `EventSystemProofs` and `CoreModuleProofs` use them for their own pool by
`INSTANCE ThreadPoolProofs`.

### EventSystem

`IInv` is the pool's, the flags' exclusion (`FlagsExclude`), `SpecEventInUseIsAlive`, `HandlesIdentify`, and
three parts that these need: a thread inside of a call has arguments that it may have
(`CallsAreSensible`); the counter of a `SpecEvent` is the number of functors bound in it until that
reaches `HandleMod` (`CounterFollows`), however many calls there are in all; and how far a thread is in `call()`'s
loop, what it has submitted, and that each of its tasks is bound to the delegate at that position
(`RaiseLoop`).  From the last follows that `raiseEvent` returns one future per functor, in order.

For the refinement, the queue of `EventBus` is what is posted followed by what the thread in the loop
has still to post (`QueueSplits`).  `submit` appends to the first part what it takes from the second, so it
is a stutter, and a worker takes from the front.  `unSubscribeFromEvent` needs to know what `remove_if` leaves
of a sequence without repetitions.

### CoreModule

`IInv` is the pool's and what the main thread's place in `startUp` (also while it is unwound) and `shutDown`
says of the flags, the pointer and the members, which come and go in one order (`Lifecycle`); that the pool is
stopped only when it is the last member and gone when none is left (`PoolEndsLast`), so that the pool's own
`DestroyedPoolIsQuiet` holds after an exception as well; that the logging core has one sink where the
program's pointer knows one and none where it does not (`SinksAreKnown`), which is what makes a retry right;
what the constructor's two steps on the log have done (`LogSetUp`); that before `isStartedUp` no worker is inside
of a task (`IdleBeforeStart`); and that a worker has a reference only inside of a task (`Callers`), for
whose end the pool waits, which gives `PoolOutlivesReferences`.

### ObjectManager

The invariants need to know how a handle stands in each phase of the
manager's life (`Phases`: while it lives a held object exists; while `~GameObjectManager` runs a
held handle is nullified or still to be visited; afterwards only nullified handles are left), that an
object which is not allocated holds no component and one that is allocated is in `mObjects` or being
registered (`Registration`), and that the loop of `releaseUnusedObjects` has freed what it passed
(`ReleaseInProgress`).  The action `FreeAll` shows why: it is safe only because nothing starts to be
held once the destructor has begun.  `DroppedHandleFindsItsObject` and `DeletedMeansUnheld` are
claims about the time before the destructor; a thread between its last release and `~ObjHandle`'s
mark (`gameobjectmanager.cpp:14`) is outside of what the code protects.

### Messages

`ToldOnce` is inductive next to the types.  `KnowEachOther` is not: when a component
is inserted, it needs to know that the loop which ends has announced exactly this component, and that
nothing has disturbed that loop.  `Announcements` says so: a loop of `addComponent` carries its component's
class as the sender, and where two of them are over one game object, or one is disturbed, the game object
is in `overlapped`.  Lemmas on sequences (`AppendStack`, `LastOfStack`, `ReplaceLast`, `CutStack`)
carry the stack, which an exception cuts at any depth (`CutPreserves`), and `ContinuePreserves` is shared by the three steps of the inmost loop.

`FollowsHierarchy` follows from the types alone.  `IsDerivedFromClassID` is a recursive function, chosen by its
equation; a solution exists (the classes from which no closed set avoids the wanted one), and every solution
is right: the classes it does not find from are closed under `BaseOf`, and among the classes for which
it would find too much one has a base class for which it does not.  The second half is where
`MessagesAssumption` says that no class is, directly or indirectly, its own base, which C++ enforces and
without which the search would not end.

### Serialization

`RoundTrip` and `ThrowsExactlyWhen` speak of the end of a call of `deserialize`; `IInv` says where its two loops
stand.  `ReadingIsSound`: what was read is a first part of the stream, made objects behind those that the
target had before, and `istance_id_remap` leads from each id to its object.  `LinkingIsSound`: each reference
of each object is as it was before (`Original`, `Kept`), or it has been linked through the table (`Straight`), or a
pointer passed for an id (`Stray`), and which of these may be depends on `toLink` and the phase.  `CallsAreSound`: a
call that threw had a reason (`Cause`), only GameObjects' components and components' GameObjects are linked
(`Sane`), and only a call that failed leaves a reference unlinked.  `SourceIsSound` says that a GameObject keeps the
components it holds, each of the class of its slot, alive and unmarked, whatever callers drop, and gives
`ComponentTravelsWithOwner` when the stream is written.

### Connection

`IInv` says that the buffer keeps its size and its head is 0 between datagrams (`BufferIsSound`), that a packet's
head and capacity are not behind its bytes, also after a sum that wrapped (`QueueIsSound`), that what has been
read of the first packet ends at its head, unless that was moved (`FrontIsSound`), and that the packet the last call
threw at is the first of the queue (`ThrownAtIsFirst`, from which `NoOvertaking` follows).  `HandledInOrder`
is inductive next to these; `PacketMade` shows that a packet has the first bytes of its own datagram and
nothing that an earlier one left in the buffer.  What the calls for one packet have read is a first part of it
(`CallsReadOn`) because each of them ends where `FrontIsSound` says.

### FileSystem

A reader follows the end record to the directory and its records to the data, so what an archive holds depends
on where every unit lies.  `IsArchive` says how a whole archive lies on disk: local headers and data up to the
directory, the directory's records, each of which leads to its file (`Holds`), the end record last.
`IsBroken` says why nothing is read of one that is being written: every end record that is left
points to a place where a local header now stands.  `ArchivesAreSound` says that every archive is empty, whole or
broken.  That is not inductive while units are written, so `WritingIsSound` speaks of the file as it will be:
what is on disk, completed by the units that the call has still to write (`Result`), is a whole archive that holds
the files promised (`Completes`); until the last unit the archive is what it was (`Untouched`) or broken at a
place already passed.  `NewArchiveIsWhole` and `AddedIsWhole` show this for the units that
`createZIP` and `addFileToZIP` lay out, for lists of any length and files of any size; `WriteCompletes` and
`WriteBreaks` show that one unit written keeps it.

`IndexIsSound` says that an entry's file is where the entry says, and before everything that a call in progress
may write; that is why `addFileToZIP` does no harm to an index made before it.  `createZIP` does, and such
archives are excepted (`recreated`).  `PlainFilesAreIndexed` has the one file that is being written and the hidden
ones as its exceptions, which is why `EveryFileExists` speaks of moments between calls;
`HiddenFilesAreShadowed` says that a hidden file's name has entries of archives only, and
`PlainFilesComeFirst` that an entry of a plain file is never behind one of an archive.

For the refinement, `createZIP` and `addFileToZIP` begin an update, the unit that breaks the archive takes its
listing away, the last one makes the listing what was promised, and between these a unit changes nothing.

### Recursive functions

The prover cannot instantiate a theorem with an operator parameter, such as the library's induction
principles.  Two of the proof modules therefore begin with induction over a *set* of numbers
(`SetInduction`, from the well-foundedness of `<`) and with the existence of a function that a recursion defines
(`RecursionExists`, the step being a function too; `FlattensExists`).  With these `Without` and
`FlattenSeq`, which are chosen by a recursive equation, are reasoned about; `IsDerivedFromClassID`'s search is
shown to exist directly (`SearchExists`).

### Assumptions

Beside types and the distinctness of the "none" values, the assumptions say: clients are not workers, and the
set of tasks is finite; within the model's bounds on calls there are as many tasks as functors that may be
raised; the static buffer is smaller than 2^32 bytes; the ids of the components' classes are not
`GameObject`'s; no class is its own base; a disk has finitely many files and archives.

## Disagreements found

* `wrap_task` (`threadpool.h:70-79`) is documented to decrease the count; a task that throws is
  never uncounted, so `getNumTasks()` stays above zero for ever.
* `Module::instance` (`module.h:17-34`) is documented to throw unless the module runs; while
  `shutDown` is inside `~Core` both checks pass and the unique pointer is already null.
* `addZippedDir` (`file_system.cpp:92`) subtracts the size of the end record from the file's size;
  for a shorter file, such as the empty one a `createZIP` that was cut off leaves, the result wraps
  and the search does not end, where the code means to report the file (`:109`).
* `readIncomingPacketsIntoQueue` (`connection.cpp:24-25`) is documented to read until there is
  nothing to read; `receive_from` waits when there is nothing (`:33`), and an exception
  (`:47-58`) is neither counted nor leaves the loop.

## Plan

1. Done: the modules of all components above, and proofs of every safety property, action property and
   step of a refinement that a passing run checks.  What no theorem states is liveness.
2. Open: the hazards of `PROJECT.json` that have no property, which are interleavings with what the
   code leaves to its callers or to boost (a registration during `deserialize`, two threads that log).

## Not modelled, and why

Moving a memory stream: the move constructor and assignment call `std::swap` (`memory_stream.h:73-76`), which
moves again, without end, and nothing in the repository moves one.  An output stream is a sequence of records
in `Serialization`; its growth is `realloc`'s.  `sendPacket` keeps no state.  Compression, time stamps
and the bytes of records in streams are data that no property needs.

Sockets, addresses, exceptions and `File`'s own class are wrappers and value types.  Formatting and output
of the log are boost's.  The registration of classes by name and their factories only look a class up.  The
demonstration program makes calls that the models' environments make.  `doc/` holds notes and example
programs that are not part of the build.  The size of the pool (`threadpool.h:26-27`) is an
expression on the machine's number of cores; the models take any non-empty set of workers.

An exception inside of a locked region of the event system (an allocation that fails) is left to `FlagLock`'s
destructor.  A handler of packets does not write through `getCurPosPtr`, set the capacity beyond the bytes it
has or call `processIncomingPackets` again.  Archives of other programs are not scanned.

The spin flags of the event system are not fair, and a handle that outlives its event's
registration may name a functor of the next one (`event.h:127`): the code promises neither, and
`HandlesIdentify` and `FlagsAreReleased` say what it does promise.  Tasks that wait for the futures of tasks queued
behind them would block the pool for ever; no task of the repository waits for a future.  A thread
that has released the last handle and not yet marked the object when `~GameObjectManager` runs
(`gameobjectmanager.cpp:14`) writes to freed memory, and `deserialize` does not hold the mutex in its
loop (`:133`): the models have the first interleaving and exclude the second by one thread.
