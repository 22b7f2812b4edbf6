# A verification project for b_a_osal

`b_a_osal` is an operating-system abstraction layer in header-only C++ for ESP32
devices: a set of interfaces (threads, server sockets, MQTT, WiFi, logging, files,
clock, HTTP) and their ESP-IDF implementations. An application, which is not part
of the repository, owns the components, calls their methods from its own threads
and loops, and receives the rest of the world through them. There are no tests and
no documents beside the comments of the headers.

This directory holds TLA+ models of the components that carry state across threads,
the TLC runs that check them on small instances, and proofs about the thread pool, the
cache, the TCP server, the MQTT client, the clock, the logging path, the radio
managers and the file manager that hold for instances of every size. Paths below are relative to `src/include/`.

## 1. Inventory

| Component | State | Operations | Who else touches the state |
|---|---|---|---|
| Thread pool (`internal/04-threading/.../01-EspidfThreadPool.h`) | two shutdown flags, a count of unfinished tasks, a mutex, a binary semaphore | `Submit`, `Execute`, `Shutdown`, `ShutdownNow`, `WaitForCompletion`, destructor | every task, which reports its end through `OnTaskComplete` |
| Expiring cache (`util/Cache.h`) | map of entries with expiry times, default lifetime | `Put`, `Get`, `Contains`, `Remove`, `Clear`, `GetSize`, `SetDefaultTtl` | the clock; it has no lock |
| TCP server (`internal/05-server/.../01-EspidfTcpServer.h`) | listening socket, `running_`, socket cache by GUID, receive and send buffers | `Start`, `Stop`, `Restart`, `ReceiveMessage`, `SendMessage`, buffer access | loops of the application, the network stack |
| MQTT client (`.../02-EspidfMqttClient.h`) | library handle, `running`, `connectAttemptFailed_`, configuration strings, receive and send buffers | `Connect`, `Disconnect`, `RefreshConnection`, `WaitForConnection`, `Subscribe`, `SendMessage`, buffer access | the library's task through `MqttEventHandler` |
| Logger, log sink, log buffer (`internal/01-logger`) | level; sequence counter; bounded map from time keys to messages | level methods; `WriteLog`; `AddLog(s)`, three kinds of `TakeLogs` | every thread that logs |
| WiFi manager, hotspot manager (`internal/02-wifi`) | connection status and event bits; active flag and client count | `Connect`, `Disconnect`, `WaitForConnection`; `Start`, `Stop`, `WaitForStart`, `ChangeCredentials` | the event loop; both drive one radio |
| Clock synchronizer (`internal/06-clock`) | time of the last synchronisation | `SyncIfNeeded` | the SNTP callback |
| File manager (`internal/03-io`) | whether the flash file system is mounted; the files | `Create`, `Read`, `Update`, `Append`, `Delete` | power failures |
| HTTP client (`internal/07-http`) | none | one blocking request per call | - |
| AWS IoT Core configuration, DTOs, types, utilities, interfaces without implementation | none that changes | - | - |

How they interact: the TCP server owns a cache and calls it without a lock; MQTT
client, TCP server, WiFi and clock call the logger; the log sink takes its keys from
the clock that the synchronizer sets; WiFi and hotspot share driver and event loop.
The thread pool is used by the application to run the loops.

What is hard in this code, per component, and what makes it correct:

* **Thread pool.** Flags are tested outside the mutex and again inside it; every error
  path has to take the count back and wake the waiter; the semaphore is binary and
  carries tokens over from one wait to the next; the destructor relies on the wait.
  Correct means: a wait that returns true tells the truth, a wait on an idle pool
  ends, and a pool that is shut down and empty stays empty.
* **Cache.** Expired entries stay in the map and must never be seen.
* **TCP server.** A socket number is held by the cache and by a send in progress, and
  the stack hands the number out again the moment it is closed. Correct means: an
  answer reaches the client that asked, once, and every socket has an owner that will
  close it.
* **MQTT client.** Events of one connection arrive while the next is being made; a
  handle points into strings of the object; the handle is used without a lock.
  Correct means: flags, strings and handle are always about the same connection.
* **Log buffer.** Trimming, keys of two scales, batch takes that must lose nothing.
* **WiFi, hotspot, clock.** A field with two writers; a wait that can miss or outlive
  the event it waits for; calls that only work the first time.
* **File manager.** Updates that are not atomic under power loss.

The full list of hazards, each at its line, is `hazards` in `PROJECT.json`.

## 2. Modules

```
CompletionBarrier   what IThreadPool promises
  ^ refined by
ThreadPool          the pool                     CacheOps   what each cache method computes
  ^ EXTENDS                                        ^ EXTENDS        ^ EXTENDS
ThreadPoolTimed     with a clock                 Cache           TcpServer
                                                   | refines
                                                 TtlMap     a map whose entries vanish
MqttClient          the MQTT client
LogPath             logger, sink and uploader; EXTENDS
  LogBuffer         what each method of the log buffer computes
  ClockSync         the clock synchronizer, with the time the sink reads
Radio               WiFi and hotspot manager together; EXTENDS
  WiFiManager, HotspotManager, which EXTEND
    RadioDriver     the driver and the event loop they share
FileStore           the file manager and one of its files
BrokerUri           what the MQTT client makes of an endpoint's text
MC*                 model values for TLC, with one .cfg per run
*Proofs             theorems about the module of that name, which it EXTENDS:
                    ThreadPool (with ThreadPoolTimed), Cache, TcpServer, MqttClient,
                    LogPath (with ClockSync), Radio, FileStore, BrokerUri
```

Every action is named after the method, or after the part of it, that it models, and
`map` in `PROJECT.json` gives the lines. A method is split where another thread can
be seen: at each use of shared state that no lock covers. Each state-machine module
has a section of *faulty variants*: definitions changed the way a plausible bug would
change them. They are in no specification; substituting one for its original breaks
the property it is listed with under `mutants`.

### ThreadPool

| Variable | Code |
|---|---|
| `shutdownFlag`, `shutdownNowFlag`, `runningCount` | the fields |
| `allDone` | TRUE while the binary semaphore can be taken |
| `call` | per `Submit`/`Execute` invocation: `idle`, `checked` (flags tested, 141/188), `admitted` (tested again under the mutex, 148/192), `counted` (153/196), `failed` (task not created), then its task: `running`, `ended`; `leaked` if the allocation at 155/198 threw |
| `wait`, `timed` | per thread in `WaitForCompletion`: `check` (238), `take` (244), `recheck` (247), or what it returned |
| `life` | the destructor: `closing` (125-126), `draining` (127), `drained`; `dropped` if the pool had been shut down before, in which case the destructor does not wait |

The count is only touched with the mutex held, so a section is one step, except the
admission: there the flags, which others write without the mutex, are tested in the
middle of it, so the section is two steps (`Admit`, `CountCall`) and other sections
wait for it (`MutexFree`). `Accept` is the part of a call after the first test.

### ThreadPoolTimed

Adds to every waiter the length of the sleep it is in and of the whole call. The
kernel measures a sleep, so `TimeOut` happens when `slept` reaches the timeout, and
`slept` starts again on the next turn of the loop, as in the code.

### CacheOps, Cache, TtlMap

`CacheOps` holds the methods as pure operators on a map; `Cache` calls them one at a
time, with a clock that also runs during the sweep of `GetSize()`. `TtlMap` is the
map a user believes in: its entries are gone when their time is up. `last` records
each call and what it answered, so that the refinement compares answers.

### TcpServer

Three places, `rx`, `tx` and `ctl`, stand for a `ReceiveMessage()`, a `SendMessage()`
and a lifecycle method under way. `oneLoop` says whether one thread makes all these
calls, as a simple main loop does, or each has a thread, as "Core I/O loops
(non-returning ...)" (`01-ITcpServer.h:16`) suggests. A message's GUID is the client
that sent it. `sock` gives the client behind each open socket number, and the numbers
are reused. A cached `SocketEntry` is shared between the cache and a
`SendMessage()` that looked it up; `CloseReleased` closes it when the last of them
lets it go. The cache has no mutex: `InsideCache` is who is in it, and when two are,
the C++ behaviour is undefined and the model takes no further step.

### MqttClient

Handles are numbered by the attempt that created them, so that "the flag is about this
connection" can be stated. `ctl.at` walks through the lines of `Connect`,
`Disconnect` and `WaitForConnection`, `ctl.then` is where a nested `Disconnect()`
returns to; `tx` is a `SendMessage()`; `handler` is the library's task between its
two writes to the flags. `strings` is the attempt whose configuration the fields
hold. The library is modelled from its use: a connection comes up, fails or breaks
once per handle (`disable_auto_reconnect`), `esp_mqtt_client_stop()` returns when no
handler runs and none will.

### ClockSync, LogBuffer, LogPath

The sink takes its keys from the clock that the synchronizer sets, so the three are
checked together. In `ClockSync`, `sync` is where the caller is in `SyncIfNeeded()`, or
what it returned; `answered` is the SNTP client's task between setting the time and
`TimeSyncCallback()`; `uptime` counts units of the timer and `SystemTime` is what
`time()` returns; `synced` is history: it records that an answer came during the call.
`LogBuffer` holds the methods as operators on a map from keys to messages. In `LogPath`
a thread goes through `began` (the sink has read the time), `keyed` (sequence counter
loaded), `adding` (stored); the counter is a static variable that no lock covers.
`batch` is what the uploader, a caller outside the repository, has taken. A message is
the number of its key, so that its age can be compared; `made` and `raced` are history.

### RadioDriver, WiFiManager, HotspotManager, Radio

The driver is in one mode at a time, and everything that happens to it is an event in the
queue of the default event loop, whose task calls each registered handler in turn:
`calls` is how many are left for the event at the head. What the code under `src/` does with
driver and loop is all the model takes from them: any call may fail or be refused
(`MaySwitchTo`), a mode that ends reports the loss of its link and its stations, and an
interface loses its address when the loss of the link is taken from the queue. `wifi` and
`hot` are where the thread that calls each manager is; each write of the status that the
event loop can come before or after is a step, and so is the gap between the bit (66) and the
status (67), `rising`. How often `WaitForConnection()` waits is left open, so its timeout may
come at any turn. `byCaller` and `zeroedEarly` are history, read only by properties.

### FileStore

One file, as a sequence of blocks, and threads that call the manager without a lock. A
content is written in two blocks; `op` is where each thread is: it saw that nothing is mounted
(`mount`), is about to `open`, or is writing its `next` block at `pos`. The other files only
take space, so that a block may be lost at any time (`LoseBlock`); the stream's errors are not
looked at and the call returns true. `PowerFails` ends every call, keeps the file and runs the
constructor, which mounts, fails to, or formats. `kept` and `replaced` are history: what was
appended, and what a `Create()` or `Update()` wrote, acknowledged with no block lost, and not replaced, deleted or
overwritten since.

### BrokerUri

A string is a sequence of pieces (a name, a number, `:`, `/`), which is all that
`NormalizeMqttUri()` and `ParseBrokerHostPort()` can tell apart. `Find` returns the position
behind the end for `npos`, so that the code's comparisons of positions become one.

## 3. Runs

| Run | Instance | States | Shows |
|---|---|---|---|
| `pool_one` | 2 `Submit`, 1 `Execute`, 1 waiter, null allocation | 20,044 | types, exact count, no lost wake-up, "true" is truthful, drained stays drained, waiter and destructor return |
| `pool_timed` | 1 `Submit`, 1 `Execute`, 2 waiters, throwing allocation, timeout 2 | 733,997 | refinement of `CompletionBarrier`; a wait is late only if tasks joined |
| `pool_two` | 1 `Submit`, 1 `Execute`, 2 waiters | violation | the second waiter can sleep for ever |
| `cache` | 2 keys, 2 values, lifetimes 0-2 ms, 2 ticks/ms, 6 ticks | 33,486 | refinement of `TtlMap` |
| `tcp` | 2 clients, 1 socket number, 2 queued answers, both loop settings | 58,452 | answers reach the asker once; no socket lost |
| `tcp_expired` | 1 client that is never answered | violation | an expired socket is never closed |
| `mqtt` | 3 attempts, 1 message each way, 2 wait turns | 34,474 | flags, strings and handle belong together; methods return |
| `mqtt_freed` | 2 attempts, `SendMessage()` on its own thread | violation | publish on a destroyed handle |
| `log` | 2 threads, 4 messages, limit 2, trim 1, keys wrap after 2 | 2,058,858 up to symmetry | no record lost or doubled without a cause; limit kept; batches cut where they should be |
| `device` | 1 station, 2 `Connect()`, posting waits from 2 events on; 2 threads, 2 contents; endpoints of up to 6 pieces | 652,098 | bit, status, count and activity follow the radio; an address or an access point that stays is noticed; what was appended or replaced stays; an endpoint is kept by its URI |
| `log_oldest` | 1 thread, 3 messages, 3 timer units to a second | violation | trimming removes a newer record |
| `clock_resync` | a synchronisation is stale after one of 3 seconds | violation | a second call returns true with no answer |

Why the bounds are enough. *Pool*: a call becomes `idle` again when its task is
counted down and may be made again, so the number of tasks over time is not bounded,
only how many are in flight; three give one that fails, one that runs and one that
arrives late. What depends on more is proved (section 5). *Timed pool*: elapsed times
are cut at three timeouts, because submissions can keep a waiter for ever.
*Cache*: keys do not interact; two lifetimes that differ and one of zero put entries
on both sides of every comparison, and six ticks let an entry be put, expire, be put
again and expire again. *TCP*: one number for two clients is the tightest reuse;
a second answer in the queue is a late or repeated one. *MQTT*: the third attempt has
an earlier one that failed and one that broke. *Log*: four messages fill the buffer,
let the uploader take two, fill it again and have the batch put back, which is how
it gets over its limit; keys that wrap after two, and an uptime that reaches the
epoch, make equal keys in every way the code can. *Device*: the parts share nothing, so one
of them moves while the others are as they began; their interleavings would only multiply.
The second `Connect()` handles every event twice, two queued events put a loss before or behind a new
address, and one station that comes, goes and is dropped with the hotspot exercises the count.
Two contents let appends of two threads interleave, with each other and with what was
there; six pieces hold a scheme, a name and a port, or a name, a port and a path.

Deadlock is not checked where nobody is obliged to act: a destroyed pool, a silent
network, a client after its last attempt, a log after its last message, a device nobody calls. The cache run checks it.

Fairness. In the pool, a call under way, a task whose body returns and a waiter that
can run are scheduled: all tasks have one priority (`THREAD_POOL_ESP32_PRIORITY`) and
FreeRTOS slices time between equals. A task body that never returns is outside the
assumption, and so is any claim about it. In the MQTT client, a method that was
called and a handler that started run on. In the TCP server the loops keep calling,
the application keeps taking messages and the clock runs, which makes the violation of
`ExpiredIsClosed` a failure of the code and not of its callers. In `ClockSync` a caller in
its polling loop runs on and time passes. In `Radio` the task of the event loop is scheduled
(`WF_radio(EventLoop)`): it has a higher priority than the threads of an application. Nothing obliges anyone to
call, answer, connect, start or stop.

## 4. Where code and comments disagree

* `pool_two`: `02-IThreadPool.h:62-63` says that `WaitForCompletion()` blocks "until all
  submitted tasks have completed or timeout". Two threads wait, the last task ends and
  gives the semaphore once, the first waiter takes it and returns without passing it
  on; the second, with no timeout, sleeps on an idle pool for ever.
* `tcp_expired`: `01-EspidfTcpServer.h:33` says "ensure cleanup on expiry". Nothing
  looks at an entry again unless an answer with its GUID is sent, so the socket of a
  message nobody answers stays open until `Stop()`.
* `mqtt_freed`: `02-IMqttClient.h:24` makes `SendMessage()` a loop. It reads the handle
  twice without a lock and may publish on a handle `Disconnect()` has just destroyed.
* `log_oldest`: `02-EspidfLogBuffer.h:16` says "remove oldest kTrimRecordCount entries". The
  smallest keys are removed, and a key made from the microseconds since boot, before the
  time is set, exceeds one made from the seconds of the epoch after 28 minutes of uptime.
* `clock_resync`: `01-IClockSynchronizer.h:12` says "Returns true if sync succeeded or skipped
  due to recent sync". The wait and the answer depend on `lastSyncTime` being zero, which
  it is only before the first synchronisation: every later call returns true at once.

Seen while modelling, without a run of their own: an allocation that throws after
`++runningCount` (`01-EspidfThreadPool.h:155`, `:198`; exceptions are switched on by
`script/enable_exceptions.py`) leaves the count raised, and every later untimed wait
hangs; after an explicit `Shutdown()` the destructor does not wait, so a task may
report to a destroyed pool; a timed wait sleeps its whole timeout again on every turn
and may exceed its "maximum time" if tasks keep arriving; with several loops, an
answer can overtake the caching of its socket, and a socket can be cached in a server
that has stopped (`AvailableIsSent` and `StoppedHoldsNoSocket` name these exceptions); a batch that holds
more records than a trim removes takes the log buffer over its limit when it is put
back, again with every batch (`LimitKept` names it); threads that log at once may get
equal keys, of which one record survives (`LostForCause` names it).

In the radio: `Start()` of the hotspot insists on creating the event loop
(`02-EspidfHotspotManager.h:76`), so it fails whenever WiFi was connected before, and
`ChangeCredentials()` always stops the hotspot for good; `Stop()` sets the client count to
zero and the queued events of the same clients take it below (`ClientsCounted` names it);
the "one-time event handler" (129) of `WaitForStart()` is registered anew by every call, and its bit
is never cleared, so it reports a hotspot that stopped long ago; `Connecting`, `Timeout` and
`Connected` written by the caller (`01-EspidfWiFiManager.h:140`, 185, 173) stand over whatever the event loop wrote
meanwhile, until the next event (`StatusFollowsLink` names them). An endpoint without a scheme gets the
port behind its path, or behind the port it has, though 90 says "Ensures mqtts URI
includes explicit port" (`PortIsExplicit` names it); host and port are right all the same
(`EndpointKept`), and only they go to the library. `Update()` truncates before it writes:
a power failure in between loses the old content and the new; two threads that
find the file system unmounted leave `mounted` false for good, and every call tries to mount again.

## 5. What is proved

The theorems hold for every value of the constants that the assumptions of the modules
allow: any finite set of calls, socket numbers and stations, any limit, length of a
queue or of an endpoint, lifetime, unit of time or bound on a counter. TLC checked each
inductive invariant on the instance of the run before it was proved.

| Module | Theorem | Statement |
|---|---|---|
| `ThreadPoolProofs` | `TypeCorrect`, `CountIsExact` | `Spec => []TypeOK`, `Spec => []CountMatches` |
| | `TrueIsTruthful` | `Spec => TrueMeansCompleted` |
| | `ShutdownIsFinal` | `Spec => DrainedStaysDrained` |
| | `OneWaiterIsWoken` | with a single waiter, `Spec => []NoLostWakeup` |
| | `DrainedIsEmpty` | `Spec => []DrainedBeforeFreed` |
| | `PoolIsBarrier` | `Spec => ImplementsBarrier` |
| | `NeverLateAlone` | `TimedSpec => []LateOnlyIfJoined` |
| | `TimedPoolIsBarrier` | `TimedSpec => ImplementsBarrier` |
| `CacheProofs` | `TypeCorrect` | `Spec => []TypeOK` |
| | `LazyActsAsEager` | if no expiry wraps (`NoWrap`), `Spec => ActsAsTtlMap` |
| `TcpServerProofs` | `TypeCorrect` | `Spec => []TypeOK` |
| | `AnswersReachAskers`, `NoSocketEverLost` | `Spec => []AnswerReachesAsker`, `Spec => []NoSocketLost` |
| | `StoppedNeverHoldsSocket` | `Spec => []StoppedHoldsNoSocket` |
| | `NeverAnsweredTwice`, `AvailableIsAlwaysSent` | `Spec => AnsweredOnce`, `Spec => AvailableIsSent` |
| | `OneLoopIsDefined` | `Spec => [](oneLoop => Defined)` |
| `MqttClientProofs` | `TypeCorrect` | `Spec => []TypeOK` |
| | `RunningIsAlwaysCurrent`, `FailureIsAlwaysCurrent` | `Spec => []RunningIsCurrent`, `Spec => []FailureIsCurrent` |
| | `ConfigAlwaysOutlivesHandle`, `NoHandleEverLeaked` | `Spec => []ConfigOutlivesHandle`, `Spec => []NoHandleLeaked` |
| | `OneLoopNeverUsesAFreedHandle` | with one loop, `Spec => []HandleInUseIsAlive` |
| `LogPathProofs` | `ClockTypeCorrect`, `TrueAlwaysMeansTimeSet` | `ClockSpec => []ClockTypeOK`, `ClockSpec => []TrueMeansTimeSet` |
| | `TypeCorrect`, `ClockAlwaysValid` | `Spec => []TypeOK`, `Spec => []TrueMeansTimeSet` |
| | `AlwaysHeldOnce` | `Spec => []HeldOnce` |
| | `LimitAlwaysKept`, `AlwaysLostForCause` | `Spec => LimitKept`, `Spec => LostForCause` |
| | `AlwaysTakesLongestFit` | `Spec => []TakesLongestFit` |
| | `SteadyTrimRemovesOldest` | one writer, at most `SeqWrap` messages, time not set meanwhile: `Spec => TrimRemovesOldest` |
| | `FirstTrueMeansSynced` | calls begin before the first synchronisation: `ClockSpec => TrueMeansSynced` |
| `RadioProofs` | `RadioTypeCorrect` | `RadioSpec => []RadioTypeOK` |
| | `BitAlwaysMeansLink`, `StatusAlwaysFollowsLink` | `RadioSpec => []BitMeansLink`, `RadioSpec => []StatusFollowsLink` |
| | `ActiveAlwaysMeansAp`, `ClientsAlwaysCounted` | `RadioSpec => []ActiveMeansAp`, `RadioSpec => []ClientsCounted` |
| `FileStoreProofs` | `FilesTypeCorrect` | `FilesSpec => []FilesTypeOK` |
| | `AppendsAlwaysStay`, `ReplacementAlwaysStays` | `FilesSpec => []AppendsStay`, `FilesSpec => []ReplacementStays` |
| `BrokerUriProofs` | `EndpointAlwaysKept` | `BrokerSpec => []EndpointKept` |
| | `PortAlwaysExplicit` | `BrokerSpec => []PortIsExplicit` |

The types of the cache, the radio and the file manager are proved, because the other invariants rest on
them, but no run lists them: on their own they say little about the code.

### The thread pool

`CountMatches` alone is not inductive: that a step keeps it needs the
ranges of `call` and `runningCount`, so the inductive invariant is
`Inv == TypeOK /\ CountMatches`. A step changes one call's phase; the lemmas `Joins`,
`Leaves` and `Stays` say what that does to the set `InFlight` and to its cardinality,
and `InvStep` has one case per action. `CountZero` turns a count of zero into an
empty set. The action properties then follow from `Inv`: a wait returns true only
in a step that reads a count of zero while the mutex is free, and nobody is admitted
then (`IdleMeansCompleted`); the set of pending calls grows only in `Admit`, which tests
the flags (`PendingGrows`). `NoLostWakeup` is inductive together with `Inv` when there
is one waiter: a step that empties the pool gives the semaphore
(`EmptyingGives`), and only that waiter takes it. With two it is false, which is what
`pool_two` shows. `DrainedBeforeFreed` needs a strengthening, `DestroyInv`, about a
destructor under way. The refinement has one lemma for the steps of calls
(`CallRefines`) and one for those of waiters (`WaiterRefines`).

With a clock, every behaviour is still one of the pool (`TimedImplementsPool`), so `Inv` and
`DestroyInv` are at hand. `LateOnlyIfJoined` is not inductive: it has to be known how a waiter
for which time has passed can be awake. `FirstSleep` says that, as long as no task joined, it
is in its first sleep, or woken by a token that was given for an idle pool
(`GivenWhenIdle`) which has been idle since; so it never sleeps twice.

### The cache

A user of the cache sees the entries that have not expired. The lemmas say that what a
method erases or leaves behind does not change what is seen (`PartKeepsVisible`), and
that time takes from it exactly what expires (`TimeKeepsVisible`); each method then maps to
the operation of `TtlMap` of that name, or, for a method that erases an expired entry,
changes nothing there. `CacheInv` adds to the types that the map is finite, which
counting needs. The hypothesis of the refinement, `NoWrap`, says that `Now()` plus a
lifetime in microseconds stays in the range of the clock; the run of the cache satisfies it,
and so does a device whose lifetimes
stay short of 2^64 microseconds. Without it a
new entry is expired at birth and the refinement is false. The types hold either way.

### The TCP server

`AnswerReachesAsker` and `NoSocketLost` are about one idea and are proved together: a
number that is open has one client and at most one owner, which is the cache, a
`ReceiveMessage()` or a `SendMessage()`. `OneSocket`, `CacheInv`, `HoldInv` and
`NoSocketLost` say so (`Ownership`). `Answers` adds the history of a message (connected, taken, asked,
answered), without which a second answer could find the socket of the first; `LoopInv`
says what one loop excludes. All of it is one inductive invariant, `IInv`, since a
step of one thread relies on what another holds. With one loop at most one method is under way, so
`Defined` holds: the undefined behaviour of the unlocked cache needs the several loops that
`01-ITcpServer.h:16` recommends.

### The MQTT client

Where the managing thread is says whether there is a handle and what its strings are
(`HandleInv`), what its connection can have become (`SessionInv`), and hence what the library's task can be doing
(`HandlerInv`). `RunningIsCurrent` and `FailureIsCurrent` are conjuncts of the inductive invariant, because
whether an event may set a flag depends on them. `HandleInUseIsAlive`, which `mqtt_freed`
shows violated with two threads, is proved for one (`OneLoop`): the error needs the second thread.

### Clock and logging path

`ClockInv`: the flag the caller polls is written by a callback that runs after the answer
that sets the time. The logging path composes the clock, so the theorem is proved again
for the composition, from the same step lemma. `HeldOnce` needs to know also of the message
that a thread holds before it is stored (`OnceHeld`). `LimitKept` is arithmetic over the trim: `First` has as
many elements as it was asked for (`FirstSize`, by ranks of keys), and a merge adds at most the size
of the batch. `LostForCause` needs `KeysInv`: while no two threads were in the counter at
once, a key is congruent to the number of its message modulo `SeqWrap` in either of the two
formats (`KeyRemainder`), so equal keys belong to messages at least `SeqWrap` apart
(`RemainderGap`). That the epoch is later than
any uptime the system reports (`MinValidEpoch` in `LogPathAssumption`) is the code's own test for a valid time.

`TakesLongestFit` is about a loop over the records of the buffer, and holds of any buffer,
so it needs no invariant but the types. The loop is a fold; its equation (`LoopEquation`) needs a
recursive function on the subsets of the keys to exist (`FoldExists`), which is proved over
finite sets by the smallest counterexample (`SmallestSet`), from the well-foundedness of the naturals: the
library's own induction theorems take an operator as parameter. `Visited` says what the loop knows
after a prefix of the keys: it holds the longest part of it that fits, and stopped if that is not all of it.
The sum by which the property measures a prefix may add in any order (`AddsAnyOrder`).

`SteadyTrimRemovesOldest` is what remains of the promise that `log_oldest` shows violated. Its
invariant, `OrderInv`, says that all records kept and the one in the writer's hands have keys
in the order of their messages. It needs the three hypotheses: setting the time
changes the format of the keys, a sequence number that wraps sorts first again, and a second
thread that was overtaken between reading the time and storing may store the older time later.

`FirstTrueMeansSynced` is the like for `clock_resync`: the comment holds for the calls that begin
before the first synchronisation, because until a callback has run a time of
last synchronisation other than zero comes from an answer that the caller saw.

### The radio

The managers learn of the driver from a queue that is behind, so none of the four
properties is inductive: each holds for an empty queue only because of what held while events
were queued. The parts of `Inv` say, for every queue, what a manager's variables and the
events still queued say together: a bit, a status or an address without a link has a loss
queued behind it (`LinkInv`); the latest start or stop in the queue is true, or there is none and the
hotspot knows (`ApInv`); count and queued arrivals and departures add up to the stations (`CountInv`).
`RegInv` says who is registered: the hotspot's handler once, before there is an event for it,
and WiFi's any number of times, so that the count is right although the status is
written over and over. `LoopInv` ties the handlers still to call to the event at the head.
The lemmas `OnAppend`, `OnTail` and `OnPosted` say how each predicate on a queue changes when an event is posted or
taken; the step shapes (`Quiet`, `Switched`, `Registers`, `WifiCalls`, `HotspotCalls`) reduce the actions to what they do to the queue.

### The file manager

`AppendsStay` speaks of what was acknowledged; the invariant has to speak of what is under way. An
append that has lost no block has put as many into the file as it is far, in order and
no other of its contents (`SoFar`); what is not begun is not there (`NotYet`); and a contents is
with one thread or kept (`Alone`), so that the blocks of others come between and change nothing.
Steps have two shapes. A quiet one (`QuietStep`) leaves the blocks of every contents but its own where
they are, or adds behind them. A disturbed one (`DisturbedStep`: truncation, deletion,
overwriting, a format) takes `kept`, `replaced` and every thread's claim to be `whole` away at once.

`ReplacementStays` rests on `FrontInv`. A `Create()` or `Update()` that has lost no block has as many at
the beginning of the file as it is far, in order, and stands right behind them (`Leading`): an append meanwhile goes behind
them, and is overwritten rather than pushed in between. Whoever claims to be whole is alone in doing so
(`Claims`), because opening the file to replace it, and every block written then, takes the claims of the others away.

### The endpoint of the MQTT client

The statement is about strings of any length. A search returns the least position where it finds its
text (`FindGives`); that there is one is the well-foundedness of the naturals (`LeastNat`). Two
lemmas then say where the searches on the URI end: four pieces further when a scheme was put before
the endpoint (`SchemeAdded`), and at the port that was put in before the path (`PortAdded`);
between these positions both strings have the same pieces (`SamePart`). `NormalizeKeepsAddress`
draws the conclusion case by case, including an endpoint that ends with its colon.

### What stays with TLC

Only liveness under fairness, which is outside the proof system: `WaitReturns`, `DestroyEnds`,
`ManagingReturns`, `AddressIsNoticed`, `ApIsNoticed`. Every other property of a passing run is stated by a theorem.

## 6. Assumptions and what is left out

* Semaphores and mutexes are created successfully and `xSemaphoreTake` with
  `portMAX_DELAY` succeeds. Nobody is inside a method of a pool that is being destroyed.
* Flags that threads race on are read and written atomically and in program order.
* Where the C++ behaviour is undefined (two threads in the socket cache, a task of a
  destroyed pool, a publish on a destroyed handle), the model stops.
* GUIDs are unique. Payloads, texts, log calls of the components, counters for monitoring, mDNS and heap
  snapshots are left out, and so is the partial transfer of a message.
* The leak of the runnable in `ExecuteTrampoline` (its local shared pointer outlives
  `vTaskDelete`) is object lifetime, which the model does not have.
* A `Start()` of the TCP server that fails after `socket()` leaves the number of a closed
  socket in `serverSock_`; it is only read again by a `ReceiveMessage()` that began
  before the stop, a case the model treats as a failing `accept`.
* The components without a module are listed with the reason in `PROJECT.json`.

* Until the time is set, `time()` is taken to count seconds from boot, or to be valid after a
  warm restart; once set it does not jump. The time zone, which the caller and the
  callback share without a lock, is left out, and so is the printed text of a log line.
* The driver reports every link and station that goes; posting an event waits for room and
  loses none. One thread calls each radio manager. The NVS partition that both constructors
  prepare, scans, lists and addresses as text are left out.
* SPIFFS keeps what was written when the power fails, and writes in append mode at the end.
* A record of the log has a positive size: the code counts its key.
* The uploader takes one batch at a time and puts it back whole or not at all.

## 7. Not modelled, and the plan

Every component that has state is modelled. The HTTP client keeps nothing between requests;
the AWS IoT Core configuration, the DTOs and the utilities are text and records without
behaviour; two interfaces have no implementation here.

Nothing but liveness is left to prove of what the passing runs check. Two of the promises
that a run shows violated are proved under the conditions in which they hold
(`SteadyTrimRemovesOldest`, `FirstTrueMeansSynced`), and so are those of the MQTT handle and
of the socket cache with one loop (`OneLoopNeverUsesAFreedHandle`, `OneLoopIsDefined`).
