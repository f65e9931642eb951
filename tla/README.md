# TLA+ models of the onboard SDK

A verification project for the C++ program under `src/NewOnboardSDK/NewOnboardSDK`:
an SDK that talks to a flight controller over a serial line. The modules here
model the program as its code is written; TLC checks them on small instances
and TLAPS proves the most important properties for every instance. Paths below
are relative to `src/NewOnboardSDK/NewOnboardSDK`.

## 1. Inventory

### How the parts interact

    DJIDrone  --send-->  LinkLayer  --queue-->  send thread  --write-->  serial port
        ^                   |   register_session                            |
        |                   v                                               | read
        +---callbacks--- Session threads  <--dispatch_to_session--  receive thread
                                                                     (receive states)

An application thread calls `LinkLayer::send`, which packages a frame, registers
a `Session` and puts the frame into a queue. The send thread writes it to the
port. The receive thread feeds each byte it reads to a state machine; a complete
frame that acknowledges a session is stored in it, any other goes to a handler
on a thread pool. Each session has a waiting thread of its own that waits for
the reply, retries, frees the session and calls the application back.

Threads: the callers, one send thread, one receive thread, a waiting thread per
session (up to 32), eight pool threads. Locks: two per session
(`m_availableLock`, `m_repliedLock`), one in the queue, one in the pool, one per
handler. The queue, the sessions, `m_currentSeqNum` and `m_stopped` are shared.

### Components

**Session** (`LinkLayer/LinkLayer.cpp:23-103, 284-309, 528-555`).
State: availability, sequence number, tries left, reply flag and data, two
callbacks, stop flag, waiting thread with its locals.
Operations: register, dispatch a reply (check, then store), the waiting thread's
loop, destruction. Hard: four threads over two locks; a reply against the
timeout; reuse of a session while the last callback runs; notification; the
destructor. Correct when a request is answered once and only once, by its own
reply or after all its tries, and when its thread can always be stopped.

**LinkLayer, sending** (`LinkLayer/LinkLayer.cpp:150-195, 311-337, 511-555, 580-588`).
State: `m_currentSeqNum`, `m_sendQueue`, `m_sessions`. Operations: three
overloads of `send`, `get_next_sequence`, the send thread, the dispatch of
acknowledgements. Hard: the order of registering and queueing, an unlocked
counter, `try_lock`, acknowledgements that are lost, late, repeated or
reordered. Correct when what is sent can be answered, is sent once, and what is
refused is not sent.

**Framing and receive states** (`LinkLayer/LinkLayer.cpp:339-509`,
`LinkLayer/LinkLayerStates.cpp`). State: buffer, index, active state.
Operations: `package_data_frame`; `on_recv_byte` per state; reset. Hard:
lengths and padding at block boundaries, a length field of 10 bits, lost and
damaged bytes. Correct when what is dispatched was sent, whole and once, and a
faultless line never stops the receiver.

**LinkLayer, requests from the device** (`LinkLayer/LinkLayer.cpp:197-207, 511-526, 557-570`).
State: handlers and their locks, thread pool. Operations: `set_request_handler`,
the dispatch of a request to the pool, the task. Hard: the handler is looked at
under its lock when a request arrives and read without it when the task runs.
Correct when each request is run once, by the handler it met.

**LinkLayer, lifecycle** (`LinkLayer/LinkLayer.cpp:105-148, 209-277, 311-337, 572-578`).
State: port, threads, `m_stopped`, the state machine. Operations: construction,
`initialize`, both threads, `destroy`, the destructor. Hard: `destroy` closes the
port before it stops the threads; a port that fails to open is ignored; the
destructor deletes what the receive thread uses. Correct when shutdown ends,
threads die only of a missing port or of a deletion without `destroy`, and nothing is
used after its deletion.

**DJIDrone** (`AppLayer/DJIDrone.cpp`). State: initialised flag, command
counter. Operations: activate, obtain and release control, take off, land, each
a command with an acknowledgement awaited on a semaphore. Hard: the semaphore's
initial count, callbacks with references to locals, an unbounded poll. Correct
when a command reports success only for an acknowledgement that says so.

**Utilities** (`Utility/`). `semaphore`: count and wakeups. `WaitQueue`: blocking
FIFO. `ThreadPool`: workers, tasks, stop flag. `StateMachine`: a stack of
running states with enter and exit actions. Correct when no waiter is lost, a
task runs once, and the running state is the one the next byte belongs to.

**codec** (`codec/`). Checksums and AES, used by the framing; and `codec.cpp`, an
older stream receiver that is in no build file and included by nothing.

**Serial port** (`Serial/serial.h`, `serial.cc`, `unix.cc`, `win.cc`). A serial
library kept in the repository. State: port name, descriptor, `is_open_`,
settings, a read and a write mutex; in the kernel, the two queues, the open
descriptors and the settings in force. Operations: construct, open, close,
destroy, `setPort`, the setters, `read`, `readline(s)`, `write`, three flushes,
queries of the modem lines, `waitForChange`, on two platforms. Hard: open, close
and the setters take no lock; a reconfiguration may fail halfway; reads and
writes wait in several system calls. Correct when calls do not mix their bytes,
errors are true, the descriptor is neither lost nor doubled, and no two calls
wait for each other.

**Demonstration** (`main.cpp`). Calls `DJIDrone` from the console.

The hazards of this code, each at its line, are listed in `PROJECT.json`.

## 2. Modules

| Module | Models | Kind |
|---|---|---|
| `SessionService` | what sessions promise to callers | abstract specification |
| `Session` | class `Session`, `register_session`, `dispatch_to_session` | specification, properties, refinement mapping |
| `SessionInv` | the inductive invariant of `Session` | invariant |
| `SessionProofs` | safety of `Session`; it implements `SessionService` | proofs |
| `LinkLayer` | sending, queue, acknowledgements; extends `Session` | specification, properties |
| `LinkLayerProofs` | the link layer implements `Session`, hence `SessionService` | proofs |
| `Framing` | frames as bytes, the receive states | specification, properties, invariant |
| `FramingProofs` | safety of `Framing` | proofs |
| `SendProofs` | what becomes of a call of `send` | proofs |
| `Receiver` | lifecycle of `LinkLayer`, its threads, requests, handler, thread pool, state machine | specification, properties |
| `ReceiverProofs` | safety of `Receiver` | proofs |
| `SerialPort` | class `Serial`: object, locks, kernel, calls above the platform | part of a specification |
| `SerialUnix`, `SerialWindows` | the calls on each platform | parts |
| `Serial` | any number of threads on a port | specification, properties |
| `SerialProofs` | the locks of `Serial`, and the bytes of its reads and writes | proofs |
| `CountingSemaphore` | what a semaphore promises | abstract specification |
| `Semaphore` | `Utility/Semaphore.h` | specification, properties, refinement mapping |
| `SemaphoreProofs` | safety of `Semaphore` | proofs |
| `Drone` | `DJIDrone` over a link layer that answers, fails, refuses or is late | specification, property |
| `DroneProofs` | `Drone`, for any initial count of the semaphore | proofs |
| `MC...` | one instance per specification for TLC | |

Some modules hold wrong variants of a definition, named in the module's header
and placed before the definition they vary. No specification uses them; each
property is rejected by TLC when one of them takes the place of the original.

### Session

A step is a critical section, or what a thread does between two.

| Action | Code |
|---|---|
| `Register` | `register_session` when it succeeds, with `notify_one` |
| `DispatchCheck`, `DispatchStore` | the two critical sections of `dispatch_to_session`; `recv` is the receive thread between them |
| `Park`, `SpuriousWake`, `Exit`, `Start` | the wait on `m_threadCond`, lines 38-43 |
| `Try` | `m_tryTimes--`, line 52 |
| `WaitReplied`, `WaitExpired`, `WaitStopped` | the outcomes of `wait_for` and the branch each takes, lines 54-73 |
| `Clear`, `Free`, `Call` | lines 75-79, 80-83, 85-93; `Call` ends the scope of the locals |
| `Stop` | `~Session` |

`waiter[s]` is the program counter of the waiting thread. Variables whose names
begin with `m_` are the fields of the class. Callbacks are named by the request
they were passed with, so that a leak of one into another request shows; a
moved-from callback is null, as it is with the libraries this code builds with.
`wait_for` looks at its predicate before it blocks and after every wakeup, so
its outcome is decided by `m_stopped` and `m_replied` when it returns, and no
notification can be missed for good: the timeout is a step that may happen
whenever there is no reply.

The variables `current`, `registered`, `granted`, `expired`, `inTime`, `acks`,
`fails` and the fields `matched` and `late` of a stored reply are history. No
guard reads them.

`Stop` is possible at any time but while the receive thread stands between its
two locks for that session, since the threads of the link layer are to be joined
before the sessions go. `m_tryTimes` is positive on registration: `send` passes
1 or `retryTimes + 1`. (With `retryTimes` the largest unsigned value the sum is
0, the loop runs once and neither callback comes.)

### LinkLayer

`Send` enters one of the two overloads with callbacks; `LoadSeq`, `StoreSeq` and
`ReadSeq` are the accesses of `get_next_sequence` to `m_currentSeqNum`, which no
lock protects; `Order` says that the overload with one try pushes and then
registers, while the one with retries registers and then pushes;
`RegisterAccepted` and `RegisterRefused` are one call of `register_session`,
which may refuse at any time because `try_lock` fails when another thread holds
the lock, and may fail spuriously. The request of the second overload is granted one
or two tries, so that its session may wait again. `SendPop` and `SendWrite` are the send
thread. `RecvAck` is an acknowledgement that arrives, through `dispatch_data` up
to the check of `dispatch_to_session`; `DispatchStore` completes it.
`SendNoReply` is the overload without a callback.

Abstractions: all sessions exist from the start (the code creates one on first
use); frames arrive whole (`Framing` covers the bytes); the device acknowledges a
written frame up to `MaxAcks` times, at any later time or never; each request is
one call of `send`; the link layer is not destroyed (`Session` covers `~Session`).

### Framing

A byte is the frame it belongs to, its offset, and whether it is intact. `sent`
holds the data lengths of the frames; `FrameSize`, `HeaderLength`, `Padding` and
`ReceivedLength` are the arithmetic of `package_data_frame`,
`decrypt_recv_data` and `get_data_and_length`, with the 10-bit field as a
remainder. `LoseByte`, `DamageByte` and `RecvByte` take the next byte off the
line; a byte that arrives goes through `OnRecvByte`: `WaitForMore`, `Complete`
(with the dispatch and the reset of the receive loop) or `Abort`. A failed
assertion is the state `"aborted"`: no build file of the repository defines
`NDEBUG`.

Abstractions: the two checksums detect all damage, both sides have the key, and
the sender is another program with the same `package_data_frame`, or one that
sends a header alone (`Bare`). A frame without data made by `package_data_frame`
itself (28 bytes, no checksum) is in the model but not in the passing run: the
receiver rejects it.

### Receiver

The thread that owns the object runs through `InitOrder`, `DestroyOrder` and
`DeleteOrder`, the statements of `initialize`, `destroy` and the destructor in
the order of the source; `app` names the next one. `SendThread`, `RecvThread`
and `WorkerThread(w)` are the three loops; a frame arrives whole and is a request,
a header alone or anything else, since `Framing` has the bytes and `Session` the
acknowledgements. `running` is the stack of the state machine: the three states
have no children, so it never holds more than one. A failed assertion, an
exception out of a thread, `std::terminate` and a use of what was deleted end the
process; `ended` says how. `SetRequestHandler`, `SwapHandler` and `DropHandler`
are the assignment of a `std::function`, whose steps the workers can see since they
read it without the lock. `DispatchToNoReplyHandler` and `Enqueue` are what
`dispatch_data` does with a request: `enqueue` throws on a stopped pool, which the
receive thread meets when the object is deleted without `destroy`, the port still open.

Abstractions: `Dispatch` queues the task and notifies in one step (a worker that
took the task in between is one that woke by itself); at most one thread is inside
`set_request_handler`; `~Session`, at the end of the destructor, is `Session`'s
(its run `session_destroy` shows where it hangs). The constructors of the
members, which start the pool, are the initial state.

### Serial

`pc` and `op` say where a thread stands in which call; a call of the class takes the
locks of `Locks`, runs the steps of its platform between two system calls each, and
leaves by `Return`, which unlocks whatever the way out. Bytes that arrive are
numbered, so the kernel's input queue is the interval from `taken` to `arrived`, and
`accepted` records each byte written with its call. Settings are a rate and a frame
format, each good or bad. `open` and `reconfigurePort` are several steps, because
nothing keeps other calls out of them. On Windows a refused `SetCommState` closes the handle and leaves it in `fd_`
(`WinRefused`); a failed `SetCommTimeouts` leaves it open there (`WinTimeoutsFail`).
The history `disturbed` marks the calls under
way when another thread closes the port or fails to open it, which takes the
descriptor from under them.

Abstractions: timeouts are a choice (`Expire`); an interrupted wait loops; a read
or write asks for `Size` bytes; the queries of the modem lines are one action, as
they neither lock nor change anything the model has; the check that the port is
open and the system call after it are one step where both come first in a call.

### Semaphore

The mutex is held from entry to return of `wait` and `signal` except in the sleep, so
an action is what runs between two sleeps. `WaitBarges` is a thread that takes the
wakeup of another. The mapping to `CountingSemaphore` counts a wakeup as a permit.

### Drone

`pc` is `send`, `wait` or `handle` of the one application thread; `owed` holds the
commands whose callback is still to come. `res`, `ack` and `permits` stand for the
locals of the last `send_cmd_data`, to which callbacks hold references: a callback
of an earlier command writes to whatever is there now (`WriteStale`). `SemCount` is
the count the semaphore begins with, 1 in the code. The history `early` says that some
command went on before its callback ran.

## 3. Runs

| Run | Instance | Shows |
|---|---|---|
| `session_safety` | one session, three requests (both callbacks, ack only, fail only), tries 1 and 2, two sequence numbers | `OneCallback`, `NoRequestLost`, `AckMatchedUnlessLate`, `FailAfterAllTries`, `NoAnsweredRequestFails` |
| `session_service` | two sessions, two requests, two tries, fair threads | `ImplementsService`; `EveryRequestAnswered`, `SessionFreed`, `BusyDestroyReturns` |
| `session_stale` | one session, two requests | **violated**: `AckMatches` |
| `session_destroy` | one session, one request | **violated**: `DestroyReturns` |
| `linklayer_threads` | two callers, two requests, sessions 1 and 2, tries 1 and 2, one acknowledgement per frame, fair callers and send thread | `SentOnlyRegistered`, `TransmittedOnce`, `RefusedNeverSent`, `ImplementsSession`, `CallEndsWritten` |
| `linklayer_one` | one caller, three requests, one try, up to two acknowledgements per frame | `SeqDistinct`, `AckAnswersUnlessLate` |
| `framing_stream` | the sizes of the source, three frames, each a header alone or with 1, 16 or 31 bytes of data, two faults | `DeliveredAsSent`, `DamagedNeverDelivered`, `FaultlessLineKeepsUp` |
| `framing_long` | one frame of 992 bytes, no fault | **violated**: `FaultlessLineKeepsUp` |
| `receiver_life` | two workers, two requests, one call of `send` or `set_request_handler`, fair threads | `NoThrowInUse`, `RequestsKept`, `HandlerAsMet`, `CurrentState`, `NothingUsedAfterDelete`; `RequestsRun`, `ShutdownEnds` |
| `serial_port` | two threads with two calls and one, either platform, three bytes, two descriptors | `ReadContiguous`, `WriteContiguous`, `NoFalseDisconnect`, `OneDescriptor`, `SettingsApplied`, `NoDeadlock` |
| `semaphore_calls` | three threads with four calls each, one permit | `Accounted`, `NoLostWakeup`, `ImplementsCounting` |
| `drone_ack` | three commands, six codes | **violated**: `SuccessIsAnswered` |

Each type invariant is checked by a run of its module.

### What the violations show

* `session_stale`: the receive thread compares the sequence number (under
  `m_availableLock`), the request times out and its session is freed, a new
  request registers, and the stale reply is stored (under `m_repliedLock`) and
  delivered to the new request. `AckMatchedUnlessLate` says how far the guarantee
  reaches: only a reply that is stored after its request gave up can go astray.
* `session_destroy`: `~Session` sets `m_stopped` and joins, but the waiting thread
  is blocked on `m_threadCond` and nobody notifies it. For a session that works
  for a request the destructor does return (`BusyDestroyReturns`).
* `framing_long`: a frame of 992 bytes of data is 1024 bytes long, which the
  10-bit length field stores as 0; the receiver stops at `assert(0)`.
* `drone_ack`: the semaphore of `send_cmd_data` starts with a permit, so its `wait`
  returns at once, `res` is 0 and the buffer is read although no acknowledgement was
  written to it. `AnsweredUnlessEarlyHolds` says that nothing else makes a call report
  a success it was not told. A count of 0 alone would not do: the result of `send` is
  ignored, and a refused command would then wait for ever, which the permit prevents
  (`NeverBlockedHolds`).

### What the code does besides, where its texts say otherwise

These were met in the modelling and need no run. `serial.h:242-247` says a read ends
when the inter-byte timeout passes; on Unix that timeout only makes the loop look
again. `serial.h:587` says that `flush` flushes the input and output buffers; it
drains the output. The repository's README lists going home among the commands; no
code uses `GO_HOME_CMD_VAL`.

### Why the bounds are enough

One session and three requests are enough for a session to be used, freed and
used again while the last callback or a stale reply is under way, for each
combination of callbacks; with two sequence numbers a reply matches or not. Two
tries tell "the last try" from one before. Two sessions are the least with
which the receive thread serves one while another waits. In `LinkLayer`,
session 1 is that of the overload with one try and session 2 stands for those of
the search from 2 to 31; three sequence numbers wrap with two requests. In
`Framing` three frames let a fault in one be followed by two others, and the
lengths meet a header alone, a partial block, a whole block and one byte less
than two blocks. Two workers in `Receiver` let one sleep or run while the other takes a
task, and two requests let one wait behind another or meet another handler; one
call is enough to change the handler at any moment or to push a frame behind the
poison. In `Serial` two threads are the least that interfere, two calls of the main
one include reopening, and two descriptors show one that is lost; the second thread
is kept to calls that move bytes, take both locks or change the port. With three
threads on the semaphore one takes the wakeup of another while a third signals.
The theorems remove the bounds of `Session`, `LinkLayer`, `Framing`, `Receiver`,
`Serial` and `Semaphore` for every invariant the runs check.

### Fairness

In `Session`, weak fairness of each waiting thread (it is scheduled, its timeout passes,
its locks are held for bounded time by others) and of the receive thread between its two
locks. In `LinkLayer`, of each caller inside `send` and of the send thread: that a call
ends does not rest on the sessions' threads. Not assumed: that
a reply comes, that a condition variable wakes spuriously, that anybody calls
`send`, or that a session is ever destroyed. The callbacks are taken to return.
In `Receiver` the same of its three kinds of thread and of an `initialize`,
`destroy`, destructor or `set_request_handler` that was begun; a read ends at its
timeout, and the handlers return. Not assumed: that a frame arrives, that anyone
destroys the object, that the port opens. In `Semaphore` a woken thread gets the mutex.
`Serial` and `Drone` state no liveness: `tcdrain` and the polls wait for the device.
Runs without liveness use no fairness.

## 4. Proofs

All theorems assume only the named assumptions of the modules
(`SessionAssumption`, `LinkLayerAssumption`, `FramingAssumption`,
`ReceiverAssumption`, `SerialAssumption`, `SemaphoreAssumption`), which say of which
kind the constants are, and which the runs evaluate. Four theorems state more: the two
on `Drone` that codes are numbers and that there is an initial permit (the code has
one), and the two on sequence numbers one caller (`OneCaller`) and no more requests than
numbers (`FewCalls`). Every invariant of a passing
run is a theorem, and so are the action part of both refinements of an abstract
specification and that of `ImplementsSession`.

**Session** (`SessionProofs`). The checked properties are not inductive: they do
not say where a callback may be while it is neither registered nor called.
`SessionInv` adds what is needed:

* `Control` relates the thread's position to the locals and to `m_available`;
* `Callbacks`: an undecided request still has the callbacks it came with;
* `Ownership`: a request is owed by one session in one way, and unanswered then;
* `Replies`: a reply stored in time belongs to the session's request until the
  thread has consumed it;
* `InTime`: such a reply is not lost before the request is decided;
* `Accounting`: expired waits and tries left add up to the tries granted.

Each action is shown to preserve each part. From it follow, for any number of
sessions, requests and tries, the six invariants of `session_safety`.

`SessionImplementsService` is the safety part of `ImplementsService`: `Register` is the
service's `Submit`, `Free` its `Release`, a `Call` that has a callback its `Answer`, and
all else a stutter. `ServiceInv` adds that a request and its callbacks belong to one
session (`Belongs`), is not answered while its session works for it (`Unanswered`), and
that only wanted callbacks are chosen (`Wanted`). `StatusNow` and `StatusNext` unfold
the mapping once; each action then only says what it changes of a request.

**LinkLayer** (`LinkLayerProofs`). Every step of the link layer is a step of
`Session` or leaves its variables alone (`LinkLayerImplementsSession`), so the
theorems on sessions hold there too (`LinkLayerAnswersOnce`,
`LinkLayerImplementsService`).

**Sending** (`SendProofs`). Four invariants, each on top of the one before.
`SendInv`: a request belongs to one call (`OneCall`), the overload fixes the session
(`Overload`), and a frame on its way is that of a call that returned or is about to
register (`Fresh`); hence `RefusedNeverSent`. `OnceInv` adds that the frames in the
queue and with the send thread have different origins and were not written, and `Leaves`
that the frame of an accepted request is in the queue, with the send thread or on the
wire; hence `TransmittedOnce`. `RegInv` adds that a call with retries is registered before it pushes,
with the sequence number and session it then puts into the frame; hence
`SentOnlyRegistered`, for any number of callers. `SeqInv` needs one caller:
of the numbers, those handed out so far are 0 to n - 1, with n at most the calls begun
(`Issued`, `Tried`), so they do not wrap as long as the calls are at most `SeqMod`; hence
`SeqDistinct`. A number in use belongs to the half of the running call that is done
(`Owned`), a frame whose number fits a session at work is that of its request
(`Answering`), and a reply that passed the check answers the request it was compared
with (`DataMatches`); hence `AckAnswersUnlessLate`. Both conditions are needed: with two
callers or a wrap the numbers repeat, which is what the TODO at `LinkLayer.cpp:582` says.

**Receiver** (`ReceiverProofs`). `LifeInv` is the order of a link layer's life: the
port was tried before a thread could run (`PortTried`), a thread that runs can be
joined until it was (`Joinable`), the pool ends before the handler it calls
and is stopped by the destructor only (`PoolFirst`), and the state machine follows the
bytes (`StateFollows`); hence `NoThrowInUse`, `CurrentState` and the first two parts of
`NothingUsedAfterDelete`. `KeptInv` says
that each dispatched request is in exactly one place (`OnePlace`, `Somewhere`) and that a
worker without a task holds none (`EmptyHands`); hence `RequestsKept`. `MetInv` says
that without a late `set_request_handler` the handler is still the one every waiting
request met; hence `HandlerAsMet`. `WildInv` puts them together: what the receive thread
uses is there unless the destructor runs (`PartsThere`), a running thread is one destroy
would join, the pool is done before the handler goes, and the handler stands still under
a worker; hence the third part of `NothingUsedAfterDelete`: behaviour is undefined only
where the object is misused (`Misused`). For any number of workers, requests and calls.

**Serial** (`SerialProofs`). Every step of a call on either platform is one of four kinds
for the locks (`Works`) and one of five for the bytes (`StepData`), so the invariants
are proved on kinds, not on some sixty actions. `LockInv`: a call at work has exactly the
locks it needs, one that waits has at most the read lock, and only if it needs both;
hence `NoDeadlock`, which rules out rings of any length: whoever has the write lock waits
for nothing. `DataInv` adds where calls that move bytes can be and what of their
buffers is empty there. `WriteInv` says that the last byte the kernel accepted is the
last of the write under way (`LastWritten`), and `ReadInv` that what a reader has ends with
the last byte taken, unless the port was closed under it (`LastRead`); with `PutProperties`
and `TakeProperties`, which say what one system call adds to the sequences, they give
`WriteContiguous` and `ReadContiguous`. `NoFalseDisconnect` is inductive next to
`DataInv`: a call enters the place where it reads or writes only with bytes or room
there (`Selects`), and whoever could take them away needs its lock or disturbs it.
`TypeInv` adds the types and that no read or write passes its buffer (`BytesOK`).
`SetupInv` is about the calls that open, close or set. While they did not overlap there
is one at a time (`SetupOK`), and `At` says for each place in it how descriptor, `fd_`,
`is_open_` and the settings stand: tidy and matching outside, one descriptor more than
`is_open_` says between `::open` and the end of the configuration, none between `::close`
and the two assignments that follow it. Steps of other calls change nothing of that
(`Elsewhere`), steps of the setup lead from one place to the next (`Onward`); hence
`OneDescriptor` and `SettingsApplied`, on both platforms and next to any other calls.

**Semaphore** (`SemaphoreProofs`). `Accounted` and `NoLostWakeup` together are
inductive up to types; each action adds or removes one element of a finite set. With
them every step is one of `CountingSemaphore` or a stutter (`SemaphoreCounts`).

**Drone** (`DroneProofs`). For every initial count. `DroneInv` says that as long as no
command went on early, a waiting caller has been told or nothing was said, one that went
on was told, and nothing is owed to any other; hence `AnsweredUnlessEarly`: the early
wait is all that makes a report of success wrong, not the codes, the polling, a refusal or
a late callback. `Permits` is inductive with `NeverBlocked`: each command starts with the
initial permits, and only its own wait takes one, so that with the code's count none waits
for ever. The two say what the count of 1 costs and what it buys.

**Framing** (`FramingProofs`). The invariant `FramingInv` says that the buffer is
behind the line: as long as it is the beginning of the frame on the line, the
line's offset is at least the index, and equal to it only if nothing of the frame
was missed. `CompleteIsWhole` concludes that a completed frame ends exactly where
the line stands, and `RoundTrip` that its length is what was packaged. Hence
`DeliveredAsSent` and `DamagedNeverDelivered` for all sizes, lengths and numbers
of faults. `FaultlessLineKeepsUp` needs `Fits`, that no frame wraps the length
field; `LengthsThatFit` says that with the sizes of the source these are the
lengths 1 to 991, although the code accepts up to 1023.

**Only model-checked.** What needs fairness: `EveryRequestAnswered`, `SessionFreed`,
`BusyDestroyReturns`, `CallEndsWritten`, `RequestsRun`, `ShutdownEnds`, and the fairness
in `ImplementsService` and `ImplementsCounting`. The provers at hand have no rules for
`ENABLED`.

## 5. Not modelled, and the plan

Next, in this order:

1. Theorems: when a call may meet an undefined `FD_SET` (`Abort` in `SerialUnix`), which
   needs a history of closes under way; the bytes of a reader against those of the line
   for as long as the port stays open.
2. `StateMachine` with nested states, which nothing in the repository uses yet.

Not modelled:

* `codec.cpp`, the stream receiver that resynchronises: in no build file, included by
  nothing, superseded by the receive states.
* The handler of `set_reply_request_handler`: it is stored and never called.
* Accesses outside an array (`readline` before its buffer, `err[ackNum + 1]`, the copy
  of 32 bytes from a literal of 23 in `DJIDrone.cpp:106`): what they read is not a
  matter of the program's states. `Drone` has the second as a possible crash.

Left out for good: AES and the checksums as computations over bits, port
enumeration, the first use of a session (a data race
on `std::map`, whose outcomes a model of the tree would have to enumerate).
