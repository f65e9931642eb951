------------------------------ MODULE Receiver ------------------------------
(***************************************************************************)
(* The life of a LinkLayer object: initialize, its send and receive        *)
(* threads, the requests of the device handed to the pool of callback      *)
(* threads, set_request_handler, destroy and the destructor.               *)
(*                                                                         *)
(* Module Session has what happens to acknowledgements, module Framing     *)
(* what happens byte by byte, module SerialPort the port.  Here a frame    *)
(* arrives whole and the port is open or not.                              *)
(*                                                                         *)
(* ThreadsFirst, NoPoison, HandlerFirst, PushEntered, UnlockedDispatch,    *)
(* SilentNotify, Peek and TakeAny are wrong variants of the definitions    *)
(* after them.                                                             *)
(***************************************************************************)
EXTENDS Integers, Sequences, FiniteSets

CONSTANTS
    Worker,        \* the threads of m_recvCallbackThreadPool
    None,
    MaxRequests,   \* bound: requests dispatched to a handler
    MaxCalls       \* bound: calls of send and of set_request_handler

\* What dispatch_data and CompleteState tell apart in a frame.  "other" goes to
\* a session or nowhere; on_enter of CompleteState fails on "empty", a header
\* alone, as it does on all that is not encrypted.
Frames   == {"request", "empty", "other"}
Requests   == 1..MaxRequests

ASSUME ReceiverAssumption ==
    /\ IsFiniteSet(Worker) /\ Worker # {} /\ None \notin Worker
    /\ {MaxRequests, MaxCalls} \subseteq Nat

VARIABLES
    app,           \* the step the thread that owns the object takes next
    ended,         \* how the process was ended: "no", or by what
    port,          \* "lost" when its device went away
    joinable,      \* the threads started and not joined
    m_stopped, m_sendQueue, sendPc,
    recvPc, frame, \* the receive thread and the frame it works on
    running,       \* m_runningStates of m_recvFSM
    alive,         \* parts of the object that are there
    handler,       \* m_noReplyHandler: its generation, and whether it is callable
    setter,        \* where a set_request_handler stands; it holds
                   \* m_noReplyHandlerLock unless "idle"
    tasks, stop,   \* of the pool
    workerPc, job, called

\* History: the calls made, the generation of the handler each request met
\* when it was dispatched, the requests whose handler returned and those that
\* were dropped, and whether a call of set_request_handler began after the first dispatch.
VARIABLES calls, met, handled, dropped, late

sending == <<m_stopped, m_sendQueue, sendPc>>
recv    == <<recvPc, frame, running>>
pool    == <<tasks, stop, workerPc, job, called>>
setting == <<handler, setter>>
life    == <<app, joinable, alive>>
hist    == <<calls, met, handled, dropped, late>>
rvars   == <<life, ended, port, sending, recv, pool, setting, hist>>

Dispatched == 1..Len(met)

-----------------------------------------------------------------------------
(***************************************************************************)
(* What initialize, destroy and the destructor do, in order.  Members are  *)
(* destroyed in the reverse order of their declaration: the pool first,    *)
(* and the sessions last, where module Session takes over.                 *)
(***************************************************************************)
ThreadsFirst == <<"states", "startSend", "startRecv", "open", "running">>
InitOrder    == <<"states", "open", "startSend", "startRecv", "running">>

NoPoison     == <<"close", "stop", "joinSend", "joinRecv", "destroyed">>
DestroyOrder == <<"close", "stop", "poison", "joinSend", "joinRecv", "destroyed">>

HandlerFirst == <<"shared", "fsm", "handler", "stopPool", "joinPool", "threads", "sessions">>
DeleteOrder  == <<"shared", "fsm", "stopPool", "joinPool", "handler", "threads", "sessions">>

Orders == {InitOrder, DestroyOrder, DeleteOrder}
Labels == {"constructed"} \cup UNION {{o[i] : i \in 1..Len(o)} : o \in Orders}

ReceiverTypeOK ==
    /\ app \in Labels
    /\ ended \in {"no", "thrown", "assert", "wild", "terminate"}
    /\ port \in {"unopened", "open", "failed", "lost", "closed"}
    /\ joinable \subseteq {"send", "recv"}
    /\ alive \subseteq {"shared", "fsm", "pool", "handler"}
    /\ m_stopped \in BOOLEAN /\ m_sendQueue \in Seq({"frame", "poison"})
    /\ sendPc \in {"none", "check", "pop", "write", "drain", "done"}
    /\ recvPc \in {"none", "check", "read", "reading", "header", "body", "complete",
                   "reset", "done"}
    /\ frame \in Frames \cup {None}
    /\ running \in Seq({"header", "body", "complete"})
    /\ handler \in [gen : 0..MaxCalls, set : BOOLEAN]
    /\ setter \in {"idle", "swap", "drop"}
    /\ tasks \in Seq(Requests) /\ met \in Seq(0..MaxCalls) /\ Len(met) <= MaxRequests
    /\ {stop, late} \subseteq BOOLEAN
    /\ workerPc \in [Worker -> {"check", "parked", "call", "calling", "done"}]
    /\ job \in [Worker -> Requests \cup {0}] /\ called \in [Worker -> 0..MaxCalls]
    /\ handled \subseteq Dispatched /\ dropped \subseteq Dispatched
    /\ calls \in 0..MaxCalls

Alive  == ended = "no"
End(e) == ended' = e
At(l)  == Alive /\ app = l
Go     == \E o \in Orders : \E i \in 2..Len(o) : app = o[i-1] /\ app' = o[i]

-----------------------------------------------------------------------------
(***************************************************************************)
(* initialize.                                                             *)
(***************************************************************************)
\* go_to_state, for states without children whose on_exit succeeds: the running
\* state is left, and s runs whatever its on_enter says.
PushEntered(s) == IF s = "complete" /\ frame = "empty" THEN <<>> ELSE <<s>>

GoTo(s) == <<s>>

Initialize ==
    /\ Alive /\ app \in {"constructed", "destroyed"}
    /\ app' = InitOrder[1]
    /\ UNCHANGED <<joinable, alive, ended, port, sending, recv, pool, setting, hist>>

\* The states register themselves with the state machine, which asserts that
\* they are new: a second initialize ends here.
InitStates ==
    /\ At("states") /\ Go
    /\ IF "fsm" \in alive THEN End("assert") /\ UNCHANGED <<alive, running>>
       ELSE /\ running' = GoTo("header")
            /\ alive' = alive \cup {"fsm", "shared"}
            /\ UNCHANGED ended
    /\ UNCHANGED <<joinable, port, sending, recvPc, frame, pool, setting, hist>>

\* Whether the port opened is not looked at.
StartSerialPort ==
    /\ At("open") /\ Go
    /\ port' \in {"open", "failed"}
    /\ UNCHANGED <<joinable, alive, ended, sending, recv, pool, setting, hist>>

StartSendThread ==
    /\ At("startSend") /\ Go
    /\ sendPc' = "check" /\ joinable' = joinable \cup {"send"}
    /\ UNCHANGED <<alive, ended, port, m_stopped, m_sendQueue, recv, pool, setting, hist>>

StartRecvThread ==
    /\ At("startRecv") /\ Go
    /\ recvPc' = "check" /\ joinable' = joinable \cup {"recv"}
    /\ UNCHANGED <<alive, ended, port, sending, frame, running, pool, setting, hist>>

\* The device is pulled out (external).
Unplug ==
    /\ Alive /\ port = "open" /\ port' = "lost"
    /\ UNCHANGED <<life, ended, sending, recv, pool, setting, hist>>

-----------------------------------------------------------------------------
(***************************************************************************)
(* The send thread.                                                        *)
(***************************************************************************)
\* Until the object is deleted any thread may call send and set_request_handler.
MayCall == Alive /\ calls < MaxCalls /\ app \notin {DeleteOrder[i] : i \in 1..Len(DeleteOrder)}

\* push_raw_data.
PushRawData ==
    /\ MayCall
    /\ calls' = calls + 1
    /\ m_sendQueue' = Append(m_sendQueue, "frame")
    /\ UNCHANGED <<life, ended, port, m_stopped, sendPc, recv, pool, setting,
                   met, handled, dropped, late>>

SendStep(from, to) ==
    /\ Alive /\ sendPc = from /\ sendPc' = to
    /\ UNCHANGED <<life, port, m_stopped, recv, pool, setting, hist>>

SendCheck ==
    /\ SendStep("check", IF m_stopped THEN "drain" ELSE "pop")
    /\ UNCHANGED <<ended, m_sendQueue>>

\* wait_and_pop sleeps while the queue is empty.
SendPop ==
    /\ m_sendQueue # <<>>
    /\ SendStep("pop", IF m_stopped \/ Head(m_sendQueue) = "poison" THEN "drain" ELSE "write")
    /\ m_sendQueue' = Tail(m_sendQueue)
    /\ UNCHANGED ended

\* What write throws leaves the thread, and std::terminate ends the process.
SendWrite ==
    /\ SendStep("write", "check")
    /\ IF port = "open" THEN UNCHANGED ended ELSE End("thrown")
    /\ UNCHANGED m_sendQueue

SendDrain ==
    /\ SendStep("drain", IF m_sendQueue = <<>> THEN "done" ELSE "drain")
    /\ m_sendQueue' = IF m_sendQueue = <<>> THEN <<>> ELSE Tail(m_sendQueue)
    /\ UNCHANGED ended

-----------------------------------------------------------------------------
(***************************************************************************)
(* The receive thread.                                                     *)
(***************************************************************************)
RecvStep(from, to) ==
    /\ Alive /\ recvPc = from /\ recvPc' = to
    /\ UNCHANGED <<life, port, sending, handler, setter, stop, job, called,
                   calls, handled, dropped, late>>

NoDispatch == UNCHANGED <<tasks, workerPc, met>>

RecvCheck ==
    /\ RecvStep("check", IF m_stopped THEN "done" ELSE "read")
    /\ UNCHANGED <<frame, running, ended>> /\ NoDispatch

\* read on a port that is not open throws; nobody catches it.
RecvRead ==
    /\ RecvStep("read", "reading")
    /\ IF port \in {"open", "lost"} THEN UNCHANGED ended ELSE End("thrown")
    /\ UNCHANGED <<frame, running>> /\ NoDispatch

\* A read comes back with a frame or at its timeout; when the port was closed or
\* the device went away under it, it may throw.
RecvTimeout ==
    /\ RecvStep("reading", "check")
    /\ \/ UNCHANGED ended
       \/ port # "open" /\ End("thrown")
    /\ UNCHANGED <<frame, running>> /\ NoDispatch

RecvFrame ==
    /\ port = "open" /\ Len(met) < MaxRequests
    /\ RecvStep("reading", "header")
    /\ frame' \in Frames
    /\ UNCHANGED <<running, ended>> /\ NoDispatch

\* The state machine and the shared data are used without a look whether they
\* are still there.
Use == IF {"fsm", "shared"} \subseteq alive THEN UNCHANGED ended ELSE ended' \in {"no", "wild"}

\* The last byte of the header, and of the body.
HeaderByte ==
    /\ RecvStep("header", IF frame = "empty" THEN "complete" ELSE "body")
    /\ running' = GoTo(IF frame = "empty" THEN "complete" ELSE "body")
    /\ UNCHANGED frame /\ Use /\ NoDispatch

BodyByte ==
    /\ RecvStep("body", "complete")
    /\ running' = GoTo("complete")
    /\ UNCHANGED frame /\ Use /\ NoDispatch

\* notify_one wakes one parked thread of the pool, if there is one.
SilentNotify == UNCHANGED workerPc

NotifyOne ==
    IF \A w \in Worker : workerPc[w] # "parked" THEN UNCHANGED workerPc
    ELSE \E w \in Worker : workerPc[w] = "parked" /\ workerPc' = [workerPc EXCEPT ![w] = "check"]

\* enqueue throws on a stopped pool, and nobody catches it.  The state machine
\* the receive thread works in is gone by then, so that it may as well do anything.
\* A worker that takes the task before notify_one is one that woke by itself.
Enqueue ==
    \/ stop /\ ended' \in {"thrown", "wild"} /\ NoDispatch
    \/ /\ ~stop
       /\ tasks' = Append(tasks, Len(met) + 1)
       /\ met' = Append(met, handler.gen)
       /\ NotifyOne /\ Use

\* It asserts that there are data.
DispatchToNoReplyHandler ==
    \/ frame = "empty" /\ End("assert") /\ NoDispatch
    \/ frame # "empty" /\ Enqueue

\* dispatch_data; the handler is looked at under m_noReplyHandlerLock.
UnlockedDispatch ==
    /\ RecvStep("complete", "reset")
    /\ IF frame # "other" /\ handler.set THEN DispatchToNoReplyHandler ELSE Use /\ NoDispatch
    /\ frame' = None
    /\ UNCHANGED running

Dispatch ==
    /\ RecvStep("complete", "reset")
    /\ frame # "other" => setter = "idle"
    /\ IF frame # "other" /\ handler.set THEN DispatchToNoReplyHandler ELSE Use /\ NoDispatch
    /\ frame' = None
    /\ UNCHANGED running

OnReset ==
    /\ RecvStep("reset", "check")
    /\ running' = GoTo("header")
    /\ UNCHANGED frame /\ Use /\ NoDispatch

-----------------------------------------------------------------------------
(***************************************************************************)
(* set_request_handler: the assignment swaps the function in while workers *)
(* read it without the lock, and then destroys the old one, which may be   *)
(* running.  Both are races: what follows is anything.                     *)
(***************************************************************************)
SetterStep(from, to) ==
    /\ Alive /\ setter = from /\ setter' = to
    /\ UNCHANGED <<life, port, sending, recv, pool, met, handled, dropped>>

SetRequestHandler ==
    /\ MayCall
    /\ SetterStep("idle", "swap")
    /\ late' = (late \/ met # <<>>) /\ calls' = calls + 1
    /\ UNCHANGED <<handler, ended>>

SwapHandler ==
    /\ SetterStep("swap", "drop")
    /\ \E callable \in BOOLEAN : handler' = [gen |-> handler.gen + 1, set |-> callable]
    /\ UNCHANGED <<late, ended, calls>>

DropHandler ==
    /\ SetterStep("drop", "idle")
    /\ \/ UNCHANGED ended
       \/ /\ \E w \in Worker : workerPc[w] = "calling" /\ called[w] < handler.gen
          /\ End("wild")
    /\ UNCHANGED <<handler, late, calls>>

-----------------------------------------------------------------------------
(***************************************************************************)
(* The threads of the pool.                                                *)
(***************************************************************************)
WorkerStep(w, from, to) ==
    /\ Alive /\ workerPc[w] = from
    /\ workerPc' = [workerPc EXCEPT ![w] = to]
    /\ UNCHANGED <<life, port, sending, recv, setting, stop, calls, met, late>>

Idle(w) == job' = [job EXCEPT ![w] = 0] /\ called' = [called EXCEPT ![w] = 0]

Peek(w) ==
    /\ tasks # <<>>
    /\ WorkerStep(w, "check", "call")
    /\ job' = [job EXCEPT ![w] = Head(tasks)]
    /\ UNCHANGED <<tasks, called, handled, dropped, ended>>

\* front() of an empty queue.
TakeAny(w) ==
    /\ WorkerStep(w, "check", "call")
    /\ job' = [job EXCEPT ![w] = IF tasks = <<>> THEN None ELSE Head(tasks)]
    /\ tasks' = IF tasks = <<>> THEN tasks ELSE Tail(tasks)
    /\ UNCHANGED <<called, handled, dropped, ended>>

\* A task is taken under the pool's mutex, also when the pool is stopped.
TakeTask(w) ==
    /\ tasks # <<>>
    /\ WorkerStep(w, "check", "call")
    /\ job' = [job EXCEPT ![w] = Head(tasks)]
    /\ tasks' = Tail(tasks)
    /\ UNCHANGED <<called, handled, dropped, ended>>

Park(w) ==
    /\ tasks = <<>>
    /\ WorkerStep(w, "check", IF stop THEN "done" ELSE "parked")
    /\ UNCHANGED <<tasks, job, called, handled, dropped, ended>>

SpuriousWake(w) ==
    /\ WorkerStep(w, "parked", "check")
    /\ UNCHANGED <<tasks, job, called, handled, dropped, ended>>

\* The task reads m_noReplyHandler now.  In the middle of a swap it may see
\* either function, or a mixture of both.
CallHandler(w) ==
    /\ handler.set
    /\ WorkerStep(w, "call", "calling")
    /\ called' = [called EXCEPT ![w] = handler.gen]
    /\ \/ UNCHANGED ended
       \/ (setter = "swap" \/ "handler" \notin alive) /\ End("wild")
    /\ UNCHANGED <<tasks, job, handled, dropped>>

\* An emptied handler throws bad_function_call into the packaged task, and the
\* copy of the data is not freed.
CallEmpty(w) ==
    /\ ~handler.set
    /\ WorkerStep(w, "call", "check")
    /\ dropped' = dropped \cup {job[w]}
    /\ Idle(w)
    /\ UNCHANGED <<tasks, handled, ended>>

HandlerReturns(w) ==
    /\ WorkerStep(w, "calling", "check")
    /\ handled' = handled \cup {job[w]}
    /\ Idle(w)
    /\ UNCHANGED <<tasks, dropped, ended>>

-----------------------------------------------------------------------------
(***************************************************************************)
(* destroy.                                                                *)
(***************************************************************************)
AppStep == Go /\ UNCHANGED <<port, recv, setting, tasks, job, called, hist>>

Destroy ==
    /\ At("running") /\ app' = DestroyOrder[1]
    /\ UNCHANGED <<joinable, alive, ended, port, sending, recv, pool, setting, hist>>

\* close may throw when the device is gone, and destroy with it.
ClosePort ==
    /\ At("close")
    /\ \/ Go /\ port' = IF port = "failed" THEN port ELSE "closed"
       \/ port = "lost" /\ app' = "running" /\ UNCHANGED port
    /\ UNCHANGED <<joinable, alive, ended, sending, recv, pool, setting, hist>>

SetStopped ==
    /\ At("stop") /\ m_stopped' = TRUE
    /\ AppStep /\ UNCHANGED <<joinable, alive, ended, m_sendQueue, sendPc, stop, workerPc>>

PushPoison ==
    /\ At("poison") /\ m_sendQueue' = Append(m_sendQueue, "poison")
    /\ AppStep /\ UNCHANGED <<joinable, alive, ended, m_stopped, sendPc, stop, workerPc>>

JoinSend ==
    /\ At("joinSend") /\ sendPc = "done" /\ joinable' = joinable \ {"send"}
    /\ AppStep /\ UNCHANGED <<alive, ended, sending, stop, workerPc>>

JoinRecv ==
    /\ At("joinRecv") /\ recvPc = "done" /\ joinable' = joinable \ {"recv"}
    /\ AppStep /\ UNCHANGED <<alive, ended, sending, stop, workerPc>>

-----------------------------------------------------------------------------
(***************************************************************************)
(* The destructor, after destroy or, as at the end of main, without it.    *)
(***************************************************************************)
Delete ==
    /\ Alive /\ app \in {"constructed", "running", "destroyed"} /\ setter = "idle"
    /\ app' = DeleteOrder[1]
    /\ UNCHANGED <<joinable, alive, ended, port, sending, recv, pool, setting, hist>>

\* m_recvSharedData is not initialized by the constructor: without initialize
\* its deletion is that of whatever is there.
DeleteShared ==
    /\ At("shared") /\ alive' = alive \ {"shared"}
    /\ IF "fsm" \in alive THEN UNCHANGED ended ELSE ended' \in {"no", "wild"}
    /\ AppStep /\ UNCHANGED <<joinable, sending, stop, workerPc>>

DeleteFsm ==
    /\ At("fsm") /\ alive' = alive \ {"fsm"}
    /\ AppStep /\ UNCHANGED <<joinable, ended, sending, stop, workerPc>>

\* ~ThreadPool: stop, notify_all, join.
StopPool ==
    /\ At("stopPool") /\ stop' = TRUE
    /\ workerPc' = [w \in Worker |-> IF workerPc[w] = "parked" THEN "check" ELSE workerPc[w]]
    /\ AppStep /\ UNCHANGED <<joinable, alive, ended, sending>>

JoinPool ==
    /\ At("joinPool") /\ \A w \in Worker : workerPc[w] = "done"
    /\ alive' = alive \ {"pool"}
    /\ AppStep /\ UNCHANGED <<joinable, ended, sending, stop, workerPc>>

DeleteHandler ==
    /\ At("handler") /\ alive' = alive \ {"handler"}
    /\ AppStep /\ UNCHANGED <<joinable, ended, sending, stop, workerPc>>

\* ~thread of a thread that was not joined.
DeleteThreads ==
    /\ At("threads")
    /\ IF joinable = {} THEN UNCHANGED ended ELSE End("terminate")
    /\ AppStep /\ UNCHANGED <<joinable, alive, sending, stop, workerPc>>

-----------------------------------------------------------------------------
SendThread == SendCheck \/ SendPop \/ SendWrite \/ SendDrain

RecvThread == \/ RecvCheck \/ RecvRead \/ RecvTimeout \/ RecvFrame \/ HeaderByte \/ BodyByte
              \/ Dispatch \/ OnReset

WorkerThread(w) == TakeTask(w) \/ Park(w) \/ CallHandler(w) \/ CallEmpty(w) \/ HandlerReturns(w)

InitSteps    == InitStates \/ StartSerialPort \/ StartSendThread \/ StartRecvThread
DestroySteps == ClosePort \/ SetStopped \/ PushPoison \/ JoinSend \/ JoinRecv
DeleteSteps  == \/ DeleteShared \/ DeleteFsm \/ StopPool \/ JoinPool \/ DeleteHandler
                \/ DeleteThreads

Owner  == InitSteps \/ DestroySteps \/ DeleteSteps
Setter == SwapHandler \/ DropHandler

ReceiverInit ==
    /\ app = "constructed" /\ ended = "no" /\ port = "unopened"
    /\ joinable = {} /\ alive = {"pool", "handler"}
    /\ m_stopped = FALSE /\ m_sendQueue = <<>> /\ sendPc = "none"
    /\ recvPc = "none" /\ frame = None /\ running = <<>>
    /\ handler \in [gen : {0}, set : BOOLEAN] /\ setter = "idle"
    /\ tasks = <<>> /\ stop = FALSE
    /\ workerPc = [w \in Worker |-> "check"]
    /\ job = [w \in Worker |-> 0] /\ called = [w \in Worker |-> 0]
    /\ calls = 0 /\ met = <<>> /\ handled = {} /\ dropped = {} /\ late = FALSE

ReceiverNext ==
    \/ Initialize \/ Destroy \/ Delete \/ Owner \/ PushRawData \/ Unplug
    \/ SendThread \/ RecvThread
    \/ SetRequestHandler \/ Setter
    \/ \E w \in Worker : WorkerThread(w) \/ SpuriousWake(w)

\* Every thread runs on, the handlers return, and a call once made is carried on.
ReceiverSpec ==
    /\ ReceiverInit /\ [][ReceiverNext]_rvars
    /\ WF_rvars(Owner) /\ WF_rvars(SendThread) /\ WF_rvars(RecvThread) /\ WF_rvars(Setter)
    /\ \A w \in Worker : WF_rvars(WorkerThread(w))

-----------------------------------------------------------------------------
(***************************************************************************)
(* While the object is in use and its port is open, no exception leaves a  *)
(* thread.  One does only when the port was not opened, was closed by      *)
(* destroy or lost its device, initialize having tried to open it before   *)
(* either thread uses it; or when the receive thread, which a delete       *)
(* without destroy left running, hands a request to the pool the           *)
(* destructor stopped under it.  Never after destroy has joined both.      *)
(***************************************************************************)
NoThrowInUse ==
    ended = "thrown" =>
        /\ joinable # {}
        /\ port \in {"failed", "lost", "closed"} \/ (stop /\ "recv" \in joinable)

(***************************************************************************)
(* Every request that was dispatched is waiting, with one thread of the    *)
(* pool, handled, or dropped because the handler was emptied after it was  *)
(* dispatched: never lost, never handled twice.                            *)
(***************************************************************************)
Queued(r) == {i \in 1..Len(tasks) : tasks[i] = r}
Held(r)   == {w \in Worker : job[w] = r}
Closed(r) == {s \in {handled, dropped} : r \in s}

RequestsKept ==
    /\ \A r \in Dispatched : Cardinality(Queued(r)) + Cardinality(Held(r)) + Cardinality(Closed(r)) = 1
    /\ dropped # {} => late

(***************************************************************************)
(* As long as set_request_handler is not called once a request has been    *)
(* dispatched, each request is handled by the function dispatch_data saw,  *)
(* and no function is changed or destroyed while it is read or runs.       *)
(***************************************************************************)
HandlerAsMet ==
    ~late => \A w \in Worker : workerPc[w] = "calling" =>
                 called[w] = met[job[w]] /\ called[w] = handler.gen /\ setter = "idle"

(***************************************************************************)
(* get_current_state finds the state the next byte belongs to, also after  *)
(* a frame whose on_enter failed in CompleteState.                         *)
(***************************************************************************)
Expected ==
    CASE recvPc \in {"body", "complete"} -> recvPc
      [] recvPc = "reset"                -> "complete"
      [] OTHER                           -> "header"

CurrentState == recvPc # "none" => running = <<Expected>>

(***************************************************************************)
(* When destroy has returned before the destructor runs, no thread is left *)
(* to use what the destructor takes away; the pool never calls the handler *)
(* after its destruction.  And behaviour is undefined only when the object *)
(* is not used as it is meant: set_request_handler was called after a      *)
(* request had come, or the object is deleted with its threads running or  *)
(* without ever having been initialized.  No order of the threads' steps   *)
(* alone makes it use memory that is gone or a function that changes.      *)
(***************************************************************************)
Deleting == app \in {DeleteOrder[i] : i \in 1..Len(DeleteOrder)}

Misused == late \/ (Deleting /\ (joinable # {} \/ sendPc = "none"))

NothingUsedAfterDelete ==
    /\ Deleting /\ joinable = {} => sendPc \in {"none", "done"} /\ recvPc \in {"none", "done"}
    /\ "handler" \notin alive => \A w \in Worker : workerPc[w] = "done"
    /\ ended = "wild" => Misused

(***************************************************************************)
(* A dispatched request is handled or dropped, unless the process ends,    *)
(* even when the object is destroyed meanwhile.                            *)
(***************************************************************************)
RequestsRun == \A r \in Requests : r \in Dispatched ~> r \in handled \cup dropped \/ ~Alive

(***************************************************************************)
(* destroy returns and the destructor gets to its sessions, unless the     *)
(* process ends or destroy throws.                                         *)
(***************************************************************************)
ShutdownEnds ==
    /\ app = "close" ~> app \in {"destroyed", "running"} \/ ~Alive
    /\ Deleting ~> app = "sessions" \/ ~Alive
==============================================================================
