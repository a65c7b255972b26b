----------------------------- MODULE Ticktimer ------------------------------
(***************************************************************************)
(* The ticktimer service, services/xous-ticktimer: sleeping threads,       *)
(* condition variables with and without a timeout, and the slow path of    *)
(* mutexes.  The service is one loop that receives a message and handles   *)
(* it; the interrupt of its one hardware alarm may come between any two    *)
(* steps of the loop, answers the thread whose time has come by itself,    *)
(* and tells the loop with a message, RecalculateSleep, that is lost when  *)
(* the queue is full.                                                      *)
(*                                                                         *)
(* A blocked thread is known by its sender: the slot of the kernel's       *)
(* message queue that holds the token for its reply.  A slot is used again *)
(* as soon as the reply is sent, so one sender stands for many calls.      *)
(*                                                                         *)
(* Times are in milliseconds from now: what the service keeps is the value *)
(* of a free-running counter at which a request expires, and what it looks *)
(* at is only how these compare with the counter and with each other.      *)
(*                                                                         *)
(* The tables of the service are kept per process and per address of a     *)
(* mutex or condition variable; that pair is one value here.               *)
(***************************************************************************)
EXTENDS Integers, FiniteSets, Sequences, SequencesExt

CONSTANTS
    Threads,    \* the threads that call the service
    Condvars, Mutexes,
    NumSlots,   \* the slots of the service's message queue
    SleepTimes, WaitTimes,  \* for how many ms threads sleep, and wait at most
    MaxPosted,  \* bound: messages without a reply that wait in the queue, and
                \* suspends the callback thread has to pass on
    Programs,   \* which calls each thread makes: a set of possibilities
    NONE        \* no thread, sender, request, message, ...

VARIABLES
    ticktimer,                    \* XousTickTimer, its registers, sleep_heap, and how
                                  \* often the callback thread is told to suspend
    last_responder,               \* LAST_RESPONDER
    notifications_with_timeouts,
    notify_table,                 \* the senders that wait for a condition
    mutex_hash,                   \* the senders that wait for a mutex
    mutex_ready_table,            \* mutexes unlocked before they were asked for
    queue,                        \* the messages not yet received
    msg,                          \* the message being handled, or NONE
    call,                         \* what each thread is blocked in
    lock,                         \* where each thread is with each mutex
    failed,                       \* the assertions that failed
    program                       \* the one of Programs that runs: never changes

tables == <<notifications_with_timeouts, notify_table, mutex_hash, mutex_ready_table>>
timer  == <<ticktimer, last_responder>>
vars   == <<timer, tables, queue, msg, call, lock, failed, program>>

Senders     == 0 .. NumSlots - 1
BlockingOps == {"ElapsedMs", "SleepMs", "WaitForCondition", "NotifyCondition", "LockMutex"}
PostedOps   == {"UnlockMutex", "FreeMutex", "FreeCondition", "SuspendResume"}
TimedOps    == {"SleepMs", "WaitForCondition"}
LoopOps     == {"RecalculateSleep", "notifying", "resume"}
Idle        == [op |-> NONE, id |-> NONE, sender |-> NONE, timed |-> FALSE, due |-> 0]

\* A TimerRequest has the millisecond at which it is due, the sender to answer,
\* its kind and, for a timeout, the condition waited for.
TimerRequest == [msec : Int, sender : Senders, kind : {"Sleep", "Timeout"},
                 data : Condvars \cup {NONE}]
Letter == [op : BlockingOps \cup PostedOps \cup LoopOps, sender : Senders \cup {NONE},
           id : Condvars \cup Mutexes \cup {NONE}, arg : Nat]

ASSUME TicktimerAssumption ==
    /\ NumSlots \in Nat \ {0}
    /\ SleepTimes \cup WaitTimes \subseteq Nat \ {0} /\ MaxPosted \in Nat
    /\ NONE \notin Threads \cup Condvars \cup Mutexes \cup Senders
    /\ NONE \notin BlockingOps \cup {"Suspend"} /\ NONE \notin TimerRequest \cup Letter

-----------------------------------------------------------------------------
(***************************************************************************)
(* The timer.  Each operator is the value of ticktimer after the method.   *)
(* The alarm is pending from the moment the counter passes the target, and *)
(* clearing it only helps once the target is in the future.                *)
(***************************************************************************)
Keys(heap) == {r.msec : r \in heap}
First(heap) == CHOOSE r \in heap : \A o \in heap : r.msec <= o.msec

\* Mutant: the event of the last alarm is not cleared.
ScheduleUncleared(k, r) ==
    [k EXCEPT !.current_response = r, !.target = r.msec,
              !.pending = @ \/ r.msec <= 0, !.enabled = TRUE]
schedule_response(k, r) ==
    [k EXCEPT !.current_response = r, !.target = r.msec,
              !.pending = r.msec <= 0, !.enabled = TRUE]

start_sleep(k) ==
    IF k.sleep_heap = {} THEN k
    ELSE LET r == First(k.sleep_heap)
         IN  schedule_response([k EXCEPT !.sleep_heap = @ \ {r}], r)

\* Mutant: two requests may have the same key, and the second replaces the first.
Overwriting(k, r) ==
    [k EXCEPT !.sleep_heap = {o \in @ : o.msec # r.msec} \cup {r}]
\* A key that is taken is counted up to the next free one.
recalculate_sleep_offline(k, r) ==
    LET from == r.msec
        free == {n \in from .. from + Cardinality(k.sleep_heap) : n \notin Keys(k.sleep_heap)}
        key  == CHOOSE n \in free : \A o \in free : n <= o
    IN  [k EXCEPT !.sleep_heap = @ \cup {[r EXCEPT !.msec = key]}]

\* Mutant: the request that was armed starts over with its full time.
StopAndStartOver(k) ==
    LET off  == [k EXCEPT !.enabled = FALSE, !.current_response = NONE, !.left_off = FALSE]
        full == CHOOSE n \in SleepTimes \cup WaitTimes : \A o \in SleepTimes \cup WaitTimes : o <= n
    IN  IF k.current_response = NONE THEN off
        ELSE recalculate_sleep_offline(off, [k.current_response EXCEPT !.msec = full])
\* stop_interrupt is part of it.
stop_sleep(k) ==
    [k EXCEPT !.enabled = FALSE,
              !.current_response = NONE,
              !.left_off = FALSE,
              !.sleep_heap = IF k.current_response = NONE THEN @
                             ELSE @ \cup {k.current_response}]

recalculate_sleep(k, r) == start_sleep(recalculate_sleep_offline(stop_sleep(k), r))

-----------------------------------------------------------------------------
(***************************************************************************)
(* Messages and replies.  A sender has a token while its message has been  *)
(* received and not answered; a reply to a sender without one is an error. *)
(***************************************************************************)
Message(op, sender, id, arg) == [op |-> op, sender |-> sender, id |-> id, arg |-> arg]

Queued(s)  == \E i \in DOMAIN queue : queue[i].op \in BlockingOps /\ queue[i].sender = s
IsToken(s) == \E t \in Threads : call[t].sender = s /\ ~Queued(s)

\* Unread messages and tokens share the slots.
FullWithout(S) ==
    Len(queue) + Cardinality({s \in Senders \ S : IsToken(s)}) >= NumSlots
QueueFull == FullWithout({})
Unused    == Senders \ ({call[t].sender : t \in Threads} \cup
                        {queue[i].sender : i \in DOMAIN queue})
Posted    == Cardinality({i \in DOMAIN queue : queue[i].op \in PostedOps})

\* The threads that wait for a reply to the senders S get it.
Answer(S) ==
    LET woken == {t \in Threads : call[t].sender \in S /\ IsToken(call[t].sender)}
    IN  /\ call' = [t \in Threads |-> IF t \in woken THEN Idle ELSE call[t]]
        /\ lock' = [t \in Threads |-> [m \in Mutexes |->
                      IF t \in woken /\ call[t].op = "LockMutex" /\ call[t].id = m
                      THEN "holds" ELSE lock[t][m]]]

\* reply_and_receive_next_legacy.  The reply it begins with is part of the
\* step that handles the message.
Receive ==
    /\ failed = {} /\ msg = NONE
    /\ queue # <<>>
    /\ msg' = Head(queue)
    /\ queue' = Tail(queue)
    /\ UNCHANGED <<timer, program, tables, call, lock, failed>>

Handle(op) == msg # NONE /\ msg.op = op /\ msg' = NONE /\ UNCHANGED <<last_responder, queue, program>>

-----------------------------------------------------------------------------
(***************************************************************************)
(* The interrupt.                                                          *)
(***************************************************************************)
\* The reply goes out before the message, which may take the slot it frees.
\* Mutant: any interrupt is taken for the alarm.
WakeOnAnyIrq ==
    /\ ticktimer.enabled
    /\ LET response == ticktimer.current_response
       IN  /\ Answer({response.sender})
           /\ ticktimer' = [ticktimer EXCEPT !.enabled = FALSE, !.current_response = NONE]
           /\ queue' = Append(queue, Message("RecalculateSleep", NONE,
                                             response.data, response.sender))
           /\ last_responder' = response.sender
    /\ UNCHANGED <<program, tables, msg, failed>>
handle_irq ==
    /\ ticktimer.enabled /\ ticktimer.pending
    /\ LET response == ticktimer.current_response
       IN  /\ Answer({response.sender})
           /\ ticktimer' = [ticktimer EXCEPT !.enabled = FALSE, !.current_response = NONE]
           /\ queue' = IF FullWithout({response.sender}) THEN queue
                       ELSE Append(queue, Message("RecalculateSleep", NONE,
                                                  response.data, response.sender))
           /\ last_responder' = response.sender
    /\ UNCHANGED <<program, tables, msg, failed>>

-----------------------------------------------------------------------------
(***************************************************************************)
(* The messages.                                                           *)
(***************************************************************************)
\* ElapsedMs, PingWdt and GetVersion do not touch the timer.
ElapsedMs ==
    /\ Handle("ElapsedMs")
    /\ Answer({msg.sender})
    /\ UNCHANGED <<ticktimer, tables, failed>>

SleepMs ==
    /\ Handle("SleepMs")
    /\ ticktimer' = recalculate_sleep(ticktimer,
                        [msec |-> msg.arg, sender |-> msg.sender, kind |-> "Sleep", data |-> NONE])
    /\ UNCHANGED <<tables, call, lock, failed>>

\* VecDeque::retain: the entries other than s, in their order.
Retain(list, s) ==
    LET kept    == {i \in DOMAIN list : list[i] # s}
        rank(i) == Cardinality({j \in kept : j <= i})
    IN  [n \in 1 .. Cardinality(kept) |-> list[CHOOSE i \in kept : rank(i) = n]]
InHeap(heap, s)  == \E r \in heap : r.sender = s
Without(heap, s) == {r \in heap : r.sender # s}

\* msg.arg is the sender that was answered, msg.id the condition it waited for.
RecalculateSleep ==
    /\ Handle("RecalculateSleep")
    /\ LET sender   == msg.arg
           k        == stop_sleep(ticktimer)
           timedOut == sender \in notifications_with_timeouts
           inTable  == msg.id \in Condvars /\ Contains(notify_table[msg.id], sender)
       IN  /\ ticktimer' = start_sleep([k EXCEPT !.sleep_heap =
                               IF timedOut THEN Without(@, sender) ELSE @])
           /\ notifications_with_timeouts' = notifications_with_timeouts \ {sender}
           /\ notify_table' =
                 IF timedOut /\ inTable
                 THEN [notify_table EXCEPT ![msg.id] = Retain(@, sender)]
                 ELSE notify_table
           /\ failed' = failed
                \cup (IF timedOut /\ InHeap(k.sleep_heap, sender) THEN {"still in the heap"} ELSE {})
                \cup (IF timedOut /\ ~inTable THEN {"not in the notify table"} ELSE {})
    /\ UNCHANGED <<mutex_hash, mutex_ready_table, call, lock>>

\* Mutant: an unlock nobody waits for is forgotten.
LockMutexAlways ==
    /\ Handle("LockMutex")
    /\ mutex_hash' = [mutex_hash EXCEPT ![msg.id] = Append(@, msg.sender)]
    /\ UNCHANGED <<ticktimer, notifications_with_timeouts, notify_table, mutex_ready_table,
                   call, lock, failed>>
LockMutex ==
    /\ Handle("LockMutex")
    /\ \/ /\ msg.id \in mutex_ready_table
          /\ mutex_ready_table' = mutex_ready_table \ {msg.id}
          /\ Answer({msg.sender})
          /\ UNCHANGED mutex_hash
       \/ /\ msg.id \notin mutex_ready_table
          /\ mutex_hash' = [mutex_hash EXCEPT ![msg.id] = Append(@, msg.sender)]
          /\ UNCHANGED <<mutex_ready_table, call, lock>>
    /\ UNCHANGED <<ticktimer, notifications_with_timeouts, notify_table, failed>>

\* Mutant: all the waiting threads are let in.
UnlockMutexAll ==
    /\ Handle("UnlockMutex")
    /\ Answer(ToSet(mutex_hash[msg.id]))
    /\ mutex_hash' = [mutex_hash EXCEPT ![msg.id] = <<>>]
    /\ mutex_ready_table' = IF mutex_hash[msg.id] = <<>> THEN mutex_ready_table \cup {msg.id}
                                                         ELSE mutex_ready_table
    /\ UNCHANGED <<ticktimer, notifications_with_timeouts, notify_table, failed>>
UnlockMutex ==
    /\ Handle("UnlockMutex")
    /\ \/ /\ mutex_hash[msg.id] # <<>>
          /\ Answer({Head(mutex_hash[msg.id])})
          /\ mutex_hash' = [mutex_hash EXCEPT ![msg.id] = Tail(@)]
          /\ failed' = failed \cup (IF IsToken(Head(mutex_hash[msg.id])) THEN {} ELSE {"unwrap"})
          /\ UNCHANGED mutex_ready_table
       \/ /\ mutex_hash[msg.id] = <<>>
          /\ mutex_ready_table' = mutex_ready_table \cup {msg.id}
          /\ failed' = failed \cup (IF msg.id \in mutex_ready_table THEN {"already one waiting"} ELSE {})
          /\ UNCHANGED <<mutex_hash, call, lock>>
    /\ UNCHANGED <<ticktimer, notifications_with_timeouts, notify_table>>

FreeMutex ==
    /\ Handle("FreeMutex")
    /\ mutex_hash' = [mutex_hash EXCEPT ![msg.id] = <<>>]
    /\ mutex_ready_table' = mutex_ready_table \ {msg.id}
    /\ failed' = failed
         \cup (IF mutex_hash[msg.id] # <<>> THEN {"freed while awaited"} ELSE {})
         \cup (IF msg.id \in mutex_ready_table THEN {"freed while ready"} ELSE {})
    /\ UNCHANGED <<ticktimer, notifications_with_timeouts, notify_table, call, lock>>

WaitForCondition ==
    /\ Handle("WaitForCondition")
    /\ notify_table' = [notify_table EXCEPT ![msg.id] = Append(@, msg.sender)]
    /\ IF msg.arg = 0 THEN UNCHANGED <<ticktimer, notifications_with_timeouts>>
       ELSE /\ ticktimer' = recalculate_sleep(ticktimer,
                    [msec |-> msg.arg, sender |-> msg.sender, kind |-> "Timeout", data |-> msg.id])
            /\ notifications_with_timeouts' = notifications_with_timeouts \cup {msg.sender}
    /\ UNCHANGED <<mutex_hash, mutex_ready_table, call, lock, failed>>

(***************************************************************************)
(* NotifyCondition and FreeCondition go through the waiting senders with   *)
(* the alarm stopped.  A sender that is counted among the timeouts and no  *)
(* longer in the heap has been answered by the interrupt.                  *)
(***************************************************************************)
TimedOut(e) == e \in notifications_with_timeouts /\ ~InHeap(ticktimer.sleep_heap, e)
TwoTimeouts(heap, e) == \E r, o \in heap : r # o /\ r.sender = e /\ o.sender = e

\* msg.arg = 0 notifies all; while the loop goes on it is the number still to do.
NotifyCondition ==
    /\ msg # NONE /\ msg.op = "NotifyCondition"
    /\ LET awaiting == Len(notify_table[msg.id])
       IN  msg' = [msg EXCEPT !.op = "notifying",
                              !.arg = IF @ = 0 \/ @ > awaiting THEN awaiting ELSE @]
    /\ ticktimer' = stop_sleep(ticktimer)
    /\ UNCHANGED <<last_responder, program, tables, queue, call, lock, failed>>

Notifying == failed = {} /\ msg # NONE /\ msg.op = "notifying"

\* The first sender is taken from the list and its timeout cancelled; `bad` is
\* what goes wrong when it is answered.
TakeEntry(e, bad) ==
    /\ msg' = [msg EXCEPT !.arg = @ - 1]
    /\ notify_table' = [notify_table EXCEPT ![msg.id] = Tail(@)]
    /\ notifications_with_timeouts' = notifications_with_timeouts \ {e}
    /\ ticktimer' = [ticktimer EXCEPT !.sleep_heap =
                        IF e \in notifications_with_timeouts THEN Without(@, e) ELSE @]
    /\ failed' = failed \cup bad
         \cup (IF e \in notifications_with_timeouts /\ TwoTimeouts(ticktimer.sleep_heap, e)
               THEN {"two timeouts"} ELSE {})
    /\ UNCHANGED <<last_responder, program, queue, mutex_hash, mutex_ready_table>>

\* Mutant: answers also those the interrupt has answered.
NotifyTwice ==
    /\ Notifying /\ msg.arg > 0
    /\ LET e == Head(notify_table[msg.id])
       IN  /\ TakeEntry(e, IF IsToken(e) THEN {} ELSE {"woken up twice"})
           /\ Answer({e})
NotifyEntry ==
    /\ Notifying /\ msg.arg > 0
    /\ LET e == Head(notify_table[msg.id])
       IN  \/ TimedOut(e) /\ TakeEntry(e, {}) /\ UNCHANGED <<call, lock>>
           \/ /\ ~TimedOut(e)
              /\ TakeEntry(e, IF IsToken(e) THEN {} ELSE {"woken up twice"})
              /\ Answer({e})

NotifyEnd ==
    /\ Notifying /\ msg.arg = 0
    /\ Handle("notifying")
    /\ ticktimer' = start_sleep(ticktimer)
    /\ Answer({msg.sender})
    /\ UNCHANGED <<tables, failed>>

\* The library frees a condition nobody waits for, and so the loop has nobody to
\* answer but senders that were lost: it is one step.
FreeCondition ==
    /\ Handle("FreeCondition")
    /\ LET k        == stop_sleep(ticktimer)
           awaiting == ToSet(notify_table[msg.id])
           timed    == awaiting \cap notifications_with_timeouts
           answered == {e \in timed : ~InHeap(k.sleep_heap, e)}
       IN  /\ ticktimer' = start_sleep([k EXCEPT !.sleep_heap = {r \in @ : r.sender \notin timed}])
           /\ notifications_with_timeouts' = notifications_with_timeouts \ timed
           /\ Answer(awaiting \ answered)
           /\ failed' = failed
                \cup (IF \E e \in timed : TwoTimeouts(k.sleep_heap, e) THEN {"two timeouts"} ELSE {})
                \cup (IF \E e \in timed : (last_responder = e) # (e \in answered)
                      THEN {"last response"} ELSE {})
    /\ notify_table' = [notify_table EXCEPT ![msg.id] = <<>>]
    /\ UNCHANGED <<mutex_hash, mutex_ready_table>>

\* SuspendResume.  suspend() switches the alarm off; the loop then waits until
\* the system has slept and resumed, or the suspend was given up; resume() clears
\* the event and, without the feature `susres`, leaves the alarm off.  left_off
\* is not the code's: the alarm was switched off when no thread was in a suspend
\* any more, and has not been set since.
Suspend ==
    /\ msg # NONE /\ msg.op = "SuspendResume"
    /\ ticktimer' = [ticktimer EXCEPT
                        !.enabled = FALSE,
                        !.left_off = \A t \in Threads : call[t].op # "Suspend"]
    /\ msg' = [msg EXCEPT !.op = "resume"]
    /\ UNCHANGED <<last_responder, program, tables, queue, call, lock, failed>>
Resume ==
    /\ Handle("resume")
    /\ ticktimer' = [ticktimer EXCEPT !.pending = @ /\ ticktimer.target <= 0]
    /\ UNCHANGED <<tables, call, lock, failed>>

Serve ==
    \/ Receive \/ ElapsedMs \/ SleepMs \/ RecalculateSleep
    \/ LockMutex \/ UnlockMutex \/ FreeMutex
    \/ WaitForCondition \/ NotifyCondition \/ NotifyEntry \/ NotifyEnd \/ FreeCondition
    \/ Suspend \/ Resume

-----------------------------------------------------------------------------
(***************************************************************************)
(* The callers: the standard library's sleep, Condvar and Mutex.           *)
(***************************************************************************)
\* Bound: a thread makes no other call while it holds a mutex.
Free(t)    == call[t] = Idle
Outside(t) == \A m \in Mutexes : lock[t][m] = "out"

\* A blocking call.  The kernel searches a free slot from queue_head, which
\* stays where it is as long as a blocked thread has the slot it points to: the
\* slot of a call that has just been answered is the next one given out.
SendBlocking(t, op, id, arg) ==
    /\ ~QueueFull
    /\ LET s == CHOOSE s \in Unused : \A o \in Unused : s <= o
       IN  /\ call' = [call EXCEPT ![t] =
                       [op |-> op, id |-> id, sender |-> s, timed |-> op \in TimedOps /\ arg > 0,
                        due |-> IF op \in TimedOps THEN arg ELSE 0]]
           /\ queue' = Append(queue, Message(op, s, id, arg))
    /\ UNCHANGED <<timer, program, tables, msg, failed>>
Send(t, op, id, arg) == Free(t) /\ op \in program[t] /\ SendBlocking(t, op, id, arg)

\* A message without a reply.
PostMessage(op, id) ==
    /\ ~QueueFull /\ Posted < MaxPosted
    /\ queue' = Append(queue, Message(op, NONE, id, 0))
    /\ UNCHANGED <<timer, program, tables, msg, failed>>
Post(t, op, id) == Free(t) /\ PostMessage(op, id) /\ UNCHANGED call

CallElapsed(t) == Send(t, "ElapsedMs", NONE, 0) /\ UNCHANGED lock
CallSleep(t) ==
    /\ \E ms \in SleepTimes : Send(t, "SleepMs", NONE, ms)
    /\ UNCHANGED lock
CallWait(t, c) ==
    /\ \E ms \in WaitTimes \cup {0} : Send(t, "WaitForCondition", c, ms)
    /\ UNCHANGED lock
CallNotify(t, c) == (\E n \in {0, 1} : Send(t, "NotifyCondition", c, n)) /\ UNCHANGED lock

\* A condition variable is dropped when nobody waits for it any more.
DropCondvar(t, c) ==
    /\ "FreeCondition" \in program[t]
    /\ \A u \in Threads : ~(call[u].op \in {"WaitForCondition", "NotifyCondition"} /\ call[u].id = c)
    /\ Post(t, "FreeCondition", c)
    /\ UNCHANGED lock

\* A mutex is an atomic count of its owner and of those who want it.  A thread
\* that finds it above zero, before it counts itself, asks the service; an
\* owner that leaves it above zero tells the service.
Counted(m) == {t \in Threads : lock[t][m] \in {"wants", "holds"}}
LockFast(t, m) ==
    /\ Free(t) /\ "LockMutex" \in program[t]
    /\ lock[t][m] = "out"
    /\ lock' = [lock EXCEPT ![t][m] = IF Counted(m) = {} THEN "holds" ELSE "wants"]
    /\ UNCHANGED <<timer, program, tables, queue, msg, call, failed>>
AskForLock(t, m) == lock[t][m] = "wants" /\ Send(t, "LockMutex", m, 0) /\ UNCHANGED lock
UnlockFast(t, m) ==
    /\ Free(t) /\ lock[t][m] = "holds"
    /\ lock' = [lock EXCEPT ![t][m] = IF Counted(m) = {t} THEN "out" ELSE "owes"]
    /\ UNCHANGED <<timer, program, tables, queue, msg, call, failed>>
TellUnlock(t, m) ==
    /\ lock[t][m] = "owes"
    /\ Post(t, "UnlockMutex", m)
    /\ lock' = [lock EXCEPT ![t][m] = "out"]
DropMutex(t, m) ==
    /\ "FreeMutex" \in program[t]
    /\ \A u \in Threads : lock[u][m] = "out"
    /\ Post(t, "FreeMutex", m)
    /\ UNCHANGED lock

\* Susres::initiate_suspend: the suspend service tells the callback thread that
\* the library keeps in the ticktimer's process, the last to be told, and that
\* thread passes the event on.  The caller is blocked until the system has slept
\* or the suspend has timed out, which may be before the ticktimer has received
\* the event; then it sleeps a moment, whichever it was.  A suspend that is
\* refused, or that times out before the callback thread is told, is this sleep
\* and nothing else.
CallSuspend(t) ==
    /\ Free(t) /\ "Suspend" \in program[t]
    /\ ticktimer.told < MaxPosted
    /\ ticktimer' = [ticktimer EXCEPT !.told = @ + 1]
    /\ call' = [call EXCEPT ![t].op = "Suspend"]
    /\ UNCHANGED <<last_responder, program, tables, queue, msg, lock, failed>>
suspend_cb_server ==
    /\ ticktimer.told > 0 /\ ~QueueFull /\ Posted < MaxPosted
    /\ ticktimer' = [ticktimer EXCEPT !.told = @ - 1]
    /\ queue' = Append(queue, Message("SuspendResume", NONE, NONE, 0))
    /\ UNCHANGED <<last_responder, program, tables, msg, call, lock, failed>>
SleepAfterSuspend(t) ==
    /\ call[t].op = "Suspend"
    /\ \E ms \in SleepTimes : SendBlocking(t, "SleepMs", NONE, ms)
    /\ UNCHANGED lock

Client(t) ==
    \/ Outside(t) /\ (CallElapsed(t) \/ CallSleep(t) \/ CallSuspend(t))
    \/ SleepAfterSuspend(t)
    \/ Outside(t) /\ \E c \in Condvars : CallWait(t, c) \/ CallNotify(t, c) \/ DropCondvar(t, c)
    \/ \E m \in Mutexes : LockFast(t, m) \/ AskForLock(t, m) \/ UnlockFast(t, m)
                          \/ TellUnlock(t, m) \/ DropMutex(t, m)

\* A millisecond passes.  Of the times that are over only the order is kept,
\* and nothing passes when no time is left in the future.
Requests   == (ticktimer.sleep_heap \cup {ticktimer.current_response}) \ {NONE}
Sooner(n)  == IF n > 0 THEN n - 1 ELSE 0
Earlier(r) ==
    IF r = NONE THEN r
    ELSE [r EXCEPT !.msec = IF @ > 1 THEN @ - 1
                            ELSE -Cardinality({o \in Requests : r.msec < o.msec /\ o.msec <= 1})]
Tick ==
    /\ (\E r \in Requests : r.msec > 0) \/ (\E t \in Threads : call[t].due > 0)
    /\ ticktimer' = [ticktimer EXCEPT
                        !.sleep_heap = {Earlier(r) : r \in @},
                        !.current_response = Earlier(@),
                        !.target = Sooner(@),
                        !.pending = @ \/ ticktimer.target <= 1]
    /\ call' = [t \in Threads |-> [call[t] EXCEPT !.due = Sooner(@)]]
    /\ UNCHANGED <<last_responder, program, tables, queue, msg, lock, failed>>

-----------------------------------------------------------------------------
Init ==
    /\ ticktimer = [sleep_heap |-> {}, current_response |-> NONE, enabled |-> FALSE,
                    pending |-> FALSE, target |-> 0, left_off |-> FALSE, told |-> 0]
    /\ last_responder = NONE
    /\ notifications_with_timeouts = {}
    /\ notify_table = [c \in Condvars |-> <<>>]
    /\ mutex_hash = [m \in Mutexes |-> <<>>]
    /\ mutex_ready_table = {}
    /\ queue = <<>> /\ msg = NONE
    /\ call = [t \in Threads |-> Idle]
    /\ lock = [t \in Threads |-> [m \in Mutexes |-> "out"]]
    /\ failed = {}
    /\ program \in Programs

Next == Serve \/ handle_irq \/ Tick \/ suspend_cb_server \/ \E t \in Threads : Client(t)

\* The kernel runs every thread that is ready, an alarm that is due is taken when
\* the loop switches it on again, if not the first time, and time passes.
\* Threads leave their critical sections and finish a lock or an unlock they
\* have begun; they need not begin one.  A suspend returns, or times out, and its
\* caller goes on to its sleep.
Fairness ==
    /\ WF_vars(Serve) /\ SF_vars(handle_irq) /\ WF_vars(Tick)
    /\ \A t \in Threads : WF_vars(\E m \in Mutexes : AskForLock(t, m) \/ UnlockFast(t, m)
                                                     \/ TellUnlock(t, m))
                            /\ WF_vars(SleepAfterSuspend(t))
Spec == Init /\ [][Next]_vars /\ Fairness
-----------------------------------------------------------------------------
(***************************************************************************)
(* What the service is checked for.                                        *)
(***************************************************************************)
\* No assertion of main.rs about the tables of conditions and mutexes fails, no
\* reply is sent twice, and the table of unlocks nobody has asked for yet never
\* has to hold two of the same mutex, though the messages that would show it
\* race each other.
AssertionsHold == failed = {}

\* RecalculateSleep is on its way: in the queue or being handled.
Recalculating == \/ \E i \in DOMAIN queue : queue[i].op = "RecalculateSleep"
                 \/ msg # NONE /\ msg.op = "RecalculateSleep"

\* The caller of the suspend after which the alarm is off is still in it, or its
\* sleep, which sets the alarm again, is on its way.
Resuming == \/ \E t \in Threads : call[t].op = "Suspend"
            \/ \E i \in DOMAIN queue : queue[i].op = "SleepMs"
            \/ msg # NONE /\ msg.op = "SleepMs"

\* While anybody sleeps the alarm is set, for the one whose time comes first,
\* or the message that will set it is on its way, or a loop that ends by setting
\* it is under way; no two have the same key.  A suspend leaves an alarm off only
\* until its caller sleeps, unless the caller had given up before the ticktimer
\* came to suspend.
AlarmIsSet ==
    LET k == ticktimer
    IN  /\ k.enabled => k.current_response # NONE
        /\ k.current_response # NONE => k.enabled \/ Resuming \/ k.left_off
        /\ k.sleep_heap # {} => k.current_response # NONE \/ Recalculating
                                  \/ (msg # NONE /\ msg.op = "notifying")
        /\ k.current_response # NONE
             => /\ k.pending <=> k.current_response.msec <= 0
                /\ \A r \in k.sleep_heap : r.msec > k.current_response.msec
        /\ \A r, o \in k.sleep_heap : r.msec = o.msec => r = o

Waits(t, S) == \E r \in S : r.sender = call[t].sender /\ (call[t].due > 0 => r.msec >= call[t].due)

\* Every thread whose call the loop has put away is where the step that must
\* wake it will look: a sleeper among the requests, a thread that waits for a
\* condition in the table of that condition and, with a timeout, among the
\* requests, and a thread that waits for a mutex in the list of that mutex.
\* And the tables hold nobody else, but for senders whose time is up and whose
\* RecalculateSleep is on its way.
PutAway(t) == call[t].sender # NONE /\ ~Queued(call[t].sender)
              /\ (msg = NONE \/ msg.sender # call[t].sender)
NobodyForgotten ==
    /\ \A t \in Threads : PutAway(t) =>
          CASE call[t].op = "SleepMs" -> Waits(t, Requests)
            [] call[t].op = "WaitForCondition" ->
                 /\ Contains(notify_table[call[t].id], call[t].sender)
                 /\ call[t].timed => /\ call[t].sender \in notifications_with_timeouts
                                     /\ Waits(t, Requests)
            [] call[t].op = "LockMutex" -> Contains(mutex_hash[call[t].id], call[t].sender)
            [] OTHER -> FALSE
    /\ \A c \in Condvars : \A s \in ToSet(notify_table[c]) :
          \/ \E t \in Threads : PutAway(t) /\ call[t].sender = s
                                /\ call[t].op = "WaitForCondition" /\ call[t].id = c
          \/ s \in notifications_with_timeouts /\ Recalculating
    /\ \A r \in Requests : \E t \in Threads : PutAway(t) /\ call[t].sender = r.sender
    /\ \A m \in Mutexes : \A s \in ToSet(mutex_hash[m]) : \E t \in Threads :
          PutAway(t) /\ call[t].sender = s /\ call[t].op = "LockMutex" /\ call[t].id = m

\* At most one thread holds a mutex, however its fast path and the messages of
\* its slow path interleave.
MutualExclusion ==
    \A m \in Mutexes : Cardinality({t \in Threads : lock[t][m] = "holds"}) <= 1

\* A thread is woken only for its own reason: a sleeper not before its time, a
\* thread that waits for a condition when that condition is notified or freed
\* or its timeout is over, a thread that waits for a mutex by an unlock of it.
\* In particular a sender that is used again is not taken for an earlier call.
WokenRightly(t) ==
    CASE call[t].op = "SleepMs"          -> msg = msg' /\ call[t].due = 0
      [] call[t].op = "WaitForCondition" ->
           \/ msg = msg' /\ call[t].timed /\ call[t].due = 0
           \/ msg # NONE /\ msg.op \in {"notifying", "FreeCondition"} /\ msg.id = call[t].id
      [] call[t].op = "LockMutex"        ->
           msg # NONE /\ msg.op \in {"LockMutex", "UnlockMutex"} /\ msg.id = call[t].id
      [] OTHER -> msg # NONE /\ msg.sender = call[t].sender
WokenForAReason ==
    [][\A t \in Threads : call[t].op # NONE /\ call'[t].op = NONE => WokenRightly(t)]_vars

\* Whoever sleeps, or waits for a condition with a timeout, goes on, unless the
\* alarm stays off for ever after a suspend that was handled when its caller had
\* given up, and nobody asks the ticktimer for anything that would set it again.
SleepersReturn ==
    \A t \in Threads : call[t].timed ~> (~call[t].timed \/ []ticktimer.left_off)

\* Whoever wants a mutex gets it, when no thread keeps it for ever.
LockersGetIn ==
    \A t \in Threads, m \in Mutexes : lock[t][m] = "wants" ~> lock[t][m] = "holds"
=============================================================================
