# A TLA+ model of the baochip webcam and the kernel under it

The repository is a fork of Xous, a message-passing microkernel operating
system, for a badge that presents itself to a host as a USB webcam. Everything
in it rests on the kernel's messages: drivers, the USB service and the camera
service are processes that send to each other's servers, lend memory in
messages and sleep until they are answered. The fork's own core is the path of
a picture: the camera service (`services/bao-video`) takes it from the sensor
slot by slot and lends chunks of it to the USB service (`services/usb-bao1x`),
whose interrupt handler feeds them to the host.

This directory models the kernel's message queues, its scheduler with the
system calls that pass messages and manage threads, servers and connections;
both ends of the path of a picture, camera and USB streamer; and the two
services everything else waits on, the ticktimer and the suspend service. The
models follow the bare-metal RISC-V build.

1. [Inventory](#1-inventory)
2. [Modules](#2-modules)
3. [Runs](#3-runs)
4. [Fairness](#4-fairness)
5. [Proofs](#5-proofs)
6. [Where the code does not do what its text says](#6-where-the-code-does-not-do-what-its-text-says)
7. [What is left out](#7-what-is-left-out)
8. [Plan](#8-plan)

## 1. Inventory

| Part | State | Operations | What makes it correct |
|---|---|---|---|
| Message queue of a server (`kernel/src/server.rs`) | 128 slots, each empty, an unread message or a token for an owed reply; head and tail index; two wrapping `u8` generations; a mask of sleeping threads | queue a message, queue a token, take the next message, take a token, mark a dead client's messages, park and take a thread, destroy | messages come out once each in the order they went in; a token stays until its reply; no message waits while a thread of the server sleeps |
| Scheduler (`kernel/src/services.rs`, `main.rs`) | process table with state, mask of ready threads, current thread; `ORIGINAL_PID/TID`, `SWITCHTO_CALLER`, `PREVIOUS_PAIR`, `HANDLING_IRQ` | `ready_thread`, `unschedule_thread`, `switch_to_thread`, `activate_process_thread`, `set_last_thread`, callbacks, the loop in `kmain` | one process is running; each thread is on the processor, ready, or waiting for one known thing; a ready thread runs at last; no assertion fails |
| System calls (`kernel/src/syscall.rs`) | thread tables with joiners, server table, connection maps | send, receive, reply, reply-and-receive, yield, threads, servers, connections, termination | connections never lead to a slot that another server now has; the death of one party leaves the others sound |
| Interrupts (`kernel/src/irq.rs`, `arch/riscv/irq.rs`) | handler table, pending line, mask | dispatch, return, claim, free | a handler may come at any moment and make its calls without disturbing the thread it interrupted |
| Memory manager and swap (`kernel/src/mem.rs`, `swap.rs`) | owner of each page, page tables | map, lend, move, return, evict | a page has one owner; a lent page comes back |
| USB streamer (`services/usb-bao1x`: `uvc.rs`, parts of `main.rs` and `hw.rs`) | staging buffer, `streaming`, `frame_active`, `in_flight`, `discard_completion`, `cursor`; a parked lend; the transfer ring | lend a chunk, stage it, start and stop the stream, completion, bus reset, unplug | a lender is always answered; a chunk goes out whole; a completion of an old stream is not taken for one of the new |
| Camera service (`services/bao-video`) | ring of DMA slots with its counters, the channel's two queued transfers; `active`, `mode`, `pinned`, `host_streaming`, `session`, `captured`, `restarts`; `qr_request`; power of the sensor | transfer done, copy, feed, send; start, switch and stop by host or console; watchdog; QR scan | no slot is filled before it is copied; the stream never stalls; the camera runs while somebody wants it and is off otherwise; every session has a picture or is given up |
| `xous-ticktimer` | requests by the time they are due, the one alarm and its owner, threads waiting for conditions and mutexes, the last sender the interrupt answered | sleep, wait, notify, free, lock, unlock; the alarm's interrupt; suspend and resume | a sleeper wakes, not early, and once; nobody is left in a table or dropped from one; a mutex has one owner |
| Suspend service (`bao1x-hal-service/src/servers/susres.rs`) and `xous-api-susres` | subscribers with their stage and flags, the requester, the gate, the timeout thread and its flag | request, ready, gate, timeout, was-clean, allow and deny, reboot | the system sleeps only when all subscribers hold still; everybody is let go again |
| `xous-names` | name table, blocked lookups | register, look up | a lookup is answered when the name is registered |
| Other services, consoles, loader, libraries, tools | | | sequential, or not particular to this fork |

How they interact. Every trap into the kernel runs to its end with interrupts
off on the only core, so system calls do not interleave with each other; what
does interleave is the calls of different threads, interrupts between any two
instructions of user code, and the moments at which processes terminate.
Messages carry the processor as well as data: a blocking send to a sleeping
server runs the server in what is left of the sender's quantum. Interrupt
handlers are functions of a user process, run on its thread 0, and tell the
rest of the process what happened by `try_send_message`, which fails when the
queue is full.

What is hard is therefore: reuse of slots, generations, thread numbers and
server indices that wrap or are given to others; a switch made in two halves
with a failure possible in between; interrupts in every state; termination with
messages in every stage; lost notifications; the ring of the USB controller,
which remembers transfers of a stream that has ended; a camera that goes on
filling memory while the loop looks at it; senders, sessions and timers that
outlive the call they were made for and meet the next one. The list of hazards, each with its line and the
properties that watch it, is in `PROJECT.json`.

## 2. Modules

| Module | Models | Kind |
|---|---|---|
| `Platform` | numbers of processes and threads | constants |
| `Server` | `struct Server` and its methods, as operators on a record | operators |
| `ServerQueue` | one server under all system calls that touch its queue | specification |
| `MessageFifo` | what a queue promises: a first-in first-out channel with owed replies | abstract specification |
| `ServerProofs` | lemmas about the operators of `Server`, for the two modules below | proofs |
| `ServerQueueProofs` | theorems about `ServerQueue`, that it implements `MessageFifo` | proofs |
| `KernelProofs` | theorems about `Kernel`: that its servers follow `ServerQueue`, and that it is sound | proofs |
| `UvcStreamProofs` | theorems about `UvcStream` | proofs |
| `CaptureRingProofs` | theorems about `CaptureRing` | proofs |
| `WebcamProofs` | theorems about `Webcam`, that it implements `CaptureRing` | proofs |
| `SusresProofs` | theorems about `Susres` | proofs |
| `TicktimerProofs` | theorems about `Ticktimer` | proofs |
| `Scheduler` | the process table and the operations of `SystemServices` on it, as operators | operators |
| `Kernel` | system calls, interrupts and `kmain` over `Scheduler` and one `Server` per server | composition |
| `MCKernel` | which process makes which calls, for TLC | instances |
| `UvcStream` | the USB streamer: loop, interrupt handler, host, lenders | specification |
| `CaptureRing` | the ring of DMA slots between camera and loop | specification |
| `Webcam` | sessions, requests, watchdogs and the QR scanner, over `CaptureRing` | composition |
| `MCWebcam` | three geometries for TLC | instances |
| `Ticktimer` | the ticktimer service with its alarm, and the library calls that use it | specification |
| `MCTicktimer` | which thread makes which calls, for TLC | instances |
| `Susres` | the suspend service, its timeout thread, subscribers and requesters | specification |
| `MCSusres` | two subscribers and three sets of calls, for TLC | instances |

`ServerQueue` and `Kernel` are both built on `Server`. Each step of `Kernel` on
a server is a step of `ServerQueue` (`QueuesFollowServerQueue`: runs `ipc` and
`terminate`, and a theorem of `KernelProofs`), and `ServerQueue` implements
`MessageFifo`. What is proved of one queue thereby reaches the kernel's servers.

**Server and ServerQueue.** `server` is a record with the fields of
`struct Server`. A queue entry keeps its tag, sender, generation (`idx`) and a
payload that stands for opcode, arguments and buffer. A search round the page is
`FirstFrom(i, S)`: the first slot of `S` at or after `i`. The page length and
the number of generations are constants, 128 and 256 in the code. An action is
what one system call does to the server; which thread may run is left to
`Kernel`. Termination of a client may come at any moment, also of a client that
goes on afterwards, which covers the reuse of its number.

**MessageFifo.** A sequence of unread messages and a function from tokens to
owed replies. Under the refinement mapping the unread messages are the entries
in order of their generations and the tokens are slots.

**Scheduler.** A process is a state, a set of ready threads and a current
thread. A failed assertion or a panic becomes the state "Panic", and nothing
happens after it; `NoPanic` says that it is not reached. Operators that can
return an error come with the condition under which they do not.

**Kernel.** One action per system call and outcome. An action is one trap, from
the call to the thread that is resumed. `Program` gives the calls that the threads of each process may
make, in any order, and `HandlerProgram` those of the interrupt handler: no
property rests on a process behaving well beyond what that set says.
`Started` gives the processes that have run before the model begins; the others
are in `Setup`, and the sweep over all address spaces, when a server goes,
panics on one of those.
`RetrySend` and `RetryConnect` are the calls the kernel repeats by moving the
program counter back: the caller yields and may do something else next, which
allows more than the code does. Servers answer a message
with the call that fits it.

**UvcStream.** The loop of the service is a sequence of steps (`main.pc`), cut
where the state it shares with the interrupt handler is read or written. A run
of the handler is one action: the host commits, halts, reads a transfer or
resets the bus. `irq_req` is the request the loop posts to its own handler. The
queue of the service is a bounded sequence: that the kernel's queue is one is
what `ServerQueue` shows. A transfer may also fail: it leaves the ring and the
streamer is told nothing. Three things are there for the properties only:
`data` of a transfer (whether what it will send is as it was staged),
`leftover` (whether a stream was started with a transfer on the ring) and
`failed` (whether a transfer of this stream, or of an earlier one since the
rings were cleared, has failed). A bus reset and the enumeration after it are
one action; when the cable is pulled, the interrupts are on again between the
clearing of the rings and that of the streamer's state, and these are two. Each chunk's length, 0 for one that is
refused, is chosen when it is copied.

**CaptureRing.** `ring` has the counters of `WebcamState` (`xfer_queued`,
`xfer_done`, `slot_base`, `slot_counter`, the last one wrapping) and `dma`, the
transfers the channel holds. The loop is cut where the camera can come between:
look at the channel (`Take`, `Overrun`, `NothingDone`), feed it, end the copy,
send the chunk. A slot is not a variable: a transfer has a number and its slot
is the remainder, so `SlotsApart` is about the arithmetic the code does.
`torn` and `loop.torn` record lost pixels for `LossesAreNoticed`. A completion
sends `CamIrq`, or loses it, at any moment: the queue may be full of anybody's
messages. `missed` records, for the properties, that one was lost while the loop
had no other to look at. What
`OtherUse` allows is all that somebody else could do with a camera that is not
the webcam's.

**Webcam.** It extends `CaptureRing` and adds the rest of `WebcamState`, the
scanner's `qr_request` and the power of the sensor. Every start, restart and
stop is `StartSession` or `StopSession` with what each of them sets.
A watchdog is the pair the code sends to itself, session and count; sessions
are kept as "this one" and "an earlier one", since that is all the handler
compares. Exposure, white balance, rotation and the preview are left out: they
do not touch this state. `ImplementsRing` (run `webcam`, and a theorem of
`WebcamProofs`) says that every step of `Webcam` is a step of `CaptureRing` for the ring's variables: what is true
of the ring alone is true in the service.

**Ticktimer.** Requests are kept with the time that is left instead of the
counter's value, of which the code looks at nothing but the order. The alarm is
`enabled`, `pending` and a target, as the hardware has them. `handle_irq` is one
action, possible between any two steps of the loop; a handler of the loop is
one action, because it stops the alarm before it touches the heap. A sender is
the slot the kernel gave to the call, and the slot of an answered call is given
out next, which is the case the code's bookkeeping has to survive. The loop of
`NotifyCondition` over the waiting senders takes one step for each
(`NotifyEntry`), with `msg` telling how many are left; `FreeCondition` is one
step, because its callers free a condition nobody waits for, and its loop finds
at most senders whose time is up (`FreedOK` of `TicktimerProofs`: not even
those). The fast path of mutexes is the standard library's and is marked external. An
assertion about the tables of conditions and mutexes that fails goes into
`failed`. A suspend is what the library makes of it: its caller waits in the
suspend service, and the ticktimer hears of it from a callback thread of its own
process (`told` counts the events that thread has yet to pass on). The caller's
wait ends at any moment, by completion or by timeout, whether or not the
ticktimer has been told, and the caller sleeps in both cases. `left_off`
records, for the properties, that `suspend` has switched the alarm off when
nobody was in a suspend any more.

**Susres.** The service receives one message at a time from `queue`; the
branch that puts the system to sleep yields before it lets anybody go, and is
two steps. The timeout thread is told of a suspend by a message and of its end
by a flag it looks at when it runs, so it may report the timeout of one suspend
in the next. A subscriber is in its own work, has reported, is at the gate, or
is on its way back.

## 3. Runs

A run is `tlc -config <cfg> <module>`; `PROJECT.json` lists them with their
properties. Times are for two workers.

| Run | Configuration | Bounds | States | What it shows |
|---|---|---|---|---|
| `queue` | `MCServerQueue`, module `ServerQueue` | 3 slots, 5 generations, one client process, one server thread | 231 000, 2 min | `TypeOK`, `GenerationsAgree`, `SleepersHaveNothingToRead`, `NumbersOutlastSlots`, `TokensStay`, `ImplementsFifo`, `EveryMessageIsReceived` |
| `ipc` | `MCKernelIpc` | a driver and a client with two threads each, 2 slots, an interrupt at any moment | 229 000, 1.5 min | `KernelSound`, `QueuesFollowServerQueue` |
| `life` | `MCKernelLife` | two programs: two server slots, one connection per process, two threads; and two servers that may terminate, each sending to the other, with a client; all processes have started | 1 065 000, 2 min | `KernelSound`, `NoDanglingConnection` while servers, connections, threads and processes come and go |
| `terminate` | `MCKernelTerminate` | one server, a client of two threads that may terminate, another client, 3 slots | 549 000, 2 min | `KernelSound`, `QueuesFollowServerQueue` |
| `fair` | `MCKernelFair` | a timer's process and three threads that send, receive, reply and yield | 29 000, 1 min | `EveryReadyThreadRuns` |
| `uvc` | `MCUvcStream` | one source, chunks of 2 payloads, a message queue of 2, up to 2 transfers on the ring when a stream starts | 591 000, 2 min | `ChunkUnderWay`, `DiscardsOnlyStale`, `CleanStreams`, `EveryLendIsAnswered` |
| `ticktimer` | `MCTicktimer` | three programs of three threads: sleep, wait and notify; a mutex; sleep and suspend. 4 slots, times of 1 and 2 ms, one message without reply in the queue | 227 000, 3 min | `AssertionsHold`, `AlarmIsSet`, `NobodyForgotten`, `MutualExclusion`, `WokenForAReason`, `SleepersReturn`, `LockersGetIn` |
| `webcam` | `MCWebcam` | a mode of 3 transfers in 3 slots, one of 1 in 3, a raw geometry of 3 in 2; counter wraps at 4; 1 waiting interrupt message; 1 picture in the first session; 1 restart | 359 000, 3.5 min | `SlotsApart`, `ChannelHoldsTheRest`, `LossesAreNoticed`, `OneCameraUser`, `SessionIsWatched`, `StaysOnWhileWanted`, `ImplementsRing`, `StreamGoesOn`, `SessionSettles`, `CameraGoesOff`, `RingTypeOK` |
| `susres` | `MCSusres` | subscribers in the first and the last of 3 stages; three programs: two requesters, allow and deny, reboot; one unhandled event per subscriber, one message to the timeout thread, one allow or deny in the queue | 608 000, 3 min | `OneSuspendAtATime`, `HeldStageByStage`, `CallersReturn`, `SusresTypeOK` |
| `starve`, `dead_client`, `uvc_overlap` | `MCStarve`, `MCDeadClient`, `MCUvcOverlap` | smaller | | violations; see section 6 |

`KernelSound` is the conjunction of what makes the kernel's state one that the
code can go on from: `KernelTypeOK`; `NoPanic`, no `expect` or `unwrap` of the
code has failed and no address space was entered that is not there yet; `OneRunning`, exactly the process of `current_pid` is
running; and `EachThreadInOnePlace`, every thread runs, is ready, sleeps in a
server's queue or waits for one answer, and is in no second place.

Why the bounds are enough for the interesting cases:

- `queue`: three slots are the fewest in which a token can sit between two
  messages and the search must step over it in both directions; with 5
  generations both the slots and the numbers wrap, at different moments, and
  the premise of `NumbersOutlastSlots` (at least two more numbers than slots)
  holds. The theorems cover the other sizes.
- `ipc`: two slots let the queue be full with one message and one token. The
  driver's second thread lets one thread be parked while the other runs or is
  interrupted. With more than two threads in the client the failures of
  section 6 appear: there are then more blocked clients than slots.
- `life`: two server slots and one connection are the fewest in which a
  connection can be left over from a server whose slot is taken again. With two
  servers that send to each other, one that dies leaves both a message in a
  queue and a connection behind. All processes have started: with one in `Setup`
  the first `DestroyServer` panics (section 6). The other passing runs, in which no
  server goes, have processes that start on the way.
- `terminate`: three slots hold both threads of the client that dies and the
  message of the one that lives.
- `uvc`: a chunk of two payloads has a first and a last; with a message queue
  of two, notifications are lost; `MaxLeft` bounds the transfers that a host can
  leave by opening streams and never reading, which nothing in the streamer
  bounds.
- `ticktimer`: three threads give two in the heap with one at the alarm, two
  waiting for one condition with a third that notifies, and an owner of a mutex
  with two who want it. Four slots leave one for the interrupt's message, the
  least the code relies on. With times of 1 and 2 a wait times out before and
  after a sleep that began earlier, and two requests fall on the same
  millisecond.
- `webcam`: three transfers are the fewest with a first, a middle and a last;
  a counter that wraps at 4 is no multiple of three, as 2^32 is not, and so
  short that every picture meets the wrap. A second waiting interrupt message
  would find nothing done; that one message may be lost at any time, also when
  it is the only one. One restart is enough for "restarts are left" and
  "none is left", one picture for "the first session is over" and "not yet".
- `susres`: a stage without subscribers between two that have one makes the
  search skip; with one more event, timer or message than the bounds allow a
  subscriber would only be further behind. A second requester is needed for a
  request during a suspend. The reboot program is apart because it ends
  everything.

Kernel runs without fairness do not check deadlock: a server may keep a reply
for ever, and then the system rightly stops. `ticktimer` does not either: all
threads may wait for a condition nobody notifies. The others do check it.

## 4. Fairness

- `ServerQueue`: weak fairness of `TryReceiveMessage`. A server's main loop
  calls receive again and again; a message that stays available is taken.
- `Kernel`: the timer ticks (`WF` of `Interrupt`), its handler ends (`WF` of
  `finish_isr`) and asks for the scheduler, as `timer_tick` of
  `bao1x-hal-service` does at each tick (`SF` of `ReturnToParent`), and `kmain`
  gets to switch between two ticks (`SF` of `SwitchTo`: a tick takes far less
  than a quantum). Nothing is assumed of the processes: they may compute for
  ever without a call.
- `UvcStream`: the loop is a thread that is ready, and so it runs (what run
  `fair` shows of the kernel); the host reads transfers that are on the ring of
  a device it has addressed; it enumerates a device that is attached and not
  addressed. Nothing is assumed of lenders or other senders.
- `Ticktimer`: the loop runs, and time passes. An alarm that is due is taken at
  last (`SF` of `handle_irq`): the loop switches it off while it touches the heap
  and on again each time, which weak fairness would let it do for ever, but with
  the alarm on and due the processor takes the interrupt at once. A thread
  that has begun to lock or unlock a mutex finishes, and leaves its critical
  section; nobody need begin anything. A thread in a suspend
  comes back from it, done or timed out (`CallersReturn` of run `susres`), and
  goes on to the sleep that follows in every caller. The callback thread need
  never pass its event on.
- `Webcam`: the loop runs, a camera that delivers pixels fills the transfers
  that are queued, and a watchdog's thread wakes. `uvc_send_chunk` returns: that
  is `EveryLendIsAnswered` of run `uvc`. The watchdog's message is received even
  if others keep coming (`SF`), since the queue is first-in first-out
  (`ImplementsFifo` of run `queue`). Nobody need ask for anything, and a camera
  may fail to start each time.
- `Susres`: the service and its timeout thread run, and a subscriber that has
  reported goes on to the gate, and from the gate. Nothing makes a subscriber
  handle the event: that is what the timeout is for.

## 5. Proofs

All theorems hold for every value of the constants that satisfies the named
assumptions, not for the small instances of section 3. The argument has the same
shape everywhere: an inductive invariant, which a run was made to check before
it was proved; one lemma per operator of the model; one lemma per action, with a
step for each part of the invariant that the action can disturb; and then the
properties, which the invariant implies or, for action properties and
refinements, which hold of every step from a state of the invariant. Fairness
plays no part.

### One queue: `ServerProofs`, `ServerQueueProofs`

| Theorem | Statement |
|---|---|
| `TypeCorrect` | `Spec => []TypeOK` |
| `GenerationsCorrect` | `Spec => []GenerationsAgree`: the unread messages carry exactly the numbers from head to tail generation, each once, so `take_next_message` finds its message |
| `SleepersCorrect` | `Spec => []SleepersHaveNothingToRead`: no message is unread while a thread of the server sleeps |
| `NumbersSuffice` | `Spec => []NumbersOutlastSlots`: with at least two more numbers than slots, as in the code, the numbers never run out first |
| `TokensCorrect` | `Spec => TokensStay`: a step changes a token only by taking it |
| `QueueImplementsFifo` | `Spec => ImplementsFifo`: the queue is a first-in first-out channel that owes one reply per blocking message |

The only assumption is `ServerAssumption` in `Server`: at least one slot, at
least two generations, threads are natural numbers.

The argument. The inductive invariant `IInv` is the conjunction of `TypeOK`,
`GenerationsAgree` and `SleepersHaveNothingToRead`; none of the last two is
inductive alone. `SleepersHaveNothingToRead` is preserved by parking only if
a failed search means that nothing is unread, which needs `GenerationsAgree`:
the search is for one number and stops without a message if that number is
missing. `GenerationsAgree` itself is a bijection between unread slots and an
interval of wrapping numbers, in three parts (`UnreadNumbered`,
`UnreadDistinct`, `NoneMissing`), and the lemmas `AddKeepsAgreement` and
`TakeKeepsAgreement` say that appending at the tail and taking at the head
preserve it wherever the entry sits; `SameKeepsAgreement` covers the steps that
only change tokens or tags (`ResponseSame`, `TakeWaitingSame`, `DiscardSame`).
The facts about wrapping distances (`GenDistFacts`, `GenDistInjective`) and about
the search (`FirstFromFinds`) are stated once. `NumbersSuffice` follows by
counting: the numbers in use map one to one to slots. `TokensCorrect` is an
action property and needs only `TypeOK`, since both ways to fill a slot choose
an empty one.

For `QueueImplementsFifo` the mapping sends the `n`th message of the channel to
the slot whose number is `n - 1` after the head generation. `GenerationsAgree`
makes that a slot (`SlotOfFacts`), so adding an entry numbered with the tail
appends to the mapped sequence (`AddAppends`) and taking the head removes its
first (`TakeIsTail`), wherever the entries sit; a step that leaves the unread
entries alone leaves the sequence alone (`SameKeepsLetters`). One lemma per
operation says which step of the channel it is; parking and taking threads are
stutters (`ThreadsAreNotSeen`).

### The kernel: `KernelProofs`

| Theorem | Statement |
|---|---|
| `KernelInvariant` | `Spec => []KInv` |
| `KernelTypeCorrect` | `Spec => []KernelTypeOK`, the first part of `KernelSound` |
| `ConnectionsNeverDangle` | `Spec => []NoDanglingConnection` |
| `QueuesAreServerQueues` | `Spec => QueuesFollowServerQueue`: every call, interrupt and termination does to each queue a step of `ServerQueue` or none |
| `EveryQueueIsSound` | every server, in every state, keeps the generation protocol, and none of its threads sleeps while it has a message |
| `OneProcessRuns` | `Spec /\ []HasRoom => [](NoPanic => OneRunning)`, with one of the four conditions of the next |
| `KernelIsSound` | if `NoneMixes`, then `Spec /\ []HasRoom /\ [][ExitsAlone /\ SweepsStarted]_vars => []KernelSound` |

The theorems hold for any numbers of processes, threads, servers, slots and
connections, any set of calls for each process and for the interrupt handler.
Assumptions: `ServerAssumption`, `SchedulerAssumption` and `KernelAssumption`;
the last says that the constants have their types and that no server address is
the mark of an empty entry (`None` of an `Option<Server>` has no address).

`KInv` has four parts. `SchedOK`: a process that is Ready has a thread to run,
the kernel is never asleep, the current process is running unless the kernel has
panicked, and only while an interrupt is handled does the current process, and
no other, run thread 0. `ServersOK`: every queue, also that of an entry without
a server, is a record with `Agrees` and `SleepersIdle`, and only real threads
wait in it, never thread 0. `ConnsOK`: `NoDanglingConnection`, which is
inductive only together with the fact that a dead process has no connections
left: when a server goes, the kernel visits the maps of live processes only. `ThreadsOK`:
types. The parts need each other: a reply wakes the thread named in a token, so
that the scheduler stays sound only if tokens name real threads.

The scheduler's operators are nested calls in the code and here. What each does
to the process table is one of a few relations (`Ran`, `Stopped`, `Switched`,
all of them `Moves`: no process is freed, none begins to run thread 0, and none
but the stated ones begins to run), and relations compose (`MovesTransitive`).
An action's lemma names the relation its call of the scheduler satisfies, and
never expands the operators.

`HasRoom` says that a server with a sleeping thread has an empty slot. It is
necessary: without it `send_message` enters the server before `queue_response`
fails, and two processes are left running (section 6, a late full queue). It is
a condition on the run, not on a constant, because the kernel does not limit the
clients that wait. `NoPanic` is a condition in `OneProcessRuns` for the like
reason: `Server::destroy` may panic (run `dead_client`).

`KernelIsSound` rests on a second invariant, `PInv`, which is inductive together
with `KInv`. A thread that neither runs nor is ready has a seat: the slot of a
queue that holds its message or its token, the bench of the threads that wait
for a message of a server, or the desk of those that join another thread
(`At`). `PlacesOK` says that a live thread of a process that has started is
`Up`, running or ready, and has no seat, or is not and has exactly one, and
that every other thread is neither `Up` nor seated. Without the last part
`CreateThread` could give out a number that something still waits to wake.
`Sane` is the process table without panics: one process runs, its current
thread is not among its ready ones, one that sleeps has no ready thread, and
the kernel has its one thread. `ReturnOK` is the way back to the kernel:
`SWITCHTO_CALLER` is set exactly while a process has its turn, also while a
handler runs in that turn, and the thread a handler returns to is still ready.
`Yield` and `finish_callback_and_resume` unwrap these.
`QueuesOK` and `SetupOK` say that no entry is that of a dead client and that a
process that has not run has its first thread.

What a step does is stated twice and then matched. `Shifts` says which threads
an operation of the scheduler wakes and stops, `Reseats` which ones an operation
of a queue seats and unseats; each is proved once for every operator and
composes. `SeatsMove` concludes that every thread keeps one place when those
woken are those who got up and those stopped are those who sat down. The lemma
of an action names the two sets. An answer wakes whoever sits in the slot of the
token, and since a seated thread is not `Up`, `ready_thread` does not panic; a
thread that is parked was running, so that it was on no bench and the assertion
of `park_thread` holds. So `NoPanic` is not a hypothesis here but a result.

The four conditions say what the kernel leaves to its processes, and TLC gives
a violation of `KernelSound` within 15 steps when any of them is dropped:

- `HasRoom`, as above. It also excludes the lost thread of section 6:
  `RoomIsNotFull` proves that a queue with a sleeping thread and an empty slot is
  never full, because a server whose threads sleep has no numbered message left.
- `ExitsAlone`: when a process terminates, whoever waits for its servers is one
  of its own threads, and none of its threads waits for another's server
  (`Alone`). A dead server's clients are never woken (a hazard in
  `PROJECT.json`); a dead client makes `Server::destroy` panic, and
  `reply_and_receive_next` parks a thread that then goes on running. Run
  `terminate` checks `KernelSound` for clients that do die, with a server that
  uses neither call.
- `SweepsStarted`: when a server is destroyed, or a process that owns one
  terminates, no process is in `Setup`. The kernel enters the address space of
  every process to mark its connections, and `set_current_pid` panics on one that
  has not run (section 6).
- `NoneMixes`: no process both ends threads and calls `ReturnToParent` outside
  a handler. The latter leaves a pair to return to, as if an interrupt were
  handled; the calls that are refused then are those of `SysCall`, and returning
  to `EXIT_THREAD` is none. If that was the last ready thread, the kernel gets
  the processor with the pair set, its `SwitchTo` is refused as a call from an
  interrupt, and `kmain` panics.

For `QueuesAreServerQueues` the operators of the instance `Queue(i)` are copies
of those of `Server`; `InstanceSets`, `InstanceTests` and `InstanceUpdates` say
that they agree, and one lemma per kind of call which action of `ServerQueue` it
takes.

### The streamer: `UvcStreamProofs`

| Theorem | Statement |
|---|---|
| `StreamerInvariant` | `Spec => [](IInv /\ Lends)` |
| `ChunksAreUnderWay` | `Spec => []ChunkUnderWay` |
| `OnlyStaleIsDiscarded` | `Spec => []DiscardsOnlyStale` |
| `CleanStreamsStayClean` | `Spec => []CleanStreams` |

For any sources, any number of payloads in a chunk, any length of the message
queue and any number of leftover transfers (`UvcAssumption`). The interrupt
handler runs between any two steps of the loop, so the invariant has to say what
each place of the loop may rely on in the flags both of them write (`Control`):
from the test of `frame_active` to the copy nothing sets it, because only the
loop does, and `irq_req` is set only while the loop waits for the handler it has
called. `Carried` and `UnderWay` relate the flags to the transfers on the ring,
as long as the host can reach the device. A transfer that has failed is the
exception to both: nothing clears the flags it leaves. `ChunkUnderWay` is
therefore about streams in which none has failed (`failed # "now"`), which
`start_stream` makes true again, and `DiscardsOnlyStale` about devices on which
none has since the rings were cleared (`failed = "no"`), since
`discard_completion` outlasts the stream. `Clean` relates them for streams that
were not started over an earlier transfer; the loop's `reset_state` clears the
flags one by one, and the exceptions in `Clean` are exactly the steps in which
it has cleared some.

### The camera: `CaptureRingProofs`, `WebcamProofs`

`CaptureRingProofs` proves of `RingSpec`, for every set of modes with any number
of transfers and one to three slots, and for every wrap of the counter above
three:

| Theorem | Statement |
|---|---|
| `RingTypeCorrect` | `RingSpec => []RingTypeOK`: no picture queues more transfers than it has, and the channel never gets a third |
| `ChannelCorrect` | `RingSpec => []ChannelHoldsTheRest`: two bits of `dma_state` are enough to know what is done |
| `SlotsCorrect` | `RingSpec => []SlotsApart`: no slot is filled before it has been copied |
| `LossesCorrect` | `RingSpec => []LossesAreNoticed`: the overrun test misses only what is lost between the look and the feeding |

The assumption is `RingAssumption`: a picture of more than one transfer has at
least two slots. The inductive invariant adds to the properties how far the
loop is behind the camera (`Fed`: two transfers are outstanding while there are
more to queue, one between taking and feeding), that the transfer being copied
is the predecessor of the first outstanding one, also when that belongs to the
next picture (`CopiesTheOneBefore`, which is why `slot_counter` must be the
number after the picture's last), and that pixels are lost only with two
transfers done (`LostIsSeen`). `SlotsApart` is then a fact about neighbours: with two slots a
number and its successor differ, with three also the one after
(`NeighboursApart`, `SecondNeighbourApart`), in each case with the wrap between
them as the exception. The remainders need `RemainderIsUnique` and `SuccMod`,
since the prover does not divide by a constant it does not know.

`WebcamProofs` proves of the service around the ring, for any modes, any length
of the first session and any number of restarts:

| Theorem | Statement |
|---|---|
| `CameraInvariant` | `Spec => [](WInv /\ IInv)`, with `IInv` the invariant of the ring |
| `OneUser` | `Spec => []OneCameraUser` |
| `EverySessionIsWatched` | `Spec => []SessionIsWatched` |
| `CameraStaysOn` | `Spec => StaysOnWhileWanted` |
| `CameraImplementsRing` | `Spec => ImplementsRing` |
| `CameraKeepsSlotsApart` | `Spec => []SlotsApart`, from the theorem about the ring |

`WebcamAssumption` says that the host's modes are some of the modes and not
none, that a raw geometry counts as one of them, and that no watchdog is the
mark of "none". Of the invariant's parts, `WatchdogIsBehind` is what
`CameraStaysOn` needs: the watchdog of a session that has had a picture has seen
fewer than are counted now, so it matches no more. `FirstSessionEnds` bounds the
count with which the session after the first begins: pictures are counted up to
one above `FirstFrames`, all that the code compares the count with, and a
watchdog armed at that bound would match for ever. `LoopIsActive` ties the
control to the place of the ring's loop.
The refinement has the ring's variables unchanged: the mapping is the
identity, and every step of the control is a step of the ring or leaves it
alone.

### The suspend service: `SusresProofs`

For any subscribers in any number of stages and any requesters:

| Theorem | Statement |
|---|---|
| `SusresTypeCorrect` | `Spec => []SusresTypeOK`; in it, that the search for the next stage ends, in one somebody subscribed to (`FirstStageFinds`) |
| `OneSuspendCorrect` | `Spec => []OneSuspendAtATime` |
| `StagesCorrect` | `Spec => []HeldStageByStage` |

The assumption is `SusresAssumption`: there is a subscriber of the last stage,
as the code's comment requires. None of the properties is inductive: a late
message could undo each. The invariant therefore says of every message in the
queue what it tells of its sender now (`Sound`: a report is of a subscriber that
is held and not yet in `gated_pids`, a question whether the suspend was clean of
one that is not held, a call of a requester that waits in it and is not the one
that suspends), and in which order the messages of one sender can be (`Before`).
`StagesBefore` and `ReadyAreHeld` carry the stages, the first also that the
current one has a subscriber.

### The ticktimer: `TicktimerProofs`

For any threads, condition variables, mutexes, times and programs:

| Theorem | Statement |
|---|---|
| `TicktimerInvariant` | `Spec /\ []RoomForAlarm => []TickInv` |
| `NoAssertionFails` | `Spec /\ []RoomForAlarm => []AssertionsHold` |
| `TheAlarmIsSet` | `Spec /\ []RoomForAlarm => []AlarmIsSet` |
| `NobodyIsForgotten` | `Spec /\ []RoomForAlarm => []NobodyForgotten` |
| `MutexesExclude` | `Spec /\ []RoomForAlarm => []MutualExclusion` |
| `EveryWakeHasAReason` | `Spec /\ []RoomForAlarm => WokenForAReason` |
| `NoAlarmIsLost` | `EnoughSlots /\ Spec => []RoomForAlarm` |
| `TicktimerCorrect` | `EnoughSlots /\ Spec =>` all five properties |

`RoomForAlarm` says that the queue has a slot for `RecalculateSleep` when an
alarm goes off. It is necessary: `handle_irq` sends with `try_send_message` and
drops the error. A lost message leaves the alarm off and the sender in the list
of its condition, and a later notification answers whichever call has the sender
by then, a lock among them. `NoAlarmIsLost` says how many slots keep this from
happening: two for each thread that calls the service and one for each message
without a reply. The service has 128, which is 60 threads or so; how many
messages without a reply can wait is not limited by the code, and is a constant
here (`MaxPosted`). The bound is not tight: run `ticktimer` has four slots
where `EnoughSlots` asks for seven, and room at every alarm all the same. The other
assumption is `TicktimerAssumption`: times are positive, and `NONE` is none of
the values it is told from.

The invariant has four parts, which need each other:

- `MInv`, calls and messages. A sender belongs to one blocked thread, and each
  message that is to be answered is the one message of that thread. `AlarmFirst`
  is what makes the reuse of senders safe: the interrupt's message about a sender
  is ahead of the message of whoever has that sender now, so the tables are
  cleaned before the new call enters them.
- `AInv`, the alarm: `AlarmIsSet`, with the target that fits the request, and
  that a request at the alarm finds it off only while somebody is in a suspend,
  a sleep is on its way, or `left_off`.
- `TInv`, the tables. Every request, every entry of a list and every timeout
  belongs to one thread that waits for just that, or its `RecalculateSleep` is on
  its way (`RequestsOK`, `WaitersOK`, `TimeoutsOK`, `LockersOK`); every thread
  that is put away is in the table that will wake it (`FoundOK`). `FreedOK`: a
  condition is freed after everything that was there when it was dropped.
- `LInv`, the mutexes. A contended mutex is in exactly one place, with its owner,
  in an unlock on its way, or in `mutex_ready_table` (`OnePlace`), and it is owed
  only as long as somebody wants it (`WantedOK`): that is why the table, a set,
  never has to hold it twice.

One family of lemmas says what the methods of the timer do to the set of
requests (`StopSleepStops`, `StartSleepArms`, `OfflineAdds`: a request is moved
to a later millisecond until the key is free), one how lists change
(`AppendList`, `TailList`, `RetainList`), and one what an answer does to calls
(`AnsweredFacts`). `NoAlarmIsLost` counts: calls by their threads, messages
without a reply by their bound, and the interrupt's messages by their senders,
which differ and are among the lowest, because the kernel gives out the lowest
free one (`SenderIsLow`).

### Only model-checked

- Liveness: `EveryMessageIsReceived`, `EveryReadyThreadRuns`,
  `EveryLendIsAnswered`, `SleepersReturn`, `LockersGetIn`, `StreamGoesOn`,
  `SessionSettles`, `CameraGoesOff`, `CallersReturn`. It needs `ENABLED` and
  fairness, which are out of the prover's reach.
- `KernelSound` beyond the conditions of `KernelIsSound`: with clients that
  terminate while they wait, run `terminate` shows it for one server.
- `Ticktimer` when a `RecalculateSleep` is lost: see `RoomForAlarm` above.

## 6. Where the code does not do what its text says

The first three are runs in which TLC finds the counterexample.

- **A timer's process starves its own threads** (`starve`). `make_callback_to`
  overwrites `current_thread` of the handler's process with thread 0 and the
  line that restored it is commented out. After each tick the round robin of
  that process begins with its lowest thread. The comment at `services.rs:877`
  says that `current_thread` is there to avoid starving threads.
- **The message of a dead client** (`dead_client`). `Server::destroy` answers
  messages of processes that have terminated as if they were there and unwraps
  the error. `server.rs:311` says that nothing can go wrong from there on.
- **A stream over a leftover transfer** (`uvc_overlap`). `start_stream` clears
  `in_flight` while a transfer of the last stream is on the ring. Two transfers
  are then outstanding for the rest of the stream, a chunk is declared done
  while its last payload is still to be sent, and the next chunk is copied over
  it. `uvc.rs:371` says that the staging buffer must not be touched while
  `frame_active`, and `uvc.rs:527` expects that at worst one payload is sent
  twice. `CleanStreams`, in run `uvc`, shows that this is the only way in which
  a payload is overwritten.

Met while modelling, and not run:

- **A late full queue.** A blocking scalar to a sleeping server is checked only
  for generations. If all slots hold tokens, `queue_response` fails after the
  server has been entered: both processes are left running and nothing is
  retried, though `syscall.rs:176` says that a late `ServerQueueFull` retries
  the call. `MCKernel` keeps fewer blocked clients than slots.
- **A lost thread.** The test in `send_message` returns `ServerQueueFull` after
  a sleeping thread has been taken, without giving it back. `syscall.rs:136`
  calls erring towards full cheap since the call is retried; each retry takes
  one more thread.
- **ReturnToParent outside a handler.** Any thread may call it. The pair it
  leaves makes the kernel refuse most calls as if an interrupt were handled
  until the next one ends; a thread that exits meanwhile can take the kernel
  down (section 5, `NoneMixes`).
- **A server that goes early.** `services.rs:1907` says that `destroy_server`
  disconnects any processes that are connected. The sweep at
  `services.rs:1933-1935`, and the one at 2223-2227 when a process that owns a
  server terminates, enters the address space of every process that is not free,
  and for one that has not run yet `set_current_pid` panics
  (`arch/riscv/process.rs:606-616`). `SweepsStarted` states the condition.
- **A transfer that fails.** For any completion code but `Success` and
  `ShortPacket` the driver takes the transfer off the ring and calls nobody
  (`driver.rs:3027-3031`). `in_flight`, `frame_active` and `discard_completion`
  stay as they were: the chunk is never declared done and its lender waits until
  the host starts or stops a stream or resets the device. If it was the stale
  transfer, the next good completion is discarded in its place.
- **Sleep for at least.** `xous-api-ticktimer/src/lib.rs:47` promises at least
  the time asked for. When a process ends while its sleep request waits in the
  heap, the request stays, and its alarm answers whichever call has the sender
  by then.
- **The alarm after a resume.** A comment in `XousTickTimer::suspend` says that
  resume gets the value the alarm had; without the feature `susres` nothing
  restores it. Sleepers go on only because every caller of `initiate_suspend`
  sleeps afterwards, which sets the alarm. A suspend that times out returns to
  its caller while the event for the ticktimer may still be on its way; if the
  caller's sleep is served first, `suspend` then switches its alarm off, and all
  sleepers, the caller too, wait until some other request sets it. `AlarmIsSet`
  and `SleepersReturn` except that case, and no other (`left_off`).
- **A timeout of the suspend before.** The timeout thread looks at the time
  before the flag, and one flag serves all suspends: a suspend may be ended by
  the timer of the one before, sooner than `timeout` says. It ends as after any
  timeout (`CallersReturn`).
- **A suspend that waits for nobody.** A report of the last stage that comes late,
  after its suspend has timed out, counts in the next one. If that next suspend
  then gets through the earlier stages, all are ready without a report that
  would make the service look, and only its timeout ends it.
- **A message after RebootRequest.** Any message but the confirmation is dropped
  and calls the reboot off; a caller that blocks in it is never answered, which
  is why `CallersReturn` supposes that no reboot is announced.
- **A lost CamIrq.** The interrupt handler of `bao-video` sends with
  `try_send_message(..).ok()` (`main.rs:194-198`). The queue is that of the whole
  service, so it may be full of drawing requests without a `CamIrq` among them.
  The loop feeds the channel only when it is told of a transfer: if the one lost
  is the last to come, the stream stands still, or the camera stays on after the
  scanner is done, until the camera is next asked for. `StreamGoesOn` and
  `CameraGoesOff` except that case (`missed`); `SessionSettles` holds without the
  exception, since the watchdog does not depend on `CamIrq`.
- **A ring of one slot.** `main.rs:526-527` says that slots are only re-queued
  after their previous contents were copied out. `webcam_raw_mode` (783-830)
  admits geometries with one slot and several transfers, for example 100 by 400
  at ratio 2 with a padding of 200; the next transfer is then queued into the
  slot before it is copied. `RingAssumption` excludes them, and is what `SlotsApart`
  needs.
- **The last interrupt line.** `interrupt_free` compares with `>` where
  `interrupt_claim` has `>=` (`irq.rs:96`): the first number that does not exist
  is refused by one and indexes past the table in the other.
- **A raw geometry as mode 0.** The comment at `bao-video/src/main.rs:1713` is
  about raw geometries the size of a host mode; one of any other size counts as
  mode 0, and a host that opens mode 0 is served pictures of that size.

## 7. What is left out

Out of the models that exist:

- `Server`: the contents of messages, and the `BadAddress` a reply gets when it
  names a buffer other than the one that was lent.
- `Scheduler` and `Kernel`: the debugger and exception states; `CreateProcess`
  and with it the reuse of process numbers; `WaitEvent`, `ConnectForProcess`
  and limits; a reply with the call of the wrong kind; the pages behind memory
  messages (a transfer that fails restores the thread and changes nothing
  here). There is one interrupt line with one handler. `Idle` is a step only when
  it changes where the round robin starts.
- `UvcStream`: PROBE's negotiation of a mode, descriptors, debug counters and
  register dumps, none of which touch the streamer's state. The handler finds
  the hardware lock free: the loop takes it with interrupts off, except in
  `force_reset`, which takes it just before it switches them off
  (`driver.rs:2906-2914`). The last store of an unplug, to `address_is_set`, which
  only gates reads of OUT endpoints (`driver.rs:2715`). There is one source,
  as in the system: with a second one, a parked lend can be overtaken again and
  again and `EveryLendIsAnswered` fails.
- `CaptureRing` and `Webcam`: contents of a picture; exposure, white balance and
  preview, which add time but no state; a raw geometry with a ring of one slot
  and several transfers (`RingAssumption`); a watchdog's message that is lost
  because the queue is full (a lost `CamIrq` is modelled). `WebcamControl` notifications that the USB service
  loses are not lost here: a loss is a host that has not asked.
- `Ticktimer`: processes that end; the milliseconds themselves, with the two
  reads of a 64-bit counter; the watchdog, `GetVersion` and the random delay.
- `Susres`: `SuspendEventSubscribe`, since subscribers are there before the first
  suspend; `PowerOff` and `RebootVector`, which are not implemented and end in a panic of the
  service (`susres.rs:132`, 381-391); what the
  clock requests do to the clocks.

Not modelled: the memory manager and swap (planned); the hosted and ARM
kernels; `xous-names` (planned); drawing and decoding in `bao-video`; the other
functions of the USB service; consoles, storage, network, logging, the loader,
libraries and tools, which are sequential or inherited from upstream without
change. Most of the repository's lines are generated register definitions, font
tables, vendored crates and applications: there is no behaviour in them that a
model of this kind could show anything about. `PROJECT.json` gives the reason
for each part.

## 8. Plan

Done: the queue with its abstract specification; the scheduler and the system
calls that pass messages; the USB streamer; the camera service with its ring;
the ticktimer; the suspend service; and proofs about all of them.

Next, in this order:

1. `Memory`: ownership of pages through lend, move, return and termination, with
   an abstract specification of one owner per page, composed with `ServerQueue`.
2. In `Kernel`: several interrupt lines with their masks, `CreateProcess` and
   number reuse, `WaitEvent`, replies of the wrong kind.
3. `xous-names` (blocked lookups).
4. Processes that end, in `Ticktimer`.

Worth proving next: `KernelSound` when clients may die and no server uses
`DestroyServer` or `ReplyAndReceiveNext`, for which the seats of dead threads
have to be told from those of live ones.
