------------------------------- MODULE Server -------------------------------
(***************************************************************************)
(* The message queue of a Xous server: `struct Server` and its methods, in *)
(* kernel/src/server.rs, as operators on a server record.  The queue is    *)
(* one page cut into slots.  A slot holds a message nobody has received    *)
(* yet, or a token for a reply the server owes, or nothing.  Messages are  *)
(* numbered by a wrapping u8, their generation, and are received in the    *)
(* order of their numbers wherever they sit; queue_head and queue_tail     *)
(* only say where the search for a slot starts.                            *)
(*                                                                         *)
(* The data of a message (opcode, arguments, buffer address and size) is   *)
(* one value, its payload.                                                 *)
(***************************************************************************)
EXTENDS Platform, Integers, FiniteSets

CONSTANTS
    NumSlots,     \* queue.len(): 128 on the 32-bit targets
    Generations,  \* the generations are a u8: 256 values
    Payloads      \* what a message carries

ASSUME ServerAssumption ==
    /\ NumSlots \in Nat \ {0}
    /\ Generations \in Nat \ {0, 1}
    /\ Tids \subseteq Nat

Slots == 0 .. NumSlots - 1
GenNumbers == 0 .. Generations - 1

(***************************************************************************)
(* Messages, and the slots of a queue.                                     *)
(***************************************************************************)
ScalarKinds   == {"Scalar", "BlockingScalar"}
MemoryKinds   == {"Move", "Borrow", "MutableBorrow"}
BlockingKinds == {"BlockingScalar", "Borrow", "MutableBorrow"}
Kinds         == ScalarKinds \cup MemoryKinds

Message == [kind : Kinds, pid : Pids, tid : Tids, payload : Payloads]

QueuedTags ==
    {"ScalarMessage", "BlockingScalarMessage", "MemoryMessageSend",
     "MemoryMessageROLend", "MemoryMessageRWLend"}
TerminatedTags ==
    {"BlockingScalarTerminated", "MemoryMessageROLendTerminated",
     "MemoryMessageRWLendTerminated"}
UnreadTags  == QueuedTags \cup TerminatedTags
WaitingTags == {"WaitingReturnScalar", "WaitingReturnMemory", "WaitingForget"}

QueuedMessage ==
    [tag : UnreadTags \cup WaitingTags, pid : Pids, tid : Tids,
     idx : GenNumbers, payload : Payloads]
Empty == [tag |-> "Empty"]

IsEmpty(e)      == e.tag = "Empty"
IsUnread(e)     == e.tag \in UnreadTags
is_in_server(e) == e.tag \in WaitingTags

ServerRecord ==
    [queue : [Slots -> QueuedMessage \cup {Empty}],
     queue_head : Slots, queue_tail : Slots,
     head_generation : GenNumbers, tail_generation : GenNumbers,
     ready_threads : SUBSET Tids]

init ==
    [queue |-> [i \in Slots |-> Empty],
     queue_head |-> 0, queue_tail |-> 0,
     head_generation |-> 0, tail_generation |-> 0,
     ready_threads |-> {}]

(***************************************************************************)
(* Arithmetic of the ring and of the generations.                          *)
(***************************************************************************)
\* Mutant: wraps one slot too late.
NextSlotLate(i) == IF i + 1 > NumSlots THEN 0 ELSE i + 1
NextSlot(i) == IF i + 1 >= NumSlots THEN 0 ELSE i + 1
NextGen(g)  == IF g + 1 = Generations THEN 0 ELSE g + 1
PrevGen(g)  == IF g = 0 THEN Generations - 1 ELSE g - 1

\* How far after generation a generation b comes, and after slot i slot j.
GenDist(a, b)  == IF b >= a THEN b - a ELSE b - a + Generations
SlotDist(i, j) == IF j >= i THEN j - i ELSE j - i + NumSlots

\* The slot of S a search finds that starts at slot i and goes round the ring.
FirstFrom(i, S) == CHOOSE j \in S : \A k \in S : SlotDist(i, j) <= SlotDist(i, k)

\* Mutant: takes a slot that holds a token for a free one.
EmptySlotsAndTokens(s) == {i \in Slots : ~IsUnread(s.queue[i])}
EmptySlots(s) == {i \in Slots : IsEmpty(s.queue[i])}

(***************************************************************************)
(* Adding a message.                                                       *)
(***************************************************************************)
GenerationsFull(s) == s.tail_generation = PrevGen(s.head_generation)

has_queue_capacity(s)        == ~GenerationsFull(s) /\ EmptySlots(s) # {}
has_queue_capacity_scalar(s) == ~GenerationsFull(s)

QueuedTag(kind) ==
    CASE kind = "Scalar"         -> "ScalarMessage"
      [] kind = "BlockingScalar" -> "BlockingScalarMessage"
      [] kind = "Move"           -> "MemoryMessageSend"
      [] kind = "Borrow"         -> "MemoryMessageROLend"
      [] kind = "MutableBorrow"  -> "MemoryMessageRWLend"

\* A slot filled by a search that starts at queue_head pushes queue_head on.
FillSlot(s, i, e) ==
    [s EXCEPT !.queue[i] = e,
              !.queue_head = IF i = s.queue_head THEN NextSlot(i) ELSE @]

\* ServerQueueFull unless has_queue_capacity(s).
queue_message(s, m) ==
    LET i == FirstFrom(s.queue_head, EmptySlots(s))
        e == [tag |-> QueuedTag(m.kind), pid |-> m.pid, tid |-> m.tid,
              idx |-> s.tail_generation, payload |-> m.payload]
    IN  [FillSlot(s, i, e) EXCEPT !.tail_generation = NextGen(@)]

\* The token for the reply to a message that is handed to a waiting thread
\* and never queued.
ResponseTag(kind) ==
    CASE kind \in ScalarKinds               -> "WaitingReturnScalar"
      [] kind = "Move"                      -> "WaitingForget"
      [] kind \in {"Borrow", "MutableBorrow"} -> "WaitingReturnMemory"

\* ServerQueueFull unless EmptySlots(s) # {}.
ResponseSlot(s) == FirstFrom(s.queue_head, EmptySlots(s))
queue_response(s, m) ==
    FillSlot(s, ResponseSlot(s),
             [tag |-> ResponseTag(m.kind), pid |-> m.pid, tid |-> m.tid,
              idx |-> 0, payload |-> m.payload])

(***************************************************************************)
(* Receiving a message, and replying to it.                                *)
(***************************************************************************)
\* What a slot becomes when its message is received.  The lends of a process
\* that has terminated leave the same token as the others; its blocking
\* scalars are received as plain scalars.
\* Mutant: the lends of a process that has terminated leave no token.
ForgetTerminated(e) ==
    CASE e.tag = "BlockingScalarMessage" -> [e EXCEPT !.tag = "WaitingReturnScalar"]
      [] e.tag \in {"MemoryMessageROLend", "MemoryMessageRWLend"}
           -> [e EXCEPT !.tag = "WaitingReturnMemory"]
      [] OTHER -> Empty
AfterReceive(e) ==
    CASE e.tag = "BlockingScalarMessage" -> [e EXCEPT !.tag = "WaitingReturnScalar"]
      [] e.tag \in {"MemoryMessageROLend", "MemoryMessageRWLend",
                    "MemoryMessageROLendTerminated", "MemoryMessageRWLendTerminated"}
           -> [e EXCEPT !.tag = "WaitingReturnMemory"]
      [] OTHER -> Empty

\* Mutant: does not look before queue_tail.
MessageSlotsAhead(s) ==
    {i \in Slots : /\ i >= s.queue_tail
                   /\ IsUnread(s.queue[i]) /\ s.queue[i].idx = s.head_generation}
NextMessageSlots(s) ==
    {i \in Slots : IsUnread(s.queue[i]) /\ s.queue[i].idx = s.head_generation}

\* None if this is FALSE.
HasNextMessage(s) ==
    s.tail_generation # s.head_generation /\ NextMessageSlots(s) # {}

NextMessageSlot(s) == FirstFrom(s.queue_tail, NextMessageSlots(s))

\* Mutant: the early return for messages without a reply does not count up.
TakeNextUncounted(s) ==
    LET i == NextMessageSlot(s)
    IN  [s EXCEPT !.queue[i] = AfterReceive(@),
                  !.queue_tail = IF i = @ THEN NextSlot(i) ELSE @,
                  !.head_generation = IF IsEmpty(AfterReceive(s.queue[i])) THEN @ ELSE NextGen(@)]
take_next_message(s) ==
    LET i == NextMessageSlot(s)
    IN  [s EXCEPT !.queue[i] = AfterReceive(@),
                  !.queue_tail = IF i = @ THEN NextSlot(i) ELSE @,
                  !.head_generation = NextGen(@)]

\* The token in slot i is taken; queue_tail moves past it, and past the empty
\* slots after it but not past queue_head.
IsWaiting(s, i) == i \in Slots /\ is_in_server(s.queue[i])
take_waiting_message(s, i) ==
    LET queue == [s.queue EXCEPT ![i] = Empty]
        stop  == {s.queue_head} \cup {j \in Slots : ~IsEmpty(queue[j])}
    IN  [s EXCEPT !.queue = queue,
                  !.queue_tail = IF i = @ THEN FirstFrom(NextSlot(i), stop) ELSE @]

(***************************************************************************)
(* Termination of a client, and of the server.                             *)
(***************************************************************************)
\* Mutant: drops the blocking scalars of a process that has terminated.
TerminatedDropped(e) == IF e.tag = "BlockingScalarMessage" THEN Empty ELSE e
Terminated(e) ==
    CASE e.tag = "MemoryMessageROLend"   -> [e EXCEPT !.tag = "MemoryMessageROLendTerminated"]
      [] e.tag = "MemoryMessageRWLend"   -> [e EXCEPT !.tag = "MemoryMessageRWLendTerminated"]
      [] e.tag = "BlockingScalarMessage" -> [e EXCEPT !.tag = "BlockingScalarTerminated"]
      [] OTHER -> e

discard_messages_for_pid(s, pid) ==
    [s EXCEPT !.queue = [i \in Slots |->
        IF ~IsEmpty(s.queue[i]) /\ s.queue[i].pid = pid
        THEN Terminated(s.queue[i]) ELSE s.queue[i]]]

\* `destroy` refuses while the server owes a reply.
CanDestroy(s) == \A i \in Slots : ~is_in_server(s.queue[i])

(***************************************************************************)
(* The server's threads that sleep in ReceiveMessage.                      *)
(***************************************************************************)
AvailableThread(s) == CHOOSE t \in s.ready_threads : \A u \in s.ready_threads : t <= u
take_available_thread(s) ==
    [s EXCEPT !.ready_threads = IF @ = {} THEN {} ELSE @ \ {AvailableThread(s)}]
return_available_thread(s, tid) == [s EXCEPT !.ready_threads = @ \cup {tid}]
park_thread(s, tid)             == [s EXCEPT !.ready_threads = @ \cup {tid}]

(***************************************************************************)
(* How the system calls use a queue: the test send_message makes before    *)
(* memory changes hands, and what receive_message does for thread t.       *)
(***************************************************************************)
HasMemory(m) == m.kind \in MemoryKinds
Blocking(m)  == m.kind \in BlockingKinds

\* The test made before memory changes hands: `can_deliver`.
CanDeliver(s, m) ==
    LET needs_slot == s.ready_threads = {} \/ Blocking(m)
    IN  needs_slot => IF HasMemory(m) THEN has_queue_capacity(s)
                                      ELSE has_queue_capacity_scalar(s)

ReceiveNext(s, t) ==
    IF HasNextMessage(s) THEN take_next_message(s) ELSE park_thread(s, t)

(***************************************************************************)
(* What a queue is checked for.                                            *)
(***************************************************************************)
Unread(s)  == {i \in Slots : IsUnread(s.queue[i])}
Pending(s) == GenDist(s.head_generation, s.tail_generation)

\* The number of an unread message lies between head_generation, the next
\* one to receive, and tail_generation, the next one to give out.
UnreadNumbered(s) ==
    \A i \in Unread(s) : GenDist(s.head_generation, s.queue[i].idx) < Pending(s)

\* No two unread messages have the same number, though numbers wrap.
UnreadDistinct(s) ==
    \A i, j \in Unread(s) : s.queue[i].idx = s.queue[j].idx => i = j

\* No number between head_generation and tail_generation is missing.
NoneMissing(s) ==
    \A g \in GenNumbers :
        GenDist(s.head_generation, g) < Pending(s)
            => \E i \in Unread(s) : s.queue[i].idx = g

Agrees(s) == UnreadNumbered(s) /\ UnreadDistinct(s) /\ NoneMissing(s)

SleepersIdle(s) == s.ready_threads # {} => Unread(s) = {}
=============================================================================
