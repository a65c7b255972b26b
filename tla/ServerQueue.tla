---------------------------- MODULE ServerQueue -----------------------------
(***************************************************************************)
(* One server as its owner and its clients drive it.  The kernel runs one  *)
(* system call at a time, so each action is what one call does to the      *)
(* server: sending, receiving, replying, or both, and the termination of a *)
(* client.  Which thread runs is left open here; the scheduler is in       *)
(* module Kernel, and every step it takes on a server is a step of this    *)
(* module.                                                                 *)
(***************************************************************************)
EXTENDS Server, Sequences

VARIABLE server

(***************************************************************************)
(* send_message.  A thread that sleeps in ReceiveMessage is taken first;   *)
(* only a message that finds none is queued.                               *)
(***************************************************************************)
\* Mutant: queues the message without looking for a waiting thread.
EnqueueAlways(m) ==
    /\ CanDeliver(server, m)
    /\ EmptySlots(server) # {}
    /\ server' = queue_message(server, m)

\* The message goes into the queue.
Enqueue(m) ==
    /\ server.ready_threads = {}
    /\ CanDeliver(server, m)
    /\ EmptySlots(server) # {}
    /\ server' = queue_message(server, m)

\* The message goes straight to a waiting thread.  A blocking one leaves a
\* token for the reply.
HandOff(m) ==
    /\ server.ready_threads # {}
    /\ CanDeliver(server, m)
    /\ Blocking(m) => EmptySlots(server) # {}
    /\ server' = LET s == take_available_thread(server)
                 IN  IF Blocking(m) THEN queue_response(s, m) ELSE s

\* A waiting thread was taken, and the test says no: ServerQueueFull is
\* returned at once and the thread is not given back.
DropThread(m) ==
    /\ server.ready_threads # {}
    /\ ~CanDeliver(server, m)
    /\ server' = take_available_thread(server)

SendMessage(m) == Enqueue(m) \/ HandOff(m) \/ DropThread(m)

(***************************************************************************)
(* receive_message, return_memory and return_result, and                   *)
(* reply_and_receive_next, by thread t of the server.  A thread that is    *)
(* asleep in ready_threads makes no calls.                                 *)
(***************************************************************************)
ReceiveMessage(t) ==
    /\ t \notin server.ready_threads
    /\ server' = ReceiveNext(server, t)

TryReceiveMessage ==
    /\ HasNextMessage(server)
    /\ server' = take_next_message(server)

\* A call that names a slot without a token is an error and changes nothing.
Reply(i) ==
    /\ IsWaiting(server, i)
    /\ server' = take_waiting_message(server, i)

\* The next message is taken, or the thread parked, before the call looks at
\* what it found in slot i, and also when it found nothing.
ReplyAndReceiveNext(t, i) ==
    /\ t \notin server.ready_threads
    /\ server' = ReceiveNext(IF IsWaiting(server, i) THEN take_waiting_message(server, i)
                                                    ELSE server, t)

(***************************************************************************)
(* The process pid terminates.                                             *)
(***************************************************************************)
TerminateClient(pid) == server' = discard_messages_for_pid(server, pid)

Init == server = init

Next ==
    \/ \E m \in Message : SendMessage(m)
    \/ \E t \in Tids : ReceiveMessage(t)
    \/ TryReceiveMessage
    \/ \E i \in Slots : Reply(i)
    \/ \E t \in Tids, i \in Slots : ReplyAndReceiveNext(t, i)
    \/ \E pid \in Pids : TerminateClient(pid)

\* A server loops on ReceiveMessage: a message that waits is taken.
Fairness == WF_server(TryReceiveMessage)

Spec     == Init /\ [][Next]_server
FairSpec == Spec /\ Fairness

-----------------------------------------------------------------------------
(***************************************************************************)
(* Properties.                                                             *)
(***************************************************************************)
\* The indices and numbers of the server stay within their ranges: the slot
\* indices wrap at the end of the page, the generations as a u8 does.
TypeOK == server \in ServerRecord

\* The generation protocol of server.rs: the unread messages carry exactly the
\* numbers from head_generation up to tail_generation, each of them once.  So
\* take_next_message never runs round the queue without finding its message.
GenerationsAgree == Agrees(server)

\* While a thread of the server sleeps in ReceiveMessage no message is unread:
\* send_message hands a message to a sleeping thread before it would queue it.
SleepersHaveNothingToRead == SleepersIdle(server)

\* Full and empty cannot be confused: with more numbers than slots, the last
\* number is never given out, so only a lack of slots makes a queue full.
NumbersOutlastSlots == NumSlots < Generations - 1 => ~GenerationsFull(server)

\* What a step may do to a token: nothing, or take it for the reply.
Taken(i) == Reply(i) \/ \E t \in Tids : ReplyAndReceiveNext(t, i)
TokenStep ==
    \A i \in Slots :
        is_in_server(server.queue[i])
            => server'.queue[i] = server.queue[i] \/ Taken(i)

\* A reply that is owed stays in its slot, unchanged, until it is taken: no
\* message or other token is ever put over it, whatever the queue indices do.
TokensStay == [][TokenStep]_server

\* A message that is queued is received in the end, even while others keep
\* sending and the server's indices keep going round.
EveryMessageIsReceived ==
    \A i \in Slots : IsUnread(server.queue[i]) ~> ~IsUnread(server.queue[i])

(***************************************************************************)
(* What the queue implements.                                              *)
(***************************************************************************)
ReplyOf(e) ==
    CASE e.tag \in {"BlockingScalarMessage", "WaitingReturnScalar"} -> "Scalar"
      [] e.tag \in {"MemoryMessageROLend", "MemoryMessageROLendTerminated",
                    "MemoryMessageRWLend", "MemoryMessageRWLendTerminated",
                    "WaitingReturnMemory"} -> "Memory"
      [] OTHER -> "None"

LetterOf(e) ==
    [sender |-> <<e.pid, e.tid>>, payload |-> e.payload, reply |-> ReplyOf(e)]

\* The unread messages in the order of their numbers.
UnreadLetters ==
    [n \in 1 .. Pending(server) |->
        LetterOf(server.queue[CHOOSE i \in Unread(server) :
            GenDist(server.head_generation, server.queue[i].idx) = n - 1])]

OwedReplies ==
    [i \in {j \in Slots : is_in_server(server.queue[j])} |-> LetterOf(server.queue[i])]

Fifo == INSTANCE MessageFifo WITH
            Senders <- Pids \X Tids, Tokens <- Slots,
            unread <- UnreadLetters, owed <- OwedReplies

\* The queue of server.rs implements a first-in first-out channel with one
\* reply owed per blocking message, wherever in the page its entries sit.
ImplementsFifo == Fifo!Spec
=============================================================================
