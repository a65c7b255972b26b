------------------------- MODULE ServerQueueProofs --------------------------
(***************************************************************************)
(* Proofs about ServerQueue, for any number of slots and of generations,   *)
(* any clients and any threads.                                            *)
(***************************************************************************)
EXTENDS ServerQueue, ServerProofs, SequenceTheorems

-----------------------------------------------------------------------------
(***************************************************************************)
(* Type correctness.                                                       *)
(***************************************************************************)
LEMMA TypeStep == TypeOK /\ [Next]_server => TypeOK'
<1> SUFFICES ASSUME TypeOK, [Next]_server PROVE TypeOK'
  OBVIOUS
<1> USE DEF TypeOK
<1>1. ASSUME NEW m \in Message, Enqueue(m) PROVE TypeOK'
  BY <1>1, QueueMessageType DEF Enqueue
<1>2. ASSUME NEW m \in Message, HandOff(m) PROVE TypeOK'
  <2> DEFINE s == take_available_thread(server)
  <2>1. s \in ServerRecord
    BY DEF take_available_thread, ServerRecord
  <2>2. EmptySlots(s) = EmptySlots(server)
    BY DEF take_available_thread, EmptySlots, ServerRecord
  <2>3. server' = IF Blocking(m) THEN queue_response(s, m) ELSE s
    BY <1>2 DEF HandOff
  <2>4. Blocking(m) => EmptySlots(s) # {}
    BY <1>2, <2>2 DEF HandOff
  <2> HIDE DEF s
  <2> QED BY <2>1, <2>3, <2>4, QueueResponseType
<1>3. ASSUME NEW m \in Message, DropThread(m) PROVE TypeOK'
  BY <1>3 DEF DropThread, take_available_thread, ServerRecord
<1>4. ASSUME NEW t \in Tids, ReceiveMessage(t) PROVE TypeOK'
  BY <1>4, ReceiveNextType DEF ReceiveMessage
<1>5. CASE TryReceiveMessage
  BY <1>5, TakeNextType DEF TryReceiveMessage
<1>6. ASSUME NEW i \in Slots, Reply(i) PROVE TypeOK'
  BY <1>6, TakeWaitingType DEF Reply
<1>7. ASSUME NEW t \in Tids, NEW i \in Slots, ReplyAndReceiveNext(t, i) PROVE TypeOK'
  BY <1>7, TakeWaitingType, ReceiveNextType DEF ReplyAndReceiveNext
<1>8. ASSUME NEW pid \in Pids, TerminateClient(pid) PROVE TypeOK'
  BY <1>8, DiscardType DEF TerminateClient
<1>9. CASE UNCHANGED server
  BY <1>9
<1> QED BY <1>1, <1>2, <1>3, <1>4, <1>5, <1>6, <1>7, <1>8, <1>9 DEF Next, SendMessage

\* The indices, generations and entries of a server (server.rs) stay within
\* their ranges, whatever the sizes of the queue and of the generation counter.
THEOREM TypeCorrect == Spec => []TypeOK
<1>1. Init => TypeOK
  BY WrapType DEF Init, init, TypeOK, ServerRecord
<1> QED BY <1>1, TypeStep, PTL DEF Spec

-----------------------------------------------------------------------------
(***************************************************************************)
(* The generation protocol.                                                *)
(***************************************************************************)
LEMMA EnqueueGood ==
    ASSUME TypeOK, Good(server), NEW m \in Message, Enqueue(m)
    PROVE  Good(server')
BY QueueMessageGood DEF TypeOK, Enqueue

LEMMA HandOffGood ==
    ASSUME TypeOK, Good(server), NEW m \in Message, HandOff(m)
    PROVE  Good(server')
<1> DEFINE s == take_available_thread(server)
<1>1. /\ s \in ServerRecord /\ Good(s) /\ EmptySlots(s) = EmptySlots(server)
      /\ Unread(s) = {}
  BY TakeThreadGood DEF TypeOK, HandOff
<1>2. server' = IF Blocking(m) THEN queue_response(s, m) ELSE s
  BY DEF HandOff
<1>3. Blocking(m) => EmptySlots(s) # {}
  BY <1>1 DEF HandOff
<1> HIDE DEF s
<1> QED BY <1>1, <1>2, <1>3, QueueResponseGood

\* The inductive invariant.  SleepersHaveNothingToRead needs GenerationsAgree:
\* that a thread parks only when nothing is unread is true because the number
\* take_next_message looks for is there whenever any message is.
IInv == TypeOK /\ GenerationsAgree /\ SleepersHaveNothingToRead

LEMMA InductiveStep == IInv /\ [Next]_server => IInv'
<1> SUFFICES ASSUME IInv, [Next]_server PROVE IInv'
  OBVIOUS
<1> USE DEF GenerationsAgree, SleepersHaveNothingToRead
<1>1. TypeOK /\ TypeOK' /\ server \in ServerRecord /\ Good(server)
  BY TypeStep DEF IInv, Good, TypeOK
<1>2. SUFFICES Good(server')
  BY <1>1 DEF IInv, Good
<1>3. ASSUME NEW m \in Message, SendMessage(m) PROVE Good(server')
  <2>1. CASE Enqueue(m)
    BY <1>1, <2>1, EnqueueGood
  <2>2. CASE HandOff(m)
    BY <1>1, <2>2, HandOffGood
  <2>3. CASE DropThread(m)
    <3>1. SameUnread(server, server') /\ Unread(server) = {}
      BY <1>1, <2>3, ThreadsSame DEF DropThread, Good, SleepersIdle
    <3> QED BY <1>1, <3>1, SameKeepsAgreement DEF Good, SleepersIdle, SameUnread
  <2> QED BY <1>3, <2>1, <2>2, <2>3 DEF SendMessage
<1>4. ASSUME NEW t \in Tids, ReceiveMessage(t) PROVE Good(server')
  BY <1>1, <1>4, ReceiveNextGood DEF ReceiveMessage
<1>5. CASE TryReceiveMessage
  BY <1>1, <1>5, TakeNextGood DEF TryReceiveMessage
<1>6. ASSUME NEW i \in Slots, IsWaiting(server, i)
      PROVE  Good(take_waiting_message(server, i))
  BY <1>1, <1>6, TakeWaitingSame, SameKeepsAgreement DEF Good, SleepersIdle, SameUnread
<1>7. ASSUME NEW i \in Slots, Reply(i) PROVE Good(server')
  BY <1>6, <1>7 DEF Reply
<1>8. ASSUME NEW t \in Tids, NEW i \in Slots, ReplyAndReceiveNext(t, i)
      PROVE  Good(server')
  <2> DEFINE s == IF IsWaiting(server, i) THEN take_waiting_message(server, i) ELSE server
  <2>1. s \in ServerRecord /\ Good(s)
    BY <1>1, <1>6, TakeWaitingType
  <2>2. server' = ReceiveNext(s, t)
    BY <1>8 DEF ReplyAndReceiveNext
  <2> HIDE DEF s
  <2> QED BY <2>1, <2>2, ReceiveNextGood
<1>9. ASSUME NEW pid \in Pids, TerminateClient(pid) PROVE Good(server')
  BY <1>1, <1>9, DiscardSame, SameKeepsAgreement
     DEF TerminateClient, Good, SleepersIdle, SameUnread
<1>10. CASE UNCHANGED server
  BY <1>1, <1>10
<1> QED BY <1>3, <1>4, <1>5, <1>7, <1>8, <1>9, <1>10 DEF Next

LEMMA InitGood == Init => IInv
<1> SUFFICES ASSUME Init PROVE IInv
  OBVIOUS
<1>1. TypeOK
  BY WrapType DEF Init, init, TypeOK, ServerRecord
<1>2. Unread(server) = {}
  BY TagsDisjoint DEF Init, init, Unread
<1>3. Pending(server) = 0
  BY WrapType, GenDistFacts DEF Init, init, Pending
<1>4. NoneMissing(server)
  BY <1>1, <1>3, GenDistFacts DEF NoneMissing, TypeOK, ServerRecord
<1> QED BY <1>1, <1>2, <1>4 DEF IInv, GenerationsAgree, Agrees, UnreadNumbered,
           UnreadDistinct, SleepersHaveNothingToRead, SleepersIdle

LEMMA Invariance == Spec => []IInv
BY InitGood, InductiveStep, PTL DEF Spec

\* The unread messages carry the numbers from head_generation to
\* tail_generation, each once, for any sizes of the queue and the counter: a
\* wrapped generation is never taken for another one (server.rs).
THEOREM GenerationsCorrect == Spec => []GenerationsAgree
BY Invariance, PTL DEF IInv

\* No message waits unread while a thread of the server sleeps in
\* ReceiveMessage (send_message, receive_message and reply_and_receive_next).
THEOREM SleepersCorrect == Spec => []SleepersHaveNothingToRead
BY Invariance, PTL DEF IInv

\* With 128 slots and 256 generations, a queue is full only for lack of slots
\* (the first test of queue_message never refuses a message).
THEOREM NumbersSuffice == Spec => []NumbersOutlastSlots
<1>1. IInv => NumbersOutlastSlots
  BY NumbersLeft DEF IInv, TypeOK, GenerationsAgree, NumbersOutlastSlots
<1> QED BY <1>1, Invariance, PTL

-----------------------------------------------------------------------------
(***************************************************************************)
(* Tokens.                                                                 *)
(***************************************************************************)

\* A token is never written over: it leaves its slot only by being taken for
\* the reply (queue_message, queue_response, take_next_message).
THEOREM TokensCorrect == Spec => TokensStay
<1> DEFINE Kept(i) == server'.queue[i] = server.queue[i]
<1>1. ASSUME TypeOK, Next PROVE TokenStep
  <2> SUFFICES ASSUME NEW i \in Slots, is_in_server(server.queue[i]), ~Taken(i)
               PROVE  Kept(i)
    BY DEF TokenStep
  <2>1. /\ server \in ServerRecord
        /\ server.queue \in [Slots -> QueuedMessage \cup {Empty}]
        /\ i \notin EmptySlots(server) /\ i \notin NextMessageSlots(server)
    BY <1>1, TagsDisjoint DEF TypeOK, ServerRecord, EmptySlots, NextMessageSlots
  <2>2. ASSUME NEW m \in Message, Enqueue(m) PROVE Kept(i)
    BY <2>1, <2>2, EmptySlotFound DEF Enqueue, queue_message, FillSlot, ServerRecord
  <2>3. ASSUME NEW m \in Message, HandOff(m) PROVE Kept(i)
    <3> DEFINE s == take_available_thread(server)
    <3>1. s \in ServerRecord /\ s.queue = server.queue /\ EmptySlots(s) = EmptySlots(server)
      BY <2>1 DEF take_available_thread, ServerRecord, EmptySlots
    <3>2. server' = IF Blocking(m) THEN queue_response(s, m) ELSE s
      BY <2>3 DEF HandOff
    <3>3. Blocking(m) => EmptySlots(s) # {}
      BY <2>3, <3>1 DEF HandOff
    <3> HIDE DEF s
    <3>4. CASE Blocking(m)
      <4>1. ResponseSlot(s) \in EmptySlots(s)
        BY <3>1, <3>3, <3>4, EmptySlotFound DEF ResponseSlot
      <4> QED BY <2>1, <3>1, <3>2, <3>4, <4>1 DEF queue_response, FillSlot, ServerRecord
    <3>5. CASE ~Blocking(m)
      BY <3>1, <3>2, <3>5
    <3> QED BY <3>4, <3>5
  <2>4. ASSUME NEW m \in Message, DropThread(m) PROVE Kept(i)
    BY <2>1, <2>4 DEF DropThread, take_available_thread, ServerRecord
  <2>5. ASSUME NEW s \in ServerRecord, NEW t \in Tids, i \notin NextMessageSlots(s)
        PROVE  ReceiveNext(s, t).queue[i] = s.queue[i]
    <3>1. CASE HasNextMessage(s)
      BY <2>5, <3>1, NextMessageFound DEF ReceiveNext, take_next_message, ServerRecord
    <3>2. CASE ~HasNextMessage(s)
      BY <3>2 DEF ReceiveNext, park_thread, ServerRecord
    <3> QED BY <3>1, <3>2
  <2>6. ASSUME NEW t \in Tids, ReceiveMessage(t) PROVE Kept(i)
    BY <2>1, <2>5, <2>6 DEF ReceiveMessage
  <2>7. CASE TryReceiveMessage
    BY <2>1, <2>7, NextMessageFound DEF TryReceiveMessage, take_next_message, ServerRecord
  <2>8. ASSUME NEW j \in Slots, j # i
        PROVE  /\ take_waiting_message(server, j) \in ServerRecord
               /\ take_waiting_message(server, j).queue[i] = server.queue[i]
    <3>1. take_waiting_message(server, j).queue = [server.queue EXCEPT ![j] = Empty]
      BY <2>1 DEF take_waiting_message, ServerRecord
    <3> QED BY <2>1, <2>8, <3>1, TakeWaitingType
  <2>9. ASSUME NEW j \in Slots, Reply(j) PROVE Kept(i)
    BY <2>8, <2>9 DEF Reply, Taken
  <2>10. ASSUME NEW t \in Tids, NEW j \in Slots, ReplyAndReceiveNext(t, j) PROVE Kept(i)
    <3> DEFINE s == IF IsWaiting(server, j) THEN take_waiting_message(server, j) ELSE server
    <3>1. s \in ServerRecord /\ s.queue[i] = server.queue[i]
      BY <2>1, <2>8, <2>10 DEF Taken
    <3>2. i \notin NextMessageSlots(s)
      BY <3>1, TagsDisjoint DEF NextMessageSlots
    <3>3. server' = ReceiveNext(s, t)
      BY <2>10 DEF ReplyAndReceiveNext
    <3> HIDE DEF s
    <3> QED BY <2>5, <3>1, <3>2, <3>3
  <2>11. ASSUME NEW pid \in Pids, TerminateClient(pid) PROVE Kept(i)
    <3>1. Terminated(server.queue[i]) = server.queue[i]
      BY DEF Terminated, is_in_server, WaitingTags
    <3> QED BY <2>1, <2>11, <3>1 DEF TerminateClient, discard_messages_for_pid, ServerRecord
  <2> QED BY <1>1, <2>2, <2>3, <2>4, <2>6, <2>7, <2>9, <2>10, <2>11 DEF Next, SendMessage
<1>2. TypeOK /\ [Next]_server => [TokenStep]_server
  BY <1>1
<1> QED BY <1>2, TypeCorrect, PTL DEF Spec, TokensStay

-----------------------------------------------------------------------------
(***************************************************************************)
(* The queue implements MessageFifo.  The refinement mapping is that of    *)
(* ServerQueue, as operators on a server's record.                         *)
(***************************************************************************)
\* The slot of the n-th unread message.
SlotOf(s, n) ==
    CHOOSE i \in Unread(s) : GenDist(s.head_generation, s.queue[i].idx) = n - 1
Letters(s) == [n \in 1 .. Pending(s) |-> LetterOf(s.queue[SlotOf(s, n)])]
Owed(s)    == [i \in {j \in Slots : is_in_server(s.queue[j])} |-> LetterOf(s.queue[i])]

LEMMA MappingFacts ==
    /\ UnreadLetters = Letters(server) /\ UnreadLetters' = Letters(server')
    /\ OwedReplies = Owed(server) /\ OwedReplies' = Owed(server')
BY DEF UnreadLetters, Letters, SlotOf, OwedReplies, Owed

\* The numbers from head_generation on lead to the unread messages.
LEMMA SlotOfFacts ==
    ASSUME NEW s \in ServerRecord, Agrees(s), NEW n \in 1 .. Pending(s)
    PROVE  /\ Pending(s) \in Nat
           /\ SlotOf(s, n) \in Unread(s)
           /\ GenDist(s.head_generation, s.queue[SlotOf(s, n)].idx) = n - 1
           /\ \A j \in Unread(s) :
                 GenDist(s.head_generation, s.queue[j].idx) = n - 1 => j = SlotOf(s, n)
<1> DEFINE h == s.head_generation
           g == IF h + n - 1 < Generations THEN h + n - 1 ELSE h + n - 1 - Generations
<1>1. h \in GenNumbers /\ s.tail_generation \in GenNumbers
  BY DEF ServerRecord
<1>2. Pending(s) \in Nat /\ Pending(s) <= Generations - 1
  BY <1>1, GenDistFacts, ServerAssumption DEF Pending
<1>3. g \in GenNumbers /\ GenDist(h, g) = n - 1
  BY <1>1, <1>2, ServerAssumption DEF GenNumbers, GenDist
<1> HIDE DEF g
<1>4. GenDist(h, g) < Pending(s)
  BY <1>2, <1>3
<1>5. \E j \in Unread(s) : GenDist(h, s.queue[j].idx) = n - 1
  BY <1>3, <1>4 DEF Agrees, NoneMissing
<1>6. SlotOf(s, n) \in Unread(s) /\ GenDist(h, s.queue[SlotOf(s, n)].idx) = n - 1
  BY <1>5 DEF SlotOf
<1>7. \A j \in Unread(s) : s.queue[j].idx \in GenNumbers
  BY TagsDisjoint, EntryIsMessage DEF Unread, QueuedMessage
<1>8. ASSUME NEW j \in Unread(s), GenDist(h, s.queue[j].idx) = n - 1
      PROVE  j = SlotOf(s, n)
  <2>1. s.queue[j].idx = s.queue[SlotOf(s, n)].idx
    BY <1>1, <1>6, <1>7, <1>8, GenDistInjective
  <2> QED BY <1>6, <2>1 DEF Agrees, UnreadDistinct
<1> QED BY <1>2, <1>6, <1>8

LEMMA LetterType ==
    ASSUME NEW e \in QueuedMessage
    PROVE  LetterOf(e) \in Fifo!Letter
<1>1. ReplyOf(e) \in {"None", "Scalar", "Memory"}
  BY DEF ReplyOf
<1>2. <<e.pid, e.tid>> \in Pids \X Tids /\ e.payload \in Payloads
  BY DEF QueuedMessage
<1> QED BY <1>1, <1>2 DEF LetterOf, Fifo!Letter, Fifo!Replies

LEMMA LettersFacts ==
    ASSUME NEW s \in ServerRecord, Agrees(s)
    PROVE  /\ Letters(s) \in Seq(Fifo!Letter) /\ Len(Letters(s)) = Pending(s)
           /\ Pending(s) \in Nat
           /\ \A n \in 1 .. Pending(s) : Letters(s)[n] = LetterOf(s.queue[SlotOf(s, n)])
<1>1. Pending(s) \in Nat
  BY GenDistFacts DEF Pending, ServerRecord
<1>2. ASSUME NEW n \in 1 .. Pending(s)
      PROVE  LetterOf(s.queue[SlotOf(s, n)]) \in Fifo!Letter
  <2>1. SlotOf(s, n) \in Unread(s)
    BY SlotOfFacts
  <2> QED BY <2>1, TagsDisjoint, EntryIsMessage, LetterType DEF Unread
<1>3. Letters(s) \in [1 .. Pending(s) -> Fifo!Letter]
  BY <1>2 DEF Letters
<1>4. Letters(s) \in Seq(Fifo!Letter) /\ Len(Letters(s)) = Pending(s)
  BY <1>1, <1>3
<1> QED BY <1>1, <1>4 DEF Letters

\* The three things a step does to the unread messages, as the channel sees them.
LEMMA AddAppends ==
    ASSUME NEW s \in ServerRecord, NEW r \in ServerRecord, Agrees(s), Agrees(r),
           ~GenerationsFull(s), NEW i \in Slots, NEW e \in QueuedMessage,
           ~IsUnread(s.queue[i]), IsUnread(e), e.idx = s.tail_generation,
           r.queue = [s.queue EXCEPT ![i] = e],
           r.head_generation = s.head_generation,
           r.tail_generation = NextGen(s.tail_generation)
    PROVE  Letters(r) = Append(Letters(s), LetterOf(e))
<1> DEFINE h == s.head_generation
           a == Append(Letters(s), LetterOf(e))
<1>1. h \in GenNumbers /\ s.tail_generation \in GenNumbers
  BY DEF ServerRecord
<1>2. Pending(r) = Pending(s) + 1 /\ Pending(s) \in Nat
  BY <1>1, GenDistFacts DEF Pending, GenerationsFull, ServerRecord, GenNumbers
<1>3. Unread(r) = Unread(s) \cup {i} /\ r.queue[i] = e
  BY DEF Unread, ServerRecord
<1>4. \A j \in Unread(s) : j # i /\ r.queue[j] = s.queue[j]
  BY DEF Unread, ServerRecord
<1>5. /\ a \in Seq(Fifo!Letter) /\ Len(a) = Pending(s) + 1
      /\ \A n \in 1 .. Pending(s) : a[n] = LetterOf(s.queue[SlotOf(s, n)])
      /\ a[Pending(s) + 1] = LetterOf(e)
  <2>1. /\ Letters(s) \in Seq(Fifo!Letter) /\ Len(Letters(s)) = Pending(s)
        /\ \A n \in 1 .. Pending(s) : Letters(s)[n] = LetterOf(s.queue[SlotOf(s, n)])
    BY LettersFacts
  <2>2. LetterOf(e) \in Fifo!Letter
    BY LetterType
  <2> QED BY <1>2, <2>1, <2>2, AppendProperties
<1> HIDE DEF a
<1>6. ASSUME NEW n \in 1 .. Pending(s)
      PROVE  Letters(r)[n] = a[n]
  <2>1. SlotOf(s, n) \in Unread(s) /\ GenDist(h, s.queue[SlotOf(s, n)].idx) = n - 1
    BY SlotOfFacts
  <2>2. n \in 1 .. Pending(r)
    BY <1>2
  <2>3. /\ SlotOf(s, n) \in Unread(r) /\ r.queue[SlotOf(s, n)] = s.queue[SlotOf(s, n)]
        /\ GenDist(r.head_generation, r.queue[SlotOf(s, n)].idx) = n - 1
    BY <1>3, <1>4, <2>1
  <2>4. SlotOf(s, n) = SlotOf(r, n)
    BY <2>2, <2>3, SlotOfFacts
  <2>5. Letters(r)[n] = LetterOf(r.queue[SlotOf(r, n)])
    BY <2>2, LettersFacts
  <2> QED BY <1>5, <2>3, <2>4, <2>5
<1>7. Letters(r)[Pending(s) + 1] = a[Pending(s) + 1]
  <2>1. Pending(s) + 1 \in 1 .. Pending(r)
    BY <1>2
  <2>2. GenDist(h, r.queue[i].idx) = (Pending(s) + 1) - 1
    BY <1>2, <1>3 DEF Pending
  <2>3. i = SlotOf(r, Pending(s) + 1)
    BY <1>3, <2>1, <2>2, SlotOfFacts
  <2> QED BY <1>3, <1>5, <2>1, <2>3, LettersFacts
<1>8. Letters(r) \in Seq(Fifo!Letter) /\ Len(Letters(r)) = Pending(s) + 1
  BY <1>2, LettersFacts
<1>9. \A n \in 1 .. Len(Letters(r)) : Letters(r)[n] = a[n]
  BY <1>2, <1>6, <1>7, <1>8
<1>10. Letters(r) = a
  BY <1>5, <1>8, <1>9, SeqEqual
<1> QED BY <1>10 DEF a

LEMMA TakeIsTail ==
    ASSUME NEW s \in ServerRecord, NEW r \in ServerRecord, Agrees(s), Agrees(r),
           s.tail_generation # s.head_generation,
           NEW i \in Unread(s), s.queue[i].idx = s.head_generation,
           Unread(r) = Unread(s) \ {i},
           \A j \in Unread(r) : r.queue[j] = s.queue[j],
           r.head_generation = NextGen(s.head_generation),
           r.tail_generation = s.tail_generation
    PROVE  /\ Letters(s) # <<>>
           /\ Head(Letters(s)) = LetterOf(s.queue[i])
           /\ Letters(r) = Tail(Letters(s))
<1> DEFINE h == s.head_generation
           a == Letters(s)
<1>1. h \in GenNumbers /\ s.tail_generation \in GenNumbers
  BY DEF ServerRecord
<1>2. Pending(r) = Pending(s) - 1 /\ Pending(s) \in 1 .. Generations - 1
  BY <1>1, GenDistFacts, ServerAssumption DEF Pending
<1>3. /\ a \in Seq(Fifo!Letter) /\ Len(a) = Pending(s)
      /\ \A n \in 1 .. Pending(s) : a[n] = LetterOf(s.queue[SlotOf(s, n)])
  BY LettersFacts
<1>4. 1 \in 1 .. Pending(s) /\ i = SlotOf(s, 1)
  <2>1. 1 \in 1 .. Pending(s) /\ GenDist(h, s.queue[i].idx) = 1 - 1
    BY <1>1, <1>2, GenDistFacts
  <2> QED BY <2>1, SlotOfFacts
<1> HIDE DEF a
<1>5. a # <<>> /\ Head(a) = LetterOf(s.queue[i])
  BY <1>2, <1>3, <1>4
<1>6. /\ Tail(a) \in Seq(Fifo!Letter) /\ Len(Tail(a)) = Pending(s) - 1
      /\ \A n \in 1 .. Pending(s) - 1 : Tail(a)[n] = a[n + 1]
  BY <1>3, <1>5, HeadTailProperties
<1>7. /\ Letters(r) \in Seq(Fifo!Letter) /\ Len(Letters(r)) = Pending(s) - 1
      /\ \A n \in 1 .. Pending(s) - 1 : Letters(r)[n] = LetterOf(r.queue[SlotOf(r, n)])
  BY <1>2, LettersFacts
<1>8. ASSUME NEW n \in 1 .. Pending(s) - 1
      PROVE  Letters(r)[n] = Tail(a)[n]
  <2>1. n \in 1 .. Pending(r) /\ n + 1 \in 1 .. Pending(s) /\ n \in Nat
    BY <1>2
  <2>2. SlotOf(r, n) \in Unread(r) /\ GenDist(NextGen(h), r.queue[SlotOf(r, n)].idx) = n - 1
    BY <2>1, SlotOfFacts
  <2>3. s.queue[SlotOf(r, n)].idx \in GenNumbers /\ s.queue[SlotOf(r, n)].idx # h
    BY <2>2, TagsDisjoint, EntryIsMessage DEF Unread, QueuedMessage, Agrees, UnreadDistinct
  <2>4. GenDist(h, s.queue[SlotOf(r, n)].idx) = (n + 1) - 1
    <3>1. /\ GenDist(NextGen(h), s.queue[SlotOf(r, n)].idx)
               = GenDist(h, s.queue[SlotOf(r, n)].idx) - 1
          /\ GenDist(h, s.queue[SlotOf(r, n)].idx) \in Nat
      BY <1>1, <2>3, GenDistFacts
    <3>2. GenDist(NextGen(h), s.queue[SlotOf(r, n)].idx) = n - 1
      BY <2>2
    <3> QED BY <2>1, <3>1, <3>2
  <2>5. SlotOf(r, n) = SlotOf(s, n + 1)
    BY <2>1, <2>2, <2>4, SlotOfFacts
  <2> QED BY <1>3, <1>6, <1>7, <2>1, <2>2, <2>5
<1>9. Letters(r) = Tail(a)
  BY <1>6, <1>7, <1>8, SeqEqual
<1> QED BY <1>5, <1>9 DEF a

LEMMA SameKeepsLetters ==
    ASSUME NEW s \in ServerRecord, NEW r \in ServerRecord, Agrees(s), SameUnread(s, r)
    PROVE  \A n \in 1 .. Pending(s) : /\ SlotOf(s, n) \in Unread(s)
                                      /\ Letters(s)[n] = LetterOf(s.queue[SlotOf(s, n)])
                                      /\ Letters(r)[n] = LetterOf(r.queue[SlotOf(s, n)])
<1>1. Agrees(r) /\ Pending(r) = Pending(s)
  BY SameKeepsAgreement DEF SameUnread, Pending
<1> SUFFICES ASSUME NEW n \in 1 .. Pending(s)
             PROVE  /\ SlotOf(s, n) \in Unread(s)
                    /\ Letters(s)[n] = LetterOf(s.queue[SlotOf(s, n)])
                    /\ Letters(r)[n] = LetterOf(r.queue[SlotOf(s, n)])
  OBVIOUS
<1>2. /\ SlotOf(s, n) \in Unread(s)
      /\ GenDist(s.head_generation, s.queue[SlotOf(s, n)].idx) = n - 1
  BY SlotOfFacts
<1>3. SlotOf(s, n) \in Unread(r) /\ n \in 1 .. Pending(r)
      /\ GenDist(r.head_generation, r.queue[SlotOf(s, n)].idx) = n - 1
  BY <1>1, <1>2 DEF SameUnread
<1>4. SlotOf(s, n) = SlotOf(r, n)
  BY <1>1, <1>3, SlotOfFacts
<1> QED BY <1>1, <1>2, <1>3, <1>4, LettersFacts

LEMMA LettersSame ==
    ASSUME NEW s \in ServerRecord, NEW r \in ServerRecord, Agrees(s), SameUnread(s, r),
           \A j \in Unread(s) : r.queue[j] = s.queue[j]
    PROVE  Letters(r) = Letters(s)
<1>1. Agrees(r) /\ Pending(r) = Pending(s)
  BY SameKeepsAgreement DEF SameUnread, Pending
<1>2. /\ Letters(s) \in Seq(Fifo!Letter) /\ Len(Letters(s)) = Pending(s)
      /\ Letters(r) \in Seq(Fifo!Letter) /\ Len(Letters(r)) = Pending(s)
  BY <1>1, LettersFacts
<1>3. \A n \in 1 .. Len(Letters(r)) : Letters(r)[n] = Letters(s)[n]
  BY <1>2, SameKeepsLetters
<1> QED BY <1>2, <1>3, SeqEqual

LEMMA OwedFacts ==
    ASSUME NEW s
    PROVE  /\ DOMAIN Owed(s) = {j \in Slots : is_in_server(s.queue[j])}
           /\ \A i \in Slots : is_in_server(s.queue[i]) => Owed(s)[i] = LetterOf(s.queue[i])
           /\ Owed(s) = [i \in DOMAIN Owed(s) |-> Owed(s)[i]]
BY DEF Owed

\* A token for message m, put into a slot without one.
LEMMA TokenIsDelivered ==
    ASSUME NEW s \in ServerRecord, NEW r, NEW i \in Slots, ~is_in_server(s.queue[i]), NEW e,
           r.queue = [s.queue EXCEPT ![i] = e], is_in_server(e),
           NEW m, LetterOf(e) = m, m.reply # "None"
    PROVE  Fifo!Delivered(Owed(s), m, Owed(r))
<1>1. /\ DOMAIN Owed(s) = {j \in Slots : is_in_server(s.queue[j])}
      /\ DOMAIN Owed(r) = {j \in Slots : is_in_server(r.queue[j])}
      /\ \A j \in Slots : is_in_server(s.queue[j]) => Owed(s)[j] = LetterOf(s.queue[j])
      /\ \A j \in Slots : is_in_server(r.queue[j]) => Owed(r)[j] = LetterOf(r.queue[j])
  BY OwedFacts
<1>2. r.queue[i] = e /\ \A j \in Slots \ {i} : r.queue[j] = s.queue[j]
  BY DEF ServerRecord
<1>3. i \in Slots \ DOMAIN Owed(s)
  BY <1>1
<1>4. DOMAIN Owed(r) = DOMAIN Owed(s) \cup {i}
  BY <1>1, <1>2
<1>5. \A j \in DOMAIN Owed(r) : Owed(r)[j] = IF j = i THEN m ELSE Owed(s)[j]
  BY <1>1, <1>2, <1>4
<1>6. Owed(r) = [j \in DOMAIN Owed(s) \cup {i} |-> IF j = i THEN m ELSE Owed(s)[j]]
  BY <1>4, <1>5, OwedFacts
<1> QED BY <1>3, <1>6 DEF Fifo!Delivered

\* What is in no slot and what is not a token leave the replies as they are.
LEMMA OwedSame ==
    ASSUME NEW s, NEW r,
           \A j \in Slots : /\ is_in_server(r.queue[j]) <=> is_in_server(s.queue[j])
                            /\ is_in_server(s.queue[j]) => r.queue[j] = s.queue[j]
    PROVE  Owed(r) = Owed(s)
<1>1. /\ DOMAIN Owed(s) = {j \in Slots : is_in_server(s.queue[j])}
      /\ DOMAIN Owed(r) = {j \in Slots : is_in_server(r.queue[j])}
      /\ \A j \in Slots : is_in_server(s.queue[j]) => Owed(s)[j] = LetterOf(s.queue[j])
      /\ \A j \in Slots : is_in_server(r.queue[j]) => Owed(r)[j] = LetterOf(r.queue[j])
  BY OwedFacts
<1>2. DOMAIN Owed(r) = DOMAIN Owed(s)
  BY <1>1
<1>3. \A j \in DOMAIN Owed(s) : Owed(r)[j] = Owed(s)[j]
  BY <1>1, <1>2
<1> QED BY <1>2, <1>3, OwedFacts

-----------------------------------------------------------------------------
\* take_next_message receives the oldest message, and owes its reply.
LEMMA TakeNextIsReceive ==
    ASSUME NEW s \in ServerRecord, Good(s), HasNextMessage(s)
    PROVE  /\ Letters(s) # <<>>
           /\ Letters(take_next_message(s)) = Tail(Letters(s))
           /\ Fifo!Delivered(Owed(s), Head(Letters(s)), Owed(take_next_message(s)))
<1> DEFINE i == NextMessageSlot(s)
           r == take_next_message(s)
           e == s.queue[i]
<1>1. i \in Slots /\ i \in Unread(s) /\ s.queue[i].idx = s.head_generation
  BY NextMessageFound DEF NextMessageSlots, Unread
<1>2. e \in QueuedMessage /\ IsUnread(e) /\ ~IsUnread(AfterReceive(e))
  BY <1>1, TagsDisjoint, EntryIsMessage, AfterReceiveType DEF Unread
<1>3. /\ r.queue = [s.queue EXCEPT ![i] = AfterReceive(e)]
      /\ r.head_generation = NextGen(s.head_generation)
      /\ r.tail_generation = s.tail_generation
  BY <1>1 DEF take_next_message, ServerRecord
<1>4. s.queue \in [Slots -> QueuedMessage \cup {Empty}]
  BY DEF ServerRecord
<1>5. r \in ServerRecord /\ Agrees(s) /\ Agrees(r)
  BY TakeNextType, TakeNextGood DEF Good
<1>6. s.tail_generation # s.head_generation
  BY DEF HasNextMessage
<1>7. \/ AfterReceive(e) = Empty /\ LetterOf(e).reply = "None"
      \/ /\ is_in_server(AfterReceive(e)) /\ LetterOf(AfterReceive(e)) = LetterOf(e)
         /\ LetterOf(e).reply # "None"
  <2>1. CASE e.tag = "BlockingScalarMessage"
    BY <1>2, <2>1 DEF AfterReceive, LetterOf, ReplyOf, is_in_server, WaitingTags, QueuedMessage
  <2>2. CASE e.tag \in {"MemoryMessageROLend", "MemoryMessageRWLend",
                        "MemoryMessageROLendTerminated", "MemoryMessageRWLendTerminated"}
    BY <1>2, <2>2 DEF AfterReceive, LetterOf, ReplyOf, is_in_server, WaitingTags, QueuedMessage
  <2>3. CASE e.tag \in {"ScalarMessage", "MemoryMessageSend", "BlockingScalarTerminated"}
    BY <1>2, <2>3 DEF AfterReceive, LetterOf, ReplyOf
  <2> QED BY <1>2, <2>1, <2>2, <2>3 DEF IsUnread, UnreadTags, QueuedTags, TerminatedTags
<1>8. ~is_in_server(s.queue[i])
  BY <1>2, TagsDisjoint
<1> HIDE DEF r, i
<1>9. Unread(r) = Unread(s) \ {i} /\ \A j \in Unread(r) : r.queue[j] = s.queue[j]
  BY <1>1, <1>2, <1>3, <1>4 DEF Unread
<1>10. Letters(s) # <<>> /\ Head(Letters(s)) = LetterOf(e) /\ Letters(r) = Tail(Letters(s))
  BY <1>1, <1>3, <1>5, <1>6, <1>9, TakeIsTail
<1>11. Fifo!Delivered(Owed(s), LetterOf(e), Owed(r))
  <2>1. CASE AfterReceive(e) = Empty /\ LetterOf(e).reply = "None"
    <3>1. \A j \in Slots : /\ is_in_server(r.queue[j]) <=> is_in_server(s.queue[j])
                           /\ is_in_server(s.queue[j]) => r.queue[j] = s.queue[j]
      BY <1>1, <1>3, <1>4, <1>8, <2>1, TagsDisjoint
    <3>2. Owed(r) = Owed(s)
      BY <3>1, OwedSame
    <3> QED BY <2>1, <3>2 DEF Fifo!Delivered
  <2>2. CASE /\ is_in_server(AfterReceive(e)) /\ LetterOf(AfterReceive(e)) = LetterOf(e)
             /\ LetterOf(e).reply # "None"
    BY <1>1, <1>3, <1>8, <2>2, TokenIsDelivered
  <2> QED BY <1>7, <2>1, <2>2
<1> QED BY <1>10, <1>11 DEF r

\* take_waiting_message takes a reply that is owed, and nothing else.
LEMMA TakeWaitingIsReply ==
    ASSUME NEW s \in ServerRecord, Agrees(s), NEW i \in Slots, IsWaiting(s, i)
    PROVE  /\ i \in DOMAIN Owed(s)
           /\ Owed(take_waiting_message(s, i)) = Fifo!Without(Owed(s), i)
           /\ Letters(take_waiting_message(s, i)) = Letters(s)
<1> DEFINE r == take_waiting_message(s, i)
<1>1. /\ DOMAIN Owed(s) = {j \in Slots : is_in_server(s.queue[j])}
      /\ DOMAIN Owed(r) = {j \in Slots : is_in_server(r.queue[j])}
      /\ \A j \in Slots : is_in_server(s.queue[j]) => Owed(s)[j] = LetterOf(s.queue[j])
      /\ \A j \in Slots : is_in_server(r.queue[j]) => Owed(r)[j] = LetterOf(r.queue[j])
  BY OwedFacts
<1>2. r \in ServerRecord /\ SameUnread(s, r) /\ r.queue = [s.queue EXCEPT ![i] = Empty]
  <2>1. r.queue = [s.queue EXCEPT ![i] = Empty]
    BY DEF take_waiting_message, ServerRecord
  <2> QED BY <2>1, TakeWaitingType, TakeWaitingSame
<1>3. s.queue \in [Slots -> QueuedMessage \cup {Empty}]
  BY DEF ServerRecord
<1>4. is_in_server(s.queue[i]) /\ ~IsUnread(s.queue[i])
  BY TagsDisjoint DEF IsWaiting
<1> HIDE DEF r
<1>5. \A j \in Unread(s) : r.queue[j] = s.queue[j]
  BY <1>2, <1>3, <1>4 DEF Unread
<1>6. Letters(r) = Letters(s)
  BY <1>2, <1>5, LettersSame
<1>7. i \in DOMAIN Owed(s)
  BY <1>1, <1>4
<1>8. DOMAIN Owed(r) = DOMAIN Owed(s) \ {i}
  BY <1>1, <1>2, <1>3, <1>7, TagsDisjoint
<1>9. \A j \in DOMAIN Owed(r) : Owed(r)[j] = Owed(s)[j]
  BY <1>1, <1>2, <1>3, <1>8
<1>10. Owed(r) = Fifo!Without(Owed(s), i)
  BY <1>8, <1>9, OwedFacts DEF Fifo!Without, Fifo!Restrict
<1> QED BY <1>6, <1>7, <1>10 DEF r

\* discard_messages_for_pid: nobody waits any more for the scalars of pid.
LEMMA DiscardIsDiscard ==
    ASSUME NEW s \in ServerRecord, Agrees(s), NEW pid \in Pids
    PROVE  /\ Owed(discard_messages_for_pid(s, pid)) = Owed(s)
           /\ Letters(discard_messages_for_pid(s, pid)) =
                 [n \in DOMAIN Letters(s) |-> Fifo!Forget(Letters(s)[n], {pid} \X Tids)]
<1> DEFINE r == discard_messages_for_pid(s, pid)
           S == {pid} \X Tids
<1>1. r \in ServerRecord /\ SameUnread(s, r)
  BY DiscardType, DiscardSame
<1>2. \A j \in Slots : r.queue[j] = IF ~IsEmpty(s.queue[j]) /\ s.queue[j].pid = pid
                                    THEN Terminated(s.queue[j]) ELSE s.queue[j]
  BY DEF discard_messages_for_pid, ServerRecord
<1> HIDE DEF r
<1>3. \A j \in Slots : /\ is_in_server(r.queue[j]) <=> is_in_server(s.queue[j])
                       /\ is_in_server(s.queue[j]) => r.queue[j] = s.queue[j]
  <2>1. ASSUME NEW e \in QueuedMessage
        PROVE  /\ is_in_server(Terminated(e)) <=> is_in_server(e)
               /\ is_in_server(e) => Terminated(e) = e
    BY DEF Terminated, is_in_server, WaitingTags, QueuedMessage
  <2> QED BY <1>2, <2>1, EntryIsMessage
<1>4. Owed(r) = Owed(s)
  BY <1>3, OwedSame
<1>5. ASSUME NEW j \in Unread(s)
      PROVE  LetterOf(r.queue[j]) = Fifo!Forget(LetterOf(s.queue[j]), S)
  <2> DEFINE e == s.queue[j]
  <2>1. e \in QueuedMessage /\ ~IsEmpty(e) /\ IsUnread(e) /\ j \in Slots
    BY TagsDisjoint, EntryIsMessage DEF Unread
  <2>2. r.queue[j] = IF e.pid = pid THEN Terminated(e) ELSE e
    BY <1>2, <2>1
  <2> HIDE DEF e
  <2>3. e.tid \in Tids /\ (<<e.pid, e.tid>> \in S <=> e.pid = pid)
    BY <2>1 DEF QueuedMessage
  <2>4. /\ LetterOf(e).sender = <<e.pid, e.tid>> /\ LetterOf(e).reply = ReplyOf(e)
        /\ LetterOf(e).payload = e.payload
    BY DEF LetterOf
  <2>5. CASE e.pid # pid
    BY <2>2, <2>3, <2>4, <2>5 DEF Fifo!Forget, e
  <2>6. CASE e.pid = pid /\ e.tag = "BlockingScalarMessage"
    <3>1. ReplyOf(e) = "Scalar" /\ r.queue[j] = [e EXCEPT !.tag = "BlockingScalarTerminated"]
      BY <2>2, <2>6 DEF ReplyOf, Terminated
    <3>2. LetterOf(r.queue[j]) = [sender |-> <<e.pid, e.tid>>, payload |-> e.payload,
                                  reply |-> "None"]
      BY <2>1, <3>1 DEF LetterOf, ReplyOf, QueuedMessage
    <3>3. Fifo!Forget(LetterOf(e), S) = [LetterOf(e) EXCEPT !.reply = "None"]
      BY <2>3, <2>4, <2>6, <3>1 DEF Fifo!Forget
    <3>4. Fifo!Forget(LetterOf(e), S) = [sender |-> <<e.pid, e.tid>>, payload |-> e.payload,
                                         reply |-> "None"]
      BY <3>3 DEF LetterOf
    <3> QED BY <3>2, <3>4 DEF e
  <2>7. CASE e.pid = pid /\ e.tag # "BlockingScalarMessage"
    <3>1. ReplyOf(e) # "Scalar"
      BY <2>1, <2>7 DEF ReplyOf, IsUnread, UnreadTags, QueuedTags, TerminatedTags
    <3>2. LetterOf(r.queue[j]) = LetterOf(e)
      BY <2>1, <2>2, <2>7 DEF LetterOf, ReplyOf, Terminated, QueuedMessage
    <3> QED BY <2>4, <3>1, <3>2 DEF Fifo!Forget, e
  <2> QED BY <2>5, <2>6, <2>7
<1>6. /\ Agrees(r) /\ Pending(r) = Pending(s)
      /\ DOMAIN Letters(s) = 1 .. Pending(s) /\ DOMAIN Letters(r) = 1 .. Pending(s)
  <2>1. Agrees(r) /\ Pending(r) = Pending(s)
    BY <1>1, SameKeepsAgreement DEF SameUnread, Pending
  <2> QED BY <2>1 DEF Letters
<1>7. \A n \in 1 .. Pending(s) : Letters(r)[n] = Fifo!Forget(Letters(s)[n], S)
  BY <1>1, <1>5, SameKeepsLetters
<1>8. Letters(r) = [n \in DOMAIN Letters(r) |-> Letters(r)[n]]
  BY DEF Letters
<1> QED BY <1>4, <1>6, <1>7, <1>8 DEF r

\* The letter a message is, sent or handed over.
ReplyTo(kind) ==
    CASE kind = "BlockingScalar" -> "Scalar"
      [] kind \in {"Borrow", "MutableBorrow"} -> "Memory"
      [] OTHER -> "None"
AsLetter(m) == [sender |-> <<m.pid, m.tid>>, payload |-> m.payload, reply |-> ReplyTo(m.kind)]

LEMMA AsLetterFacts ==
    ASSUME NEW m \in Message
    PROVE  /\ AsLetter(m) \in Fifo!Letter
           /\ AsLetter(m).reply # "None" <=> Blocking(m)
<1>1. /\ ReplyTo(m.kind) \in {"None", "Scalar", "Memory"}
      /\ ReplyTo(m.kind) # "None" <=> Blocking(m)
  BY DEF ReplyTo, Blocking, BlockingKinds, Message, Kinds, ScalarKinds, MemoryKinds
<1>2. <<m.pid, m.tid>> \in Pids \X Tids /\ m.payload \in Payloads
  BY DEF Message
<1> QED BY <1>1, <1>2 DEF AsLetter, Fifo!Letter, Fifo!Replies

\* queue_message sends.
LEMMA EnqueueIsSend ==
    ASSUME NEW s \in ServerRecord, Good(s), NEW m \in Message,
           s.ready_threads = {}, CanDeliver(s, m), EmptySlots(s) # {}
    PROVE  /\ Letters(queue_message(s, m)) = Append(Letters(s), AsLetter(m))
           /\ Owed(queue_message(s, m)) = Owed(s)
<1> DEFINE i == FirstFrom(s.queue_head, EmptySlots(s))
           e == [tag |-> QueuedTag(m.kind), pid |-> m.pid, tid |-> m.tid,
                 idx |-> s.tail_generation, payload |-> m.payload]
           r == queue_message(s, m)
<1>1. r \in ServerRecord /\ Agrees(s) /\ Agrees(r)
  BY QueueMessageType, QueueMessageGood DEF Good
<1>2. i \in Slots /\ ~IsUnread(s.queue[i]) /\ ~is_in_server(s.queue[i])
  BY EmptySlotFound, TagsDisjoint DEF EmptySlots
<1>3. QueuedTag(m.kind) \in UnreadTags
  BY DEF Message, Kinds, ScalarKinds, MemoryKinds, QueuedTag, UnreadTags, QueuedTags
<1>4. e \in QueuedMessage /\ IsUnread(e) /\ e.idx = s.tail_generation
  BY <1>3 DEF Message, QueuedMessage, ServerRecord, IsUnread
<1>5. LetterOf(e) = AsLetter(m)
  <2>1. ReplyOf(e) = ReplyTo(m.kind)
    BY DEF ReplyOf, ReplyTo, QueuedTag, Message, Kinds, ScalarKinds, MemoryKinds
  <2> QED BY <2>1 DEF LetterOf, AsLetter
<1>6. /\ r.queue = [s.queue EXCEPT ![i] = e]
      /\ r.head_generation = s.head_generation
      /\ r.tail_generation = NextGen(s.tail_generation)
  BY DEF queue_message, FillSlot, ServerRecord
<1>7. ~GenerationsFull(s)
  BY DEF CanDeliver, has_queue_capacity, has_queue_capacity_scalar
<1>8. s.queue \in [Slots -> QueuedMessage \cup {Empty}]
  BY DEF ServerRecord
<1> HIDE DEF i, e, r
<1>9. Letters(r) = Append(Letters(s), LetterOf(e))
  BY <1>1, <1>2, <1>4, <1>6, <1>7, AddAppends
<1>10. \A j \in Slots : /\ is_in_server(r.queue[j]) <=> is_in_server(s.queue[j])
                        /\ is_in_server(s.queue[j]) => r.queue[j] = s.queue[j]
  BY <1>2, <1>4, <1>6, <1>8, TagsDisjoint
<1>11. Owed(r) = Owed(s)
  BY <1>10, OwedSame
<1> QED BY <1>5, <1>9, <1>11 DEF r

\* take_available_thread and park_thread change nothing of the channel.
LEMMA ThreadsAreNotSeen ==
    ASSUME NEW s \in ServerRecord, Agrees(s), NEW t \in Tids
    PROVE  /\ Letters(take_available_thread(s)) = Letters(s)
           /\ Owed(take_available_thread(s)) = Owed(s)
           /\ Letters(park_thread(s, t)) = Letters(s)
           /\ Owed(park_thread(s, t)) = Owed(s)
<1>1. /\ take_available_thread(s) \in ServerRecord /\ park_thread(s, t) \in ServerRecord
      /\ SameUnread(s, take_available_thread(s)) /\ SameUnread(s, park_thread(s, t))
  BY ParkType, ThreadsSame
<1>2. take_available_thread(s).queue = s.queue /\ park_thread(s, t).queue = s.queue
  BY DEF take_available_thread, park_thread, ServerRecord
<1>3. /\ Letters(take_available_thread(s)) = Letters(s)
      /\ Letters(park_thread(s, t)) = Letters(s)
  BY <1>1, <1>2, LettersSame
<1> QED BY <1>2, <1>3 DEF Owed

\* queue_response owes a reply for a message that is handed over.
LEMMA ResponseIsHandOff ==
    ASSUME NEW s \in ServerRecord, Agrees(s), NEW m \in Message, Blocking(m),
           EmptySlots(s) # {}
    PROVE  /\ Letters(queue_response(s, m)) = Letters(s)
           /\ Fifo!Delivered(Owed(s), AsLetter(m), Owed(queue_response(s, m)))
<1> DEFINE i == ResponseSlot(s)
           e == [tag |-> ResponseTag(m.kind), pid |-> m.pid, tid |-> m.tid,
                 idx |-> 0, payload |-> m.payload]
           r == queue_response(s, m)
<1>1. i \in Slots /\ ~IsUnread(s.queue[i]) /\ ~is_in_server(s.queue[i])
  BY EmptySlotFound, TagsDisjoint DEF ResponseSlot, EmptySlots
<1>2. ResponseTag(m.kind) \in WaitingTags
  BY DEF Message, Kinds, ScalarKinds, MemoryKinds, ResponseTag, WaitingTags
<1>3. is_in_server(e)
  BY <1>2 DEF is_in_server
<1>4. LetterOf(e) = AsLetter(m)
  <2>1. ReplyOf(e) = ReplyTo(m.kind)
    BY DEF ReplyOf, ReplyTo, ResponseTag, Blocking, BlockingKinds, ScalarKinds
  <2> QED BY <2>1 DEF LetterOf, AsLetter
<1>5. r \in ServerRecord /\ SameUnread(s, r)
  BY QueueResponseType, ResponseSame
<1>6. r.queue = [s.queue EXCEPT ![i] = e]
  BY DEF queue_response, FillSlot, ServerRecord
<1>7. AsLetter(m).reply # "None"
  BY AsLetterFacts
<1>8. s.queue \in [Slots -> QueuedMessage \cup {Empty}]
  BY DEF ServerRecord
<1> HIDE DEF i, e, r
<1>9. \A j \in Unread(s) : r.queue[j] = s.queue[j]
  BY <1>1, <1>6, <1>8 DEF Unread
<1>10. Letters(r) = Letters(s)
  BY <1>5, <1>9, LettersSame
<1>11. Fifo!Delivered(Owed(s), AsLetter(m), Owed(r))
  BY <1>1, <1>3, <1>4, <1>6, <1>7, TokenIsDelivered
<1> QED BY <1>10, <1>11 DEF r

LEMMA NothingUnread ==
    ASSUME NEW s \in ServerRecord, Agrees(s), Unread(s) = {}
    PROVE  Letters(s) = <<>>
<1>1. Pending(s) \in Nat /\ Letters(s) \in Seq(Fifo!Letter) /\ Len(Letters(s)) = Pending(s)
  BY LettersFacts
<1>2. Pending(s) = 0
  <2> SUFFICES ASSUME Pending(s) # 0 PROVE FALSE
    OBVIOUS
  <2>1. 1 \in 1 .. Pending(s)
    BY <1>1
  <2> QED BY <2>1, SlotOfFacts
<1> QED BY <1>1, <1>2, EmptySeq

-----------------------------------------------------------------------------
\* receive_message, after whatever the call did before it: the oldest message is
\* received, or nothing changes.
LEMMA ReceiveNextIsReceive ==
    ASSUME NEW s \in ServerRecord, Good(s), NEW t \in Tids
    PROVE  LET r == ReceiveNext(s, t)
           IN  \/ /\ Letters(s) # <<>> /\ Letters(r) = Tail(Letters(s))
                  /\ Fifo!Delivered(Owed(s), Head(Letters(s)), Owed(r))
               \/ Letters(r) = Letters(s) /\ Owed(r) = Owed(s)
<1>1. CASE HasNextMessage(s)
  BY <1>1, TakeNextIsReceive DEF ReceiveNext
<1>2. CASE ~HasNextMessage(s)
  BY <1>2, ThreadsAreNotSeen DEF ReceiveNext, Good
<1> QED BY <1>1, <1>2

\* A system call on a server is one operation of the channel, or none.
LEMMA StepIsFifoStep ==
    ASSUME IInv, [Next]_server
    PROVE  [Fifo!Next]_(Fifo!vars)
<1> USE DEF GenerationsAgree, SleepersHaveNothingToRead
<1>1. server \in ServerRecord /\ Good(server) /\ Agrees(server)
  BY DEF IInv, TypeOK, Good
<1> DEFINE u == Letters(server)
           v == Letters(server')
           o == Owed(server)
           p == Owed(server')
<1>2. /\ UnreadLetters = u /\ UnreadLetters' = v
      /\ OwedReplies = o /\ OwedReplies' = p
  BY MappingFacts
<1> HIDE DEF u, v, o, p
<1>3. ASSUME v = u, p = o
      PROVE  [Fifo!Next]_(Fifo!vars)
  BY <1>2, <1>3 DEF Fifo!vars
<1>4. ASSUME u # <<>>, v = Tail(u), Fifo!Delivered(o, Head(u), p)
      PROVE  [Fifo!Next]_(Fifo!vars)
  BY <1>2, <1>4 DEF Fifo!Next, Fifo!Receive
<1>5. ASSUME NEW m \in Message, SendMessage(m) PROVE [Fifo!Next]_(Fifo!vars)
  <2> DEFINE s == take_available_thread(server)
  <2>1. AsLetter(m) \in Fifo!Letter /\ m.tid \in Tids
    BY AsLetterFacts DEF Message
  <2>2. s \in ServerRecord /\ Good(s) /\ EmptySlots(s) = EmptySlots(server)
        /\ (server.ready_threads # {} => Unread(s) = {})
    BY <1>1, TakeThreadGood
  <2>3. Letters(s) = u /\ Owed(s) = o
    BY <1>1, <2>1, ThreadsAreNotSeen DEF u, o
  <2>4. CASE Enqueue(m)
    <3>1. v = Append(u, AsLetter(m)) /\ p = o
      BY <1>1, <2>4, EnqueueIsSend DEF Enqueue, u, v, o, p
    <3> QED BY <1>2, <2>1, <3>1 DEF Fifo!Next, Fifo!Send
  <2>5. CASE HandOff(m) /\ Blocking(m)
    <3>1. server' = queue_response(s, m) /\ EmptySlots(s) # {} /\ Unread(s) = {}
      BY <2>2, <2>5 DEF HandOff
    <3> HIDE DEF s
    <3>2. v = u /\ Fifo!Delivered(o, AsLetter(m), p)
      BY <2>2, <2>3, <2>5, <3>1, ResponseIsHandOff DEF Good, v, p
    <3>3. u = <<>>
      BY <2>2, <2>3, <3>1, NothingUnread DEF Good
    <3> QED BY <1>2, <2>1, <3>2, <3>3 DEF Fifo!Next, Fifo!HandOff
  <2>6. CASE (HandOff(m) /\ ~Blocking(m)) \/ DropThread(m)
    <3>1. server' = s
      BY <2>6 DEF HandOff, DropThread
    <3> QED BY <1>3, <2>3, <3>1 DEF v, p
  <2> QED BY <1>5, <2>4, <2>5, <2>6 DEF SendMessage
<1>6. ASSUME NEW t \in Tids, ReceiveMessage(t) PROVE [Fifo!Next]_(Fifo!vars)
  <2>1. server' = ReceiveNext(server, t)
    BY <1>6 DEF ReceiveMessage
  <2> QED BY <1>1, <1>3, <1>4, <2>1, ReceiveNextIsReceive DEF u, v, o, p
<1>7. CASE TryReceiveMessage
  BY <1>1, <1>4, <1>7, TakeNextIsReceive DEF TryReceiveMessage, u, v, o, p
<1>8. ASSUME NEW i \in Slots, Reply(i) PROVE [Fifo!Next]_(Fifo!vars)
  <2>1. i \in DOMAIN o /\ p = Fifo!Without(o, i) /\ v = u
    BY <1>1, <1>8, TakeWaitingIsReply DEF Reply, u, v, o, p
  <2> QED BY <1>2, <2>1 DEF Fifo!Next, Fifo!Reply
<1>9. ASSUME NEW t \in Tids, NEW i \in Slots, ReplyAndReceiveNext(t, i)
      PROVE  [Fifo!Next]_(Fifo!vars)
  <2>1. CASE ~IsWaiting(server, i)
    <3>1. server' = ReceiveNext(server, t)
      BY <1>9, <2>1 DEF ReplyAndReceiveNext
    <3> QED BY <1>1, <1>3, <1>4, <3>1, ReceiveNextIsReceive DEF u, v, o, p
  <2>2. CASE IsWaiting(server, i)
    <3> DEFINE s == take_waiting_message(server, i)
    <3>1. server' = ReceiveNext(s, t)
      BY <1>9, <2>2 DEF ReplyAndReceiveNext
    <3>2. s \in ServerRecord /\ Good(s)
      BY <1>1, <2>2, TakeWaitingType, TakeWaitingSame, SameKeepsAgreement
         DEF Good, SleepersIdle, SameUnread
    <3>3. i \in DOMAIN o /\ Owed(s) = Fifo!Without(o, i) /\ Letters(s) = u
      BY <1>1, <2>2, TakeWaitingIsReply DEF u, o
    <3> HIDE DEF s
    <3>4. \/ u # <<>> /\ v = Tail(u) /\ Fifo!Delivered(Fifo!Without(o, i), Head(u), p)
          \/ v = u /\ p = Fifo!Without(o, i)
      BY <3>1, <3>2, <3>3, ReceiveNextIsReceive DEF v, p
    <3> QED BY <1>2, <3>3, <3>4 DEF Fifo!Next, Fifo!Reply, Fifo!ReplyAndReceive
  <2> QED BY <2>1, <2>2
<1>10. ASSUME NEW pid \in Pids, TerminateClient(pid) PROVE [Fifo!Next]_(Fifo!vars)
  <2>1. p = o /\ v = [n \in DOMAIN u |-> Fifo!Forget(u[n], {pid} \X Tids)]
    BY <1>1, <1>10, DiscardIsDiscard DEF TerminateClient, u, v, o, p
  <2>2. {pid} \X Tids \in SUBSET (Pids \X Tids)
    OBVIOUS
  <2> QED BY <1>2, <2>1, <2>2 DEF Fifo!Next, Fifo!Discard
<1>11. CASE UNCHANGED server
  BY <1>3, <1>11 DEF u, v, o, p
<1> QED BY <1>5, <1>6, <1>7, <1>8, <1>9, <1>10, <1>11 DEF Next

\* The queue of server.rs, with its slots, indices and wrapping generations, is a
\* first-in first-out channel that owes one reply per blocking message: every
\* system call on it is one operation of the channel, or none.
THEOREM QueueImplementsFifo == Spec => ImplementsFifo
<1>1. Init => Fifo!Init
  <2> SUFFICES ASSUME Init PROVE Fifo!Init
    OBVIOUS
  <2>1. server \in ServerRecord /\ Agrees(server) /\ Unread(server) = {}
    BY InitGood, TagsDisjoint DEF Init, init, IInv, TypeOK, GenerationsAgree, Unread
  <2>2. UnreadLetters = <<>>
    BY <2>1, NothingUnread, MappingFacts
  <2>3. \A j \in Slots : ~is_in_server(server.queue[j])
    BY TagsDisjoint DEF Init, init
  <2>4. OwedReplies = <<>>
    BY <2>3 DEF OwedReplies
  <2> QED BY <2>2, <2>4 DEF Fifo!Init
<1>2. IInv /\ [Next]_server => [Fifo!Next]_(Fifo!vars)
  BY StepIsFifoStep
<1> QED BY <1>1, <1>2, Invariance, PTL DEF Spec, ImplementsFifo, Fifo!Spec
=============================================================================
