--------------------------- MODULE ServerProofs -----------------------------
(***************************************************************************)
(* What the methods of `struct Server` do to a server's record, for any    *)
(* number of slots and of generations: lemmas for the proofs about one     *)
(* queue, ServerQueueProofs, and about the kernel, KernelProofs.           *)
(***************************************************************************)
EXTENDS Server, TLAPS, WellFoundedInduction, FiniteSetTheorems

-----------------------------------------------------------------------------
(***************************************************************************)
(* The searches.                                                           *)
(***************************************************************************)

\* A non-empty set of naturals has a least element.
LEMMA LeastNatural ==
    ASSUME NEW S \in SUBSET Nat, S # {}
    PROVE  \E x \in S : \A y \in S : x <= y
<1>1. PICK x \in S : \A y \in S : ~ (<<y, x>> \in OpToRel(<, Nat))
  BY NatLessThanWellFounded, WFMin
<1>2. \A y \in S : ~ (y < x)
  BY <1>1 DEF OpToRel
<1> QED BY <1>2

\* A search round the ring over a non-empty set of slots ends in the set: the
\* loops of queue_message, queue_response and take_next_message find a slot
\* when there is one.
LEMMA FirstFromFinds ==
    ASSUME NEW i \in Slots, NEW S \in SUBSET Slots, S # {}
    PROVE  FirstFrom(i, S) \in S
<1> DEFINE D == {SlotDist(i, j) : j \in S}
<1>1. \A j \in S : SlotDist(i, j) \in Nat
  BY ServerAssumption DEF Slots, SlotDist
<1>2. D \in SUBSET Nat /\ D # {}
  BY <1>1
<1>3. PICK d \in D : \A e \in D : d <= e
  BY <1>2, LeastNatural
<1>4. \E j \in S : \A k \in S : SlotDist(i, j) <= SlotDist(i, k)
  BY <1>3
<1> QED BY <1>4 DEF FirstFrom

-----------------------------------------------------------------------------
(***************************************************************************)
(* Type correctness.                                                       *)
(***************************************************************************)

\* The indices and the generations stay in their ranges when they wrap.
LEMMA WrapType ==
    /\ \A i \in Slots : NextSlot(i) \in Slots
    /\ \A g \in GenNumbers : NextGen(g) \in GenNumbers /\ PrevGen(g) \in GenNumbers
    /\ 0 \in Slots /\ 0 \in GenNumbers
BY ServerAssumption DEF Slots, GenNumbers, NextSlot, NextGen, PrevGen

LEMMA FillSlotType ==
    ASSUME NEW s \in ServerRecord, NEW i \in Slots, NEW e \in QueuedMessage
    PROVE  FillSlot(s, i, e) \in ServerRecord
BY WrapType DEF FillSlot, ServerRecord

LEMMA EmptySlotFound ==
    ASSUME NEW s \in ServerRecord, EmptySlots(s) # {}
    PROVE  FirstFrom(s.queue_head, EmptySlots(s)) \in EmptySlots(s)
BY FirstFromFinds DEF EmptySlots, ServerRecord

LEMMA QueueMessageType ==
    ASSUME NEW s \in ServerRecord, NEW m \in Message, EmptySlots(s) # {}
    PROVE  queue_message(s, m) \in ServerRecord
<1> DEFINE i == FirstFrom(s.queue_head, EmptySlots(s))
           e == [tag |-> QueuedTag(m.kind), pid |-> m.pid, tid |-> m.tid,
                 idx |-> s.tail_generation, payload |-> m.payload]
<1>1. i \in Slots
  BY EmptySlotFound DEF EmptySlots
<1>2. QueuedTag(m.kind) \in UnreadTags
  BY DEF Message, Kinds, ScalarKinds, MemoryKinds, QueuedTag, UnreadTags, QueuedTags
<1>3. e \in QueuedMessage
  BY <1>2 DEF Message, QueuedMessage, ServerRecord
<1>4. FillSlot(s, i, e) \in ServerRecord
  BY <1>1, <1>3, FillSlotType
<1>5. queue_message(s, m) = [FillSlot(s, i, e) EXCEPT !.tail_generation = NextGen(@)]
  BY DEF queue_message
<1> HIDE DEF i, e
<1> QED BY <1>4, <1>5, WrapType DEF ServerRecord

LEMMA QueueResponseType ==
    ASSUME NEW s \in ServerRecord, NEW m \in Message, EmptySlots(s) # {}
    PROVE  queue_response(s, m) \in ServerRecord
<1> DEFINE e == [tag |-> ResponseTag(m.kind), pid |-> m.pid, tid |-> m.tid,
                 idx |-> 0, payload |-> m.payload]
<1>1. ResponseSlot(s) \in Slots
  BY EmptySlotFound DEF ResponseSlot, EmptySlots
<1>2. ResponseTag(m.kind) \in WaitingTags
  BY DEF Message, Kinds, ScalarKinds, MemoryKinds, ResponseTag, WaitingTags
<1>3. e \in QueuedMessage
  BY <1>2, WrapType DEF Message, QueuedMessage
<1> QED BY <1>1, <1>3, FillSlotType DEF queue_response

LEMMA AfterReceiveType ==
    ASSUME NEW e \in QueuedMessage
    PROVE  /\ AfterReceive(e) \in QueuedMessage \cup {Empty}
           /\ ~IsUnread(AfterReceive(e))
BY DEF AfterReceive, QueuedMessage, Empty, WaitingTags, IsUnread, UnreadTags,
       QueuedTags, TerminatedTags

LEMMA NextMessageFound ==
    ASSUME NEW s \in ServerRecord, HasNextMessage(s)
    PROVE  NextMessageSlot(s) \in NextMessageSlots(s)
BY FirstFromFinds DEF HasNextMessage, NextMessageSlot, NextMessageSlots, ServerRecord

\* An entry with a tag other than Empty's is a message or a token.
LEMMA EntryIsMessage ==
    ASSUME NEW s \in ServerRecord, NEW i \in Slots, ~IsEmpty(s.queue[i])
    PROVE  s.queue[i] \in QueuedMessage
BY DEF ServerRecord, IsEmpty, Empty

LEMMA TagsDisjoint ==
    ASSUME NEW e
    PROVE  /\ IsUnread(e) => ~IsEmpty(e) /\ ~is_in_server(e)
           /\ is_in_server(e) => ~IsEmpty(e) /\ ~IsUnread(e)
           /\ ~IsUnread(Empty) /\ ~is_in_server(Empty)
BY DEF IsUnread, IsEmpty, is_in_server, UnreadTags, QueuedTags, TerminatedTags,
       WaitingTags, Empty

LEMMA TakeNextType ==
    ASSUME NEW s \in ServerRecord, HasNextMessage(s)
    PROVE  take_next_message(s) \in ServerRecord
<1> DEFINE i == NextMessageSlot(s)
<1>1. i \in Slots /\ IsUnread(s.queue[i])
  BY NextMessageFound DEF NextMessageSlots
<1>2. AfterReceive(s.queue[i]) \in QueuedMessage \cup {Empty}
  BY <1>1, TagsDisjoint, EntryIsMessage, AfterReceiveType
<1> QED BY <1>1, <1>2, WrapType DEF take_next_message, ServerRecord

LEMMA TakeWaitingType ==
    ASSUME NEW s \in ServerRecord, NEW i \in Slots
    PROVE  take_waiting_message(s, i) \in ServerRecord
<1> DEFINE queue == [s.queue EXCEPT ![i] = Empty]
           stop  == {s.queue_head} \cup {j \in Slots : ~IsEmpty(queue[j])}
<1>1. queue \in [Slots -> QueuedMessage \cup {Empty}]
  BY DEF ServerRecord
<1>2. stop \in SUBSET Slots /\ stop # {} /\ NextSlot(i) \in Slots
  BY WrapType DEF ServerRecord
<1>3. FirstFrom(NextSlot(i), stop) \in Slots
  BY <1>2, FirstFromFinds
<1>4. take_waiting_message(s, i) =
        [s EXCEPT !.queue = queue,
                  !.queue_tail = IF i = @ THEN FirstFrom(NextSlot(i), stop) ELSE @]
  BY DEF take_waiting_message
<1> HIDE DEF queue, stop
<1> QED BY <1>1, <1>3, <1>4 DEF ServerRecord

LEMMA DiscardType ==
    ASSUME NEW s \in ServerRecord, NEW pid
    PROVE  discard_messages_for_pid(s, pid) \in ServerRecord
<1>1. ASSUME NEW i \in Slots, ~IsEmpty(s.queue[i])
      PROVE  Terminated(s.queue[i]) \in QueuedMessage
  BY <1>1, EntryIsMessage DEF Terminated, QueuedMessage, UnreadTags, TerminatedTags
<1> QED BY <1>1 DEF discard_messages_for_pid, ServerRecord

LEMMA ParkType ==
    ASSUME NEW s \in ServerRecord, NEW t \in Tids
    PROVE  /\ park_thread(s, t) \in ServerRecord
           /\ take_available_thread(s) \in ServerRecord
BY DEF park_thread, take_available_thread, ServerRecord

LEMMA ReceiveNextType ==
    ASSUME NEW s \in ServerRecord, NEW t \in Tids
    PROVE  ReceiveNext(s, t) \in ServerRecord
BY TakeNextType, ParkType DEF ReceiveNext

-----------------------------------------------------------------------------
(***************************************************************************)
(* The generation protocol.                                                *)
(***************************************************************************)

\* Distances between generations, on a circle of Generations numbers.
LEMMA GenDistFacts ==
    ASSUME NEW a \in GenNumbers, NEW b \in GenNumbers
    PROVE  /\ GenDist(a, b) \in 0 .. Generations - 1 /\ GenDist(a, b) \in Nat
           /\ GenDist(a, a) = 0
           /\ GenDist(a, b) = 0 <=> a = b
           /\ b # PrevGen(a) => GenDist(a, NextGen(b)) = GenDist(a, b) + 1
           /\ a # b => GenDist(NextGen(a), b) = GenDist(a, b) - 1
           /\ GenDist(NextGen(a), a) = Generations - 1
           /\ GenDist(a, PrevGen(a)) = Generations - 1
BY ServerAssumption DEF GenNumbers, GenDist, NextGen, PrevGen

LEMMA GenDistInjective ==
    ASSUME NEW a \in GenNumbers, NEW b \in GenNumbers, NEW c \in GenNumbers,
           GenDist(a, b) = GenDist(a, c)
    PROVE  b = c
BY ServerAssumption DEF GenNumbers, GenDist

\* What a step does to the unread messages is one of three things.  It gives
\* the next number to a new one, ...
LEMMA AddKeepsAgreement ==
    ASSUME NEW s \in ServerRecord, NEW r \in ServerRecord, Agrees(s),
           ~GenerationsFull(s), NEW i \in Slots, NEW e \in QueuedMessage,
           ~IsUnread(s.queue[i]), IsUnread(e), e.idx = s.tail_generation,
           r.queue = [s.queue EXCEPT ![i] = e],
           r.head_generation = s.head_generation,
           r.tail_generation = NextGen(s.tail_generation)
    PROVE  Agrees(r)
<1> DEFINE h == s.head_generation
           t == s.tail_generation
<1>1. h \in GenNumbers /\ t \in GenNumbers
  BY DEF ServerRecord
<1>2. Pending(r) = Pending(s) + 1 /\ Pending(s) \in Nat
  BY <1>1, GenDistFacts DEF Pending, GenerationsFull, ServerRecord, GenNumbers
<1>3. Unread(r) = Unread(s) \cup {i}
  BY DEF Unread, ServerRecord
<1>4. \A j \in Unread(s) : j # i /\ r.queue[j] = s.queue[j]
                            /\ s.queue[j].idx \in GenNumbers /\ j \in Slots
  BY TagsDisjoint, EntryIsMessage DEF Unread, ServerRecord, QueuedMessage
<1>5. r.queue[i].idx = t
  BY DEF ServerRecord
<1>6. \A j \in Unread(s) : GenDist(h, s.queue[j].idx) < Pending(s)
  BY DEF Agrees, UnreadNumbered
<1>7. GenDist(h, t) = Pending(s)
  BY DEF Pending
<1>8. UnreadNumbered(r)
  <2>1. \A j \in Unread(s) : GenDist(h, s.queue[j].idx) \in Nat
    BY <1>1, <1>4, GenDistFacts
  <2>2. \A j \in Unread(r) : GenDist(h, r.queue[j].idx) < Pending(s) + 1
    BY <1>2, <1>3, <1>4, <1>5, <1>6, <1>7, <2>1
  <2> QED BY <1>2, <2>2 DEF UnreadNumbered
<1>9. UnreadDistinct(r)
  <2>1. \A j \in Unread(s) : s.queue[j].idx # t
    BY <1>2, <1>6, <1>7
  <2> QED BY <1>3, <1>4, <1>5, <2>1 DEF Agrees, UnreadDistinct
<1>10. NoneMissing(r)
  <2> SUFFICES ASSUME NEW g \in GenNumbers, GenDist(h, g) < Pending(s) + 1
               PROVE  \E j \in Unread(r) : r.queue[j].idx = g
    BY <1>2 DEF NoneMissing
  <2>1. CASE GenDist(h, g) < Pending(s)
    BY <2>1, <1>3, <1>4 DEF Agrees, NoneMissing
  <2>2. CASE GenDist(h, g) = GenDist(h, t)
    BY <2>2, <1>1, <1>3, <1>5, GenDistInjective
  <2>3. GenDist(h, g) \in Nat
    BY <1>1, GenDistFacts
  <2> QED BY <2>1, <2>2, <2>3, <1>2, <1>7
<1> QED BY <1>8, <1>9, <1>10 DEF Agrees

\* ... or takes the one whose turn it is, ...
LEMMA TakeKeepsAgreement ==
    ASSUME NEW s \in ServerRecord, NEW r \in ServerRecord, Agrees(s),
           s.tail_generation # s.head_generation,
           NEW i \in Unread(s), s.queue[i].idx = s.head_generation,
           Unread(r) = Unread(s) \ {i},
           \A j \in Unread(r) : r.queue[j] = s.queue[j],
           r.head_generation = NextGen(s.head_generation),
           r.tail_generation = s.tail_generation
    PROVE  Agrees(r)
<1> DEFINE h == s.head_generation
           t == s.tail_generation
<1>1. h \in GenNumbers /\ t \in GenNumbers
  BY DEF ServerRecord
<1>2. Pending(r) = Pending(s) - 1 /\ Pending(s) \in 1 .. Generations - 1
  BY <1>1, GenDistFacts, ServerAssumption DEF Pending
<1>3. \A j \in Unread(s) : s.queue[j].idx \in GenNumbers
  BY TagsDisjoint, EntryIsMessage DEF Unread, QueuedMessage
<1>4. \A j \in Unread(r) : s.queue[j].idx # h
  BY DEF Agrees, UnreadDistinct
<1>5. UnreadNumbered(r)
  <2> SUFFICES ASSUME NEW j \in Unread(r)
               PROVE  GenDist(NextGen(h), s.queue[j].idx) < Pending(s) - 1
    BY <1>2 DEF UnreadNumbered
  <2>1. GenDist(h, s.queue[j].idx) < Pending(s)
    BY DEF Agrees, UnreadNumbered
  <2>2. /\ GenDist(NextGen(h), s.queue[j].idx) = GenDist(h, s.queue[j].idx) - 1
        /\ GenDist(h, s.queue[j].idx) \in Int
    BY <1>1, <1>3, <1>4, GenDistFacts
  <2> QED BY <2>1, <2>2, <1>2
<1>6. UnreadDistinct(r)
  BY DEF Agrees, UnreadDistinct
<1>7. NoneMissing(r)
  <2> SUFFICES ASSUME NEW g \in GenNumbers, GenDist(NextGen(h), g) < Pending(s) - 1
               PROVE  \E j \in Unread(r) : r.queue[j].idx = g
    BY <1>2 DEF NoneMissing
  <2>1. g # h
    BY <1>1, <1>2, GenDistFacts, ServerAssumption
  <2>2. GenDist(h, g) < Pending(s)
    BY <1>1, <1>2, <2>1, GenDistFacts
  <2>3. PICK j \in Unread(s) : s.queue[j].idx = g
    BY <2>2 DEF Agrees, NoneMissing
  <2> QED BY <2>1, <2>3
<1> QED BY <1>5, <1>6, <1>7 DEF Agrees

\* ... or leaves them where they are with the numbers they have.
SameUnread(s, r) ==
    /\ Unread(r) = Unread(s)
    /\ \A j \in Unread(s) : r.queue[j].idx = s.queue[j].idx
    /\ r.head_generation = s.head_generation
    /\ r.tail_generation = s.tail_generation

LEMMA SameKeepsAgreement ==
    ASSUME NEW s, NEW r, SameUnread(s, r), Agrees(s)
    PROVE  Agrees(r)
BY DEF SameUnread, Agrees, UnreadNumbered, UnreadDistinct, NoneMissing, Pending

\* Filling an empty slot with a token, taking a token, the termination of a
\* client, and the list of sleeping threads leave the unread messages alone.
LEMMA ResponseSame ==
    ASSUME NEW s \in ServerRecord, NEW m \in Message, EmptySlots(s) # {}
    PROVE  /\ SameUnread(s, queue_response(s, m))
           /\ queue_response(s, m).ready_threads = s.ready_threads
<1> DEFINE i == ResponseSlot(s)
           e == [tag |-> ResponseTag(m.kind), pid |-> m.pid, tid |-> m.tid,
                 idx |-> 0, payload |-> m.payload]
           r == queue_response(s, m)
<1>1. i \in Slots /\ ~IsUnread(s.queue[i])
  BY EmptySlotFound, TagsDisjoint DEF ResponseSlot, EmptySlots
<1>2. ResponseTag(m.kind) \in WaitingTags
  BY DEF Message, Kinds, ScalarKinds, MemoryKinds, ResponseTag, WaitingTags
<1>3. ~IsUnread(e)
  BY <1>2, TagsDisjoint DEF is_in_server
<1>4. /\ r.queue = [s.queue EXCEPT ![i] = e]
      /\ r.head_generation = s.head_generation
      /\ r.tail_generation = s.tail_generation
      /\ r.ready_threads = s.ready_threads
  BY DEF queue_response, FillSlot, ServerRecord
<1>5. s.queue \in [Slots -> QueuedMessage \cup {Empty}]
  BY DEF ServerRecord
<1> HIDE DEF r, e, i
<1>6. Unread(r) = Unread(s)
  BY <1>1, <1>3, <1>4, <1>5 DEF Unread
<1>7. \A j \in Unread(s) : r.queue[j] = s.queue[j]
  BY <1>1, <1>4, <1>5 DEF Unread
<1> QED BY <1>4, <1>6, <1>7 DEF SameUnread, r

LEMMA TakeWaitingSame ==
    ASSUME NEW s \in ServerRecord, NEW i \in Slots, IsWaiting(s, i)
    PROVE  /\ SameUnread(s, take_waiting_message(s, i))
           /\ take_waiting_message(s, i).ready_threads = s.ready_threads
<1> DEFINE r == take_waiting_message(s, i)
<1>1. /\ r.queue = [s.queue EXCEPT ![i] = Empty]
      /\ r.head_generation = s.head_generation
      /\ r.tail_generation = s.tail_generation
      /\ r.ready_threads = s.ready_threads
  BY DEF take_waiting_message, ServerRecord
<1>2. ~IsUnread(s.queue[i]) /\ ~IsUnread(Empty)
  BY TagsDisjoint DEF IsWaiting
<1>3. s.queue \in [Slots -> QueuedMessage \cup {Empty}]
  BY DEF ServerRecord
<1> HIDE DEF r
<1>4. Unread(r) = Unread(s)
  BY <1>1, <1>2, <1>3 DEF Unread
<1>5. \A j \in Unread(s) : r.queue[j] = s.queue[j]
  BY <1>1, <1>2, <1>3 DEF Unread
<1> QED BY <1>1, <1>4, <1>5 DEF SameUnread, r

LEMMA DiscardSame ==
    ASSUME NEW s \in ServerRecord, NEW pid
    PROVE  /\ SameUnread(s, discard_messages_for_pid(s, pid))
           /\ discard_messages_for_pid(s, pid).ready_threads = s.ready_threads
<1> DEFINE r == discard_messages_for_pid(s, pid)
<1>1. ASSUME NEW e \in QueuedMessage
      PROVE  (IsUnread(Terminated(e)) <=> IsUnread(e)) /\ Terminated(e).idx = e.idx
  BY DEF Terminated, IsUnread, QueuedMessage, UnreadTags, QueuedTags, TerminatedTags,
         WaitingTags
<1>2. \A i \in Slots : \/ r.queue[i] = s.queue[i]
                       \/ /\ r.queue[i] = Terminated(s.queue[i])
                          /\ s.queue[i] \in QueuedMessage
  BY EntryIsMessage DEF discard_messages_for_pid, ServerRecord
<1>3. /\ r.head_generation = s.head_generation
      /\ r.tail_generation = s.tail_generation
      /\ r.ready_threads = s.ready_threads
  BY DEF discard_messages_for_pid, ServerRecord
<1> HIDE DEF r
<1>4. \A i \in Slots : IsUnread(r.queue[i]) <=> IsUnread(s.queue[i])
  BY <1>1, <1>2
<1>5. \A i \in Slots : IsUnread(s.queue[i]) => r.queue[i].idx = s.queue[i].idx
  BY <1>1, <1>2
<1> QED BY <1>3, <1>4, <1>5 DEF SameUnread, Unread, r

LEMMA ThreadsSame ==
    ASSUME NEW s \in ServerRecord, NEW t
    PROVE  SameUnread(s, park_thread(s, t)) /\ SameUnread(s, take_available_thread(s))
BY DEF SameUnread, Unread, park_thread, take_available_thread, ServerRecord

-----------------------------------------------------------------------------
\* When take_next_message finds nothing, there is nothing: it looks for one
\* number only, and gives up after one turn round the queue.
LEMMA NothingFoundNothingThere ==
    ASSUME NEW s \in ServerRecord, Agrees(s), ~HasNextMessage(s)
    PROVE  Unread(s) = {}
<1> DEFINE h == s.head_generation
<1>1. h \in GenNumbers /\ s.tail_generation \in GenNumbers
  BY DEF ServerRecord
<1>2. \A j \in Unread(s) : s.queue[j].idx \in GenNumbers
  BY TagsDisjoint, EntryIsMessage DEF Unread, QueuedMessage
<1>3. CASE s.tail_generation = h
  <2>1. Pending(s) = 0
    BY <1>1, <1>3, GenDistFacts DEF Pending
  <2>2. \A j \in Unread(s) : GenDist(h, s.queue[j].idx) \in Nat
    BY <1>1, <1>2, GenDistFacts
  <2> QED BY <2>1, <2>2 DEF Agrees, UnreadNumbered
<1>4. CASE s.tail_generation # h
  <2>1. GenDist(h, h) < Pending(s)
    BY <1>1, <1>4, GenDistFacts DEF Pending
  <2>2. PICK j \in Unread(s) : s.queue[j].idx = h
    BY <1>1, <2>1 DEF Agrees, NoneMissing
  <2>3. j \in NextMessageSlots(s)
    BY <2>2 DEF NextMessageSlots, Unread
  <2> QED BY <1>4, <2>3 DEF HasNextMessage
<1> QED BY <1>3, <1>4

Good(s) == Agrees(s) /\ SleepersIdle(s)

LEMMA TakeNextGood ==
    ASSUME NEW s \in ServerRecord, Good(s), HasNextMessage(s)
    PROVE  Good(take_next_message(s))
<1> DEFINE i == NextMessageSlot(s)
           r == take_next_message(s)
<1>1. i \in Slots /\ i \in Unread(s) /\ s.queue[i].idx = s.head_generation
  BY NextMessageFound DEF NextMessageSlots, Unread
<1>2. ~IsUnread(AfterReceive(s.queue[i]))
  BY <1>1, TagsDisjoint, EntryIsMessage, AfterReceiveType DEF Unread
<1>3. /\ r.queue = [s.queue EXCEPT ![i] = AfterReceive(s.queue[i])]
      /\ r.head_generation = NextGen(s.head_generation)
      /\ r.tail_generation = s.tail_generation
      /\ r.ready_threads = s.ready_threads
  BY <1>1 DEF take_next_message, ServerRecord
<1>4. s.queue \in [Slots -> QueuedMessage \cup {Empty}]
  BY DEF ServerRecord
<1>5. r \in ServerRecord
  BY TakeNextType
<1>6. s.tail_generation # s.head_generation
  BY DEF HasNextMessage
<1> HIDE DEF r, i
<1>7. Unread(r) = Unread(s) \ {i} /\ \A j \in Unread(r) : r.queue[j] = s.queue[j]
  BY <1>1, <1>2, <1>3, <1>4 DEF Unread
<1>8. Agrees(r)
  BY <1>1, <1>3, <1>5, <1>6, <1>7, TakeKeepsAgreement DEF Good
<1> QED BY <1>3, <1>7, <1>8 DEF Good, SleepersIdle, r

LEMMA ReceiveNextGood ==
    ASSUME NEW s \in ServerRecord, NEW t \in Tids, Good(s)
    PROVE  Good(ReceiveNext(s, t))
<1>1. CASE HasNextMessage(s)
  BY <1>1, TakeNextGood DEF ReceiveNext
<1>2. CASE ~HasNextMessage(s)
  <2>1. SameUnread(s, park_thread(s, t))
    BY ThreadsSame
  <2>2. Unread(s) = {}
    BY <1>2, NothingFoundNothingThere DEF Good
  <2> QED BY <1>2, <2>1, <2>2, SameKeepsAgreement DEF Good, SleepersIdle, SameUnread,
                                                     ReceiveNext
<1> QED BY <1>1, <1>2

\* A message that is queued while no thread sleeps.
LEMMA QueueMessageGood ==
    ASSUME NEW s \in ServerRecord, Good(s), NEW m \in Message,
           s.ready_threads = {}, CanDeliver(s, m), EmptySlots(s) # {}
    PROVE  Good(queue_message(s, m))
<1> DEFINE i == FirstFrom(s.queue_head, EmptySlots(s))
           e == [tag |-> QueuedTag(m.kind), pid |-> m.pid, tid |-> m.tid,
                 idx |-> s.tail_generation, payload |-> m.payload]
           r == queue_message(s, m)
<1>1. r \in ServerRecord
  BY QueueMessageType
<1>2. i \in Slots /\ ~IsUnread(s.queue[i])
  BY EmptySlotFound, TagsDisjoint DEF EmptySlots
<1>3. QueuedTag(m.kind) \in UnreadTags
  BY DEF Message, Kinds, ScalarKinds, MemoryKinds, QueuedTag, UnreadTags, QueuedTags
<1>4. e \in QueuedMessage /\ IsUnread(e) /\ e.idx = s.tail_generation
  BY <1>3 DEF Message, QueuedMessage, ServerRecord, IsUnread
<1>5. /\ r.queue = [s.queue EXCEPT ![i] = e]
      /\ r.head_generation = s.head_generation
      /\ r.tail_generation = NextGen(s.tail_generation)
      /\ r.ready_threads = s.ready_threads
  BY DEF queue_message, FillSlot, ServerRecord
<1>6. ~GenerationsFull(s)
  BY DEF CanDeliver, has_queue_capacity, has_queue_capacity_scalar
<1> HIDE DEF i, e, r
<1>7. Agrees(r)
  BY <1>1, <1>2, <1>4, <1>5, <1>6, AddKeepsAgreement DEF Good
<1> QED BY <1>5, <1>7 DEF Good, SleepersIdle, r

\* A thread that sleeps is taken, ...
LEMMA TakeThreadGood ==
    ASSUME NEW s \in ServerRecord, Good(s)
    PROVE  /\ take_available_thread(s) \in ServerRecord
           /\ Good(take_available_thread(s))
           /\ EmptySlots(take_available_thread(s)) = EmptySlots(s)
           /\ s.ready_threads # {} => Unread(take_available_thread(s)) = {}
<1> DEFINE r == take_available_thread(s)
<1>1. r \in ServerRecord /\ SameUnread(s, r) /\ EmptySlots(r) = EmptySlots(s)
  BY ThreadsSame DEF take_available_thread, ServerRecord, EmptySlots
<1>2. s.ready_threads = {} => r.ready_threads = {}
  BY DEF take_available_thread, ServerRecord
<1>3. s.ready_threads # {} => Unread(r) = {}
  BY <1>1 DEF Good, SleepersIdle, SameUnread
<1> HIDE DEF r
<1>4. Good(r)
  BY <1>1, <1>2, <1>3, SameKeepsAgreement DEF Good, SleepersIdle
<1> QED BY <1>1, <1>3, <1>4 DEF r

\* ... and a token left for the reply.
LEMMA QueueResponseGood ==
    ASSUME NEW s \in ServerRecord, Good(s), NEW m \in Message,
           EmptySlots(s) # {}, Unread(s) = {}
    PROVE  Good(queue_response(s, m))
<1>1. SameUnread(s, queue_response(s, m))
  BY ResponseSame
<1> QED BY <1>1, SameKeepsAgreement DEF Good, SleepersIdle, SameUnread

-----------------------------------------------------------------------------
\* The queue runs out of slots before it runs out of numbers.
LEMMA NumbersLeft ==
    ASSUME NEW s \in ServerRecord, Agrees(s), NumSlots < Generations - 1
    PROVE  ~GenerationsFull(s)
<1> SUFFICES ASSUME GenerationsFull(s) PROVE FALSE
  OBVIOUS
<1> DEFINE h == s.head_generation
           Used == {g \in GenNumbers : GenDist(h, g) < Pending(s)}
           f == [g \in Used |-> CHOOSE i \in Unread(s) : s.queue[i].idx = g]
<1>1. h \in GenNumbers /\ Pending(s) = Generations - 1
  BY GenDistFacts DEF GenerationsFull, Pending, ServerRecord
<1>2. \A g \in Used : f[g] \in Unread(s) /\ s.queue[f[g]].idx = g
  BY DEF Agrees, NoneMissing
<1>3. f \in [Used -> Slots]
  BY <1>2 DEF Unread
<1>4. Used = GenNumbers \ {PrevGen(h)}
  <2>1. \A g \in GenNumbers : GenDist(h, g) = Generations - 1 <=> g = PrevGen(h)
    BY <1>1, WrapType, GenDistFacts, GenDistInjective
  <2>2. \A g \in GenNumbers : GenDist(h, g) < Generations - 1 <=> g # PrevGen(h)
    BY <1>1, <2>1, GenDistFacts, ServerAssumption
  <2> QED BY <1>1, <2>2
<1>5. IsFiniteSet(GenNumbers) /\ Cardinality(GenNumbers) = Generations
  BY FS_Interval, ServerAssumption DEF GenNumbers
<1>6. IsFiniteSet(Slots) /\ Cardinality(Slots) = NumSlots
  BY FS_Interval, ServerAssumption DEF Slots
<1>7. IsFiniteSet(Used) /\ Cardinality(Used) = Generations - 1
  BY <1>1, <1>4, <1>5, WrapType, FS_RemoveElement
<1> HIDE DEF Used, f
<1>8. \E x, y \in Used : x # y /\ f[x] = f[y]
  BY <1>3, <1>6, <1>7, FS_PigeonHole
<1> QED BY <1>2, <1>8
=============================================================================
