---------------------------- MODULE SusresProofs ----------------------------
(***************************************************************************)
(* Proofs about the suspend service, for any subscribers in any number of  *)
(* stages and any requesters.  In order: the stages, the message queue,    *)
(* the inductive invariant, the theorems.                                  *)
(***************************************************************************)
EXTENDS Susres, TLAPS, WellFoundedInduction

-----------------------------------------------------------------------------
(***************************************************************************)
(* The stages.                                                             *)
(***************************************************************************)
\* A non-empty set of naturals has a least element.
LEMMA Least ==
  ASSUME NEW S \in SUBSET Nat, S # {}
  PROVE  \E x \in S : \A y \in S : x <= y
<1>1. PICK x \in S : \A y \in S : ~(<<y, x>> \in OpToRel(<, Nat))
  BY NatLessThanWellFounded, WFMin
<1>2. \A y \in S : ~(y < x)
  BY <1>1 DEF OpToRel
<1> QED
  BY <1>2

\* The search of send_event ends, because the last stage has a subscriber, and
\* no subscriber lies between where it began and where it ends.
LEMMA FirstStageFinds ==
  ASSUME NEW o \in Stages
  PROVE  /\ FirstStage(o) \in Stages
         /\ \E s \in Subscribers : Stage[s] = FirstStage(o)
         /\ \A s \in Subscribers : Stage[s] >= o => Stage[s] >= FirstStage(o)
<1> DEFINE S == {p \in Stages : p >= o /\ \E s \in Subscribers : Stage[s] = p}
           Fits(p) == /\ \E s \in Subscribers : Stage[s] = p
                      /\ \A s \in Subscribers : Stage[s] >= o => Stage[s] >= p
<1>1. LastStage \in Nat \ {0} /\ Stage \in [Subscribers -> Stages]
  BY SusresAssumption DEF Stages
<1>2. S \in SUBSET Nat /\ LastStage \in S
  BY <1>1, SusresAssumption DEF Stages
<1>3. PICK p \in S : \A y \in S : p <= y
  BY <1>2, Least
<1>4. p \in o .. LastStage
  BY <1>1, <1>3 DEF Stages
<1>5. \A s \in Subscribers : Stage[s] >= o => Stage[s] >= p
  BY <1>1, <1>3 DEF Stages
<1>6. \E q \in o .. LastStage : Fits(q)
  BY <1>3, <1>4, <1>5
<1>7. FirstStage(o) \in o .. LastStage /\ Fits(FirstStage(o))
  BY <1>6 DEF FirstStage
<1> QED
  BY <1>1, <1>7 DEF Stages

-----------------------------------------------------------------------------
(***************************************************************************)
(* The queue.                                                              *)
(***************************************************************************)
\* The senders, the messages, and those of requesters.
Senders  == Subscribers \cup Requesters \cup {NONE}
Messages == [op : Ops, from : Senders]
CallOps  == {"SuspendRequest", "PlatformSpecific"}

\* What a message in the queue says of its sender, in terms of sub, gated_pids,
\* req and suspend_requested.
Sound(m, sb, gated, rq, requested) ==
    /\ m.op \in CallOps =>
          m.from \in Requesters /\ rq[m.from] = m.op /\ m.from # requested
    /\ m.op = "SuspendReady" =>
          m.from \in Subscribers \ gated /\ sb[m.from] \in {"ready", "gate"}
    /\ m.op = "SuspendingNow" => m.from \in Subscribers \ gated /\ sb[m.from] = "gate"
    /\ m.op = "WasSuspendClean" => m.from \in Subscribers /\ sb[m.from] = "asks"

\* A caller has one blocking call at a time, and reports before it waits: b may
\* be behind a.
Before(a, b) ==
    a.from = b.from =>
        /\ ~(a.op \in CallOps /\ b.op \in CallOps)
        /\ ~(a.op = "SuspendingNow" /\ b.op \in {"SuspendingNow", "SuspendReady"})
        /\ ~(a.op = "WasSuspendClean" /\ b.op = "WasSuspendClean")

Ordered(q) == \A i, j \in DOMAIN q : i < j => Before(q[i], q[j])

\* What is left after a message has been received is what was behind it.
LEMMA ReceiveFacts ==
  ASSUME NEW q \in Seq(Messages), q # <<>>, Ordered(q)
  PROVE  /\ Head(q) \in Messages /\ Head(q) = q[1] /\ 1 \in DOMAIN q
         /\ Tail(q) \in Seq(Messages) /\ Ordered(Tail(q))
         /\ \A j \in DOMAIN Tail(q) : \E i \in DOMAIN q :
               Tail(q)[j] = q[i] /\ Before(Head(q), q[i])
<1>1. /\ Head(q) \in Messages /\ Head(q) = q[1] /\ 1 \in DOMAIN q
      /\ Tail(q) \in Seq(Messages)
  OBVIOUS
<1>2. \A j \in DOMAIN Tail(q) : /\ j \in Nat /\ 1 < j + 1 /\ j + 1 \in DOMAIN q
                                /\ Tail(q)[j] = q[j + 1]
  OBVIOUS
<1>3. Ordered(Tail(q))
  <2> SUFFICES ASSUME NEW i \in DOMAIN Tail(q), NEW j \in DOMAIN Tail(q), i < j
               PROVE  Before(Tail(q)[i], Tail(q)[j])
    BY DEF Ordered
  <2>1. i + 1 < j + 1
    BY <1>2
  <2> QED
    BY <1>2, <2>1 DEF Ordered
<1>4. \A j \in DOMAIN Tail(q) : Before(Head(q), q[j + 1])
  BY <1>1, <1>2 DEF Ordered
<1> QED
  BY <1>1, <1>2, <1>3, <1>4

\* A message may be sent if it may be behind all that are there.
LEMMA SendFacts ==
  ASSUME NEW q \in Seq(Messages), NEW m \in Messages, Ordered(q),
         \A i \in DOMAIN q : Before(q[i], m)
  PROVE  /\ Append(q, m) \in Seq(Messages) /\ Ordered(Append(q, m))
         /\ \A j \in DOMAIN Append(q, m) :
               Append(q, m)[j] = m \/ \E i \in DOMAIN q : Append(q, m)[j] = q[i]
<1> DEFINE p == Append(q, m)
<1>1. /\ p \in Seq(Messages) /\ DOMAIN p = 1 .. Len(q) + 1 /\ Len(q) \in Nat
      /\ DOMAIN q = 1 .. Len(q) /\ p[Len(q) + 1] = m /\ \A i \in DOMAIN q : p[i] = q[i]
  OBVIOUS
<1> HIDE DEF p
<1>2. \A j \in DOMAIN p : j \in DOMAIN q \/ j = Len(q) + 1
  BY <1>1
<1>3. Ordered(p)
  <2> SUFFICES ASSUME NEW i \in DOMAIN p, NEW j \in DOMAIN p, i < j
               PROVE  Before(p[i], p[j])
    BY DEF Ordered
  <2>1. i \in DOMAIN q
    BY <1>1
  <2>2. CASE j \in DOMAIN q
    BY <1>1, <2>1, <2>2 DEF Ordered
  <2>3. CASE j = Len(q) + 1
    BY <1>1, <2>1, <2>3
  <2> QED
    BY <1>2, <2>2, <2>3
<1> QED
  BY <1>1, <1>2, <1>3 DEF p

-----------------------------------------------------------------------------
(***************************************************************************)
(* The inductive invariant.                                                *)
(***************************************************************************)
\* Where a subscriber can be.
Places == {"runs", "ready", "gate", "released", "asks"}

\* Every message is true of its sender, and they are in an order in which their
\* senders can have sent them.
QueueSound ==
    /\ Ordered(queue)
    /\ \A i \in DOMAIN queue : Sound(queue[i], sub, gated_pids, req, suspend_requested)

\* Whoever is at the gate waits there; whoever has reported in this suspend is
\* held; the stages before the current one have reported, which has a subscriber;
\* and all have before the system sleeps.
GatedWait    == \A s \in gated_pids : sub[s] = "gate"
ReadyAreHeld == suspend_requested # NONE => \A s \in ready_to_suspend : Held(s)
StagesBefore == suspend_requested # NONE =>
    /\ \E s \in Subscribers : Stage[s] = current_op_order
    /\ \A s \in Subscribers : Stage[s] < current_op_order => s \in ready_to_suspend
AllAreReady  == suspending => \A s \in Subscribers : s \in ready_to_suspend

SuspendSound ==
    /\ OneSuspendAtATime /\ ~(suspending /\ timeout_pending)
    /\ GatedWait /\ ReadyAreHeld /\ StagesBefore /\ AllAreReady
IInv == SusresTypeOK /\ QueueSound /\ SuspendSound

\* The invariant holds at boot.
LEMMA InitInv == Init => IInv
<1> SUFFICES ASSUME Init PROVE IInv
  OBVIOUS
<1>1. 1 \in Stages
  BY SusresAssumption DEF Stages
<1>2. SusresTypeOK
  <2>1. queue \in Seq([op : Ops, from : Subscribers \cup Requesters \cup {NONE}])
    BY DEF Init
  <2>2. /\ timeout_queue \in Nat /\ events \in [Subscribers -> Nat]
        /\ sub \in [Subscribers -> {"runs", "ready", "gate", "released", "asks"}]
        /\ req \in [Requesters -> {NONE, "SuspendRequest", "PlatformSpecific"}]
        /\ current_op_order \in Stages
    BY <1>1 DEF Init
  <2> QED
    BY <2>1, <2>2, Zenon DEF Init, SusresTypeOK
<1>3. QueueSound
  BY DEF Init, QueueSound, Ordered
<1>4. SuspendSound
  BY DEF Init, SuspendSound, OneSuspendAtATime, GatedWait, ReadyAreHeld, StagesBefore, AllAreReady
<1> QED
  BY <1>2, <1>3, <1>4 DEF IInv

\* What a step that receives a message finds in the queue and leaves there.
LEMMA Received ==
  ASSUME IInv, queue # <<>>, queue' = Tail(queue)
  PROVE  /\ queue' \in Seq(Messages) /\ Ordered(queue')
         /\ Head(queue) \in Messages
         /\ Sound(Head(queue), sub, gated_pids, req, suspend_requested)
         /\ \A j \in DOMAIN queue' :
               /\ Sound(queue'[j], sub, gated_pids, req, suspend_requested)
               /\ Before(Head(queue), queue'[j]) /\ queue'[j] \in Messages
<1>1. queue \in Seq(Messages) /\ Ordered(queue)
  BY DEF IInv, SusresTypeOK, QueueSound, Messages, Senders
<1>2. /\ Head(queue) \in Messages /\ Head(queue) = queue[1] /\ 1 \in DOMAIN queue
      /\ queue' \in Seq(Messages) /\ Ordered(queue')
      /\ \A j \in DOMAIN queue' : \E i \in DOMAIN queue :
            queue'[j] = queue[i] /\ Before(Head(queue), queue[i])
  BY <1>1, ReceiveFacts
<1>3. \A i \in DOMAIN queue : /\ Sound(queue[i], sub, gated_pids, req, suspend_requested)
                              /\ queue[i] \in Messages
  BY <1>1 DEF IInv, QueueSound
<1> QED
  BY <1>2, <1>3

\* What a step that sends a message leaves in the queue.
LEMMA Sent ==
  ASSUME IInv, NEW op \in Ops, NEW from \in Senders, Send(op, from),
         \A i \in DOMAIN queue : Before(queue[i], Message(op, from))
  PROVE  /\ queue' \in Seq(Messages) /\ Ordered(queue')
         /\ \A j \in DOMAIN queue' :
               \/ queue'[j] = Message(op, from)
               \/ Sound(queue'[j], sub, gated_pids, req, suspend_requested)
                  /\ queue'[j] \in Messages /\ \E i \in DOMAIN queue : queue'[j] = queue[i]
<1>1. queue \in Seq(Messages) /\ Ordered(queue)
  BY DEF IInv, SusresTypeOK, QueueSound, Messages, Senders
<1>2. Message(op, from) \in Messages
  BY DEF Message, Messages
<1>3. /\ queue' \in Seq(Messages) /\ Ordered(queue')
      /\ \A j \in DOMAIN queue' :
            queue'[j] = Message(op, from) \/ \E i \in DOMAIN queue : queue'[j] = queue[i]
  BY <1>1, <1>2, SendFacts DEF Send
<1>4. \A i \in DOMAIN queue : /\ Sound(queue[i], sub, gated_pids, req, suspend_requested)
                              /\ queue[i] \in Messages
  BY <1>1 DEF IInv, QueueSound
<1> QED
  BY <1>3, <1>4

\* Steps that receive a message and leave alone what messages are about.
LEMMA ReceiveKeepsSound ==
  ASSUME IInv, queue # <<>>, queue' = Tail(queue),
         UNCHANGED <<sub, gated_pids, req, suspend_requested>>
  PROVE  queue' \in Seq(Messages) /\ QueueSound'
  BY Received DEF QueueSound

\* Steps that send a message nobody waits for.
LEMMA PostKeepsSound ==
  ASSUME IInv, NEW op \in Ops \ (CallOps \cup {"SuspendReady", "SuspendingNow", "WasSuspendClean"}),
         Send(op, NONE), UNCHANGED <<sub, gated_pids, req, suspend_requested>>
  PROVE  queue' \in Seq(Messages) /\ QueueSound'
<1> DEFINE m == Message(op, NONE)
<1>1. m.op = op /\ m.from = NONE /\ NONE \in Senders
  BY DEF Message, Senders
<1>2. \A i \in DOMAIN queue : Before(queue[i], m)
  BY <1>1 DEF Before
<1>3. Sound(m, sub, gated_pids, req, suspend_requested)
  BY <1>1 DEF Sound
<1> QED
  BY <1>1, <1>2, <1>3, Sent DEF QueueSound

\* A subscriber goes from one place to the next with a message to the service.
LEMMA SubscriberKeepsSound ==
  ASSUME IInv, NEW s \in Subscribers, NEW op \in Ops, NEW at \in Places, NEW to \in Places,
         sub[s] = at, sub' = [sub EXCEPT ![s] = to], Send(op, s),
         UNCHANGED <<gated_pids, req, suspend_requested>>,
         \/ op = "SuspendReady" /\ at = "runs" /\ to = "ready"
         \/ op = "SuspendingNow" /\ at = "ready" /\ to = "gate"
         \/ op = "WasSuspendClean" /\ at = "released" /\ to = "asks"
  PROVE  queue' \in Seq(Messages) /\ QueueSound'
<1> DEFINE m == Message(op, s)
<1>1. m.op = op /\ m.from = s /\ s \in Senders
  BY DEF Message, Senders
<1>2. sub \in [Subscribers -> Places] /\ gated_pids \in SUBSET Subscribers
      /\ \A g \in gated_pids : sub[g] = "gate"
  BY DEF IInv, SusresTypeOK, SuspendSound, GatedWait, Places
<1>3. s \notin gated_pids
  BY <1>2
<1>4. \A i \in DOMAIN queue : Sound(queue[i], sub, gated_pids, req, suspend_requested)
  BY DEF IInv, QueueSound
<1>5. \A i \in DOMAIN queue : Before(queue[i], m)
  BY <1>1, <1>4 DEF Before, Sound, CallOps
<1>6. Sound(m, sub', gated_pids, req, suspend_requested)
  BY <1>1, <1>2, <1>3 DEF Sound, CallOps
<1>7. ASSUME NEW n, Sound(n, sub, gated_pids, req, suspend_requested)
      PROVE  Sound(n, sub', gated_pids, req, suspend_requested)
  BY <1>2, <1>7 DEF Sound
<1> QED
  BY <1>1, <1>5, <1>6, <1>7, Sent DEF QueueSound

\* The end of a suspend: everybody at the gate is let go and the requester is
\* answered.
LEMMA EndKeepsSound ==
  ASSUME IInv, suspend_requested' = NONE, gated_pids' = {},
         Released(gated_pids), Returned({suspend_requested}),
         queue' = queue \/ (queue # <<>> /\ queue' = Tail(queue))
  PROVE  /\ queue' \in Seq(Messages) /\ QueueSound'
         /\ sub' \in [Subscribers -> Places] /\ req' \in [Requesters -> {NONE} \cup CallOps]
<1>1. /\ sub \in [Subscribers -> Places] /\ gated_pids \in SUBSET Subscribers
      /\ req \in [Requesters -> {NONE} \cup CallOps]
      /\ \A g \in gated_pids : sub[g] = "gate"
  BY DEF IInv, SusresTypeOK, SuspendSound, GatedWait, Places, CallOps
<1>2. /\ sub' \in [Subscribers -> Places] /\ req' \in [Requesters -> {NONE} \cup CallOps]
      /\ \A s \in Subscribers \ gated_pids : sub'[s] = sub[s]
      /\ \A r \in Requesters : r # suspend_requested => req'[r] = req[r]
  BY <1>1 DEF Released, Returned, Places
<1>3. ASSUME NEW m, Sound(m, sub, gated_pids, req, suspend_requested), m.op # "WasSuspendClean"
      PROVE  Sound(m, sub', {}, req', NONE)
  BY <1>2, <1>3, SusresAssumption DEF Sound
<1>4. ASSUME NEW m, Sound(m, sub, gated_pids, req, suspend_requested), m.op = "WasSuspendClean"
      PROVE  Sound(m, sub', {}, req', NONE)
  <2>1. m.from \in Subscribers /\ sub[m.from] = "asks"
    BY <1>4 DEF Sound
  <2>2. m.from \notin gated_pids
    BY <1>1, <2>1
  <2> QED
    BY <1>2, <1>4, <2>1, <2>2 DEF Sound, CallOps
<1>5. /\ queue' \in Seq(Messages) /\ Ordered(queue')
      /\ \A j \in DOMAIN queue' : Sound(queue'[j], sub, gated_pids, req, suspend_requested)
  <2>1. CASE queue' = queue
    BY <2>1 DEF IInv, SusresTypeOK, QueueSound, Messages, Senders
  <2>2. CASE queue # <<>> /\ queue' = Tail(queue)
    BY <2>2, Received
  <2> QED
    BY <2>1, <2>2
<1> QED
  BY <1>2, <1>3, <1>4, <1>5 DEF QueueSound

\* The type invariant without, and of, the Boolean variables.
Types ==
    /\ queue \in Seq(Messages)
    /\ suspend_requested \in Requesters \cup {NONE}
    /\ ready_to_suspend \in SUBSET Subscribers /\ failed_to_suspend \in SUBSET Subscribers
    /\ current_op_order \in Stages
    /\ gated_pids \in SUBSET Subscribers
    /\ timeout_queue \in Nat /\ timeout_thread \in {"idle", "waiting"}
    /\ events \in [Subscribers -> Nat]
    /\ sub \in [Subscribers -> Places]
    /\ req \in [Requesters -> {NONE} \cup CallOps]
    /\ rebooter \in {"idle", "announced"}
Flags ==
    /\ timeout_pending \in BOOLEAN /\ suspending \in BOOLEAN
    /\ allow_suspend \in BOOLEAN /\ reboot_requested \in BOOLEAN

\* The type invariant in two parts, as each step uses and shows it.
LEMMA TypesAndFlags ==
  /\ SusresTypeOK => Types /\ Flags
  /\ Types' /\ Flags' /\ StagesBefore' => SusresTypeOK'
<1>1. {NONE} \cup CallOps = {NONE, "SuspendRequest", "PlatformSpecific"}
  BY DEF CallOps
<1> QED
  BY <1>1, Zenon DEF SusresTypeOK, Types, Flags, StagesBefore, Messages, Senders, Places

\* The events of a stage.
LEMMA SendEventsFacts ==
  ASSUME NEW o \in Stages, events \in [Subscribers -> Nat], SendEvents(o)
  PROVE  /\ current_op_order' \in Stages /\ events' \in [Subscribers -> Nat]
         /\ \E s \in Subscribers : Stage[s] = current_op_order'
         /\ \A s \in Subscribers : Stage[s] >= o => Stage[s] >= current_op_order'
  BY FirstStageFinds DEF SendEvents

\* A request begins a suspend with nobody ready, or is answered at once.
LEMMA RequestKeeps == IInv /\ SuspendRequest => IInv'
<1> SUFFICES ASSUME IInv, SuspendRequest PROVE IInv'
  OBVIOUS
<1>1. Types /\ Flags /\ SuspendSound
  BY TypesAndFlags DEF IInv, SuspendSound
<1>2. /\ ~suspending /\ queue # <<>> /\ Head(queue).op = "SuspendRequest"
      /\ queue' = Tail(queue)
      /\ UNCHANGED <<gated_pids, modes, suspending, timeout_thread, sub, rebooter, program>>
  BY DEF SuspendRequest, Receive
<1>3. /\ queue' \in Seq(Messages) /\ Ordered(queue') /\ From \in Requesters
      /\ req[From] = "SuspendRequest" /\ From # suspend_requested
      /\ \A j \in DOMAIN queue' :
            /\ Sound(queue'[j], sub, gated_pids, req, suspend_requested)
            /\ queue'[j].op \in CallOps => queue'[j].from # From
  BY <1>2, Received DEF Sound, Before, From, CallOps
<1>4. CASE /\ allow_suspend /\ ~timeout_pending
           /\ timeout_pending' = TRUE
           /\ suspend_requested' = From
           /\ ready_to_suspend' = {} /\ failed_to_suspend' = {}
           /\ timeout_queue' = timeout_queue + 1
           /\ SendEvents(1)
           /\ UNCHANGED req
  <2>1. /\ 1 \in Stages /\ \A s \in Subscribers : Stage[s] \in Nat /\ Stage[s] >= 1
    BY SusresAssumption DEF Stages
  <2>2. /\ current_op_order' \in Stages /\ events' \in [Subscribers -> Nat]
        /\ \E s \in Subscribers : Stage[s] = current_op_order'
        /\ \A s \in Subscribers : Stage[s] >= current_op_order'
    BY <1>1, <1>4, <2>1, SendEventsFacts DEF Types
  <2>3. Types'
    BY <1>1, <1>2, <1>3, <1>4, <2>2 DEF Types
  <2>4. Flags'
    BY <1>1, <1>2, <1>4 DEF Flags, modes
  <2>5. QueueSound'
    BY <1>2, <1>3, <1>4 DEF QueueSound, Sound
  <2>6. suspend_requested' # NONE
    BY <1>3, <1>4, SusresAssumption
  <2>7. OneSuspendAtATime'
    BY <1>2, <1>3, <1>4, <2>6 DEF OneSuspendAtATime
  <2>8. StagesBefore'
    BY <2>1, <2>2 DEF StagesBefore, Stages
  <2>9. GatedWait' /\ ReadyAreHeld' /\ AllAreReady' /\ ~suspending'
    BY <1>1, <1>2, <1>4 DEF SuspendSound, GatedWait, ReadyAreHeld, AllAreReady
  <2> QED
    BY <2>3, <2>4, <2>5, <2>7, <2>8, <2>9, TypesAndFlags DEF IInv, SuspendSound
<1>5. CASE /\ Returned({From})
           /\ UNCHANGED <<suspend_requested, timeout_pending, ready_to_suspend,
                          failed_to_suspend, current_op_order, timeout_queue, events>>
  <2>1. /\ req' \in [Requesters -> {NONE} \cup CallOps]
        /\ \A r \in Requesters : r # From => req'[r] = req[r]
    BY <1>1, <1>5 DEF Returned, Types
  <2>2. Types'
    BY <1>1, <1>2, <1>3, <1>5, <2>1 DEF Types
  <2>3. Flags'
    BY <1>1, <1>2, <1>5 DEF Flags, modes
  <2>4. QueueSound'
    BY <1>2, <1>3, <1>5, <2>1 DEF QueueSound, Sound
  <2>5. OneSuspendAtATime'
    BY <1>1, <1>2, <1>3, <1>5, <2>1 DEF OneSuspendAtATime, SuspendSound, Types
  <2>6. /\ GatedWait' /\ ReadyAreHeld' /\ AllAreReady' /\ StagesBefore'
        /\ ~(suspending' /\ timeout_pending')
    BY <1>1, <1>2, <1>5 DEF SuspendSound, GatedWait, ReadyAreHeld, AllAreReady, StagesBefore, Held
  <2> QED
    BY <2>2, <2>3, <2>4, <2>5, <2>6, TypesAndFlags DEF IInv, SuspendSound
<1> QED
  BY <1>4, <1>5 DEF SuspendRequest

\* A report comes from a subscriber that is held; the last one of a stage begins
\* the next stage, or the sleep.
LEMMA ReadyKeeps == IInv /\ SuspendReady => IInv'
<1> SUFFICES ASSUME IInv, SuspendReady PROVE IInv'
  OBVIOUS
<1>1. Types /\ Flags /\ SuspendSound
  BY TypesAndFlags DEF IInv, SuspendSound
<1>2. /\ ~suspending /\ queue # <<>> /\ Head(queue).op = "SuspendReady"
      /\ queue' = Tail(queue) /\ suspend_requested # NONE
      /\ ready_to_suspend' = ready_to_suspend \cup {From}
      /\ UNCHANGED <<suspend_requested, failed_to_suspend, gated_pids, modes, thread, callers>>
  BY DEF SuspendReady, Receive
<1>3. queue' \in Seq(Messages) /\ QueueSound'
  BY <1>2, ReceiveKeepsSound DEF callers
<1>4. From \in Subscribers /\ Held(From)
  BY <1>2, Received DEF Sound, From, Held
<1>5. GatedWait' /\ ReadyAreHeld'
  BY <1>1, <1>2, <1>4 DEF SuspendSound, GatedWait, ReadyAreHeld, callers, Held
<1>6. \A s \in Subscribers : Stage[s] \in Stages
  BY SusresAssumption DEF Stages
<1>7. \A s \in Subscribers : Stage[s] < current_op_order => s \in ready_to_suspend'
  BY <1>1, <1>2 DEF SuspendSound, StagesBefore
<1>8. timeout_pending
  BY <1>1, <1>2 DEF SuspendSound, OneSuspendAtATime
<1>9. CASE /\ AllReady(ready_to_suspend') /\ current_op_order = LastStage
           /\ timeout_pending' = FALSE
           /\ suspending' = TRUE
           /\ UNCHANGED <<current_op_order, events>>
  <2>1. AllAreReady' /\ StagesBefore'
    <3>1. \A s \in Subscribers : s \in ready_to_suspend'
      <4> SUFFICES ASSUME NEW s \in Subscribers PROVE s \in ready_to_suspend'
        OBVIOUS
      <4>1. Stage[s] < current_op_order \/ Stage[s] = current_op_order
        BY <1>6, <1>9, SusresAssumption DEF Stages
      <4> QED
        BY <1>7, <1>9, <4>1 DEF AllReady
    <3> QED
      BY <1>1, <1>2, <1>9, <3>1 DEF AllAreReady, StagesBefore, SuspendSound
  <2>2. Types'
    BY <1>1, <1>2, <1>3, <1>4, <1>9 DEF Types, callers, thread
  <2>3. Flags'
    BY <1>1, <1>2, <1>9 DEF Flags, modes
  <2>4. OneSuspendAtATime' /\ ~(suspending' /\ timeout_pending')
    BY <1>1, <1>2, <1>9 DEF SuspendSound, OneSuspendAtATime, callers
  <2> QED
    BY <1>3, <1>5, <2>1, <2>2, <2>3, <2>4, TypesAndFlags DEF IInv, SuspendSound
<1>10. CASE /\ AllReady(ready_to_suspend') /\ current_op_order # LastStage
            /\ SendEvents(current_op_order + 1)
            /\ UNCHANGED <<timeout_pending, suspending>>
  <2>1. current_op_order \in Nat /\ current_op_order + 1 \in Stages
    BY <1>1, <1>10, SusresAssumption DEF Types, Stages
  <2>2. /\ current_op_order' \in Stages /\ events' \in [Subscribers -> Nat]
        /\ \E s \in Subscribers : Stage[s] = current_op_order'
        /\ \A s \in Subscribers : Stage[s] >= current_op_order + 1 => Stage[s] >= current_op_order'
    BY <1>1, <1>10, <2>1, SendEventsFacts DEF Types
  <2>3. StagesBefore'
    <3> SUFFICES ASSUME NEW s \in Subscribers, Stage[s] < current_op_order'
                 PROVE  s \in ready_to_suspend'
      BY <2>2 DEF StagesBefore
    <3>1. Stage[s] < current_op_order \/ Stage[s] = current_op_order
      BY <1>6, <2>1, <2>2 DEF Stages
    <3> QED
      BY <1>7, <1>10, <3>1 DEF AllReady
  <2>4. Types'
    BY <1>1, <1>2, <1>3, <1>4, <1>10, <2>2 DEF Types, callers, thread
  <2>5. Flags'
    BY <1>1, <1>2, <1>10 DEF Flags, modes
  <2>6. OneSuspendAtATime' /\ ~(suspending' /\ timeout_pending') /\ AllAreReady'
    BY <1>1, <1>2, <1>10 DEF SuspendSound, OneSuspendAtATime, callers, AllAreReady
  <2> QED
    BY <1>3, <1>5, <2>3, <2>4, <2>5, <2>6, TypesAndFlags DEF IInv, SuspendSound
<1>11. CASE UNCHANGED <<current_op_order, events, timeout_pending, suspending>>
  <2>1. Types'
    BY <1>1, <1>2, <1>3, <1>4, <1>11 DEF Types, callers, thread
  <2>2. Flags'
    BY <1>1, <1>2, <1>11 DEF Flags, modes
  <2>3. OneSuspendAtATime' /\ ~(suspending' /\ timeout_pending') /\ AllAreReady' /\ StagesBefore'
    BY <1>1, <1>2, <1>7, <1>11
    DEF SuspendSound, OneSuspendAtATime, callers, AllAreReady, StagesBefore
  <2> QED
    BY <1>3, <1>5, <2>1, <2>2, <2>3, TypesAndFlags DEF IInv, SuspendSound
<1> QED
  BY <1>9, <1>10, <1>11 DEF SuspendReady

\* The system wakes up and lets everybody go.
LEMMA SleepKeeps == IInv /\ Sleep => IInv'
<1> SUFFICES ASSUME IInv, Sleep PROVE IInv'
  OBVIOUS
<1>1. Types /\ Flags /\ SuspendSound
  BY TypesAndFlags DEF IInv, SuspendSound
<1>2. /\ suspending /\ suspending' = FALSE /\ suspend_requested' = NONE /\ gated_pids' = {}
      /\ Released(gated_pids) /\ Returned({suspend_requested})
      /\ UNCHANGED <<queue, timeout_pending, ready_to_suspend, failed_to_suspend,
                     current_op_order, modes, thread, events, rebooter, program>>
  BY DEF Sleep
<1>3. /\ queue' \in Seq(Messages) /\ QueueSound'
      /\ sub' \in [Subscribers -> Places] /\ req' \in [Requesters -> {NONE} \cup CallOps]
  BY <1>2, EndKeepsSound
<1>4. Types'
  BY <1>1, <1>2, <1>3 DEF Types, thread
<1>5. Flags'
  BY <1>1, <1>2 DEF Flags, modes
<1>6. SuspendSound'
  BY <1>1, <1>2
  DEF SuspendSound, OneSuspendAtATime, GatedWait, ReadyAreHeld, StagesBefore, AllAreReady
<1> QED
  BY <1>3, <1>4, <1>5, <1>6, TypesAndFlags DEF IInv, SuspendSound

\* A timeout, whichever suspend it was started for, does the same.
LEMMA TimeoutKeeps == IInv /\ SuspendTimeout => IInv'
<1> SUFFICES ASSUME IInv, SuspendTimeout PROVE IInv'
  OBVIOUS
<1>1. Types /\ Flags /\ SuspendSound
  BY TypesAndFlags DEF IInv, SuspendSound
<1>2. /\ ~suspending /\ queue # <<>> /\ queue' = Tail(queue)
      /\ timeout_pending' = FALSE /\ failed_to_suspend' = Subscribers \ ready_to_suspend
      /\ suspend_requested' = NONE /\ gated_pids' = {}
      /\ Released(gated_pids) /\ Returned({suspend_requested})
      /\ UNCHANGED <<ready_to_suspend, current_op_order, modes, suspending, thread, events,
                     rebooter, program>>
  BY DEF SuspendTimeout, Receive
<1>3. /\ queue' \in Seq(Messages) /\ QueueSound'
      /\ sub' \in [Subscribers -> Places] /\ req' \in [Requesters -> {NONE} \cup CallOps]
  BY <1>2, EndKeepsSound
<1>4. Types'
  BY <1>1, <1>2, <1>3 DEF Types, thread
<1>5. Flags'
  BY <1>1, <1>2 DEF Flags, modes
<1>6. SuspendSound'
  BY <1>1, <1>2
  DEF SuspendSound, OneSuspendAtATime, GatedWait, ReadyAreHeld, StagesBefore, AllAreReady
<1> QED
  BY <1>3, <1>4, <1>5, <1>6, TypesAndFlags DEF IInv, SuspendSound

\* The report of a subscriber at the gate has been received before.
LEMMA GateKeeps == IInv /\ SuspendingNow => IInv'
<1> SUFFICES ASSUME IInv, SuspendingNow PROVE IInv'
  OBVIOUS
<1>1. Types /\ Flags /\ SuspendSound
  BY TypesAndFlags DEF IInv, SuspendSound
<1>2. /\ ~suspending /\ queue # <<>> /\ Head(queue).op = "SuspendingNow" /\ queue' = Tail(queue)
      /\ UNCHANGED <<suspend_requested, timeout_pending, ready_to_suspend, failed_to_suspend,
                     current_op_order, modes, suspending, thread, events, req, rebooter, program>>
  BY DEF SuspendingNow, Receive
<1>3. /\ queue' \in Seq(Messages) /\ Ordered(queue')
      /\ From \in Subscribers /\ From \notin gated_pids /\ sub[From] = "gate"
      /\ \A j \in DOMAIN queue' :
            /\ Sound(queue'[j], sub, gated_pids, req, suspend_requested)
            /\ queue'[j].op \in {"SuspendingNow", "SuspendReady"} => queue'[j].from # From
  BY <1>2, Received DEF Sound, Before, From
<1>4. Flags'
  BY <1>1, <1>2 DEF Flags, modes
<1>5. CASE suspend_requested = NONE /\ Released({From}) /\ UNCHANGED gated_pids
  <2>1. /\ sub' \in [Subscribers -> Places]
        /\ \A s \in Subscribers : s # From => sub'[s] = sub[s]
    BY <1>1, <1>5 DEF Released, Types, Places
  <2>2. Types'
    BY <1>1, <1>2, <1>3, <1>5, <2>1 DEF Types, thread
  <2>3. QueueSound'
    <3> SUFFICES ASSUME NEW j \in DOMAIN queue'
                 PROVE  Sound(queue'[j], sub', gated_pids, req, suspend_requested)
      BY <1>2, <1>3, <1>5 DEF QueueSound
    <3>1. CASE queue'[j].from = From
      BY <1>3, <3>1 DEF Sound
    <3>2. CASE queue'[j].from # From
      BY <1>3, <2>1, <3>2 DEF Sound
    <3> QED
      BY <3>1, <3>2
  <2>4. SuspendSound'
    <3>1. gated_pids = {}
      BY <1>1, <1>5 DEF SuspendSound, OneSuspendAtATime
    <3> QED
      BY <1>1, <1>2, <1>5, <3>1
      DEF SuspendSound, OneSuspendAtATime, GatedWait, ReadyAreHeld, StagesBefore, AllAreReady
  <2> QED
    BY <1>4, <2>2, <2>3, <2>4, TypesAndFlags DEF IInv, SuspendSound
<1>6. CASE /\ suspend_requested # NONE /\ gated_pids' = gated_pids \cup {From}
           /\ UNCHANGED sub
  <2>1. Types'
    BY <1>1, <1>2, <1>3, <1>6 DEF Types, thread
  <2>2. QueueSound'
    BY <1>2, <1>3, <1>6 DEF QueueSound, Sound
  <2>3. SuspendSound'
    BY <1>1, <1>2, <1>3, <1>6
    DEF SuspendSound, OneSuspendAtATime, GatedWait, ReadyAreHeld, StagesBefore, AllAreReady, Held
  <2> QED
    BY <1>4, <2>1, <2>2, <2>3, TypesAndFlags DEF IInv, SuspendSound
<1> QED
  BY <1>5, <1>6 DEF SuspendingNow

\* Who asks whether its suspend was clean is neither ready nor at the gate.
LEMMA CleanKeeps == IInv /\ WasSuspendClean => IInv'
<1> SUFFICES ASSUME IInv, WasSuspendClean PROVE IInv'
  OBVIOUS
<1>1. Types /\ Flags /\ SuspendSound
  BY TypesAndFlags DEF IInv, SuspendSound
<1>2. /\ queue # <<>> /\ Head(queue).op = "WasSuspendClean" /\ queue' = Tail(queue)
      /\ Released({From})
      /\ UNCHANGED <<flags, modes, suspending, thread, events, req, rebooter, program>>
  BY DEF WasSuspendClean, Receive
<1>3. /\ queue' \in Seq(Messages) /\ Ordered(queue')
      /\ From \in Subscribers /\ sub[From] = "asks"
      /\ \A j \in DOMAIN queue' :
            /\ Sound(queue'[j], sub, gated_pids, req, suspend_requested)
            /\ queue'[j].op = "WasSuspendClean" => queue'[j].from # From
  BY <1>2, Received DEF Sound, Before, From
<1>4. /\ sub' \in [Subscribers -> Places]
      /\ \A s \in Subscribers : s # From => sub'[s] = sub[s]
  BY <1>1, <1>2 DEF Released, Types, Places
<1>5. Types'
  BY <1>1, <1>2, <1>3, <1>4 DEF Types, flags, thread
<1>6. Flags'
  BY <1>1, <1>2 DEF Flags, flags, modes
<1>7. QueueSound'
  <2> SUFFICES ASSUME NEW j \in DOMAIN queue'
               PROVE  Sound(queue'[j], sub', gated_pids, req, suspend_requested)
    BY <1>2, <1>3 DEF QueueSound, flags
  <2>1. CASE queue'[j].from = From
    BY <1>3, <2>1 DEF Sound
  <2>2. CASE queue'[j].from # From
    BY <1>3, <1>4, <2>2 DEF Sound
  <2> QED
    BY <2>1, <2>2
<1>8. GatedWait'
  BY <1>1, <1>2, <1>3, <1>4 DEF SuspendSound, GatedWait, flags, Types
<1>9. ReadyAreHeld'
  BY <1>1, <1>2, <1>3, <1>4 DEF SuspendSound, ReadyAreHeld, flags, Types, Held
<1>10. OneSuspendAtATime' /\ StagesBefore' /\ AllAreReady' /\ ~(suspending' /\ timeout_pending')
  BY <1>1, <1>2 DEF SuspendSound, OneSuspendAtATime, StagesBefore, AllAreReady, flags
<1> QED
  BY <1>5, <1>6, <1>7, <1>8, <1>9, <1>10, TypesAndFlags DEF IInv, SuspendSound

\* Calls about the clocks come from requesters other than the one that suspends.
LEMMA ClocksKeep == IInv /\ PlatformSpecific => IInv'
<1> SUFFICES ASSUME IInv, PlatformSpecific PROVE IInv'
  OBVIOUS
<1>1. Types /\ Flags /\ SuspendSound
  BY TypesAndFlags DEF IInv, SuspendSound
<1>2. /\ queue # <<>> /\ Head(queue).op = "PlatformSpecific" /\ queue' = Tail(queue)
      /\ Returned({From})
      /\ UNCHANGED <<flags, modes, suspending, thread, events, sub, rebooter, program>>
  BY DEF PlatformSpecific, Receive
<1>3. /\ queue' \in Seq(Messages) /\ Ordered(queue')
      /\ From \in Requesters /\ From # suspend_requested
      /\ \A j \in DOMAIN queue' :
            /\ Sound(queue'[j], sub, gated_pids, req, suspend_requested)
            /\ queue'[j].op \in CallOps => queue'[j].from # From
  BY <1>2, Received DEF Sound, Before, From, CallOps
<1>4. /\ req' \in [Requesters -> {NONE} \cup CallOps]
      /\ \A r \in Requesters : r # From => req'[r] = req[r]
  BY <1>1, <1>2 DEF Returned, Types
<1>5. Types'
  BY <1>1, <1>2, <1>3, <1>4 DEF Types, flags, thread
<1>6. Flags'
  BY <1>1, <1>2 DEF Flags, flags, modes
<1>7. QueueSound'
  BY <1>2, <1>3, <1>4 DEF QueueSound, Sound, flags
<1>8. OneSuspendAtATime'
  BY <1>1, <1>2, <1>3, <1>4 DEF OneSuspendAtATime, SuspendSound, Types, flags
<1>9. /\ GatedWait' /\ ReadyAreHeld' /\ AllAreReady' /\ StagesBefore'
      /\ ~(suspending' /\ timeout_pending')
  BY <1>1, <1>2 DEF SuspendSound, GatedWait, ReadyAreHeld, AllAreReady, StagesBefore, Held, flags
<1> QED
  BY <1>5, <1>6, <1>7, <1>8, <1>9, TypesAndFlags DEF IInv, SuspendSound

\* Messages that change at most the two modes: reports and timeouts that are
\* ignored, SuspendAllow and SuspendDeny, and those of a reboot.
LEMMA DropKeeps ==
  ASSUME IInv, queue # <<>>, queue' = Tail(queue),
         UNCHANGED <<flags, suspending, thread, events, callers>>,
         allow_suspend' \in BOOLEAN, reboot_requested' \in BOOLEAN
  PROVE  IInv'
<1>1. Types /\ Flags /\ SuspendSound
  BY TypesAndFlags DEF IInv, SuspendSound
<1>2. queue' \in Seq(Messages) /\ QueueSound'
  BY ReceiveKeepsSound DEF flags, callers
<1>3. Types'
  BY <1>1, <1>2 DEF Types, flags, thread, callers
<1>4. Flags'
  BY <1>1 DEF Flags, flags
<1>5. SuspendSound'
  BY <1>1 DEF SuspendSound, OneSuspendAtATime, GatedWait, ReadyAreHeld, StagesBefore, AllAreReady,
              Held, flags, callers
<1> QED
  BY <1>2, <1>3, <1>4, <1>5, TypesAndFlags DEF IInv, SuspendSound

\* A reboot is a new start.
LEMMA RebootKeeps == IInv /\ Reboot => IInv'
<1> SUFFICES ASSUME Reboot PROVE IInv'
  OBVIOUS
<1>1. 1 \in Stages
  BY SusresAssumption DEF Stages
<1>2. queue' \in Seq(Messages) /\ QueueSound'
  BY DEF Reboot, QueueSound, Ordered
<1>3. /\ events' \in [Subscribers -> Nat] /\ sub' \in [Subscribers -> Places]
      /\ req' \in [Requesters -> {NONE} \cup CallOps] /\ timeout_queue' \in Nat
  BY DEF Reboot, Places
<1>4. Types'
  BY <1>1, <1>2, <1>3, Zenon DEF Types, Reboot
<1>5. Flags'
  BY DEF Flags, Reboot
<1>6. SuspendSound'
  BY DEF Reboot, SuspendSound, OneSuspendAtATime, GatedWait, ReadyAreHeld, StagesBefore, AllAreReady
<1> QED
  BY <1>2, <1>4, <1>5, <1>6, TypesAndFlags DEF IInv, SuspendSound

\* Every message of the service keeps the invariant.
LEMMA ServeKeeps == IInv /\ Serve => IInv'
<1> SUFFICES ASSUME IInv, Serve PROVE IInv'
  OBVIOUS
<1>1. allow_suspend \in BOOLEAN /\ reboot_requested \in BOOLEAN
  BY DEF IInv, SusresTypeOK
<1>2. CASE IgnoreReady \/ IgnoreTimeout \/ RebootUnrequested
  BY <1>1, <1>2, DropKeeps DEF IgnoreReady, IgnoreTimeout, RebootUnrequested, Receive, modes
<1>3. CASE SetSuspendable("SuspendAllow", TRUE) \/ SetSuspendable("SuspendDeny", FALSE)
  BY <1>1, <1>3, DropKeeps DEF SetSuspendable, Receive
<1>4. CASE RebootRequest \/ CallOffReboot
  BY <1>1, <1>4, DropKeeps DEF RebootRequest, CallOffReboot, Receive
<1> QED
  BY <1>2, <1>3, <1>4, RequestKeeps, ReadyKeeps, SleepKeeps, GateKeeps, TimeoutKeeps,
     CleanKeeps, ClocksKeep, RebootKeeps
  DEF Serve

\* The timeout thread touches only its own state and the queue.
LEMMA TimerKeeps == IInv /\ Timer => IInv'
<1> SUFFICES ASSUME IInv, Timer PROVE IInv'
  OBVIOUS
<1>1. Types /\ Flags /\ SuspendSound
  BY TypesAndFlags DEF IInv, SuspendSound
<1>2. UNCHANGED <<flags, modes, suspending, events, callers>>
  BY DEF Timer, StartTimer, TimerStops, TimeIsUp
<1>3. timeout_queue' \in Nat /\ timeout_thread' \in {"idle", "waiting"}
  BY <1>1 DEF Timer, StartTimer, TimerStops, TimeIsUp, Types
<1>4. queue' \in Seq(Messages) /\ QueueSound'
  <2>1. CASE queue' = queue
    BY <1>1, <1>2, <2>1 DEF IInv, QueueSound, Types, flags, callers
  <2>2. CASE Send("SuspendTimeout", NONE)
    BY <1>2, <2>2, PostKeepsSound DEF flags, callers, Ops, CallOps
  <2> QED
    BY <2>1, <2>2 DEF Timer, StartTimer, TimerStops, TimeIsUp
<1>5. Types'
  BY <1>1, <1>2, <1>3, <1>4 DEF Types, flags, callers
<1>6. Flags'
  BY <1>1, <1>2 DEF Flags, flags, modes
<1>7. SuspendSound'
  BY <1>1, <1>2 DEF SuspendSound, OneSuspendAtATime, GatedWait, ReadyAreHeld, StagesBefore, AllAreReady,
                    Held, flags, callers
<1> QED
  BY <1>4, <1>5, <1>6, <1>7, TypesAndFlags DEF IInv, SuspendSound

\* A subscriber reports, waits at the gate and asks in this order.
LEMMA SubscribersKeep ==
  ASSUME NEW s \in Subscribers, IInv, ReportReady(s) \/ WaitAtGate(s) \/ AskIfClean(s)
  PROVE  IInv'
<1>1. Types /\ Flags /\ SuspendSound
  BY TypesAndFlags DEF IInv, SuspendSound
<1>2. UNCHANGED <<flags, modes, suspending, thread, req, rebooter, program>>
  BY DEF ReportReady, WaitAtGate, AskIfClean
<1>3. events' \in [Subscribers -> Nat]
  BY <1>1 DEF ReportReady, WaitAtGate, AskIfClean, Types
<1>4. queue' \in Seq(Messages) /\ QueueSound'
  BY <1>2, SubscriberKeepsSound DEF ReportReady, WaitAtGate, AskIfClean, flags, Places, Ops
<1>5. /\ sub' \in [Subscribers -> Places]
      /\ \A t \in Subscribers : t # s => sub'[t] = sub[t]
      /\ sub[s] = "gate" => FALSE
      /\ sub[s] = "ready" => sub'[s] = "gate"
  BY <1>1 DEF ReportReady, WaitAtGate, AskIfClean, Types, Places
<1>6. Types'
  BY <1>1, <1>2, <1>3, <1>4, <1>5 DEF Types, flags, thread
<1>7. Flags'
  BY <1>1, <1>2 DEF Flags, flags, modes
<1>8. GatedWait'
  BY <1>1, <1>2, <1>5 DEF SuspendSound, GatedWait, flags, Types
<1>9. ReadyAreHeld'
  BY <1>1, <1>2, <1>5 DEF SuspendSound, ReadyAreHeld, flags, Types, Held
<1>10. OneSuspendAtATime' /\ StagesBefore' /\ AllAreReady' /\ ~(suspending' /\ timeout_pending')
  BY <1>1, <1>2 DEF SuspendSound, OneSuspendAtATime, StagesBefore, AllAreReady, flags
<1> QED
  BY <1>4, <1>6, <1>7, <1>8, <1>9, <1>10, TypesAndFlags DEF IInv, SuspendSound

\* A requester that calls has no other call in the queue.
LEMMA CallKeeps ==
  ASSUME NEW r \in Requesters, NEW op \in CallOps, IInv, Call(r, op)
  PROVE  IInv'
<1> DEFINE m == Message(op, r)
<1>1. Types /\ Flags /\ SuspendSound
  BY TypesAndFlags DEF IInv, SuspendSound
<1>2. /\ req[r] = NONE /\ Send(op, r) /\ req' = [req EXCEPT ![r] = op]
      /\ UNCHANGED <<flags, modes, suspending, thread, events, sub, rebooter, program>>
  BY DEF Call
<1>3. op \in Ops /\ r \in Senders /\ m.op = op /\ m.from = r /\ NONE \notin CallOps
  BY SusresAssumption DEF Ops, Senders, Message, CallOps
<1>4. r # suspend_requested
  BY <1>1, <1>2, <1>3, SusresAssumption DEF SuspendSound, OneSuspendAtATime, CallOps
<1>5. \A i \in DOMAIN queue : /\ Sound(queue[i], sub, gated_pids, req, suspend_requested)
                              /\ queue[i].op \in CallOps => queue[i].from # r
  BY <1>2, <1>3 DEF IInv, QueueSound, Sound
<1>6. \A i \in DOMAIN queue : Before(queue[i], m)
  BY <1>3, <1>5 DEF Before, CallOps
<1>7. /\ req' \in [Requesters -> {NONE} \cup CallOps] /\ req'[r] = op
      /\ \A t \in Requesters : t # r => req'[t] = req[t]
  BY <1>1, <1>2 DEF Types
<1>8. Sound(m, sub, gated_pids, req', suspend_requested)
  BY <1>3, <1>4, <1>7 DEF Sound, CallOps
<1>9. ASSUME NEW n, Sound(n, sub, gated_pids, req, suspend_requested),
             n.op \in CallOps => n.from # r
      PROVE  Sound(n, sub, gated_pids, req', suspend_requested)
  BY <1>7, <1>9 DEF Sound
<1>10. queue' \in Seq(Messages) /\ QueueSound'
  <2>1. /\ queue' \in Seq(Messages) /\ Ordered(queue')
        /\ \A j \in DOMAIN queue' : queue'[j] = m \/ \E i \in DOMAIN queue : queue'[j] = queue[i]
    BY <1>2, <1>3, <1>6, Sent
  <2>2. \A j \in DOMAIN queue' : Sound(queue'[j], sub, gated_pids, req', suspend_requested)
    BY <1>5, <1>8, <1>9, <2>1
  <2> QED
    BY <1>2, <2>1, <2>2 DEF QueueSound, flags
<1>11. Types'
  BY <1>1, <1>2, <1>7, <1>10 DEF Types, flags, thread
<1>12. Flags'
  BY <1>1, <1>2 DEF Flags, flags, modes
<1>13. OneSuspendAtATime'
  BY <1>1, <1>2, <1>4, <1>7 DEF SuspendSound, OneSuspendAtATime, flags, Types
<1>14. /\ GatedWait' /\ ReadyAreHeld' /\ AllAreReady' /\ StagesBefore'
       /\ ~(suspending' /\ timeout_pending')
  BY <1>1, <1>2 DEF SuspendSound, GatedWait, ReadyAreHeld, AllAreReady, StagesBefore, Held, flags
<1> QED
  BY <1>10, <1>11, <1>12, <1>13, <1>14, TypesAndFlags DEF IInv, SuspendSound

\* SuspendAllow, SuspendDeny, and the two messages of a reboot.
LEMMA PostKeeps ==
  ASSUME IInv, NEW op \in Posts \cup Reboots, Send(op, NONE), rebooter' \in {"idle", "announced"},
         UNCHANGED <<flags, modes, suspending, thread, events, sub, req, program>>
  PROVE  IInv'
<1>1. Types /\ Flags /\ SuspendSound
  BY TypesAndFlags DEF IInv, SuspendSound
<1>2. queue' \in Seq(Messages) /\ QueueSound'
  BY PostKeepsSound DEF flags, Posts, Reboots, Ops, CallOps
<1>3. Types'
  BY <1>1, <1>2 DEF Types, flags, thread
<1>4. Flags'
  BY <1>1 DEF Flags, flags, modes
<1>5. SuspendSound'
  BY <1>1 DEF SuspendSound, OneSuspendAtATime, GatedWait, ReadyAreHeld, StagesBefore, AllAreReady,
              Held, flags
<1> QED
  BY <1>2, <1>3, <1>4, <1>5, TypesAndFlags DEF IInv, SuspendSound

\* Every step of a caller keeps the invariant.
LEMMA CallersKeep == IInv /\ Callers => IInv'
<1> SUFFICES ASSUME IInv, Callers PROVE IInv'
  OBVIOUS
<1>1. CASE \E s \in Subscribers : ReportReady(s) \/ WaitAtGate(s) \/ AskIfClean(s)
  BY <1>1, SubscribersKeep
<1>2. CASE \E r \in Requesters : Call(r, "SuspendRequest") \/ Call(r, "PlatformSpecific")
  BY <1>2, CallKeeps DEF CallOps
<1>3. rebooter \in {"idle", "announced"}
  BY DEF IInv, SusresTypeOK
<1>4. CASE Post("SuspendAllow") \/ Post("SuspendDeny")
  BY <1>3, <1>4, PostKeeps DEF Post, Posts, callers
<1>5. CASE AnnounceReboot \/ ConfirmReboot
  BY <1>5, PostKeeps DEF AnnounceReboot, ConfirmReboot, Reboots
<1> QED
  BY <1>1, <1>2, <1>4, <1>5 DEF Callers

\* So does a step of something else.
LEMMA StutterKeeps == IInv /\ UNCHANGED vars => IInv'
<1> SUFFICES ASSUME IInv, UNCHANGED vars PROVE IInv'
  OBVIOUS
<1>1. Types /\ Flags /\ SuspendSound
  BY TypesAndFlags DEF IInv, SuspendSound
<1>2. Types' /\ Flags' /\ QueueSound'
  BY <1>1 DEF IInv, Types, Flags, QueueSound, vars, flags, modes, thread, callers
<1>3. SuspendSound'
  BY <1>1 DEF SuspendSound, OneSuspendAtATime, GatedWait, ReadyAreHeld, StagesBefore, AllAreReady,
              Held, vars, flags, callers
<1> QED
  BY <1>2, <1>3, TypesAndFlags DEF IInv, SuspendSound

\* The invariant holds in every behaviour of the service.
LEMMA InvHolds == Spec => []IInv
<1>1. IInv /\ [Next]_vars => IInv'
  BY ServeKeeps, TimerKeeps, CallersKeep, StutterKeeps DEF Next
<1> QED
  BY <1>1, InitInv, PTL DEF Spec

-----------------------------------------------------------------------------
(***************************************************************************)
(* The theorems.                                                           *)
(***************************************************************************)
\* The service's tables stay what they are declared to be; in particular the
\* search for the next stage always ends, in a stage somebody subscribed to.
THEOREM SusresTypeCorrect == Spec => []SusresTypeOK
<1>1. IInv => SusresTypeOK
  BY DEF IInv
<1> QED
  BY <1>1, InvHolds, PTL

\* There is a requester to answer exactly while the timer runs or the system
\* goes to sleep, it still waits, and nobody is at the gate without one: the
\* two places where susres_service would log a race are not reached.
THEOREM OneSuspendCorrect == Spec => []OneSuspendAtATime
<1>1. IInv => OneSuspendAtATime
  BY DEF IInv, SuspendSound
<1> QED
  BY <1>1, InvHolds, PTL

\* For any subscribers and stages, the system sleeps only when all are held, and
\* a stage begins only when those of the stages before it are, whatever arrives
\* late from earlier suspends.
THEOREM StagesCorrect == Spec => []HeldStageByStage
<1>1. IInv => HeldStageByStage
  BY DEF IInv, SuspendSound, HeldStageByStage, ReadyAreHeld, StagesBefore, AllAreReady
<1> QED
  BY <1>1, InvHolds, PTL
=============================================================================
