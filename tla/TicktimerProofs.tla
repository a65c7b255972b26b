-------------------------- MODULE TicktimerProofs ---------------------------
(***************************************************************************)
(* Proofs about the ticktimer, for any threads, conditions, mutexes, times *)
(* and programs, and any length of its queue, as long as there is room in  *)
(* the queue for the message of an alarm that goes off.                    *)
(***************************************************************************)
EXTENDS Ticktimer, TLAPS, FiniteSetTheorems, WellFoundedInduction

\* The interrupt's RecalculateSleep is not lost: when the alarm is due, the
\* queue has a slot for it besides the one that the answer sets free.
RoomForAlarm ==
    ticktimer.enabled /\ ticktimer.pending
        => ~FullWithout({ticktimer.current_response.sender})

-----------------------------------------------------------------------------
(***************************************************************************)
(* The inductive invariant: calls and messages.                            *)
(***************************************************************************)
Call == [op : BlockingOps \cup {"Suspend", NONE}, id : Condvars \cup Mutexes \cup {NONE},
         sender : Senders \cup {NONE}, timed : BOOLEAN, due : Nat]

\* A thread has a sender while it is blocked in a call, and its own.
CallsOK ==
    /\ call \in [Threads -> Call]
    /\ \A t \in Threads : call[t].sender # NONE <=> call[t].op \in BlockingOps
    /\ \A t \in Threads : call[t].timed => call[t].op \in TimedOps
    /\ \A t, u \in Threads : call[t].sender = call[u].sender /\ call[t].sender # NONE => t = u

\* The ids of a message are of the kind its operation takes.
ConditionOps == {"WaitForCondition", "NotifyCondition", "notifying", "FreeCondition"}
MutexOps     == {"LockMutex", "UnlockMutex", "FreeMutex"}
Owing        == BlockingOps \cup {"notifying"}
Fits(m) ==
    /\ m.op \in ConditionOps => m.id \in Condvars
    /\ m.op \in MutexOps => m.id \in Mutexes
    /\ m.op = "RecalculateSleep" => m.arg \in Senders /\ m.id \in Condvars \cup {NONE}
    /\ m.op = "SleepMs" => m.arg > 0
    /\ m.op \in Owing <=> m.sender # NONE

LettersOK ==
    /\ queue \in Seq(Letter) /\ msg \in Letter \cup {NONE}
    /\ \A i \in DOMAIN queue : Fits(queue[i]) /\ queue[i].op \notin {"notifying", "resume"}
    /\ msg # NONE => Fits(msg)

\* The thread t is blocked in the call that message m is of.
Sent(t, m) ==
    /\ call[t].sender = m.sender /\ call[t].id = m.id
    /\ call[t].op = IF m.op = "notifying" THEN "NotifyCondition" ELSE m.op
    /\ m.op \in TimedOps => call[t].due <= m.arg /\ (call[t].timed <=> m.arg > 0)

\* Each message that is to be answered is the one message of a blocked thread.
SentOK ==
    /\ \A i \in DOMAIN queue : queue[i].op \in BlockingOps => \E t \in Threads : Sent(t, queue[i])
    /\ msg # NONE /\ msg.op \in Owing => \E t \in Threads : Sent(t, msg)
    /\ \A i, j \in DOMAIN queue :
          queue[i].sender = queue[j].sender /\ queue[i].op \in BlockingOps
             /\ queue[j].op \in BlockingOps => i = j
    /\ msg # NONE /\ msg.op \in Owing => ~Queued(msg.sender)

\* The interrupt's message about a sender comes before the message of whoever
\* has the sender now: nobody is put away under it meanwhile.
Behind(i, s) ==
    \E j \in DOMAIN queue : i < j /\ queue[j].op \in BlockingOps /\ queue[j].sender = s
Recalc(m, s) == m.op = "RecalculateSleep" /\ m.arg = s
AlarmFirst ==
    /\ \A i, j \in DOMAIN queue :
          Recalc(queue[i], queue[i].arg) /\ Recalc(queue[j], queue[i].arg) => i = j
    /\ \A i \in DOMAIN queue, t \in Threads :
          Recalc(queue[i], call[t].sender) => Behind(i, call[t].sender)
    /\ msg # NONE /\ msg.op = "RecalculateSleep" =>
          /\ \A i \in DOMAIN queue : ~Recalc(queue[i], msg.arg)
          /\ \A t \in Threads : call[t].sender = msg.arg => Queued(msg.arg)

MInv == CallsOK /\ LettersOK /\ SentOK /\ AlarmFirst

-----------------------------------------------------------------------------
(***************************************************************************)
(* The inductive invariant: the alarm and the tables.                      *)
(***************************************************************************)
Timer == [sleep_heap : SUBSET TimerRequest, current_response : TimerRequest \cup {NONE},
          enabled : BOOLEAN, pending : BOOLEAN, target : Int, left_off : BOOLEAN, told : Nat]

AInv ==
    /\ ticktimer \in Timer /\ IsFiniteSet(ticktimer.sleep_heap)
    /\ AlarmIsSet
    /\ ticktimer.current_response # NONE =>
          /\ ticktimer.target > 0 => ticktimer.target = ticktimer.current_response.msec
          /\ ticktimer.target <= 0 <=> ticktimer.current_response.msec <= 0
    /\ msg # NONE /\ msg.op = "notifying" => ticktimer.current_response = NONE

\* Pending: RecalculateSleep of sender s and condition c is on its way.
Pending(s, c) ==
    \/ \E i \in DOMAIN queue : Recalc(queue[i], s) /\ queue[i].id = c
    \/ msg # NONE /\ Recalc(msg, s) /\ msg.id = c

WaitsFor(t, c, s) ==
    PutAway(t) /\ call[t].sender = s /\ call[t].op = "WaitForCondition" /\ call[t].id = c
LocksFor(t, m, s) ==
    PutAway(t) /\ call[t].sender = s /\ call[t].op = "LockMutex" /\ call[t].id = m

\* The request r is that of the thread t.
AsksFor(t, r) ==
    /\ PutAway(t) /\ call[t].sender = r.sender
    /\ call[t].timed /\ (call[t].due > 0 => r.msec >= call[t].due)
    /\ IF r.data = NONE THEN call[t].op = "SleepMs"
       ELSE call[t].op = "WaitForCondition" /\ call[t].id = r.data

In(list, s)   == \E i \in DOMAIN list : list[i] = s
NoTwice(list) == \A i, j \in DOMAIN list : list[i] = list[j] => i = j

TablesOK ==
    /\ notify_table \in [Condvars -> Seq(Senders)] /\ mutex_hash \in [Mutexes -> Seq(Senders)]
    /\ notifications_with_timeouts \subseteq Senders

\* Every request is that of one thread, and has one.
RequestsOK ==
    /\ \A r \in Requests : \E t \in Threads : AsksFor(t, r)
    /\ \A r, o \in Requests : r.sender = o.sender => r = o

\* A sender in a list is there once, for a thread that waits, or its time is up
\* and the message that will remove it is on its way.
WaitersOK ==
    /\ \A c \in Condvars, s \in Senders : In(notify_table[c], s) =>
          \/ \E t \in Threads : WaitsFor(t, c, s)
          \/ s \in notifications_with_timeouts /\ Pending(s, c)
    /\ \A c \in Condvars : NoTwice(notify_table[c])

TimeoutsOK ==
    \A s \in notifications_with_timeouts : \E c \in Condvars :
        /\ In(notify_table[c], s)
        /\ Pending(s, c) \/ \E t \in Threads : WaitsFor(t, c, s) /\ call[t].timed

LockersOK ==
    \A m \in Mutexes :
        /\ \A s \in Senders : In(mutex_hash[m], s) => \E t \in Threads : LocksFor(t, m, s)
        /\ NoTwice(mutex_hash[m])

\* A thread that is put away is where it will be found.
FoundOK ==
    \A t \in Threads : PutAway(t) =>
        /\ call[t].op \in {"SleepMs", "WaitForCondition", "LockMutex"}
        /\ call[t].op = "SleepMs" => \E r \in Requests : AsksFor(t, r)
        /\ call[t].op = "WaitForCondition" =>
              /\ call[t].id \in Condvars /\ In(notify_table[call[t].id], call[t].sender)
              /\ call[t].timed => /\ call[t].sender \in notifications_with_timeouts
                                  /\ \E r \in Requests : AsksFor(t, r)
        /\ call[t].op = "LockMutex" =>
              call[t].id \in Mutexes /\ In(mutex_hash[call[t].id], call[t].sender)

CoreInv == TablesOK /\ RequestsOK /\ WaitersOK /\ TimeoutsOK /\ LockersOK /\ FoundOK

\* The loop of NotifyCondition does not run past the end of the list.
LoopOK == msg # NONE /\ msg.op = "notifying" => msg.arg <= Len(notify_table[msg.id])

\* A condition is freed after everything that was there when it was dropped and
\* before whoever waits for it since.
Ahead(i, s) ==
    \/ msg # NONE /\ Recalc(msg, s)
    \/ \E j \in DOMAIN queue : j < i /\ Recalc(queue[j], s)
FreedOK ==
    /\ \A i \in DOMAIN queue : queue[i].op = "FreeCondition" =>
          /\ \A t \in Threads : call[t].op = "WaitForCondition" /\ call[t].id = queue[i].id
                => Behind(i, call[t].sender)
          /\ \A s \in Senders : In(notify_table[queue[i].id], s) => Ahead(i, s)
    /\ msg # NONE /\ msg.op = "FreeCondition" => notify_table[msg.id] = <<>>

TInv == CoreInv /\ LoopOK /\ FreedOK

-----------------------------------------------------------------------------
(***************************************************************************)
(* The inductive invariant: mutexes.                                       *)
(***************************************************************************)
LockState == {"out", "wants", "holds", "owes"}
Unlocks(x, m) == x.op = "UnlockMutex" /\ x.id = m
Has(t, m) == lock[t][m] \in {"holds", "owes"}
UnlockQueued(m) == \E i \in DOMAIN queue : Unlocks(queue[i], m)
UnlockHandled(m) == msg # NONE /\ Unlocks(msg, m)

OneUnlock(m) ==
    \A i, j \in DOMAIN queue : Unlocks(queue[i], m) /\ Unlocks(queue[j], m) => i = j

\* A mutex that is held, or wanted, is in one place: with a thread that holds it
\* or is about to tell the service, in a message, or in mutex_ready_table.
OnePlace(m) ==
    /\ \A t, u \in Threads : Has(t, m) /\ Has(u, m) => t = u
    /\ OneUnlock(m)
    /\ (\E t \in Threads : Has(t, m)) =>
           ~UnlockQueued(m) /\ ~UnlockHandled(m) /\ m \notin mutex_ready_table
    /\ UnlockQueued(m) => ~UnlockHandled(m) /\ m \notin mutex_ready_table
    /\ UnlockHandled(m) => m \notin mutex_ready_table

\* Whoever wants it is owed it, and it is owed only to somebody.
Owed(m) ==
    \/ \E t \in Threads : lock[t][m] = "owes"
    \/ UnlockQueued(m) \/ UnlockHandled(m) \/ m \in mutex_ready_table
WantedOK(m) ==
    /\ (\E t \in Threads : lock[t][m] = "wants") => Owed(m) \/ \E t \in Threads : lock[t][m] = "holds"
    /\ Owed(m) => \E t \in Threads : lock[t][m] = "wants"

\* A mutex is freed before the messages of whoever uses it since.
FreedMutexOK ==
    /\ \A i \in DOMAIN queue : queue[i].op = "FreeMutex" =>
          /\ mutex_hash[queue[i].id] = <<>> /\ queue[i].id \notin mutex_ready_table
          /\ ~UnlockHandled(queue[i].id)
          /\ \A j \in DOMAIN queue : Unlocks(queue[j], queue[i].id) => i < j
          /\ \A t \in Threads : call[t].op = "LockMutex" /\ call[t].id = queue[i].id
                => Behind(i, call[t].sender)
    /\ msg # NONE /\ msg.op = "FreeMutex" =>
          mutex_hash[msg.id] = <<>> /\ msg.id \notin mutex_ready_table

LInv ==
    /\ mutex_ready_table \subseteq Mutexes
    /\ lock \in [Threads -> [Mutexes -> LockState]]
    /\ \A t \in Threads : call[t].op = "LockMutex" => lock[t][call[t].id] = "wants"
    /\ \A m \in Mutexes : OnePlace(m) /\ WantedOK(m)
    /\ FreedMutexOK

TickInv == MInv /\ AInv /\ TInv /\ LInv /\ failed = {}

-----------------------------------------------------------------------------
(***************************************************************************)
(* Sequences and searches.                                                 *)
(***************************************************************************)
\* A non-empty set of naturals has a least element.
LEMMA LeastNatural ==
    ASSUME NEW S \in SUBSET Nat, S # {}
    PROVE  \E x \in S : \A y \in S : x <= y
<1>1. PICK x \in S : \A y \in S : ~ (<<y, x>> \in OpToRel(<, Nat))
  BY NatLessThanWellFounded, WFMin
<1>2. \A y \in S : ~ (y < x)
  BY <1>1 DEF OpToRel
<1> QED BY <1>2

LEMMA AppendFacts ==
    ASSUME NEW S, NEW q \in Seq(S), NEW e \in S
    PROVE  /\ Append(q, e) \in Seq(S)
           /\ DOMAIN q = 1 .. Len(q) /\ Len(q) \in Nat
           /\ DOMAIN Append(q, e) = 1 .. Len(q) + 1 /\ Len(Append(q, e)) = Len(q) + 1
           /\ \A i \in DOMAIN q : Append(q, e)[i] = q[i]
           /\ Append(q, e)[Len(q) + 1] = e
OBVIOUS

LEMMA TailFacts ==
    ASSUME NEW S, NEW q \in Seq(S), q # <<>>
    PROVE  /\ Tail(q) \in Seq(S) /\ Head(q) = q[1] /\ Head(q) \in S
           /\ Len(q) \in Nat \ {0} /\ DOMAIN q = 1 .. Len(q)
           /\ DOMAIN Tail(q) = 1 .. Len(q) - 1 /\ Len(Tail(q)) = Len(q) - 1
           /\ \A i \in DOMAIN Tail(q) : Tail(q)[i] = q[i + 1]
OBVIOUS

-----------------------------------------------------------------------------
(***************************************************************************)
(* Messages and calls.                                                     *)
(***************************************************************************)
\* What a reply to the senders S does to the calls and to the mutexes.
Woken(t, S) == call[t].sender \in S /\ ~Queued(call[t].sender)
Answered(S) == [t \in Threads |-> IF Woken(t, S) THEN Idle ELSE call[t]]
LocksAfter(S) ==
    [t \in Threads |-> [m \in Mutexes |->
        IF Woken(t, S) /\ call[t].op = "LockMutex" /\ call[t].id = m
        THEN "holds" ELSE lock[t][m]]]

LEMMA AnswerIs ==
    ASSUME NEW S, Answer(S)
    PROVE  call' = Answered(S) /\ lock' = LocksAfter(S)
<1>1. \A t \in Threads : IsToken(call[t].sender) <=> ~Queued(call[t].sender)
  BY DEF IsToken
<1> QED
  BY <1>1 DEF Answer, Answered, LocksAfter, Woken

LEMMA NobodyAnswered ==
    ASSUME CallsOK
    PROVE  Answered({}) = call
BY DEF Answered, Woken, CallsOK

\* The calls that are left after a reply, and those that are over.
LEMMA AnsweredFacts ==
    ASSUME CallsOK, NEW S \in SUBSET Senders, call' = Answered(S)
    PROVE  /\ call' \in [Threads -> Call]
           /\ \A t \in Threads : Woken(t, S) => call'[t] = Idle /\ call'[t].sender = NONE
                                                /\ call'[t].op = NONE
           /\ \A t \in Threads : ~Woken(t, S) => call'[t] = call[t]
<1>1. Idle \in Call /\ Idle.sender = NONE /\ Idle.op = NONE
  BY DEF Idle, Call
<1> QED
  BY <1>1 DEF CallsOK, Answered

LEMMA AnsweredCallsOK ==
    ASSUME CallsOK, NEW S \in SUBSET Senders, call' = Answered(S)
    PROVE  CallsOK'
<1>1. Idle.timed = FALSE
  BY DEF Idle
<1>2. NONE \notin BlockingOps
  BY TicktimerAssumption
<1> QED
  BY <1>1, <1>2, AnsweredFacts DEF CallsOK

\* The message being handled is done with, or is a step further: then its
\* sender, if it has one, is not answered yet.
Advanced(S) ==
    \/ msg' = NONE
    \/ /\ msg # NONE /\ msg' \in Letter /\ Fits(msg')
       /\ \/ msg'.op = "resume"
          \/ /\ msg'.op = "notifying" /\ msg.op \in {"NotifyCondition", "notifying"}
             /\ msg'.sender = msg.sender /\ msg'.id = msg.id /\ msg.sender \notin S

LEMMA HandledKeepsMInv ==
    ASSUME MInv, NEW S \in SUBSET Senders, call' = Answered(S), queue' = queue, Advanced(S)
    PROVE  MInv'
<1> USE DEF MInv
<1>1. CallsOK'
  BY AnsweredCallsOK
<1>2. LettersOK'
  BY DEF LettersOK, Advanced
<1>3. \A s : Queued(s)' <=> Queued(s)
  BY DEF Queued
<1>4. \A i \in DOMAIN queue, t \in Threads :
         queue[i].op \in BlockingOps /\ Sent(t, queue[i]) => Sent(t, queue[i])'
  <2> TAKE i \in DOMAIN queue, t \in Threads
  <2> HAVE queue[i].op \in BlockingOps /\ Sent(t, queue[i])
  <2>1. call[t].sender = queue[i].sender
    BY DEF Sent
  <2>2. Queued(call[t].sender)
    BY <2>1 DEF Queued
  <2> QED
    BY <2>2, AnsweredFacts DEF Sent, Woken
<1>5. ASSUME msg' # NONE, msg'.op \in Owing
      PROVE  (\E t \in Threads : Sent(t, msg)') /\ ~Queued(msg'.sender)
  <2>1. /\ msg # NONE /\ msg'.op = "notifying" /\ msg.op \in {"NotifyCondition", "notifying"}
        /\ msg'.sender = msg.sender /\ msg'.id = msg.id /\ msg.sender \notin S
    BY <1>5 DEF Advanced, Owing, BlockingOps
  <2>2. msg.op \in Owing
    BY <2>1 DEF Owing, BlockingOps
  <2>3. PICK t \in Threads : Sent(t, msg)
    BY <2>1, <2>2 DEF SentOK
  <2>4. ~Woken(t, S)
    BY <2>1, <2>3 DEF Woken, Sent
  <2>5. call'[t] = call[t]
    BY <2>4, AnsweredFacts
  <2>6. Sent(t, msg)'
    BY <2>1, <2>3, <2>5 DEF Sent, TimedOps
  <2> QED
    BY <2>1, <2>2, <2>6 DEF SentOK
<1>6. SentOK'
  BY <1>3, <1>4, <1>5 DEF SentOK
<1>7. AlarmFirst'
  <2>1. \A i, s : Behind(i, s)' <=> Behind(i, s)
    BY DEF Behind
  <2>2. ASSUME NEW i \in DOMAIN queue, NEW t \in Threads, Recalc(queue[i], call'[t].sender)
        PROVE  Behind(i, call'[t].sender)
    <3>1. queue[i].arg \in Senders
      BY <2>2 DEF LettersOK, Fits, Recalc
    <3>2. call'[t].sender # NONE
      BY <2>2, <3>1, TicktimerAssumption DEF Recalc
    <3>3. call'[t] = call[t]
      BY <3>2, AnsweredFacts
    <3> QED
      BY <2>2, <3>3 DEF AlarmFirst
  <2>3. msg' # NONE => msg'.op # "RecalculateSleep"
    BY DEF Advanced
  <2> QED
    BY <2>1, <2>2, <2>3 DEF AlarmFirst
<1> QED
  BY <1>1, <1>2, <1>6, <1>7

LEMMA ReceiveKeepsMInv ==
    ASSUME MInv, Receive
    PROVE  MInv'
<1> USE DEF MInv
<1>1. /\ msg = NONE /\ queue # <<>> /\ msg' = Head(queue) /\ queue' = Tail(queue)
      /\ call' = call /\ queue \in Seq(Letter)
  BY DEF Receive, LettersOK
<1>2. /\ Tail(queue) \in Seq(Letter) /\ Head(queue) = queue[1] /\ Head(queue) \in Letter
      /\ Len(queue) \in Nat \ {0} /\ DOMAIN queue = 1 .. Len(queue)
      /\ DOMAIN Tail(queue) = 1 .. Len(queue) - 1
      /\ \A i \in DOMAIN Tail(queue) : Tail(queue)[i] = queue[i + 1]
  BY <1>1, TailFacts
<1>3. /\ 1 \in DOMAIN queue /\ msg' = queue[1] /\ msg' \in Letter /\ msg' # NONE
      /\ DOMAIN queue' = 1 .. Len(queue) - 1
      /\ \A i \in DOMAIN queue' : i + 1 \in DOMAIN queue /\ queue'[i] = queue[i + 1]
      /\ \A i \in DOMAIN queue : i # 1 => i - 1 \in DOMAIN queue' /\ queue'[i - 1] = queue[i]
  BY <1>1, <1>2, TicktimerAssumption
<1>4. CallsOK'
  BY <1>1 DEF CallsOK
<1>5. LettersOK'
  BY <1>1, <1>2, <1>3 DEF LettersOK
<1>6. \A t, i : Sent(t, queue[i])' <=> Sent(t, queue'[i])
  BY <1>1 DEF Sent
<1>7. \A t : Sent(t, msg)' <=> Sent(t, queue[1])
  BY <1>1, <1>3 DEF Sent
<1>8. queue[1].op \in Owing => queue[1].op \in BlockingOps
  BY <1>3 DEF LettersOK, Owing
<1>9. \A i \in DOMAIN queue' : queue'[i].op \in BlockingOps => \E t \in Threads : Sent(t, queue[i])'
  BY <1>3, <1>6 DEF SentOK
<1>10. msg' # NONE /\ msg'.op \in Owing => \E t \in Threads : Sent(t, msg)'
  BY <1>3, <1>7, <1>8 DEF SentOK
<1>11. \A i, j \in DOMAIN queue' :
          queue'[i].sender = queue'[j].sender /\ queue'[i].op \in BlockingOps
             /\ queue'[j].op \in BlockingOps => i = j
  <2> TAKE i, j \in DOMAIN queue'
  <2> HAVE queue'[i].sender = queue'[j].sender /\ queue'[i].op \in BlockingOps
             /\ queue'[j].op \in BlockingOps
  <2>1. i + 1 = j + 1
    BY <1>3 DEF SentOK
  <2> QED
    BY <2>1, <1>3, <1>2
<1>12. msg' # NONE /\ msg'.op \in Owing => ~Queued(msg.sender)'
  <2> SUFFICES ASSUME msg'.op \in Owing, NEW i \in DOMAIN queue',
                      queue'[i].op \in BlockingOps, queue'[i].sender = msg'.sender
               PROVE  FALSE
    BY DEF Queued
  <2>1. i + 1 = 1
    BY <1>3, <1>8 DEF SentOK
  <2> QED
    BY <2>1, <1>3, <1>2
<1>13. SentOK'
  BY <1>9, <1>10, <1>11, <1>12 DEF SentOK
<1>14. \A s : \A i \in DOMAIN queue' : Behind(i + 1, s) => Behind(i, s)'
  BY <1>2, <1>3 DEF Behind
<1>15. \A s : Behind(1, s) => Queued(s)'
  <2> TAKE s
  <2> HAVE Behind(1, s)
  <2>1. PICK j \in DOMAIN queue : 1 < j /\ queue[j].op \in BlockingOps /\ queue[j].sender = s
    BY DEF Behind
  <2> QED
    BY <2>1, <1>3 DEF Queued
<1>16. \A i, j \in DOMAIN queue' :
          Recalc(queue'[i], queue'[i].arg) /\ Recalc(queue'[j], queue'[i].arg) => i = j
  <2> TAKE i, j \in DOMAIN queue'
  <2> HAVE Recalc(queue'[i], queue'[i].arg) /\ Recalc(queue'[j], queue'[i].arg)
  <2>1. i + 1 = j + 1
    BY <1>3 DEF AlarmFirst
  <2> QED
    BY <2>1, <1>3, <1>2
<1>17. \A i \in DOMAIN queue', t \in Threads :
          Recalc(queue'[i], call'[t].sender) => Behind(i, call[t].sender)'
  BY <1>1, <1>3, <1>14 DEF AlarmFirst
<1>18. ASSUME msg'.op = "RecalculateSleep"
       PROVE  /\ \A i \in DOMAIN queue' : ~Recalc(queue'[i], msg'.arg)
              /\ \A t \in Threads : call'[t].sender = msg'.arg => Queued(msg.arg)'
  <2>1. Recalc(queue[1], queue[1].arg)
    BY <1>18, <1>3 DEF Recalc
  <2>2. \A i \in DOMAIN queue' : i + 1 # 1
    BY <1>3, <1>2
  <2>3. \A i \in DOMAIN queue' : ~Recalc(queue[i + 1], queue[1].arg)
    BY <2>1, <2>2, <1>3 DEF AlarmFirst
  <2>4. \A t \in Threads : call[t].sender = queue[1].arg => Behind(1, call[t].sender)
    BY <2>1, <1>3 DEF AlarmFirst
  <2> QED
    BY <2>3, <2>4, <1>1, <1>3, <1>15
<1>19. AlarmFirst'
  BY <1>16, <1>17, <1>18 DEF AlarmFirst
<1> QED
  BY <1>4, <1>5, <1>13, <1>19

\* The calls of the blocked threads are what they were, but for the time.
SameCalls ==
    /\ call' \in [Threads -> Call]
    /\ \A t \in Threads :
          /\ call'[t].sender = call[t].sender
          /\ call[t].sender # NONE => /\ call'[t].op = call[t].op /\ call'[t].id = call[t].id
                                      /\ call'[t].timed = call[t].timed
                                      /\ call'[t].due <= call[t].due
          /\ call[t].sender = NONE => call'[t].op \notin BlockingOps /\ ~call'[t].timed

LEMMA SameCallsOK ==
    ASSUME CallsOK, SameCalls
    PROVE  CallsOK'
BY DEF CallsOK, SameCalls

LEMMA SameCallsSent ==
    ASSUME CallsOK, SameCalls, NEW m \in Letter, m.sender # NONE, NEW t \in Threads, Sent(t, m)
    PROVE  /\ call'[t].sender = m.sender /\ call'[t].id = m.id
           /\ call'[t].op = IF m.op = "notifying" THEN "NotifyCondition" ELSE m.op
           /\ m.op \in TimedOps => call'[t].due <= m.arg /\ (call'[t].timed <=> m.arg > 0)
<1>1. call[t].due \in Nat /\ call'[t].due \in Nat /\ m.arg \in Nat
  BY DEF CallsOK, SameCalls, Call, Letter
<1>2. call[t].sender # NONE
  BY DEF Sent
<1>3. /\ call'[t].sender = call[t].sender /\ call'[t].op = call[t].op /\ call'[t].id = call[t].id
      /\ call'[t].timed = call[t].timed /\ call'[t].due <= call[t].due
  BY <1>2 DEF SameCalls
<1>4. m.op \in TimedOps => call'[t].due <= m.arg
  BY <1>1, <1>3 DEF Sent
<1> QED
  BY <1>3, <1>4 DEF Sent

LEMMA TimeKeepsMInv ==
    ASSUME MInv, SameCalls, queue' = queue, msg' = msg
    PROVE  MInv'
<1> USE DEF MInv
<1>1. CallsOK'
  BY SameCallsOK
<1>2. LettersOK'
  BY DEF LettersOK
<1>3. \A s : Queued(s)' <=> Queued(s)
  BY DEF Queued
<1>4. \A i \in DOMAIN queue : queue[i].op \in BlockingOps => \E t \in Threads : Sent(t, queue[i])'
  <2> TAKE i \in DOMAIN queue
  <2> HAVE queue[i].op \in BlockingOps
  <2>1. PICK t \in Threads : Sent(t, queue[i])
    BY DEF SentOK
  <2>2. queue[i] \in Letter /\ queue[i].sender # NONE
    BY DEF LettersOK, Fits, Owing
  <2> QED
    BY <2>1, <2>2, SameCallsSent DEF Sent
<1>5. msg # NONE /\ msg.op \in Owing => \E t \in Threads : Sent(t, msg)'
  <2> HAVE msg # NONE /\ msg.op \in Owing
  <2>1. PICK t \in Threads : Sent(t, msg)
    BY DEF SentOK
  <2>2. msg \in Letter /\ msg.sender # NONE
    BY DEF LettersOK, Fits
  <2> QED
    BY <2>1, <2>2, SameCallsSent DEF Sent
<1>6. SentOK'
  BY <1>3, <1>4, <1>5 DEF SentOK
<1>7. \A i, s : Behind(i, s)' <=> Behind(i, s)
  BY DEF Behind
<1>8. AlarmFirst'
  BY <1>3, <1>7 DEF AlarmFirst, SameCalls
<1> QED
  BY <1>1, <1>2, <1>6, <1>8

\* A message is added at the end of the queue.
LEMMA AppendedQueue ==
    ASSUME LettersOK, NEW m \in Letter, queue' = Append(queue, m)
    PROVE  /\ queue' \in Seq(Letter) /\ Len(queue) \in Nat
           /\ DOMAIN queue = 1 .. Len(queue) /\ DOMAIN queue' = 1 .. Len(queue) + 1
           /\ DOMAIN queue \subseteq DOMAIN queue' /\ Len(queue) + 1 \in DOMAIN queue'
           /\ \A i \in DOMAIN queue : queue'[i] = queue[i] /\ i < Len(queue) + 1 /\ i # Len(queue) + 1
           /\ \A i \in DOMAIN queue' : i # Len(queue) + 1 => i \in DOMAIN queue
           /\ queue'[Len(queue) + 1] = m
BY AppendFacts DEF LettersOK

LEMMA AppendedQueued ==
    ASSUME LettersOK, NEW m \in Letter, queue' = Append(queue, m)
    PROVE  /\ \A s : Queued(s)' <=> Queued(s) \/ (m.op \in BlockingOps /\ m.sender = s)
           /\ \A s : \A i \in DOMAIN queue :
                 Behind(i, s)' <=> Behind(i, s) \/ (m.op \in BlockingOps /\ m.sender = s)
<1>1. /\ Len(queue) + 1 \in DOMAIN queue' /\ queue'[Len(queue) + 1] = m
      /\ DOMAIN queue \subseteq DOMAIN queue'
      /\ \A i \in DOMAIN queue : queue'[i] = queue[i] /\ i < Len(queue) + 1
      /\ \A i \in DOMAIN queue' : i # Len(queue) + 1 => i \in DOMAIN queue
  BY AppendedQueue
<1>2. \A s : Queued(s)' <=> Queued(s) \/ (m.op \in BlockingOps /\ m.sender = s)
  BY <1>1 DEF Queued
<1>3. \A s : \A i \in DOMAIN queue :
         Behind(i, s)' <=> Behind(i, s) \/ (m.op \in BlockingOps /\ m.sender = s)
  BY <1>1 DEF Behind
<1> QED
  BY <1>2, <1>3

LEMMA PostKeepsMInv ==
    ASSUME MInv, SameCalls, NEW m \in Letter, Fits(m), m.op \in PostedOps,
           queue' = Append(queue, m), msg' = msg
    PROVE  MInv'
<1> USE DEF MInv
<1>1. /\ m.op \notin BlockingOps /\ m.op \notin {"notifying", "resume", "RecalculateSleep"}
  BY DEF PostedOps, BlockingOps
<1>2. /\ queue' \in Seq(Letter) /\ queue'[Len(queue) + 1] = m
      /\ DOMAIN queue \subseteq DOMAIN queue'
      /\ \A i \in DOMAIN queue : queue'[i] = queue[i] /\ i < Len(queue) + 1
      /\ \A i \in DOMAIN queue' : i # Len(queue) + 1 => i \in DOMAIN queue
  BY AppendedQueue
<1>3. /\ \A s : Queued(s)' <=> Queued(s)
      /\ \A s : \A i \in DOMAIN queue : Behind(i, s)' <=> Behind(i, s)
  BY <1>1, AppendedQueued
<1>4. CallsOK'
  BY SameCallsOK
<1>5. LettersOK'
  BY <1>1, <1>2 DEF LettersOK
<1>6. \A i \in DOMAIN queue : queue[i].op \in BlockingOps => \E t \in Threads : Sent(t, queue[i])'
  <2> TAKE i \in DOMAIN queue
  <2> HAVE queue[i].op \in BlockingOps
  <2>1. PICK t \in Threads : Sent(t, queue[i])
    BY DEF SentOK
  <2>2. queue[i] \in Letter /\ queue[i].sender # NONE /\ queue'[i] = queue[i]
    BY <1>2 DEF LettersOK, Fits, Owing
  <2> QED
    BY <2>1, <2>2, SameCallsSent DEF Sent
<1>7. msg # NONE /\ msg.op \in Owing => \E t \in Threads : Sent(t, msg)'
  <2> HAVE msg # NONE /\ msg.op \in Owing
  <2>1. PICK t \in Threads : Sent(t, msg)
    BY DEF SentOK
  <2>2. msg \in Letter /\ msg.sender # NONE
    BY DEF LettersOK, Fits
  <2> QED
    BY <2>1, <2>2, SameCallsSent DEF Sent
<1>8. \A i \in DOMAIN queue' : queue'[i].op \in BlockingOps =>
         i \in DOMAIN queue /\ queue'[i] = queue[i]
  BY <1>1, <1>2
<1>9. SentOK'
  BY <1>3, <1>6, <1>7, <1>8 DEF SentOK
<1>10. \A i \in DOMAIN queue' : queue'[i].op = "RecalculateSleep" =>
         i \in DOMAIN queue /\ queue'[i] = queue[i]
  BY <1>1, <1>2
<1>11. \A s : \A i \in DOMAIN queue' : Recalc(queue'[i], s) => i \in DOMAIN queue /\ Recalc(queue[i], s)
  BY <1>10 DEF Recalc
<1>12. \A t \in Threads : call'[t].sender = call[t].sender
  BY DEF SameCalls
<1>13. \A i, j \in DOMAIN queue' :
          Recalc(queue'[i], queue'[i].arg) /\ Recalc(queue'[j], queue'[i].arg) => i = j
  BY <1>11, <1>2 DEF AlarmFirst
<1>14. \A i \in DOMAIN queue', t \in Threads :
          Recalc(queue'[i], call'[t].sender) => Behind(i, call[t].sender)'
  BY <1>3, <1>11, <1>12 DEF AlarmFirst
<1>15. AlarmFirst'
  BY <1>3, <1>11, <1>12, <1>13, <1>14 DEF AlarmFirst
<1> QED
  BY <1>4, <1>5, <1>9, <1>15

\* A thread that makes a blocking call gets a sender nobody has.
LEMMA SendKeepsMInv ==
    ASSUME MInv, NEW t \in Threads, call[t].sender = NONE,
           NEW m \in Letter, Fits(m), m.op \in BlockingOps, m.sender \in Unused,
           NEW c \in Call, c.op = m.op, c.id = m.id, c.sender = m.sender,
           m.op \in TimedOps => c.due = m.arg /\ (c.timed <=> m.arg > 0),
           m.op \notin TimedOps => ~c.timed,
           call' = [call EXCEPT ![t] = c], queue' = Append(queue, m), msg' = msg
    PROVE  MInv'
<1> USE DEF MInv
<1>1. /\ call' \in [Threads -> Call] /\ call'[t] = c
      /\ \A u \in Threads : u # t => call'[u] = call[u]
  BY DEF CallsOK
<1>2. /\ queue' \in Seq(Letter) /\ queue'[Len(queue) + 1] = m /\ Len(queue) + 1 \in DOMAIN queue'
      /\ DOMAIN queue \subseteq DOMAIN queue'
      /\ \A i \in DOMAIN queue : queue'[i] = queue[i] /\ i < Len(queue) + 1
      /\ \A i \in DOMAIN queue' : i # Len(queue) + 1 => i \in DOMAIN queue
  BY AppendedQueue
<1>3. /\ \A s : Queued(s)' <=> Queued(s) \/ m.sender = s
      /\ \A s : \A i \in DOMAIN queue : Behind(i, s)' <=> Behind(i, s) \/ m.sender = s
  BY AppendedQueued
<1>4. /\ m.sender \in Senders /\ m.sender # NONE
      /\ \A u \in Threads : call[u].sender # m.sender
      /\ \A i \in DOMAIN queue : queue[i].sender # m.sender
  BY TicktimerAssumption DEF Unused
<1>5. CallsOK'
  BY <1>1, <1>4 DEF CallsOK, TimedOps
<1>6. LettersOK'
  <2>1. m.op \notin {"notifying", "resume"}
    BY DEF BlockingOps
  <2> QED
    BY <1>2, <2>1 DEF LettersOK
<1>7. \A x : \A u \in Threads : x.sender # NONE /\ Sent(u, x) =>
         /\ u # t /\ call'[u] = call[u]
  BY <1>1 DEF Sent
<1>8. \A i \in DOMAIN queue : queue[i].op \in BlockingOps => \E u \in Threads : Sent(u, queue[i])'
  <2> TAKE i \in DOMAIN queue
  <2> HAVE queue[i].op \in BlockingOps
  <2>1. PICK u \in Threads : Sent(u, queue[i])
    BY DEF SentOK
  <2>2. queue[i].sender # NONE /\ queue'[i] = queue[i]
    BY <1>2 DEF LettersOK, Fits, Owing
  <2>3. call'[u] = call[u]
    BY <2>1, <2>2, <1>7
  <2> QED
    BY <2>1, <2>2, <2>3 DEF Sent
<1>9. msg # NONE /\ msg.op \in Owing => (\E u \in Threads : Sent(u, msg)') /\ msg.sender # m.sender
  <2> HAVE msg # NONE /\ msg.op \in Owing
  <2>1. PICK u \in Threads : Sent(u, msg)
    BY DEF SentOK
  <2>2. msg.sender # NONE
    BY DEF LettersOK, Fits
  <2>3. call'[u] = call[u] /\ msg.sender # m.sender
    BY <2>1, <2>2, <1>4, <1>7 DEF Sent
  <2> QED
    BY <2>1, <2>3 DEF Sent
<1>10. \A i \in DOMAIN queue' : i = Len(queue) + 1 => Sent(t, queue[i])'
  <2>1. m.op # "notifying"
    BY DEF BlockingOps
  <2>2. m.op \in TimedOps => c.due <= m.arg /\ (c.timed <=> m.arg > 0)
    BY DEF Letter
  <2>3. /\ c.sender = m.sender /\ c.id = m.id
        /\ c.op = IF m.op = "notifying" THEN "NotifyCondition" ELSE m.op
    BY <2>1
  <2> QED
    BY <1>1, <1>2, <2>2, <2>3 DEF Sent
<1>11. \A i \in DOMAIN queue' : queue'[i].op \in BlockingOps => \E u \in Threads : Sent(u, queue[i])'
  BY <1>2, <1>8, <1>10
<1>12. \A i, j \in DOMAIN queue' :
          queue'[i].sender = queue'[j].sender /\ queue'[i].op \in BlockingOps
             /\ queue'[j].op \in BlockingOps => i = j
  BY <1>2, <1>4 DEF SentOK
<1>13. msg # NONE /\ msg.op \in Owing => ~Queued(msg.sender)'
  BY <1>3, <1>9 DEF SentOK
<1>14. SentOK'
  BY <1>9, <1>11, <1>12, <1>13 DEF SentOK
<1>15. \A s : \A i \in DOMAIN queue' : Recalc(queue'[i], s) => i \in DOMAIN queue /\ Recalc(queue[i], s)
  <2>1. m.op # "RecalculateSleep"
    BY DEF BlockingOps
  <2> QED
    BY <1>2, <2>1 DEF Recalc
<1>16. \A i, j \in DOMAIN queue' :
          Recalc(queue'[i], queue'[i].arg) /\ Recalc(queue'[j], queue'[i].arg) => i = j
  <2> TAKE i, j \in DOMAIN queue'
  <2> HAVE Recalc(queue'[i], queue'[i].arg) /\ Recalc(queue'[j], queue'[i].arg)
  <2>1. /\ i \in DOMAIN queue /\ Recalc(queue[i], queue'[i].arg)
        /\ j \in DOMAIN queue /\ Recalc(queue[j], queue'[i].arg)
    BY <1>15
  <2>2. queue'[i] = queue[i]
    BY <2>1, <1>2
  <2> QED
    BY <2>1, <2>2 DEF AlarmFirst
<1>17. \A i \in DOMAIN queue', u \in Threads :
          Recalc(queue'[i], call'[u].sender) => Behind(i, call[u].sender)'
  <2> TAKE i \in DOMAIN queue', u \in Threads
  <2> HAVE Recalc(queue'[i], call'[u].sender)
  <2>1. i \in DOMAIN queue /\ Recalc(queue[i], call'[u].sender)
    BY <1>15
  <2>2. CASE u = t
    BY <2>1, <2>2, <1>1, <1>3
  <2>3. CASE u # t
    BY <2>1, <2>3, <1>1, <1>3 DEF AlarmFirst
  <2> QED
    BY <2>2, <2>3
<1>18. msg # NONE /\ msg.op = "RecalculateSleep" =>
          /\ \A i \in DOMAIN queue' : ~Recalc(queue'[i], msg.arg)
          /\ \A u \in Threads : call'[u].sender = msg.arg => Queued(msg.arg)'
  BY <1>1, <1>3, <1>15 DEF AlarmFirst
<1>19. AlarmFirst'
  BY <1>16, <1>17, <1>18 DEF AlarmFirst
<1> QED
  BY <1>5, <1>6, <1>14, <1>19

\* The interrupt: the sender s is answered, and there is a message about it.
LEMMA AlarmKeepsMInv ==
    ASSUME MInv, NEW s \in Senders, NEW w \in Threads, PutAway(w), call[w].sender = s,
           call' = Answered({s}), NEW m \in Letter, Fits(m), Recalc(m, s),
           queue' = Append(queue, m), msg' = msg
    PROVE  MInv'
<1> USE DEF MInv
<1>1. m.op \notin BlockingOps /\ m.op \notin {"notifying", "resume"} /\ m.arg = s
  BY DEF Recalc, BlockingOps
<1>2. /\ queue' \in Seq(Letter) /\ queue'[Len(queue) + 1] = m
      /\ DOMAIN queue \subseteq DOMAIN queue'
      /\ \A i \in DOMAIN queue : queue'[i] = queue[i] /\ i < Len(queue) + 1
      /\ \A i \in DOMAIN queue' : i # Len(queue) + 1 => i \in DOMAIN queue
  BY AppendedQueue
<1>3. /\ \A x : Queued(x)' <=> Queued(x)
      /\ \A x : \A i \in DOMAIN queue : Behind(i, x)' <=> Behind(i, x)
  BY <1>1, AppendedQueued
<1>4. ~Queued(s) /\ (msg = NONE \/ msg.sender # s) /\ s # NONE
  BY TicktimerAssumption DEF PutAway
<1>5. \A t \in Threads : Woken(t, {s}) <=> t = w
  BY <1>4 DEF Woken, CallsOK
<1>6. call'[w].sender = NONE /\ \A t \in Threads : t # w => call'[t] = call[t]
  BY <1>5, AnsweredFacts
<1>7. \A t \in Threads : call'[t].sender # s
  BY <1>4, <1>6 DEF CallsOK
<1>8. CallsOK'
  BY AnsweredCallsOK
<1>9. LettersOK'
  BY <1>1, <1>2 DEF LettersOK
<1>10. \A i \in DOMAIN queue : queue[i].op \in BlockingOps => \E t \in Threads : Sent(t, queue[i])'
  <2> TAKE i \in DOMAIN queue
  <2> HAVE queue[i].op \in BlockingOps
  <2>1. PICK t \in Threads : Sent(t, queue[i])
    BY DEF SentOK
  <2>2. t # w
    BY <2>1, <1>4 DEF Sent, Queued
  <2> QED
    BY <2>1, <2>2, <1>2, <1>6 DEF Sent
<1>11. msg # NONE /\ msg.op \in Owing => \E t \in Threads : Sent(t, msg)'
  <2> HAVE msg # NONE /\ msg.op \in Owing
  <2>1. PICK t \in Threads : Sent(t, msg)
    BY DEF SentOK
  <2>2. t # w
    BY <2>1, <1>4 DEF Sent
  <2> QED
    BY <2>1, <2>2, <1>6 DEF Sent
<1>12. \A i \in DOMAIN queue' : queue'[i].op \in BlockingOps =>
         i \in DOMAIN queue /\ queue'[i] = queue[i]
  BY <1>1, <1>2
<1>13. SentOK'
  BY <1>3, <1>10, <1>11, <1>12 DEF SentOK
<1>14. \A i \in DOMAIN queue : ~Recalc(queue[i], s)
  <2>1. \A i : Behind(i, s) => Queued(s)
    BY DEF Behind, Queued
  <2> QED
    BY <2>1, <1>4 DEF AlarmFirst
<1>15. msg # NONE /\ msg.op = "RecalculateSleep" => msg.arg # s
  BY <1>4 DEF AlarmFirst
<1>16. \A x : \A i \in DOMAIN queue' : Recalc(queue'[i], x) =>
          \/ i \in DOMAIN queue /\ Recalc(queue[i], x) /\ x # s
          \/ i = Len(queue) + 1 /\ x = s
  BY <1>1, <1>2, <1>14 DEF Recalc
<1>17. \A i, j \in DOMAIN queue' :
          Recalc(queue'[i], queue'[i].arg) /\ Recalc(queue'[j], queue'[i].arg) => i = j
  <2> TAKE i, j \in DOMAIN queue'
  <2> HAVE Recalc(queue'[i], queue'[i].arg) /\ Recalc(queue'[j], queue'[i].arg)
  <2>1. CASE queue'[i].arg = s
    BY <2>1, <1>16
  <2>2. CASE queue'[i].arg # s
    <3>1. /\ i \in DOMAIN queue /\ Recalc(queue[i], queue'[i].arg)
          /\ j \in DOMAIN queue /\ Recalc(queue[j], queue'[i].arg)
      BY <2>2, <1>16
    <3>2. queue'[i] = queue[i]
      BY <3>1, <1>2
    <3> QED
      BY <3>1, <3>2 DEF AlarmFirst
  <2> QED
    BY <2>1, <2>2
<1>18. \A i \in DOMAIN queue', t \in Threads :
          Recalc(queue'[i], call'[t].sender) => Behind(i, call[t].sender)'
  <2> TAKE i \in DOMAIN queue', t \in Threads
  <2> HAVE Recalc(queue'[i], call'[t].sender)
  <2>1. i \in DOMAIN queue /\ Recalc(queue[i], call'[t].sender)
    BY <1>16, <1>7
  <2>2. call'[t].sender # NONE
    <3>1. queue[i].arg \in Senders
      BY <2>1 DEF LettersOK, Fits, Recalc
    <3> QED
      BY <2>1, <3>1, TicktimerAssumption DEF Recalc
  <2>3. call'[t] = call[t]
    BY <2>2, <1>6
  <2> QED
    BY <2>1, <2>3, <1>3 DEF AlarmFirst
<1>19. msg # NONE /\ msg.op = "RecalculateSleep" =>
          /\ \A i \in DOMAIN queue' : ~Recalc(queue'[i], msg.arg)
          /\ \A t \in Threads : call'[t].sender = msg.arg => Queued(msg.arg)'
  <2> HAVE msg # NONE /\ msg.op = "RecalculateSleep"
  <2>1. \A i \in DOMAIN queue' : ~Recalc(queue'[i], msg.arg)
    BY <1>15, <1>16 DEF AlarmFirst
  <2>2. msg.arg # NONE
    BY TicktimerAssumption DEF LettersOK, Fits
  <2>3. \A t \in Threads : call'[t].sender = msg.arg => Queued(msg.arg)'
    BY <2>2, <1>3, <1>6 DEF AlarmFirst
  <2> QED
    BY <2>1, <2>3
<1>20. AlarmFirst'
  BY <1>17, <1>18, <1>19 DEF AlarmFirst
<1> QED
  BY <1>8, <1>9, <1>13, <1>20

\* There is a sender nobody has while the queue is not full: every sender in
\* use is a token or that of a message in the queue.
LEMMA FreeSender ==
    ASSUME MInv, ~QueueFull
    PROVE  (CHOOSE s \in Unused : \A o \in Unused : s <= o) \in Unused
<1> DEFINE T == {s \in Senders : IsToken(s)}
           Q == {queue[i].sender : i \in DOMAIN queue}
           f == [i \in DOMAIN queue |-> queue[i].sender]
<1>1. /\ NumSlots \in Nat \ {0} /\ IsFiniteSet(Senders) /\ Cardinality(Senders) = NumSlots
  BY TicktimerAssumption, FS_Interval DEF Senders
<1>2. /\ Len(queue) \in Nat /\ IsFiniteSet(DOMAIN queue) /\ Cardinality(DOMAIN queue) = Len(queue)
  <2>1. Len(queue) \in Nat /\ DOMAIN queue = 1 .. Len(queue)
    BY DEF MInv, LettersOK
  <2>2. IsFiniteSet(1 .. Len(queue))
        /\ Cardinality(1 .. Len(queue)) = IF 1 > Len(queue) THEN 0 ELSE Len(queue) - 1 + 1
    BY <2>1, FS_Interval
  <2> QED
    BY <2>1, <2>2
<1>3. Len(queue) + Cardinality(T) < NumSlots /\ Cardinality(T) \in Nat /\ IsFiniteSet(T)
  <2>1. T = {s \in Senders \ {} : IsToken(s)}
    OBVIOUS
  <2>2. IsFiniteSet(T) /\ Cardinality(T) \in Nat
    BY <1>1, FS_Subset, FS_CardinalityType
  <2> QED
    BY <1>1, <1>2, <2>1, <2>2 DEF QueueFull, FullWithout
<1>4. f \in Surjection(DOMAIN queue, Q)
  BY DEF Surjection
<1>5. IsFiniteSet(Q) /\ Cardinality(Q) <= Len(queue) /\ Cardinality(Q) \in Nat
  BY <1>2, <1>4, FS_Surjection, FS_CardinalityType
<1>6. IsFiniteSet(T \cup Q) /\ Cardinality(T \cup Q) <= Cardinality(T) + Cardinality(Q)
      /\ Cardinality(T \cup Q) \in Nat
  <2>1. IsFiniteSet(T \cap Q) /\ Cardinality(T \cap Q) \in Nat
    BY <1>3, FS_Intersection, FS_CardinalityType
  <2> HIDE DEF T, Q
  <2>2. /\ IsFiniteSet(T \cup Q)
        /\ Cardinality(T \cup Q) = Cardinality(T) + Cardinality(Q) - Cardinality(T \cap Q)
    BY <1>3, <1>5, FS_Union
  <2> QED
    BY <1>3, <1>5, <2>1, <2>2, FS_CardinalityType
<1>7. Unused # {}
  <2> SUFFICES ASSUME Unused = {} PROVE FALSE
    OBVIOUS
  <2>1. \A s \in Senders : s \in T \cup Q
    <3> TAKE s \in Senders
    <3>1. s \in Q \/ \E t \in Threads : call[t].sender = s
      BY DEF Unused
    <3>2. Queued(s) => s \in Q
      BY DEF Queued
    <3> QED
      BY <3>1, <3>2 DEF IsToken
  <2> HIDE DEF T, Q
  <2>2. Cardinality(Senders) <= Cardinality(T \cup Q)
    BY <2>1, <1>6, FS_Subset
  <2> QED
    BY <2>2, <1>1, <1>2, <1>3, <1>5, <1>6
<1>8. Unused \in SUBSET Nat
  BY <1>1 DEF Unused, Senders
<1> QED
  BY <1>7, <1>8, LeastNatural

-----------------------------------------------------------------------------
(***************************************************************************)
(* The timer.                                                              *)
(***************************************************************************)
Distinct(H) == \A r, o \in H : r.msec = o.msec => r = o
All(k) == (k.sleep_heap \cup {k.current_response}) \ {NONE}

TimerOK(k) ==
    /\ k \in Timer /\ IsFiniteSet(k.sleep_heap) /\ Distinct(k.sleep_heap)
    /\ k.current_response # NONE => \A r \in k.sleep_heap : r.msec > k.current_response.msec

Stopped(k) ==
    /\ k \in Timer /\ IsFiniteSet(k.sleep_heap) /\ Distinct(k.sleep_heap)
    /\ k.current_response = NONE /\ ~k.enabled

\* The alarm is set for the request that is due first.
Armed(k) ==
    /\ TimerOK(k)
    /\ k.enabled <=> k.current_response # NONE
    /\ k.sleep_heap # {} => k.current_response # NONE
    /\ k.current_response # NONE => /\ k.pending <=> k.current_response.msec <= 0
                                    /\ k.target = k.current_response.msec

LEMMA RequestFacts ==
    ASSUME NEW r \in TimerRequest
    PROVE  r # NONE /\ r.msec \in Int /\ r.sender \in Senders /\ r.sender # NONE
BY TicktimerAssumption DEF TimerRequest

LEMMA StopSleepStops ==
    ASSUME NEW k, TimerOK(k)
    PROVE  Stopped(stop_sleep(k)) /\ stop_sleep(k).sleep_heap = All(k)
<1> DEFINE q == stop_sleep(k)
<1>1. k \in Timer /\ k.sleep_heap \subseteq TimerRequest
      /\ k.current_response \in TimerRequest \cup {NONE}
  BY DEF TimerOK, Timer
<1>2. \A r \in k.sleep_heap : r # NONE
  BY <1>1, RequestFacts
<1>3. q \in Timer /\ q.sleep_heap = All(k) /\ q.current_response = NONE /\ ~q.enabled
  <2>1. CASE k.current_response = NONE
    BY <1>1, <1>2, <2>1 DEF stop_sleep, Timer, All
  <2>2. CASE k.current_response # NONE
    BY <1>1, <1>2, <2>2 DEF stop_sleep, Timer, All
  <2> QED
    BY <2>1, <2>2
<1>4. IsFiniteSet(All(k))
  <2>1. IsFiniteSet(k.sleep_heap \cup {k.current_response})
    BY FS_AddElement DEF TimerOK
  <2> QED
    BY <2>1, FS_RemoveElement DEF All
<1>5. Distinct(All(k))
  <2> SUFFICES ASSUME NEW r \in All(k), NEW o \in All(k), r.msec = o.msec PROVE r = o
    BY DEF Distinct
  <2>1. \A x \in All(k) : x \in TimerRequest /\ x.msec \in Int
    BY <1>1, RequestFacts DEF All
  <2>2. \A x \in All(k) : x \in k.sleep_heap \/ (x = k.current_response /\ x # NONE)
    BY DEF All
  <2>3. CASE r \in k.sleep_heap /\ o \in k.sleep_heap
    BY <2>3 DEF TimerOK, Distinct
  <2>4. CASE r \notin k.sleep_heap \/ o \notin k.sleep_heap
    BY <2>1, <2>2, <2>4 DEF TimerOK
  <2> QED
    BY <2>3, <2>4
<1> HIDE DEF q
<1>6. Stopped(q)
  BY <1>3, <1>4, <1>5 DEF Stopped
<1> QED
  BY <1>3, <1>6 DEF q

\* A finite non-empty set of requests has one that is due first.
LEMMA FirstFound ==
    ASSUME NEW H \in SUBSET TimerRequest, IsFiniteSet(H), H # {}
    PROVE  First(H) \in H /\ \A o \in H : First(H).msec <= o.msec
<1> DEFINE later(r) == {o \in H : r.msec < o.msec}
           D == {Cardinality(H) - Cardinality(later(r)) : r \in H}
<1>1. Cardinality(H) \in Nat
  BY FS_CardinalityType
<1>2. \A r \in H : IsFiniteSet(later(r)) /\ Cardinality(later(r)) \in Nat
                   /\ Cardinality(later(r)) <= Cardinality(H)
  BY FS_Subset, FS_CardinalityType
<1> HIDE DEF later
<1>3. D \in SUBSET Nat /\ D # {}
  BY <1>1, <1>2
<1>4. PICK d \in D : \A e \in D : d <= e
  BY <1>3, LeastNatural
<1>5. PICK r \in H : d = Cardinality(H) - Cardinality(later(r))
  BY <1>4
<1>6. \A o \in H : Cardinality(later(o)) <= Cardinality(later(r))
  <2> TAKE o \in H
  <2>1. d <= Cardinality(H) - Cardinality(later(o))
    BY <1>4
  <2> QED
    BY <2>1, <1>1, <1>2, <1>5
<1>7. \A o \in H : r.msec <= o.msec
  <2> SUFFICES ASSUME NEW o \in H, o.msec < r.msec PROVE FALSE
    BY RequestFacts
  <2>1. r \in later(o) /\ r \notin later(r)
    BY RequestFacts DEF later
  <2>2. later(r) \subseteq later(o)
    <3> SUFFICES ASSUME NEW x \in later(r) PROVE o.msec < x.msec
      BY DEF later
    <3>1. x.msec \in Int /\ o.msec \in Int /\ r.msec \in Int
      BY RequestFacts DEF later
    <3> QED
      BY <3>1 DEF later
  <2>3. Cardinality(later(r)) <= Cardinality(later(o))
        /\ (Cardinality(later(o)) = Cardinality(later(r)) => later(o) = later(r))
    BY <1>2, <2>2, FS_Subset
  <2>4. Cardinality(later(o)) = Cardinality(later(r))
    BY <2>3, <1>2, <1>6
  <2> QED
    BY <2>1, <2>3, <2>4
<1> QED
  BY <1>7 DEF First

LEMMA StartSleepArms ==
    ASSUME NEW k, Stopped(k)
    PROVE  Armed(start_sleep(k)) /\ All(start_sleep(k)) = k.sleep_heap
<1>1. k \in Timer /\ k.sleep_heap \in SUBSET TimerRequest /\ IsFiniteSet(k.sleep_heap)
      /\ k.current_response = NONE /\ k.enabled = FALSE
  BY DEF Stopped, Timer
<1>2. \A r \in k.sleep_heap : r # NONE /\ r.msec \in Int
  BY <1>1, RequestFacts
<1>3. CASE k.sleep_heap = {}
  <2>1. start_sleep(k) = k /\ All(k) = k.sleep_heap
    BY <1>1, <1>3 DEF start_sleep, All
  <2> QED
    BY <1>1, <1>3, <2>1 DEF Armed, TimerOK, Stopped
<1>4. CASE k.sleep_heap # {}
  <2> DEFINE r == First(k.sleep_heap)
             q == start_sleep(k)
  <2>1. r \in k.sleep_heap /\ \A o \in k.sleep_heap : r.msec <= o.msec
    BY <1>1, <1>4, FirstFound
  <2> HIDE DEF r
  <2>2. q = schedule_response([k EXCEPT !.sleep_heap = @ \ {r}], r)
    BY <1>4 DEF start_sleep, r
  <2>3. /\ q \in Timer /\ q.sleep_heap = k.sleep_heap \ {r} /\ q.current_response = r
        /\ q.target = r.msec /\ q.enabled = TRUE /\ q.pending = (r.msec <= 0)
    <3> DEFINE p == [k EXCEPT !.sleep_heap = @ \ {r}]
    <3>1. p \in Timer /\ p.sleep_heap = k.sleep_heap \ {r}
      BY <1>1, <2>1 DEF Timer
    <3>2. q = [p EXCEPT !.current_response = r, !.target = r.msec,
                        !.pending = r.msec <= 0, !.enabled = TRUE]
      BY <2>2 DEF schedule_response
    <3>3. r \in TimerRequest /\ r.msec \in Int
      BY <1>1, <1>2, <2>1
    <3> DEFINE b == r.msec <= 0
    <3>4. b \in BOOLEAN
      OBVIOUS
    <3>5. q = [p EXCEPT !.current_response = r, !.target = r.msec,
                        !.pending = b, !.enabled = TRUE]
      BY <3>2
    <3> HIDE DEF p, q, b
    <3>6. /\ q \in Timer /\ q.sleep_heap = k.sleep_heap \ {r} /\ q.current_response = r
          /\ q.target = r.msec /\ q.enabled = TRUE /\ q.pending = b
      BY <3>1, <3>3, <3>4, <3>5 DEF Timer
    <3> QED
      BY <3>6 DEF b
  <2> HIDE DEF q
  <2>4. \A o \in q.sleep_heap : o.msec > r.msec
    BY <1>2, <2>1, <2>3 DEF Stopped, Distinct
  <2>5. IsFiniteSet(q.sleep_heap)
    BY <1>1, <2>3, FS_RemoveElement
  <2>6. Distinct(q.sleep_heap)
    BY <2>3 DEF Stopped, Distinct
  <2>7. r # NONE
    BY <1>2, <2>1
  <2>8. TimerOK(q)
    BY <2>3, <2>4, <2>5, <2>6 DEF TimerOK
  <2>9. Armed(q)
    BY <2>3, <2>7, <2>8 DEF Armed
  <2>10. All(q) = k.sleep_heap
    BY <1>2, <2>1, <2>3 DEF All
  <2> QED
    BY <2>9, <2>10 DEF q
<1> QED
  BY <1>3, <1>4

\* The search for a key that is not taken ends: there are more keys than requests.
LEMMA FreeKey ==
    ASSUME NEW H \in SUBSET TimerRequest, IsFiniteSet(H), NEW from \in Int
    PROVE  LET free == {n \in from .. from + Cardinality(H) : n \notin Keys(H)}
               key  == CHOOSE n \in free : \A o \in free : n <= o
           IN  key \in Int /\ key >= from /\ key \notin Keys(H)
<1> DEFINE free == {n \in from .. from + Cardinality(H) : n \notin Keys(H)}
           f == [r \in H |-> r.msec]
           D == {n - from : n \in free}
<1>1. Cardinality(H) \in Nat
  BY FS_CardinalityType
<1>2. f \in Surjection(H, Keys(H))
  BY DEF Surjection, Keys
<1>3. IsFiniteSet(Keys(H)) /\ Cardinality(Keys(H)) <= Cardinality(H) /\ Cardinality(Keys(H)) \in Nat
  BY <1>2, FS_Surjection, FS_CardinalityType
<1>4. Cardinality(from .. from + Cardinality(H)) = Cardinality(H) + 1
  <2>1. Cardinality(from .. from + Cardinality(H)) =
          IF from > from + Cardinality(H) THEN 0 ELSE (from + Cardinality(H)) - from + 1
    BY <1>1, FS_Interval
  <2> QED
    BY <1>1, <2>1
<1>5. free # {}
  <2> SUFFICES ASSUME free = {} PROVE FALSE
    OBVIOUS
  <2>1. from .. from + Cardinality(H) \in SUBSET Keys(H)
    OBVIOUS
  <2>2. Cardinality(from .. from + Cardinality(H)) <= Cardinality(Keys(H))
    BY <1>3, <2>1, FS_Subset
  <2> QED
    BY <1>1, <1>3, <1>4, <2>2
<1>6. \A n \in free : n \in Int /\ n >= from /\ n \notin Keys(H)
  BY <1>1
<1> HIDE DEF free
<1>7. D \in SUBSET Nat /\ D # {}
  BY <1>5, <1>6
<1>8. PICK d \in D : \A e \in D : d <= e
  BY <1>7, LeastNatural
<1>9. PICK n \in free : d = n - from
  BY <1>8
<1>10. \A o \in free : n <= o
  BY <1>6, <1>8, <1>9
<1>11. (CHOOSE x \in free : \A o \in free : x <= o) \in free
  BY <1>10
<1> QED
  BY <1>6, <1>11 DEF free

LEMMA OfflineAdds ==
    ASSUME NEW k, Stopped(k), NEW r \in TimerRequest
    PROVE  LET q == recalculate_sleep_offline(k, r)
           IN  /\ Stopped(q)
               /\ \E n \in Int : n >= r.msec
                                 /\ q.sleep_heap = k.sleep_heap \cup {[r EXCEPT !.msec = n]}
<1> DEFINE free == {n \in r.msec .. r.msec + Cardinality(k.sleep_heap) : n \notin Keys(k.sleep_heap)}
           key  == CHOOSE n \in free : \A o \in free : n <= o
           x    == [r EXCEPT !.msec = key]
           q    == recalculate_sleep_offline(k, r)
<1>1. k \in Timer /\ k.sleep_heap \in SUBSET TimerRequest /\ IsFiniteSet(k.sleep_heap)
      /\ k.current_response = NONE /\ k.enabled = FALSE /\ Distinct(k.sleep_heap)
  BY DEF Stopped, Timer
<1>2. key \in Int /\ key >= r.msec /\ key \notin Keys(k.sleep_heap)
  BY <1>1, RequestFacts, FreeKey
<1>3. q = [k EXCEPT !.sleep_heap = @ \cup {x}]
  BY DEF recalculate_sleep_offline
<1> HIDE DEF key, q, free
<1>4. x \in TimerRequest /\ x.msec = key
  BY <1>2 DEF TimerRequest
<1>5. \E n \in Int : n >= r.msec /\ k.sleep_heap \cup {x} = k.sleep_heap \cup {[r EXCEPT !.msec = n]}
  BY <1>2
<1> HIDE DEF x
<1>6. /\ q \in Timer /\ q.sleep_heap = k.sleep_heap \cup {x} /\ q.current_response = NONE
      /\ q.enabled = FALSE
  BY <1>1, <1>3, <1>4 DEF Timer
<1>7. IsFiniteSet(q.sleep_heap)
  BY <1>1, <1>6, FS_AddElement
<1>8. Distinct(q.sleep_heap)
  BY <1>1, <1>2, <1>4, <1>6 DEF Distinct, Keys
<1>9. Stopped(q)
  BY <1>6, <1>7, <1>8 DEF Stopped
<1> QED
  BY <1>5, <1>6, <1>9 DEF q

LEMMA FewerStopped ==
    ASSUME NEW k, Stopped(k), NEW H \in SUBSET k.sleep_heap
    PROVE  /\ Stopped([k EXCEPT !.sleep_heap = H])
           /\ [k EXCEPT !.sleep_heap = H].sleep_heap = H
<1> DEFINE q == [k EXCEPT !.sleep_heap = H]
<1>1. q \in Timer /\ q.sleep_heap = H /\ q.current_response = NONE /\ ~q.enabled
  BY DEF Stopped, Timer
<1>2. IsFiniteSet(H)
  BY FS_Subset DEF Stopped
<1>3. Distinct(H)
  BY DEF Stopped, Distinct
<1> HIDE DEF q
<1>4. Stopped(q)
  BY <1>1, <1>2, <1>3 DEF Stopped
<1> QED
  BY <1>1, <1>4 DEF q

\* A request that is added keeps its order among the others, or is put off.
LEMMA RecalculateArms ==
    ASSUME NEW k, TimerOK(k), NEW r \in TimerRequest
    PROVE  /\ Armed(recalculate_sleep(k, r))
           /\ \E n \in Int : n >= r.msec
                  /\ All(recalculate_sleep(k, r)) = All(k) \cup {[r EXCEPT !.msec = n]}
<1> DEFINE p == stop_sleep(k)
           q == recalculate_sleep_offline(p, r)
<1>1. Stopped(p) /\ p.sleep_heap = All(k)
  BY StopSleepStops
<1> HIDE DEF p
<1>2. Stopped(q) /\ \E n \in Int : n >= r.msec
                                   /\ q.sleep_heap = p.sleep_heap \cup {[r EXCEPT !.msec = n]}
  BY <1>1, OfflineAdds
<1> HIDE DEF q
<1>3. Armed(start_sleep(q)) /\ All(start_sleep(q)) = q.sleep_heap
  BY <1>2, StartSleepArms
<1>4. recalculate_sleep(k, r) = start_sleep(q)
  BY DEF recalculate_sleep, p, q
<1> QED
  BY <1>1, <1>2, <1>3, <1>4

\* A millisecond passes for all requests alike.
LEMMA EarlierKeepsOrder ==
    ASSUME TimerOK(ticktimer)
    PROVE  /\ Requests = All(ticktimer) /\ Requests \subseteq TimerRequest /\ Earlier(NONE) = NONE
           /\ \A r \in Requests :
                 /\ Earlier(r) \in TimerRequest /\ Earlier(r).sender = r.sender
                 /\ Earlier(r).data = r.data
                 /\ IF r.msec > 1 THEN Earlier(r).msec = r.msec - 1 ELSE Earlier(r).msec <= 0
           /\ \A r, o \in Requests : r.msec < o.msec => Earlier(r).msec < Earlier(o).msec
<1> DEFINE over(r) == {o \in Requests : r.msec < o.msec /\ o.msec <= 1}
<1>1. Requests = All(ticktimer) /\ Requests \subseteq TimerRequest /\ IsFiniteSet(Requests)
  <2>1. stop_sleep(ticktimer) \in Timer /\ IsFiniteSet(stop_sleep(ticktimer).sleep_heap)
        /\ stop_sleep(ticktimer).sleep_heap = All(ticktimer)
    BY StopSleepStops DEF Stopped
  <2>2. All(ticktimer) \subseteq TimerRequest
    BY <2>1 DEF Timer
  <2> QED
    BY <2>1, <2>2 DEF Requests, All
<1>2. \A r \in Requests : r # NONE /\ r.msec \in Int
  BY <1>1, RequestFacts
<1>3. \A r \in Requests : IsFiniteSet(over(r)) /\ Cardinality(over(r)) \in Nat
  <2> TAKE r \in Requests
  <2>1. over(r) \in SUBSET Requests
    OBVIOUS
  <2> QED
    BY <1>1, <2>1, FS_Subset, FS_CardinalityType
<1>4. \A r \in Requests :
         Earlier(r) = [r EXCEPT !.msec = IF r.msec > 1 THEN r.msec - 1 ELSE -Cardinality(over(r))]
  BY <1>2 DEF Earlier
<1>5. \A r, o \in Requests : r.msec < o.msec /\ o.msec <= 1 =>
         Cardinality(over(o)) < Cardinality(over(r))
  <2> TAKE r, o \in Requests
  <2> HAVE r.msec < o.msec /\ o.msec <= 1
  <2>1. o \in over(r) /\ o \notin over(o)
    BY <1>2
  <2>2. over(o) \in SUBSET over(r)
    <3> SUFFICES ASSUME NEW x \in over(o) PROVE r.msec < x.msec
      OBVIOUS
    <3>1. x.msec \in Int /\ o.msec \in Int /\ r.msec \in Int
      BY <1>2
    <3> QED
      BY <3>1
  <2> HIDE DEF over
  <2>3. /\ Cardinality(over(o)) <= Cardinality(over(r))
        /\ Cardinality(over(r)) = Cardinality(over(o)) => over(r) = over(o)
    BY <1>3, <2>2, FS_Subset
  <2> QED
    BY <1>3, <2>1, <2>3
<1> HIDE DEF over
<1>6. \A r \in Requests :
         /\ Earlier(r) \in TimerRequest /\ Earlier(r).sender = r.sender /\ Earlier(r).data = r.data
         /\ Earlier(r).msec = IF r.msec > 1 THEN r.msec - 1 ELSE -Cardinality(over(r))
  <2> TAKE r \in Requests
  <2> DEFINE n == IF r.msec > 1 THEN r.msec - 1 ELSE -Cardinality(over(r))
  <2>1. n \in Int
    BY <1>2, <1>3
  <2>2. Earlier(r) = [r EXCEPT !.msec = n]
    BY <1>4
  <2> HIDE DEF n
  <2>3. r \in TimerRequest
    BY <1>1
  <2>4. Earlier(r) \in TimerRequest /\ Earlier(r).sender = r.sender /\ Earlier(r).data = r.data
        /\ Earlier(r).msec = n
    BY <2>1, <2>2, <2>3 DEF TimerRequest
  <2> QED
    BY <2>4 DEF n
<1>7. \A r \in Requests : IF r.msec > 1 THEN Earlier(r).msec = r.msec - 1 ELSE Earlier(r).msec <= 0
  BY <1>2, <1>3, <1>6
<1>8. \A r, o \in Requests : r.msec < o.msec => Earlier(r).msec < Earlier(o).msec
  BY <1>2, <1>3, <1>5, <1>6
<1>9. Earlier(NONE) = NONE
  BY DEF Earlier
<1> QED
  BY <1>1, <1>6, <1>7, <1>8, <1>9

-----------------------------------------------------------------------------
(***************************************************************************)
(* The alarm.                                                              *)
(***************************************************************************)
LEMMA AlarmFacts ==
    ASSUME AInv
    PROVE  TimerOK(ticktimer) /\ ticktimer \in Timer /\ Requests = All(ticktimer)
BY DEF AInv, AlarmIsSet, TimerOK, Distinct, Requests, All

\* A step that ends with start_sleep.
LEMMA ArmedKeepsAInv ==
    ASSUME Armed(ticktimer'), msg' = NONE
    PROVE  AInv'
<1>1. ticktimer' \in Timer /\ IsFiniteSet(ticktimer'.sleep_heap)
  BY DEF Armed, TimerOK
<1>2. AlarmIsSet'
  BY DEF Armed, TimerOK, Distinct, AlarmIsSet
<1>3. ticktimer'.current_response # NONE =>
         ticktimer'.target = ticktimer'.current_response.msec
  BY DEF Armed
<1> QED
  BY <1>1, <1>2, <1>3 DEF AInv

\* A step of the loop of NotifyCondition.
LEMMA StoppedKeepsAInv ==
    ASSUME Stopped(ticktimer'), msg' # NONE, msg'.op = "notifying"
    PROVE  AInv'
<1>1. ticktimer' \in Timer /\ IsFiniteSet(ticktimer'.sleep_heap)
      /\ ticktimer'.current_response = NONE
  BY DEF Stopped
<1>2. AlarmIsSet'
  BY DEF Stopped, Distinct, AlarmIsSet
<1> QED
  BY <1>1, <1>2 DEF AInv

Looping == msg # NONE /\ msg.op = "notifying"

\* The timer and its registers stay; what the callback thread is told may change.
TimerKept ==
    /\ ticktimer' \in Timer
    /\ ticktimer'.sleep_heap = ticktimer.sleep_heap
    /\ ticktimer'.current_response = ticktimer.current_response
    /\ ticktimer'.enabled = ticktimer.enabled /\ ticktimer'.pending = ticktimer.pending
    /\ ticktimer'.target = ticktimer.target /\ ticktimer'.left_off = ticktimer.left_off

LEMMA KeptRequests ==
    ASSUME TimerKept
    PROVE  Requests' = Requests
BY DEF TimerKept, Requests

\* A step that leaves the timer alone.
LEMMA QuietKeepsAInv ==
    ASSUME AInv, TimerKept, Recalculating => Recalculating',
           Resuming => Resuming', Looping' <=> Looping
    PROVE  AInv'
<1>1. AlarmIsSet'
  BY DEF AInv, AlarmIsSet, Looping, TimerKept
<1> QED
  BY <1>1 DEF AInv, Looping, TimerKept

\* A reply wakes nobody who waits for the system to suspend.
LEMMA SuspendedNotAnswered ==
    ASSUME CallsOK, NEW S \in SUBSET Senders, call' = Answered(S)
    PROVE  \A t \in Threads : call[t].op = "Suspend" => call'[t].op = "Suspend"
<1> SUFFICES ASSUME NEW t \in Threads, call[t].op = "Suspend" PROVE call'[t] = call[t]
  OBVIOUS
<1>1. "Suspend" \notin BlockingOps
  BY DEF BlockingOps
<1>2. call[t].sender = NONE
  BY <1>1 DEF CallsOK
<1>3. ~Woken(t, S)
  BY <1>2, TicktimerAssumption DEF Woken
<1> QED
  BY <1>3, AnsweredFacts

LEMMA TickKeepsAInv ==
    ASSUME MInv, AInv, Tick
    PROVE  AInv' /\ Requests' = {Earlier(r) : r \in Requests} /\ SameCalls
<1> DEFINE k == ticktimer
<1>1. k \in Timer /\ TimerOK(k) /\ IsFiniteSet(k.sleep_heap) /\ k.sleep_heap \subseteq TimerRequest
      /\ k.current_response \in TimerRequest \cup {NONE} /\ k.target \in Int /\ k.pending \in BOOLEAN
  BY AlarmFacts DEF AInv, Timer
<1>2. ticktimer' = [k EXCEPT !.sleep_heap = {Earlier(r) : r \in k.sleep_heap},
                             !.current_response = Earlier(k.current_response),
                             !.target = Sooner(k.target),
                             !.pending = k.pending \/ k.target <= 1]
  BY DEF Tick
<1>3. /\ Requests = All(k) /\ Requests \subseteq TimerRequest /\ Earlier(NONE) = NONE
      /\ \A r \in Requests :
            /\ Earlier(r) \in TimerRequest /\ Earlier(r).sender = r.sender
            /\ IF r.msec > 1 THEN Earlier(r).msec = r.msec - 1 ELSE Earlier(r).msec <= 0
      /\ \A r, o \in Requests : r.msec < o.msec => Earlier(r).msec < Earlier(o).msec
  BY <1>1, EarlierKeepsOrder
<1>4. /\ k.sleep_heap \subseteq Requests
      /\ k.current_response # NONE => k.current_response \in Requests
      /\ \A r \in Requests : r # NONE /\ r.msec \in Int /\ Earlier(r).msec \in Int /\ Earlier(r) # NONE
  BY <1>1, <1>3, RequestFacts DEF All
<1>5. Sooner(k.target) \in Int /\ Sooner(k.target) = IF k.target > 0 THEN k.target - 1 ELSE 0
  BY <1>1 DEF Sooner
<1> DEFINE H == {Earlier(r) : r \in k.sleep_heap}
           c == Earlier(k.current_response)
           b == k.pending \/ k.target <= 1
           n == Sooner(k.target)
<1>6. H \subseteq TimerRequest /\ c \in TimerRequest \cup {NONE} /\ b \in BOOLEAN /\ n \in Int
  BY <1>1, <1>3, <1>4, <1>5
<1>7. /\ ticktimer' \in Timer /\ ticktimer'.sleep_heap = H /\ ticktimer'.current_response = c
      /\ ticktimer'.pending = b /\ ticktimer'.target = n /\ ticktimer'.enabled = k.enabled
      /\ ticktimer'.left_off = k.left_off
  <2> HIDE DEF H, c, b, n
  <2>1. ticktimer' = [k EXCEPT !.sleep_heap = H, !.current_response = c, !.target = n, !.pending = b]
    BY <1>2 DEF H, c, b, n
  <2> HIDE DEF k
  <2> QED
    BY <1>1, <1>6, <2>1 DEF Timer
<1>8. IsFiniteSet(H)
  <2> DEFINE f == [r \in k.sleep_heap |-> Earlier(r)]
  <2>1. f \in Surjection(k.sleep_heap, H)
    BY DEF Surjection
  <2> QED
    BY <1>1, <2>1, FS_Surjection
<1>9. /\ c # NONE <=> k.current_response # NONE
      /\ c # NONE => \A r \in H : r.msec > c.msec
  <2>1. c # NONE <=> k.current_response # NONE
    BY <1>3, <1>4
  <2>2. ASSUME c # NONE, NEW o \in k.sleep_heap PROVE Earlier(o).msec > c.msec
    <3>1. k.current_response \in Requests /\ o \in Requests
          /\ k.current_response.msec \in Int /\ o.msec \in Int /\ o.msec > k.current_response.msec
      BY <2>1, <2>2, <1>1, <1>4 DEF TimerOK
    <3>2. Earlier(k.current_response).msec < Earlier(o).msec
      BY <1>3, <3>1
    <3> QED
      BY <1>4, <3>1, <3>2
  <2> QED
    BY <2>1, <2>2
<1>10. \A r, o \in H : r.msec = o.msec => r = o
  <2> SUFFICES ASSUME NEW r \in k.sleep_heap, NEW o \in k.sleep_heap, Earlier(r).msec = Earlier(o).msec
               PROVE  r = o
    OBVIOUS
  <2>1. r.msec = o.msec
    BY <1>3, <1>4
  <2> QED
    BY <2>1, <1>1 DEF TimerOK, Distinct
<1>11. ASSUME c # NONE
       PROVE  (b <=> c.msec <= 0) /\ (n > 0 => n = c.msec) /\ (n <= 0 <=> c.msec <= 0)
  <2> DEFINE r == k.current_response
  <2>1. r \in Requests /\ r # NONE /\ r.msec \in Int
    BY <1>4, <1>9, <1>11
  <2>2. /\ k.pending <=> r.msec <= 0
        /\ k.target > 0 => k.target = r.msec
        /\ k.target <= 0 <=> r.msec <= 0
    BY <2>1 DEF AInv, AlarmIsSet
  <2>3. IF r.msec > 1 THEN c.msec = r.msec - 1 ELSE c.msec <= 0
    BY <1>3, <2>1
  <2>4. c.msec \in Int
    BY <1>4, <2>1
  <2> HIDE DEF r, c
  <2>5. CASE r.msec > 1
    BY <1>1, <1>5, <2>1, <2>2, <2>3, <2>4, <2>5
  <2>6. CASE ~(r.msec > 1)
    BY <1>1, <1>5, <2>1, <2>2, <2>3, <2>4, <2>6
  <2> QED
    BY <2>5, <2>6
<1>12. Looping' = Looping /\ Recalculating' = Recalculating
       /\ queue' = queue /\ msg' = msg
  BY DEF Tick, Looping, Recalculating
<1>13. SameCalls /\ \A t \in Threads : call'[t].op = call[t].op
  <2>1. \A t \in Threads : call'[t] = [call[t] EXCEPT !.due = Sooner(call[t].due)]
    BY DEF Tick
  <2>2. \A t \in Threads : Sooner(call[t].due) \in Nat /\ Sooner(call[t].due) <= call[t].due
    BY DEF MInv, CallsOK, Call, Sooner
  <2>3. \A t \in Threads : /\ call'[t] \in Call /\ call'[t].op = call[t].op /\ call'[t].id = call[t].id
                           /\ call'[t].sender = call[t].sender /\ call'[t].timed = call[t].timed
                           /\ call'[t].due = Sooner(call[t].due)
    <3> TAKE t \in Threads
    <3> DEFINE x == call[t]
               d == Sooner(x.due)
    <3>1. x \in Call /\ d \in Nat /\ call'[t] = [x EXCEPT !.due = d]
      BY <2>1, <2>2 DEF MInv, CallsOK
    <3> HIDE DEF x, d
    <3>2. /\ call'[t] \in Call /\ call'[t].op = x.op /\ call'[t].id = x.id
          /\ call'[t].sender = x.sender /\ call'[t].timed = x.timed /\ call'[t].due = d
      BY <3>1 DEF Call
    <3> QED
      BY <3>2 DEF x, d
  <2>4. call' \in [Threads -> Call]
    BY <2>3 DEF Tick
  <2> QED
    BY <2>2, <2>3, <2>4 DEF SameCalls, MInv, CallsOK, TimedOps, BlockingOps
<1>14. Resuming' = Resuming
  BY <1>12, <1>13 DEF Resuming
<1> HIDE DEF c, H, b, n
<1>16. AlarmIsSet'
  <2>1. ticktimer'.enabled => ticktimer'.current_response # NONE
    BY <1>7, <1>9 DEF AInv, AlarmIsSet
  <2>2. ticktimer'.current_response # NONE => ticktimer'.enabled \/ Resuming' \/ ticktimer'.left_off
    BY <1>7, <1>9, <1>14 DEF AInv, AlarmIsSet
  <2>3. ticktimer'.sleep_heap # {} => ticktimer'.current_response # NONE \/ Recalculating' \/ Looping'
    <3>1. H # {} => k.sleep_heap # {}
      BY DEF H
    <3> QED
      BY <3>1, <1>7, <1>9, <1>12 DEF AInv, AlarmIsSet, Looping
  <2>4. ticktimer'.current_response # NONE
             => /\ ticktimer'.pending <=> ticktimer'.current_response.msec <= 0
                /\ \A r \in ticktimer'.sleep_heap : r.msec > ticktimer'.current_response.msec
    BY <1>7, <1>9, <1>11
  <2>5. \A r, o \in ticktimer'.sleep_heap : r.msec = o.msec => r = o
    BY <1>7, <1>10
  <2> QED
    BY <2>1, <2>2, <2>3, <2>4, <2>5 DEF AlarmIsSet, Looping
<1>17. AInv'
  BY <1>7, <1>8, <1>9, <1>11, <1>12, <1>16 DEF AInv, Looping
<1>18. Requests' = {Earlier(r) : r \in Requests}
  <2>1. Requests' = (H \cup {c}) \ {NONE}
    BY <1>7 DEF Requests
  <2> QED
    BY <2>1, <1>3, <1>4, <1>9 DEF H, c, All
<1> QED
  BY <1>13, <1>17, <1>18

-----------------------------------------------------------------------------
(***************************************************************************)
(* Lists of senders.                                                       *)
(***************************************************************************)
LEMMA EmptyList ==
    ASSUME NEW list \in Seq(Senders), \A s \in Senders : ~In(list, s)
    PROVE  list = <<>>
<1>1. Len(list) \in Nat /\ DOMAIN list = 1 .. Len(list) /\ \A i \in DOMAIN list : list[i] \in Senders
  OBVIOUS
<1>2. DOMAIN list = {}
  BY <1>1 DEF In
<1>3. Len(list) = 0
  <2>1. Len(list) # 0 => 1 \in DOMAIN list
    BY <1>1
  <2> QED
    BY <1>2, <2>1
<1> QED
  BY <1>1, <1>3

LEMMA AppendList ==
    ASSUME NEW list \in Seq(Senders), NEW e \in Senders
    PROVE  /\ Append(list, e) \in Seq(Senders)
           /\ \A s : In(Append(list, e), s) <=> In(list, s) \/ s = e
           /\ NoTwice(list) /\ ~In(list, e) => NoTwice(Append(list, e))
<1> DEFINE q == Append(list, e)
           n == Len(list) + 1
<1>1. /\ q \in Seq(Senders) /\ n \in DOMAIN q /\ q[n] = e
      /\ DOMAIN list \subseteq DOMAIN q /\ \A i \in DOMAIN list : q[i] = list[i]
      /\ \A i \in DOMAIN q : i \in DOMAIN list \/ i = n
  BY AppendFacts
<1> HIDE DEF q, n
<1>2. \A s : In(q, s) <=> In(list, s) \/ s = e
  BY <1>1 DEF In
<1>3. NoTwice(list) /\ ~In(list, e) => NoTwice(q)
  BY <1>1 DEF In, NoTwice
<1> QED
  BY <1>1, <1>2, <1>3 DEF q

LEMMA TailList ==
    ASSUME NEW list \in Seq(Senders), list # <<>>, NoTwice(list)
    PROVE  /\ Tail(list) \in Seq(Senders) /\ Len(Tail(list)) = Len(list) - 1
           /\ Head(list) \in Senders /\ In(list, Head(list))
           /\ \A s : In(Tail(list), s) <=> In(list, s) /\ s # Head(list)
           /\ NoTwice(Tail(list))
<1> DEFINE q == Tail(list)
           h == Head(list)
<1>1. /\ q \in Seq(Senders) /\ Len(q) = Len(list) - 1 /\ h \in Senders /\ 1 \in DOMAIN list /\ h = list[1]
      /\ \A i \in DOMAIN q : i \in Nat \ {0} /\ i + 1 \in DOMAIN list /\ q[i] = list[i + 1]
      /\ \A i \in DOMAIN list : i \in Nat \ {0} /\ (i # 1 => i - 1 \in DOMAIN q /\ q[i - 1] = list[i])
  BY TailFacts
<1> HIDE DEF q, h
<1>2. In(list, h)
  BY <1>1 DEF In
<1>3. \A s : In(q, s) => In(list, s)
  BY <1>1 DEF In
<1>4. \A i \in DOMAIN q : i + 1 # 1
  BY <1>1
<1>5. ~In(q, h)
  BY <1>1, <1>4 DEF In, NoTwice
<1>6. \A s : In(list, s) /\ s # h => In(q, s)
  BY <1>1 DEF In
<1>7. NoTwice(q)
  <2> SUFFICES ASSUME NEW i \in DOMAIN q, NEW j \in DOMAIN q, q[i] = q[j] PROVE i = j
    BY DEF NoTwice
  <2>1. i + 1 = j + 1
    BY <1>1 DEF NoTwice
  <2> QED
    BY <2>1, <1>1
<1> QED
  BY <1>1, <1>2, <1>3, <1>5, <1>6, <1>7 DEF q, h

\* Retain keeps every entry but s, each once: the ranks of the entries that are
\* kept are the numbers up to how many there are.
LEMMA RanksAreNumbers ==
    ASSUME NEW K, NEW N \in Nat, K \in SUBSET (1 .. N)
    PROVE  /\ Cardinality(K) \in Nat
           /\ \A i \in K : Cardinality({j \in K : j <= i}) \in 1 .. Cardinality(K)
           /\ \A i, o \in K : Cardinality({j \in K : j <= i}) = Cardinality({j \in K : j <= o}) => i = o
           /\ \A n \in 1 .. Cardinality(K) : \E i \in K : Cardinality({j \in K : j <= i}) = n
<1> DEFINE upto(i) == {j \in K : j <= i}
           f == [i \in K |-> Cardinality(upto(i))]
<1>1. IsFiniteSet(K) /\ Cardinality(K) \in Nat
  <2>1. IsFiniteSet(1 .. N)
    BY FS_Interval
  <2> QED
    BY <2>1, FS_Subset, FS_CardinalityType
<1>2. \A i \in K : /\ upto(i) \in SUBSET K /\ i \in upto(i) /\ IsFiniteSet(upto(i))
                   /\ Cardinality(upto(i)) \in Nat /\ Cardinality(upto(i)) <= Cardinality(K)
  <2> TAKE i \in K
  <2>1. upto(i) \in SUBSET K /\ i \in upto(i)
    OBVIOUS
  <2> QED
    BY <1>1, <2>1, FS_Subset, FS_CardinalityType
<1>3. \A i \in K : Cardinality(upto(i)) # 0
  BY <1>2, FS_EmptySet
<1>4. \A i, o \in K : i < o => Cardinality(upto(i)) < Cardinality(upto(o))
  <2> TAKE i, o \in K
  <2> HAVE i < o
  <2>1. upto(i) \in SUBSET upto(o) /\ o \notin upto(i) /\ o \in upto(o)
    <3>1. \A j \in K : j \in Int
      OBVIOUS
    <3>2. \A j \in upto(i) : j \in upto(o)
      BY <3>1
    <3>3. o \notin upto(i) /\ o \in upto(o)
      BY <3>1
    <3> QED
      BY <3>2, <3>3
  <2> HIDE DEF upto
  <2>2. /\ Cardinality(upto(i)) <= Cardinality(upto(o))
        /\ Cardinality(upto(o)) = Cardinality(upto(i)) => upto(o) = upto(i)
    BY <1>2, <2>1, FS_Subset
  <2> QED
    BY <1>2, <2>1, <2>2
<1>5. \A i, o \in K : Cardinality(upto(i)) = Cardinality(upto(o)) => i = o
  <2> TAKE i, o \in K
  <2> HAVE Cardinality(upto(i)) = Cardinality(upto(o))
  <2>1. ~(i < o) /\ ~(o < i)
    BY <1>2, <1>4
  <2>2. i \in Int /\ o \in Int
    OBVIOUS
  <2> QED
    BY <2>1, <2>2
<1>6. \A i \in K : Cardinality(upto(i)) \in 1 .. Cardinality(K)
  BY <1>1, <1>2, <1>3
<1> HIDE DEF upto
<1>7. f \in Injection(K, 1 .. Cardinality(K))
  BY <1>5, <1>6 DEF Injection, IsInjective
<1>8. IsFiniteSet(1 .. Cardinality(K)) /\ Cardinality(1 .. Cardinality(K)) = Cardinality(K)
  <2>1. IsFiniteSet(1 .. Cardinality(K)) /\ Cardinality(1 .. Cardinality(K)) =
           IF 1 > Cardinality(K) THEN 0 ELSE Cardinality(K) - 1 + 1
    BY <1>1, FS_Interval
  <2> QED
    BY <1>1, <2>1
<1>9. f \in Surjection(K, 1 .. Cardinality(K))
  BY <1>7, <1>8, FS_Injection
<1>10. \A n \in 1 .. Cardinality(K) : \E i \in K : Cardinality(upto(i)) = n
  BY <1>9 DEF Surjection
<1> QED
  BY <1>1, <1>5, <1>6, <1>10 DEF upto

LEMMA RetainList ==
    ASSUME NEW list \in Seq(Senders), NoTwice(list), NEW e
    PROVE  /\ Retain(list, e) \in Seq(Senders)
           /\ \A s : In(Retain(list, e), s) <=> In(list, s) /\ s # e
           /\ NoTwice(Retain(list, e))
<1> DEFINE K == {i \in DOMAIN list : list[i] # e}
           rank(i) == Cardinality({j \in K : j <= i})
           pos(n) == CHOOSE i \in K : rank(i) = n
           q == Retain(list, e)
<1>1. Len(list) \in Nat /\ DOMAIN list = 1 .. Len(list) /\ K \in SUBSET (1 .. Len(list))
      /\ \A i \in DOMAIN list : list[i] \in Senders
  OBVIOUS
<1>2. q = [n \in 1 .. Cardinality(K) |-> list[pos(n)]]
  BY DEF Retain
<1>3. /\ Cardinality(K) \in Nat
      /\ \A i \in K : rank(i) \in 1 .. Cardinality(K)
      /\ \A i, o \in K : rank(i) = rank(o) => i = o
      /\ \A n \in 1 .. Cardinality(K) : \E i \in K : rank(i) = n
  <2> HIDE DEF K
  <2> QED
    BY <1>1, RanksAreNumbers
<1>4. \A i \in K : i \in DOMAIN list /\ list[i] # e
  OBVIOUS
<1>5. \A i \in DOMAIN list : list[i] # e => i \in K
  OBVIOUS
<1> HIDE DEF K, rank, q
<1>6. \A n \in 1 .. Cardinality(K) : pos(n) \in K /\ rank(pos(n)) = n
  BY <1>3
<1>7. \A i \in K : pos(rank(i)) = i
  BY <1>3, <1>6
<1> HIDE DEF pos
<1>8. DOMAIN q = 1 .. Cardinality(K) /\ \A n \in DOMAIN q : q[n] = list[pos(n)]
  BY <1>2
<1>9. \A n \in 1 .. Cardinality(K) : list[pos(n)] \in Senders
  BY <1>1, <1>4, <1>6
<1>10. q \in Seq(Senders)
  BY <1>2, <1>3, <1>9
<1>11. \A s : In(q, s) => In(list, s) /\ s # e
  BY <1>4, <1>6, <1>8 DEF In
<1>12. \A s : In(list, s) /\ s # e => In(q, s)
  BY <1>3, <1>5, <1>7, <1>8 DEF In
<1>13. NoTwice(q)
  <2> SUFFICES ASSUME NEW n \in DOMAIN q, NEW o \in DOMAIN q, q[n] = q[o] PROVE n = o
    BY DEF NoTwice
  <2>1. pos(n) = pos(o)
    BY <1>4, <1>6, <1>8 DEF NoTwice
  <2> QED
    BY <2>1, <1>6, <1>8
<1> QED
  BY <1>10, <1>11, <1>12, <1>13 DEF q

LEMMA ContainsIn ==
    ASSUME NEW list \in Seq(Senders), NEW s
    PROVE  (Contains(list, s) <=> In(list, s)) /\ (s \in ToSet(list) <=> In(list, s))
<1>1. DOMAIN list = 1 .. Len(list)
  OBVIOUS
<1> QED
  BY <1>1 DEF Contains, ToSet, In

-----------------------------------------------------------------------------
(***************************************************************************)
(* The tables: steps that leave them alone.                                *)
(***************************************************************************)
\* The same threads are put away, in the same calls, and the same messages of
\* the interrupt are on their way.
CoreSame ==
    /\ \A t \in Threads : (PutAway(t)' <=> PutAway(t)) /\ (PutAway(t) => call'[t] = call[t])
    /\ \A s \in Senders, c \in Condvars : Pending(s, c)' <=> Pending(s, c)

LEMMA SameKeepsCore ==
    ASSUME CoreInv, CoreSame, Requests' = Requests,
           notifications_with_timeouts' = notifications_with_timeouts,
           notify_table' = notify_table, mutex_hash' = mutex_hash
    PROVE  CoreInv'
<1> USE DEF CoreInv
<1>1. TablesOK'
  BY DEF TablesOK
<1>2. \A c, s : \A t \in Threads : WaitsFor(t, c, s)' <=> WaitsFor(t, c, s)
  BY DEF WaitsFor, CoreSame
<1>3. \A c, s : \A t \in Threads : LocksFor(t, c, s)' <=> LocksFor(t, c, s)
  BY DEF LocksFor, CoreSame
<1>4. \A r : \A t \in Threads : AsksFor(t, r)' <=> AsksFor(t, r)
  BY DEF AsksFor, CoreSame
<1>5. RequestsOK'
  BY <1>4 DEF RequestsOK
<1>6. WaitersOK'
  BY <1>2 DEF WaitersOK, CoreSame
<1>7. TimeoutsOK'
  <2>1. \A c, s : \A t \in Threads : WaitsFor(t, c, s) => call'[t] = call[t]
    BY DEF WaitsFor, CoreSame
  <2> QED
    BY <1>2, <2>1 DEF TimeoutsOK, CoreSame, TablesOK
<1>8. LockersOK'
  BY <1>3 DEF LockersOK
<1>9. FoundOK'
  BY <1>4 DEF FoundOK, CoreSame
<1> QED
  BY <1>1, <1>5, <1>6, <1>7, <1>8, <1>9

LEMMA ReceiveSame ==
    ASSUME MInv, Receive
    PROVE  CoreSame
<1>1. /\ msg = NONE /\ queue # <<>> /\ msg' = Head(queue) /\ queue' = Tail(queue)
      /\ call' = call /\ queue \in Seq(Letter)
  BY DEF Receive, MInv, LettersOK
<1>2. /\ 1 \in DOMAIN queue /\ msg' = queue[1] /\ msg' # NONE
      /\ \A i \in DOMAIN queue' : i + 1 \in DOMAIN queue /\ queue'[i] = queue[i + 1] /\ i + 1 # 1
      /\ \A i \in DOMAIN queue : i # 1 => i - 1 \in DOMAIN queue' /\ queue'[i - 1] = queue[i]
  BY <1>1, TailFacts, TicktimerAssumption
<1>3. ASSUME NEW s, NEW c PROVE Pending(s, c)' <=> Pending(s, c)
  <2>1. ASSUME Pending(s, c) PROVE Pending(s, c)'
    <3>1. PICK i \in DOMAIN queue : Recalc(queue[i], s) /\ queue[i].id = c
      BY <2>1, <1>1 DEF Pending
    <3>2. CASE i = 1
      BY <3>1, <3>2, <1>2 DEF Pending
    <3>3. CASE i # 1
      BY <3>1, <3>3, <1>2 DEF Pending
    <3> QED
      BY <3>2, <3>3
  <2>2. ASSUME Pending(s, c)' PROVE Pending(s, c)
    BY <2>2, <1>2 DEF Pending
  <2> QED
    BY <2>1, <2>2
<1>4. ASSUME NEW s, s # NONE PROVE Queued(s) <=> Queued(s)' \/ queue[1].sender = s
  <2>1. queue[1].sender = s => queue[1].op \in BlockingOps
    BY <1>2, <1>4 DEF MInv, LettersOK, Fits, Owing
  <2>2. ASSUME Queued(s), queue[1].sender # s PROVE Queued(s)'
    <3>1. PICK i \in DOMAIN queue : queue[i].op \in BlockingOps /\ queue[i].sender = s
      BY <2>2 DEF Queued
    <3> QED
      BY <2>2, <3>1, <1>2 DEF Queued
  <2>3. ASSUME Queued(s)' PROVE Queued(s)
    BY <2>3, <1>2 DEF Queued
  <2> QED
    BY <1>2, <2>1, <2>2, <2>3 DEF Queued
<1>5. \A t \in Threads : PutAway(t)' <=> PutAway(t)
  <2> TAKE t \in Threads
  <2>1. PutAway(t)' <=> /\ call[t].sender # NONE /\ ~Queued(call[t].sender)'
                        /\ queue[1].sender # call[t].sender
    BY <1>1, <1>2 DEF PutAway
  <2>2. Queued(call[t].sender)' <=> \E s : s = call[t].sender /\ Queued(s)'
    BY <1>1 DEF Queued
  <2> QED
    BY <2>1, <2>2, <1>1, <1>4 DEF PutAway
<1> QED
  BY <1>1, <1>3, <1>5 DEF CoreSame

LEMMA AppendSame ==
    ASSUME LettersOK, NEW m \in Letter, m.op # "RecalculateSleep",
           queue' = Append(queue, m), msg' = msg,
           \A t \in Threads : \/ call'[t] = call[t]
                              \/ call[t].sender = NONE /\ call'[t].sender = NONE
                              \/ /\ call[t].sender = NONE /\ m.op \in BlockingOps
                                 /\ call'[t].sender = m.sender,
           \A t \in Threads : m.op \in BlockingOps => call[t].sender # m.sender
    PROVE  CoreSame
<1>1. /\ queue'[Len(queue) + 1] = m /\ DOMAIN queue \subseteq DOMAIN queue'
      /\ \A i \in DOMAIN queue : queue'[i] = queue[i]
      /\ \A i \in DOMAIN queue' : i # Len(queue) + 1 => i \in DOMAIN queue
  BY AppendedQueue
<1>2. \A s, c : Pending(s, c)' <=> Pending(s, c)
  BY <1>1 DEF Pending, Recalc
<1>3. \A s : Queued(s)' <=> Queued(s) \/ (m.op \in BlockingOps /\ m.sender = s)
  BY AppendedQueued
<1>4. \A t \in Threads : (PutAway(t)' <=> PutAway(t)) /\ (PutAway(t) => call'[t] = call[t])
  BY <1>3 DEF PutAway
<1> QED
  BY <1>2, <1>4 DEF CoreSame

\* A step of the loop after which the sender of the message, if it has one, is
\* answered, or the message is still being handled.
LEMMA HandledSame ==
    ASSUME MInv, NEW S \in SUBSET Senders, call' = Answered(S), queue' = queue,
           msg # NONE, msg.op # "RecalculateSleep",
           \/ msg' = NONE /\ S = {s \in Senders : s = msg.sender}
           \/ S = {} /\ msg' # NONE /\ msg'.sender = msg.sender /\ msg'.op # "RecalculateSleep"
    PROVE  CoreSame
<1>1. \A s, c : Pending(s, c)' <=> Pending(s, c)
  BY DEF Pending, Recalc
<1>2. \A s : Queued(s)' <=> Queued(s)
  BY DEF Queued
<1>3. \A t \in Threads : PutAway(t) => ~Woken(t, S)
  BY DEF PutAway, Woken
<1>4. \A t \in Threads : PutAway(t) => call'[t] = call[t]
  BY <1>3, AnsweredFacts DEF MInv
<1>5. \A t \in Threads : PutAway(t)' <=> PutAway(t)
  <2> TAKE t \in Threads
  <2>1. CASE Woken(t, S)
    BY <2>1, <1>3, AnsweredFacts DEF MInv, PutAway
  <2>2. CASE ~Woken(t, S)
    <3>1. call'[t] = call[t] /\ call[t].sender \in Senders \cup {NONE}
      BY <2>2, AnsweredFacts DEF MInv, CallsOK, Call
    <3>2. CASE msg' = NONE /\ S = {s \in Senders : s = msg.sender}
      BY <2>2, <3>1, <3>2, <1>2 DEF PutAway, Woken
    <3>3. CASE S = {} /\ msg' # NONE /\ msg'.sender = msg.sender
      BY <3>1, <3>3, <1>2 DEF PutAway
    <3> QED
      BY <3>2, <3>3
  <2> QED
    BY <2>1, <2>2
<1> QED
  BY <1>1, <1>4, <1>5 DEF CoreSame

-----------------------------------------------------------------------------
(***************************************************************************)
(* The tables: where a sender can be.                                      *)
(***************************************************************************)
\* The interrupt's message about the sender of a thread that is not in the queue
\* any more is handled.
LEMMA NotPending ==
    ASSUME MInv, NEW t \in Threads, call[t].sender # NONE, ~Queued(call[t].sender)
    PROVE  /\ \A c : ~Pending(call[t].sender, c)
           /\ msg # NONE => ~Recalc(msg, call[t].sender)
           /\ \A i \in DOMAIN queue : ~Recalc(queue[i], call[t].sender)
<1>1. \A i : ~Behind(i, call[t].sender)
  BY DEF Behind, Queued
<1>2. \A i \in DOMAIN queue : ~Recalc(queue[i], call[t].sender)
  BY <1>1 DEF MInv, AlarmFirst
<1>3. msg # NONE => ~Recalc(msg, call[t].sender)
  BY DEF MInv, AlarmFirst, Recalc
<1> QED
  BY <1>2, <1>3 DEF Pending

LEMMA OnePending ==
    ASSUME MInv, NEW s, NEW c, NEW d, Pending(s, c), Pending(s, d)
    PROVE  c = d
<1>1. \A i, j \in DOMAIN queue : Recalc(queue[i], s) /\ Recalc(queue[j], s) => i = j
  BY DEF MInv, AlarmFirst, Recalc
<1>2. \A i \in DOMAIN queue : msg # NONE /\ Recalc(msg, s) => ~Recalc(queue[i], s)
  BY DEF MInv, AlarmFirst, Recalc
<1> QED
  BY <1>1, <1>2 DEF Pending

\* A sender waits in one list.
LEMMA OneList ==
    ASSUME MInv, CoreInv, NEW s \in Senders, NEW c \in Condvars, NEW d \in Condvars,
           In(notify_table[c], s), In(notify_table[d], s)
    PROVE  c = d
<1>1. /\ (\E t \in Threads : WaitsFor(t, c, s)) \/ Pending(s, c)
      /\ (\E t \in Threads : WaitsFor(t, d, s)) \/ Pending(s, d)
  BY DEF CoreInv, WaitersOK
<1>2. \A t \in Threads, e \in Condvars : WaitsFor(t, e, s) => ~Pending(s, c) /\ ~Pending(s, d)
  BY NotPending DEF WaitsFor, PutAway
<1>3. \A t, u \in Threads : WaitsFor(t, c, s) /\ WaitsFor(u, d, s) => c = d
  BY DEF WaitsFor, MInv, CallsOK, PutAway
<1> QED
  BY <1>1, <1>2, <1>3, OnePending

\* The thread whose call is being handled is put away nowhere.
LEMMA FreshSender ==
    ASSUME MInv, CoreInv, msg # NONE, msg.op \in Owing, NEW w \in Threads, Sent(w, msg)
    PROVE  /\ msg.sender \in Senders /\ call[w].sender = msg.sender /\ ~Queued(msg.sender)
           /\ ~PutAway(w) /\ \A t \in Threads : call[t].sender = msg.sender => t = w
           /\ \A c : ~Pending(msg.sender, c)
           /\ \A r \in Requests : r.sender # msg.sender
           /\ \A c \in Condvars : ~In(notify_table[c], msg.sender)
           /\ msg.sender \notin notifications_with_timeouts
           /\ \A m \in Mutexes : ~In(mutex_hash[m], msg.sender)
<1>1. msg.sender \in Senders /\ call[w].sender = msg.sender /\ ~Queued(msg.sender) /\ msg.sender # NONE
  BY TicktimerAssumption DEF MInv, LettersOK, Fits, Letter, SentOK, Sent
<1>2. ~PutAway(w) /\ \A t \in Threads : call[t].sender = msg.sender => t = w
  BY <1>1 DEF PutAway, MInv, CallsOK
<1>3. \A c : ~Pending(msg.sender, c)
  BY <1>1, NotPending
<1>4. \A r \in Requests : r.sender # msg.sender
  BY <1>2 DEF CoreInv, RequestsOK, AsksFor
<1>5. \A c \in Condvars : ~In(notify_table[c], msg.sender)
  BY <1>1, <1>2, <1>3 DEF CoreInv, WaitersOK, WaitsFor
<1>6. msg.sender \notin notifications_with_timeouts
  BY <1>5 DEF CoreInv, TimeoutsOK
<1>7. \A m \in Mutexes : ~In(mutex_hash[m], msg.sender)
  BY <1>1, <1>2 DEF CoreInv, LockersOK, LocksFor
<1> QED
  BY <1>1, <1>2, <1>3, <1>4, <1>5, <1>6, <1>7

-----------------------------------------------------------------------------
(***************************************************************************)
(* The tables: a thread is put away.                                       *)
(***************************************************************************)
\* The loop is done with the message of thread w, which it has not answered.
PutsAway(w) ==
    /\ msg # NONE /\ msg.op \in BlockingOps /\ Sent(w, msg)
    /\ call' = call /\ queue' = queue /\ msg' = NONE

LEMMA PutsAwayFacts ==
    ASSUME MInv, CoreInv, NEW w \in Threads, PutsAway(w)
    PROVE  /\ \A t \in Threads : PutAway(t)' <=> PutAway(t) \/ t = w
           /\ \A s, c : Pending(s, c)' <=> Pending(s, c)
           /\ \A c, s : \A t \in Threads : WaitsFor(t, c, s) => WaitsFor(t, c, s)'
           /\ \A c, s : \A t \in Threads : LocksFor(t, c, s) => LocksFor(t, c, s)'
           /\ \A r : \A t \in Threads : AsksFor(t, r) => AsksFor(t, r)'
<1>1. \A s : Queued(s)' <=> Queued(s)
  BY DEF Queued, PutsAway
<1>2. msg.op \in Owing
  BY DEF PutsAway, Owing
<1>3. /\ msg.sender \in Senders /\ call[w].sender = msg.sender /\ ~Queued(msg.sender)
      /\ \A t \in Threads : call[t].sender = msg.sender => t = w
  BY <1>2, FreshSender DEF PutsAway
<1>4. \A t \in Threads : PutAway(t)' <=> call[t].sender # NONE /\ ~Queued(call[t].sender)
  BY <1>1 DEF PutAway, PutsAway
<1>5. \A t \in Threads : PutAway(t)' <=> PutAway(t) \/ t = w
  BY <1>3, <1>4, TicktimerAssumption DEF PutAway
<1>6. \A s, c : Pending(s, c)' <=> Pending(s, c)
  BY DEF Pending, Recalc, PutsAway, BlockingOps
<1>7. call' = call
  BY DEF PutsAway
<1>8. \A c, s : \A t \in Threads : WaitsFor(t, c, s) => WaitsFor(t, c, s)'
  BY <1>5, <1>7 DEF WaitsFor
<1>9. \A c, s : \A t \in Threads : LocksFor(t, c, s) => LocksFor(t, c, s)'
  BY <1>5, <1>7 DEF LocksFor
<1>10. \A r : \A t \in Threads : AsksFor(t, r) => AsksFor(t, r)'
  BY <1>5, <1>7 DEF AsksFor
<1> QED
  BY <1>5, <1>6, <1>8, <1>9, <1>10

\* The requests after x has been added for thread w.
LEMMA AddedRequest ==
    ASSUME MInv, CoreInv, NEW w \in Threads, PutsAway(w),
           NEW x \in TimerRequest, x.sender = msg.sender, x.msec >= msg.arg, msg.arg > 0,
           IF x.data = NONE THEN msg.op = "SleepMs" ELSE msg.op = "WaitForCondition" /\ msg.id = x.data,
           Requests' = Requests \cup {x}
    PROVE  RequestsOK' /\ AsksFor(w, x)' /\ call[w].timed
<1>1. /\ \A t \in Threads : PutAway(t)' <=> PutAway(t) \/ t = w
      /\ \A r : \A t \in Threads : AsksFor(t, r) => AsksFor(t, r)'
  BY PutsAwayFacts
<1>2. /\ msg.op \in Owing /\ msg # NONE /\ Sent(w, msg) /\ call' = call /\ msg \in Letter
  BY DEF PutsAway, Owing, MInv, LettersOK
<1>3. \A r \in Requests : r.sender # msg.sender
  BY <1>2, FreshSender
<1>4. /\ call[w].sender = msg.sender /\ call[w].id = msg.id
      /\ call[w].op = msg.op /\ call[w].timed /\ call[w].due <= msg.arg
  <2>1. msg.op \in TimedOps /\ msg.op # "notifying"
    BY DEF TimedOps
  <2> QED
    BY <1>2, <2>1 DEF Sent
<1>5. x.msec >= call[w].due
  <2>1. x.msec \in Int /\ msg.arg \in Nat /\ call[w].due \in Nat
    BY <1>2, RequestFacts DEF Letter, MInv, CallsOK, Call
  <2> QED
    BY <1>4, <2>1
<1>6. AsksFor(w, x)'
  BY <1>1, <1>2, <1>4, <1>5 DEF AsksFor
<1>7. RequestsOK'
  BY <1>1, <1>3, <1>6 DEF CoreInv, RequestsOK
<1> QED
  BY <1>4, <1>6, <1>7

LEMMA SleepKeepsCore ==
    ASSUME MInv, CoreInv, NEW w \in Threads, PutsAway(w), msg.op = "SleepMs",
           NEW x \in TimerRequest, x.sender = msg.sender, x.msec >= msg.arg, msg.arg > 0,
           x.data = NONE, Requests' = Requests \cup {x},
           notifications_with_timeouts' = notifications_with_timeouts,
           notify_table' = notify_table, mutex_hash' = mutex_hash
    PROVE  CoreInv'
<1> USE DEF CoreInv
<1>1. /\ \A t \in Threads : PutAway(t)' <=> PutAway(t) \/ t = w
      /\ \A s, c : Pending(s, c)' <=> Pending(s, c)
      /\ \A c, s : \A t \in Threads : WaitsFor(t, c, s) => WaitsFor(t, c, s)'
      /\ \A c, s : \A t \in Threads : LocksFor(t, c, s) => LocksFor(t, c, s)'
      /\ \A r : \A t \in Threads : AsksFor(t, r) => AsksFor(t, r)'
  BY PutsAwayFacts
<1>2. call' = call /\ call[w].op = "SleepMs"
  BY DEF PutsAway, Sent
<1>3. RequestsOK' /\ AsksFor(w, x)'
  BY AddedRequest
<1>4. TablesOK'
  BY DEF TablesOK
<1>5. WaitersOK'
  BY <1>1 DEF WaitersOK
<1>6. TimeoutsOK'
  BY <1>1, <1>2 DEF TimeoutsOK
<1>7. LockersOK'
  BY <1>1 DEF LockersOK
<1>8. FoundOK'
  <2> SUFFICES ASSUME NEW t \in Threads, PutAway(t)'
               PROVE  /\ call[t].op \in {"SleepMs", "WaitForCondition", "LockMutex"}
                      /\ call[t].op = "SleepMs" => \E r \in Requests' : AsksFor(t, r)'
                      /\ call[t].op = "WaitForCondition" =>
                            /\ call[t].id \in Condvars /\ In(notify_table[call[t].id], call[t].sender)
                            /\ call[t].timed => /\ call[t].sender \in notifications_with_timeouts
                                                /\ \E r \in Requests' : AsksFor(t, r)'
                      /\ call[t].op = "LockMutex" =>
                            call[t].id \in Mutexes /\ In(mutex_hash[call[t].id], call[t].sender)
    BY <1>2 DEF FoundOK
  <2>1. CASE t = w
    BY <2>1, <1>2, <1>3
  <2>2. CASE PutAway(t)
    BY <2>2, <1>1 DEF FoundOK
  <2> QED
    BY <2>1, <2>2, <1>1
<1> QED
  BY <1>3, <1>4, <1>5, <1>6, <1>7, <1>8

\* With a timeout (msg.arg > 0) or without.
LEMMA WaitKeepsCore ==
    ASSUME MInv, CoreInv, NEW w \in Threads, PutsAway(w), msg.op = "WaitForCondition",
           notify_table' = [notify_table EXCEPT ![msg.id] = Append(@, msg.sender)],
           mutex_hash' = mutex_hash,
           \/ /\ msg.arg = 0 /\ Requests' = Requests
              /\ notifications_with_timeouts' = notifications_with_timeouts
           \/ /\ msg.arg > 0
              /\ \E x \in TimerRequest : /\ x.sender = msg.sender /\ x.msec >= msg.arg
                                         /\ x.data = msg.id /\ Requests' = Requests \cup {x}
              /\ notifications_with_timeouts' = notifications_with_timeouts \cup {msg.sender}
    PROVE  CoreInv'
<1> USE DEF CoreInv
<1>1. /\ \A t \in Threads : PutAway(t)' <=> PutAway(t) \/ t = w
      /\ \A s, c : Pending(s, c)' <=> Pending(s, c)
      /\ \A c, s : \A t \in Threads : WaitsFor(t, c, s) => WaitsFor(t, c, s)'
      /\ \A c, s : \A t \in Threads : LocksFor(t, c, s) => LocksFor(t, c, s)'
      /\ \A r : \A t \in Threads : AsksFor(t, r) => AsksFor(t, r)'
  BY PutsAwayFacts
<1>2. /\ call' = call /\ call[w].op = "WaitForCondition" /\ call[w].id = msg.id
      /\ call[w].sender = msg.sender /\ msg.id \in Condvars /\ msg.arg \in Nat
      /\ (call[w].timed <=> msg.arg > 0) /\ msg # NONE /\ Sent(w, msg) /\ msg.op \in Owing
  BY DEF PutsAway, Sent, TimedOps, MInv, LettersOK, Fits, ConditionOps, Letter, Owing, BlockingOps
<1>3. /\ msg.sender \in Senders /\ \A c \in Condvars : ~In(notify_table[c], msg.sender)
  BY <1>2, FreshSender
<1>4. /\ notify_table' \in [Condvars -> Seq(Senders)]
      /\ \A c \in Condvars : NoTwice(notify_table'[c])
      /\ \A c \in Condvars : \A s : In(notify_table'[c], s) <=>
             In(notify_table[c], s) \/ (c = msg.id /\ s = msg.sender)
  <2>1. notify_table \in [Condvars -> Seq(Senders)] /\ \A c \in Condvars : NoTwice(notify_table[c])
    BY DEF TablesOK, WaitersOK
  <2> DEFINE q == Append(notify_table[msg.id], msg.sender)
  <2>2. /\ q \in Seq(Senders) /\ NoTwice(q)
        /\ \A s : In(q, s) <=> In(notify_table[msg.id], s) \/ s = msg.sender
    BY <2>1, <1>2, <1>3, AppendList
  <2> HIDE DEF q
  <2>3. \A c \in Condvars : notify_table'[c] = IF c = msg.id THEN q ELSE notify_table[c]
    BY <1>2, <2>1 DEF q
  <2>4. notify_table' \in [Condvars -> Seq(Senders)]
    BY <1>2, <2>1, <2>2 DEF q
  <2> QED
    BY <2>1, <2>2, <2>3, <2>4
<1>5. \A c, s : c = msg.id /\ s = msg.sender => WaitsFor(w, c, s)'
  BY <1>1, <1>2 DEF WaitsFor
<1>6. RequestsOK' /\ Requests \subseteq Requests'
  <2>1. CASE Requests' = Requests
    BY <2>1, <1>1 DEF RequestsOK
  <2>2. CASE msg.arg > 0 /\ \E x \in TimerRequest :
               /\ x.sender = msg.sender /\ x.msec >= msg.arg
               /\ x.data = msg.id /\ Requests' = Requests \cup {x}
    <3>1. PICK x \in TimerRequest : /\ x.sender = msg.sender /\ x.msec >= msg.arg
                                    /\ x.data = msg.id /\ Requests' = Requests \cup {x}
      BY <2>2
    <3>2. x.data # NONE
      BY <3>1, <1>2, TicktimerAssumption
    <3> QED
      BY <2>2, <3>1, <3>2, AddedRequest
  <2> QED
    BY <2>1, <2>2
<1>7. call[w].timed => /\ call[w].sender \in notifications_with_timeouts'
                       /\ \E r \in Requests' : AsksFor(w, r)'
  <2> HAVE call[w].timed
  <2>1. msg.arg > 0
    BY <1>2
  <2>2. PICK x \in TimerRequest : /\ x.sender = msg.sender /\ x.msec >= msg.arg
                                  /\ x.data = msg.id /\ Requests' = Requests \cup {x}
    BY <2>1
  <2>3. x.data # NONE
    BY <2>2, <1>2, TicktimerAssumption
  <2>4. AsksFor(w, x)'
    BY <2>1, <2>2, <2>3, AddedRequest
  <2> QED
    BY <1>2, <2>1, <2>2, <2>4
<1>8. TablesOK'
  BY <1>3, <1>4 DEF TablesOK
<1>9. notifications_with_timeouts \subseteq notifications_with_timeouts'
      /\ \A s \in notifications_with_timeouts' : s \in notifications_with_timeouts \/
                (s = msg.sender /\ call[w].timed)
  BY <1>2
<1>10. WaitersOK'
  BY <1>1, <1>4, <1>5, <1>9 DEF WaitersOK
<1>11. TimeoutsOK'
  <2> SUFFICES ASSUME NEW s \in notifications_with_timeouts'
               PROVE  \E c \in Condvars :
                         /\ In(notify_table'[c], s)
                         /\ Pending(s, c)' \/ \E t \in Threads : WaitsFor(t, c, s)' /\ call[t].timed
    BY <1>2 DEF TimeoutsOK
  <2>1. CASE s \in notifications_with_timeouts
    <3>1. PICK c \in Condvars :
             /\ In(notify_table[c], s)
             /\ Pending(s, c) \/ \E t \in Threads : WaitsFor(t, c, s) /\ call[t].timed
      BY <2>1 DEF TimeoutsOK
    <3> QED
      BY <3>1, <1>1, <1>4
  <2>2. CASE s = msg.sender /\ call[w].timed
    BY <2>2, <1>2, <1>4, <1>5
  <2> QED
    BY <2>1, <2>2, <1>9
<1>12. LockersOK'
  BY <1>1 DEF LockersOK
<1>13. FoundOK'
  <2> SUFFICES ASSUME NEW t \in Threads, PutAway(t)'
               PROVE  /\ call[t].op \in {"SleepMs", "WaitForCondition", "LockMutex"}
                      /\ call[t].op = "SleepMs" => \E r \in Requests' : AsksFor(t, r)'
                      /\ call[t].op = "WaitForCondition" =>
                            /\ call[t].id \in Condvars /\ In(notify_table'[call[t].id], call[t].sender)
                            /\ call[t].timed => /\ call[t].sender \in notifications_with_timeouts'
                                                /\ \E r \in Requests' : AsksFor(t, r)'
                      /\ call[t].op = "LockMutex" =>
                            call[t].id \in Mutexes /\ In(mutex_hash[call[t].id], call[t].sender)
    BY <1>2 DEF FoundOK
  <2>1. CASE t = w
    BY <2>1, <1>2, <1>4, <1>7
  <2>2. CASE PutAway(t)
    BY <2>2, <1>1, <1>4, <1>6, <1>9 DEF FoundOK
  <2> QED
    BY <2>1, <2>2, <1>1
<1> QED
  BY <1>6, <1>8, <1>10, <1>11, <1>12, <1>13

LEMMA LockKeepsCore ==
    ASSUME MInv, CoreInv, NEW w \in Threads, PutsAway(w), msg.op = "LockMutex",
           mutex_hash' = [mutex_hash EXCEPT ![msg.id] = Append(@, msg.sender)],
           Requests' = Requests, notify_table' = notify_table,
           notifications_with_timeouts' = notifications_with_timeouts
    PROVE  CoreInv'
<1> USE DEF CoreInv
<1>1. /\ \A t \in Threads : PutAway(t)' <=> PutAway(t) \/ t = w
      /\ \A s, c : Pending(s, c)' <=> Pending(s, c)
      /\ \A c, s : \A t \in Threads : WaitsFor(t, c, s) => WaitsFor(t, c, s)'
      /\ \A c, s : \A t \in Threads : LocksFor(t, c, s) => LocksFor(t, c, s)'
      /\ \A r : \A t \in Threads : AsksFor(t, r) => AsksFor(t, r)'
  BY PutsAwayFacts
<1>2. /\ call' = call /\ call[w].op = "LockMutex" /\ call[w].id = msg.id
      /\ call[w].sender = msg.sender /\ msg.id \in Mutexes
      /\ msg # NONE /\ Sent(w, msg) /\ msg.op \in Owing
  BY DEF PutsAway, Sent, MInv, LettersOK, Fits, MutexOps, Owing, BlockingOps
<1>3. /\ msg.sender \in Senders /\ \A m \in Mutexes : ~In(mutex_hash[m], msg.sender)
  BY <1>2, FreshSender
<1>4. /\ mutex_hash' \in [Mutexes -> Seq(Senders)]
      /\ \A m \in Mutexes : NoTwice(mutex_hash'[m])
      /\ \A m \in Mutexes : \A s : In(mutex_hash'[m], s) <=>
             In(mutex_hash[m], s) \/ (m = msg.id /\ s = msg.sender)
  <2>1. mutex_hash \in [Mutexes -> Seq(Senders)] /\ \A m \in Mutexes : NoTwice(mutex_hash[m])
    BY DEF TablesOK, LockersOK
  <2> DEFINE q == Append(mutex_hash[msg.id], msg.sender)
  <2>2. /\ q \in Seq(Senders) /\ NoTwice(q)
        /\ \A s : In(q, s) <=> In(mutex_hash[msg.id], s) \/ s = msg.sender
    BY <2>1, <1>2, <1>3, AppendList
  <2> HIDE DEF q
  <2>3. \A m \in Mutexes : mutex_hash'[m] = IF m = msg.id THEN q ELSE mutex_hash[m]
    BY <1>2, <2>1 DEF q
  <2>4. mutex_hash' \in [Mutexes -> Seq(Senders)]
    BY <1>2, <2>1, <2>2 DEF q
  <2> QED
    BY <2>1, <2>2, <2>3, <2>4
<1>5. \A m, s : m = msg.id /\ s = msg.sender => LocksFor(w, m, s)'
  BY <1>1, <1>2 DEF LocksFor
<1>6. RequestsOK'
  BY <1>1 DEF RequestsOK
<1>7. TablesOK'
  BY <1>4 DEF TablesOK
<1>8. WaitersOK'
  BY <1>1 DEF WaitersOK
<1>9. TimeoutsOK'
  BY <1>1, <1>2 DEF TimeoutsOK
<1>10. LockersOK'
  BY <1>1, <1>4, <1>5 DEF LockersOK
<1>11. FoundOK'
  <2> SUFFICES ASSUME NEW t \in Threads, PutAway(t)'
               PROVE  /\ call[t].op \in {"SleepMs", "WaitForCondition", "LockMutex"}
                      /\ call[t].op = "SleepMs" => \E r \in Requests' : AsksFor(t, r)'
                      /\ call[t].op = "WaitForCondition" =>
                            /\ call[t].id \in Condvars /\ In(notify_table[call[t].id], call[t].sender)
                            /\ call[t].timed => /\ call[t].sender \in notifications_with_timeouts
                                                /\ \E r \in Requests' : AsksFor(t, r)'
                      /\ call[t].op = "LockMutex" =>
                            call[t].id \in Mutexes /\ In(mutex_hash'[call[t].id], call[t].sender)
    BY <1>2 DEF FoundOK
  <2>1. CASE t = w
    BY <2>1, <1>2, <1>4
  <2>2. CASE PutAway(t)
    BY <2>2, <1>1, <1>4 DEF FoundOK
  <2> QED
    BY <2>1, <2>2, <1>1
<1> QED
  BY <1>6, <1>7, <1>8, <1>9, <1>10, <1>11

-----------------------------------------------------------------------------
(***************************************************************************)
(* The tables: a sender is done with.                                      *)
(***************************************************************************)
\* The tables after sender s has been removed wherever it is.
SenderGone(s) ==
    /\ \A t \in Threads : PutAway(t)' <=> PutAway(t) /\ call[t].sender # s
    /\ \A t \in Threads : PutAway(t)' => call'[t] = call[t]
    /\ \A x \in Senders, c \in Condvars : x # s => (Pending(x, c)' <=> Pending(x, c))
    /\ Requests' = {r \in Requests : r.sender # s}
    /\ notifications_with_timeouts' = notifications_with_timeouts \ {s}
    /\ notify_table' \in [Condvars -> Seq(Senders)]
    /\ mutex_hash' \in [Mutexes -> Seq(Senders)]
    /\ \A c \in Condvars : /\ NoTwice(notify_table'[c])
                           /\ \A x : In(notify_table'[c], x) <=> In(notify_table[c], x) /\ x # s
    /\ \A m \in Mutexes : /\ NoTwice(mutex_hash'[m])
                          /\ \A x : In(mutex_hash'[m], x) <=> In(mutex_hash[m], x) /\ x # s

LEMMA GoneKeepsCore ==
    ASSUME CoreInv, NEW s \in Senders, SenderGone(s)
    PROVE  CoreInv'
<1> USE DEF CoreInv
<1>1. \A c, x : \A t \in Threads : WaitsFor(t, c, x) /\ x # s => WaitsFor(t, c, x)' /\ call'[t] = call[t]
  BY DEF WaitsFor, SenderGone
<1>2. \A c, x : \A t \in Threads : LocksFor(t, c, x) /\ x # s => LocksFor(t, c, x)'
  BY DEF LocksFor, SenderGone
<1>3. \A r : \A t \in Threads : AsksFor(t, r) /\ r.sender # s => AsksFor(t, r)'
  BY DEF AsksFor, SenderGone
<1>4. TablesOK'
  BY DEF TablesOK, SenderGone
<1>5. RequestsOK'
  BY <1>3 DEF RequestsOK, SenderGone
<1>6. WaitersOK'
  BY <1>1 DEF WaitersOK, SenderGone
<1>7. TimeoutsOK'
  <2> SUFFICES ASSUME NEW x \in notifications_with_timeouts'
               PROVE  \E c \in Condvars :
                         /\ In(notify_table'[c], x)
                         /\ Pending(x, c)' \/ \E t \in Threads : WaitsFor(t, c, x)' /\ call'[t].timed
    BY DEF TimeoutsOK
  <2>1. x \in notifications_with_timeouts /\ x # s /\ x \in Senders
    BY DEF SenderGone, TablesOK
  <2>2. PICK c \in Condvars :
           /\ In(notify_table[c], x)
           /\ Pending(x, c) \/ \E t \in Threads : WaitsFor(t, c, x) /\ call[t].timed
    BY <2>1 DEF TimeoutsOK
  <2>3. In(notify_table'[c], x) /\ (Pending(x, c)' <=> Pending(x, c))
    BY <2>1, <2>2 DEF SenderGone
  <2> QED
    BY <2>1, <2>2, <2>3, <1>1
<1>8. LockersOK'
  BY <1>2 DEF LockersOK, SenderGone
<1>9. FoundOK'
  <2> SUFFICES ASSUME NEW t \in Threads, PutAway(t)'
               PROVE  /\ call[t].op \in {"SleepMs", "WaitForCondition", "LockMutex"}
                      /\ call[t].op = "SleepMs" => \E r \in Requests' : AsksFor(t, r)'
                      /\ call[t].op = "WaitForCondition" =>
                            /\ call[t].id \in Condvars /\ In(notify_table'[call[t].id], call[t].sender)
                            /\ call[t].timed => /\ call[t].sender \in notifications_with_timeouts'
                                                /\ \E r \in Requests' : AsksFor(t, r)'
                      /\ call[t].op = "LockMutex" =>
                            call[t].id \in Mutexes /\ In(mutex_hash'[call[t].id], call[t].sender)
    BY DEF FoundOK, SenderGone
  <2>1. PutAway(t) /\ call[t].sender # s
    BY DEF SenderGone
  <2>2. \A r \in Requests : AsksFor(t, r) => r \in Requests' /\ AsksFor(t, r)'
    BY <2>1, <1>3 DEF SenderGone, AsksFor
  <2>3. /\ call[t].op \in {"SleepMs", "WaitForCondition", "LockMutex"}
        /\ call[t].op = "SleepMs" => \E r \in Requests' : AsksFor(t, r)'
    BY <2>1, <2>2 DEF FoundOK
  <2>4. call[t].op = "WaitForCondition" =>
            /\ call[t].id \in Condvars /\ In(notify_table'[call[t].id], call[t].sender)
            /\ call[t].timed => /\ call[t].sender \in notifications_with_timeouts'
                                /\ \E r \in Requests' : AsksFor(t, r)'
    BY <2>1, <2>2 DEF FoundOK, SenderGone
  <2>5. call[t].op = "LockMutex" =>
            call[t].id \in Mutexes /\ In(mutex_hash'[call[t].id], call[t].sender)
    BY <2>1 DEF FoundOK, SenderGone
  <2> QED
    BY <2>3, <2>4, <2>5
<1> QED
  BY <1>4, <1>5, <1>6, <1>7, <1>8, <1>9

\* A thread that is put away is answered, and no other.
Leaves(w) ==
    /\ PutAway(w) /\ call' = Answered({call[w].sender})
    /\ \A x : Queued(x)' <=> Queued(x)
    /\ \A x \in Senders : (msg' # NONE /\ msg'.sender = x) <=> (msg # NONE /\ msg.sender = x)

LEMMA LeavesFacts ==
    ASSUME MInv, NEW w \in Threads, Leaves(w)
    PROVE  /\ call[w].sender \in Senders /\ ~Queued(call[w].sender) /\ \A c : ~Pending(call[w].sender, c)
           /\ \A t \in Threads : call[t].sender = call[w].sender => t = w
           /\ \A t \in Threads : PutAway(t)' <=> PutAway(t) /\ call[t].sender # call[w].sender
           /\ \A t \in Threads : t # w => call'[t] = call[t]
           /\ \A t \in Threads : PutAway(t)' => call'[t] = call[t]
           /\ call'[w].sender = NONE /\ call'[w].op = NONE
<1>1. call[w].sender \in Senders /\ call[w].sender # NONE /\ ~Queued(call[w].sender)
  BY TicktimerAssumption DEF Leaves, PutAway, MInv, CallsOK, Call
<1>2. \A t \in Threads : call[t].sender = call[w].sender => t = w
  BY <1>1 DEF MInv, CallsOK
<1>3. \A c : ~Pending(call[w].sender, c)
  BY <1>1, NotPending
<1>4. \A t \in Threads : Woken(t, {call[w].sender}) <=> t = w
  BY <1>1, <1>2 DEF Woken
<1>5. {call[w].sender} \in SUBSET Senders /\ call' = Answered({call[w].sender}) /\ CallsOK
  BY <1>1 DEF Leaves, MInv
<1>6. /\ \A t \in Threads : t # w => call'[t] = call[t]
      /\ call'[w].sender = NONE /\ call'[w].op = NONE
  BY <1>4, <1>5, AnsweredFacts
<1>7. \A t \in Threads : PutAway(t)' <=> PutAway(t) /\ t # w
  <2> TAKE t \in Threads
  <2>1. CASE t = w
    BY <2>1, <1>6 DEF PutAway
  <2>2. CASE t # w
    <3>1. call'[t] = call[t] /\ call[t].sender \in Senders \cup {NONE}
      BY <2>2, <1>6 DEF MInv, CallsOK, Call
    <3> QED
      BY <2>2, <3>1 DEF PutAway, Leaves
  <2> QED
    BY <2>1, <2>2
<1> QED
  BY <1>1, <1>2, <1>3, <1>6, <1>7

\* UnlockMutex, when somebody waits.
LEMMA UnlockKeepsCore ==
    ASSUME MInv, CoreInv, NEW w \in Threads, Leaves(w), NEW m \in Mutexes,
           mutex_hash[m] # <<>>, call[w].sender = Head(mutex_hash[m]), call[w].op = "LockMutex",
           mutex_hash' = [mutex_hash EXCEPT ![m] = Tail(@)],
           \A s, c : Pending(s, c)' <=> Pending(s, c), Requests' = Requests,
           notifications_with_timeouts' = notifications_with_timeouts,
           notify_table' = notify_table
    PROVE  CoreInv'
<1> USE DEF CoreInv
<1> DEFINE s == call[w].sender
<1>1. /\ s \in Senders /\ \A c : ~Pending(s, c)
      /\ \A t \in Threads : call[t].sender = s => t = w
      /\ \A t \in Threads : PutAway(t)' <=> PutAway(t) /\ call[t].sender # s
      /\ \A t \in Threads : PutAway(t)' => call'[t] = call[t]
  BY LeavesFacts
<1>2. \A r \in Requests : r.sender # s
  BY <1>1 DEF RequestsOK, AsksFor
<1>3. \A c \in Condvars : ~In(notify_table[c], s)
  BY <1>1 DEF WaitersOK, WaitsFor
<1>4. s \notin notifications_with_timeouts
  BY <1>3 DEF TimeoutsOK
<1>5. \A o \in Mutexes : o # m => ~In(mutex_hash[o], s)
  <2> SUFFICES ASSUME NEW o \in Mutexes, o # m, In(mutex_hash[o], s) PROVE FALSE
    OBVIOUS
  <2>1. In(mutex_hash[m], s)
    BY TailList DEF TablesOK, LockersOK
  <2>2. call[w].id = m /\ call[w].id = o
    BY <1>1, <2>1 DEF LockersOK, LocksFor
  <2> QED
    BY <2>2
<1>6. /\ mutex_hash' \in [Mutexes -> Seq(Senders)]
      /\ \A o \in Mutexes : /\ NoTwice(mutex_hash'[o])
                            /\ \A x : In(mutex_hash'[o], x) <=> In(mutex_hash[o], x) /\ x # s
  <2>1. mutex_hash \in [Mutexes -> Seq(Senders)] /\ \A o \in Mutexes : NoTwice(mutex_hash[o])
    BY DEF TablesOK, LockersOK
  <2> DEFINE q == Tail(mutex_hash[m])
  <2>2. /\ q \in Seq(Senders) /\ NoTwice(q) /\ \A x : In(q, x) <=> In(mutex_hash[m], x) /\ x # s
    BY <2>1, TailList
  <2>3. \A o \in Mutexes : mutex_hash'[o] = IF o = m THEN q ELSE mutex_hash[o]
    BY <2>1
  <2>4. mutex_hash' \in [Mutexes -> Seq(Senders)]
    BY <2>1, <2>2
  <2> HIDE DEF q
  <2> QED
    BY <2>1, <2>2, <2>3, <2>4, <1>5
<1> HIDE DEF s
<1>7. SenderGone(s)
  BY <1>1, <1>2, <1>3, <1>4, <1>6 DEF SenderGone, TablesOK, WaitersOK
<1> QED
  BY <1>1, <1>7, GoneKeepsCore

\* The first sender of a list is taken from it by NotifyCondition.
LEMMA TakenFromList ==
    ASSUME MInv, CoreInv, NEW c \in Condvars, notify_table[c] # <<>>,
           notify_table' = [notify_table EXCEPT ![c] = Tail(@)]
    PROVE  LET e == Head(notify_table[c])
           IN  /\ e \in Senders /\ In(notify_table[c], e)
               /\ notify_table' \in [Condvars -> Seq(Senders)]
               /\ Len(notify_table'[c]) = Len(notify_table[c]) - 1
               /\ \A d \in Condvars :
                     /\ NoTwice(notify_table'[d])
                     /\ \A x : In(notify_table'[d], x) <=> In(notify_table[d], x) /\ x # e
<1> DEFINE e == Head(notify_table[c])
           q == Tail(notify_table[c])
<1>1. notify_table \in [Condvars -> Seq(Senders)] /\ \A d \in Condvars : NoTwice(notify_table[d])
  BY DEF CoreInv, TablesOK, WaitersOK
<1>2. /\ e \in Senders /\ In(notify_table[c], e) /\ q \in Seq(Senders) /\ NoTwice(q)
      /\ Len(q) = Len(notify_table[c]) - 1
      /\ \A x : In(q, x) <=> In(notify_table[c], x) /\ x # e
  BY <1>1, TailList
<1>3. \A d \in Condvars : d # c => ~In(notify_table[d], e)
  BY <1>2, OneList
<1>4. \A d \in Condvars : notify_table'[d] = IF d = c THEN q ELSE notify_table[d]
  BY <1>1
<1>5. notify_table' \in [Condvars -> Seq(Senders)]
  BY <1>1, <1>2
<1> HIDE DEF e, q
<1>6. \A d \in Condvars : /\ NoTwice(notify_table'[d])
                          /\ \A x : In(notify_table'[d], x) <=> In(notify_table[d], x) /\ x # e
  BY <1>1, <1>2, <1>3, <1>4
<1> QED
  BY <1>2, <1>4, <1>5, <1>6 DEF e

\* A sender the loop of NotifyCondition takes for timed out is nobody's any more.
LEMMA StaleEntry ==
    ASSUME MInv, AInv, CoreInv, ticktimer.current_response = NONE, NEW c \in Condvars, NEW e \in Senders,
           In(notify_table[c], e), TimedOut(e)
    PROVE  (\A t \in Threads : PutAway(t) => call[t].sender # e) /\ \A r \in Requests : r.sender # e
<1> USE DEF CoreInv
<1>1. \A r \in Requests : r.sender # e
  BY DEF TimedOut, InHeap, Requests
<1>2. ASSUME NEW t \in Threads, PutAway(t), call[t].sender = e PROVE FALSE
  <2>1. \A d : ~Pending(e, d)
    BY <1>2, NotPending DEF PutAway
  <2>2. PICK d \in Condvars, u \in Threads : WaitsFor(u, d, e) /\ call[u].timed
    BY <2>1 DEF TimeoutsOK, TimedOut
  <2>3. u = t
    BY <2>2, <1>2 DEF WaitsFor, PutAway, MInv, CallsOK
  <2>4. PICK r \in Requests : AsksFor(t, r)
    BY <2>2, <2>3 DEF FoundOK, WaitsFor
  <2> QED
    BY <2>4, <1>1, <1>2 DEF AsksFor
<1> QED
  BY <1>1, <1>2

\* One it does not is that of a thread that waits.
LEMMA LiveEntry ==
    ASSUME MInv, AInv, CoreInv, NEW c \in Condvars, NEW e \in Senders,
           In(notify_table[c], e), ~TimedOut(e)
    PROVE  /\ \E w \in Threads : WaitsFor(w, c, e)
           /\ IsToken(e)
           /\ e \notin notifications_with_timeouts => \A r \in Requests : r.sender # e
<1> USE DEF CoreInv
<1>1. PICK w \in Threads : WaitsFor(w, c, e)
  <2>1. CASE \E w \in Threads : WaitsFor(w, c, e)
    BY <2>1
  <2>2. CASE e \in notifications_with_timeouts /\ Pending(e, c)
    <3>1. PICK r \in ticktimer.sleep_heap : r.sender = e
      BY <2>2 DEF TimedOut, InHeap
    <3>2. r \in Requests
      BY <3>1, RequestFacts DEF Requests, AInv, Timer
    <3>3. PICK t \in Threads : AsksFor(t, r)
      BY <3>2 DEF RequestsOK
    <3> QED
      BY <2>2, <3>1, <3>3, NotPending DEF AsksFor, PutAway
  <2> QED
    BY <2>1, <2>2 DEF WaitersOK
<1>2. call[w].sender = e /\ ~Queued(e) /\ call[w].op = "WaitForCondition" /\ e # NONE
  BY <1>1 DEF WaitsFor, PutAway
<1>3. IsToken(e)
  BY <1>2 DEF IsToken
<1>4. ASSUME e \notin notifications_with_timeouts, NEW r \in Requests, r.sender = e PROVE FALSE
  <2>1. PICK t \in Threads : AsksFor(t, r)
    BY <1>4 DEF RequestsOK
  <2>2. t = w
    BY <2>1, <1>2, <1>4 DEF AsksFor, MInv, CallsOK
  <2> QED
    BY <2>1, <2>2, <1>2, <1>4 DEF FoundOK, AsksFor
<1> QED
  BY <1>1, <1>3, <1>4

\* No two requests are those of one sender.
LEMMA OneTimeout ==
    ASSUME AInv, CoreInv, NEW e
    PROVE  ~TwoTimeouts(ticktimer.sleep_heap, e) /\ ~TwoTimeouts(stop_sleep(ticktimer).sleep_heap, e)
<1>1. ticktimer.sleep_heap \subseteq Requests
  BY RequestFacts DEF AInv, Timer, Requests
<1>2. stop_sleep(ticktimer).sleep_heap = Requests
  BY AlarmFacts, StopSleepStops
<1>3. \A r, o \in Requests : r.sender = o.sender => r = o
  BY DEF CoreInv, RequestsOK
<1> QED
  BY <1>1, <1>2, <1>3 DEF TwoTimeouts

LEMMA NotifyEntryKeeps ==
    ASSUME MInv, AInv, TInv, failed = {}, NotifyEntry
    PROVE  MInv' /\ AInv' /\ CoreInv' /\ LoopOK' /\ failed' = {}
<1> DEFINE c == msg.id
           e == Head(notify_table[c])
<1>1. /\ msg # NONE /\ msg.op = "notifying" /\ msg.arg > 0 /\ msg.op \in Owing
      /\ msg \in Letter /\ c \in Condvars /\ msg.arg \in Nat /\ Fits(msg)
  BY DEF NotifyEntry, Notifying, MInv, LettersOK, Fits, ConditionOps, Letter, Owing
<1>2. /\ msg' = [msg EXCEPT !.arg = @ - 1] /\ queue' = queue
      /\ notify_table' = [notify_table EXCEPT ![c] = Tail(@)]
      /\ notifications_with_timeouts' = notifications_with_timeouts \ {e}
      /\ ticktimer' = [ticktimer EXCEPT !.sleep_heap =
                        IF e \in notifications_with_timeouts THEN Without(@, e) ELSE @]
      /\ mutex_hash' = mutex_hash
      /\ failed' \subseteq failed \cup (IF TimedOut(e) \/ IsToken(e) THEN {} ELSE {"woken up twice"})
           \cup (IF TwoTimeouts(ticktimer.sleep_heap, e) THEN {"two timeouts"} ELSE {})
  BY DEF NotifyEntry, TakeEntry
<1>3. /\ msg' # NONE /\ msg' \in Letter /\ msg'.op = "notifying" /\ msg'.sender = msg.sender
      /\ msg'.id = msg.id /\ msg'.arg = msg.arg - 1 /\ Fits(msg')
  <2> DEFINE n == msg.arg - 1
  <2>1. n \in Nat
    BY <1>1
  <2>2. msg' = [msg EXCEPT !.arg = n]
    BY <1>2
  <2> HIDE DEF n
  <2>3. /\ msg' \in Letter /\ msg'.op = "notifying" /\ msg'.sender = msg.sender
        /\ msg'.id = msg.id /\ msg'.arg = n
    BY <1>1, <2>1, <2>2 DEF Letter
  <2> QED
    BY <1>1, <2>3, TicktimerAssumption DEF n, Fits, ConditionOps, MutexOps, Owing
<1>4. notify_table[c] # <<>> /\ notify_table[c] \in Seq(Senders) /\ msg.arg <= Len(notify_table[c])
  BY <1>1 DEF TInv, LoopOK, CoreInv, TablesOK
<1>5. /\ e \in Senders /\ In(notify_table[c], e)
      /\ notify_table' \in [Condvars -> Seq(Senders)]
      /\ Len(notify_table'[c]) = Len(notify_table[c]) - 1
      /\ \A d \in Condvars :
            /\ NoTwice(notify_table'[d])
            /\ \A x : In(notify_table'[d], x) <=> In(notify_table[d], x) /\ x # e
  BY <1>1, <1>2, <1>4, TakenFromList DEF TInv
<1>6. LoopOK'
  <2>1. msg'.arg <= Len(notify_table'[msg'.id])
    BY <1>1, <1>3, <1>4, <1>5
  <2> QED
    BY <2>1 DEF LoopOK
<1>7. PICK v \in Threads : Sent(v, msg)
  BY <1>1 DEF MInv, SentOK
<1>8. e # msg.sender
  BY <1>1, <1>5, <1>7, FreshSender DEF TInv
<1>9. failed' = {}
  <2>1. ~TwoTimeouts(ticktimer.sleep_heap, e)
    BY OneTimeout DEF TInv
  <2>2. TimedOut(e) \/ IsToken(e)
    BY <1>1, <1>5, LiveEntry DEF TInv
  <2> QED
    BY <1>2, <2>1, <2>2
<1> HIDE DEF c, e
<1>10. /\ ticktimer \in Timer /\ Stopped(ticktimer) /\ ticktimer.current_response = NONE
       /\ Requests = ticktimer.sleep_heap
  <2>1. ticktimer \in Timer /\ ticktimer.current_response = NONE /\ TimerOK(ticktimer)
    BY <1>1, AlarmFacts DEF AInv
  <2>2. Requests = ticktimer.sleep_heap
    BY <2>1, RequestFacts DEF Timer, Requests
  <2> QED
    BY <2>1, <2>2 DEF TimerOK, Stopped, AInv, AlarmIsSet
<1>11. Stopped(ticktimer') /\ Requests' = {r \in Requests : r.sender # e}
  <2> DEFINE H == IF e \in notifications_with_timeouts
                  THEN Without(ticktimer.sleep_heap, e) ELSE ticktimer.sleep_heap
  <2>1. H \in SUBSET ticktimer.sleep_heap
    BY DEF Without
  <2>2. ticktimer' = [ticktimer EXCEPT !.sleep_heap = H]
    BY <1>2
  <2>3. H = {r \in Requests : r.sender # e}
    <3>1. CASE e \in notifications_with_timeouts
      BY <3>1, <1>10 DEF Without
    <3>2. CASE e \notin notifications_with_timeouts
      <4>1. ~TimedOut(e)
        BY <3>2 DEF TimedOut
      <4>2. \A r \in Requests : r.sender # e
        BY <1>1, <1>5, <3>2, <4>1, LiveEntry DEF TInv
      <4> QED
        BY <3>2, <4>2, <1>10
    <3> QED
      BY <3>1, <3>2
  <2> HIDE DEF H
  <2>4. Stopped(ticktimer') /\ ticktimer'.sleep_heap = H
    BY <1>10, <2>1, <2>2, FewerStopped
  <2>5. Requests' = H
    BY <2>4, RequestFacts DEF Requests, Stopped, Timer
  <2> QED
    BY <2>3, <2>4, <2>5
<1>12. \A x : Queued(x)' <=> Queued(x)
  BY <1>2 DEF Queued
<1>13. \A x, d : Pending(x, d)' <=> Pending(x, d)
  BY <1>1, <1>2, <1>3 DEF Pending, Recalc
<1>14. \A m \in Mutexes : ~In(mutex_hash[m], e)
  <2> SUFFICES ASSUME NEW m \in Mutexes, In(mutex_hash[m], e) PROVE FALSE
    OBVIOUS
  <2>1. PICK t \in Threads : LocksFor(t, m, e)
    BY <1>5 DEF TInv, CoreInv, LockersOK
  <2>2. \A d : ~Pending(e, d)
    BY <2>1, NotPending DEF LocksFor, PutAway
  <2>3. PICK u \in Threads : WaitsFor(u, c, e)
    BY <1>1, <1>5, <2>2 DEF TInv, CoreInv, WaitersOK, c
  <2> QED
    BY <2>1, <2>3 DEF LocksFor, WaitsFor, PutAway, MInv, CallsOK
<1>15. ASSUME /\ \A t \in Threads : PutAway(t)' <=> PutAway(t) /\ call[t].sender # e
              /\ \A t \in Threads : PutAway(t)' => call'[t] = call[t]
       PROVE  CoreInv'
  <2>1. SenderGone(e)
    BY <1>2, <1>5, <1>11, <1>13, <1>14, <1>15 DEF SenderGone, TInv, CoreInv, TablesOK, LockersOK
  <2> QED
    BY <1>5, <2>1, GoneKeepsCore DEF TInv
<1>16. ASSUME TimedOut(e) /\ call' = call PROVE MInv' /\ CoreInv'
  <2>1. call' = Answered({}) /\ {} \in SUBSET Senders
    BY <1>16, NobodyAnswered DEF MInv
  <2>2. Advanced({})
    BY <1>1, <1>3 DEF Advanced
  <2>3. MInv'
    BY <1>2, <2>1, <2>2, HandledKeepsMInv
  <2>4. \A t \in Threads : PutAway(t) => call[t].sender # e
    BY <1>1, <1>5, <1>10, <1>16, StaleEntry DEF TInv
  <2>5. \A t \in Threads : PutAway(t)' <=> PutAway(t)
    BY <1>1, <1>3, <1>12, <1>16 DEF PutAway
  <2>6. /\ \A t \in Threads : PutAway(t)' <=> PutAway(t) /\ call[t].sender # e
        /\ \A t \in Threads : PutAway(t)' => call'[t] = call[t]
    BY <2>4, <2>5, <1>16
  <2> QED
    BY <2>3, <2>6, <1>15
<1>17. ASSUME ~TimedOut(e) /\ Answer({e}) PROVE MInv' /\ CoreInv'
  <2>1. call' = Answered({e}) /\ {e} \in SUBSET Senders
    BY <1>5, <1>17, AnswerIs
  <2>2. Advanced({e})
    BY <1>1, <1>3, <1>8 DEF Advanced
  <2>3. MInv'
    BY <1>2, <2>1, <2>2, HandledKeepsMInv
  <2>4. PICK w \in Threads : WaitsFor(w, c, e)
    BY <1>1, <1>5, <1>17, LiveEntry DEF TInv
  <2>5. Leaves(w) /\ call[w].sender = e
    BY <1>1, <1>3, <1>12, <2>1, <2>4 DEF Leaves, WaitsFor
  <2>6. /\ \A t \in Threads : PutAway(t)' <=> PutAway(t) /\ call[t].sender # e
        /\ \A t \in Threads : PutAway(t)' => call'[t] = call[t]
    BY <2>5, LeavesFacts
  <2> QED
    BY <2>3, <2>6, <1>15
<1>18. MInv' /\ CoreInv'
  BY <1>16, <1>17 DEF NotifyEntry, c, e
<1>20. AInv'
  BY <1>3, <1>11, StoppedKeepsAInv
<1> QED
  BY <1>6, <1>9, <1>18, <1>20

-----------------------------------------------------------------------------
(***************************************************************************)
(* The tables: the alarm, the message about it, and time.                  *)
(***************************************************************************)
LEMMA HandleIrqKeeps ==
    ASSUME MInv, AInv, TInv, RoomForAlarm, handle_irq
    PROVE  MInv' /\ AInv' /\ CoreInv'
<1> USE DEF TInv, CoreInv
<1> DEFINE x == ticktimer.current_response
           s == x.sender
           m == Message("RecalculateSleep", NONE, x.data, s)
<1>1. /\ ticktimer.enabled /\ ticktimer.pending /\ Answer({s})
      /\ ticktimer' = [ticktimer EXCEPT !.enabled = FALSE, !.current_response = NONE]
      /\ queue' = Append(queue, m) /\ msg' = msg
      /\ notifications_with_timeouts' = notifications_with_timeouts
      /\ notify_table' = notify_table /\ mutex_hash' = mutex_hash
  BY DEF handle_irq, RoomForAlarm, tables
<1>2. /\ x # NONE /\ x \in TimerRequest /\ x \in Requests /\ s \in Senders /\ s # NONE
      /\ x.data \in Condvars \cup {NONE}
  BY <1>1, RequestFacts DEF AInv, AlarmIsSet, Timer, Requests, TimerRequest
<1>3. PICK w \in Threads : AsksFor(w, x)
  BY <1>2 DEF RequestsOK
<1>4. PutAway(w) /\ call[w].sender = s /\ call[w].timed
  BY <1>3 DEF AsksFor
<1>5. /\ m \in Letter /\ m.op = "RecalculateSleep" /\ m.sender = NONE /\ m.arg = s /\ m.id = x.data
      /\ Fits(m) /\ Recalc(m, s)
  <2>1. s \in Nat
    BY <1>2 DEF Senders
  <2>2. m \in Letter /\ m.op = "RecalculateSleep" /\ m.sender = NONE /\ m.arg = s /\ m.id = x.data
    BY <1>2, <2>1 DEF Message, Letter, LoopOps
  <2> HIDE DEF m
  <2> QED
    BY <1>2, <2>2 DEF Fits, ConditionOps, MutexOps, Owing, BlockingOps, Recalc
<1>6. call' = Answered({s}) /\ {s} \in SUBSET Senders
  BY <1>1, <1>2, AnswerIs
<1> HIDE DEF m, s, x
<1>7. MInv'
  BY <1>1, <1>2, <1>4, <1>5, <1>6, AlarmKeepsMInv
<1>8. /\ queue'[Len(queue) + 1] = m /\ DOMAIN queue \subseteq DOMAIN queue'
      /\ Len(queue) + 1 \in DOMAIN queue'
      /\ \A i \in DOMAIN queue : queue'[i] = queue[i]
      /\ \A i \in DOMAIN queue' : i # Len(queue) + 1 => i \in DOMAIN queue
  BY <1>1, <1>5, AppendedQueue DEF MInv
<1>9. \A y : Queued(y)' <=> Queued(y)
  <2>1. m.op \notin BlockingOps
    BY <1>5 DEF BlockingOps
  <2> QED
    BY <1>1, <1>5, <2>1, AppendedQueued DEF MInv
<1>10. \A y, c : Pending(y, c)' <=> Pending(y, c) \/ (y = s /\ c = x.data)
  <2> TAKE y, c
  <2>1. ASSUME Pending(y, c) PROVE Pending(y, c)'
    BY <2>1, <1>1, <1>8 DEF Pending
  <2>2. ASSUME y = s, c = x.data PROVE Pending(y, c)'
    BY <2>2, <1>5, <1>8 DEF Pending
  <2>3. ASSUME Pending(y, c)' PROVE Pending(y, c) \/ (y = s /\ c = x.data)
    BY <2>3, <1>1, <1>5, <1>8 DEF Pending, Recalc
  <2> QED
    BY <2>1, <2>2, <2>3
<1>11. Leaves(w)
  BY <1>1, <1>4, <1>6, <1>9 DEF Leaves
<1>12. /\ \A c : ~Pending(s, c)
       /\ \A t \in Threads : call[t].sender = s => t = w
       /\ \A t \in Threads : PutAway(t)' <=> PutAway(t) /\ call[t].sender # s
       /\ \A t \in Threads : PutAway(t)' => call'[t] = call[t]
  BY <1>4, <1>11, LeavesFacts
<1>13. \A c \in Condvars : In(notify_table[c], s) =>
          s \in notifications_with_timeouts /\ c = x.data
  <2> TAKE c \in Condvars
  <2> HAVE In(notify_table[c], s)
  <2>1. WaitsFor(w, c, s)
    BY <1>2, <1>12 DEF WaitersOK, WaitsFor
  <2>2. x.data = c
    BY <2>1, <1>3 DEF WaitsFor, AsksFor
  <2> QED
    BY <2>1, <2>2, <1>4 DEF FoundOK, WaitsFor
<1>14. /\ ticktimer' \in Timer /\ ticktimer'.sleep_heap = ticktimer.sleep_heap
       /\ ticktimer'.current_response = NONE /\ ticktimer'.enabled = FALSE
  BY <1>1 DEF AInv, Timer
<1>15. Requests' = {r \in Requests : r.sender # s}
  <2>1. Requests' = ticktimer.sleep_heap
    BY <1>14, RequestFacts DEF AInv, Timer, Requests
  <2>2. Requests = ticktimer.sleep_heap \cup {x}
    BY <1>2, RequestFacts DEF AInv, Timer, Requests, x
  <2>3. \A r \in ticktimer.sleep_heap : r # x
    BY <1>2, RequestFacts DEF AInv, AlarmIsSet, x
  <2>4. \A r \in Requests : r.sender = s => r = x
    BY <1>2 DEF RequestsOK, s
  <2>5. x.sender = s
    BY DEF s
  <2> QED
    BY <2>1, <2>2, <2>3, <2>4, <2>5
<1>16. \A c, y : \A t \in Threads : WaitsFor(t, c, y) /\ y # s => WaitsFor(t, c, y)' /\ call'[t] = call[t]
  BY <1>12 DEF WaitsFor
<1>17. \A c, y : \A t \in Threads : LocksFor(t, c, y) /\ y # s => LocksFor(t, c, y)'
  BY <1>12 DEF LocksFor
<1>18. \A r : \A t \in Threads : AsksFor(t, r) /\ r.sender # s => AsksFor(t, r)'
  BY <1>12 DEF AsksFor
<1>19. TablesOK'
  BY <1>1 DEF TablesOK
<1>20. RequestsOK'
  BY <1>15, <1>18 DEF RequestsOK
<1>21. WaitersOK'
  <2> SUFFICES ASSUME NEW c \in Condvars, NEW y \in Senders, In(notify_table[c], y)
               PROVE  \/ \E t \in Threads : WaitsFor(t, c, y)'
                      \/ y \in notifications_with_timeouts /\ Pending(y, c)'
    BY <1>1 DEF WaitersOK
  <2>1. CASE y = s
    BY <2>1, <1>10, <1>13
  <2>2. CASE y # s
    BY <2>2, <1>10, <1>16 DEF WaitersOK
  <2> QED
    BY <2>1, <2>2
<1>22. TimeoutsOK'
  <2> SUFFICES ASSUME NEW y \in notifications_with_timeouts
               PROVE  \E c \in Condvars :
                         /\ In(notify_table[c], y)
                         /\ Pending(y, c)' \/ \E t \in Threads : WaitsFor(t, c, y)' /\ call'[t].timed
    BY <1>1 DEF TimeoutsOK
  <2>1. PICK c \in Condvars :
           /\ In(notify_table[c], y)
           /\ Pending(y, c) \/ \E t \in Threads : WaitsFor(t, c, y) /\ call[t].timed
    BY DEF TimeoutsOK
  <2>2. CASE y = s
    BY <2>1, <2>2, <1>10, <1>13
  <2>3. CASE y # s
    BY <2>1, <2>3, <1>10, <1>16
  <2> QED
    BY <2>2, <2>3
<1>23. LockersOK'
  <2>1. \A o \in Mutexes : ~In(mutex_hash[o], s)
    BY <1>2, <1>3, <1>12 DEF LockersOK, LocksFor, AsksFor
  <2> QED
    BY <2>1, <1>1, <1>17 DEF LockersOK
<1>24. FoundOK'
  <2> SUFFICES ASSUME NEW t \in Threads, PutAway(t)'
               PROVE  /\ call[t].op \in {"SleepMs", "WaitForCondition", "LockMutex"}
                      /\ call[t].op = "SleepMs" => \E r \in Requests' : AsksFor(t, r)'
                      /\ call[t].op = "WaitForCondition" =>
                            /\ call[t].id \in Condvars /\ In(notify_table[call[t].id], call[t].sender)
                            /\ call[t].timed => /\ call[t].sender \in notifications_with_timeouts
                                                /\ \E r \in Requests' : AsksFor(t, r)'
                      /\ call[t].op = "LockMutex" =>
                            call[t].id \in Mutexes /\ In(mutex_hash[call[t].id], call[t].sender)
    BY <1>1, <1>12 DEF FoundOK
  <2>1. PutAway(t) /\ call[t].sender # s
    BY <1>12
  <2>2. \A r \in Requests : AsksFor(t, r) => r \in Requests' /\ AsksFor(t, r)'
    BY <2>1, <1>15, <1>18 DEF AsksFor
  <2> QED
    BY <2>1, <2>2 DEF FoundOK
<1>25. AInv'
  <2>1. Recalculating'
    BY <1>5, <1>8 DEF Recalculating
  <2>3. AlarmIsSet'
    BY <2>1, <1>14 DEF AInv, AlarmIsSet
  <2>4. IsFiniteSet(ticktimer'.sleep_heap)
    BY <1>14 DEF AInv
  <2> QED
    BY <2>3, <2>4, <1>14 DEF AInv
<1> QED
  BY <1>7, <1>19, <1>20, <1>21, <1>22, <1>23, <1>24, <1>25

LEMMA TickKeepsCore ==
    ASSUME MInv, AInv, CoreInv, Tick
    PROVE  CoreInv'
<1> USE DEF CoreInv
<1>1. /\ queue' = queue /\ msg' = msg /\ notify_table' = notify_table /\ mutex_hash' = mutex_hash
      /\ notifications_with_timeouts' = notifications_with_timeouts
  BY DEF Tick, tables
<1>2. SameCalls /\ Requests' = {Earlier(r) : r \in Requests}
  BY TickKeepsAInv
<1>3. /\ Requests \subseteq TimerRequest
      /\ \A r \in Requests :
            /\ Earlier(r) \in TimerRequest /\ Earlier(r).sender = r.sender /\ Earlier(r).data = r.data
            /\ IF r.msec > 1 THEN Earlier(r).msec = r.msec - 1 ELSE Earlier(r).msec <= 0
  BY AlarmFacts, EarlierKeepsOrder
<1>4. /\ \A s : Queued(s)' <=> Queued(s)
      /\ \A s, c : Pending(s, c)' <=> Pending(s, c)
  BY <1>1 DEF Queued, Pending
<1>5. \A t \in Threads : PutAway(t)' <=> PutAway(t)
  BY <1>1, <1>2, <1>4 DEF PutAway, SameCalls
<1>6. \A t \in Threads : PutAway(t) => /\ call'[t].op = call[t].op /\ call'[t].id = call[t].id
                                       /\ call'[t].timed = call[t].timed
                                       /\ call'[t].sender = call[t].sender
  BY <1>2 DEF PutAway, SameCalls
<1>7. \A t \in Threads : call'[t].due = Sooner(call[t].due) /\ call[t].due \in Nat
  BY DEF Tick, MInv, CallsOK, Call
<1>8. \A c, s : \A t \in Threads : WaitsFor(t, c, s)' <=> WaitsFor(t, c, s)
  BY <1>5, <1>6 DEF WaitsFor
<1>9. \A c, s : \A t \in Threads : LocksFor(t, c, s)' <=> LocksFor(t, c, s)
  BY <1>5, <1>6 DEF LocksFor
<1>10. \A t \in Threads, r \in Requests : AsksFor(t, r) => \E o \in Requests' : o = Earlier(r) /\ AsksFor(t, o)'
  <2> TAKE t \in Threads, r \in Requests
  <2> HAVE AsksFor(t, r)
  <2>1. /\ call[t].sender = r.sender /\ call[t].timed /\ PutAway(t)
        /\ call[t].due > 0 => r.msec >= call[t].due
        /\ IF r.data = NONE THEN call[t].op = "SleepMs"
           ELSE call[t].op = "WaitForCondition" /\ call[t].id = r.data
    BY DEF AsksFor
  <2>2. PICK o \in Requests' : o = Earlier(r)
    BY <1>2
  <2>3. call'[t].due > 0 => o.msec >= call'[t].due
    <3>1. r.msec \in Int /\ o.msec \in Int /\ call[t].due \in Nat
      BY <1>3, <1>7, <2>2, RequestFacts
    <3>2. call'[t].due = IF call[t].due > 0 THEN call[t].due - 1 ELSE 0
      BY <1>7 DEF Sooner
    <3>3. IF r.msec > 1 THEN o.msec = r.msec - 1 ELSE o.msec <= 0
      BY <1>3, <2>2
    <3> QED
      BY <2>1, <3>1, <3>2, <3>3
  <2>4. o.sender = r.sender /\ o.data = r.data
    BY <1>3, <2>2
  <2>5. PutAway(t)'
    BY <1>5, <2>1
  <2>6. AsksFor(t, o)'
    BY <2>1, <2>3, <2>4, <2>5, <1>6 DEF AsksFor
  <2> QED
    BY <2>2, <2>6
<1>11. RequestsOK'
  <2>1. \A o \in Requests' : \E t \in Threads : AsksFor(t, o)'
    <3> TAKE o \in Requests'
    <3>1. PICK r \in Requests : o = Earlier(r)
      BY <1>2
    <3>2. PICK t \in Threads : AsksFor(t, r)
      BY DEF RequestsOK
    <3> QED
      BY <3>1, <3>2, <1>10
  <2>2. \A p, o \in Requests' : p.sender = o.sender => p = o
    BY <1>2, <1>3 DEF RequestsOK
  <2> QED
    BY <2>1, <2>2 DEF RequestsOK
<1>12. TablesOK'
  BY <1>1 DEF TablesOK
<1>13. WaitersOK'
  BY <1>1, <1>4, <1>8 DEF WaitersOK
<1>14. TimeoutsOK'
  <2>1. \A c, s : \A t \in Threads : WaitsFor(t, c, s) => call'[t].timed = call[t].timed
    BY <1>6 DEF WaitsFor
  <2> QED
    BY <2>1, <1>1, <1>4, <1>8 DEF TimeoutsOK
<1>15. LockersOK'
  BY <1>1, <1>9 DEF LockersOK
<1>16. FoundOK'
  BY <1>1, <1>5, <1>6, <1>10 DEF FoundOK
<1> QED
  BY <1>11, <1>12, <1>13, <1>14, <1>15, <1>16

LEMMA RecalculateSleepKeeps ==
    ASSUME MInv, AInv, TInv, failed = {}, RecalculateSleep
    PROVE  /\ MInv' /\ AInv' /\ CoreInv' /\ failed' = {}
           /\ \A c \in Condvars, x \in Senders : In(notify_table'[c], x) =>
                 In(notify_table[c], x) /\ ~Recalc(msg, x)
<1> USE DEF TInv, CoreInv
<1> DEFINE s == msg.arg
           k == stop_sleep(ticktimer)
           timedOut == s \in notifications_with_timeouts
           inTable == msg.id \in Condvars /\ Contains(notify_table[msg.id], s)
           H == IF timedOut THEN Without(k.sleep_heap, s) ELSE k.sleep_heap
<1>1. /\ msg # NONE /\ msg.op = "RecalculateSleep" /\ msg' = NONE /\ queue' = queue
      /\ s \in Senders /\ msg.id \in Condvars \cup {NONE} /\ s # NONE
      /\ call' = call /\ mutex_hash' = mutex_hash
  BY TicktimerAssumption DEF RecalculateSleep, Handle, MInv, LettersOK, Fits
<1>2. /\ ticktimer' = start_sleep([k EXCEPT !.sleep_heap = H])
      /\ notifications_with_timeouts' = notifications_with_timeouts \ {s}
      /\ notify_table' = IF timedOut /\ inTable
                         THEN [notify_table EXCEPT ![msg.id] = Retain(@, s)] ELSE notify_table
      /\ failed' = failed
           \cup (IF timedOut /\ InHeap(k.sleep_heap, s) THEN {"still in the heap"} ELSE {})
           \cup (IF timedOut /\ ~inTable THEN {"not in the notify table"} ELSE {})
  BY DEF RecalculateSleep
<1>3. /\ \A t \in Threads : PutAway(t) => call[t].sender # s
      /\ \A i \in DOMAIN queue : ~Recalc(queue[i], s)
  BY <1>1 DEF MInv, AlarmFirst, PutAway
<1>4. \A r \in Requests : r.sender # s
  BY <1>3 DEF RequestsOK, AsksFor
<1>5. Stopped(k) /\ k.sleep_heap = Requests
  BY AlarmFacts, StopSleepStops
<1>6. H = Requests /\ ~InHeap(k.sleep_heap, s)
  BY <1>4, <1>5 DEF Without, InHeap
<1>7. \A c \in Condvars : In(notify_table[c], s) => timedOut /\ c = msg.id
  <2> TAKE c \in Condvars
  <2> HAVE In(notify_table[c], s)
  <2>1. s \in notifications_with_timeouts /\ Pending(s, c)
    BY <1>1, <1>3 DEF WaitersOK, WaitsFor
  <2> QED
    BY <2>1, <1>1, <1>3 DEF Pending
<1>8. timedOut => inTable
  <2> HAVE timedOut
  <2>1. PICK c \in Condvars : In(notify_table[c], s)
    BY DEF TimeoutsOK
  <2>2. c = msg.id
    BY <2>1, <1>7
  <2>3. notify_table[c] \in Seq(Senders)
    BY DEF TablesOK
  <2> QED
    BY <2>1, <2>2, <2>3, ContainsIn
<1>9. failed' = {}
  BY <1>2, <1>6, <1>8
<1>10. /\ notify_table' \in [Condvars -> Seq(Senders)]
       /\ \A c \in Condvars : /\ NoTwice(notify_table'[c])
                              /\ \A x : In(notify_table'[c], x) <=> In(notify_table[c], x) /\ x # s
  <2>1. notify_table \in [Condvars -> Seq(Senders)] /\ \A c \in Condvars : NoTwice(notify_table[c])
    BY DEF TablesOK, WaitersOK
  <2>2. CASE timedOut /\ inTable
    <3> DEFINE q == Retain(notify_table[msg.id], s)
    <3>1. q \in Seq(Senders) /\ NoTwice(q) /\ \A x : In(q, x) <=> In(notify_table[msg.id], x) /\ x # s
      BY <2>1, <2>2, RetainList
    <3>2. notify_table' = [notify_table EXCEPT ![msg.id] = q]
      BY <1>2, <2>2
    <3> HIDE DEF q
    <3>3. \A c \in Condvars : notify_table'[c] = IF c = msg.id THEN q ELSE notify_table[c]
      BY <3>2, <2>1
    <3>4. notify_table' \in [Condvars -> Seq(Senders)]
      BY <3>1, <3>2, <2>1
    <3> QED
      BY <3>1, <3>3, <3>4, <2>1, <1>7
  <2>3. CASE ~(timedOut /\ inTable)
    BY <2>1, <2>3, <1>2, <1>7, <1>8
  <2> QED
    BY <2>2, <2>3
<1> DEFINE p == [k EXCEPT !.sleep_heap = H]
<1>11. Stopped(p) /\ p.sleep_heap = Requests
  BY <1>5, <1>6, FewerStopped
<1>12. ticktimer' = start_sleep(p)
  BY <1>2
<1> HIDE DEF p
<1>13. Armed(ticktimer') /\ Requests' = Requests
  <2>1. Armed(ticktimer') /\ All(ticktimer') = Requests
    BY <1>11, <1>12, StartSleepArms
  <2> QED
    BY <2>1 DEF Requests, All
<1>14. call' = Answered({}) /\ {} \in SUBSET Senders
  BY <1>1, NobodyAnswered DEF MInv
<1>15. MInv'
  <2>1. Advanced({})
    BY <1>1 DEF Advanced
  <2> QED
    BY <1>1, <1>14, <2>1, HandledKeepsMInv
<1>17. AInv'
  BY <1>1, <1>13, ArmedKeepsAInv
<1>18. \A t \in Threads : PutAway(t)' <=> PutAway(t) /\ call[t].sender # s
  <2>1. \A x : Queued(x)' <=> Queued(x)
    BY <1>1 DEF Queued
  <2>2. msg.sender = NONE
    BY <1>1 DEF MInv, LettersOK, Fits, Owing, BlockingOps
  <2> QED
    BY <2>1, <2>2, <1>1, <1>3 DEF PutAway
<1>19. \A x, c : x # s => (Pending(x, c)' <=> Pending(x, c))
  BY <1>1 DEF Pending, Recalc
<1>20. \A m \in Mutexes : ~In(mutex_hash[m], s)
  BY <1>1, <1>3 DEF LockersOK, LocksFor
<1> HIDE DEF s
<1>21. SenderGone(s)
  BY <1>1, <1>2, <1>4, <1>10, <1>13, <1>18, <1>19, <1>20 DEF SenderGone, TablesOK, LockersOK
<1>22. CoreInv'
  BY <1>1, <1>21, GoneKeepsCore
<1>23. \A c \in Condvars, x \in Senders : In(notify_table'[c], x) =>
          In(notify_table[c], x) /\ ~Recalc(msg, x)
  BY <1>10 DEF Recalc, s
<1> QED
  BY <1>9, <1>15, <1>17, <1>22, <1>23

-----------------------------------------------------------------------------
(***************************************************************************)
(* The messages, one by one.                                               *)
(***************************************************************************)
\* What is left of the invariant after the tables of the waiting threads.
MACInv == MInv /\ AInv /\ CoreInv

LEMMA DoneMInv ==
    ASSUME MInv, NEW S \in SUBSET Senders, call' = Answered(S), queue' = queue, msg' = NONE
    PROVE  MInv'
<1>1. Advanced(S)
  BY DEF Advanced
<1> QED
  BY <1>1, HandledKeepsMInv

LEMMA DoneQuietly ==
    ASSUME MInv, AInv, NEW S \in SUBSET Senders, call' = Answered(S), queue' = queue, msg' = NONE,
           msg # NONE, msg.op \notin {"RecalculateSleep", "SleepMs", "notifying"},
           ticktimer' = ticktimer
    PROVE  MInv' /\ AInv' /\ Requests' = Requests
<1>0. TimerKept
  BY DEF TimerKept, AInv
<1>1. MInv'
  BY DoneMInv
<1>3. Recalculating => Recalculating'
  BY DEF Recalculating
<1>4. Resuming => Resuming'
  BY SuspendedNotAnswered DEF Resuming, MInv
<1>5. Looping' <=> Looping
  BY DEF Looping
<1>6. AInv'
  BY <1>0, <1>3, <1>4, <1>5, QuietKeepsAInv
<1>7. Requests' = Requests
  BY DEF Requests
<1> QED
  BY <1>1, <1>6, <1>7

LEMMA DoneArmed ==
    ASSUME MInv, AInv, NEW S \in SUBSET Senders, call' = Answered(S), queue' = queue, msg' = NONE,
           Armed(ticktimer')
    PROVE  MInv' /\ AInv' /\ Requests' = All(ticktimer')
<1>1. MInv'
  BY DoneMInv
<1>3. AInv'
  BY ArmedKeepsAInv
<1>4. Requests' = All(ticktimer')
  BY DEF Requests, All
<1> QED
  BY <1>1, <1>3, <1>4

LEMMA ElapsedMsKeeps ==
    ASSUME MACInv, ElapsedMs
    PROVE  MACInv' /\ CoreSame
<1> USE DEF MACInv
<1>1. /\ msg # NONE /\ msg.op = "ElapsedMs" /\ msg' = NONE /\ queue' = queue /\ Answer({msg.sender})
      /\ ticktimer' = ticktimer /\ notifications_with_timeouts' = notifications_with_timeouts
      /\ notify_table' = notify_table /\ mutex_hash' = mutex_hash
  BY DEF ElapsedMs, Handle, tables
<1>2. msg.sender \in Senders
  BY <1>1 DEF MInv, LettersOK, Fits, Owing, BlockingOps, Letter
<1>3. call' = Answered({msg.sender}) /\ {msg.sender} \in SUBSET Senders
      /\ {msg.sender} = {s \in Senders : s = msg.sender}
  BY <1>1, <1>2, AnswerIs
<1>4. MInv' /\ AInv' /\ Requests' = Requests
  BY <1>1, <1>3, DoneQuietly
<1>5. CoreSame
  BY <1>1, <1>3, HandledSame
<1> QED
  BY <1>1, <1>4, <1>5, SameKeepsCore

LEMMA SleepMsKeeps ==
    ASSUME MACInv, SleepMs
    PROVE  MACInv'
<1> USE DEF MACInv
<1> DEFINE r == [msec |-> msg.arg, sender |-> msg.sender, kind |-> "Sleep", data |-> NONE]
<1>1. /\ msg # NONE /\ msg.op = "SleepMs" /\ msg' = NONE /\ queue' = queue /\ call' = call
      /\ ticktimer' = recalculate_sleep(ticktimer, r)
      /\ notifications_with_timeouts' = notifications_with_timeouts
      /\ notify_table' = notify_table /\ mutex_hash' = mutex_hash
  BY DEF SleepMs, Handle, tables
<1>2. msg.sender \in Senders /\ msg.arg \in Nat /\ msg.arg > 0 /\ msg.op \in Owing /\ msg.op \in BlockingOps
  BY <1>1 DEF MInv, LettersOK, Fits, Owing, BlockingOps, Letter
<1>3. r \in TimerRequest
  BY <1>2 DEF TimerRequest
<1>4. PICK n \in Int : /\ n >= r.msec
                       /\ All(recalculate_sleep(ticktimer, r)) = All(ticktimer) \cup {[r EXCEPT !.msec = n]}
  BY <1>3, AlarmFacts, RecalculateArms
<1>5. Armed(ticktimer')
  BY <1>1, <1>3, AlarmFacts, RecalculateArms
<1> DEFINE x == [r EXCEPT !.msec = n]
<1>6. x \in TimerRequest /\ x.sender = msg.sender /\ x.msec >= msg.arg /\ x.data = NONE
  BY <1>2, <1>4 DEF TimerRequest
<1> HIDE DEF x
<1>7. All(ticktimer') = Requests \cup {x}
  BY <1>1, <1>4, AlarmFacts DEF x
<1>8. call' = Answered({}) /\ {} \in SUBSET Senders
  BY <1>1, NobodyAnswered DEF MInv
<1>9. MInv' /\ AInv' /\ Requests' = Requests \cup {x}
  BY <1>1, <1>5, <1>7, <1>8, DoneArmed
<1>10. PICK w \in Threads : Sent(w, msg)
  BY <1>1, <1>2 DEF MInv, SentOK
<1>11. PutsAway(w)
  BY <1>1, <1>2, <1>10 DEF PutsAway
<1> QED
  BY <1>1, <1>2, <1>6, <1>9, <1>11, SleepKeepsCore

LEMMA WaitForConditionKeeps ==
    ASSUME MACInv, WaitForCondition
    PROVE  MACInv'
<1> USE DEF MACInv
<1> DEFINE r == [msec |-> msg.arg, sender |-> msg.sender, kind |-> "Timeout", data |-> msg.id]
<1>1. /\ msg # NONE /\ msg.op = "WaitForCondition" /\ msg' = NONE /\ queue' = queue /\ call' = call
      /\ notify_table' = [notify_table EXCEPT ![msg.id] = Append(@, msg.sender)]
      /\ mutex_hash' = mutex_hash
  BY DEF WaitForCondition, Handle
<1>2. /\ msg.sender \in Senders /\ msg.arg \in Nat /\ msg.op \in Owing /\ msg.op \in BlockingOps
      /\ msg.id \in Condvars
  BY <1>1 DEF MInv, LettersOK, Fits, Owing, BlockingOps, ConditionOps, Letter
<1>3. call' = Answered({}) /\ {} \in SUBSET Senders
  BY <1>1, NobodyAnswered DEF MInv
<1>4. PICK w \in Threads : Sent(w, msg)
  BY <1>1, <1>2 DEF MInv, SentOK
<1>5. PutsAway(w)
  BY <1>1, <1>2, <1>4 DEF PutsAway
<1>6. CASE msg.arg = 0
  <2>1. ticktimer' = ticktimer /\ notifications_with_timeouts' = notifications_with_timeouts
    BY <1>6 DEF WaitForCondition
  <2>2. MInv' /\ AInv' /\ Requests' = Requests
    BY <2>1, <1>1, <1>3, DoneQuietly
  <2>3. CoreInv'
    BY <2>1, <2>2, <1>1, <1>5, <1>6, WaitKeepsCore
  <2> QED
    BY <2>2, <2>3
<1>7. CASE msg.arg # 0
  <2>1. /\ ticktimer' = recalculate_sleep(ticktimer, r)
        /\ notifications_with_timeouts' = notifications_with_timeouts \cup {msg.sender}
    BY <1>7 DEF WaitForCondition
  <2>2. r \in TimerRequest
    BY <1>2 DEF TimerRequest
  <2>3. PICK n \in Int : /\ n >= r.msec
                         /\ All(recalculate_sleep(ticktimer, r)) = All(ticktimer) \cup {[r EXCEPT !.msec = n]}
    BY <2>2, AlarmFacts, RecalculateArms
  <2>4. Armed(ticktimer')
    BY <2>1, <2>2, AlarmFacts, RecalculateArms
  <2> DEFINE x == [r EXCEPT !.msec = n]
  <2>5. x \in TimerRequest /\ x.sender = msg.sender /\ x.msec >= msg.arg /\ x.data = msg.id
    BY <1>2, <2>3 DEF TimerRequest
  <2> HIDE DEF x
  <2>6. All(ticktimer') = Requests \cup {x}
    BY <2>1, <2>3, AlarmFacts DEF x
  <2>7. MInv' /\ AInv' /\ Requests' = Requests \cup {x}
    BY <1>1, <1>3, <2>4, <2>6, DoneArmed
  <2>8. msg.arg > 0
    BY <1>2, <1>7
  <2>9. CoreInv'
    BY <2>1, <2>5, <2>7, <2>8, <1>1, <1>5, WaitKeepsCore
  <2> QED
    BY <2>7, <2>9
<1> QED
  BY <1>6, <1>7

LEMMA LockMutexKeeps ==
    ASSUME MACInv, LockMutex
    PROVE  MACInv'
<1> USE DEF MACInv
<1>1. /\ msg # NONE /\ msg.op = "LockMutex" /\ msg' = NONE /\ queue' = queue
      /\ ticktimer' = ticktimer /\ notifications_with_timeouts' = notifications_with_timeouts
      /\ notify_table' = notify_table
  BY DEF LockMutex, Handle
<1>2. msg.sender \in Senders /\ msg.op \in Owing /\ msg.op \in BlockingOps
  BY <1>1 DEF MInv, LettersOK, Fits, Owing, BlockingOps, Letter
<1>3. CASE msg.id \in mutex_ready_table
  <2>1. Answer({msg.sender}) /\ mutex_hash' = mutex_hash
    BY <1>3 DEF LockMutex
  <2>2. call' = Answered({msg.sender}) /\ {msg.sender} \in SUBSET Senders
        /\ {msg.sender} = {s \in Senders : s = msg.sender}
    BY <2>1, <1>2, AnswerIs
  <2>3. MInv' /\ AInv' /\ Requests' = Requests
    BY <1>1, <2>2, DoneQuietly
  <2>4. CoreSame
    BY <1>1, <2>2, HandledSame
  <2> QED
    BY <1>1, <2>1, <2>3, <2>4, SameKeepsCore
<1>4. CASE msg.id \notin mutex_ready_table
  <2>1. call' = call /\ mutex_hash' = [mutex_hash EXCEPT ![msg.id] = Append(@, msg.sender)]
    BY <1>4 DEF LockMutex
  <2>2. call' = Answered({}) /\ {} \in SUBSET Senders
    BY <2>1, NobodyAnswered DEF MInv
  <2>3. MInv' /\ AInv' /\ Requests' = Requests
    BY <1>1, <2>2, DoneQuietly
  <2>4. PICK w \in Threads : Sent(w, msg)
    BY <1>1, <1>2 DEF MInv, SentOK
  <2>5. PutsAway(w)
    BY <1>1, <1>2, <2>1, <2>4 DEF PutsAway
  <2> QED
    BY <1>1, <2>1, <2>3, <2>5, LockKeepsCore
<1> QED
  BY <1>3, <1>4

\* The head of the list of a mutex is the sender of a thread that waits for it.
LEMMA FirstLocker ==
    ASSUME MACInv, NEW m \in Mutexes, mutex_hash[m] # <<>>
    PROVE  /\ Head(mutex_hash[m]) \in Senders /\ IsToken(Head(mutex_hash[m]))
           /\ \E w \in Threads : LocksFor(w, m, Head(mutex_hash[m]))
<1>1. Head(mutex_hash[m]) \in Senders /\ In(mutex_hash[m], Head(mutex_hash[m]))
  BY TailList DEF MACInv, CoreInv, TablesOK, LockersOK
<1>2. PICK w \in Threads : LocksFor(w, m, Head(mutex_hash[m]))
  BY <1>1 DEF MACInv, CoreInv, LockersOK
<1>3. IsToken(Head(mutex_hash[m]))
  BY <1>2 DEF LocksFor, PutAway, IsToken
<1> QED
  BY <1>1, <1>2, <1>3

LEMMA UnlockMutexKeeps ==
    ASSUME MACInv, UnlockMutex
    PROVE  MACInv'
<1> USE DEF MACInv
<1> DEFINE m == msg.id
<1>1. /\ msg # NONE /\ msg.op = "UnlockMutex" /\ msg' = NONE /\ queue' = queue
      /\ ticktimer' = ticktimer /\ notifications_with_timeouts' = notifications_with_timeouts
      /\ notify_table' = notify_table
  BY DEF UnlockMutex, Handle
<1>2. m \in Mutexes /\ msg.sender = NONE
  BY <1>1 DEF MInv, LettersOK, Fits, Owing, BlockingOps, MutexOps
<1>3. CASE mutex_hash[m] # <<>>
  <2> DEFINE s == Head(mutex_hash[m])
  <2>1. Answer({s}) /\ mutex_hash' = [mutex_hash EXCEPT ![m] = Tail(@)]
    BY <1>3 DEF UnlockMutex
  <2>2. s \in Senders
    BY <1>2, <1>3, FirstLocker
  <2>3. PICK w \in Threads : LocksFor(w, m, s)
    BY <1>2, <1>3, FirstLocker
  <2>4. call' = Answered({s}) /\ {s} \in SUBSET Senders
    BY <2>1, <2>2, AnswerIs
  <2>5. MInv' /\ AInv' /\ Requests' = Requests
    BY <1>1, <2>4, DoneQuietly
  <2>6. \A x : Queued(x)' <=> Queued(x)
    BY <1>1 DEF Queued
  <2>7. \A x, c : Pending(x, c)' <=> Pending(x, c)
    BY <1>1 DEF Pending, Recalc
  <2>8. Leaves(w) /\ call[w].sender = s /\ call[w].op = "LockMutex"
    BY <1>1, <1>2, <2>3, <2>4, <2>6, TicktimerAssumption DEF Leaves, LocksFor
  <2> HIDE DEF m
  <2>9. CoreInv'
    BY <1>1, <1>2, <1>3, <2>1, <2>5, <2>7, <2>8, UnlockKeepsCore
  <2> QED
    BY <2>5, <2>9
<1>4. CASE mutex_hash[m] = <<>>
  <2>1. call' = call /\ mutex_hash' = mutex_hash
    BY <1>4 DEF UnlockMutex
  <2>2. call' = Answered({}) /\ {} \in SUBSET Senders /\ {} = {s \in Senders : s = msg.sender}
    BY <2>1, <1>2, NobodyAnswered, TicktimerAssumption DEF MInv
  <2>3. MInv' /\ AInv' /\ Requests' = Requests
    BY <1>1, <2>2, DoneQuietly
  <2>4. CoreSame
    BY <1>1, <2>2, HandledSame
  <2> QED
    BY <1>1, <2>1, <2>3, <2>4, SameKeepsCore
<1> QED
  BY <1>3, <1>4

LEMMA FreeMutexKeeps ==
    ASSUME MACInv, LInv, failed = {}, FreeMutex
    PROVE  MACInv' /\ CoreSame /\ mutex_hash' = mutex_hash /\ mutex_ready_table' = mutex_ready_table
           /\ failed' = {}
<1> USE DEF MACInv
<1>1. /\ msg # NONE /\ msg.op = "FreeMutex" /\ msg' = NONE /\ queue' = queue /\ call' = call
      /\ ticktimer' = ticktimer /\ notifications_with_timeouts' = notifications_with_timeouts
      /\ notify_table' = notify_table
      /\ mutex_hash' = [mutex_hash EXCEPT ![msg.id] = <<>>]
      /\ mutex_ready_table' = mutex_ready_table \ {msg.id}
      /\ failed' = failed
           \cup (IF mutex_hash[msg.id] # <<>> THEN {"freed while awaited"} ELSE {})
           \cup (IF msg.id \in mutex_ready_table THEN {"freed while ready"} ELSE {})
  BY DEF FreeMutex, Handle
<1>2. mutex_hash[msg.id] = <<>> /\ msg.id \notin mutex_ready_table
  BY <1>1 DEF LInv, FreedMutexOK
<1>3. mutex_hash' = mutex_hash /\ mutex_ready_table' = mutex_ready_table /\ failed' = {}
  <2>1. mutex_hash \in [Mutexes -> Seq(Senders)]
    BY DEF CoreInv, TablesOK
  <2> QED
    BY <1>1, <1>2, <2>1
<1>4. call' = Answered({}) /\ {} \in SUBSET Senders
  BY <1>1, NobodyAnswered DEF MInv
<1>5. MInv' /\ AInv' /\ Requests' = Requests
  BY <1>1, <1>4, DoneQuietly
<1>6. msg.sender = NONE /\ {} = {s \in Senders : s = msg.sender}
  BY <1>1, TicktimerAssumption DEF MInv, LettersOK, Fits, Owing, BlockingOps
<1>7. CoreSame
  BY <1>1, <1>4, <1>6, HandledSame
<1> QED
  BY <1>1, <1>3, <1>5, <1>7, SameKeepsCore

LEMMA NotifyConditionKeeps ==
    ASSUME MACInv, NotifyCondition
    PROVE  MACInv' /\ CoreSame /\ LoopOK'
<1> USE DEF MACInv
<1> DEFINE awaiting == Len(notify_table[msg.id])
           n == IF msg.arg = 0 \/ msg.arg > awaiting THEN awaiting ELSE msg.arg
<1>1. /\ msg # NONE /\ msg.op = "NotifyCondition" /\ queue' = queue /\ call' = call
      /\ msg' = [msg EXCEPT !.op = "notifying", !.arg = n]
      /\ ticktimer' = stop_sleep(ticktimer)
      /\ notifications_with_timeouts' = notifications_with_timeouts
      /\ notify_table' = notify_table /\ mutex_hash' = mutex_hash
  BY DEF NotifyCondition, tables
<1>2. /\ msg \in Letter /\ msg.id \in Condvars /\ msg.sender \in Senders /\ msg.sender # NONE
      /\ msg.arg \in Nat
  BY <1>1, TicktimerAssumption DEF MInv, LettersOK, Fits, Owing, BlockingOps, ConditionOps, Letter
<1>3. awaiting \in Nat
  BY <1>2 DEF CoreInv, TablesOK
<1>4. n \in Nat /\ n <= awaiting
  BY <1>2, <1>3
<1> HIDE DEF n
<1>5. /\ msg' \in Letter /\ msg'.op = "notifying" /\ msg'.sender = msg.sender /\ msg'.id = msg.id
      /\ msg'.arg = n
  BY <1>1, <1>2, <1>4 DEF Letter, LoopOps
<1>6. Fits(msg') /\ msg' # NONE
  BY <1>2, <1>5, TicktimerAssumption DEF Fits, Owing, ConditionOps, MutexOps
<1>7. call' = Answered({}) /\ {} \in SUBSET Senders
  BY <1>1, NobodyAnswered DEF MInv
<1>8. MInv'
  <2>1. Advanced({})
    BY <1>1, <1>5, <1>6 DEF Advanced
  <2> QED
    BY <1>1, <1>7, <2>1, HandledKeepsMInv
<1>9. Stopped(ticktimer') /\ ticktimer'.sleep_heap = Requests
  BY <1>1, AlarmFacts, StopSleepStops
<1>11. AInv'
  BY <1>5, <1>6, <1>9, StoppedKeepsAInv
<1>12. Requests' = Requests
  <2>1. Requests \subseteq TimerRequest
    BY <1>9 DEF Stopped, Timer
  <2> QED
    BY <1>9, <2>1, RequestFacts DEF Requests, Stopped
<1>13. CoreSame
  BY <1>1, <1>5, <1>6, <1>7, HandledSame
<1>14. CoreInv'
  BY <1>1, <1>12, <1>13, SameKeepsCore
<1>15. LoopOK'
  BY <1>1, <1>4, <1>5 DEF LoopOK
<1> QED
  BY <1>8, <1>11, <1>13, <1>14, <1>15

LEMMA NotifyEndKeeps ==
    ASSUME MACInv, NotifyEnd
    PROVE  MACInv' /\ CoreSame
<1> USE DEF MACInv
<1>1. /\ msg # NONE /\ msg.op = "notifying" /\ msg' = NONE /\ queue' = queue /\ Answer({msg.sender})
      /\ ticktimer' = start_sleep(ticktimer)
      /\ notifications_with_timeouts' = notifications_with_timeouts
      /\ notify_table' = notify_table /\ mutex_hash' = mutex_hash
  BY DEF NotifyEnd, Handle, tables
<1>2. msg.sender \in Senders
  BY <1>1 DEF MInv, LettersOK, Fits, Owing, Letter
<1>3. call' = Answered({msg.sender}) /\ {msg.sender} \in SUBSET Senders
      /\ {msg.sender} = {s \in Senders : s = msg.sender}
  BY <1>1, <1>2, AnswerIs
<1>4. Stopped(ticktimer)
  BY <1>1, AlarmFacts DEF AInv, AlarmIsSet, Stopped, TimerOK
<1>5. Requests = ticktimer.sleep_heap
  BY <1>4, RequestFacts DEF Requests, Stopped, Timer
<1>6. Armed(ticktimer') /\ All(ticktimer') = Requests
  BY <1>1, <1>4, <1>5, StartSleepArms
<1>7. MInv' /\ AInv' /\ Requests' = Requests
  BY <1>1, <1>3, <1>6, DoneArmed
<1>8. CoreSame
  BY <1>1, <1>3, HandledSame
<1> QED
  BY <1>1, <1>7, <1>8, SameKeepsCore

\* Nobody is in the list of a condition that is freed.
LEMMA FreeConditionKeeps ==
    ASSUME MACInv, FreedOK, failed = {}, FreeCondition
    PROVE  /\ MACInv' /\ CoreSame /\ notify_table' = notify_table /\ call' = call
           /\ lock' = LocksAfter({}) /\ failed' = {}
<1> USE DEF MACInv
<1> DEFINE k        == stop_sleep(ticktimer)
           awaiting == ToSet(notify_table[msg.id])
           timed    == awaiting \cap notifications_with_timeouts
           answered == {e \in timed : ~InHeap(k.sleep_heap, e)}
           p == [k EXCEPT !.sleep_heap = {r \in @ : r.sender \notin timed}]
<1>1. /\ msg # NONE /\ msg.op = "FreeCondition" /\ msg' = NONE /\ queue' = queue
      /\ ticktimer' = start_sleep(p)
      /\ notifications_with_timeouts' = notifications_with_timeouts \ timed
      /\ Answer(awaiting \ answered)
      /\ failed' = failed
           \cup (IF \E e \in timed : TwoTimeouts(k.sleep_heap, e) THEN {"two timeouts"} ELSE {})
           \cup (IF \E e \in timed : (last_responder = e) # (e \in answered)
                 THEN {"last response"} ELSE {})
      /\ notify_table' = [notify_table EXCEPT ![msg.id] = <<>>]
      /\ mutex_hash' = mutex_hash
  BY DEF FreeCondition, Handle
<1>2. notify_table[msg.id] = <<>>
  BY <1>1 DEF FreedOK
<1>3. awaiting = {} /\ timed = {} /\ answered = {}
  BY <1>2 DEF ToSet
<1>4. /\ notifications_with_timeouts' = notifications_with_timeouts /\ Answer({}) /\ failed' = {}
  <2>1. awaiting \ answered = {}
    BY <1>3
  <2> HIDE DEF awaiting, answered
  <2>2. Answer({})
    BY <1>1, <2>1
  <2> QED
    BY <1>1, <1>3, <2>2
<1>5. notify_table' = notify_table
  BY <1>1, <1>2 DEF CoreInv, TablesOK
<1>6. Stopped(k) /\ k.sleep_heap = Requests
  BY AlarmFacts, StopSleepStops
<1>7. {r \in k.sleep_heap : r.sender \notin timed} = k.sleep_heap
  BY <1>3
<1>8. Stopped(p) /\ p.sleep_heap = Requests
  <2> DEFINE H == {r \in k.sleep_heap : r.sender \notin timed}
  <2>1. H \in SUBSET k.sleep_heap /\ p = [k EXCEPT !.sleep_heap = H]
    OBVIOUS
  <2> HIDE DEF H
  <2> QED
    BY <1>6, <1>7, <2>1, FewerStopped DEF H
<1> HIDE DEF p
<1>9. Armed(ticktimer') /\ All(ticktimer') = Requests
  BY <1>1, <1>8, StartSleepArms
<1>10. call' = Answered({}) /\ call' = call /\ lock' = LocksAfter({}) /\ {} \in SUBSET Senders
  BY <1>4, AnswerIs, NobodyAnswered DEF MInv
<1>11. MInv' /\ AInv' /\ Requests' = Requests
  BY <1>1, <1>9, <1>10, DoneArmed
<1>12. msg.sender = NONE /\ {} = {s \in Senders : s = msg.sender}
  BY <1>1, TicktimerAssumption DEF MInv, LettersOK, Fits, Owing, BlockingOps
<1>13. CoreSame
  BY <1>1, <1>10, <1>12, HandledSame
<1>14. CoreInv'
  BY <1>1, <1>4, <1>5, <1>11, <1>13, SameKeepsCore
<1> QED
  BY <1>4, <1>5, <1>10, <1>11, <1>13, <1>14

LEMMA SuspendKeeps ==
    ASSUME MACInv, Suspend
    PROVE  MACInv' /\ CoreSame
<1> USE DEF MACInv
<1>1. /\ msg # NONE /\ msg.op = "SuspendResume" /\ queue' = queue /\ call' = call
      /\ msg' = [msg EXCEPT !.op = "resume"]
      /\ notifications_with_timeouts' = notifications_with_timeouts
      /\ notify_table' = notify_table /\ mutex_hash' = mutex_hash
  BY DEF Suspend, tables
<1> DEFINE b == \A t \in Threads : call[t].op # "Suspend"
<1>0. ticktimer' = [ticktimer EXCEPT !.enabled = FALSE, !.left_off = b] /\ b \in BOOLEAN
  BY DEF Suspend
<1> HIDE DEF b
<1>2. msg \in Letter /\ msg.sender = NONE
  BY <1>1 DEF MInv, LettersOK, Fits, Owing, BlockingOps
<1>3. msg' \in Letter /\ msg'.op = "resume" /\ msg'.sender = NONE
  BY <1>1, <1>2 DEF Letter, LoopOps
<1>4. Fits(msg') /\ msg' # NONE
  BY <1>3, TicktimerAssumption DEF Fits, Owing, BlockingOps, ConditionOps, MutexOps
<1>5. call' = Answered({}) /\ {} \in SUBSET Senders
  BY <1>1, NobodyAnswered DEF MInv
<1>6. MInv'
  <2>1. Advanced({})
    BY <1>1, <1>3, <1>4 DEF Advanced
  <2> QED
    BY <1>1, <1>5, <2>1, HandledKeepsMInv
<1>7. CoreSame
  BY <1>1, <1>2, <1>3, <1>4, <1>5, HandledSame
<1>8. /\ ticktimer' \in Timer /\ ~ticktimer'.enabled
      /\ ticktimer'.sleep_heap = ticktimer.sleep_heap
      /\ ticktimer'.current_response = ticktimer.current_response
      /\ ticktimer'.pending = ticktimer.pending /\ ticktimer'.target = ticktimer.target
      /\ ticktimer'.left_off = b
  BY <1>0 DEF AInv, Timer
<1>9. Requests' = Requests
  BY <1>8 DEF Requests
<1>10. Resuming' \/ b
  BY <1>1 DEF Resuming, b
<1>12. Recalculating => Recalculating'
  BY <1>1, <1>3 DEF Recalculating
<1>13. AlarmIsSet'
  BY <1>1, <1>3, <1>8, <1>10, <1>12 DEF AInv, AlarmIsSet
<1>14. AInv'
  BY <1>3, <1>8, <1>13 DEF AInv
<1>15. CoreInv'
  BY <1>1, <1>7, <1>9, SameKeepsCore
<1> QED
  BY <1>6, <1>7, <1>14, <1>15

LEMMA ResumeKeeps ==
    ASSUME MACInv, Resume
    PROVE  MACInv' /\ CoreSame
<1> USE DEF MACInv
<1>1. /\ msg # NONE /\ msg.op = "resume" /\ queue' = queue /\ call' = call /\ msg' = NONE
      /\ ticktimer' = [ticktimer EXCEPT !.pending = @ /\ ticktimer.target <= 0]
      /\ notifications_with_timeouts' = notifications_with_timeouts
      /\ notify_table' = notify_table /\ mutex_hash' = mutex_hash
  BY DEF Resume, Handle, tables
<1>2. call' = Answered({}) /\ {} \in SUBSET Senders
  BY <1>1, NobodyAnswered DEF MInv
<1>3. MInv'
  BY <1>1, <1>2, DoneMInv
<1>4. msg.sender = NONE /\ {} = {s \in Senders : s = msg.sender}
  BY <1>1, TicktimerAssumption DEF MInv, LettersOK, Fits, Owing, BlockingOps
<1>5. CoreSame
  BY <1>1, <1>2, <1>4, HandledSame
<1> DEFINE b == ticktimer.pending /\ ticktimer.target <= 0
<1>6. b \in BOOLEAN
  OBVIOUS
<1>7. ticktimer' = [ticktimer EXCEPT !.pending = b]
  BY <1>1
<1>8. ticktimer.current_response # NONE => (b <=> ticktimer.pending)
  BY DEF AInv, AlarmIsSet
<1> HIDE DEF b
<1>9. /\ ticktimer' \in Timer /\ ticktimer'.enabled = ticktimer.enabled
      /\ ticktimer'.sleep_heap = ticktimer.sleep_heap
      /\ ticktimer'.current_response = ticktimer.current_response
      /\ (ticktimer'.pending <=> b) /\ ticktimer'.target = ticktimer.target
      /\ ticktimer'.left_off = ticktimer.left_off
  BY <1>6, <1>7 DEF AInv, Timer
<1>10. Requests' = Requests
  BY <1>9 DEF Requests
<1>12. Recalculating => Recalculating'
  BY <1>1 DEF Recalculating
<1>13. Resuming => Resuming'
  BY <1>1 DEF Resuming
<1>14. AlarmIsSet'
  BY <1>1, <1>8, <1>9, <1>12, <1>13 DEF AInv, AlarmIsSet
<1>15. AInv'
  BY <1>1, <1>9, <1>14 DEF AInv
<1>16. CoreInv'
  BY <1>1, <1>5, <1>10, SameKeepsCore
<1> QED
  BY <1>3, <1>5, <1>15, <1>16

LEMMA ReceiveKeeps ==
    ASSUME MACInv, Receive
    PROVE  MACInv' /\ CoreSame
<1> USE DEF MACInv
<1>1. /\ msg = NONE /\ queue # <<>> /\ msg' = Head(queue) /\ queue' = Tail(queue)
      /\ call' = call /\ ticktimer' = ticktimer
      /\ notifications_with_timeouts' = notifications_with_timeouts
      /\ notify_table' = notify_table /\ mutex_hash' = mutex_hash
  BY DEF Receive, timer, tables
<1>2. MInv'
  BY ReceiveKeepsMInv
<1>3. CoreSame
  BY ReceiveSame
<1>4. /\ msg' = queue[1] /\ msg' # NONE /\ Len(queue) \in Nat \ {0} /\ DOMAIN queue = 1 .. Len(queue)
      /\ DOMAIN queue' = 1 .. Len(queue) - 1
      /\ \A i \in DOMAIN queue' : queue'[i] = queue[i + 1]
  BY <1>1, TailFacts, TicktimerAssumption DEF MInv, LettersOK
<1>5. \A op : (\E i \in DOMAIN queue : queue[i].op = op)
              => msg'.op = op \/ \E i \in DOMAIN queue' : queue'[i].op = op
  <2> SUFFICES ASSUME NEW i \in DOMAIN queue, i # 1
               PROVE  i - 1 \in DOMAIN queue' /\ queue'[i - 1] = queue[i]
    BY <1>4
  <2> QED
    BY <1>4
<1>6. \A op : msg'.op = op \/ (\E i \in DOMAIN queue' : queue'[i].op = op)
              => \E i \in DOMAIN queue : queue[i].op = op
  <2>1. 1 \in DOMAIN queue
    BY <1>4
  <2>2. \A i \in DOMAIN queue' : i + 1 \in DOMAIN queue
    BY <1>4
  <2> QED
    BY <1>4, <2>1, <2>2
<1>7. (Recalculating => Recalculating') /\ (Resuming => Resuming')
  BY <1>1, <1>4, <1>5 DEF Recalculating, Resuming
<1>8. Looping' <=> Looping
  <2>1. msg'.op # "notifying"
    BY <1>1, <1>4 DEF MInv, LettersOK
  <2> QED
    BY <1>1, <2>1 DEF Looping
<1>9. TimerKept
  BY <1>1 DEF TimerKept, AInv
<1>10. AInv'
  BY <1>7, <1>8, <1>9, QuietKeepsAInv
<1>11. CoreInv'
  <2>1. Requests' = Requests
    BY <1>1 DEF Requests
  <2> QED
    BY <1>1, <1>3, <2>1, SameKeepsCore
<1> QED
  BY <1>2, <1>3, <1>10, <1>11

LEMMA TickKeeps ==
    ASSUME MACInv, Tick
    PROVE  MACInv'
<1> USE DEF MACInv
<1>1. queue' = queue /\ msg' = msg
  BY DEF Tick
<1>2. AInv' /\ SameCalls
  BY TickKeepsAInv
<1>3. MInv'
  BY <1>1, <1>2, TimeKeepsMInv
<1> QED
  BY <1>2, <1>3, TickKeepsCore

-----------------------------------------------------------------------------
(***************************************************************************)
(* The callers.                                                            *)
(***************************************************************************)
Quiet == TimerKept /\ UNCHANGED tables /\ failed' = failed /\ msg' = msg

\* The thread t is now blocked in a call whose message is m.
Sends(t, m) ==
    /\ call[t].sender = NONE
    /\ m \in Letter /\ Fits(m) /\ m.op \in BlockingOps /\ m.sender \in Unused
    /\ queue' = Append(queue, m) /\ Quiet
    /\ call'[t].op = m.op /\ call'[t].id = m.id /\ call'[t].sender = m.sender
    /\ \A u \in Threads : u # t => call'[u] = call[u]

\* The message m is sent, and nobody waits for an answer to it.
Posts(m) ==
    /\ m \in Letter /\ Fits(m) /\ m.op \in PostedOps
    /\ queue' = Append(queue, m) /\ Quiet
    /\ call' = call

LEMMA SendIs ==
    ASSUME MInv, AInv, NEW t \in Threads, call[t].sender = NONE, NEW op \in BlockingOps,
           NEW id \in Condvars \cup Mutexes \cup {NONE}, NEW arg \in Nat,
           op \in ConditionOps => id \in Condvars, op \in MutexOps => id \in Mutexes,
           op = "SleepMs" => arg > 0, SendBlocking(t, op, id, arg)
    PROVE  MInv' /\ \E m : Sends(t, m) /\ m.op = op /\ m.id = id
<1> DEFINE s == CHOOSE s \in Unused : \A o \in Unused : s <= o
           b == op \in TimedOps /\ arg > 0
           d == IF op \in TimedOps THEN arg ELSE 0
           c == [op |-> op, id |-> id, sender |-> s, timed |-> b, due |-> d]
           m == Message(op, s, id, arg)
<1>1. /\ ~QueueFull /\ call' = [call EXCEPT ![t] = c] /\ queue' = Append(queue, m)
      /\ Quiet
  BY DEF SendBlocking, Quiet, timer, TimerKept, AInv
<1>2. s \in Unused
  BY <1>1, FreeSender
<1> HIDE DEF s
<1>3. s \in Senders /\ s # NONE
  BY <1>2, TicktimerAssumption DEF Unused
<1>4. b \in BOOLEAN /\ d \in Nat
  OBVIOUS
<1>5. (op \in TimedOps => d = arg /\ (b <=> arg > 0)) /\ (op \notin TimedOps => ~b)
  OBVIOUS
<1> HIDE DEF b, d
<1>6. c \in Call /\ c.op = op /\ c.id = id /\ c.sender = s /\ c.timed = b /\ c.due = d
  BY <1>3, <1>4 DEF Call
<1>7. m \in Letter /\ m.op = op /\ m.id = id /\ m.sender = s /\ m.arg = arg
  BY <1>3 DEF Message, Letter
<1> HIDE DEF c, m
<1>8. Fits(m)
  <2>1. m.op # "RecalculateSleep"
    BY <1>7 DEF BlockingOps
  <2> QED
    BY <1>3, <1>7, <2>1 DEF Fits, Owing
<1>9. msg' = msg
  BY <1>1 DEF Quiet
<1>10. MInv'
  BY <1>1, <1>2, <1>5, <1>6, <1>7, <1>8, <1>9, SendKeepsMInv
<1>11. call'[t] = c /\ \A u \in Threads : u # t => call'[u] = call[u]
  BY <1>1 DEF MInv, CallsOK
<1>12. Sends(t, m)
  BY <1>1, <1>2, <1>6, <1>7, <1>8, <1>11 DEF Sends
<1> QED
  BY <1>7, <1>10, <1>12

\* What a message that is appended does to what is on its way.
LEMMA AppendKeepsAInv ==
    ASSUME MACInv, NEW m \in Letter, queue' = Append(queue, m), Quiet,
           \A u \in Threads : call[u].op = "Suspend" => call'[u].op = "Suspend" \/ m.op = "SleepMs"
    PROVE  AInv' /\ Requests' = Requests
<1> USE DEF MACInv
<1>1. TimerKept /\ msg' = msg
  BY DEF Quiet
<1>2. /\ queue'[Len(queue) + 1] = m /\ DOMAIN queue \subseteq DOMAIN queue'
      /\ Len(queue) + 1 \in DOMAIN queue'
      /\ \A i \in DOMAIN queue : queue'[i] = queue[i]
      /\ \A i \in DOMAIN queue' : i # Len(queue) + 1 => i \in DOMAIN queue
  BY AppendedQueue DEF MInv
<1>3. Recalculating => Recalculating'
  BY <1>1, <1>2 DEF Recalculating
<1>4. Resuming => Resuming'
  BY <1>1, <1>2 DEF Resuming
<1>5. Looping' <=> Looping
  BY <1>1 DEF Looping
<1> QED
  BY <1>1, <1>3, <1>4, <1>5, QuietKeepsAInv, KeptRequests

LEMMA SendsKeeps ==
    ASSUME MACInv, MInv', NEW t \in Threads, NEW m, Sends(t, m),
           call[t].op = "Suspend" => m.op = "SleepMs"
    PROVE  MACInv' /\ CoreSame
<1> USE DEF MACInv
<1>1. /\ m \in Letter /\ m.op # "RecalculateSleep" /\ queue' = Append(queue, m)
      /\ Quiet
  BY DEF Sends, BlockingOps
<1>2. AInv' /\ Requests' = Requests
  BY <1>1, AppendKeepsAInv DEF Sends
<1>3. /\ notifications_with_timeouts' = notifications_with_timeouts /\ msg' = msg
      /\ notify_table' = notify_table /\ mutex_hash' = mutex_hash
  BY <1>1 DEF Quiet, tables
<1>4. \A u \in Threads : call[u].sender # m.sender
  BY DEF Sends, Unused
<1>5. CoreSame
  BY <1>1, <1>3, <1>4, AppendSame DEF MInv, Sends
<1> QED
  BY <1>2, <1>3, <1>5, SameKeepsCore

LEMMA PostsKeeps ==
    ASSUME MACInv, NEW m, Posts(m)
    PROVE  MACInv' /\ CoreSame
<1> USE DEF MACInv
<1>1. /\ m \in Letter /\ Fits(m) /\ m.op \in PostedOps /\ m.op # "RecalculateSleep"
      /\ m.op \notin BlockingOps /\ queue' = Append(queue, m) /\ Quiet
  BY DEF Posts, BlockingOps, PostedOps
<1>2. /\ notifications_with_timeouts' = notifications_with_timeouts /\ msg' = msg
      /\ notify_table' = notify_table /\ mutex_hash' = mutex_hash
  BY <1>1 DEF Quiet, tables
<1>3. SameCalls
  <2>1. "Suspend" \notin BlockingOps
    BY DEF BlockingOps
  <2>2. \A t \in Threads : /\ call[t].sender = NONE => call[t].op \notin BlockingOps /\ ~call[t].timed
                           /\ call[t].due \in Nat
    BY DEF MInv, CallsOK, Call, TimedOps, BlockingOps
  <2> QED
    BY <2>1, <2>2 DEF SameCalls, Posts, MInv, CallsOK
<1>4. MInv'
  BY <1>1, <1>2, <1>3, PostKeepsMInv
<1>5. CoreSame
  BY <1>1, <1>2, AppendSame DEF MInv, Posts
<1>7. AInv' /\ Requests' = Requests
  BY <1>1, AppendKeepsAInv DEF Posts
<1> QED
  BY <1>2, <1>4, <1>5, <1>7, SameKeepsCore

-----------------------------------------------------------------------------
(***************************************************************************)
(* Conditions and mutexes that are freed.                                  *)
(***************************************************************************)
\* No call that waits for a condition or a mutex is new.
CallsKept ==
    \A t \in Threads : call'[t].op \in {"WaitForCondition", "LockMutex"} =>
        call'[t].op = call[t].op /\ call'[t].id = call[t].id /\ call'[t].sender = call[t].sender

\* The message being handled is not one of those that are freed later.
LEMMA NotFreedLater ==
    ASSUME MInv, FreedOK, FreedMutexOK, NEW i \in DOMAIN queue, msg # NONE
    PROVE  /\ queue[i].op = "FreeCondition" /\ msg.op = "WaitForCondition" => queue[i].id # msg.id
           /\ queue[i].op = "FreeMutex" /\ msg.op \in {"LockMutex", "UnlockMutex"} => queue[i].id # msg.id
<1>1. \A s : Behind(i, s) => Queued(s)
  BY DEF Behind, Queued
<1>2. msg.op \in {"WaitForCondition", "LockMutex"} =>
         \E w \in Threads : /\ call[w].sender = msg.sender /\ call[w].op = msg.op /\ call[w].id = msg.id
                            /\ ~Queued(call[w].sender)
  BY DEF MInv, SentOK, Sent, Owing, BlockingOps
<1>3. msg.op = "UnlockMutex" /\ queue[i].op = "FreeMutex" => queue[i].id # msg.id
  BY DEF FreedMutexOK, UnlockHandled, Unlocks
<1> QED
  BY <1>1, <1>2, <1>3 DEF FreedOK, FreedMutexOK

LEMMA HandledKeepsFreed ==
    ASSUME MInv, FreedOK, FreedMutexOK, queue' = queue, CallsKept,
           msg # NONE, msg' = NONE \/ msg'.op \in {"notifying", "resume"},
           \A c \in Condvars, s \in Senders : In(notify_table'[c], s) =>
              \/ In(notify_table[c], s) /\ ~Recalc(msg, s)
              \/ msg.op = "WaitForCondition" /\ c = msg.id
    PROVE  FreedOK'
<1>1. \A i, s : Behind(i, s)' <=> Behind(i, s)
  BY DEF Behind
<1>2. \A i, s : Ahead(i, s) /\ ~Recalc(msg, s) => Ahead(i, s)'
  BY DEF Ahead
<1>3. \A i \in DOMAIN queue : queue[i].op = "FreeCondition" => queue[i].id \in Condvars
  BY DEF MInv, LettersOK, Fits, ConditionOps
<1>4. ASSUME NEW i \in DOMAIN queue, queue[i].op = "FreeCondition", NEW s \in Senders,
             In(notify_table'[queue[i].id], s)
      PROVE  Ahead(i, s)'
  BY <1>2, <1>3, <1>4, NotFreedLater DEF FreedOK
<1> QED
  BY <1>1, <1>4 DEF FreedOK, CallsKept

LEMMA HandledKeepsFreedMutex ==
    ASSUME MInv, FreedOK, FreedMutexOK, queue' = queue, CallsKept,
           msg # NONE, msg' = NONE \/ msg'.op \in {"notifying", "resume"},
           \A m \in Mutexes : \/ mutex_hash'[m] = mutex_hash[m]
                              \/ msg.op \in {"LockMutex", "UnlockMutex"} /\ m = msg.id,
           \A m \in mutex_ready_table' : \/ m \in mutex_ready_table
                                         \/ msg.op = "UnlockMutex" /\ m = msg.id
    PROVE  FreedMutexOK'
<1>1. \A i, s : Behind(i, s)' <=> Behind(i, s)
  BY DEF Behind
<1>2. \A i \in DOMAIN queue : queue[i].op = "FreeMutex" => queue[i].id \in Mutexes
  BY DEF MInv, LettersOK, Fits, MutexOps
<1>3. \A m : ~UnlockHandled(m)'
  BY DEF UnlockHandled, Unlocks
<1>4. \A i \in DOMAIN queue : queue[i].op = "FreeMutex" =>
         mutex_hash'[queue[i].id] = <<>> /\ queue[i].id \notin mutex_ready_table'
  BY <1>2, NotFreedLater DEF FreedMutexOK
<1> QED
  BY <1>1, <1>3, <1>4 DEF FreedMutexOK, CallsKept, Unlocks

\* Time passes, or a thread takes the fast path of a mutex.
LEMMA SameKeepsFreed ==
    ASSUME FreedOK, FreedMutexOK, queue' = queue, msg' = msg, CallsKept,
           notify_table' = notify_table, mutex_hash' = mutex_hash,
           mutex_ready_table' = mutex_ready_table
    PROVE  FreedOK' /\ FreedMutexOK'
<1>1. \A i, s : (Behind(i, s)' <=> Behind(i, s)) /\ (Ahead(i, s)' <=> Ahead(i, s))
  BY DEF Behind, Ahead
<1>2. \A m : UnlockHandled(m)' <=> UnlockHandled(m)
  BY DEF UnlockHandled
<1>3. FreedOK'
  BY <1>1 DEF FreedOK, CallsKept
<1>4. FreedMutexOK'
  BY <1>1, <1>2 DEF FreedMutexOK, CallsKept, Unlocks
<1> QED
  BY <1>3, <1>4

\* A message m is appended to the queue.
LEMMA AppendKeepsFreed ==
    ASSUME MInv, CoreInv, FreedOK, NEW m \in Letter, Fits(m), queue' = Append(queue, m), msg' = msg,
           \A t \in Threads : call'[t].op = "WaitForCondition" =>
              \/ /\ call'[t].op = call[t].op /\ call'[t].id = call[t].id
                 /\ call'[t].sender = call[t].sender
              \/ m.op \in BlockingOps /\ call'[t].sender = m.sender,
           notify_table' = notify_table,
           m.op = "FreeCondition" => \A t \in Threads : ~(call[t].op = "WaitForCondition" /\ call[t].id = m.id)
    PROVE  FreedOK'
<1> PICK n : n = Len(queue) + 1
  OBVIOUS
<1>1. /\ queue'[n] = m /\ DOMAIN queue \subseteq DOMAIN queue'
      /\ \A i \in DOMAIN queue : queue'[i] = queue[i] /\ i < n
      /\ \A i \in DOMAIN queue' : i # n => i \in DOMAIN queue
  BY AppendedQueue DEF MInv
<1>2. \A s : \A i \in DOMAIN queue : Behind(i, s) \/ (m.op \in BlockingOps /\ m.sender = s) => Behind(i, s)'
  BY AppendedQueued DEF MInv
<1>3. \A s : \A i \in DOMAIN queue : Ahead(i, s) => Ahead(i, s)'
  BY <1>1 DEF Ahead
<1>4. ASSUME NEW i \in DOMAIN queue, queue[i].op = "FreeCondition"
      PROVE  /\ \A t \in Threads : call'[t].op = "WaitForCondition" /\ call'[t].id = queue[i].id
                   => \E s : s = call'[t].sender /\ Behind(i, s)'
             /\ \A s \in Senders : In(notify_table'[queue[i].id], s) => Ahead(i, s)'
  BY <1>2, <1>3, <1>4 DEF FreedOK
<1>5. ASSUME m.op = "FreeCondition"
      PROVE  /\ \A t \in Threads : ~(call'[t].op = "WaitForCondition" /\ call'[t].id = m.id)
             /\ \A s \in Senders : In(notify_table'[m.id], s) => Ahead(n, s)'
  <2>1. m.id \in Condvars /\ m.op \notin BlockingOps
    BY <1>5 DEF Fits, ConditionOps, BlockingOps
  <2>2. \A t \in Threads : ~(call'[t].op = "WaitForCondition" /\ call'[t].id = m.id)
    BY <1>5, <2>1
  <2>3. ASSUME NEW s \in Senders, In(notify_table[m.id], s) PROVE Ahead(n, s)'
    <3>1. Pending(s, m.id)
      BY <1>5, <2>1, <2>3 DEF CoreInv, WaitersOK, WaitsFor
    <3> QED
      BY <1>1, <3>1 DEF Pending, Ahead
  <2> QED
    BY <2>2, <2>3
<1>6. \A i \in DOMAIN queue' : queue'[i].op = "FreeCondition" =>
         /\ \A t \in Threads : call'[t].op = "WaitForCondition" /\ call'[t].id = queue'[i].id
               => \E s : s = call'[t].sender /\ Behind(i, s)'
         /\ \A s \in Senders : In(notify_table'[queue'[i].id], s) => Ahead(i, s)'
  <2> TAKE i \in DOMAIN queue'
  <2>1. CASE i = n
    BY <2>1, <1>1, <1>5
  <2>2. CASE i # n
    BY <2>2, <1>1, <1>4
  <2> QED
    BY <2>1, <2>2
<1> QED
  BY <1>6 DEF FreedOK

LEMMA AppendKeepsFreedMutex ==
    ASSUME MInv, CoreInv, LInv, NEW m \in Letter, Fits(m), queue' = Append(queue, m), msg' = msg,
           \A t \in Threads : call'[t].op = "LockMutex" =>
              \/ /\ call'[t].op = call[t].op /\ call'[t].id = call[t].id
                 /\ call'[t].sender = call[t].sender
              \/ m.op \in BlockingOps /\ call'[t].sender = m.sender,
           mutex_hash' = mutex_hash, mutex_ready_table' = mutex_ready_table,
           m.op = "FreeMutex" => \A t \in Threads : lock[t][m.id] = "out"
    PROVE  FreedMutexOK'
<1> PICK n : n = Len(queue) + 1
  OBVIOUS
<1>1. /\ queue'[n] = m /\ DOMAIN queue \subseteq DOMAIN queue'
      /\ \A i \in DOMAIN queue : queue'[i] = queue[i] /\ i < n
      /\ \A i \in DOMAIN queue' : i # n => i \in DOMAIN queue
  BY AppendedQueue DEF MInv
<1>2. \A s : \A i \in DOMAIN queue : Behind(i, s) \/ (m.op \in BlockingOps /\ m.sender = s) => Behind(i, s)'
  BY AppendedQueued DEF MInv
<1>3. \A o : UnlockHandled(o)' <=> UnlockHandled(o)
  BY DEF UnlockHandled
<1>4. ASSUME NEW i \in DOMAIN queue, queue[i].op = "FreeMutex"
      PROVE  /\ mutex_hash'[queue[i].id] = <<>> /\ queue[i].id \notin mutex_ready_table'
             /\ ~UnlockHandled(queue[i].id)
             /\ \A j \in DOMAIN queue' : Unlocks(queue'[j], queue[i].id) => i < j
             /\ \A t \in Threads : call'[t].op = "LockMutex" /\ call'[t].id = queue[i].id
                   => \E s : s = call'[t].sender /\ Behind(i, s)'
  <2>1. \A j \in DOMAIN queue' : Unlocks(queue'[j], queue[i].id) => i < j
    <3> TAKE j \in DOMAIN queue'
    <3>1. CASE j = n
      BY <3>1, <1>1
    <3>2. CASE j # n
      BY <3>2, <1>1, <1>4 DEF LInv, FreedMutexOK
    <3> QED
      BY <3>1, <3>2
  <2>2. \A t \in Threads : call'[t].op = "LockMutex" /\ call'[t].id = queue[i].id
           => \E s : s = call'[t].sender /\ Behind(i, s)'
    BY <1>2, <1>4 DEF LInv, FreedMutexOK
  <2> QED
    BY <1>4, <2>1, <2>2 DEF LInv, FreedMutexOK
<1>5. ASSUME m.op = "FreeMutex"
      PROVE  /\ mutex_hash'[m.id] = <<>> /\ m.id \notin mutex_ready_table' /\ ~UnlockHandled(m.id)
             /\ \A j \in DOMAIN queue' : ~Unlocks(queue'[j], m.id)
             /\ \A t \in Threads : ~(call'[t].op = "LockMutex" /\ call'[t].id = m.id)
  <2>1. m.id \in Mutexes /\ m.op \notin BlockingOps
    BY <1>5 DEF Fits, MutexOps, BlockingOps
  <2>2. \A t \in Threads : ~(call[t].op = "LockMutex" /\ call[t].id = m.id)
    BY <1>5 DEF LInv
  <2>3. mutex_hash[m.id] = <<>>
    <3>1. mutex_hash[m.id] \in Seq(Senders)
      BY <2>1 DEF CoreInv, TablesOK
    <3>2. \A s \in Senders : ~In(mutex_hash[m.id], s)
      BY <2>1, <2>2 DEF CoreInv, LockersOK, LocksFor
    <3> QED
      BY <3>1, <3>2, EmptyList
  <2>4. ~Owed(m.id)
    BY <1>5, <2>1 DEF LInv, WantedOK
  <2>5. \A j \in DOMAIN queue' : ~Unlocks(queue'[j], m.id)
    BY <1>1, <1>5, <2>4 DEF Owed, UnlockQueued, Unlocks
  <2> QED
    BY <2>1, <2>2, <2>3, <2>4, <2>5 DEF Owed
<1>6. \A i \in DOMAIN queue' : queue'[i].op = "FreeMutex" =>
         /\ mutex_hash'[queue'[i].id] = <<>> /\ queue'[i].id \notin mutex_ready_table'
         /\ \A o : o = queue'[i].id => ~UnlockHandled(o)'
         /\ \A j \in DOMAIN queue' : Unlocks(queue'[j], queue'[i].id) => i < j
         /\ \A t \in Threads : call'[t].op = "LockMutex" /\ call'[t].id = queue'[i].id
               => \E s : s = call'[t].sender /\ Behind(i, s)'
  <2> TAKE i \in DOMAIN queue'
  <2>1. CASE i = n
    BY <2>1, <1>1, <1>3, <1>5
  <2>2. CASE i # n
    BY <2>2, <1>1, <1>3, <1>4
  <2> QED
    BY <2>1, <2>2
<1>7. msg # NONE /\ msg.op = "FreeMutex" =>
          mutex_hash'[msg.id] = <<>> /\ msg.id \notin mutex_ready_table'
  BY DEF LInv, FreedMutexOK
<1> QED
  BY <1>6, <1>7 DEF FreedMutexOK, Unlocks

LEMMA ReceiveKeepsFreed ==
    ASSUME MInv, TablesOK, FreedOK, FreedMutexOK, Receive
    PROVE  FreedOK' /\ FreedMutexOK'
<1>1. /\ msg = NONE /\ queue # <<>> /\ msg' = Head(queue) /\ queue' = Tail(queue)
      /\ call' = call /\ notify_table' = notify_table /\ mutex_hash' = mutex_hash
      /\ mutex_ready_table' = mutex_ready_table
  BY DEF Receive, tables
<1>2. /\ msg' = queue[1] /\ msg' # NONE /\ Len(queue) \in Nat \ {0} /\ DOMAIN queue = 1 .. Len(queue)
      /\ DOMAIN queue' = 1 .. Len(queue) - 1 /\ 1 \in DOMAIN queue
      /\ \A i \in DOMAIN queue' : queue'[i] = queue[i + 1]
  BY <1>1, TailFacts, TicktimerAssumption DEF MInv, LettersOK
<1>3. \A i \in DOMAIN queue' : i + 1 \in DOMAIN queue /\ i \in Int /\ i + 1 # 1
  BY <1>2
<1>4. \A j \in DOMAIN queue : j # 1 => j - 1 \in DOMAIN queue' /\ queue'[j - 1] = queue[j] /\ j \in Int
  BY <1>2
<1>5. \A s : \A i \in DOMAIN queue' : Behind(i + 1, s) => Behind(i, s)'
  <2> SUFFICES ASSUME NEW s, NEW i \in DOMAIN queue', NEW j \in DOMAIN queue, i + 1 < j,
                      queue[j].op \in BlockingOps, queue[j].sender = s
               PROVE  \E o \in DOMAIN queue' : i < o /\ queue'[o].op \in BlockingOps /\ queue'[o].sender = s
    BY DEF Behind
  <2>1. j # 1 /\ i < j - 1
    BY <1>2
  <2> QED
    BY <2>1, <1>4
<1>6. \A s : \A i \in DOMAIN queue' : Ahead(i + 1, s) => Ahead(i, s)'
  <2> SUFFICES ASSUME NEW s, NEW i \in DOMAIN queue', NEW j \in DOMAIN queue, j < i + 1,
                      Recalc(queue[j], s)
               PROVE  \/ msg' # NONE /\ Recalc(msg', s)
                      \/ \E o \in DOMAIN queue' : o < i /\ Recalc(queue'[o], s)
    BY <1>1 DEF Ahead, Recalc
  <2>1. CASE j = 1
    BY <2>1, <1>2
  <2>2. CASE j # 1
    <3>1. j - 1 \in DOMAIN queue' /\ queue'[j - 1] = queue[j] /\ j - 1 < i
      BY <2>2, <1>3, <1>4
    <3> QED
      BY <3>1
  <2> QED
    BY <2>1, <2>2
<1>7. \A i \in DOMAIN queue' : queue'[i].op = "FreeCondition" =>
         /\ \A t \in Threads : call[t].op = "WaitForCondition" /\ call[t].id = queue'[i].id
               => Behind(i + 1, call[t].sender)
         /\ \A s \in Senders : In(notify_table[queue'[i].id], s) => Ahead(i + 1, s)
  BY <1>2, <1>3 DEF FreedOK
<1>8. msg'.op = "FreeCondition" => notify_table[msg'.id] = <<>>
  <2> SUFFICES ASSUME queue[1].op = "FreeCondition" PROVE notify_table[queue[1].id] = <<>>
    BY <1>2
  <2>1. queue[1].id \in Condvars
    BY <1>2 DEF MInv, LettersOK, Fits, ConditionOps
  <2>2. \A s \in Senders : In(notify_table[queue[1].id], s) => Ahead(1, s)
    BY <1>2 DEF FreedOK
  <2>3. \A s : ~Ahead(1, s)
    BY <1>1, <1>2 DEF Ahead
  <2> QED
    BY <2>1, <2>2, <2>3, EmptyList DEF TablesOK
<1>9. FreedOK'
  BY <1>1, <1>5, <1>6, <1>7, <1>8 DEF FreedOK
<1>10. \A i \in DOMAIN queue' : queue'[i].op = "FreeMutex" =>
         /\ mutex_hash[queue'[i].id] = <<>> /\ queue'[i].id \notin mutex_ready_table
         /\ \A j \in DOMAIN queue : Unlocks(queue[j], queue'[i].id) => i + 1 < j
         /\ \A t \in Threads : call[t].op = "LockMutex" /\ call[t].id = queue'[i].id
               => Behind(i + 1, call[t].sender)
  BY <1>2, <1>3 DEF FreedMutexOK
<1>11. \A i \in DOMAIN queue' : queue'[i].op = "FreeMutex" =>
         /\ \A o : o = queue'[i].id => ~UnlockHandled(o)'
         /\ \A j \in DOMAIN queue' : Unlocks(queue'[j], queue'[i].id) => i < j
  <2> TAKE i \in DOMAIN queue'
  <2> HAVE queue'[i].op = "FreeMutex"
  <2>1. ~Unlocks(queue[1], queue'[i].id)
    <3>1. i >= 1 /\ ~(i + 1 < 1)
      BY <1>2
    <3> QED
      BY <3>1, <1>2, <1>10
  <2>2. ASSUME NEW j \in DOMAIN queue', Unlocks(queue'[j], queue'[i].id) PROVE i < j
    <3>1. i + 1 < j + 1
      BY <2>2, <1>2, <1>3, <1>10
    <3> QED
      BY <3>1, <1>2
  <2> QED
    BY <2>1, <2>2, <1>2 DEF UnlockHandled, Unlocks
<1>12. msg'.op = "FreeMutex" => mutex_hash[msg'.id] = <<>> /\ msg'.id \notin mutex_ready_table
  BY <1>2 DEF FreedMutexOK
<1>13. FreedMutexOK'
  BY <1>1, <1>5, <1>10, <1>11, <1>12 DEF FreedMutexOK, Unlocks
<1> QED
  BY <1>9, <1>13

-----------------------------------------------------------------------------
(***************************************************************************)
(* Mutexes.                                                                *)
(***************************************************************************)
\* A reply to a thread that waits for something else lets nobody in.
LEMMA OthersNotLocked ==
    ASSUME CallsOK, lock \in [Threads -> [Mutexes -> LockState]],
           NEW w \in Threads, call[w].sender # NONE, call[w].op # "LockMutex"
    PROVE  LocksAfter({call[w].sender}) = lock
<1>1. \A t \in Threads : Woken(t, {call[w].sender}) => t = w
  BY DEF Woken, CallsOK
<1> QED
  BY <1>1 DEF LocksAfter

LEMMA NobodyLocked ==
    ASSUME lock \in [Threads -> [Mutexes -> LockState]]
    PROVE  LocksAfter({}) = lock
BY DEF LocksAfter, Woken

\* A reply to a thread that waits for m gives it m.
LEMMA LetIn ==
    ASSUME CallsOK, lock \in [Threads -> [Mutexes -> LockState]], NEW w \in Threads, NEW m \in Mutexes,
           call[w].sender # NONE, call[w].op = "LockMutex", call[w].id = m, ~Queued(call[w].sender),
           lock' = LocksAfter({call[w].sender})
    PROVE  /\ lock' \in [Threads -> [Mutexes -> LockState]] /\ lock'[w][m] = "holds"
           /\ \A t \in Threads, o \in Mutexes : t # w \/ o # m => lock'[t][o] = lock[t][o]
<1>1. \A t \in Threads : Woken(t, {call[w].sender}) <=> t = w
  BY DEF Woken, CallsOK
<1> QED
  BY <1>1 DEF LocksAfter, LockState

\* Nothing about the mutex o changes.
SamePlace(o) ==
    /\ \A t \in Threads : lock'[t][o] = lock[t][o]
    /\ UnlockQueued(o)' <=> UnlockQueued(o)
    /\ UnlockHandled(o)' <=> UnlockHandled(o)
    /\ OneUnlock(o) => OneUnlock(o)'
    /\ o \in mutex_ready_table' <=> o \in mutex_ready_table

LEMMA SamePlaceKept ==
    ASSUME NEW o \in Mutexes, OnePlace(o), WantedOK(o), SamePlace(o)
    PROVE  OnePlace(o)' /\ WantedOK(o)'
<1>1. \A t \in Threads : Has(t, o)' <=> Has(t, o)
  BY DEF SamePlace, Has
<1>2. Owed(o)' <=> Owed(o)
  BY DEF SamePlace, Owed
<1>3. OnePlace(o)'
  BY <1>1 DEF OnePlace, SamePlace
<1>4. WantedOK(o)'
  BY <1>2 DEF WantedOK, SamePlace
<1> QED
  BY <1>3, <1>4

\* The thread w has the mutex m, and it is nowhere else.
LEMMA TakenPlace ==
    ASSUME NEW m \in Mutexes, NEW w \in Threads, lock'[w][m] = "holds",
           \A t \in Threads : t # w => lock'[t][m] \notin {"holds", "owes"},
           ~UnlockQueued(m)', ~UnlockHandled(m)', m \notin mutex_ready_table'
    PROVE  OnePlace(m)' /\ WantedOK(m)'
<1>1. \A t \in Threads : Has(t, m)' => t = w
  BY DEF Has
<1>2. OneUnlock(m)'
  BY DEF OneUnlock, UnlockQueued
<1>3. ~Owed(m)'
  BY DEF Owed
<1>4. OnePlace(m)'
  BY <1>1, <1>2 DEF OnePlace
<1>5. WantedOK(m)'
  BY <1>3 DEF WantedOK
<1> QED
  BY <1>4, <1>5

LEMMA QuietKeepsLInv ==
    ASSUME LInv, lock' = lock, mutex_ready_table' = mutex_ready_table, FreedMutexOK',
           \A o \in Mutexes : /\ UnlockQueued(o)' <=> UnlockQueued(o)
                              /\ UnlockHandled(o)' <=> UnlockHandled(o)
                              /\ OneUnlock(o) => OneUnlock(o)',
           \A t \in Threads : call'[t].op = "LockMutex" => lock[t][call'[t].id] = "wants"
    PROVE  LInv'
<1>1. \A o \in Mutexes : SamePlace(o)
  BY DEF SamePlace
<1>2. \A o \in Mutexes : OnePlace(o)' /\ WantedOK(o)'
  BY <1>1, SamePlaceKept DEF LInv
<1> QED
  BY <1>2 DEF LInv

\* A message that is neither an unlock nor takes a lock is handled.
LEMMA HandledKeepsRest ==
    ASSUME MInv, FreedOK, LInv, queue' = queue,
           msg # NONE, msg' = NONE \/ msg'.op \in {"notifying", "resume"}, msg.op # "UnlockMutex",
           \A t \in Threads : call'[t] = call[t] \/ call'[t].op = NONE,
           lock' = lock, mutex_ready_table' = mutex_ready_table,
           \A m \in Mutexes : mutex_hash'[m] = mutex_hash[m] \/ (msg.op = "LockMutex" /\ m = msg.id),
           \A c \in Condvars, s \in Senders : In(notify_table'[c], s) =>
              \/ In(notify_table[c], s) /\ ~Recalc(msg, s)
              \/ msg.op = "WaitForCondition" /\ c = msg.id
    PROVE  FreedOK' /\ LInv'
<1>1. NONE \notin {"WaitForCondition", "LockMutex"}
  BY TicktimerAssumption DEF BlockingOps
<1>2. CallsKept
  BY <1>1 DEF CallsKept
<1>3. FreedMutexOK
  BY DEF LInv
<1>4. FreedOK'
  BY <1>2, <1>3, HandledKeepsFreed
<1>5. FreedMutexOK'
  BY <1>2, <1>3, HandledKeepsFreedMutex
<1>6. \A o \in Mutexes : /\ UnlockQueued(o)' <=> UnlockQueued(o)
                         /\ UnlockHandled(o)' <=> UnlockHandled(o)
                         /\ OneUnlock(o) => OneUnlock(o)'
  BY DEF UnlockQueued, UnlockHandled, OneUnlock, Unlocks
<1>7. \A t \in Threads : call'[t].op = "LockMutex" => lock[t][call'[t].id] = "wants"
  BY <1>1 DEF LInv
<1>8. LInv'
  BY <1>5, <1>6, <1>7, QuietKeepsLInv
<1> QED
  BY <1>4, <1>8

LEMMA AppendedUnlocks ==
    ASSUME LettersOK, NEW x \in Letter, queue' = Append(queue, x), msg' = msg, NEW o
    PROVE  /\ UnlockQueued(o)' <=> UnlockQueued(o) \/ Unlocks(x, o)
           /\ UnlockHandled(o)' <=> UnlockHandled(o)
           /\ OneUnlock(o) /\ ~(UnlockQueued(o) /\ Unlocks(x, o)) => OneUnlock(o)'
<1>1. /\ queue'[Len(queue) + 1] = x /\ DOMAIN queue \subseteq DOMAIN queue'
      /\ Len(queue) + 1 \in DOMAIN queue'
      /\ \A i \in DOMAIN queue : queue'[i] = queue[i]
      /\ \A i \in DOMAIN queue' : i # Len(queue) + 1 => i \in DOMAIN queue
  BY AppendedQueue
<1>2. UnlockQueued(o)' <=> UnlockQueued(o) \/ Unlocks(x, o)
  BY <1>1 DEF UnlockQueued, Unlocks
<1>3. UnlockHandled(o)' <=> UnlockHandled(o)
  BY DEF UnlockHandled, Unlocks
<1>4. OneUnlock(o) /\ ~(UnlockQueued(o) /\ Unlocks(x, o)) => OneUnlock(o)'
  BY <1>1 DEF OneUnlock, UnlockQueued, Unlocks
<1> QED
  BY <1>2, <1>3, <1>4

\* A message that is not an unlock is sent.
LEMMA AppendKeepsRest ==
    ASSUME MInv, CoreInv, FreedOK, LInv, NEW x \in Letter, Fits(x), x.op # "UnlockMutex",
           queue' = Append(queue, x), msg' = msg, UNCHANGED tables, lock' = lock,
           \A t \in Threads : call'[t].op \in {"WaitForCondition", "LockMutex"} =>
              \/ /\ call'[t].op = call[t].op /\ call'[t].id = call[t].id
                 /\ call'[t].sender = call[t].sender
              \/ /\ x.op \in BlockingOps /\ call'[t].sender = x.sender
                 /\ call'[t].op = "LockMutex" => lock[t][call'[t].id] = "wants",
           x.op = "FreeCondition" => \A t \in Threads : ~(call[t].op = "WaitForCondition" /\ call[t].id = x.id),
           x.op = "FreeMutex" => \A t \in Threads : lock[t][x.id] = "out"
    PROVE  FreedOK' /\ LInv'
<1>1. /\ notify_table' = notify_table /\ mutex_hash' = mutex_hash
      /\ mutex_ready_table' = mutex_ready_table
  BY DEF tables
<1>2. FreedOK'
  BY <1>1, AppendKeepsFreed
<1>3. FreedMutexOK'
  BY <1>1, AppendKeepsFreedMutex
<1>4. \A o \in Mutexes : /\ UnlockQueued(o)' <=> UnlockQueued(o)
                         /\ UnlockHandled(o)' <=> UnlockHandled(o)
                         /\ OneUnlock(o) => OneUnlock(o)'
  BY AppendedUnlocks DEF MInv, Unlocks
<1>5. \A t \in Threads : call'[t].op = "LockMutex" => lock[t][call'[t].id] = "wants"
  BY DEF LInv
<1>6. LInv'
  BY <1>1, <1>3, <1>4, <1>5, QuietKeepsLInv
<1> QED
  BY <1>2, <1>6

LEMMA ReceiveKeepsRest ==
    ASSUME MInv, CoreInv, FreedOK, LInv, Receive
    PROVE  FreedOK' /\ LInv'
<1>1. /\ msg = NONE /\ queue # <<>> /\ msg' = Head(queue) /\ queue' = Tail(queue)
      /\ call' = call /\ lock' = lock /\ mutex_ready_table' = mutex_ready_table
  BY DEF Receive, tables
<1>2. /\ msg' = queue[1] /\ msg' # NONE /\ Len(queue) \in Nat \ {0} /\ DOMAIN queue = 1 .. Len(queue)
      /\ DOMAIN queue' = 1 .. Len(queue) - 1 /\ 1 \in DOMAIN queue
      /\ \A i \in DOMAIN queue' : queue'[i] = queue[i + 1]
  BY <1>1, TailFacts, TicktimerAssumption DEF MInv, LettersOK
<1>3. \A i \in DOMAIN queue' : i + 1 \in DOMAIN queue /\ i \in Int /\ i + 1 # 1
  BY <1>2
<1>4. \A j \in DOMAIN queue : j # 1 => j - 1 \in DOMAIN queue' /\ queue'[j - 1] = queue[j] /\ j \in Int
  BY <1>2
<1>5. FreedOK' /\ FreedMutexOK'
  BY ReceiveKeepsFreed DEF CoreInv, LInv
<1>6. \A o \in Mutexes : OnePlace(o)' /\ WantedOK(o)'
  <2> TAKE o \in Mutexes
  <2>1. OnePlace(o) /\ WantedOK(o) /\ OneUnlock(o)
    BY DEF LInv, OnePlace
  <2>2. UnlockQueued(o) <=> UnlockQueued(o)' \/ UnlockHandled(o)'
    <3>1. ASSUME UnlockQueued(o) PROVE UnlockQueued(o)' \/ UnlockHandled(o)'
      <4>1. PICK j \in DOMAIN queue : Unlocks(queue[j], o)
        BY <3>1 DEF UnlockQueued
      <4>2. CASE j = 1
        BY <4>1, <4>2, <1>2 DEF UnlockHandled, Unlocks
      <4>3. CASE j # 1
        BY <4>1, <4>3, <1>4 DEF UnlockQueued, Unlocks
      <4> QED
        BY <4>2, <4>3
    <3>2. ASSUME UnlockQueued(o)' PROVE UnlockQueued(o)
      BY <3>2, <1>2, <1>3 DEF UnlockQueued, Unlocks
    <3>3. ASSUME UnlockHandled(o)' PROVE UnlockQueued(o)
      BY <3>3, <1>2 DEF UnlockQueued, UnlockHandled, Unlocks
    <3> QED
      BY <3>1, <3>2, <3>3
  <2>3. ~(UnlockQueued(o)' /\ UnlockHandled(o)')
    BY <2>1, <1>2, <1>3 DEF OneUnlock, UnlockQueued, UnlockHandled, Unlocks
  <2>4. OneUnlock(o)'
    <3> SUFFICES ASSUME NEW i \in DOMAIN queue', NEW j \in DOMAIN queue',
                        Unlocks(queue'[i], o), Unlocks(queue'[j], o)
                 PROVE  i = j
      BY DEF OneUnlock, Unlocks
    <3>1. i + 1 = j + 1
      BY <2>1, <1>2, <1>3 DEF OneUnlock
    <3> QED
      BY <3>1, <1>3
  <2>5. ~UnlockHandled(o)
    BY <1>1 DEF UnlockHandled
  <2>6. \A t \in Threads : Has(t, o)' <=> Has(t, o)
    BY <1>1 DEF Has
  <2>7. OnePlace(o)'
    BY <1>1, <2>1, <2>2, <2>3, <2>4, <2>5, <2>6 DEF OnePlace
  <2>8. Owed(o)' <=> Owed(o)
    BY <1>1, <2>2, <2>5 DEF Owed
  <2>9. WantedOK(o)'
    BY <1>1, <2>1, <2>8 DEF WantedOK
  <2> QED
    BY <2>7, <2>9
<1>7. LInv'
  BY <1>1, <1>5, <1>6 DEF LInv
<1> QED
  BY <1>5, <1>7

LEMMA LockersOfMutexes ==
    ASSUME MInv, CoreInv, NEW t \in Threads, call[t].op = "LockMutex"
    PROVE  call[t].id \in Mutexes
<1>1. call[t].sender # NONE
  BY DEF MInv, CallsOK, BlockingOps
<1>2. \A u \in Threads : call[u].sender = call[t].sender => u = t
  BY <1>1 DEF MInv, CallsOK
<1>3. CASE PutAway(t)
  BY <1>3 DEF CoreInv, FoundOK
<1>4. CASE Queued(call[t].sender)
  <2>1. PICK i \in DOMAIN queue : queue[i].op \in BlockingOps /\ queue[i].sender = call[t].sender
    BY <1>4 DEF Queued
  <2>2. PICK u \in Threads : Sent(u, queue[i])
    BY <2>1 DEF MInv, SentOK
  <2>3. u = t
    BY <2>1, <2>2, <1>2 DEF Sent
  <2>4. queue[i].op = "LockMutex" /\ queue[i].id = call[t].id
    BY <2>1, <2>2, <2>3 DEF Sent, BlockingOps
  <2> QED
    BY <2>4 DEF MInv, LettersOK, Fits, MutexOps
<1>5. CASE msg # NONE /\ msg.sender = call[t].sender
  <2>1. msg.op \in Owing
    BY <1>1, <1>5 DEF MInv, LettersOK, Fits
  <2>2. PICK u \in Threads : Sent(u, msg)
    BY <1>5, <2>1 DEF MInv, SentOK
  <2>3. u = t
    BY <2>2, <1>2, <1>5 DEF Sent
  <2>4. msg.op = "LockMutex" /\ msg.id = call[t].id
    BY <2>2, <2>3 DEF Sent
  <2> QED
    BY <2>4, <1>5 DEF MInv, LettersOK, Fits, MutexOps
<1> QED
  BY <1>1, <1>3, <1>4, <1>5 DEF PutAway

LEMMA LockMutexKeepsRest ==
    ASSUME MInv, CoreInv, FreedOK, LInv, LockMutex
    PROVE  FreedOK' /\ LInv' /\ failed' = failed
<1> PICK m : m = msg.id
  OBVIOUS
<1>1. /\ msg # NONE /\ msg.op = "LockMutex" /\ msg' = NONE /\ queue' = queue
      /\ notify_table' = notify_table /\ failed' = failed
  BY DEF LockMutex, Handle
<1>2. /\ msg.sender \in Senders /\ msg.sender # NONE /\ m \in Mutexes /\ ~Queued(msg.sender)
      /\ \A s : ~Recalc(msg, s)
  BY <1>1, TicktimerAssumption
     DEF MInv, LettersOK, SentOK, Fits, Owing, BlockingOps, MutexOps, Letter, Recalc
<1>3. PICK w \in Threads : call[w].sender = msg.sender /\ call[w].op = "LockMutex" /\ call[w].id = m
  BY <1>1 DEF MInv, SentOK, Sent, Owing, BlockingOps
<1>4. CASE m \in mutex_ready_table
  <2>1. /\ mutex_ready_table' = mutex_ready_table \ {m} /\ Answer({msg.sender})
        /\ mutex_hash' = mutex_hash
    BY <1>4 DEF LockMutex
  <2>2. call' = Answered({msg.sender}) /\ lock' = LocksAfter({call[w].sender})
    BY <2>1, <1>3, AnswerIs
  <2>3. \A t \in Threads : call'[t] = call[t] \/ (call'[t].op = NONE /\ call'[t].sender = NONE)
    BY <2>2, <1>2, AnsweredFacts DEF MInv
  <2>4. call'[w].op = NONE
    BY <2>2, <1>2, <1>3, AnsweredFacts DEF MInv, Woken
  <2>5. /\ lock' \in [Threads -> [Mutexes -> LockState]] /\ lock'[w][m] = "holds"
        /\ \A t \in Threads, o \in Mutexes : t # w \/ o # m => lock'[t][o] = lock[t][o]
    BY <2>2, <1>2, <1>3, LetIn DEF MInv, LInv
  <2>6. NONE \notin {"WaitForCondition", "LockMutex"}
    BY TicktimerAssumption DEF BlockingOps
  <2>7. CallsKept
    BY <2>3, <2>6 DEF CallsKept
  <2>8. FreedOK'
    BY <2>7, <1>1, <1>2, HandledKeepsFreed DEF LInv
  <2>9. FreedMutexOK'
    BY <2>1, <2>7, <1>1, HandledKeepsFreedMutex DEF LInv
  <2>10. \A o : /\ UnlockQueued(o)' <=> UnlockQueued(o)
                /\ ~UnlockHandled(o) /\ ~UnlockHandled(o)'
                /\ OneUnlock(o)' <=> OneUnlock(o)
    BY <1>1 DEF UnlockQueued, UnlockHandled, OneUnlock, Unlocks
  <2>11. \A o \in Mutexes : o # m => OnePlace(o)' /\ WantedOK(o)'
    <3> SUFFICES ASSUME NEW o \in Mutexes, o # m PROVE OnePlace(o)' /\ WantedOK(o)'
      OBVIOUS
    <3>1. SamePlace(o)
      BY <2>1, <2>5, <2>10 DEF SamePlace
    <3> QED
      BY <3>1, SamePlaceKept DEF LInv
  <2>12. OnePlace(m)' /\ WantedOK(m)'
    <3>1. OnePlace(m)
      BY <1>2 DEF LInv
    <3>2. ~UnlockQueued(m) /\ \A t \in Threads : ~Has(t, m)
      BY <1>4, <3>1 DEF OnePlace
    <3>3. \A t \in Threads : t # w => lock'[t][m] \notin {"holds", "owes"}
      BY <2>5, <3>2, <1>2 DEF Has
    <3> QED
      BY <2>1, <2>5, <2>10, <3>2, <3>3, <1>2, TakenPlace
  <2>13. \A o \in Mutexes : OnePlace(o)' /\ WantedOK(o)'
    BY <2>11, <2>12
  <2>14. \A t \in Threads : call'[t].op = "LockMutex" => lock'[t][call'[t].id] = "wants"
    <3> SUFFICES ASSUME NEW t \in Threads, call'[t].op = "LockMutex"
                 PROVE  lock'[t][call'[t].id] = "wants"
      OBVIOUS
    <3>1. t # w /\ call'[t] = call[t]
      BY <2>3, <2>4, <2>6
    <3>2. call[t].id \in Mutexes
      BY <3>1, LockersOfMutexes
    <3> QED
      BY <3>1, <3>2, <2>5 DEF LInv
  <2> QED
    BY <1>1, <2>1, <2>5, <2>8, <2>9, <2>13, <2>14 DEF LInv
<1>5. CASE m \notin mutex_ready_table
  <2>1. /\ mutex_ready_table' = mutex_ready_table /\ call' = call /\ lock' = lock
        /\ \A o \in Mutexes : mutex_hash'[o] = mutex_hash[o] \/ o = m
    BY <1>5 DEF LockMutex, CoreInv, TablesOK
  <2> QED
    BY <2>1, <1>1, <1>2, HandledKeepsRest
<1> QED
  BY <1>4, <1>5

LEMMA UnlockMutexKeepsRest ==
    ASSUME MACInv, FreedOK, LInv, failed = {}, UnlockMutex
    PROVE  FreedOK' /\ LInv' /\ failed' = {}
<1> USE DEF MACInv
<1> PICK m : m = msg.id
  OBVIOUS
<1>1. /\ msg # NONE /\ msg.op = "UnlockMutex" /\ msg' = NONE /\ queue' = queue
      /\ notify_table' = notify_table
  BY DEF UnlockMutex, Handle
<1>2. m \in Mutexes /\ \A s : ~Recalc(msg, s)
  BY <1>1 DEF MInv, LettersOK, Fits, MutexOps, Recalc
<1>3. OnePlace(m) /\ WantedOK(m) /\ FreedMutexOK
  BY <1>2 DEF LInv
<1>4. /\ \A t \in Threads : ~Has(t, m)
      /\ ~UnlockQueued(m) /\ UnlockHandled(m) /\ m \notin mutex_ready_table
  BY <1>1, <1>3 DEF OnePlace, UnlockHandled, Unlocks
<1>5. \A o : /\ UnlockQueued(o)' <=> UnlockQueued(o)
             /\ ~UnlockHandled(o)' /\ (o # m => ~UnlockHandled(o))
             /\ OneUnlock(o)' <=> OneUnlock(o)
  BY <1>1 DEF UnlockQueued, UnlockHandled, OneUnlock, Unlocks
<1>6. \A o \in Mutexes : mutex_hash'[o] = mutex_hash[o] \/ o = m
  BY DEF UnlockMutex, CoreInv, TablesOK
<1>7. CASE mutex_hash[m] # <<>>
  <2>1. /\ Answer({Head(mutex_hash[m])}) /\ mutex_ready_table' = mutex_ready_table
        /\ failed' = failed \cup (IF IsToken(Head(mutex_hash[m])) THEN {} ELSE {"unwrap"})
    BY <1>7 DEF UnlockMutex
  <2>2. PICK w \in Threads : LocksFor(w, m, Head(mutex_hash[m]))
    BY <1>2, <1>7, FirstLocker
  <2>3. /\ call[w].sender = Head(mutex_hash[m]) /\ call[w].sender \in Senders /\ call[w].sender # NONE
        /\ call[w].op = "LockMutex" /\ call[w].id = m /\ ~Queued(call[w].sender)
    BY <2>2, <1>2, <1>7, FirstLocker DEF LocksFor, PutAway
  <2>4. failed' = {}
    BY <2>1, <1>2, <1>7, FirstLocker
  <2>5. call' = Answered({call[w].sender}) /\ lock' = LocksAfter({call[w].sender})
    BY <2>1, <2>3, AnswerIs
  <2>6. \A t \in Threads : call'[t] = call[t] \/ (call'[t].op = NONE /\ call'[t].sender = NONE)
    BY <2>3, <2>5, AnsweredFacts DEF MInv
  <2>7. call'[w].op = NONE
    BY <2>3, <2>5, AnsweredFacts DEF MInv, Woken
  <2>8. /\ lock' \in [Threads -> [Mutexes -> LockState]] /\ lock'[w][m] = "holds"
        /\ \A t \in Threads, o \in Mutexes : t # w \/ o # m => lock'[t][o] = lock[t][o]
    BY <2>3, <2>5, <1>2, LetIn DEF MInv, LInv
  <2>9. NONE \notin {"WaitForCondition", "LockMutex"}
    BY TicktimerAssumption DEF BlockingOps
  <2>10. CallsKept
    BY <2>6, <2>9 DEF CallsKept
  <2>11. FreedOK'
    BY <2>10, <1>1, <1>2, <1>3, HandledKeepsFreed
  <2>12. FreedMutexOK'
    BY <2>1, <2>10, <1>1, <1>3, <1>6, HandledKeepsFreedMutex
  <2>13. \A o \in Mutexes : o # m => OnePlace(o)' /\ WantedOK(o)'
    <3> SUFFICES ASSUME NEW o \in Mutexes, o # m PROVE OnePlace(o)' /\ WantedOK(o)'
      OBVIOUS
    <3>1. SamePlace(o)
      BY <2>1, <2>8, <1>5 DEF SamePlace
    <3> QED
      BY <3>1, SamePlaceKept DEF LInv
  <2>14. OnePlace(m)' /\ WantedOK(m)'
    <3>1. \A t \in Threads : t # w => lock'[t][m] \notin {"holds", "owes"}
      BY <2>8, <1>2, <1>4 DEF Has
    <3> QED
      BY <2>1, <2>8, <3>1, <1>2, <1>4, <1>5, TakenPlace
  <2>15. \A t \in Threads : call'[t].op = "LockMutex" => lock'[t][call'[t].id] = "wants"
    <3> SUFFICES ASSUME NEW t \in Threads, call'[t].op = "LockMutex"
                 PROVE  lock'[t][call'[t].id] = "wants"
      OBVIOUS
    <3>1. t # w /\ call'[t] = call[t]
      BY <2>6, <2>7, <2>9
    <3>2. call[t].id \in Mutexes
      BY <3>1, LockersOfMutexes
    <3> QED
      BY <3>1, <3>2, <2>8 DEF LInv
  <2>16. LInv'
    BY <2>1, <2>8, <2>12, <2>13, <2>14, <2>15 DEF LInv
  <2> QED
    BY <2>4, <2>11, <2>16
<1>8. CASE mutex_hash[m] = <<>>
  <2>1. /\ mutex_ready_table' = mutex_ready_table \cup {m} /\ call' = call /\ lock' = lock
        /\ failed' = failed \cup (IF m \in mutex_ready_table THEN {"already one waiting"} ELSE {})
    BY <1>8 DEF UnlockMutex
  <2>2. failed' = {}
    BY <2>1, <1>4
  <2>3. CallsKept
    BY <2>1 DEF CallsKept
  <2>4. FreedOK'
    BY <2>3, <1>1, <1>2, <1>3, HandledKeepsFreed
  <2>5. FreedMutexOK'
    BY <2>1, <2>3, <1>1, <1>3, <1>6, HandledKeepsFreedMutex
  <2>6. \A o \in Mutexes : o # m => OnePlace(o)' /\ WantedOK(o)'
    <3> SUFFICES ASSUME NEW o \in Mutexes, o # m PROVE OnePlace(o)' /\ WantedOK(o)'
      OBVIOUS
    <3>1. SamePlace(o)
      BY <2>1, <1>5 DEF SamePlace
    <3> QED
      BY <3>1, SamePlaceKept DEF LInv
  <2>7. OnePlace(m)'
    <3>1. \A t \in Threads : Has(t, m)' <=> Has(t, m)
      BY <2>1 DEF Has
    <3> QED
      BY <3>1, <1>3, <1>4, <1>5 DEF OnePlace
  <2>8. WantedOK(m)'
    <3>1. Owed(m) /\ Owed(m)'
      BY <2>1, <1>4 DEF Owed
    <3> QED
      BY <2>1, <3>1, <1>3 DEF WantedOK
  <2>9. LInv'
    BY <2>1, <2>5, <2>6, <2>7, <2>8, <1>2 DEF LInv
  <2> QED
    BY <2>2, <2>4, <2>9
<1> QED
  BY <1>7, <1>8

\* The owner of a mutex with others waiting tells the service.
LEMMA TellUnlockKeepsRest ==
    ASSUME MInv, CoreInv, FreedOK, LInv, NEW t \in Threads, NEW m \in Mutexes, NEW x \in Letter,
           Fits(x), Unlocks(x, m), queue' = Append(queue, x), msg' = msg, call' = call, UNCHANGED tables,
           lock[t][m] = "owes", lock' = [lock EXCEPT ![t][m] = "out"]
    PROVE  FreedOK' /\ LInv'
<1>1. /\ notify_table' = notify_table /\ mutex_hash' = mutex_hash
      /\ mutex_ready_table' = mutex_ready_table /\ x.op = "UnlockMutex"
  BY DEF tables, Unlocks
<1>2. FreedOK'
  BY <1>1, AppendKeepsFreed
<1>3. FreedMutexOK'
  BY <1>1, AppendKeepsFreedMutex
<1>4. \A o : /\ UnlockQueued(o)' <=> UnlockQueued(o) \/ o = m
             /\ UnlockHandled(o)' <=> UnlockHandled(o)
             /\ OneUnlock(o) /\ ~(UnlockQueued(o) /\ o = m) => OneUnlock(o)'
  <2> TAKE o
  <2>1. Unlocks(x, o) <=> o = m
    BY DEF Unlocks
  <2> QED
    BY <2>1, AppendedUnlocks DEF MInv
<1>5. /\ lock' \in [Threads -> [Mutexes -> LockState]] /\ lock'[t][m] = "out"
      /\ \A u \in Threads, o \in Mutexes : u # t \/ o # m => lock'[u][o] = lock[u][o]
  BY DEF LInv, LockState
<1>6. OnePlace(m) /\ WantedOK(m)
  BY DEF LInv
<1>7. /\ Has(t, m) /\ ~UnlockQueued(m) /\ ~UnlockHandled(m) /\ m \notin mutex_ready_table
      /\ \A u \in Threads : Has(u, m) => u = t
  BY <1>6 DEF OnePlace, Has
<1>8. \A u \in Threads : ~Has(u, m)'
  BY <1>5, <1>7 DEF Has
<1>9. OnePlace(m)'
  BY <1>1, <1>4, <1>6, <1>7, <1>8 DEF OnePlace
<1>10. WantedOK(m)'
  <2>1. Owed(m) /\ Owed(m)'
    BY <1>4 DEF Owed
  <2>2. PICK u \in Threads : lock[u][m] = "wants"
    BY <2>1, <1>6 DEF WantedOK
  <2>3. lock'[u][m] = "wants"
    BY <2>2, <1>5
  <2> QED
    BY <2>1, <2>3 DEF WantedOK
<1>11. \A o \in Mutexes : o # m => OnePlace(o)' /\ WantedOK(o)'
  <2> SUFFICES ASSUME NEW o \in Mutexes, o # m PROVE OnePlace(o)' /\ WantedOK(o)'
    OBVIOUS
  <2>1. SamePlace(o)
    BY <1>1, <1>4, <1>5 DEF SamePlace
  <2> QED
    BY <2>1, SamePlaceKept DEF LInv
<1>12. \A u \in Threads : call'[u].op = "LockMutex" => lock'[u][call'[u].id] = "wants"
  <2> SUFFICES ASSUME NEW u \in Threads, call[u].op = "LockMutex" PROVE lock'[u][call[u].id] = "wants"
    OBVIOUS
  <2>1. call[u].id \in Mutexes /\ lock[u][call[u].id] = "wants"
    BY LockersOfMutexes DEF LInv
  <2> QED
    BY <2>1, <1>5
<1>13. LInv'
  BY <1>1, <1>3, <1>5, <1>9, <1>10, <1>11, <1>12 DEF LInv
<1> QED
  BY <1>2, <1>13

\* A step of the fast path: only where the thread t is with the mutex m.
FastStep(t, m) ==
    /\ call[t].sender = NONE /\ queue' = queue /\ call' = call /\ Quiet
    /\ \E v \in LockState : lock' = [lock EXCEPT ![t][m] = v]

LEMMA FastFacts ==
    ASSUME MInv, CoreInv, FreedOK, LInv, NEW t \in Threads, NEW m \in Mutexes, FastStep(t, m),
           OnePlace(m)', WantedOK(m)'
    PROVE  FreedOK' /\ LInv'
<1>1. /\ notify_table' = notify_table /\ mutex_hash' = mutex_hash /\ msg' = msg
      /\ mutex_ready_table' = mutex_ready_table /\ queue' = queue /\ call' = call
  BY DEF FastStep, Quiet, tables
<1>2. /\ lock' \in [Threads -> [Mutexes -> LockState]]
      /\ \A u \in Threads, o \in Mutexes : u # t \/ o # m => lock'[u][o] = lock[u][o]
  BY DEF FastStep, LInv
<1>3. FreedOK' /\ FreedMutexOK'
  BY <1>1, SameKeepsFreed DEF LInv, CallsKept
<1>4. \A o : /\ UnlockQueued(o)' <=> UnlockQueued(o)
             /\ UnlockHandled(o)' <=> UnlockHandled(o)
             /\ OneUnlock(o)' <=> OneUnlock(o)
  BY <1>1 DEF UnlockQueued, UnlockHandled, OneUnlock, Unlocks
<1>5. \A o \in Mutexes : o # m => OnePlace(o)' /\ WantedOK(o)'
  <2> SUFFICES ASSUME NEW o \in Mutexes, o # m PROVE OnePlace(o)' /\ WantedOK(o)'
    OBVIOUS
  <2>1. SamePlace(o)
    BY <1>1, <1>2, <1>4 DEF SamePlace
  <2> QED
    BY <2>1, SamePlaceKept DEF LInv
<1>6. \A u \in Threads : call'[u].op = "LockMutex" => lock'[u][call'[u].id] = "wants"
  <2> SUFFICES ASSUME NEW u \in Threads, call[u].op = "LockMutex" PROVE lock'[u][call[u].id] = "wants"
    BY <1>1
  <2>1. call[u].id \in Mutexes /\ lock[u][call[u].id] = "wants"
    BY LockersOfMutexes DEF LInv
  <2>2. u # t
    BY DEF FastStep, MInv, CallsOK, BlockingOps
  <2> QED
    BY <2>1, <2>2, <1>2
<1>7. LInv'
  BY <1>1, <1>2, <1>3, <1>5, <1>6 DEF LInv
<1> QED
  BY <1>3, <1>7

LEMMA FastUnlocks ==
    ASSUME NEW t, NEW m, FastStep(t, m), NEW o
    PROVE  /\ UnlockQueued(o)' <=> UnlockQueued(o)
           /\ UnlockHandled(o)' <=> UnlockHandled(o)
           /\ OneUnlock(o)' <=> OneUnlock(o)
           /\ mutex_ready_table' = mutex_ready_table
BY DEF UnlockQueued, UnlockHandled, OneUnlock, Unlocks, FastStep, Quiet, tables

LEMMA LockFastKeepsRest ==
    ASSUME MInv, AInv, CoreInv, FreedOK, LInv, NEW t \in Threads, NEW m \in Mutexes, LockFast(t, m)
    PROVE  FreedOK' /\ LInv' /\ FastStep(t, m)
<1>1. lock[t][m] = "out" /\ lock' = [lock EXCEPT ![t][m] = IF Counted(m) = {} THEN "holds" ELSE "wants"]
  BY DEF LockFast
<1>2. FastStep(t, m)
  <2>1. call[t].sender = NONE
    BY DEF LockFast, Free, Idle
  <2> QED
    BY <1>1, <2>1 DEF LockFast, FastStep, Quiet, timer, LockState, TimerKept, AInv
<1>3. /\ \A u \in Threads, o \in Mutexes : u # t \/ o # m => lock'[u][o] = lock[u][o]
      /\ lock'[t][m] = IF Counted(m) = {} THEN "holds" ELSE "wants"
  BY <1>1 DEF LInv
<1>4. OnePlace(m) /\ WantedOK(m)
  BY DEF LInv
<1>5. /\ UnlockQueued(m)' <=> UnlockQueued(m)
      /\ UnlockHandled(m)' <=> UnlockHandled(m)
      /\ OneUnlock(m)' <=> OneUnlock(m)
      /\ mutex_ready_table' = mutex_ready_table
  BY <1>2, FastUnlocks
<1>6. CASE Counted(m) = {}
  <2>1. ~Owed(m) /\ \A u \in Threads : lock[u][m] # "holds"
    BY <1>4, <1>6 DEF Counted, WantedOK
  <2>2. \A u \in Threads : u # t => lock'[u][m] \notin {"holds", "owes"}
    BY <2>1, <1>3 DEF Owed
  <2>3. ~UnlockQueued(m)' /\ ~UnlockHandled(m)' /\ m \notin mutex_ready_table'
    BY <2>1, <1>5 DEF Owed
  <2>4. OnePlace(m)' /\ WantedOK(m)'
    BY <2>2, <2>3, <1>3, <1>6, TakenPlace
  <2> QED
    BY <2>4, <1>2, FastFacts
<1>7. CASE Counted(m) # {}
  <2>1. \A u \in Threads : Has(u, m)' <=> Has(u, m)
    BY <1>1, <1>3, <1>7 DEF Has
  <2>2. OnePlace(m)'
    BY <2>1, <1>4, <1>5 DEF OnePlace
  <2>3. \A u \in Threads : (lock'[u][m] = "owes" <=> lock[u][m] = "owes")
                           /\ (lock'[u][m] = "holds" <=> lock[u][m] = "holds")
    BY <1>1, <1>3, <1>7
  <2>4. Owed(m)' <=> Owed(m)
    BY <2>3, <1>5 DEF Owed
  <2>5. Owed(m) \/ \E u \in Threads : lock[u][m] = "holds"
    BY <1>4, <1>7 DEF Counted, WantedOK
  <2>6. WantedOK(m)'
    BY <2>3, <2>4, <2>5, <1>3, <1>7 DEF WantedOK
  <2> QED
    BY <2>2, <2>6, <1>2, FastFacts
<1> QED
  BY <1>6, <1>7, <1>2

LEMMA UnlockFastKeepsRest ==
    ASSUME MInv, AInv, CoreInv, FreedOK, LInv, NEW t \in Threads, NEW m \in Mutexes, UnlockFast(t, m)
    PROVE  FreedOK' /\ LInv' /\ FastStep(t, m)
<1>1. lock[t][m] = "holds" /\ lock' = [lock EXCEPT ![t][m] = IF Counted(m) = {t} THEN "out" ELSE "owes"]
  BY DEF UnlockFast
<1>2. FastStep(t, m)
  <2>1. call[t].sender = NONE
    BY DEF UnlockFast, Free, Idle
  <2> QED
    BY <1>1, <2>1 DEF UnlockFast, FastStep, Quiet, timer, LockState, TimerKept, AInv
<1>3. /\ \A u \in Threads, o \in Mutexes : u # t \/ o # m => lock'[u][o] = lock[u][o]
      /\ lock'[t][m] = IF Counted(m) = {t} THEN "out" ELSE "owes"
  BY <1>1 DEF LInv
<1>4. OnePlace(m) /\ WantedOK(m)
  BY DEF LInv
<1>5. /\ UnlockQueued(m)' <=> UnlockQueued(m)
      /\ UnlockHandled(m)' <=> UnlockHandled(m)
      /\ OneUnlock(m)' <=> OneUnlock(m)
      /\ mutex_ready_table' = mutex_ready_table
  BY <1>2, FastUnlocks
<1>6. /\ Has(t, m) /\ ~UnlockQueued(m) /\ ~UnlockHandled(m) /\ m \notin mutex_ready_table
      /\ \A u \in Threads : Has(u, m) => u = t
  BY <1>1, <1>4 DEF OnePlace, Has
<1>7. CASE Counted(m) = {t}
  <2>1. \A u \in Threads : lock'[u][m] \notin {"holds", "owes", "wants"}
    <3> TAKE u \in Threads
    <3>1. CASE u = t
      BY <3>1, <1>3, <1>7
    <3>2. CASE u # t
      <4>1. lock[u][m] \notin {"wants", "holds"}
        BY <3>2, <1>7 DEF Counted
      <4> QED
        BY <4>1, <3>2, <1>3, <1>6 DEF Has
    <3> QED
      BY <3>1, <3>2
  <2>2. OnePlace(m)'
    BY <2>1, <1>4, <1>5, <1>6 DEF OnePlace, Has
  <2>3. ~Owed(m)'
    BY <2>1, <1>5, <1>6 DEF Owed
  <2>4. WantedOK(m)'
    BY <2>1, <2>3 DEF WantedOK
  <2> QED
    BY <2>2, <2>4, <1>2, FastFacts
<1>8. CASE Counted(m) # {t}
  <2>1. \A u \in Threads : Has(u, m)' <=> Has(u, m)
    BY <1>1, <1>3, <1>8 DEF Has
  <2>2. OnePlace(m)'
    BY <2>1, <1>4, <1>5 DEF OnePlace
  <2>3. PICK u \in Threads : u # t /\ lock[u][m] \in {"wants", "holds"}
    <3>1. t \in Counted(m)
      BY <1>1 DEF Counted
    <3>2. PICK u \in Counted(m) : u # t
      BY <3>1, <1>8
    <3> QED
      BY <3>2 DEF Counted
  <2>4. lock'[u][m] = "wants"
    BY <2>3, <1>3, <1>6 DEF Has
  <2>5. Owed(m)'
    BY <1>3, <1>8 DEF Owed
  <2>6. WantedOK(m)'
    BY <2>4, <2>5 DEF WantedOK
  <2> QED
    BY <2>2, <2>6, <1>2, FastFacts
<1> QED
  BY <1>7, <1>8, <1>2

-----------------------------------------------------------------------------
(***************************************************************************)
(* Every step keeps the invariant.                                         *)
(***************************************************************************)
\* A message is done with, and neither lets anybody in nor is an unlock.
LEMMA DoneKeeps ==
    ASSUME TickInv, MACInv', failed' = {}, queue' = queue, msg # NONE, msg' = NONE,
           msg.op # "UnlockMutex", \A t \in Threads : call'[t] = call[t] \/ call'[t].op = NONE,
           lock' = lock, mutex_ready_table' = mutex_ready_table, mutex_hash' = mutex_hash,
           \A c \in Condvars, s \in Senders : In(notify_table'[c], s) =>
              \/ In(notify_table[c], s) /\ ~Recalc(msg, s)
              \/ msg.op = "WaitForCondition" /\ c = msg.id
    PROVE  TickInv'
<1>1. FreedOK' /\ LInv'
  BY HandledKeepsRest DEF TickInv, TInv
<1>2. LoopOK'
  BY DEF LoopOK
<1> QED
  BY <1>1, <1>2 DEF TickInv, TInv, MACInv

LEMMA AnsweredOrSame ==
    ASSUME CallsOK, NEW S \in SUBSET Senders, call' = Answered(S)
    PROVE  \A t \in Threads : call'[t] = call[t] \/ call'[t].op = NONE
BY AnsweredFacts

LEMMA ReceiveTickInv ==
    ASSUME TickInv, Receive
    PROVE  TickInv'
<1> USE DEF TickInv, TInv, MACInv
<1>1. MACInv'
  BY ReceiveKeeps
<1>2. FreedOK' /\ LInv'
  BY ReceiveKeepsRest
<1>3. LoopOK'
  <2>1. msg' = queue[1] /\ 1 \in DOMAIN queue
    BY TailFacts DEF Receive, MInv, LettersOK
  <2> QED
    BY <2>1 DEF LoopOK, MInv, LettersOK
<1> QED
  BY <1>1, <1>2, <1>3 DEF Receive

LEMMA ElapsedMsTickInv ==
    ASSUME TickInv, ElapsedMs
    PROVE  TickInv'
<1> USE DEF TickInv, TInv, MACInv
<1>1. /\ msg # NONE /\ msg.op = "ElapsedMs" /\ msg' = NONE /\ queue' = queue /\ Answer({msg.sender})
      /\ UNCHANGED tables /\ failed' = failed
  BY DEF ElapsedMs, Handle
<1>2. msg.sender \in Senders /\ msg.sender # NONE /\ \A s : ~Recalc(msg, s)
  BY <1>1, TicktimerAssumption DEF MInv, LettersOK, Fits, Owing, BlockingOps, Letter, Recalc
<1>3. PICK w \in Threads : call[w].sender = msg.sender /\ call[w].op = "ElapsedMs"
  BY <1>1 DEF MInv, SentOK, Sent, Owing, BlockingOps
<1>4. call' = Answered({msg.sender}) /\ lock' = LocksAfter({msg.sender})
  BY <1>1, AnswerIs
<1>5. lock' = lock
  BY <1>2, <1>3, <1>4, OthersNotLocked DEF MInv, LInv
<1>6. \A t \in Threads : call'[t] = call[t] \/ call'[t].op = NONE
  BY <1>2, <1>4, AnsweredOrSame DEF MInv
<1>7. MACInv'
  BY ElapsedMsKeeps
<1> QED
  BY <1>1, <1>2, <1>5, <1>6, <1>7, DoneKeeps DEF tables

LEMMA SleepMsTickInv ==
    ASSUME TickInv, SleepMs
    PROVE  TickInv'
<1> USE DEF TickInv, TInv, MACInv
<1>1. /\ msg # NONE /\ msg.op = "SleepMs" /\ msg' = NONE /\ queue' = queue /\ call' = call
      /\ lock' = lock /\ UNCHANGED tables /\ failed' = failed
  BY DEF SleepMs, Handle
<1>2. \A s : ~Recalc(msg, s)
  BY <1>1 DEF Recalc
<1>3. MACInv'
  BY SleepMsKeeps
<1> QED
  BY <1>1, <1>2, <1>3, DoneKeeps DEF tables

LEMMA RecalculateSleepTickInv ==
    ASSUME TickInv, RecalculateSleep
    PROVE  TickInv'
<1> USE DEF TickInv, TInv, MACInv
<1>1. /\ msg # NONE /\ msg.op = "RecalculateSleep" /\ msg' = NONE /\ queue' = queue /\ call' = call
      /\ lock' = lock /\ mutex_hash' = mutex_hash /\ mutex_ready_table' = mutex_ready_table
  BY DEF RecalculateSleep, Handle
<1>2. /\ MACInv' /\ failed' = {}
      /\ \A c \in Condvars, x \in Senders : In(notify_table'[c], x) =>
            In(notify_table[c], x) /\ ~Recalc(msg, x)
  BY RecalculateSleepKeeps
<1> QED
  BY <1>1, <1>2, DoneKeeps

LEMMA LockMutexTickInv ==
    ASSUME TickInv, LockMutex
    PROVE  TickInv'
<1> USE DEF TickInv, TInv, MACInv
<1>1. MACInv' /\ FreedOK' /\ LInv' /\ failed' = {}
  BY LockMutexKeeps, LockMutexKeepsRest
<1>2. LoopOK'
  BY DEF LockMutex, Handle, LoopOK
<1> QED
  BY <1>1, <1>2

LEMMA UnlockMutexTickInv ==
    ASSUME TickInv, UnlockMutex
    PROVE  TickInv'
<1> USE DEF TickInv, TInv, MACInv
<1>1. MACInv' /\ FreedOK' /\ LInv' /\ failed' = {}
  BY UnlockMutexKeeps, UnlockMutexKeepsRest
<1>2. LoopOK'
  BY DEF UnlockMutex, Handle, LoopOK
<1> QED
  BY <1>1, <1>2

LEMMA FreeMutexTickInv ==
    ASSUME TickInv, FreeMutex
    PROVE  TickInv'
<1> USE DEF TickInv, TInv, MACInv
<1>1. /\ msg # NONE /\ msg.op = "FreeMutex" /\ msg' = NONE /\ queue' = queue /\ call' = call
      /\ lock' = lock /\ notify_table' = notify_table
  BY DEF FreeMutex, Handle
<1>2. \A s : ~Recalc(msg, s)
  BY <1>1 DEF Recalc
<1>3. MACInv' /\ mutex_hash' = mutex_hash /\ mutex_ready_table' = mutex_ready_table /\ failed' = {}
  BY FreeMutexKeeps
<1> QED
  BY <1>1, <1>2, <1>3, DoneKeeps

LEMMA WaitForConditionTickInv ==
    ASSUME TickInv, WaitForCondition
    PROVE  TickInv'
<1> USE DEF TickInv, TInv, MACInv
<1>1. /\ msg # NONE /\ msg.op = "WaitForCondition" /\ msg' = NONE /\ queue' = queue /\ call' = call
      /\ lock' = lock /\ mutex_hash' = mutex_hash /\ mutex_ready_table' = mutex_ready_table
      /\ failed' = failed /\ notify_table' = [notify_table EXCEPT ![msg.id] = Append(@, msg.sender)]
  BY DEF WaitForCondition, Handle
<1>2. \A s : ~Recalc(msg, s)
  BY <1>1 DEF Recalc
<1>3. \A c \in Condvars : notify_table'[c] = notify_table[c] \/ c = msg.id
  BY <1>1 DEF CoreInv, TablesOK
<1>4. MACInv'
  BY WaitForConditionKeeps
<1> QED
  BY <1>1, <1>2, <1>3, <1>4, DoneKeeps

LEMMA NotifyConditionTickInv ==
    ASSUME TickInv, NotifyCondition
    PROVE  TickInv'
<1> USE DEF TickInv, TInv, MACInv
<1>1. /\ msg # NONE /\ msg.op = "NotifyCondition" /\ queue' = queue /\ call' = call
      /\ lock' = lock /\ UNCHANGED tables /\ failed' = failed
  BY DEF NotifyCondition
<1>2. msg'.op = "notifying"
  BY <1>1 DEF NotifyCondition, MInv, LettersOK, Letter
<1>3. \A s : ~Recalc(msg, s)
  BY <1>1 DEF Recalc
<1>4. MACInv' /\ LoopOK'
  BY NotifyConditionKeeps
<1>5. FreedOK' /\ LInv'
  BY <1>1, <1>2, <1>3, HandledKeepsRest DEF tables
<1> QED
  BY <1>1, <1>4, <1>5

LEMMA NotifyEntryTickInv ==
    ASSUME TickInv, NotifyEntry
    PROVE  TickInv'
<1> USE DEF TickInv, TInv, MACInv
<1> PICK c : c = msg.id
  OBVIOUS
<1> PICK e : e = Head(notify_table[c])
  OBVIOUS
<1>1. /\ msg # NONE /\ msg.op = "notifying" /\ msg.arg > 0 /\ queue' = queue
      /\ mutex_hash' = mutex_hash /\ mutex_ready_table' = mutex_ready_table
      /\ notify_table' = [notify_table EXCEPT ![c] = Tail(@)]
      /\ msg' = [msg EXCEPT !.arg = @ - 1]
      /\ \/ TimedOut(e) /\ call' = call /\ lock' = lock
         \/ ~TimedOut(e) /\ Answer({e})
  BY DEF NotifyEntry, Notifying, TakeEntry
<1>2. c \in Condvars /\ msg.arg \in Nat /\ msg'.op = "notifying" /\ \A s : ~Recalc(msg, s)
  BY <1>1 DEF MInv, LettersOK, Fits, ConditionOps, Letter, Recalc
<1>3. notify_table[c] # <<>>
  <2>1. msg.arg <= Len(notify_table[c])
    BY <1>1 DEF LoopOK
  <2> QED
    BY <1>1, <1>2, <2>1
<1>4. /\ e \in Senders /\ In(notify_table[c], e)
      /\ \A d \in Condvars, x \in Senders : In(notify_table'[d], x) => In(notify_table[d], x)
  BY <1>1, <1>2, <1>3, TakenFromList
<1>5. lock' = lock /\ \A t \in Threads : call'[t] = call[t] \/ call'[t].op = NONE
  <2>1. CASE TimedOut(e) /\ call' = call /\ lock' = lock
    BY <2>1
  <2>2. CASE ~TimedOut(e) /\ Answer({e})
    <3>1. PICK w \in Threads : WaitsFor(w, c, e)
      BY <1>2, <1>4, <2>2, LiveEntry
    <3>2. call[w].sender = e /\ call[w].sender # NONE /\ call[w].op # "LockMutex"
      BY <3>1 DEF WaitsFor, PutAway
    <3>3. call' = Answered({e}) /\ lock' = LocksAfter({e})
      BY <2>2, AnswerIs
    <3>4. lock' = lock
      BY <3>2, <3>3, OthersNotLocked DEF MInv, LInv
    <3> QED
      BY <3>3, <3>4, <1>4, AnsweredOrSame DEF MInv
  <2> QED
    BY <1>1, <2>1, <2>2
<1>6. MACInv' /\ LoopOK' /\ failed' = {}
  BY NotifyEntryKeeps
<1>7. FreedOK' /\ LInv'
  BY <1>1, <1>2, <1>4, <1>5, HandledKeepsRest
<1> QED
  BY <1>6, <1>7

LEMMA NotifyEndTickInv ==
    ASSUME TickInv, NotifyEnd
    PROVE  TickInv'
<1> USE DEF TickInv, TInv, MACInv
<1>1. /\ msg # NONE /\ msg.op = "notifying" /\ msg' = NONE /\ queue' = queue /\ Answer({msg.sender})
      /\ UNCHANGED tables /\ failed' = failed
  BY DEF NotifyEnd, Handle
<1>2. msg.sender \in Senders /\ msg.sender # NONE /\ \A s : ~Recalc(msg, s)
  BY <1>1, TicktimerAssumption DEF MInv, LettersOK, Fits, Owing, Letter, Recalc
<1>3. PICK w \in Threads : call[w].sender = msg.sender /\ call[w].op = "NotifyCondition"
  BY <1>1 DEF MInv, SentOK, Sent, Owing
<1>4. call' = Answered({msg.sender}) /\ lock' = LocksAfter({msg.sender})
  BY <1>1, AnswerIs
<1>5. lock' = lock
  BY <1>2, <1>3, <1>4, OthersNotLocked DEF MInv, LInv
<1>6. \A t \in Threads : call'[t] = call[t] \/ call'[t].op = NONE
  BY <1>2, <1>4, AnsweredOrSame DEF MInv
<1>7. MACInv'
  BY NotifyEndKeeps
<1> QED
  BY <1>1, <1>2, <1>5, <1>6, <1>7, DoneKeeps DEF tables

LEMMA FreeConditionTickInv ==
    ASSUME TickInv, FreeCondition
    PROVE  TickInv'
<1> USE DEF TickInv, TInv, MACInv
<1>1. /\ msg # NONE /\ msg.op = "FreeCondition" /\ msg' = NONE /\ queue' = queue
      /\ mutex_hash' = mutex_hash /\ mutex_ready_table' = mutex_ready_table
  BY DEF FreeCondition, Handle
<1>2. \A s : ~Recalc(msg, s)
  BY <1>1 DEF Recalc
<1>3. /\ MACInv' /\ notify_table' = notify_table /\ call' = call
      /\ lock' = LocksAfter({}) /\ failed' = {}
  BY FreeConditionKeeps
<1>4. lock' = lock
  BY <1>3, NobodyLocked DEF LInv
<1> QED
  BY <1>1, <1>2, <1>3, <1>4, DoneKeeps

LEMMA SuspendTickInv ==
    ASSUME TickInv, Suspend
    PROVE  TickInv'
<1> USE DEF TickInv, TInv, MACInv
<1>1. /\ msg # NONE /\ msg.op = "SuspendResume" /\ queue' = queue /\ call' = call
      /\ lock' = lock /\ UNCHANGED tables /\ failed' = failed
  BY DEF Suspend
<1>2. msg'.op = "resume"
  BY <1>1 DEF Suspend, MInv, LettersOK, Letter
<1>3. \A s : ~Recalc(msg, s)
  BY <1>1 DEF Recalc
<1>4. MACInv'
  BY SuspendKeeps
<1>5. FreedOK' /\ LInv'
  BY <1>1, <1>2, <1>3, HandledKeepsRest DEF tables
<1>6. LoopOK'
  BY <1>2 DEF LoopOK
<1> QED
  BY <1>1, <1>4, <1>5, <1>6

LEMMA ResumeTickInv ==
    ASSUME TickInv, Resume
    PROVE  TickInv'
<1> USE DEF TickInv, TInv, MACInv
<1>1. /\ msg # NONE /\ msg.op = "resume" /\ msg' = NONE /\ queue' = queue /\ call' = call
      /\ lock' = lock /\ UNCHANGED tables /\ failed' = failed
  BY DEF Resume, Handle
<1>2. \A s : ~Recalc(msg, s)
  BY <1>1 DEF Recalc
<1>3. MACInv'
  BY ResumeKeeps
<1> QED
  BY <1>1, <1>2, <1>3, DoneKeeps DEF tables

LEMMA HandleIrqTickInv ==
    ASSUME TickInv, RoomForAlarm, handle_irq
    PROVE  TickInv'
<1> USE DEF TickInv, TInv, MACInv
<1> PICK r : r = ticktimer.current_response
  OBVIOUS
<1> PICK x : x = Message("RecalculateSleep", NONE, r.data, r.sender)
  OBVIOUS
<1>1. /\ ticktimer.enabled /\ ticktimer.pending /\ Answer({r.sender})
      /\ queue' = Append(queue, x) /\ msg' = msg /\ UNCHANGED tables /\ failed' = failed
  BY DEF handle_irq, RoomForAlarm
<1>2. /\ r # NONE /\ r \in Requests /\ r.sender \in Senders
      /\ r.data \in Condvars \cup {NONE}
  BY <1>1, RequestFacts DEF AInv, AlarmIsSet, Timer, Requests, TimerRequest
<1>3. PICK w \in Threads : AsksFor(w, r)
  BY <1>2 DEF CoreInv, RequestsOK
<1>4. call[w].sender = r.sender /\ call[w].sender # NONE /\ call[w].op # "LockMutex"
  BY <1>3 DEF AsksFor, PutAway
<1>5. call' = Answered({r.sender}) /\ lock' = LocksAfter({r.sender})
  BY <1>1, AnswerIs
<1>6. lock' = lock
  BY <1>4, <1>5, OthersNotLocked DEF MInv, LInv
<1>7. \A t \in Threads : call'[t] = call[t] \/ call'[t].op = NONE
  BY <1>2, <1>5, AnsweredOrSame DEF MInv
<1>8. x \in Letter /\ x.op = "RecalculateSleep" /\ Fits(x)
  <2>1. r.sender \in Nat
    BY <1>2 DEF Senders
  <2>2. x \in Letter /\ x.op = "RecalculateSleep" /\ x.sender = NONE /\ x.arg = r.sender /\ x.id = r.data
    BY <1>2, <2>1 DEF Message, Letter, LoopOps
  <2> QED
    BY <1>2, <2>2 DEF Fits, ConditionOps, MutexOps, Owing, BlockingOps
<1>9. NONE \notin {"WaitForCondition", "LockMutex"}
  BY TicktimerAssumption DEF BlockingOps
<1>10. MACInv'
  BY HandleIrqKeeps
<1>11. FreedOK' /\ LInv'
  BY <1>1, <1>6, <1>7, <1>8, <1>9, AppendKeepsRest
<1>12. LoopOK'
  BY <1>1 DEF LoopOK, tables
<1> QED
  BY <1>1, <1>10, <1>11, <1>12

LEMMA TickTickInv ==
    ASSUME TickInv, Tick
    PROVE  TickInv'
<1> USE DEF TickInv, TInv, MACInv
<1>1. /\ queue' = queue /\ msg' = msg /\ lock' = lock /\ UNCHANGED tables /\ failed' = failed
  BY DEF Tick
<1>2. MACInv' /\ SameCalls
  BY TickKeeps, TickKeepsAInv
<1>3. CallsKept
  <2>1. \A t \in Threads : call[t].sender = NONE => call'[t].op \notin {"WaitForCondition", "LockMutex"}
    BY <1>2 DEF SameCalls, BlockingOps
  <2> QED
    BY <1>2, <2>1 DEF SameCalls, CallsKept
<1>4. FreedOK' /\ FreedMutexOK'
  BY <1>1, <1>3, SameKeepsFreed DEF LInv, tables
<1>5. \A o \in Mutexes : /\ UnlockQueued(o)' <=> UnlockQueued(o)
                         /\ UnlockHandled(o)' <=> UnlockHandled(o)
                         /\ OneUnlock(o) => OneUnlock(o)'
  BY <1>1 DEF UnlockQueued, UnlockHandled, OneUnlock, Unlocks
<1>6. \A t \in Threads : call'[t].op = "LockMutex" => lock[t][call'[t].id] = "wants"
  BY <1>3 DEF CallsKept, LInv
<1>7. LInv'
  BY <1>1, <1>4, <1>5, <1>6, QuietKeepsLInv DEF tables
<1>8. LoopOK'
  BY <1>1 DEF LoopOK, tables
<1> QED
  BY <1>1, <1>2, <1>4, <1>7, <1>8

\* The thread t, which was in no call, is now in a suspend.
BeginsSuspend(t) ==
    /\ call[t].op = NONE /\ call[t].sender = NONE
    /\ call'[t].op = "Suspend" /\ call'[t].sender = NONE /\ ~call'[t].timed

\* Neither the service nor its messages do anything, and the callers nothing but
\* to begin a suspend.
LEMMA StillMACInv ==
    ASSUME MACInv, queue' = queue, Quiet, call' \in [Threads -> Call],
           \A t \in Threads : call'[t] = call[t] \/ BeginsSuspend(t)
    PROVE  MACInv'
<1> USE DEF MACInv
<1>1. /\ TimerKept /\ msg' = msg /\ notify_table' = notify_table
      /\ mutex_hash' = mutex_hash /\ notifications_with_timeouts' = notifications_with_timeouts
  BY DEF Quiet, tables
<1>2. SameCalls
  <2>1. \A t \in Threads : /\ call[t].sender = NONE => call[t].op \notin BlockingOps /\ ~call[t].timed
                           /\ call[t].due \in Nat
    BY DEF MInv, CallsOK, Call, TimedOps, BlockingOps
  <2>2. "Suspend" \notin BlockingOps
    BY DEF BlockingOps
  <2> QED
    BY <2>1, <2>2 DEF SameCalls, BeginsSuspend
<1>3. MInv'
  BY <1>1, <1>2, TimeKeepsMInv
<1>4. AInv'
  <2>1. (Recalculating => Recalculating') /\ (Resuming => Resuming') /\ (Looping' <=> Looping)
    <3>1. \A t \in Threads : call[t].op = "Suspend" => call'[t].op = "Suspend"
      BY DEF BeginsSuspend
    <3> QED
      BY <1>1, <3>1 DEF Recalculating, Resuming, Looping
  <2> QED
    BY <1>1, <2>1, QuietKeepsAInv
<1>5. CoreSame
  <2>1. \A t \in Threads : /\ call'[t].sender = call[t].sender
                           /\ call[t].sender # NONE => call'[t] = call[t]
    BY DEF BeginsSuspend
  <2> QED
    BY <1>1, <2>1 DEF CoreSame, PutAway, Queued, Pending
<1>6. Requests' = Requests
  BY <1>1, KeptRequests
<1> QED
  BY <1>1, <1>3, <1>4, <1>5, <1>6, SameKeepsCore

LEMMA StillTickInv ==
    ASSUME TickInv, queue' = queue, Quiet, lock' = lock, call' \in [Threads -> Call],
           \A t \in Threads : call'[t] = call[t] \/ BeginsSuspend(t)
    PROVE  TickInv'
<1> USE DEF TickInv, TInv
<1>1. UNCHANGED tables /\ msg' = msg /\ failed' = failed
  BY DEF Quiet
<1>2. MACInv'
  BY StillMACInv DEF MACInv
<1>3. \A t \in Threads : call'[t].op \in {"WaitForCondition", "LockMutex"} => call'[t] = call[t]
  BY DEF BeginsSuspend
<1>4. FreedOK' /\ FreedMutexOK'
  BY <1>1, <1>3, SameKeepsFreed DEF LInv, tables, CallsKept
<1>5. \A o \in Mutexes : /\ UnlockQueued(o)' <=> UnlockQueued(o)
                         /\ UnlockHandled(o)' <=> UnlockHandled(o)
                         /\ OneUnlock(o) => OneUnlock(o)'
  BY <1>1 DEF UnlockQueued, UnlockHandled, OneUnlock, Unlocks
<1>6. LInv'
  <2>1. \A t \in Threads : call'[t].op = "LockMutex" => lock[t][call'[t].id] = "wants"
    BY <1>3 DEF LInv
  <2> QED
    BY <1>1, <1>4, <1>5, <2>1, QuietKeepsLInv DEF tables
<1>7. LoopOK'
  BY <1>1 DEF LoopOK, tables
<1> QED
  BY <1>1, <1>2, <1>4, <1>6, <1>7 DEF MACInv

LEMMA StutterTickInv ==
    ASSUME TickInv, UNCHANGED vars
    PROVE  TickInv'
<1>1. queue' = queue /\ call' = call /\ lock' = lock /\ call' \in [Threads -> Call]
  BY DEF vars, TickInv, MInv, CallsOK
<1>2. Quiet
  BY DEF vars, timer, Quiet, TimerKept, TickInv, AInv
<1> QED
  BY <1>1, <1>2, StillTickInv

LEMMA SendsTickInv ==
    ASSUME TickInv, NEW t \in Threads, NEW op \in BlockingOps,
           NEW id \in Condvars \cup Mutexes \cup {NONE}, NEW arg \in Nat,
           op \in ConditionOps => id \in Condvars, op \in MutexOps => id \in Mutexes,
           op = "SleepMs" => arg > 0, SendBlocking(t, op, id, arg), lock' = lock,
           \/ call[t] = Idle
           \/ call[t].op = "Suspend" /\ op = "SleepMs",
           op = "LockMutex" => lock[t][id] = "wants"
    PROVE  TickInv'
<1> USE DEF TickInv, TInv, MACInv
<1>1. call[t].sender = NONE /\ (call[t].op = "Suspend" => op = "SleepMs")
  <2>1. NONE # "Suspend"
    BY TicktimerAssumption
  <2> QED
    BY <2>1 DEF Idle, MInv, CallsOK, BlockingOps
<1>2. MInv' /\ \E m : Sends(t, m) /\ m.op = op /\ m.id = id
  BY <1>1, SendIs
<1>3. PICK m : Sends(t, m) /\ m.op = op /\ m.id = id
  BY <1>2
<1>4. MACInv'
  BY <1>1, <1>2, <1>3, SendsKeeps
<1>5. /\ m \in Letter /\ Fits(m) /\ queue' = Append(queue, m) /\ msg' = msg /\ failed' = failed
      /\ UNCHANGED tables /\ m.op \notin {"UnlockMutex", "FreeMutex", "FreeCondition"}
  BY <1>3 DEF Sends, Quiet, BlockingOps
<1>6. \A u \in Threads : call'[u].op \in {"WaitForCondition", "LockMutex"} =>
         \/ /\ call'[u].op = call[u].op /\ call'[u].id = call[u].id
            /\ call'[u].sender = call[u].sender
         \/ /\ m.op \in BlockingOps /\ call'[u].sender = m.sender
            /\ call'[u].op = "LockMutex" => lock[u][call'[u].id] = "wants"
  BY <1>3 DEF Sends
<1>7. FreedOK' /\ LInv'
  BY <1>5, <1>6, AppendKeepsRest
<1>8. LoopOK'
  BY <1>5 DEF LoopOK, tables
<1> QED
  BY <1>4, <1>5, <1>7, <1>8

LEMMA PostIsQuiet ==
    ASSUME AInv, NEW op, NEW id, PostMessage(op, id)
    PROVE  queue' = Append(queue, Message(op, NONE, id, 0)) /\ Quiet
BY DEF PostMessage, Quiet, timer, TimerKept, AInv

\* What is sent without a reply.
LEMMA PostIs ==
    ASSUME NEW op \in PostedOps, NEW id \in Condvars \cup Mutexes \cup {NONE},
           op \in ConditionOps => id \in Condvars, op \in MutexOps => id \in Mutexes,
           queue' = Append(queue, Message(op, NONE, id, 0)), Quiet, call' = call
    PROVE  \E m : Posts(m) /\ m.op = op /\ m.id = id
<1> DEFINE m == Message(op, NONE, id, 0)
<1>1. queue' = Append(queue, m)
  OBVIOUS
<1>2. m \in Letter /\ m.op = op /\ m.id = id /\ m.sender = NONE
  BY DEF Message, Letter
<1> HIDE DEF m
<1>3. Fits(m)
  <2>1. m.op \notin Owing /\ m.op # "RecalculateSleep" /\ m.op # "SleepMs"
    BY <1>2 DEF PostedOps, Owing, BlockingOps
  <2> QED
    BY <1>2, <2>1 DEF Fits
<1>4. Posts(m)
  BY <1>1, <1>2, <1>3 DEF Posts
<1> QED
  BY <1>2, <1>4

LEMMA PostsTickInv ==
    ASSUME TickInv, NEW m, Posts(m), lock' = lock, m.op # "UnlockMutex",
           m.op = "FreeCondition" => \A t \in Threads : ~(call[t].op = "WaitForCondition" /\ call[t].id = m.id),
           m.op = "FreeMutex" => \A t \in Threads : lock[t][m.id] = "out"
    PROVE  TickInv'
<1> USE DEF TickInv, TInv, MACInv
<1>1. MACInv'
  BY PostsKeeps
<1>2. /\ m \in Letter /\ Fits(m) /\ queue' = Append(queue, m) /\ msg' = msg /\ failed' = failed
      /\ UNCHANGED tables
  BY DEF Posts, Quiet
<1>3. FreedOK' /\ LInv'
  <2>1. \A u \in Threads : call'[u].op \in {"WaitForCondition", "LockMutex"} => call'[u] = call[u]
    BY DEF Posts
  <2> QED
    BY <1>2, <2>1, AppendKeepsRest
<1>4. LoopOK'
  BY <1>2 DEF LoopOK, tables
<1> QED
  BY <1>1, <1>2, <1>3, <1>4

LEMMA CallsTickInv ==
    ASSUME TickInv, NEW t \in Threads,
           CallElapsed(t) \/ CallSleep(t) \/ SleepAfterSuspend(t)
    PROVE  TickInv'
<1>1. \A ms \in SleepTimes : ms \in Nat /\ ms > 0
  BY TicktimerAssumption
<1>2. "ElapsedMs" \in BlockingOps /\ "SleepMs" \in BlockingOps
      /\ "ElapsedMs" \notin ConditionOps \cup MutexOps /\ "SleepMs" \notin ConditionOps \cup MutexOps
  BY DEF BlockingOps, ConditionOps, MutexOps
<1>3. CASE CallElapsed(t)
  <2>1. call[t] = Idle /\ SendBlocking(t, "ElapsedMs", NONE, 0) /\ lock' = lock
    BY <1>3 DEF CallElapsed, Send, Free
  <2> QED
    BY <2>1, <1>2, SendsTickInv
<1>4. CASE CallSleep(t)
  <2>1. PICK ms \in SleepTimes : call[t] = Idle /\ SendBlocking(t, "SleepMs", NONE, ms) /\ lock' = lock
    BY <1>4 DEF CallSleep, Send, Free
  <2> QED
    BY <2>1, <1>1, <1>2, SendsTickInv
<1>5. CASE SleepAfterSuspend(t)
  <2>1. PICK ms \in SleepTimes : /\ call[t].op = "Suspend"
                                 /\ SendBlocking(t, "SleepMs", NONE, ms) /\ lock' = lock
    BY <1>5 DEF SleepAfterSuspend
  <2> QED
    BY <2>1, <1>1, <1>2, SendsTickInv
<1> QED
  BY <1>3, <1>4, <1>5

LEMMA ConditionCallsTickInv ==
    ASSUME TickInv, NEW t \in Threads, NEW c \in Condvars,
           CallWait(t, c) \/ CallNotify(t, c) \/ DropCondvar(t, c)
    PROVE  TickInv'
<1>1. \A ms \in WaitTimes \cup {0} : ms \in Nat
  BY TicktimerAssumption
<1>2. /\ "WaitForCondition" \in BlockingOps /\ "NotifyCondition" \in BlockingOps
      /\ "WaitForCondition" \notin MutexOps /\ "NotifyCondition" \notin MutexOps
      /\ "FreeCondition" \in PostedOps /\ "FreeCondition" \notin MutexOps
  BY DEF BlockingOps, PostedOps, MutexOps
<1>3. CASE CallWait(t, c)
  <2>1. PICK ms \in WaitTimes \cup {0} : /\ call[t] = Idle /\ lock' = lock
                                         /\ SendBlocking(t, "WaitForCondition", c, ms)
    BY <1>3 DEF CallWait, Send, Free
  <2> QED
    BY <2>1, <1>1, <1>2, SendsTickInv
<1>4. CASE CallNotify(t, c)
  <2>1. PICK n \in {0, 1} : /\ call[t] = Idle /\ lock' = lock
                            /\ SendBlocking(t, "NotifyCondition", c, n)
    BY <1>4 DEF CallNotify, Send, Free
  <2>2. n \in Nat
    OBVIOUS
  <2> QED
    BY <2>1, <2>2, <1>2, SendsTickInv
<1>5. CASE DropCondvar(t, c)
  <2>1. /\ PostMessage("FreeCondition", c) /\ call' = call /\ lock' = lock
        /\ \A u \in Threads : ~(call[u].op = "WaitForCondition" /\ call[u].id = c)
    BY <1>5 DEF DropCondvar, Post
  <2>2. queue' = Append(queue, Message("FreeCondition", NONE, c, 0)) /\ Quiet
    BY <2>1, PostIsQuiet DEF TickInv
  <2>3. PICK m : Posts(m) /\ m.op = "FreeCondition" /\ m.id = c
    BY <2>1, <2>2, <1>2, PostIs
  <2> QED
    BY <2>1, <2>3, PostsTickInv
<1> QED
  BY <1>3, <1>4, <1>5

LEMMA MutexCallsTickInv ==
    ASSUME TickInv, NEW t \in Threads, NEW m \in Mutexes,
           LockFast(t, m) \/ AskForLock(t, m) \/ UnlockFast(t, m) \/ TellUnlock(t, m) \/ DropMutex(t, m)
    PROVE  TickInv'
<1> USE DEF TickInv, TInv
<1>1. /\ "LockMutex" \in BlockingOps /\ "LockMutex" \notin ConditionOps
      /\ {"UnlockMutex", "FreeMutex"} \subseteq PostedOps
      /\ {"UnlockMutex", "FreeMutex"} \cap ConditionOps = {}
  BY DEF BlockingOps, PostedOps, ConditionOps
<1>2. CASE LockFast(t, m) \/ UnlockFast(t, m)
  <2>1. FreedOK' /\ LInv' /\ FastStep(t, m)
    BY <1>2, LockFastKeepsRest, UnlockFastKeepsRest
  <2>2. MACInv'
    BY <2>1, StillMACInv DEF FastStep, MACInv, MInv, CallsOK
  <2>3. LoopOK' /\ failed' = {}
    BY <2>1 DEF FastStep, Quiet, LoopOK, tables
  <2> QED
    BY <2>1, <2>2, <2>3 DEF MACInv
<1>3. CASE AskForLock(t, m)
  <2>1. /\ call[t] = Idle /\ lock' = lock /\ lock[t][m] = "wants" /\ SendBlocking(t, "LockMutex", m, 0)
    BY <1>3 DEF AskForLock, Send, Free
  <2> QED
    BY <2>1, <1>1, SendsTickInv
<1>4. CASE DropMutex(t, m)
  <2>1. /\ PostMessage("FreeMutex", m) /\ call' = call /\ lock' = lock
        /\ \A u \in Threads : lock[u][m] = "out"
    BY <1>4 DEF DropMutex, Post
  <2>2. queue' = Append(queue, Message("FreeMutex", NONE, m, 0)) /\ Quiet
    BY <2>1, PostIsQuiet
  <2>3. PICK x : Posts(x) /\ x.op = "FreeMutex" /\ x.id = m
    BY <2>1, <2>2, <1>1, PostIs
  <2> QED
    BY <2>1, <2>3, PostsTickInv
<1>5. CASE TellUnlock(t, m)
  <2>1. /\ PostMessage("UnlockMutex", m) /\ call' = call /\ lock[t][m] = "owes"
        /\ lock' = [lock EXCEPT ![t][m] = "out"]
    BY <1>5 DEF TellUnlock, Post
  <2>2. queue' = Append(queue, Message("UnlockMutex", NONE, m, 0)) /\ Quiet
    BY <2>1, PostIsQuiet
  <2>3. PICK x : Posts(x) /\ x.op = "UnlockMutex" /\ x.id = m
    BY <2>1, <2>2, <1>1, PostIs
  <2>4. MACInv'
    BY <2>3, PostsKeeps DEF MACInv
  <2>5. /\ x \in Letter /\ Fits(x) /\ queue' = Append(queue, x) /\ msg' = msg /\ failed' = failed
        /\ UNCHANGED tables /\ Unlocks(x, m)
    BY <2>3 DEF Posts, Quiet, Unlocks
  <2>6. FreedOK' /\ LInv'
    BY <2>1, <2>5, TellUnlockKeepsRest
  <2>7. LoopOK'
    BY <2>5 DEF LoopOK, tables
  <2> QED
    BY <2>4, <2>5, <2>6, <2>7 DEF MACInv
<1> QED
  BY <1>2, <1>3, <1>4, <1>5

LEMMA CallSuspendTickInv ==
    ASSUME TickInv, NEW t \in Threads, CallSuspend(t)
    PROVE  TickInv'
<1>1. /\ call[t] = Idle /\ queue' = queue /\ lock' = lock /\ UNCHANGED tables /\ failed' = failed
      /\ msg' = msg /\ call' = [call EXCEPT ![t].op = "Suspend"] /\ call \in [Threads -> Call]
      /\ ticktimer' = [ticktimer EXCEPT !.told = @ + 1] /\ ticktimer \in Timer
  BY DEF CallSuspend, Free, TickInv, MInv, CallsOK, AInv
<1>2. /\ Idle.sender = NONE /\ Idle.op = NONE /\ ~Idle.timed
  BY DEF Idle
<1>3. /\ BeginsSuspend(t) /\ call' \in [Threads -> Call]
      /\ \A u \in Threads : u # t => call'[u] = call[u]
  BY <1>1, <1>2 DEF Call, BeginsSuspend
<1>4. Quiet
  BY <1>1 DEF Timer, TimerKept, Quiet
<1> QED
  BY <1>1, <1>3, <1>4, StillTickInv

LEMMA CallbackTickInv ==
    ASSUME TickInv, suspend_cb_server
    PROVE  TickInv'
<1>1. /\ queue' = Append(queue, Message("SuspendResume", NONE, NONE, 0)) /\ call' = call
      /\ lock' = lock /\ UNCHANGED tables /\ failed' = failed /\ msg' = msg
      /\ ticktimer.told > 0 /\ ticktimer' = [ticktimer EXCEPT !.told = @ - 1] /\ ticktimer \in Timer
  BY DEF suspend_cb_server, TickInv, AInv
<1>2. Quiet
  BY <1>1 DEF Timer, TimerKept, Quiet
<1>3. /\ "SuspendResume" \in PostedOps /\ "SuspendResume" \notin ConditionOps \cup MutexOps
  BY DEF PostedOps, ConditionOps, MutexOps
<1>4. PICK m : Posts(m) /\ m.op = "SuspendResume"
  BY <1>1, <1>2, <1>3, PostIs
<1> QED
  BY <1>1, <1>4, PostsTickInv

LEMMA ClientTickInv ==
    ASSUME TickInv, NEW t \in Threads, Client(t)
    PROVE  TickInv'
BY CallsTickInv, ConditionCallsTickInv, MutexCallsTickInv, CallSuspendTickInv DEF Client

LEMMA InitTickInv ==
    ASSUME Init
    PROVE  TickInv
<1>1. CallsOK
  BY TicktimerAssumption DEF Init, CallsOK, Call, Idle, BlockingOps
<1>2. MInv
  BY <1>1 DEF Init, MInv, LettersOK, SentOK, AlarmFirst, Letter, Recalc
<1>3. Requests = {}
  BY DEF Init, Requests
<1>4. AInv
  <2>1. ticktimer \in Timer /\ IsFiniteSet(ticktimer.sleep_heap)
    BY FS_EmptySet DEF Init, Timer
  <2>3. AlarmIsSet
    BY DEF Init, AlarmIsSet
  <2> QED
    BY <2>1, <2>3 DEF Init, AInv
<1>5. \A t \in Threads : ~PutAway(t) /\ call[t].op = NONE
  BY DEF Init, Idle, PutAway
<1>6. /\ \A s : \A c \in Condvars : ~In(notify_table[c], s)
      /\ \A s : \A m \in Mutexes : ~In(mutex_hash[m], s)
  BY DEF Init, In
<1>7. CoreInv
  BY <1>3, <1>5, <1>6
     DEF Init, CoreInv, TablesOK, RequestsOK, WaitersOK, TimeoutsOK, LockersOK, FoundOK, NoTwice
<1>8. LoopOK /\ FreedOK
  BY DEF Init, LoopOK, FreedOK
<1>9. LInv
  <2>1. \A t \in Threads, m \in Mutexes : lock[t][m] = "out"
    BY DEF Init
  <2>2. \A m \in Mutexes : OnePlace(m) /\ WantedOK(m)
    <3> TAKE m \in Mutexes
    <3>1. ~Owed(m) /\ ~UnlockQueued(m) /\ ~UnlockHandled(m)
      BY <2>1 DEF Init, Owed, UnlockQueued, UnlockHandled
    <3>2. OneUnlock(m)
      BY DEF Init, OneUnlock
    <3> QED
      BY <2>1, <3>1, <3>2 DEF Init, OnePlace, WantedOK, Has
  <2>3. NONE # "LockMutex"
    BY TicktimerAssumption DEF BlockingOps
  <2> QED
    BY <2>2, <2>3, <1>5 DEF Init, LInv, LockState, FreedMutexOK
<1> QED
  BY <1>2, <1>4, <1>7, <1>8, <1>9 DEF Init, TickInv, TInv

LEMMA NextTickInv ==
    ASSUME TickInv, RoomForAlarm, [Next]_vars
    PROVE  TickInv'
<1>1. CASE UNCHANGED vars
  BY <1>1, StutterTickInv
<1>2. CASE Serve
  BY <1>2, ReceiveTickInv, ElapsedMsTickInv, SleepMsTickInv, RecalculateSleepTickInv,
     LockMutexTickInv, UnlockMutexTickInv, FreeMutexTickInv, WaitForConditionTickInv,
     NotifyConditionTickInv, NotifyEntryTickInv, NotifyEndTickInv, FreeConditionTickInv,
     SuspendTickInv, ResumeTickInv DEF Serve
<1>3. CASE handle_irq
  BY <1>3, HandleIrqTickInv
<1>4. CASE Tick
  BY <1>4, TickTickInv
<1>5. CASE \E t \in Threads : Client(t)
  BY <1>5, ClientTickInv
<1>6. CASE suspend_cb_server
  BY <1>6, CallbackTickInv
<1> QED
  BY <1>1, <1>2, <1>3, <1>4, <1>5, <1>6 DEF Next

-----------------------------------------------------------------------------
(***************************************************************************)
(* How many slots are enough.  A thread has one call; the messages without *)
(* a reply are bounded; and the interrupt's messages are about different   *)
(* senders, of which there are no more than threads, because the kernel    *)
(* gives out the lowest.                                                   *)
(***************************************************************************)
EnoughSlots == IsFiniteSet(Threads) /\ NumSlots >= 2 * Cardinality(Threads) + MaxPosted

LowSenders == 0 .. Cardinality(Threads) - 1
SizeInv ==
    /\ \A t \in Threads : call[t].sender # NONE => call[t].sender \in LowSenders
    /\ \A i \in DOMAIN queue : queue[i].op = "RecalculateSleep" => queue[i].arg \in LowSenders
    /\ Posted <= MaxPosted

Kind(S) == {i \in DOMAIN queue : queue[i].op \in S}

LEMMA LowSendersCount ==
    ASSUME IsFiniteSet(Threads)
    PROVE  /\ Cardinality(Threads) \in Nat
           /\ IsFiniteSet(LowSenders) /\ Cardinality(LowSenders) = Cardinality(Threads)
<1>1. Cardinality(Threads) \in Nat
  BY FS_CardinalityType
<1>2. /\ IsFiniteSet(0 .. Cardinality(Threads) - 1)
      /\ Cardinality(0 .. Cardinality(Threads) - 1) =
            IF 0 > Cardinality(Threads) - 1 THEN 0 ELSE Cardinality(Threads) - 1 - 0 + 1
  BY <1>1, FS_Interval
<1> QED
  BY <1>1, <1>2 DEF LowSenders

LEMMA UnionCount ==
    ASSUME NEW A, NEW B, IsFiniteSet(A), IsFiniteSet(B)
    PROVE  /\ IsFiniteSet(A \cup B) /\ Cardinality(A \cup B) \in Nat
           /\ Cardinality(A \cup B) <= Cardinality(A) + Cardinality(B)
<1>1. IsFiniteSet(A \cap B)
  BY FS_Intersection
<1>2. Cardinality(A) \in Nat /\ Cardinality(B) \in Nat /\ Cardinality(A \cap B) \in Nat
  BY <1>1, FS_CardinalityType
<1>3. /\ IsFiniteSet(A \cup B)
      /\ Cardinality(A \cup B) = Cardinality(A) + Cardinality(B) - Cardinality(A \cap B)
  BY FS_Union
<1>4. Cardinality(A \cup B) \in Nat
  BY <1>3, FS_CardinalityType
<1> QED
  BY <1>2, <1>3, <1>4

\* A queue is no longer than its kinds of messages together.
LEMMA QueueCount ==
    ASSUME LettersOK
    PROVE  /\ \A S : IsFiniteSet(Kind(S)) /\ Cardinality(Kind(S)) \in Nat
           /\ Len(queue) \in Nat
           /\ Len(queue) <= Cardinality(Kind(BlockingOps)) + Cardinality(Kind(PostedOps))
                              + Cardinality(Kind({"RecalculateSleep"}))
<1> DEFINE B == Kind(BlockingOps)
           P == Kind(PostedOps)
           R == Kind({"RecalculateSleep"})
<1>1. Len(queue) \in Nat /\ DOMAIN queue = 1 .. Len(queue)
  BY DEF LettersOK
<1>2. IsFiniteSet(DOMAIN queue) /\ Cardinality(DOMAIN queue) = Len(queue)
  <2>1. IsFiniteSet(1 .. Len(queue))
        /\ Cardinality(1 .. Len(queue)) = IF 1 > Len(queue) THEN 0 ELSE Len(queue) - 1 + 1
    BY <1>1, FS_Interval
  <2> QED
    BY <1>1, <2>1
<1>3. \A S : IsFiniteSet(Kind(S)) /\ Cardinality(Kind(S)) \in Nat
  <2> TAKE S
  <2>1. Kind(S) \in SUBSET (DOMAIN queue)
    BY DEF Kind
  <2> QED
    BY <2>1, <1>2, FS_Subset, FS_CardinalityType
<1>4. DOMAIN queue = (B \cup P) \cup R
  <2>1. \A i \in DOMAIN queue : queue[i].op \in BlockingOps \cup PostedOps \cup {"RecalculateSleep"}
    <3> TAKE i \in DOMAIN queue
    <3>1. queue[i] \in Letter /\ queue[i].op \notin {"notifying", "resume"}
      BY DEF LettersOK
    <3> QED
      BY <3>1 DEF Letter, LoopOps
  <2> QED
    BY <2>1 DEF Kind
<1> HIDE DEF B, P, R
<1>5. IsFiniteSet(B) /\ IsFiniteSet(P) /\ IsFiniteSet(R)
      /\ Cardinality(B) \in Nat /\ Cardinality(P) \in Nat /\ Cardinality(R) \in Nat
  BY <1>3 DEF B, P, R
<1>6. IsFiniteSet(B \cup P) /\ Cardinality(B \cup P) <= Cardinality(B) + Cardinality(P)
      /\ Cardinality(B \cup P) \in Nat
  BY <1>5, UnionCount
<1>7. Cardinality((B \cup P) \cup R) <= Cardinality(B \cup P) + Cardinality(R)
      /\ Cardinality((B \cup P) \cup R) \in Nat
  BY <1>5, <1>6, UnionCount
<1>8. Len(queue) <= Cardinality(B) + Cardinality(P) + Cardinality(R)
  BY <1>1, <1>2, <1>4, <1>5, <1>6, <1>7
<1> QED
  BY <1>1, <1>3, <1>8 DEF B, P, R

\* Then there is room for the message of an alarm that goes off.
LEMMA EnoughIsRoom ==
    ASSUME TickInv, SizeInv, EnoughSlots
    PROVE  RoomForAlarm
<1> DEFINE s == ticktimer.current_response.sender
           N == Cardinality(Threads)
           B == Kind(BlockingOps)
           P == Kind(PostedOps)
           R == Kind({"RecalculateSleep"})
           K == {x \in Senders \ {s} : IsToken(x)}
           f == [i \in R |-> queue[i].arg]
           g == [i \in B |-> queue[i].sender]
<1> SUFFICES ASSUME ticktimer.enabled, ticktimer.pending
             PROVE  ~FullWithout({s})
  BY DEF RoomForAlarm
<1>0. MInv /\ AInv /\ TInv /\ LettersOK /\ CallsOK /\ SentOK /\ AlarmFirst
  BY DEF TickInv, MInv
<1>1. PICK w \in Threads : PutAway(w) /\ call[w].sender = s
  <2>1. ticktimer.current_response # NONE /\ ticktimer.current_response \in Requests
    BY <1>0, RequestFacts DEF AInv, AlarmIsSet, Timer, Requests
  <2> QED
    BY <2>1, <1>0 DEF TInv, CoreInv, RequestsOK, AsksFor
<1>2. s # NONE /\ ~Queued(s) /\ s \in LowSenders
  BY <1>1 DEF PutAway, SizeInv
<1>3. /\ N \in Nat /\ IsFiniteSet(LowSenders) /\ Cardinality(LowSenders) = N
      /\ NumSlots >= 2 * N + MaxPosted /\ MaxPosted \in Nat /\ NumSlots \in Nat
  BY LowSendersCount, TicktimerAssumption DEF EnoughSlots
<1>4. /\ IsFiniteSet(B) /\ IsFiniteSet(P) /\ IsFiniteSet(R)
      /\ Cardinality(B) \in Nat /\ Cardinality(P) \in Nat /\ Cardinality(R) \in Nat
      /\ Len(queue) \in Nat /\ Len(queue) <= Cardinality(B) + Cardinality(P) + Cardinality(R)
  BY <1>0, QueueCount
<1>5. Cardinality(P) <= MaxPosted
  BY DEF SizeInv, Posted, Kind
<1>6. Cardinality(R) <= N
  <2>1. f \in Injection(R, LowSenders)
    <3>1. \A i \in R : queue[i].arg \in LowSenders
      BY DEF SizeInv, Kind
    <3>2. \A i, j \in R : queue[i].arg = queue[j].arg => i = j
      BY <1>0 DEF AlarmFirst, Recalc, Kind
    <3> QED
      BY <3>1, <3>2 DEF Injection, IsInjective
  <2> HIDE DEF f, R
  <2> QED
    BY <2>1, <1>3, FS_Injection
<1>7. K \in SUBSET LowSenders
  <2>1. \A x \in K : x # NONE
    BY TicktimerAssumption
  <2> QED
    BY <2>1 DEF IsToken, SizeInv
<1>8. /\ IsFiniteSet(K) /\ Cardinality(K) \in Nat /\ IsFiniteSet(K \cup {s})
      /\ Cardinality(K \cup {s}) = Cardinality(K) + 1
      /\ IsFiniteSet(LowSenders \ (K \cup {s}))
      /\ Cardinality(LowSenders \ (K \cup {s})) = N - (Cardinality(K) + 1)
  <2>1. s \notin K
    OBVIOUS
  <2> HIDE DEF K, s
  <2>2. IsFiniteSet(K) /\ Cardinality(K) \in Nat
    BY <1>3, <1>7, FS_Subset, FS_CardinalityType
  <2>3. IsFiniteSet(K \cup {s}) /\ Cardinality(K \cup {s}) = Cardinality(K) + 1
    BY <2>1, <2>2, FS_AddElement
  <2>4. LowSenders \cap (K \cup {s}) = K \cup {s}
    BY <1>2, <1>7
  <2>5. /\ IsFiniteSet(LowSenders \ (K \cup {s}))
        /\ Cardinality(LowSenders \ (K \cup {s})) = N - Cardinality(LowSenders \cap (K \cup {s}))
    BY <1>3, FS_Difference
  <2> QED
    BY <2>2, <2>3, <2>4, <2>5
<1>9. Cardinality(B) <= N - (Cardinality(K) + 1)
  <2>1. g \in Injection(B, LowSenders \ (K \cup {s}))
    <3>1. \A i \in B : Queued(queue[i].sender) /\ queue[i].sender \in LowSenders
      <4> TAKE i \in B
      <4>1. i \in DOMAIN queue /\ queue[i].op \in BlockingOps
        BY DEF Kind
      <4>2. PICK t \in Threads : call[t].sender = queue[i].sender
        BY <1>0, <4>1 DEF SentOK, Sent
      <4>3. queue[i].sender # NONE
        BY <1>0, <4>1 DEF LettersOK, Fits, Owing
      <4> QED
        BY <4>1, <4>2, <4>3 DEF Queued, SizeInv
    <3>2. \A i \in B : queue[i].sender \notin K /\ queue[i].sender # s
      BY <3>1, <1>2 DEF IsToken
    <3>3. \A i, j \in B : queue[i].sender = queue[j].sender => i = j
      BY <1>0 DEF SentOK, Kind
    <3> QED
      BY <3>1, <3>2, <3>3 DEF Injection, IsInjective
  <2> HIDE DEF g, B, K, s
  <2> QED
    BY <2>1, <1>8, FS_Injection
<1> HIDE DEF B, P, R
<1>10. Len(queue) + Cardinality(K) < NumSlots
  <2> HIDE DEF K, N, s
  <2> QED
    BY <1>3, <1>4, <1>5, <1>6, <1>8, <1>9
<1> QED
  BY <1>3, <1>4, <1>8, <1>10 DEF FullWithout

\* What the queue's changes do to the number of messages without a reply.
LEMMA PostedAfter ==
    ASSUME LettersOK
    PROVE  /\ Posted \in Nat
           /\ queue # <<>> /\ queue' = Tail(queue) => Posted' <= Posted
           /\ \A m \in Letter : queue' = Append(queue, m) =>
                 /\ Posted' \in Nat /\ Posted' <= Posted + 1
                 /\ m.op \notin PostedOps => Posted' = Posted
<1> DEFINE P == {i \in DOMAIN queue : queue[i].op \in PostedOps}
<1>1. queue \in Seq(Letter) /\ DOMAIN queue = 1 .. Len(queue) /\ Len(queue) \in Nat
  BY DEF LettersOK
<1>2. IsFiniteSet(P) /\ Cardinality(P) \in Nat
  BY QueueCount DEF Kind
<1>3. ASSUME queue # <<>>, queue' = Tail(queue)
      PROVE  Posted' <= Posted
  <2> DEFINE Q == {i \in DOMAIN Tail(queue) : Tail(queue)[i].op \in PostedOps}
             f == [i \in Q |-> i + 1]
  <2>1. /\ DOMAIN Tail(queue) = 1 .. Len(queue) - 1
        /\ \A i \in DOMAIN Tail(queue) : Tail(queue)[i] = queue[i + 1]
    BY <1>1, <1>3, TailFacts
  <2>2. \A i \in Q : i \in Int /\ i + 1 \in P
    BY <1>1, <2>1
  <2>3. f \in Injection(Q, P)
    BY <2>2 DEF Injection, IsInjective
  <2> HIDE DEF f, P, Q
  <2>4. Cardinality(Q) <= Cardinality(P)
    BY <2>3, <1>2, FS_Injection
  <2> QED
    BY <2>4, <1>3 DEF Posted, P, Q
<1>4. ASSUME NEW m \in Letter, queue' = Append(queue, m)
      PROVE  /\ Posted' \in Nat /\ Posted' <= Posted + 1
             /\ m.op \notin PostedOps => Posted' = Posted
  <2> DEFINE Q == {i \in DOMAIN Append(queue, m) : Append(queue, m)[i].op \in PostedOps}
             n == Len(queue) + 1
  <2>1. /\ DOMAIN Append(queue, m) = 1 .. n /\ n \in Nat /\ n \notin DOMAIN queue
        /\ \A i \in DOMAIN queue : Append(queue, m)[i] = queue[i]
        /\ Append(queue, m)[n] = m
    BY <1>1, AppendFacts
  <2>2. Q = IF m.op \in PostedOps THEN P \cup {n} ELSE P
    <3>1. DOMAIN Append(queue, m) = DOMAIN queue \cup {n}
      BY <2>1, <1>1
    <3> QED
      BY <2>1, <3>1
  <2>3. n \notin P
    BY <2>1
  <2> HIDE DEF P, Q, n
  <2>4. Cardinality(P \cup {n}) = Cardinality(P) + 1
    BY <2>3, <1>2, FS_AddElement
  <2>5. Cardinality(Q) \in Nat /\ Cardinality(Q) <= Cardinality(P) + 1
        /\ (m.op \notin PostedOps => Cardinality(Q) = Cardinality(P))
    BY <2>2, <2>4, <1>2
  <2> QED
    BY <2>5, <1>4 DEF Posted, P, Q
<1> QED
  BY <1>2, <1>3, <1>4 DEF Posted

\* The sender that is given out is low: the lower ones are those of other threads.
LEMMA SenderIsLow ==
    ASSUME MInv, IsFiniteSet(Threads), ~QueueFull, NEW t \in Threads, call[t].sender = NONE
    PROVE  (CHOOSE s \in Unused : \A o \in Unused : s <= o) \in LowSenders
<1> DEFINE x == CHOOSE s \in Unused : \A o \in Unused : s <= o
           N == Cardinality(Threads)
<1>1. x \in Unused /\ \A o \in Unused : x <= o
  <2>1. x \in Unused
    BY FreeSender
  <2>2. Unused \in SUBSET Nat
    BY TicktimerAssumption DEF Unused, Senders
  <2> QED
    BY <2>1, <2>2, LeastNatural
<1> HIDE DEF x
<1>2. x \in Senders /\ x \in Nat /\ N \in Nat /\ NumSlots \in Nat
  BY <1>1, LowSendersCount, TicktimerAssumption DEF Unused, Senders
<1> SUFFICES ASSUME x >= N PROVE FALSE
  BY <1>2 DEF LowSenders, x
<1>3. \A y \in LowSenders : \E u \in Threads : call[u].sender = y
  <2> TAKE y \in LowSenders
  <2>1. y \in Senders /\ y \in Nat /\ y < x
    BY <1>2 DEF LowSenders, Senders
  <2>2. y \notin Unused
    BY <2>1, <1>1, <1>2
  <2>3. (\E u \in Threads : call[u].sender = y) \/ \E i \in DOMAIN queue : queue[i].sender = y
    BY <2>1, <2>2 DEF Unused
  <2>4. ASSUME NEW i \in DOMAIN queue, queue[i].sender = y
        PROVE  \E u \in Threads : call[u].sender = y
    <3>1. y # NONE
      BY <2>1, TicktimerAssumption
    <3>2. queue[i].op \in BlockingOps
      BY <2>4, <3>1 DEF MInv, LettersOK, Fits, Owing
    <3> QED
      BY <2>4, <3>2 DEF MInv, SentOK, Sent
  <2> QED
    BY <2>3, <2>4
<1> DEFINE f == [y \in LowSenders |-> CHOOSE u \in Threads : call[u].sender = y]
<1>4. \A y \in LowSenders : f[y] \in Threads /\ call[f[y]].sender = y
  BY <1>3
<1>5. \A y \in LowSenders : f[y] # t
  <2>1. \A y \in LowSenders : y # NONE
    <3>1. \A y \in LowSenders : y \in Senders
      BY <1>2 DEF LowSenders, Senders
    <3> QED
      BY <3>1, TicktimerAssumption
  <2> QED
    BY <2>1, <1>4
<1>6. f \in Injection(LowSenders, Threads \ {t})
  <2>1. f \in [LowSenders -> Threads \ {t}]
    BY <1>4, <1>5
  <2>2. \A y, z \in LowSenders : f[y] = f[z] => y = z
    BY <1>4
  <2> QED
    BY <2>1, <2>2 DEF Injection, IsInjective
<1> HIDE DEF f
<1>7. IsFiniteSet(Threads \ {t}) /\ Cardinality(Threads \ {t}) = N - 1
  BY FS_RemoveElement
<1>8. Cardinality(LowSenders) <= N - 1
  BY <1>6, <1>7, FS_Injection
<1> QED
  BY <1>2, <1>8, LowSendersCount

\* The calls that are over, and a queue that is left alone, take no room.
LEMMA AnsweredSize ==
    ASSUME SizeInv, queue' = queue, \A t \in Threads : call'[t].sender \in {NONE, call[t].sender}
    PROVE  SizeInv'
BY DEF SizeInv, Posted, LowSenders

LEMMA ReceiveSize ==
    ASSUME MInv, SizeInv, Receive
    PROVE  SizeInv'
<1>1. queue # <<>> /\ queue' = Tail(queue) /\ call' = call
  BY DEF Receive
<1>2. queue \in Seq(Letter) /\ LettersOK
  BY DEF MInv, LettersOK
<1>3. \A i \in DOMAIN queue' : i + 1 \in DOMAIN queue /\ queue'[i] = queue[i + 1]
  BY <1>1, <1>2, TailFacts
<1>4. Posted' <= Posted /\ Posted \in Nat /\ Posted' \in Nat
  <2>1. Posted' \in Nat
    <3>1. LettersOK'
      BY ReceiveKeepsMInv DEF MInv
    <3>2. \A q \in Seq(Letter) : IsFiniteSet({i \in DOMAIN q : q[i].op \in PostedOps})
      <4> TAKE q \in Seq(Letter)
      <4>1. IsFiniteSet(1 .. Len(q)) /\ DOMAIN q = 1 .. Len(q)
        BY FS_Interval
      <4> QED
        BY <4>1, FS_Subset
    <3> QED
      BY <3>1, <3>2, FS_CardinalityType DEF LettersOK, Posted
  <2> QED
    BY <1>1, <1>2, <2>1, PostedAfter
<1>5. Posted' <= MaxPosted
  BY <1>4, TicktimerAssumption DEF SizeInv
<1> QED
  BY <1>1, <1>3, <1>5 DEF SizeInv, LowSenders

\* A message m is appended: of a call, of the interrupt, or one without a reply.
LEMMA AppendSize ==
    ASSUME MInv, SizeInv, NEW m \in Letter, queue' = Append(queue, m),
           m.op = "RecalculateSleep" => m.arg \in LowSenders,
           m.op \in PostedOps => Posted < MaxPosted,
           \A t \in Threads : call'[t].sender # NONE => call'[t].sender \in LowSenders
    PROVE  SizeInv'
<1>1. LettersOK /\ queue \in Seq(Letter)
  BY DEF MInv, LettersOK
<1>2. \A i \in DOMAIN queue' : (i \in DOMAIN queue /\ queue'[i] = queue[i]) \/ queue'[i] = m
  BY <1>1, AppendFacts
<1>3. Posted' <= MaxPosted
  BY <1>1, PostedAfter, TicktimerAssumption DEF SizeInv
<1> QED
  BY <1>2, <1>3 DEF SizeInv, LowSenders

LEMMA HandleIrqSize ==
    ASSUME TickInv, SizeInv, handle_irq
    PROVE  SizeInv'
<1> DEFINE r == ticktimer.current_response
           m == Message("RecalculateSleep", NONE, r.data, r.sender)
<1>1. /\ Answer({r.sender}) /\ ticktimer.enabled
      /\ queue' = queue \/ queue' = Append(queue, m)
  BY DEF handle_irq
<1>2. r # NONE /\ r \in TimerRequest /\ r \in Requests
  BY <1>1, RequestFacts DEF TickInv, AInv, AlarmIsSet, Timer, Requests
<1>3. \A t \in Threads : call'[t].sender \in {NONE, call[t].sender}
  BY <1>1 DEF Answer, Idle
<1>4. PICK w \in Threads : call[w].sender = r.sender /\ call[w].sender # NONE
  BY <1>2 DEF TickInv, TInv, CoreInv, RequestsOK, AsksFor, PutAway
<1>5. CASE queue' = queue
  BY <1>3, <1>5, AnsweredSize
<1>6. CASE queue' = Append(queue, m)
  <2>1. r.sender \in LowSenders /\ r.sender \in Senders /\ r.data \in Condvars \cup {NONE}
    BY <1>2, <1>4 DEF SizeInv, TimerRequest
  <2>2. m \in Letter /\ m.op = "RecalculateSleep" /\ m.arg = r.sender /\ m.op \notin PostedOps
    BY <2>1, TicktimerAssumption DEF Message, Letter, LoopOps, Senders, PostedOps
  <2>3. \A t \in Threads : call'[t].sender # NONE => call'[t].sender \in LowSenders
    BY <1>3 DEF SizeInv
  <2> HIDE DEF m
  <2> QED
    BY <1>6, <2>1, <2>2, <2>3, AppendSize DEF TickInv
<1> QED
  BY <1>1, <1>5, <1>6

LEMMA SendSize ==
    ASSUME MInv, SizeInv, IsFiniteSet(Threads), NEW t \in Threads, call[t].sender = NONE,
           NEW op \in BlockingOps, NEW id \in Condvars \cup Mutexes \cup {NONE}, NEW arg \in Nat,
           SendBlocking(t, op, id, arg)
    PROVE  SizeInv'
<1> DEFINE s == CHOOSE s \in Unused : \A o \in Unused : s <= o
           m == Message(op, s, id, arg)
<1>1. /\ ~QueueFull /\ queue' = Append(queue, m)
      /\ call' = [call EXCEPT ![t] =
                    [op |-> op, id |-> id, sender |-> s, timed |-> op \in TimedOps /\ arg > 0,
                     due |-> IF op \in TimedOps THEN arg ELSE 0]]
  BY DEF SendBlocking
<1>2. s \in LowSenders /\ s \in Senders
  BY <1>1, SenderIsLow, FreeSender DEF Unused
<1> HIDE DEF s
<1>3. m \in Letter /\ m.op = op /\ op \notin PostedOps /\ op # "RecalculateSleep"
  BY <1>2 DEF Message, Letter, BlockingOps, PostedOps
<1>4. \A u \in Threads : call'[u].sender # NONE => call'[u].sender \in LowSenders
  BY <1>1, <1>2 DEF MInv, CallsOK, SizeInv
<1> HIDE DEF m
<1> QED
  BY <1>1, <1>3, <1>4, AppendSize

LEMMA PostSize ==
    ASSUME MInv, SizeInv, NEW op \in PostedOps, NEW id \in Condvars \cup Mutexes \cup {NONE},
           queue' = Append(queue, Message(op, NONE, id, 0)), Posted < MaxPosted, call' = call
    PROVE  SizeInv'
<1> DEFINE m == Message(op, NONE, id, 0)
<1>1. queue' = Append(queue, m) /\ Posted < MaxPosted
  OBVIOUS
<1>2. m \in Letter /\ m.op = op /\ op # "RecalculateSleep"
  BY DEF Message, Letter, PostedOps
<1> HIDE DEF m
<1> QED
  BY <1>1, <1>2, AppendSize DEF SizeInv

LEMMA ClientSize ==
    ASSUME TickInv, SizeInv, IsFiniteSet(Threads), NEW t \in Threads, Client(t)
    PROVE  SizeInv'
<1>0. MInv /\ CallsOK /\ call \in [Threads -> Call]
  BY DEF TickInv, MInv, CallsOK
<1>1. /\ Idle.sender = NONE /\ SleepTimes \in SUBSET Nat /\ WaitTimes \in SUBSET Nat
      /\ (call[t].op = "Suspend" => call[t].sender = NONE)
  BY <1>0, TicktimerAssumption DEF Idle, CallsOK, BlockingOps
<1>2. ASSUME NEW op \in BlockingOps, NEW id \in Condvars \cup Mutexes \cup {NONE}, NEW arg \in Nat,
             Send(t, op, id, arg)
      PROVE  SizeInv'
  BY <1>0, <1>1, <1>2, SendSize DEF Send, Free
<1>3. ASSUME NEW op \in PostedOps, NEW id \in Condvars \cup Mutexes \cup {NONE}, Post(t, op, id)
      PROVE  SizeInv'
  BY <1>0, <1>3, PostSize DEF Post, PostMessage
<1>4. CASE CallElapsed(t) \/ CallSleep(t)
  BY <1>1, <1>2, <1>4 DEF CallElapsed, CallSleep, BlockingOps
<1>5. CASE CallSuspend(t)
  <2>1. queue' = queue /\ call' = [call EXCEPT ![t].op = "Suspend"]
    BY <1>5 DEF CallSuspend
  <2>2. \A u \in Threads : call'[u].sender = call[u].sender
    BY <1>0, <2>1 DEF Call
  <2> QED
    BY <2>1, <2>2, AnsweredSize
<1>6. CASE SleepAfterSuspend(t)
  <2>1. PICK ms \in SleepTimes : SendBlocking(t, "SleepMs", NONE, ms)
    BY <1>6 DEF SleepAfterSuspend
  <2> QED
    BY <1>0, <1>1, <1>6, <2>1, SendSize DEF SleepAfterSuspend, BlockingOps
<1>7. CASE \E c \in Condvars : CallWait(t, c) \/ CallNotify(t, c) \/ DropCondvar(t, c)
  BY <1>1, <1>2, <1>3, <1>7 DEF CallWait, CallNotify, DropCondvar, BlockingOps, PostedOps
<1>8. CASE \E m \in Mutexes : AskForLock(t, m) \/ TellUnlock(t, m) \/ DropMutex(t, m)
  BY <1>2, <1>3, <1>8 DEF AskForLock, TellUnlock, DropMutex, BlockingOps, PostedOps
<1>9. CASE \E m \in Mutexes : LockFast(t, m) \/ UnlockFast(t, m)
  BY <1>9, AnsweredSize DEF LockFast, UnlockFast
<1> QED
  BY <1>4, <1>5, <1>6, <1>7, <1>8, <1>9 DEF Client

\* The steps of the loop but Receive leave the queue alone and answer some calls.
LEMMA HandlersSize ==
    ASSUME SizeInv, Serve, ~Receive
    PROVE  SizeInv'
<1>1. queue' = queue
  BY DEF Serve, Handle, ElapsedMs, SleepMs, RecalculateSleep, LockMutex, UnlockMutex, FreeMutex,
         WaitForCondition, NotifyCondition, NotifyEntry, TakeEntry, NotifyEnd, FreeCondition,
         Suspend, Resume
<1>2. call' = call \/ \E S : Answer(S)
  BY DEF Serve, ElapsedMs, SleepMs, RecalculateSleep, LockMutex, UnlockMutex, FreeMutex,
         WaitForCondition, NotifyCondition, NotifyEntry, NotifyEnd, FreeCondition, Suspend, Resume
<1>3. \A t \in Threads : call'[t].sender \in {NONE, call[t].sender}
  BY <1>2 DEF Answer, Idle
<1> QED
  BY <1>1, <1>3, AnsweredSize

LEMMA NextSize ==
    ASSUME TickInv, SizeInv, IsFiniteSet(Threads), [Next]_vars
    PROVE  SizeInv'
<1>1. CASE UNCHANGED vars \/ Tick
  <2>1. queue' = queue
    BY <1>1 DEF vars, Tick
  <2>2. \A t \in Threads : call'[t].sender = call[t].sender
    BY <1>1 DEF vars, Tick, TickInv, MInv, CallsOK, Call
  <2> QED
    BY <2>1, <2>2, AnsweredSize
<1>2. CASE Serve
  BY <1>2, ReceiveSize, HandlersSize DEF TickInv
<1>3. CASE handle_irq
  BY <1>3, HandleIrqSize
<1>4. CASE \E t \in Threads : Client(t)
  BY <1>4, ClientSize
<1>5. CASE suspend_cb_server
  BY <1>5, PostSize DEF suspend_cb_server, TickInv, PostedOps
<1> QED
  BY <1>1, <1>2, <1>3, <1>4, <1>5 DEF Next

-----------------------------------------------------------------------------
(***************************************************************************)
(* Whom a step wakes.                                                      *)
(***************************************************************************)
\* A thread whose call is over was answered.
LEMMA OverIsAnswered ==
    ASSUME CallsOK, NEW s \in Senders, call' = Answered({s}),
           NEW t \in Threads, call[t].op # NONE, call'[t].op = NONE
    PROVE  /\ call[t].sender = s
           /\ \A u \in Threads : call[u].sender = call[t].sender => u = t
<1> DEFINE S == {s}
<1>1. S \in SUBSET Senders /\ call' = Answered(S)
  OBVIOUS
<1> HIDE DEF S
<1>2. Woken(t, S)
  BY <1>1, AnsweredFacts
<1>3. call[t].sender = s /\ call[t].sender # NONE
  BY <1>2, TicktimerAssumption DEF Woken, S
<1> QED
  BY <1>3 DEF CallsOK

LEMMA CallerIsWoken ==
    ASSUME TickInv, ElapsedMs \/ NotifyEnd,
           NEW t \in Threads, call[t].op # NONE, call'[t].op = NONE
    PROVE  WokenRightly(t)
<1> USE DEF TickInv
<1>1. /\ msg # NONE /\ msg.op \in {"ElapsedMs", "notifying"} /\ Answer({msg.sender})
  BY DEF ElapsedMs, NotifyEnd, Handle
<1>2. msg.sender \in Senders
  BY <1>1 DEF MInv, LettersOK, Fits, Owing, BlockingOps, Letter
<1>3. call' = Answered({msg.sender})
  BY <1>1, AnswerIs
<1>4. call[t].sender = msg.sender /\ \A u \in Threads : call[u].sender = call[t].sender => u = t
  BY <1>2, <1>3, OverIsAnswered DEF MInv
<1>5. PICK w \in Threads : Sent(w, msg)
  BY <1>1 DEF MInv, SentOK, Owing, BlockingOps
<1>6. call[t].op \in {"ElapsedMs", "NotifyCondition"}
  BY <1>1, <1>4, <1>5 DEF Sent
<1> QED
  BY <1>1, <1>4, <1>6 DEF WokenRightly

LEMMA LockerIsWoken ==
    ASSUME TickInv, LockMutex \/ UnlockMutex,
           NEW t \in Threads, call[t].op # NONE, call'[t].op = NONE
    PROVE  WokenRightly(t)
<1> USE DEF TickInv
<1> SUFFICES call[t].op = "LockMutex" /\ call[t].id = msg.id
  BY DEF WokenRightly, LockMutex, UnlockMutex, Handle
<1>1. CASE LockMutex
  <2>1. /\ msg # NONE /\ msg.op = "LockMutex" /\ Answer({msg.sender})
    BY <1>1 DEF LockMutex, Handle
  <2>2. msg.sender \in Senders
    BY <2>1 DEF MInv, LettersOK, Fits, Owing, BlockingOps, Letter
  <2>3. call' = Answered({msg.sender})
    BY <2>1, AnswerIs
  <2>4. call[t].sender = msg.sender /\ \A u \in Threads : call[u].sender = call[t].sender => u = t
    BY <2>2, <2>3, OverIsAnswered DEF MInv
  <2>5. PICK w \in Threads : Sent(w, msg)
    BY <2>1 DEF MInv, SentOK, Owing, BlockingOps
  <2> QED
    BY <2>1, <2>4, <2>5 DEF Sent
<1>2. CASE UnlockMutex
  <2> PICK m : m = msg.id
    OBVIOUS
  <2>1. /\ msg # NONE /\ msg.op = "UnlockMutex" /\ mutex_hash[m] # <<>> /\ Answer({Head(mutex_hash[m])})
    BY <1>2 DEF UnlockMutex, Handle
  <2>2. m \in Mutexes
    BY <2>1 DEF MInv, LettersOK, Fits, MutexOps
  <2>3. PICK w \in Threads : LocksFor(w, m, Head(mutex_hash[m]))
    BY <2>1, <2>2, FirstLocker DEF MACInv, TInv
  <2>4. Head(mutex_hash[m]) \in Senders
    BY <2>1, <2>2, FirstLocker DEF MACInv, TInv
  <2>5. call' = Answered({Head(mutex_hash[m])})
    BY <2>1, AnswerIs
  <2>6. /\ call[t].sender = Head(mutex_hash[m])
        /\ \A u \in Threads : call[u].sender = call[t].sender => u = t
    BY <2>4, <2>5, OverIsAnswered DEF MInv
  <2> QED
    BY <2>3, <2>6 DEF LocksFor
<1> QED
  BY <1>1, <1>2

LEMMA WaiterIsWoken ==
    ASSUME TickInv, NotifyEntry,
           NEW t \in Threads, call[t].op # NONE, call'[t].op = NONE
    PROVE  WokenRightly(t)
<1> USE DEF TickInv, TInv
<1> PICK c : c = msg.id
  OBVIOUS
<1> PICK e : e = Head(notify_table[c])
  OBVIOUS
<1>1. /\ msg # NONE /\ msg.op = "notifying" /\ msg.arg > 0 /\ ~TimedOut(e) /\ Answer({e})
      /\ notify_table' = [notify_table EXCEPT ![c] = Tail(@)]
  BY DEF NotifyEntry, Notifying, TakeEntry
<1>2. c \in Condvars /\ msg.arg \in Nat
  BY <1>1 DEF MInv, LettersOK, Fits, ConditionOps, Letter
<1>3. notify_table[c] # <<>>
  <2>1. msg.arg <= Len(notify_table[c])
    BY <1>1 DEF LoopOK
  <2> QED
    BY <1>1, <1>2, <2>1
<1>4. e \in Senders /\ In(notify_table[c], e)
  BY <1>1, <1>2, <1>3, TakenFromList
<1>5. PICK w \in Threads : WaitsFor(w, c, e)
  BY <1>1, <1>2, <1>4, LiveEntry
<1>6. call' = Answered({e})
  BY <1>1, AnswerIs
<1>7. call[t].sender = e /\ \A u \in Threads : call[u].sender = call[t].sender => u = t
  BY <1>4, <1>6, OverIsAnswered DEF MInv
<1>8. call[t].op = "WaitForCondition" /\ call[t].id = c
  BY <1>5, <1>7 DEF WaitsFor
<1> QED
  BY <1>1, <1>8 DEF WokenRightly

LEMMA SleeperIsWoken ==
    ASSUME TickInv, handle_irq,
           NEW t \in Threads, call[t].op # NONE, call'[t].op = NONE
    PROVE  WokenRightly(t)
<1> USE DEF TickInv, TInv
<1> PICK r : r = ticktimer.current_response
  OBVIOUS
<1>1. /\ ticktimer.enabled /\ ticktimer.pending /\ Answer({r.sender}) /\ msg' = msg
  BY DEF handle_irq
<1>2. r # NONE /\ r \in Requests /\ r.sender \in Senders /\ r.msec \in Int /\ r.msec <= 0
  BY <1>1, RequestFacts DEF AInv, AlarmIsSet, Timer, Requests
<1>3. PICK w \in Threads : AsksFor(w, r)
  BY <1>2 DEF CoreInv, RequestsOK
<1>4. call' = Answered({r.sender})
  BY <1>1, AnswerIs
<1>5. call[t].sender = r.sender /\ \A u \in Threads : call[u].sender = call[t].sender => u = t
  BY <1>2, <1>4, OverIsAnswered DEF MInv
<1>6. AsksFor(t, r)
  BY <1>3, <1>5 DEF AsksFor
<1>7. call[t].timed /\ call[t].op \in {"SleepMs", "WaitForCondition"}
  BY <1>6 DEF AsksFor
<1>8. call[t].due = 0
  <2>1. call[t].due \in Nat
    BY DEF MInv, CallsOK, Call
  <2> QED
    BY <2>1, <1>2, <1>6 DEF AsksFor
<1> QED
  BY <1>1, <1>7, <1>8 DEF WokenRightly

\* The other steps end no call.
LEMMA NobodyElseIsWoken ==
    ASSUME TickInv, [Next]_vars,
           ~(ElapsedMs \/ NotifyEnd \/ LockMutex \/ UnlockMutex \/ NotifyEntry \/ handle_irq),
           NEW t \in Threads, call[t].op # NONE
    PROVE  call'[t].op # NONE
<1> USE DEF TickInv, TInv
<1>1. call \in [Threads -> Call]
  BY DEF MInv, CallsOK
<1>2. CASE UNCHANGED vars
  BY <1>2 DEF vars
<1>3. CASE FreeCondition
  BY <1>3, FreeConditionKeeps DEF MACInv
<1>4. CASE Receive \/ SleepMs \/ RecalculateSleep \/ FreeMutex \/ WaitForCondition
           \/ NotifyCondition \/ Suspend \/ Resume
  BY <1>4 DEF Receive, SleepMs, RecalculateSleep, FreeMutex, WaitForCondition, NotifyCondition,
              Suspend, Resume
<1>5. CASE Tick
  BY <1>1, <1>5 DEF Tick, Call
<1>6. ASSUME NEW u \in Threads, NEW op \in BlockingOps, NEW id, NEW arg, SendBlocking(u, op, id, arg)
      PROVE  call'[t].op # NONE
  <2>1. op # NONE
    BY TicktimerAssumption
  <2>2. t # u => call'[t] = call[t]
    BY <1>1, <1>6 DEF SendBlocking
  <2>3. call'[u].op = op
    BY <1>1, <1>6 DEF SendBlocking
  <2> QED
    BY <2>1, <2>2, <2>3
<1>7. ASSUME NEW u \in Threads, Client(u)
      PROVE  call'[t].op # NONE
  <2>1. \A op \in {"ElapsedMs", "SleepMs", "WaitForCondition", "NotifyCondition", "LockMutex"} :
           \A id, arg : Send(u, op, id, arg) \/ SendBlocking(u, op, id, arg) => call'[t].op # NONE
    BY <1>6 DEF Send, BlockingOps
  <2>2. CASE CallElapsed(u) \/ CallSleep(u) \/ SleepAfterSuspend(u)
    BY <2>1, <2>2 DEF CallElapsed, CallSleep, SleepAfterSuspend
  <2>3. CASE CallSuspend(u)
    <3>1. "Suspend" # NONE
      BY TicktimerAssumption
    <3> QED
      BY <3>1, <2>3, <1>1 DEF CallSuspend, Call
  <2>4. CASE \E c \in Condvars : CallWait(u, c) \/ CallNotify(u, c) \/ DropCondvar(u, c)
    BY <2>1, <2>4 DEF CallWait, CallNotify, DropCondvar, Post
  <2>5. CASE \E m \in Mutexes : LockFast(u, m) \/ AskForLock(u, m) \/ UnlockFast(u, m)
                                \/ TellUnlock(u, m) \/ DropMutex(u, m)
    BY <2>1, <2>5 DEF LockFast, AskForLock, UnlockFast, TellUnlock, DropMutex, Post
  <2> QED
    BY <1>7, <2>2, <2>3, <2>4, <2>5 DEF Client
<1>8. CASE suspend_cb_server
  BY <1>8 DEF suspend_cb_server
<1> QED
  BY <1>2, <1>3, <1>4, <1>5, <1>7, <1>8 DEF Next, Serve

-----------------------------------------------------------------------------
(***************************************************************************)
(* The results, for a queue that has room for the message of an alarm that *)
(* goes off.                                                               *)
(***************************************************************************)
\* The invariant of the service, its messages and its callers holds.
THEOREM TicktimerInvariant == Spec /\ []RoomForAlarm => []TickInv
<1>1. Init => TickInv
  BY InitTickInv
<1>2. TickInv /\ RoomForAlarm /\ [Next]_vars => TickInv'
  BY NextTickInv
<1> QED
  BY <1>1, <1>2, PTL DEF Spec

\* No assertion of main.rs about its tables fails, no reply is sent twice, and no
\* mutex is unlocked twice before it is asked for.
THEOREM NoAssertionFails == Spec /\ []RoomForAlarm => []AssertionsHold
<1>1. TickInv => AssertionsHold
  BY DEF TickInv, AssertionsHold
<1> QED
  BY <1>1, TicktimerInvariant, PTL

\* While anybody sleeps the alarm is set for the first of them, or a message or
\* a loop that will set it is under way, or the caller of a suspend will; unless
\* a suspend that was handled after its caller had given up has left it off.
THEOREM TheAlarmIsSet == Spec /\ []RoomForAlarm => []AlarmIsSet
<1>1. TickInv => AlarmIsSet
  BY DEF TickInv, AInv
<1> QED
  BY <1>1, TicktimerInvariant, PTL

\* Every thread that the loop has put away is where the step that must wake it
\* will look, and the tables of the service hold nobody else.
THEOREM NobodyIsForgotten == Spec /\ []RoomForAlarm => []NobodyForgotten
<1>1. TickInv => NobodyForgotten
  <2> SUFFICES ASSUME TickInv PROVE NobodyForgotten
    OBVIOUS
  <2> USE DEF TickInv, TInv, CoreInv
  <2>1. /\ \A c \in Condvars, s \in Senders : In(notify_table[c], s) <=> Contains(notify_table[c], s)
        /\ \A m \in Mutexes, s \in Senders : In(mutex_hash[m], s) <=> Contains(mutex_hash[m], s)
        /\ \A c \in Condvars : \A s \in ToSet(notify_table[c]) : s \in Senders /\ In(notify_table[c], s)
        /\ \A m \in Mutexes : \A s \in ToSet(mutex_hash[m]) : s \in Senders /\ In(mutex_hash[m], s)
    <3>1. /\ \A c \in Condvars : notify_table[c] \in Seq(Senders)
          /\ \A m \in Mutexes : mutex_hash[m] \in Seq(Senders)
      BY DEF TablesOK
    <3>2. \A list \in Seq(Senders) : \A s \in ToSet(list) : s \in Senders
      BY DEF ToSet
    <3> QED
      BY <3>1, <3>2, ContainsIn
  <2>2. \A t \in Threads : PutAway(t) => call[t].sender \in Senders
    BY DEF PutAway, MInv, CallsOK, Call
  <2>3. \A t \in Threads : (\E r \in Requests : AsksFor(t, r)) => Waits(t, Requests)
    BY DEF AsksFor, Waits
  <2>4. ASSUME NEW t \in Threads, PutAway(t)
        PROVE  CASE call[t].op = "SleepMs" -> Waits(t, Requests)
                 [] call[t].op = "WaitForCondition" ->
                      /\ Contains(notify_table[call[t].id], call[t].sender)
                      /\ call[t].timed => /\ call[t].sender \in notifications_with_timeouts
                                          /\ Waits(t, Requests)
                 [] call[t].op = "LockMutex" -> Contains(mutex_hash[call[t].id], call[t].sender)
                 [] OTHER -> FALSE
    <3>1. CASE call[t].op = "SleepMs"
      BY <2>3, <2>4, <3>1 DEF FoundOK
    <3>2. CASE call[t].op = "WaitForCondition"
      BY <2>1, <2>2, <2>3, <2>4, <3>2 DEF FoundOK
    <3>3. CASE call[t].op = "LockMutex"
      BY <2>1, <2>2, <2>4, <3>3 DEF FoundOK
    <3> QED
      BY <3>1, <3>2, <3>3, <2>4 DEF FoundOK
  <2>5. \A c \in Condvars : \A s \in ToSet(notify_table[c]) :
           \/ \E t \in Threads : PutAway(t) /\ call[t].sender = s
                                 /\ call[t].op = "WaitForCondition" /\ call[t].id = c
           \/ s \in notifications_with_timeouts /\ Recalculating
    <3>1. \A s, c : Pending(s, c) => Recalculating
      BY DEF Pending, Recalc, Recalculating
    <3> QED
      BY <2>1, <3>1 DEF WaitersOK, WaitsFor
  <2>6. \A r \in Requests : \E t \in Threads : PutAway(t) /\ call[t].sender = r.sender
    BY DEF RequestsOK, AsksFor
  <2>7. \A m \in Mutexes : \A s \in ToSet(mutex_hash[m]) : \E t \in Threads :
           PutAway(t) /\ call[t].sender = s /\ call[t].op = "LockMutex" /\ call[t].id = m
    BY <2>1 DEF LockersOK, LocksFor
  <2> QED
    BY <2>4, <2>5, <2>6, <2>7 DEF NobodyForgotten
<1> QED
  BY <1>1, TicktimerInvariant, PTL

\* At most one thread holds a mutex, however the atomic count of the fast path
\* and the messages LockMutex and UnlockMutex of the slow path interleave.
THEOREM MutexesExclude == Spec /\ []RoomForAlarm => []MutualExclusion
<1>1. TickInv => MutualExclusion
  <2> SUFFICES ASSUME TickInv, NEW m \in Mutexes
               PROVE  Cardinality({t \in Threads : lock[t][m] = "holds"}) <= 1
    BY DEF MutualExclusion
  <2> DEFINE H == {t \in Threads : lock[t][m] = "holds"}
  <2>1. \A t, u \in H : t = u
    BY DEF TickInv, LInv, OnePlace, Has
  <2>2. CASE H = {}
    BY <2>2, FS_EmptySet
  <2>3. CASE H # {}
    <3>1. PICK t \in H : H = {t}
      BY <2>1, <2>3
    <3> HIDE DEF H
    <3>2. Cardinality(H) = 1
      BY <3>1, FS_Singleton
    <3> QED
      BY <3>2 DEF H
  <2> QED
    BY <2>2, <2>3
<1> QED
  BY <1>1, TicktimerInvariant, PTL

\* A thread is woken only for its own reason: in particular the interrupt and
\* the loop never take a sender that is used again for an earlier call.
THEOREM EveryWakeHasAReason == Spec /\ []RoomForAlarm => WokenForAReason
<1>1. TickInv /\ [Next]_vars =>
         [\A t \in Threads : call[t].op # NONE /\ call'[t].op = NONE => WokenRightly(t)]_vars
  <2> SUFFICES ASSUME TickInv, [Next]_vars, NEW t \in Threads, call[t].op # NONE, call'[t].op = NONE
               PROVE  WokenRightly(t)
    OBVIOUS
  <2> QED
    BY CallerIsWoken, LockerIsWoken, WaiterIsWoken, SleeperIsWoken, NobodyElseIsWoken
<1> QED
  BY <1>1, TicktimerInvariant, PTL DEF Spec, WokenForAReason

-----------------------------------------------------------------------------
(***************************************************************************)
(* The results, for a queue with enough slots.                             *)
(***************************************************************************)
LEMMA InitSize ==
    ASSUME Init
    PROVE  SizeInv
<1>1. DOMAIN queue = {} /\ Posted = 0
  BY FS_EmptySet DEF Init, Posted
<1>2. \A t \in Threads : call[t].sender = NONE
  BY DEF Init, Idle
<1> QED
  BY <1>1, <1>2, TicktimerAssumption DEF SizeInv

\* With two slots for each thread and one for each message without a reply, the
\* message that handle_irq sends with try_send_message is never lost.
THEOREM NoAlarmIsLost == EnoughSlots /\ Spec => []RoomForAlarm
<1>1. ASSUME EnoughSlots PROVE Spec => []RoomForAlarm
  <2>1. Init => TickInv /\ SizeInv
    BY InitTickInv, InitSize
  <2>2. TickInv /\ SizeInv => RoomForAlarm
    BY <1>1, EnoughIsRoom
  <2>3. TickInv /\ SizeInv /\ [Next]_vars => TickInv' /\ SizeInv'
    BY <1>1, <2>2, NextTickInv, NextSize DEF EnoughSlots
  <2> QED
    BY <2>1, <2>2, <2>3, PTL DEF Spec
<1> QED
  BY <1>1

\* Then all of the above holds of every behaviour.
THEOREM TicktimerCorrect ==
    EnoughSlots /\ Spec => /\ [](AssertionsHold /\ AlarmIsSet /\ NobodyForgotten /\ MutualExclusion)
                           /\ WokenForAReason
BY NoAlarmIsLost, NoAssertionFails, TheAlarmIsSet, NobodyIsForgotten, MutexesExclude,
   EveryWakeHasAReason, PTL
=============================================================================
