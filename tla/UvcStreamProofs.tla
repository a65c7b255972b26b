-------------------------- MODULE UvcStreamProofs ---------------------------
(***************************************************************************)
(* Proofs about the streamer, for any sources, any size of a chunk and any *)
(* queue.  In order: the inductive invariant, the transfer ring, the       *)
(* methods of UvcClass, the steps of the handler and of the loop, the      *)
(* theorems.                                                               *)
(***************************************************************************)
EXTENDS UvcStream, TLAPS

\* The types of the streamer's state and of where the loop is.
Transfer == [slot : AllSlots, data : {"fresh", "stale", "torn"}]
Ops      == {"IrqUvcFrameDone", "IrqUvcStreamChange", "UsbBusReset", "PmicIrq", "Other"}
Message  == [op : Ops] \cup [op : {"UvcSendFrame"}, from : Sources]
Usb      == [streaming : BOOLEAN, frame_active : BOOLEAN, in_flight : BOOLEAN,
             discard_completion : BOOLEAN, cursor : AllSlots, payloads : 0 .. MaxPayloads,
             irq_req : BOOLEAN, ring : Seq(Transfer), queue : Seq(Message),
             leftover : BOOLEAN, failed : {"no", "now", "before"}]
PCs      == {"receive", "resume", "streaming?", "copy", "set_chunk", "sw_irq", "trigger",
             "dispatch", "busy?", "reset", "force_reset", "unplugged"}
Main     == [pc : PCs, then : {"receive", "dispatch", "force_reset"}, msg : Message,
             lend : Sources \cup {NONE}, n : 0 .. MaxPayloads, k : 0 .. 5]

\* The lends: the parked one, and those that are not answered.
Lends == pending \in Sources \cup {NONE} /\ waiting \subseteq Sources

Types ==
    /\ usb \in Usb /\ main \in Main /\ addressed \in BOOLEAN
    /\ main.pc = "reset" => main.k \in ResetSteps

\* What each place of the loop may rely on, though the handler runs between any
\* two steps: only the loop requests a kick and only the loop sets frame_active.
Control(u, p) ==
    /\ u.irq_req => p = "trigger"
    /\ p = "streaming?" => ~(u.streaming /\ u.frame_active)
    /\ p \in {"copy", "set_chunk"} => ~u.frame_active
    /\ p = "busy?" /\ ~u.streaming => ~u.frame_active

\* What the flags say about the ring, as long as the host can reach it.  The
\* transfer that is in flight or will start is one of the stream that is open, so
\* that the failure of an earlier one does not take it away.
Stale(r) == \A i \in DOMAIN r : r[i].data = "stale"
Carried(u) ==
    /\ u.in_flight /\ u.failed = "no" => u.ring # <<>>
    /\ u.discard_completion /\ u.failed = "no" => u.ring # <<>> /\ Head(u.ring).data = "stale"
    /\ u.streaming /\ u.in_flight /\ u.failed # "now" => ~Stale(u.ring)
UnderWay(u, p) ==
    u.streaming /\ u.frame_active /\ u.failed # "now"
        => ~Stale(u.ring) \/ u.irq_req \/ p = "sw_irq"

\* What holds as long as no stream has been started over a transfer of an
\* earlier one.  The exceptions are the steps of the loop's reset_state, which
\* clears the flags one by one before it ends the stream.
Clean(u, p, k) ==
    /\ Len(u.ring) <= 1
    /\ \A i \in DOMAIN u.ring : u.ring[i].data # "torn"
    /\ u.streaming /\ u.ring # <<>> => u.in_flight \/ (p = "reset" /\ k >= 2)
    /\ u.streaming /\ ~u.frame_active => Stale(u.ring) \/ (p = "reset" /\ k = 5)
    /\ p \in {"busy?", "copy", "set_chunk"} /\ ~u.streaming => Stale(u.ring)

\* The inductive invariant, but for the types: of the streamer's state u when the
\* loop is at p, in step k of a reset, and the host can (a) reach the device.
Good(u, p, k, a) ==
    /\ Control(u, p)
    /\ a => Carried(u) /\ UnderWay(u, p)
    /\ ~u.leftover => Clean(u, p, k)

IInv == Types /\ Good(usb, main.pc, main.k, addressed)

-----------------------------------------------------------------------------
(***************************************************************************)
(* The transfer ring.                                                      *)
(***************************************************************************)
\* Marking changes what the descriptors in some slots will send, and never a
\* stale one; marking all of them as stale leaves only stale ones.
LEMMA MarkedFacts ==
  ASSUME NEW r \in Seq(Transfer), NEW slots, NEW data \in {"fresh", "stale", "torn"}
  PROVE  /\ Marked(r, slots, data) \in Seq(Transfer)
         /\ Len(Marked(r, slots, data)) = Len(r)
         /\ (Marked(r, slots, data) = <<>>) <=> (r = <<>>)
         /\ Stale(r) => Stale(Marked(r, slots, data))
         /\ r # <<>> /\ Head(r).data = "stale" => Head(Marked(r, slots, data)).data = "stale"
         /\ data = "stale" /\ slots = AllSlots => Stale(Marked(r, slots, data))
         /\ data # "stale" /\ ~Stale(r) => ~Stale(Marked(r, slots, data))
<1> DEFINE m == Marked(r, slots, data)
<1>1. Len(r) \in Nat /\ DOMAIN r = 1 .. Len(r) /\ \A i \in 1 .. Len(r) : r[i] \in Transfer
  OBVIOUS
<1>2. m = [i \in 1 .. Len(r) |-> IF r[i].slot \in slots /\ r[i].data # "stale"
                                 THEN [r[i] EXCEPT !.data = data] ELSE r[i]]
  BY <1>1 DEF Marked
<1>3. \A i \in 1 .. Len(r) :
         /\ m[i] \in Transfer
         /\ r[i].data = "stale" => m[i].data = "stale"
         /\ data = "stale" /\ slots = AllSlots => m[i].data = "stale"
         /\ data # "stale" /\ r[i].data # "stale" => m[i].data # "stale"
  BY <1>1, <1>2 DEF Transfer
<1>4. m \in [1 .. Len(r) -> Transfer]
  BY <1>2, <1>3
<1> HIDE DEF m
<1>5. m \in Seq(Transfer) /\ Len(m) = Len(r) /\ DOMAIN m = 1 .. Len(r)
  BY <1>1, <1>4
<1>6. (m = <<>>) <=> (r = <<>>)
  BY <1>5
<1>7. r # <<>> => 1 \in 1 .. Len(r) /\ Head(r) = r[1] /\ Head(m) = m[1]
  BY <1>5
<1>8. Stale(r) => Stale(m)
  BY <1>1, <1>3, <1>5 DEF Stale
<1>9. data = "stale" /\ slots = AllSlots => Stale(m)
  BY <1>3, <1>5 DEF Stale
<1>10. data # "stale" /\ ~Stale(r) => ~Stale(m)
  BY <1>1, <1>3, <1>5 DEF Stale
<1> QED
  BY <1>3, <1>5, <1>6, <1>7, <1>8, <1>9, <1>10 DEF m

\* A ring of one transfer at most is empty after a completion, and what is not
\* stale does not go with a stale transfer.
LEMMA TailFacts ==
  ASSUME NEW r \in Seq(Transfer), r # <<>>
  PROVE  /\ Tail(r) \in Seq(Transfer) /\ (Len(r) <= 1 => Tail(r) = <<>>)
         /\ \A i \in DOMAIN Tail(r) : \E j \in DOMAIN r : Tail(r)[i] = r[j]
         /\ Head(r).data = "stale" /\ ~Stale(r) => ~Stale(Tail(r))
         /\ Stale(r) => Stale(Tail(r))
<1>1. Tail(r) \in Seq(Transfer) /\ (Len(r) <= 1 => Tail(r) = <<>>)
  OBVIOUS
<1>2. /\ Len(r) \in Nat /\ Len(r) >= 1 /\ Len(Tail(r)) = Len(r) - 1 /\ Head(r) = r[1]
      /\ DOMAIN r = 1 .. Len(r) /\ DOMAIN Tail(r) = 1 .. Len(r) - 1
      /\ \A i \in 1 .. Len(r) - 1 : Tail(r)[i] = r[i + 1]
  OBVIOUS
<1>3. \A i \in DOMAIN Tail(r) : i + 1 \in DOMAIN r /\ Tail(r)[i] = r[i + 1]
  BY <1>2
<1>4. ASSUME NEW j \in DOMAIN r, r[j].data # "stale", Head(r).data = "stale"
      PROVE  ~Stale(Tail(r))
  <2>1. j - 1 \in DOMAIN Tail(r) /\ j = (j - 1) + 1
    BY <1>2, <1>4
  <2>2. Tail(r)[j - 1] = r[j]
    BY <1>2, <2>1
  <2> QED
    BY <1>4, <2>1, <2>2 DEF Stale
<1> QED
  BY <1>1, <1>3, <1>4 DEF Stale

\* A transfer that is queued is the last, and the first is what it was.
LEMMA AppendFacts ==
  ASSUME NEW r \in Seq(Transfer), NEW t \in Transfer
  PROVE  /\ Append(r, t) \in Seq(Transfer) /\ Append(r, t) # <<>>
         /\ r # <<>> => Head(Append(r, t)) = Head(r)
         /\ r = <<>> => Len(Append(r, t)) = 1 /\ Append(r, t)[1] = t
         /\ t.data # "stale" => ~Stale(Append(r, t))
<1>1. Append(r, t) \in Seq(Transfer) /\ Len(Append(r, t)) = Len(r) + 1
  OBVIOUS
<1>2. r # <<>> => Head(Append(r, t)) = Head(r)
  OBVIOUS
<1>3. Append(r, t)[Len(r) + 1] = t
  OBVIOUS
<1>4. r = <<>> => Len(r) = 0
  OBVIOUS
<1>5. Append(r, t) # <<>>
  <2>1. Len(r) \in Nat /\ Len(<<>>) = 0
    OBVIOUS
  <2> QED
    BY <1>1, <2>1
<1>6. Len(r) + 1 \in DOMAIN Append(r, t)
  <2>1. Len(r) \in Nat /\ DOMAIN Append(r, t) = 1 .. Len(r) + 1
    BY <1>1
  <2> QED
    BY <2>1
<1>7. t.data # "stale" => ~Stale(Append(r, t))
  BY <1>3, <1>6 DEF Stale
<1> QED
  BY <1>1, <1>2, <1>3, <1>4, <1>5, <1>7

\* With nothing on the ring a stream is clean.
LEMMA EmptyIsClean ==
  ASSUME NEW u, u.ring = <<>>, NEW p, NEW k
  PROVE  Clean(u, p, k)
<1>1. Len(<<>>) = 0 /\ \A r : r = <<>> => DOMAIN r = {}
  OBVIOUS
<1>2. DOMAIN u.ring = {} /\ Len(u.ring) = 0
  BY <1>1
<1>3. Stale(u.ring) /\ Len(u.ring) <= 1
  BY <1>2 DEF Stale
<1> QED
  BY <1>2, <1>3 DEF Clean

-----------------------------------------------------------------------------
(***************************************************************************)
(* The methods of UvcClass.                                                *)
(***************************************************************************)
\* v is u but for its message queue.
Same(u, v) ==
    /\ v \in Usb
    /\ v.streaming = u.streaming /\ v.frame_active = u.frame_active
    /\ v.in_flight = u.in_flight /\ v.discard_completion = u.discard_completion
    /\ v.cursor = u.cursor /\ v.payloads = u.payloads
    /\ v.irq_req = u.irq_req /\ v.ring = u.ring /\ v.leftover = u.leftover
    /\ v.failed = u.failed

\* A notification changes nothing else, whether or not it is lost.
LEMMA NotifyFacts ==
  ASSUME NEW u \in Usb, NEW op \in Ops
  PROVE  Same(u, notify(u, op))
<1>1. u.queue \in Seq(Message) /\ Note(op) \in Message
  BY DEF Usb, Message, Note
<1>2. Append(u.queue, Note(op)) \in Seq(Message)
  BY <1>1
<1>3. CASE Len(u.queue) < QueueLen
  <2>1. notify(u, op) = [u EXCEPT !.queue = Append(u.queue, Note(op))]
    BY <1>3 DEF notify
  <2> QED
    BY <1>2, <2>1 DEF Usb, Same
<1>4. CASE ~(Len(u.queue) < QueueLen)
  BY <1>4 DEF notify, Same
<1> QED
  BY <1>3, <1>4

\* A stream that begins or ends has failed transfers behind it, if any.
LEMMA PastFacts ==
  ASSUME NEW f \in {"no", "now", "before"}
  PROVE  /\ Past(f) \in {"no", "before"} /\ Past(f) \in {"no", "now", "before"}
         /\ Past(f) = "no" <=> f = "no"
BY DEF Past

\* start_stream: a stream begins with no chunk and nothing in flight, and all
\* that is on the ring is of an earlier one.
LEMMA StartFacts ==
  ASSUME NEW u \in Usb, NEW v, v = start_stream(u)
  PROVE  /\ v \in Usb
         /\ v.streaming /\ ~v.frame_active /\ ~v.in_flight
         /\ v.discard_completion <=> u.discard_completion \/ u.in_flight
         /\ v.irq_req <=> u.irq_req
         /\ v.leftover <=> u.leftover \/ u.ring # <<>>
         /\ v.failed = Past(u.failed)
         /\ Stale(v.ring) /\ Len(v.ring) = Len(u.ring) /\ ((v.ring = <<>>) <=> (u.ring = <<>>))
<1> DEFINE w == [u EXCEPT !.cursor = 0, !.frame_active = FALSE,
                          !.discard_completion = @ \/ u.in_flight,
                          !.in_flight = FALSE, !.streaming = TRUE,
                          !.ring = Marked(@, AllSlots, "stale"),
                          !.leftover = @ \/ u.ring # <<>>,
                          !.failed = Past(@)]
<1>1. u.ring \in Seq(Transfer)
  BY DEF Usb
<1>2. /\ Marked(u.ring, AllSlots, "stale") \in Seq(Transfer)
      /\ Len(Marked(u.ring, AllSlots, "stale")) = Len(u.ring)
      /\ (Marked(u.ring, AllSlots, "stale") = <<>>) <=> (u.ring = <<>>)
      /\ Stale(Marked(u.ring, AllSlots, "stale"))
  BY <1>1, MarkedFacts
<1>3. 0 \in AllSlots /\ Past(u.failed) \in {"no", "now", "before"}
  BY UvcAssumption, PastFacts DEF AllSlots, Usb
<1>4. w \in Usb
  BY <1>2, <1>3 DEF Usb
<1>5. /\ w.streaming /\ ~w.frame_active /\ ~w.in_flight
      /\ w.discard_completion <=> u.discard_completion \/ u.in_flight
      /\ w.irq_req <=> u.irq_req
      /\ w.leftover <=> u.leftover \/ u.ring # <<>>
      /\ w.failed = Past(u.failed)
      /\ w.ring = Marked(u.ring, AllSlots, "stale")
  BY DEF Usb
<1>6. Same(w, v)
  <2>1. v = notify(w, "IrqUvcStreamChange")
    BY DEF start_stream
  <2> HIDE DEF w
  <2> QED
    BY <1>4, <2>1, NotifyFacts DEF Ops
<1> HIDE DEF w
<1> QED
  BY <1>2, <1>5, <1>6 DEF Same

\* stop_stream: nothing happens to a stream that is closed; one that is open
\* ends, and all that is on the ring is stale.
LEMMA StopFacts ==
  ASSUME NEW u \in Usb, NEW v, v = stop_stream(u)
  PROVE  /\ v \in Usb
         /\ ~u.streaming => v = u
         /\ u.streaming =>
              /\ ~v.streaming /\ ~v.frame_active
              /\ v.in_flight <=> u.in_flight
              /\ v.discard_completion <=> u.discard_completion \/ u.in_flight
              /\ v.irq_req <=> u.irq_req
              /\ v.leftover <=> u.leftover
              /\ v.failed = Past(u.failed)
              /\ Stale(v.ring) /\ Len(v.ring) = Len(u.ring)
              /\ (v.ring = <<>>) <=> (u.ring = <<>>)
<1> DEFINE w == [u EXCEPT !.streaming = FALSE, !.cursor = 0, !.frame_active = FALSE,
                          !.discard_completion = @ \/ u.in_flight,
                          !.ring = Marked(@, AllSlots, "stale"),
                          !.failed = Past(@)]
<1>1. CASE ~u.streaming
  BY <1>1 DEF stop_stream
<1>2. CASE u.streaming
  <2>1. u.ring \in Seq(Transfer)
    BY DEF Usb
  <2>2. /\ Marked(u.ring, AllSlots, "stale") \in Seq(Transfer)
        /\ Len(Marked(u.ring, AllSlots, "stale")) = Len(u.ring)
        /\ (Marked(u.ring, AllSlots, "stale") = <<>>) <=> (u.ring = <<>>)
        /\ Stale(Marked(u.ring, AllSlots, "stale"))
    BY <2>1, MarkedFacts
  <2>3. 0 \in AllSlots /\ Past(u.failed) \in {"no", "now", "before"}
    BY UvcAssumption, PastFacts DEF AllSlots, Usb
  <2>4. w \in Usb
    BY <2>2, <2>3 DEF Usb
  <2>5. /\ ~w.streaming /\ ~w.frame_active
        /\ w.in_flight <=> u.in_flight
        /\ w.discard_completion <=> u.discard_completion \/ u.in_flight
        /\ w.irq_req <=> u.irq_req
        /\ w.leftover <=> u.leftover
        /\ w.failed = Past(u.failed)
        /\ w.ring = Marked(u.ring, AllSlots, "stale")
    BY DEF Usb
  <2>6. v = notify(w, "IrqUvcStreamChange")
    BY <1>2 DEF stop_stream
  <2> HIDE DEF w
  <2>7. Same(w, v)
    BY <2>4, <2>6, NotifyFacts DEF Ops
  <2> QED
    BY <1>2, <2>2, <2>5, <2>7 DEF Same
<1> QED
  BY <1>1, <1>2

\* enqueue_payload: one more transfer, fresh, and it is in flight.
LEMMA EnqueueFacts ==
  ASSUME NEW u \in Usb, NEW v, v = enqueue_payload(u)
  PROVE  /\ v \in Usb /\ v.in_flight
         /\ v.streaming <=> u.streaming
         /\ v.frame_active <=> u.frame_active
         /\ v.discard_completion <=> u.discard_completion
         /\ v.irq_req <=> u.irq_req
         /\ v.leftover <=> u.leftover
         /\ v.failed = u.failed
         /\ v.ring # <<>> /\ ~Stale(v.ring) /\ (u.ring # <<>> => Head(v.ring) = Head(u.ring))
         /\ u.ring = <<>> => Len(v.ring) = 1 /\ v.ring[1].data = "fresh"
<1> DEFINE t == [slot |-> u.cursor, data |-> "fresh"]
<1>1. u.ring \in Seq(Transfer) /\ t \in Transfer /\ t.data = "fresh"
  BY DEF Usb, Transfer
<1> HIDE DEF t
<1>2. /\ Append(u.ring, t) \in Seq(Transfer) /\ Append(u.ring, t) # <<>>
      /\ u.ring # <<>> => Head(Append(u.ring, t)) = Head(u.ring)
      /\ u.ring = <<>> => Len(Append(u.ring, t)) = 1 /\ Append(u.ring, t)[1] = t
      /\ ~Stale(Append(u.ring, t))
  BY <1>1, AppendFacts
<1>3. v = [u EXCEPT !.ring = Append(u.ring, t), !.in_flight = TRUE]
  BY DEF enqueue_payload, t
<1>4. v \in Usb
  BY <1>2, <1>3 DEF Usb
<1>5. /\ v.in_flight
      /\ v.streaming <=> u.streaming
      /\ v.frame_active <=> u.frame_active
      /\ v.discard_completion <=> u.discard_completion
      /\ v.irq_req <=> u.irq_req
      /\ v.leftover <=> u.leftover
      /\ v.failed = u.failed
      /\ v.ring = Append(u.ring, t)
  BY <1>3 DEF Usb
<1> QED
  BY <1>1, <1>2, <1>4, <1>5

\* What assignment k of reset_state makes of u: it clears its own flag; the last
\* one also makes what is on the ring stale.
Cleared(u, k, v) ==
    /\ v \in Usb
    /\ v.in_flight <=> u.in_flight /\ k # 1
    /\ v.discard_completion <=> u.discard_completion /\ k # 2
    /\ v.frame_active <=> u.frame_active /\ k # 4
    /\ v.streaming <=> u.streaming /\ k # 5
    /\ v.irq_req <=> u.irq_req
    /\ v.leftover <=> u.leftover
    /\ v.failed = u.failed
    /\ v.ring = u.ring \/ (Stale(v.ring) /\ Len(v.ring) = Len(u.ring))
    /\ (v.ring = <<>>) <=> (u.ring = <<>>)
    /\ k # 5 => v.ring = u.ring
    /\ k = 5 /\ u.streaming => Stale(v.ring)

\* Each assignment of reset_state does that.
LEMMA ResetStepFacts ==
  ASSUME NEW u \in Usb, NEW k \in ResetSteps
  PROVE  Cleared(u, k, ResetStep(u, k))
<1> DEFINE v == ResetStep(u, k)
<1> SUFFICES Cleared(u, k, v)
  OBVIOUS
<1>1. u.ring \in Seq(Transfer) /\ 0 \in AllSlots
  BY UvcAssumption DEF Usb, AllSlots
<1>2. CASE k = 1
  <2>1. v = [u EXCEPT !.in_flight = FALSE]
    BY <1>2 DEF ResetStep
  <2> HIDE DEF v
  <2>2. v \in Usb
    BY <2>1 DEF Usb
  <2> QED
    BY <1>2, <2>1, <2>2 DEF Usb, Cleared
<1>3. CASE k = 2
  <2>1. v = [u EXCEPT !.discard_completion = FALSE]
    BY <1>3 DEF ResetStep
  <2> HIDE DEF v
  <2>2. v \in Usb
    BY <2>1 DEF Usb
  <2> QED
    BY <1>3, <2>1, <2>2 DEF Usb, Cleared
<1>4. CASE k = 3
  <2>1. v = [u EXCEPT !.cursor = 0]
    BY <1>4 DEF ResetStep
  <2> HIDE DEF v
  <2>2. v \in Usb
    BY <1>1, <2>1 DEF Usb
  <2> QED
    BY <1>4, <2>1, <2>2 DEF Usb, Cleared
<1>5. CASE k = 4
  <2>1. v = [u EXCEPT !.frame_active = FALSE]
    BY <1>5 DEF ResetStep
  <2> HIDE DEF v
  <2>2. v \in Usb
    BY <2>1 DEF Usb
  <2> QED
    BY <1>5, <2>1, <2>2 DEF Usb, Cleared
<1>6. CASE k = 5 /\ u.streaming
  <2> DEFINE w == [u EXCEPT !.streaming = FALSE, !.ring = Marked(@, AllSlots, "stale")]
  <2>1. /\ Marked(u.ring, AllSlots, "stale") \in Seq(Transfer)
        /\ Len(Marked(u.ring, AllSlots, "stale")) = Len(u.ring)
        /\ (Marked(u.ring, AllSlots, "stale") = <<>>) <=> (u.ring = <<>>)
        /\ Stale(Marked(u.ring, AllSlots, "stale"))
    BY <1>1, MarkedFacts
  <2>2. w \in Usb
    BY <2>1 DEF Usb
  <2>3. /\ w.ring = Marked(u.ring, AllSlots, "stale") /\ ~w.streaming
        /\ w.in_flight <=> u.in_flight
        /\ w.discard_completion <=> u.discard_completion
        /\ w.frame_active <=> u.frame_active
        /\ w.irq_req <=> u.irq_req
        /\ w.leftover <=> u.leftover
        /\ w.failed = u.failed
    BY DEF Usb
  <2>4. v = notify(w, "IrqUvcStreamChange")
    BY <1>6 DEF ResetStep
  <2> HIDE DEF v, w
  <2>5. Same(w, v)
    BY <2>2, <2>4, NotifyFacts DEF Ops
  <2> QED
    BY <1>6, <2>1, <2>3, <2>5 DEF Same, Cleared
<1>7. CASE k = 5 /\ ~u.streaming
  <2>1. v = u
    BY <1>7 DEF ResetStep
  <2> HIDE DEF v
  <2> QED
    BY <1>7, <2>1 DEF Cleared
<1> QED
  BY <1>2, <1>3, <1>4, <1>5, <1>6, <1>7 DEF ResetSteps

\* After reset_state and with the rings set up again nothing is left of the
\* stream but a request of the loop.
LEMMA ResetFacts ==
  ASSUME NEW u \in Usb, NEW v, v = RingsCleared(reset_state(u))
  PROVE  /\ v \in Usb
         /\ ~v.in_flight /\ ~v.discard_completion /\ ~v.frame_active /\ ~v.streaming
         /\ v.irq_req <=> u.irq_req
         /\ ~v.leftover /\ v.ring = <<>>
<1> DEFINE u1 == ResetStep(u, 1)
           u2 == ResetStep(u1, 2)
           u3 == ResetStep(u2, 3)
           u4 == ResetStep(u3, 4)
           u5 == ResetStep(u4, 5)
<1>1. /\ 1 \in ResetSteps /\ 2 \in ResetSteps /\ 3 \in ResetSteps
      /\ 4 \in ResetSteps /\ 5 \in ResetSteps
      /\ 2 # 1 /\ 3 # 1 /\ 3 # 2 /\ 4 # 1 /\ 4 # 2 /\ 5 # 1 /\ 5 # 2 /\ 5 # 4
  BY DEF ResetSteps
<1>2. v = [u5 EXCEPT !.ring = <<>>, !.leftover = FALSE, !.failed = "no"]
  BY DEF RingsCleared, reset_state
<1> HIDE DEF u1, u2, u3, u4, u5
<1>3. u1 \in Usb /\ ~u1.in_flight /\ (u1.irq_req <=> u.irq_req)
  <2>1. Cleared(u, 1, u1)
    BY <1>1, ResetStepFacts DEF u1
  <2> QED
    BY <1>1, <2>1 DEF Cleared
<1>4. u2 \in Usb /\ ~u2.in_flight /\ ~u2.discard_completion /\ (u2.irq_req <=> u.irq_req)
  <2>1. Cleared(u1, 2, u2)
    BY <1>1, <1>3, ResetStepFacts DEF u2
  <2> QED
    BY <1>1, <1>3, <2>1 DEF Cleared
<1>5. u3 \in Usb /\ ~u3.in_flight /\ ~u3.discard_completion /\ (u3.irq_req <=> u.irq_req)
  <2>1. Cleared(u2, 3, u3)
    BY <1>1, <1>4, ResetStepFacts DEF u3
  <2> QED
    BY <1>1, <1>4, <2>1 DEF Cleared
<1>6. /\ u4 \in Usb /\ ~u4.in_flight /\ ~u4.discard_completion /\ (u4.irq_req <=> u.irq_req)
      /\ ~u4.frame_active
  <2>1. Cleared(u3, 4, u4)
    BY <1>1, <1>5, ResetStepFacts DEF u4
  <2> QED
    BY <1>1, <1>5, <2>1 DEF Cleared
<1>7. /\ u5 \in Usb /\ ~u5.in_flight /\ ~u5.discard_completion /\ (u5.irq_req <=> u.irq_req)
      /\ ~u5.frame_active /\ ~u5.streaming
  <2>1. Cleared(u4, 5, u5)
    BY <1>1, <1>6, ResetStepFacts DEF u5
  <2> QED
    BY <1>1, <1>6, <2>1 DEF Cleared
<1>8. <<>> \in Seq(Transfer)
  OBVIOUS
<1>9. v \in Usb
  BY <1>2, <1>7, <1>8 DEF Usb
<1> QED
  BY <1>2, <1>7, <1>9 DEF Usb

-----------------------------------------------------------------------------
(***************************************************************************)
(* What the methods keep, wherever the loop is.                            *)
(***************************************************************************)
\* A payload that is queued for a chunk is a transfer the invariant accounts for,
\* provided that the ring of a clean stream is empty.
LEMMA EnqueueKeeps ==
  ASSUME NEW u \in Usb, NEW p, NEW k, NEW a \in BOOLEAN,
         Control(u, p), a => Carried(u), u.frame_active,
         ~u.leftover => u.ring = <<>>
  PROVE  enqueue_payload(u) \in Usb /\ Good(enqueue_payload(u), p, k, a)
<1> DEFINE v == enqueue_payload(u)
<1>1. /\ v \in Usb /\ v.in_flight
      /\ v.streaming <=> u.streaming
      /\ v.frame_active <=> u.frame_active
      /\ v.discard_completion <=> u.discard_completion
      /\ v.irq_req <=> u.irq_req
      /\ v.leftover <=> u.leftover
      /\ v.failed = u.failed
      /\ v.ring # <<>> /\ ~Stale(v.ring) /\ (u.ring # <<>> => Head(v.ring) = Head(u.ring))
      /\ u.ring = <<>> => Len(v.ring) = 1 /\ v.ring[1].data = "fresh"
  BY EnqueueFacts
<1> HIDE DEF v
<1>2. Control(v, p)
  BY <1>1 DEF Control
<1>3. a => Carried(v) /\ UnderWay(v, p)
  BY <1>1 DEF Carried, UnderWay
<1>4. ASSUME ~v.leftover
      PROVE  Clean(v, p, k)
  <2>1. Len(v.ring) = 1 /\ v.ring[1].data = "fresh" /\ v.ring \in Seq(Transfer)
    BY <1>1, <1>4 DEF Usb
  <2>2. Len(v.ring) <= 1 /\ \A i \in DOMAIN v.ring : v.ring[i].data # "torn"
    BY <2>1
  <2>3. p \in {"busy?", "copy", "set_chunk"} => v.streaming
    BY <1>1 DEF Control
  <2> QED
    BY <1>1, <2>2, <2>3 DEF Clean
<1> QED
  BY <1>1, <1>2, <1>3, <1>4 DEF Good, v

\* kick.  It makes up for a request that has been taken: what the invariant says
\* about the chunk under way need not hold before it.
LEMMA KickKeeps ==
  ASSUME NEW u \in Usb, NEW p, NEW k, NEW a \in BOOLEAN,
         Control(u, p), a => Carried(u), ~u.leftover => Clean(u, p, k),
         ~u.leftover /\ u.streaming /\ ~u.in_flight => u.ring = <<>>
  PROVE  kick(u) \in Usb /\ Good(kick(u), p, k, a) /\ (kick(u).irq_req <=> u.irq_req)
<1>1. CASE u.streaming /\ ~u.in_flight /\ u.frame_active
  <2>1. kick(u) = enqueue_payload(u)
    BY <1>1 DEF kick
  <2>2. enqueue_payload(u) \in Usb /\ Good(enqueue_payload(u), p, k, a)
    BY <1>1, EnqueueKeeps
  <2>3. enqueue_payload(u).irq_req <=> u.irq_req
    BY EnqueueFacts
  <2> QED
    BY <2>1, <2>2, <2>3
<1>2. CASE ~(u.streaming /\ ~u.in_flight /\ u.frame_active)
  <2>1. kick(u) = u
    BY <1>2 DEF kick
  <2>2. a => UnderWay(u, p)
    BY <1>2 DEF Carried, UnderWay
  <2> QED
    BY <2>1, <2>2 DEF Good
<1> QED
  BY <1>1, <1>2

\* The request of the loop is served.
LEMMA ServiceKeeps ==
  ASSUME NEW u \in Usb, NEW p, NEW k, NEW a \in BOOLEAN, Good(u, p, k, a)
  PROVE  /\ service_sw_request(u) \in Usb /\ Good(service_sw_request(u), p, k, a)
         /\ ~service_sw_request(u).irq_req
<1>1. CASE ~u.irq_req
  BY <1>1 DEF service_sw_request
<1>2. CASE u.irq_req
  <2> DEFINE w == [u EXCEPT !.irq_req = FALSE]
  <2>1. w \in Usb
    BY DEF Usb
  <2>2. /\ ~w.irq_req /\ w.ring = u.ring
        /\ w.streaming <=> u.streaming
        /\ w.frame_active <=> u.frame_active
        /\ w.in_flight <=> u.in_flight
        /\ w.discard_completion <=> u.discard_completion
        /\ w.leftover <=> u.leftover
        /\ w.failed = u.failed
    BY DEF Usb
  <2>3. service_sw_request(u) = kick(w)
    BY <1>2 DEF service_sw_request
  <2> HIDE DEF w
  <2>4. p = "trigger"
    BY <1>2 DEF Good, Control
  <2>5. Control(w, p) /\ (a => Carried(w))
    BY <2>2 DEF Good, Control, Carried
  <2>6. ~w.leftover => Clean(w, p, k)
    BY <2>2 DEF Good, Clean
  <2>7. ~w.leftover /\ w.streaming /\ ~w.in_flight => w.ring = <<>>
    BY <2>4, <2>6 DEF Clean
  <2> QED
    BY <2>1, <2>2, <2>3, <2>5, <2>6, <2>7, KickKeeps
<1> QED
  BY <1>1, <1>2

\* start_stream, when the host can reach the device.
LEMMA StartKeeps ==
  ASSUME NEW u \in Usb, NEW p, NEW k, Good(u, p, k, TRUE)
  PROVE  start_stream(u) \in Usb /\ Good(start_stream(u), p, k, TRUE)
<1> DEFINE v == start_stream(u)
<1>1. /\ v \in Usb
      /\ v.streaming /\ ~v.frame_active /\ ~v.in_flight
      /\ v.discard_completion <=> u.discard_completion \/ u.in_flight
      /\ v.irq_req <=> u.irq_req
      /\ v.leftover <=> u.leftover \/ u.ring # <<>>
      /\ v.failed = Past(u.failed)
      /\ Stale(v.ring) /\ Len(v.ring) = Len(u.ring) /\ ((v.ring = <<>>) <=> (u.ring = <<>>))
  BY StartFacts
<1> HIDE DEF v
<1>2. Control(v, p) /\ UnderWay(v, p)
  BY <1>1 DEF Good, Control, UnderWay
<1>3. v.ring # <<>> => Head(v.ring).data = "stale"
  <2>1. v.ring \in Seq(Transfer)
    BY <1>1 DEF Usb
  <2>2. v.ring # <<>> => 1 \in DOMAIN v.ring /\ Head(v.ring) = v.ring[1]
    BY <2>1
  <2> QED
    BY <1>1, <2>2 DEF Stale
<1>4. Carried(v)
  BY <1>1, <1>3, PastFacts DEF Good, Carried, Usb
<1>5. ASSUME ~v.leftover
      PROVE  Clean(v, p, k)
  <2>1. v.ring = <<>>
    BY <1>1, <1>5
  <2> QED
    BY <1>1, <2>1 DEF Clean, Stale
<1> QED
  BY <1>1, <1>2, <1>4, <1>5 DEF Good, v

\* stop_stream.
LEMMA StopKeeps ==
  ASSUME NEW u \in Usb, NEW p, NEW k, Good(u, p, k, TRUE)
  PROVE  stop_stream(u) \in Usb /\ Good(stop_stream(u), p, k, TRUE)
<1> DEFINE v == stop_stream(u)
<1>1. CASE ~u.streaming
  <2>1. stop_stream(u) = u
    BY <1>1 DEF stop_stream
  <2> QED
    BY <2>1
<1>2. CASE u.streaming
  <2>1. /\ v \in Usb
        /\ ~v.streaming /\ ~v.frame_active
        /\ v.in_flight <=> u.in_flight
        /\ v.discard_completion <=> u.discard_completion \/ u.in_flight
        /\ v.irq_req <=> u.irq_req
        /\ v.leftover <=> u.leftover
        /\ v.failed = Past(u.failed)
        /\ Stale(v.ring) /\ Len(v.ring) = Len(u.ring)
        /\ (v.ring = <<>>) <=> (u.ring = <<>>)
    BY <1>2, StopFacts
  <2> HIDE DEF v
  <2>2. Control(v, p) /\ UnderWay(v, p)
    BY <2>1 DEF Good, Control, UnderWay
  <2>3. v.ring \in Seq(Transfer)
    BY <2>1 DEF Usb
  <2>4. v.ring # <<>> => 1 \in DOMAIN v.ring /\ Head(v.ring) = v.ring[1]
    BY <2>3
  <2>5. Carried(v)
    BY <2>1, <2>4, PastFacts DEF Good, Carried, Stale, Usb
  <2>6. ASSUME ~v.leftover
        PROVE  Clean(v, p, k)
    <3>1. Len(v.ring) <= 1
      BY <2>1, <2>6 DEF Good, Clean
    <3>2. \A i \in DOMAIN v.ring : v.ring[i].data # "torn"
      BY <2>1 DEF Stale
    <3> QED
      BY <2>1, <3>1, <3>2 DEF Clean
  <2> QED
    BY <2>1, <2>2, <2>5, <2>6 DEF Good, v
<1> QED
  BY <1>1, <1>2

\* endpoint_in_complete, for a transfer that is on the ring.
LEMMA CompleteKeeps ==
  ASSUME NEW u \in Usb, NEW p, NEW k, NEW a \in BOOLEAN, Good(u, p, k, a), u.ring # <<>>
  PROVE  endpoint_in_complete(u) \in Usb /\ Good(endpoint_in_complete(u), p, k, a)
<1> DEFINE v == [u EXCEPT !.ring = Tail(@), !.in_flight = FALSE]
<1>1. /\ u.ring \in Seq(Transfer) /\ u.cursor \in AllSlots /\ u.payloads \in 0 .. MaxPayloads
      /\ u.queue \in Seq(Message)
  BY DEF Usb
<1>2. Tail(u.ring) \in Seq(Transfer) /\ (Len(u.ring) <= 1 => Tail(u.ring) = <<>>)
  BY <1>1, TailFacts
<1>3. v \in Usb
  BY <1>2 DEF Usb
<1>4. /\ ~v.in_flight /\ v.ring = Tail(u.ring)
      /\ v.streaming <=> u.streaming
      /\ v.frame_active <=> u.frame_active
      /\ v.discard_completion <=> u.discard_completion
      /\ v.irq_req <=> u.irq_req
      /\ v.leftover <=> u.leftover
      /\ v.failed = u.failed
      /\ v.cursor = u.cursor /\ v.payloads = u.payloads
  BY DEF Usb
<1>5. ~u.leftover => v.ring = <<>>
  BY <1>2, <1>4 DEF Good, Clean
<1>6. endpoint_in_complete(u) =
        IF u.discard_completion THEN kick([v EXCEPT !.discard_completion = FALSE])
        ELSE IF ~u.frame_active THEN v
        ELSE IF u.cursor + 1 < u.payloads THEN enqueue_payload([v EXCEPT !.cursor = @ + 1])
        ELSE notify([v EXCEPT !.cursor = 0, !.frame_active = FALSE], "IrqUvcFrameDone")
  BY DEF endpoint_in_complete
<1> HIDE DEF v
<1>7. Control(v, p)
  BY <1>4 DEF Good, Control
<1>8. ASSUME NEW w, w.ring = v.ring, w.leftover <=> v.leftover, ~w.leftover
      PROVE  Clean(w, p, k)
  BY <1>4, <1>5, <1>8, EmptyIsClean
<1>9. CASE u.discard_completion
  <2> DEFINE w == [v EXCEPT !.discard_completion = FALSE]
  <2>1. w \in Usb
    BY <1>3 DEF Usb
  <2>2. /\ ~w.in_flight /\ w.ring = v.ring /\ ~w.discard_completion
        /\ w.streaming <=> v.streaming
        /\ w.frame_active <=> v.frame_active
        /\ w.irq_req <=> v.irq_req
        /\ w.leftover <=> v.leftover
        /\ w.failed = v.failed
    BY <1>3, <1>4 DEF Usb
  <2>3. endpoint_in_complete(u) = kick(w)
    BY <1>6, <1>9
  <2> HIDE DEF w
  <2>4. Control(w, p) /\ Carried(w)
    BY <1>7, <2>2 DEF Control, Carried
  <2>5. ~w.leftover => Clean(w, p, k)
    BY <1>8, <2>2
  <2> QED
    BY <1>4, <1>5, <2>1, <2>2, <2>3, <2>4, <2>5, KickKeeps
<1>10. CASE ~u.discard_completion /\ ~u.frame_active
  <2>1. endpoint_in_complete(u) = v
    BY <1>6, <1>10
  <2>2. Carried(v) /\ UnderWay(v, p)
    BY <1>4, <1>10 DEF Carried, UnderWay
  <2> QED
    BY <1>3, <1>7, <1>8, <2>1, <2>2 DEF Good
<1>11. CASE ~u.discard_completion /\ u.frame_active /\ u.cursor + 1 < u.payloads
  <2> DEFINE w == [v EXCEPT !.cursor = @ + 1]
  <2>1. v.cursor + 1 \in AllSlots
    BY <1>1, <1>4, <1>11, UvcAssumption DEF AllSlots
  <2>2. w \in Usb
    BY <1>3, <2>1 DEF Usb
  <2>3. /\ ~w.in_flight /\ w.ring = v.ring
        /\ w.discard_completion <=> v.discard_completion
        /\ w.streaming <=> v.streaming
        /\ w.frame_active <=> v.frame_active
        /\ w.irq_req <=> v.irq_req
        /\ w.leftover <=> v.leftover
        /\ w.failed = v.failed
    BY <1>3, <1>4 DEF Usb
  <2>4. endpoint_in_complete(u) = enqueue_payload(w)
    BY <1>6, <1>11
  <2> HIDE DEF w
  <2>5. Control(w, p) /\ Carried(w)
    BY <1>4, <1>7, <1>11, <2>3 DEF Control, Carried
  <2> QED
    BY <1>4, <1>5, <1>11, <2>2, <2>3, <2>4, <2>5, EnqueueKeeps
<1>12. CASE ~u.discard_completion /\ u.frame_active /\ ~(u.cursor + 1 < u.payloads)
  <2> DEFINE w == [v EXCEPT !.cursor = 0, !.frame_active = FALSE]
             n == notify(w, "IrqUvcFrameDone")
  <2>1. 0 \in AllSlots
    BY UvcAssumption DEF AllSlots
  <2>2. w \in Usb
    BY <1>3, <2>1 DEF Usb
  <2>3. /\ ~w.in_flight /\ w.ring = v.ring /\ ~w.frame_active
        /\ w.discard_completion <=> v.discard_completion
        /\ w.streaming <=> v.streaming
        /\ w.irq_req <=> v.irq_req
        /\ w.leftover <=> v.leftover
        /\ w.failed = v.failed
    BY <1>3, <1>4 DEF Usb
  <2>4. endpoint_in_complete(u) = n
    BY <1>6, <1>12
  <2> HIDE DEF w
  <2>5. Same(w, n)
    BY <2>2, NotifyFacts DEF Ops
  <2> HIDE DEF n
  <2>6. Control(n, p) /\ Carried(n) /\ UnderWay(n, p)
    BY <1>4, <1>7, <1>12, <2>3, <2>5 DEF Same, Control, Carried, UnderWay
  <2>7. ~n.leftover => Clean(n, p, k)
    BY <1>8, <2>3, <2>5 DEF Same
  <2> QED
    BY <2>4, <2>5, <2>6, <2>7 DEF Good, Same
<1> QED
  BY <1>9, <1>10, <1>11, <1>12

\* A transfer that fails: the flags stay.  If it was one of an earlier stream,
\* that of this stream is still behind it.
LEMMA FailKeeps ==
  ASSUME NEW u \in Usb, NEW p, NEW k, NEW a \in BOOLEAN, Good(u, p, k, a), u.ring # <<>>,
         NEW v, v = [u EXCEPT !.ring = Tail(@),
                              !.failed = IF Head(u.ring).data = "stale" /\ @ # "now"
                                         THEN "before" ELSE "now"]
  PROVE  v \in Usb /\ Good(v, p, k, a)
<1>1. u.ring \in Seq(Transfer)
  BY DEF Usb
<1>2. /\ Tail(u.ring) \in Seq(Transfer) /\ (Len(u.ring) <= 1 => Tail(u.ring) = <<>>)
      /\ Head(u.ring).data = "stale" /\ ~Stale(u.ring) => ~Stale(Tail(u.ring))
  BY <1>1, TailFacts
<1>3. v \in Usb
  BY <1>2 DEF Usb
<1>4. /\ v.ring = Tail(u.ring)
      /\ v.streaming <=> u.streaming
      /\ v.frame_active <=> u.frame_active
      /\ v.in_flight <=> u.in_flight
      /\ v.discard_completion <=> u.discard_completion
      /\ v.irq_req <=> u.irq_req
      /\ v.leftover <=> u.leftover
      /\ v.failed # "no"
      /\ v.failed # "now" => Head(u.ring).data = "stale" /\ u.failed # "now"
  BY DEF Usb
<1>5. Control(v, p)
  BY <1>4 DEF Good, Control
<1>6. a => Carried(v) /\ UnderWay(v, p)
  BY <1>2, <1>4 DEF Good, Carried, UnderWay
<1>7. ~v.leftover => Clean(v, p, k)
  <2>1. ~v.leftover => v.ring = <<>>
    BY <1>2, <1>4 DEF Good, Clean
  <2> QED
    BY <2>1, EmptyIsClean
<1> QED
  BY <1>3, <1>5, <1>6, <1>7 DEF Good

-----------------------------------------------------------------------------
(***************************************************************************)
(* The steps.                                                              *)
(***************************************************************************)
\* Initially.
LEMMA InitGood == Init => IInv
<1> SUFFICES ASSUME Init PROVE IInv
  OBVIOUS
<1>1. usb \in Usb
  <2>1. <<>> \in Seq(Transfer) /\ <<>> \in Seq(Message) /\ 0 \in AllSlots /\ 0 \in 0 .. MaxPayloads
    BY UvcAssumption DEF AllSlots
  <2> QED
    BY <2>1 DEF Init, Usb
<1>2. main \in Main /\ main.pc = "receive"
  <2>1. Note("Other") \in Message /\ 0 \in 0 .. MaxPayloads /\ 0 \in 0 .. 5
    BY UvcAssumption DEF Note, Message, Ops
  <2> QED
    BY <2>1 DEF Init, Main, PCs
<1>3. /\ ~usb.streaming /\ ~usb.irq_req /\ usb.ring = <<>>
      /\ ~usb.in_flight /\ ~usb.discard_completion
  BY DEF Init
<1>4. Control(usb, main.pc) /\ Carried(usb) /\ UnderWay(usb, main.pc)
  BY <1>2, <1>3 DEF Control, Carried, UnderWay
<1>5. Clean(usb, main.pc, main.k)
  BY <1>2, <1>3 DEF Clean, Stale
<1>6. addressed \in BOOLEAN
  BY DEF Init
<1> QED
  BY <1>1, <1>2, <1>4, <1>5, <1>6 DEF IInv, Good, Types

\* A run of the handler: it keeps the invariant if what it does before it serves
\* the loop's request does.
LEMMA HandlerKeeps ==
  ASSUME IInv, addressed' \in BOOLEAN, NEW u \in Usb,
         Good(u, main.pc, main.k, addressed'), composite_handler(u)
  PROVE  IInv'
<1>1. usb' = service_sw_request(u) /\ main' = main
  BY DEF composite_handler
<1>2. usb' \in Usb /\ Good(usb', main.pc, main.k, addressed')
  BY <1>1, ServiceKeeps
<1> QED
  BY <1>1, <1>2 DEF IInv, Types

\* The events of the host.
LEMMA HostKeeps ==
  ASSUME IInv, Host
  PROVE  IInv'
<1>1. usb \in Usb /\ Good(usb, main.pc, main.k, addressed) /\ addressed \in BOOLEAN
  BY DEF IInv, Types
<1>2. CASE Commit
  <2>1. addressed /\ addressed' = addressed /\ composite_handler(start_stream(usb))
    BY <1>2 DEF Commit
  <2>2. start_stream(usb) \in Usb /\ Good(start_stream(usb), main.pc, main.k, TRUE)
    BY <1>1, <2>1, StartKeeps
  <2> QED
    BY <2>1, <2>2, HandlerKeeps
<1>3. CASE ClearHalt
  <2>1. addressed /\ addressed' = addressed /\ composite_handler(stop_stream(usb))
    BY <1>3 DEF ClearHalt
  <2>2. stop_stream(usb) \in Usb /\ Good(stop_stream(usb), main.pc, main.k, TRUE)
    BY <1>1, <2>1, StopKeeps
  <2> QED
    BY <2>1, <2>2, HandlerKeeps
<1>4. CASE TransferDone
  <2>1. /\ addressed /\ addressed' = addressed /\ usb.ring # <<>>
        /\ composite_handler(endpoint_in_complete(usb))
    BY <1>4 DEF TransferDone
  <2>2. endpoint_in_complete(usb) \in Usb /\ Good(endpoint_in_complete(usb), main.pc, main.k, TRUE)
    BY <1>1, <2>1, CompleteKeeps
  <2> QED
    BY <2>1, <2>2, HandlerKeeps
<1>5. CASE BusReset
  <2> DEFINE v == RingsCleared(reset_state(usb))
  <2>1. addressed' = TRUE /\ composite_handler(v)
    BY <1>5 DEF BusReset
  <2>2. /\ v \in Usb
        /\ ~v.in_flight /\ ~v.discard_completion /\ ~v.frame_active /\ ~v.streaming
        /\ v.irq_req <=> usb.irq_req
        /\ ~v.leftover /\ v.ring = <<>>
    BY <1>1, ResetFacts
  <2> HIDE DEF v
  <2>3. Control(v, main.pc) /\ Carried(v) /\ UnderWay(v, main.pc)
    BY <1>1, <2>2 DEF Good, Control, Carried, UnderWay
  <2>4. Clean(v, main.pc, main.k)
    BY <2>2 DEF Clean, Stale
  <2> QED
    BY <2>1, <2>2, <2>3, <2>4, HandlerKeeps DEF Good
<1>6. CASE TransferFails
  <2> DEFINE v == [usb EXCEPT !.ring = Tail(@),
                              !.failed = IF Head(usb.ring).data = "stale" /\ @ # "now"
                                         THEN "before" ELSE "now"]
  <2>1. addressed /\ addressed' = addressed /\ usb.ring # <<>> /\ composite_handler(v)
    BY <1>6 DEF TransferFails
  <2>2. v \in Usb /\ Good(v, main.pc, main.k, TRUE)
    <3>1. Good(usb, main.pc, main.k, TRUE)
      BY <1>1, <2>1
    <3> QED
      BY <1>1, <2>1, <3>1, FailKeeps
  <2> HIDE DEF v
  <2> QED
    BY <2>1, <2>2, HandlerKeeps
<1> QED
  BY <1>2, <1>3, <1>4, <1>5, <1>6 DEF Host

\* The messages of others only change the queue.
LEMMA ClientsKeep ==
  ASSUME IInv, Clients
  PROVE  IInv'
<1>1. usb \in Usb /\ Good(usb, main.pc, main.k, addressed)
  BY DEF IInv, Types
<1>2. PICK m \in Message : Queued(m) /\ UNCHANGED <<main, addressed>>
  <2>1. ASSUME NEW s \in Sources, uvc_send_chunk(s)
        PROVE  \E m \in Message : Queued(m) /\ UNCHANGED <<main, addressed>>
    <3>1. [op |-> "UvcSendFrame", from |-> s] \in Message
      BY DEF Message
    <3> QED
      BY <2>1, <3>1 DEF uvc_send_chunk
  <2>2. ASSUME NEW op \in {"UsbBusReset", "PmicIrq", "Other"}, SendOther(op)
        PROVE  \E m \in Message : Queued(m) /\ UNCHANGED <<main, addressed>>
    <3>1. Note(op) \in Message
      BY DEF Message, Note, Ops
    <3> QED
      BY <2>2, <3>1 DEF SendOther
  <2> QED
    BY <2>1, <2>2 DEF Clients
<1>3. usb' = [usb EXCEPT !.queue = Append(@, m)]
  BY <1>2 DEF Queued
<1>4. Append(usb.queue, m) \in Seq(Message)
  BY <1>1 DEF Usb
<1>5. usb' \in Usb
  BY <1>1, <1>3, <1>4 DEF Usb
<1>6. /\ usb'.streaming <=> usb.streaming
      /\ usb'.frame_active <=> usb.frame_active
      /\ usb'.in_flight <=> usb.in_flight
      /\ usb'.discard_completion <=> usb.discard_completion
      /\ usb'.irq_req <=> usb.irq_req
      /\ usb'.ring = usb.ring
      /\ usb'.leftover <=> usb.leftover
      /\ usb'.failed = usb.failed
  BY <1>1, <1>3 DEF Usb
<1>7. Good(usb', main.pc, main.k, addressed)
  BY <1>1, <1>6 DEF Good, Control, Carried, UnderWay, Clean
<1> QED
  BY <1>2, <1>5, <1>7 DEF IInv, Types

\* The loop goes on to another place, or to a step of the answer.
LEMMA GotoTypes ==
  ASSUME Types, NEW q \in PCs, Goto(q)
  PROVE  main' \in Main /\ main'.pc = q /\ main'.k = main.k
BY DEF Types, Goto, Main

\* After the answer the loop is where it was going.
LEMMA AnswerTypes ==
  ASSUME Types, Answer
  PROVE  main' \in Main /\ main'.pc = main.then
<1>1. main' = [main EXCEPT !.pc = main.then, !.lend = NONE, !.n = 0]
  BY DEF Answer
<1>2. main \in Main /\ main.then \in {"receive", "dispatch", "force_reset"}
  BY DEF Types, Main
<1>3. main.then \in PCs /\ 0 \in 0 .. MaxPayloads
  BY <1>2, UvcAssumption DEF PCs
<1> QED
  BY <1>1, <1>2, <1>3 DEF Main

\* Where the loop relies on nothing it may go from anywhere, a request and a
\* reset of its own apart.
LEMMA MoveKeeps ==
  ASSUME NEW u, NEW p, NEW k, NEW a, Good(u, p, k, a),
         p \notin {"reset", "sw_irq"}, ~u.irq_req,
         NEW q \in {"receive", "resume", "dispatch", "force_reset"}, NEW j
  PROVE  Good(u, q, j, a)
<1>1. Control(u, q)
  BY DEF Control
<1>2. a => Carried(u) /\ UnderWay(u, q)
  BY DEF Good, UnderWay
<1>3. ~u.leftover => Clean(u, q, j)
  BY DEF Good, Clean
<1> QED
  BY <1>1, <1>2, <1>3 DEF Good

\* A step that leaves the streamer alone and goes on to such a place.
LEMMA PassKeeps ==
  ASSUME IInv, main' \in Main, main.pc \notin {"reset", "sw_irq", "trigger"},
         main'.pc \in {"receive", "resume", "dispatch", "force_reset"},
         usb' = usb, addressed' = addressed
  PROVE  IInv'
<1>1. usb \in Usb /\ addressed \in BOOLEAN /\ Good(usb, main.pc, main.k, addressed)
  BY DEF IInv, Types
<1>2. ~usb.irq_req
  BY <1>1 DEF Good, Control
<1>3. Good(usb, main'.pc, main'.k, addressed)
  BY <1>1, <1>2, MoveKeeps
<1> QED
  BY <1>1, <1>3 DEF IInv, Types

\* Receive: only the queue of the streamer's state changes.
LEMMA ReceiveKeeps ==
  ASSUME IInv, Receive
  PROVE  IInv'
<1>1. /\ usb \in Usb /\ Good(usb, main.pc, main.k, addressed) /\ addressed \in BOOLEAN
      /\ main \in Main
  BY DEF IInv, Types
<1>2. /\ main.pc = "receive" /\ usb.queue # <<>> /\ addressed' = addressed
      /\ main' = [main EXCEPT !.pc = "resume", !.then = "dispatch", !.msg = Head(usb.queue)]
      /\ usb' = [usb EXCEPT !.queue = Tail(@)]
  BY DEF Receive, At
<1>3. usb.queue \in Seq(Message)
  BY <1>1 DEF Usb
<1>4. Tail(usb.queue) \in Seq(Message) /\ Head(usb.queue) \in Message
  BY <1>2, <1>3
<1>5. main' \in Main /\ main'.pc = "resume"
  BY <1>1, <1>2, <1>4 DEF Main, PCs
<1>6. usb' \in Usb
  BY <1>1, <1>2, <1>4 DEF Usb
<1>7. /\ usb'.streaming <=> usb.streaming
      /\ usb'.frame_active <=> usb.frame_active
      /\ usb'.in_flight <=> usb.in_flight
      /\ usb'.discard_completion <=> usb.discard_completion
      /\ usb'.irq_req <=> usb.irq_req
      /\ usb'.ring = usb.ring
      /\ usb'.leftover <=> usb.leftover
      /\ usb'.failed = usb.failed
  BY <1>1, <1>2 DEF Usb
<1>8. Good(usb', main.pc, main.k, addressed)
  BY <1>1, <1>7 DEF Good, Control, Carried, UnderWay, Clean
<1>9. ~usb'.irq_req
  BY <1>2, <1>8 DEF Good, Control
<1>10. Good(usb', main'.pc, main'.k, addressed)
  BY <1>2, <1>5, <1>8, <1>9, MoveKeeps
<1> QED
  BY <1>1, <1>2, <1>5, <1>6, <1>10 DEF IInv, Types

\* uvc_resume_pending.
LEMMA ResumeKeeps ==
  ASSUME IInv, Lends, uvc_resume_pending
  PROVE  IInv'
<1>1. /\ usb \in Usb /\ Good(usb, main.pc, main.k, addressed) /\ addressed \in BOOLEAN
      /\ main \in Main /\ Types
  BY DEF IInv, Types
<1>2. main.pc = "resume" /\ usb' = usb /\ addressed' = addressed
  BY DEF uvc_resume_pending, At
<1>3. CASE MustStay
  <2>1. Goto(main.then)
    BY <1>3 DEF uvc_resume_pending
  <2>2. main.then \in {"receive", "dispatch", "force_reset"} /\ main.then \in PCs
    BY <1>1 DEF Main, PCs
  <2>3. main' \in Main /\ main'.pc = main.then
    BY <1>1, <2>1, <2>2, GotoTypes
  <2> QED
    BY <1>2, <2>2, <2>3, PassKeeps
<1>4. CASE ~MustStay
  <2>1. main' = [main EXCEPT !.pc = "streaming?", !.lend = pending]
    BY <1>4 DEF uvc_resume_pending
  <2>2. main' \in Main /\ main'.pc = "streaming?"
    BY <1>1, <2>1 DEF Main, PCs, Lends
  <2>3. ~(usb.streaming /\ usb.frame_active)
    BY <1>4 DEF MustStay
  <2>4. Control(usb, main'.pc) /\ (addressed => Carried(usb) /\ UnderWay(usb, main'.pc))
    BY <1>1, <1>2, <2>2, <2>3 DEF Good, Control, UnderWay
  <2>5. ~usb.leftover => Clean(usb, main'.pc, main'.k)
    BY <1>1, <1>2, <2>2 DEF Good, Clean
  <2> QED
    BY <1>1, <1>2, <2>2, <2>4, <2>5 DEF IInv, Types, Good
<1> QED
  BY <1>3, <1>4

\* The parked chunk is staged or refused.
LEMMA StageOrRefuseKeeps ==
  ASSUME IInv, StageOrRefuse
  PROVE  IInv'
<1>1. /\ usb \in Usb /\ Good(usb, main.pc, main.k, addressed) /\ addressed \in BOOLEAN
      /\ main \in Main /\ Types
  BY DEF IInv, Types
<1>2. main.pc = "streaming?" /\ usb' = usb /\ addressed' = addressed
  BY DEF StageOrRefuse, At
<1>3. CASE usb.streaming
  <2>1. Goto("copy")
    BY <1>3 DEF StageOrRefuse
  <2>2. main' \in Main /\ main'.pc = "copy"
    BY <1>1, <2>1, GotoTypes DEF PCs
  <2>3. Control(usb, "copy") /\ (addressed => Carried(usb) /\ UnderWay(usb, "copy"))
    BY <1>1, <1>2, <1>3 DEF Good, Control, UnderWay
  <2>4. ~usb.leftover => Clean(usb, "copy", main'.k)
    BY <1>1, <1>2, <1>3 DEF Good, Clean
  <2> QED
    BY <1>1, <1>2, <2>2, <2>3, <2>4 DEF IInv, Types, Good
<1>4. CASE ~usb.streaming
  <2>1. main' \in Main /\ main'.pc = main.then
    BY <1>1, <1>4, AnswerTypes DEF StageOrRefuse
  <2>2. main.then \in {"receive", "dispatch", "force_reset"}
    BY <1>1 DEF Main
  <2> QED
    BY <1>2, <2>1, <2>2, PassKeeps
<1> QED
  BY <1>3, <1>4

\* uvc_stage_chunk: in a clean stream what the copy could tear is stale.
LEMMA StageKeeps ==
  ASSUME IInv, NEW n \in 0 .. MaxPayloads, uvc_stage_chunk(n)
  PROVE  IInv'
<1>1. /\ usb \in Usb /\ Good(usb, main.pc, main.k, addressed) /\ addressed \in BOOLEAN
      /\ main \in Main /\ Types
  BY DEF IInv, Types
<1>2. main.pc = "copy" /\ addressed' = addressed
  BY DEF uvc_stage_chunk, At
<1>3. CASE n = 0
  <2>1. Answer /\ usb' = usb
    BY <1>3 DEF uvc_stage_chunk
  <2>2. main' \in Main /\ main'.pc = main.then
    BY <1>1, <2>1, AnswerTypes
  <2>3. main.then \in {"receive", "dispatch", "force_reset"}
    BY <1>1 DEF Main
  <2> QED
    BY <1>2, <2>1, <2>2, <2>3, PassKeeps
<1>4. CASE n # 0
  <2> DEFINE r == Marked(usb.ring, 0 .. n - 1, "torn")
  <2>1. /\ main' = [main EXCEPT !.pc = "set_chunk", !.n = n]
        /\ usb' = [usb EXCEPT !.ring = r]
    BY <1>4 DEF uvc_stage_chunk
  <2>2. usb.ring \in Seq(Transfer)
    BY <1>1 DEF Usb
  <2>3. /\ r \in Seq(Transfer) /\ Len(r) = Len(usb.ring) /\ ((r = <<>>) <=> (usb.ring = <<>>))
        /\ Stale(usb.ring) => Stale(r)
        /\ ~Stale(usb.ring) => ~Stale(r)
        /\ usb.ring # <<>> /\ Head(usb.ring).data = "stale" => Head(r).data = "stale"
    BY <2>2, MarkedFacts
  <2> HIDE DEF r
  <2>4. main' \in Main /\ main'.pc = "set_chunk"
    BY <1>1, <2>1 DEF Main, PCs
  <2>5. usb' \in Usb
    BY <1>1, <2>1, <2>3 DEF Usb
  <2>6. /\ usb'.streaming <=> usb.streaming
        /\ usb'.frame_active <=> usb.frame_active
        /\ usb'.in_flight <=> usb.in_flight
        /\ usb'.discard_completion <=> usb.discard_completion
        /\ usb'.irq_req <=> usb.irq_req
        /\ usb'.ring = r
        /\ usb'.leftover <=> usb.leftover
        /\ usb'.failed = usb.failed
    BY <1>1, <2>1 DEF Usb
  <2>7. Control(usb', "set_chunk") /\ (addressed => Carried(usb') /\ UnderWay(usb', "set_chunk"))
    BY <1>1, <1>2, <2>3, <2>6 DEF Good, Control, Carried, UnderWay
  <2>8. ASSUME ~usb'.leftover
        PROVE  Clean(usb', "set_chunk", main'.k)
    <3>1. ~usb.frame_active /\ Clean(usb, "copy", main.k)
      BY <1>1, <1>2, <2>6, <2>8 DEF Good, Control
    <3>2. Stale(usb.ring)
      BY <3>1 DEF Clean
    <3>3. Stale(r) /\ \A i \in DOMAIN r : r[i].data # "torn"
      BY <2>3, <3>2 DEF Stale
    <3> QED
      BY <2>3, <2>6, <3>1, <3>3 DEF Clean
  <2> QED
    BY <1>1, <1>2, <2>4, <2>5, <2>7, <2>8 DEF IInv, Types, Good
<1> QED
  BY <1>3, <1>4

\* set_chunk: the chunk is to be started by the request that follows.
LEMMA SetChunkKeeps ==
  ASSUME IInv, SetChunk
  PROVE  IInv'
<1>1. /\ usb \in Usb /\ Good(usb, main.pc, main.k, addressed) /\ addressed \in BOOLEAN
      /\ main \in Main /\ Types
  BY DEF IInv, Types
<1>2. /\ main.pc = "set_chunk" /\ addressed' = addressed /\ Goto("sw_irq")
      /\ usb' = [usb EXCEPT !.payloads = main.n, !.cursor = 0, !.frame_active = TRUE]
  BY DEF SetChunk, At, set_chunk
<1>3. main' \in Main /\ main'.pc = "sw_irq"
  BY <1>1, <1>2, GotoTypes DEF PCs
<1>4. 0 \in AllSlots /\ main.n \in 0 .. MaxPayloads
  BY <1>1, UvcAssumption DEF AllSlots, Main
<1>5. usb' \in Usb
  BY <1>1, <1>2, <1>4 DEF Usb
<1>6. /\ usb'.frame_active
      /\ usb'.streaming <=> usb.streaming
      /\ usb'.in_flight <=> usb.in_flight
      /\ usb'.discard_completion <=> usb.discard_completion
      /\ usb'.irq_req <=> usb.irq_req
      /\ usb'.ring = usb.ring
      /\ usb'.leftover <=> usb.leftover
      /\ usb'.failed = usb.failed
  BY <1>1, <1>2 DEF Usb
<1>7. Control(usb', "sw_irq") /\ (addressed => Carried(usb') /\ UnderWay(usb', "sw_irq"))
  BY <1>1, <1>2, <1>6 DEF Good, Control, Carried, UnderWay
<1>8. ~usb'.leftover => Clean(usb', "sw_irq", main'.k)
  BY <1>1, <1>2, <1>6 DEF Good, Clean
<1> QED
  BY <1>1, <1>2, <1>3, <1>5, <1>7, <1>8 DEF IInv, Types, Good

\* sw_irq: the request is there.
LEMMA SwIrqKeeps ==
  ASSUME IInv, sw_irq
  PROVE  IInv'
<1>1. /\ usb \in Usb /\ Good(usb, main.pc, main.k, addressed) /\ addressed \in BOOLEAN
      /\ main \in Main /\ Types
  BY DEF IInv, Types
<1>2. /\ main.pc = "sw_irq" /\ addressed' = addressed /\ Goto("trigger")
      /\ usb' = [usb EXCEPT !.irq_req = TRUE]
  BY DEF sw_irq, At
<1>3. main' \in Main /\ main'.pc = "trigger"
  BY <1>1, <1>2, GotoTypes DEF PCs
<1>4. usb' \in Usb
  BY <1>1, <1>2 DEF Usb
<1>5. /\ usb'.irq_req
      /\ usb'.frame_active <=> usb.frame_active
      /\ usb'.streaming <=> usb.streaming
      /\ usb'.in_flight <=> usb.in_flight
      /\ usb'.discard_completion <=> usb.discard_completion
      /\ usb'.ring = usb.ring
      /\ usb'.leftover <=> usb.leftover
      /\ usb'.failed = usb.failed
  BY <1>1, <1>2 DEF Usb
<1>6. Control(usb', "trigger") /\ (addressed => Carried(usb') /\ UnderWay(usb', "trigger"))
  BY <1>1, <1>2, <1>5 DEF Good, Control, Carried, UnderWay
<1>7. ~usb'.leftover => Clean(usb', "trigger", main'.k)
  BY <1>1, <1>2, <1>5 DEF Good, Clean
<1> QED
  BY <1>1, <1>2, <1>3, <1>4, <1>6, <1>7 DEF IInv, Types, Good

\* The software interrupt.
LEMMA TriggerKeeps ==
  ASSUME IInv, Trigger
  PROVE  IInv'
<1>1. /\ usb \in Usb /\ Good(usb, main.pc, main.k, addressed) /\ addressed \in BOOLEAN
      /\ main \in Main /\ Types
  BY DEF IInv, Types
<1>2. /\ main.pc = "trigger" /\ addressed' = addressed /\ Answer
      /\ usb' = service_sw_request(usb)
  BY DEF Trigger, At
<1>3. main' \in Main /\ main'.pc = main.then
  BY <1>1, <1>2, AnswerTypes
<1>4. main.then \in {"receive", "dispatch", "force_reset"}
  BY <1>1 DEF Main
<1>5. usb' \in Usb /\ Good(usb', main.pc, main.k, addressed) /\ ~usb'.irq_req
  BY <1>1, <1>2, ServiceKeeps
<1>6. Good(usb', main'.pc, main'.k, addressed)
  BY <1>2, <1>3, <1>4, <1>5, MoveKeeps
<1> QED
  BY <1>1, <1>2, <1>3, <1>4, <1>5, <1>6 DEF IInv, Types

\* UvcSendFrame.
LEMMA SendFrameKeeps ==
  ASSUME IInv, UvcSendFrame
  PROVE  IInv'
<1>1. /\ usb \in Usb /\ Good(usb, main.pc, main.k, addressed) /\ addressed \in BOOLEAN
      /\ main \in Main /\ Types
  BY DEF IInv, Types
<1>2. /\ main.pc = "dispatch" /\ main.msg.op = "UvcSendFrame"
      /\ usb' = usb /\ addressed' = addressed
  BY DEF UvcSendFrame, At
<1>3. CASE usb.streaming
  <2>1. main' = [main EXCEPT !.pc = "busy?", !.then = "receive", !.lend = main.msg.from]
    BY <1>3 DEF UvcSendFrame
  <2>2. main.msg.from \in Sources
    BY <1>1, <1>2 DEF Main, Message, Ops
  <2>3. main' \in Main /\ main'.pc = "busy?"
    BY <1>1, <2>1, <2>2 DEF Main, PCs
  <2>4. Control(usb, "busy?") /\ (addressed => Carried(usb) /\ UnderWay(usb, "busy?"))
    BY <1>1, <1>2, <1>3 DEF Good, Control, UnderWay
  <2>5. ~usb.leftover => Clean(usb, "busy?", main'.k)
    BY <1>1, <1>2, <1>3 DEF Good, Clean
  <2> QED
    BY <1>1, <1>2, <2>3, <2>4, <2>5 DEF IInv, Types, Good
<1>4. CASE ~usb.streaming
  <2>1. main' \in Main /\ main'.pc = "receive"
    BY <1>1, <1>4, GotoTypes DEF UvcSendFrame, PCs
  <2> QED
    BY <1>2, <2>1, PassKeeps
<1> QED
  BY <1>3, <1>4

\* The lend is staged, parked or refused.
LEMMA HoldOrStageKeeps ==
  ASSUME IInv, HoldOrStage
  PROVE  IInv'
<1>1. /\ usb \in Usb /\ Good(usb, main.pc, main.k, addressed) /\ addressed \in BOOLEAN
      /\ main \in Main /\ Types
  BY DEF IInv, Types
<1>2. main.pc = "busy?" /\ usb' = usb /\ addressed' = addressed
  BY DEF HoldOrStage, At
<1>3. CASE ~usb.frame_active
  <2>1. main' \in Main /\ main'.pc = "copy"
    BY <1>1, <1>3, GotoTypes DEF HoldOrStage, PCs
  <2>2. Control(usb, "copy") /\ (addressed => Carried(usb) /\ UnderWay(usb, "copy"))
    BY <1>1, <1>2, <1>3 DEF Good, Control, UnderWay
  <2>3. ~usb.leftover => Clean(usb, "copy", main'.k)
    BY <1>1, <1>2, <1>3 DEF Good, Clean
  <2> QED
    BY <1>1, <1>2, <2>1, <2>2, <2>3 DEF IInv, Types, Good
<1>4. CASE usb.frame_active /\ pending # NONE
  <2>1. main' \in Main /\ main'.pc = main.then
    BY <1>1, <1>4, AnswerTypes DEF HoldOrStage
  <2>2. main.then \in {"receive", "dispatch", "force_reset"}
    BY <1>1 DEF Main
  <2> QED
    BY <1>2, <2>1, <2>2, PassKeeps
<1>5. CASE usb.frame_active /\ pending = NONE
  <2>1. main' = [main EXCEPT !.pc = "receive", !.lend = NONE]
    BY <1>5 DEF HoldOrStage
  <2>2. main' \in Main /\ main'.pc = "receive"
    BY <1>1, <2>1 DEF Main, PCs
  <2> QED
    BY <1>2, <2>2, PassKeeps
<1> QED
  BY <1>3, <1>4, <1>5

\* A message that only wakes the loop.
LEMMA NothingToDoKeeps ==
  ASSUME IInv, NothingToDo
  PROVE  IInv'
<1>1. /\ usb \in Usb /\ Good(usb, main.pc, main.k, addressed) /\ addressed \in BOOLEAN
      /\ main \in Main /\ Types
  BY DEF IInv, Types
<1>2. main.pc = "dispatch" /\ usb' = usb /\ addressed' = addressed /\ Goto("receive")
  BY DEF NothingToDo, At
<1>3. main' \in Main /\ main'.pc = "receive"
  BY <1>1, <1>2, GotoTypes DEF PCs
<1> QED
  BY <1>2, <1>3, PassKeeps

\* UsbBusReset: the loop begins with the first assignment.
LEMMA UsbBusResetKeeps ==
  ASSUME IInv, UsbBusReset
  PROVE  IInv'
<1>1. /\ usb \in Usb /\ Good(usb, main.pc, main.k, addressed) /\ addressed \in BOOLEAN
      /\ main \in Main /\ Types
  BY DEF IInv, Types
<1>2. /\ main.pc = "dispatch" /\ usb' = usb /\ addressed' = addressed
      /\ main' = [main EXCEPT !.pc = "reset", !.then = "force_reset", !.k = 1]
  BY DEF UsbBusReset, At
<1>3. main' \in Main /\ main'.pc = "reset" /\ main'.k = 1
  <2>1. 1 \in 0 .. 5
    OBVIOUS
  <2>2. main' \in Main
    BY <1>1, <1>2, <2>1 DEF Main, PCs
  <2> QED
    BY <1>1, <1>2, <2>2 DEF Main
<1>4. 1 \in ResetSteps
  BY DEF ResetSteps
<1>5. Control(usb, "reset") /\ (addressed => Carried(usb) /\ UnderWay(usb, "reset"))
  BY <1>1, <1>2 DEF Good, Control, UnderWay
<1>6. ~usb.leftover => Clean(usb, "reset", 1)
  BY <1>1, <1>2 DEF Good, Clean
<1> QED
  BY <1>1, <1>2, <1>3, <1>4, <1>5, <1>6 DEF IInv, Types, Good

\* The assignments of reset_state, with the handler between any two of them.
LEMMA ResetByLoopKeeps ==
  ASSUME IInv, ResetByLoop
  PROVE  IInv'
<1>1. /\ usb \in Usb /\ Good(usb, main.pc, main.k, addressed) /\ addressed \in BOOLEAN
      /\ main \in Main /\ Types
  BY DEF IInv, Types
<1> DEFINE k == main.k
           v == ResetStep(usb, main.k)
           q == IF main.then = "force_reset" THEN "resume" ELSE "unplugged"
<1>2. /\ main.pc = "reset" /\ usb' = v /\ addressed' = addressed
      /\ main' = IF k + 1 \in ResetSteps THEN [main EXCEPT !.k = @ + 1]
                 ELSE [main EXCEPT !.pc = q, !.k = 0]
      /\ q \in {"resume", "unplugged"}
  BY DEF ResetByLoop, At
<1>3. k \in ResetSteps
  BY <1>1, <1>2 DEF Types
<1>4. Cleared(usb, k, v)
  BY <1>1, <1>3, ResetStepFacts
<1> HIDE DEF v, q
<1>5. v \in Usb
  BY <1>4 DEF Cleared
<1>6. ~usb.irq_req /\ ~v.irq_req
  BY <1>1, <1>2, <1>4 DEF Good, Control, Cleared
<1>7. addressed => Carried(v)
  <2>1. Stale(v.ring) /\ v.ring # <<>> => Head(v.ring).data = "stale"
    <3>1. v.ring \in Seq(Transfer)
      BY <1>5 DEF Usb
    <3>2. v.ring # <<>> => 1 \in DOMAIN v.ring /\ Head(v.ring) = v.ring[1]
      BY <3>1
    <3> QED
      BY <3>2 DEF Stale
  <2> QED
    BY <1>1, <1>4, <2>1 DEF Good, Carried, Cleared
<1>8. ~v.leftover => /\ Len(v.ring) <= 1
                     /\ \A i \in DOMAIN v.ring : v.ring[i].data # "torn"
  BY <1>1, <1>4 DEF Good, Clean, Cleared, Stale
<1>9. CASE k = 5
  <2>1. ~(k + 1 \in ResetSteps)
    BY <1>9 DEF ResetSteps
  <2>2. main' \in Main /\ main'.pc = q
    <3>1. 0 \in 0 .. 5 /\ main' = [main EXCEPT !.pc = q, !.k = 0]
      BY <1>2, <2>1
    <3>2. main' \in Main
      BY <1>1, <1>2, <3>1 DEF Main, PCs
    <3> QED
      BY <1>1, <3>1, <3>2 DEF Main
  <2>3. ~v.streaming
    BY <1>4, <1>9 DEF Cleared
  <2>4. Control(v, q) /\ UnderWay(v, q)
    BY <1>2, <1>6, <2>3 DEF Control, UnderWay
  <2>5. ~v.leftover => Clean(v, q, main'.k)
    BY <1>2, <1>8, <2>3 DEF Clean
  <2> QED
    BY <1>1, <1>2, <1>5, <1>7, <2>2, <2>4, <2>5 DEF IInv, Types, Good
<1>10. CASE k # 5
  <2>1. k \in 1 .. 4 /\ k + 1 \in ResetSteps
    BY <1>3, <1>10 DEF ResetSteps
  <2>2. main' = [main EXCEPT !.k = k + 1]
    BY <1>2, <2>1
  <2>3. k + 1 \in 0 .. 5 /\ k + 1 >= 2
    BY <2>1
  <2>4. main' \in Main /\ main'.pc = "reset" /\ main'.k = k + 1
    BY <1>1, <1>2, <2>2, <2>3 DEF Main
  <2>5. Control(v, "reset") /\ (addressed => UnderWay(v, "reset"))
    BY <1>1, <1>2, <1>4, <1>6 DEF Good, Control, UnderWay, Cleared
  <2>6. ASSUME ~v.leftover
        PROVE  Clean(v, "reset", k + 1)
    <3>1. v.ring = usb.ring /\ Clean(usb, "reset", k)
      BY <1>1, <1>2, <1>4, <1>10, <2>6 DEF Good, Cleared
    <3>2. v.streaming /\ ~v.frame_active => Stale(v.ring) \/ k + 1 = 5
      <4>1. k = 4 => k + 1 = 5
        OBVIOUS
      <4>2. k # 4 => (v.frame_active <=> usb.frame_active)
        BY <1>4 DEF Cleared
      <4>3. v.streaming <=> usb.streaming
        BY <1>4, <1>10 DEF Cleared
      <4>4. usb.streaming /\ ~usb.frame_active => Stale(usb.ring)
        BY <1>10, <3>1 DEF Clean
      <4> QED
        BY <3>1, <4>1, <4>2, <4>3, <4>4
    <3> QED
      BY <1>8, <2>3, <2>6, <3>2 DEF Clean
  <2> QED
    BY <1>1, <1>2, <1>5, <1>7, <2>1, <2>4, <2>5, <2>6 DEF IInv, Types, Good
<1> QED
  BY <1>9, <1>10

\* force_reset: the rings are empty, and the host cannot reach the device.
LEMMA ForceResetKeeps ==
  ASSUME IInv, force_reset
  PROVE  IInv'
<1>1. /\ usb \in Usb /\ Good(usb, main.pc, main.k, addressed) /\ addressed \in BOOLEAN
      /\ main \in Main /\ Types
  BY DEF IInv, Types
<1>2. /\ main.pc = "force_reset" /\ addressed' = FALSE /\ Goto("receive")
      /\ usb' = [usb EXCEPT !.ring = <<>>, !.leftover = FALSE, !.failed = "no"]
  BY DEF force_reset, At, RingsCleared
<1>3. main' \in Main /\ main'.pc = "receive"
  BY <1>1, <1>2, GotoTypes DEF PCs
<1>4. <<>> \in Seq(Transfer)
  OBVIOUS
<1>5. usb' \in Usb
  BY <1>1, <1>2, <1>4 DEF Usb
<1>6. usb'.ring = <<>> /\ (usb'.irq_req <=> usb.irq_req)
  BY <1>1, <1>2 DEF Usb
<1>7. Control(usb', "receive")
  BY <1>1, <1>2, <1>6 DEF Good, Control
<1>8. Clean(usb', "receive", main'.k)
  BY <1>6 DEF Clean, Stale
<1> QED
  BY <1>2, <1>3, <1>5, <1>7, <1>8 DEF IInv, Types, Good

\* The cable is pulled: the rings are empty, and the flags are to be cleared.
LEMMA UnplugKeeps ==
  ASSUME IInv, unplug
  PROVE  IInv'
<1>1. /\ usb \in Usb /\ Good(usb, main.pc, main.k, addressed) /\ addressed \in BOOLEAN
      /\ main \in Main /\ Types
  BY DEF IInv, Types
<1>2. /\ main.pc = "dispatch" /\ addressed' = FALSE
      /\ main' = [main EXCEPT !.pc = "reset", !.k = 1]
      /\ usb' = [usb EXCEPT !.ring = <<>>, !.leftover = FALSE, !.failed = "no"]
  BY DEF unplug, At, RingsCleared
<1>3. main' \in Main /\ main'.pc = "reset" /\ main'.k = 1 /\ 1 \in ResetSteps
  <2>1. 1 \in 0 .. 5 /\ 1 \in ResetSteps
    BY DEF ResetSteps
  <2>2. main' \in Main
    BY <1>1, <1>2, <2>1 DEF Main, PCs
  <2> QED
    BY <1>1, <1>2, <2>1, <2>2 DEF Main
<1>4. <<>> \in Seq(Transfer)
  OBVIOUS
<1>5. usb' \in Usb
  BY <1>1, <1>2, <1>4 DEF Usb
<1>6. usb'.ring = <<>> /\ (usb'.irq_req <=> usb.irq_req)
  BY <1>1, <1>2 DEF Usb
<1>7. Control(usb', "reset")
  BY <1>1, <1>2, <1>6 DEF Good, Control
<1>8. Clean(usb', "reset", 1)
  BY <1>6 DEF Clean, Stale
<1> QED
  BY <1>2, <1>3, <1>5, <1>7, <1>8 DEF IInv, Types, Good

\* A request of the loop is forgotten, if there were one.
LEMMA UnpluggedKeeps ==
  ASSUME IInv, Unplugged
  PROVE  IInv'
<1>1. /\ usb \in Usb /\ Good(usb, main.pc, main.k, addressed) /\ Types
  BY DEF IInv, Types
<1>2. /\ main.pc = "unplugged" /\ addressed' = addressed /\ Goto("receive")
      /\ usb' = [usb EXCEPT !.irq_req = FALSE]
  BY DEF Unplugged, At
<1>3. usb.irq_req = FALSE
  BY <1>1, <1>2 DEF Good, Control, Usb
<1>4. usb' = usb
  BY <1>1, <1>2, <1>3 DEF Usb
<1>5. main' \in Main /\ main'.pc = "receive"
  BY <1>1, <1>2, GotoTypes DEF PCs
<1> QED
  BY <1>2, <1>4, <1>5, PassKeeps

\* What is parked and what is not answered are lends of the sources.
LEMMA LendsKept ==
  ASSUME Types, Lends, [Next]_vars
  PROVE  Lends'
<1>1. main.lend \in Sources \cup {NONE}
  BY DEF Types, Main
<1>2. CASE Host
  BY <1>2 DEF Host, Commit, ClearHalt, TransferDone, TransferFails, BusReset, composite_handler,
        Lends
<1>3. CASE Clients
  BY <1>3 DEF Clients, uvc_send_chunk, SendOther, Lends
<1>4. CASE Loop
  BY <1>1, <1>4 DEF Loop, Receive, uvc_resume_pending, StageOrRefuse, uvc_stage_chunk, SetChunk,
        sw_irq, Trigger, UvcSendFrame, HoldOrStage, NothingToDo, UsbBusReset, ResetByLoop,
        force_reset, unplug, Unplugged, Answer, Lends
<1>5. CASE UNCHANGED vars
  BY <1>5 DEF vars, Lends
<1> QED
  BY <1>2, <1>3, <1>4, <1>5 DEF Next

\* Every step keeps the invariant.
LEMMA StepKeeps ==
  ASSUME IInv, Lends, [Next]_vars
  PROVE  IInv'
<1>1. CASE Host
  BY <1>1, HostKeeps
<1>2. CASE Clients
  BY <1>2, ClientsKeep
<1>3. CASE Loop
  BY <1>3, ReceiveKeeps, ResumeKeeps, StageOrRefuseKeeps, StageKeeps, SetChunkKeeps, SwIrqKeeps,
     TriggerKeeps, SendFrameKeeps, HoldOrStageKeeps, NothingToDoKeeps, UsbBusResetKeeps,
     ResetByLoopKeeps, ForceResetKeeps, UnplugKeeps, UnpluggedKeeps DEF Loop
<1>4. CASE UNCHANGED vars
  BY <1>4 DEF vars, IInv, Types, Good, Control, Carried, UnderWay, Clean, Stale
<1> QED
  BY <1>1, <1>2, <1>3, <1>4 DEF Next

-----------------------------------------------------------------------------
(***************************************************************************)
(* The theorems.                                                           *)
(***************************************************************************)
\* The inductive invariant holds in every state of the streamer.
THEOREM StreamerInvariant == Spec => [](IInv /\ Lends)
<1>1. Init => IInv /\ Lends
  BY InitGood DEF Init, Lends
<1>2. IInv /\ Lends /\ [Next]_vars => (IInv /\ Lends)'
  BY StepKeeps, LendsKept DEF IInv
<1> QED
  BY <1>1, <1>2, PTL DEF Spec

\* A chunk that the streamer says it transmits is under way: frame_active is
\* never left set with nothing that would clear it, whatever the order of
\* commits, stops, resets and completions, but by the failure of a transfer of
\* the stream.
THEOREM ChunksAreUnderWay == Spec => []ChunkUnderWay
<1>1. IInv /\ Lends => ChunkUnderWay
  BY DEF IInv, Good, UnderWay, ChunkUnderWay, At, Stale
<1> QED
  BY <1>1, StreamerInvariant, PTL

\* The completion that endpoint_in_complete discards is that of a transfer of a
\* stream that has ended, as long as no transfer fails.
THEOREM OnlyStaleIsDiscarded == Spec => []DiscardsOnlyStale
<1>1. IInv /\ Lends => DiscardsOnlyStale
  BY DEF IInv, Good, Carried, DiscardsOnlyStale
<1> QED
  BY <1>1, StreamerInvariant, PTL

\* Until a stream is started over a transfer of an earlier one, there is one
\* transfer at a time and no slot is written that is still to be sent.
THEOREM CleanStreamsStayClean == Spec => []CleanStreams
<1>1. IInv /\ Lends => CleanStreams
  BY DEF IInv, Good, Clean, CleanStreams
<1> QED
  BY <1>1, StreamerInvariant, PTL

=============================================================================
