------------------------- MODULE CaptureRingProofs --------------------------
(***************************************************************************)
(* Proofs about the capture ring, for every set of modes with any number   *)
(* of transfers and one to three slots, and for every wrap of the counter  *)
(* above three.  In order: remainders, the operations on a ring, the       *)
(* inductive invariant, the theorems.                                      *)
(***************************************************************************)
EXTENDS CaptureRing, Integers, TLAPS

\* The number after n.
Succ(n) == IF n = CounterMod - 1 THEN 0 ELSE n + 1

\* A positive multiple of M is at least M.
LEMMA TimesAtLeast ==
  ASSUME NEW M \in Nat, NEW d \in Nat, d > 0
  PROVE  M * d \in Nat /\ M * d >= M
<1>1. PICK e \in Nat : d = e + 1
  OBVIOUS
<1>2. M * e \in Nat
  OBVIOUS
<1>3. M * d = M * e + M
  BY <1>1
<1> QED
  BY <1>2, <1>3

\* A quotient and a remainder determine the number's remainder.
LEMMA RemainderIsUnique ==
  ASSUME NEW M \in Nat \ {0}, NEW x \in Nat, NEW p \in Nat, NEW s \in 0 .. M - 1,
         x = M * p + s
  PROVE  x % M = s
<1> DEFINE q == x \div M
           r == x % M
<1>1. q \in Nat /\ r \in 0 .. M - 1 /\ x = M * q + r
  OBVIOUS
<1> HIDE DEF q, r
<1>2. CASE p = q
  BY <1>1, <1>2 DEF r
<1>3. CASE p > q
  <2>1. PICK d \in Nat : d > 0 /\ p = q + d
    BY <1>1, <1>3
  <2>2. M * p = M * q + M * d /\ M * q \in Nat /\ M * p \in Nat
    BY <1>1, <2>1
  <2>3. M * d \in Nat /\ M * d >= M
    BY <2>1, TimesAtLeast
  <2> QED
    BY <1>1, <2>2, <2>3
<1>4. CASE p < q
  <2>1. PICK d \in Nat : d > 0 /\ q = p + d
    BY <1>1, <1>4
  <2>2. M * q = M * p + M * d /\ M * q \in Nat /\ M * p \in Nat
    BY <1>1, <2>1
  <2>3. M * d \in Nat /\ M * d >= M
    BY <2>1, TimesAtLeast
  <2> QED
    BY <1>1, <2>2, <2>3
<1> QED
  BY <1>1, <1>2, <1>3, <1>4

\* The remainder of the next number, across the wrap.
LEMMA SuccMod ==
  ASSUME NEW M \in Nat \ {0}, NEW x \in Nat
  PROVE  (x + 1) % M = (IF x % M = M - 1 THEN 0 ELSE (x % M) + 1)
<1> DEFINE q == x \div M
           r == x % M
<1>1. q \in Nat /\ r \in 0 .. M - 1 /\ x = M * q + r
  OBVIOUS
<1> HIDE DEF q, r
<1>2. CASE r = M - 1
  <2>1. x + 1 = M * (q + 1) + 0 /\ q + 1 \in Nat
    BY <1>1, <1>2
  <2>2. 0 \in 0 .. M - 1 /\ x + 1 \in Nat
    OBVIOUS
  <2>3. (x + 1) % M = 0
    BY <2>1, <2>2, RemainderIsUnique, Zenon
  <2> QED
    BY <1>2, <2>3 DEF r
<1>3. CASE r # M - 1
  <2>1. x + 1 = M * q + (r + 1) /\ r + 1 \in 0 .. M - 1
    BY <1>1, <1>3
  <2>2. (x + 1) % M = r + 1
    BY <1>1, <2>1, RemainderIsUnique
  <2> QED
    BY <1>3, <2>2 DEF r
<1> QED
  BY <1>2, <1>3

\* Neighbours have different slots of two or three, second neighbours of three.
LEMMA SlotsDiffer ==
  ASSUME NEW n \in Nat
  PROVE  /\ n % 2 # (n + 1) % 2 /\ n % 3 # (n + 1) % 3
         /\ n % 3 # (n + 2) % 3 /\ (n + 1) % 3 # (n + 2) % 3
  OBVIOUS

-----------------------------------------------------------------------------
(***************************************************************************)
(* The ring's operations.                                                  *)
(***************************************************************************)
\* The counters and the channel, in any mode.
Rings == [xfer_queued : Nat, xfer_done : Nat, slot_base : Numbers, slot_counter : Numbers,
          dma : Seq(Numbers), missed : BOOLEAN]

\* The numbers of a picture's transfers follow each other, across the wrap.
LEMMA NumberFacts ==
  ASSUME NEW r, r.slot_base \in Numbers
  PROVE  /\ Number(r, 0) = r.slot_base
         /\ \A k \in Nat : Number(r, k) \in Numbers /\ Number(r, k + 1) = Succ(Number(r, k))
<1> DEFINE b == r.slot_base
<1>1. b \in Nat /\ CounterMod \in Nat \ {0} /\ b < CounterMod
  BY RingAssumption DEF Numbers
<1>2. b = CounterMod * 0 + b /\ b \in 0 .. CounterMod - 1 /\ b + 0 = b
  BY <1>1
<1>3. b % CounterMod = b
  BY <1>1, <1>2, 0 \in Nat, RemainderIsUnique, Zenon
<1>4. Number(r, 0) = b
  BY <1>2, <1>3 DEF Number
<1>5. ASSUME NEW k \in Nat
      PROVE  Number(r, k) \in Numbers /\ Number(r, k + 1) = Succ(Number(r, k))
  <2> DEFINE x == b + k
  <2>1. x \in Nat /\ b + (k + 1) = x + 1
    BY <1>1
  <2>2. x % CounterMod \in 0 .. CounterMod - 1
    BY <1>1, <2>1
  <2>3. (x + 1) % CounterMod = Succ(x % CounterMod)
    BY <1>1, <2>1, SuccMod DEF Succ
  <2> QED
    BY <2>1, <2>2, <2>3 DEF Number, Numbers
<1> QED
  BY <1>4, <1>5

\* webcam_ring_enqueue, field by field.
LEMMA EnqueueFacts ==
  ASSUME NEW m, NEW r \in Rings
  PROVE  LET e == webcam_ring_enqueue(m, r)
         IN  /\ e \in Rings
             /\ e.xfer_queued = r.xfer_queued + 1 /\ e.xfer_done = r.xfer_done
             /\ e.slot_base = r.slot_base /\ e.slot_counter = r.slot_counter
             /\ e.dma = Append(r.dma, Number(r, r.xfer_queued))
<1>1. r.slot_base \in Numbers /\ r.xfer_queued \in Nat /\ r.dma \in Seq(Numbers)
  BY DEF Rings
<1> DEFINE n == Number(r, r.xfer_queued)
           e == [r EXCEPT !.dma = Append(@, n), !.xfer_queued = @ + 1]
<1>2. n \in Numbers
  BY <1>1, NumberFacts
<1> HIDE DEF n
<1>3. Append(r.dma, n) \in Seq(Numbers) /\ r.xfer_queued + 1 \in Nat
  BY <1>1, <1>2
<1>4. e \in Rings
  BY <1>3 DEF Rings
<1>5. /\ e.xfer_queued = r.xfer_queued + 1 /\ e.xfer_done = r.xfer_done
      /\ e.slot_base = r.slot_base /\ e.slot_counter = r.slot_counter
      /\ e.dma = Append(r.dma, n)
  BY DEF Rings
<1> QED
  BY <1>4, <1>5 DEF webcam_ring_enqueue, n

\* webcam_ring_start_frame, field by field.
LEMMA StartFacts ==
  ASSUME NEW m \in Modes, NEW r \in Rings
  PROVE  LET s == webcam_ring_start_frame(m, r)
         IN  /\ s \in Rings
             /\ s.xfer_queued = (IF Transfers[m] = 1 THEN 1 ELSE 2) /\ s.xfer_done = 0
             /\ s.slot_base = r.slot_counter
             /\ s.slot_counter = Number(s, Transfers[m])
             /\ Len(s.dma) = s.xfer_queued
             /\ \A i \in DOMAIN s.dma : s.dma[i] = Number(s, i - 1)
<1> DEFINE c == [r EXCEPT !.dma = <<>>,
                          !.slot_base = r.slot_counter,
                          !.slot_counter = (@ + Transfers[m]) % CounterMod,
                          !.xfer_queued = 0, !.xfer_done = 0, !.missed = FALSE]
           e == webcam_ring_enqueue(m, c)
           f == webcam_ring_enqueue(m, e)
<1>1. Transfers[m] \in Nat /\ CounterMod \in Nat \ {0}
  BY RingAssumption
<1>2. (r.slot_counter + Transfers[m]) % CounterMod \in Numbers
  BY <1>1 DEF Rings, Numbers
<1>3. /\ c \in Rings /\ c.dma = <<>> /\ c.slot_base = r.slot_counter
      /\ c.slot_counter = (r.slot_counter + Transfers[m]) % CounterMod
      /\ c.xfer_queued = 0 /\ c.xfer_done = 0
  <2>1. <<>> \in Seq(Numbers) /\ 0 \in Nat /\ r.slot_counter \in Numbers
    BY DEF Rings
  <2>2. c \in Rings
    BY <1>2, <2>1 DEF Rings
  <2> QED
    BY <2>2 DEF Rings
<1> HIDE DEF c
<1>4. /\ e \in Rings /\ e.dma = Append(<<>>, Number(c, 0)) /\ e.slot_base = r.slot_counter
      /\ e.slot_counter = (r.slot_counter + Transfers[m]) % CounterMod
      /\ e.xfer_queued = 1 /\ e.xfer_done = 0
  BY <1>3, EnqueueFacts
<1> HIDE DEF e
<1>5. /\ f \in Rings /\ f.dma = Append(e.dma, Number(e, 1)) /\ f.slot_base = r.slot_counter
      /\ f.slot_counter = (r.slot_counter + Transfers[m]) % CounterMod
      /\ f.xfer_queued = 2 /\ f.xfer_done = 0
  BY <1>4, EnqueueFacts
<1> HIDE DEF f
<1>6. /\ Number(c, 0) = Number(e, 0) /\ Number(c, 0) = Number(f, 0)
      /\ Number(e, 1) = Number(f, 1)
      /\ e.slot_counter = Number(e, Transfers[m]) /\ f.slot_counter = Number(f, Transfers[m])
  BY <1>3, <1>4, <1>5 DEF Number
<1>7. /\ Len(e.dma) = 1 /\ \A i \in DOMAIN e.dma : e.dma[i] = Number(e, i - 1)
      /\ Len(f.dma) = 2 /\ \A i \in DOMAIN f.dma : f.dma[i] = Number(f, i - 1)
  <2>1. e.dma \in Seq(Numbers) /\ f.dma \in Seq(Numbers) /\ Number(c, 0) \in Numbers
        /\ Number(e, 1) \in Numbers
    BY <1>3, <1>4, <1>5, NumberFacts DEF Rings
  <2>2. Len(e.dma) = 1 /\ e.dma[1] = Number(c, 0)
    BY <1>4, <2>1
  <2>3. Len(f.dma) = 2 /\ f.dma[1] = e.dma[1] /\ f.dma[2] = Number(e, 1)
    BY <1>5, <2>1, <2>2
  <2>4. \A i \in DOMAIN e.dma : i = 1
    BY <2>1, <2>2
  <2>5. \A i \in DOMAIN f.dma : i = 1 \/ i = 2
    BY <2>1, <2>3
  <2>6. 1 - 1 = 0 /\ 2 - 1 = 1
    OBVIOUS
  <2> QED
    BY <1>6, <2>2, <2>3, <2>4, <2>5, <2>6
<1>8. webcam_ring_start_frame(m, r) = IF Transfers[m] = 1 THEN e ELSE f
  BY DEF webcam_ring_start_frame, c, e, f
<1> QED
  BY <1>4, <1>5, <1>6, <1>7, <1>8

\* What ChannelHoldsTheRest says of a ring, and where the next picture begins.
Channel(m, r) ==
    /\ r.slot_counter = Number(r, Transfers[m])
    /\ r.xfer_queued <= Transfers[m] /\ r.xfer_done <= r.xfer_queued
    /\ Outstanding(r) <= 2 /\ Len(r.dma) <= Outstanding(r)
    /\ \A i \in DOMAIN r.dma :
          r.dma[i] = Number(r, r.xfer_queued - Len(r.dma) + i - 1)

\* A transfer may be queued when at most one is outstanding.
LEMMA EnqueueChannel ==
  ASSUME NEW m \in Modes, NEW r \in Rings, Channel(m, r), Outstanding(r) <= 1,
         r.xfer_queued < Transfers[m]
  PROVE  Channel(m, webcam_ring_enqueue(m, r))
<1> DEFINE e == webcam_ring_enqueue(m, r)
           n == Number(r, r.xfer_queued)
<1>1. /\ e \in Rings
      /\ e.xfer_queued = r.xfer_queued + 1 /\ e.xfer_done = r.xfer_done
      /\ e.slot_base = r.slot_base /\ e.slot_counter = r.slot_counter
      /\ e.dma = Append(r.dma, n)
  BY EnqueueFacts
<1>2. /\ r.xfer_queued \in Nat /\ r.xfer_done \in Nat /\ r.dma \in Seq(Numbers)
      /\ n \in Numbers /\ Transfers[m] \in Nat
  BY NumberFacts, RingAssumption DEF Rings
<1> HIDE DEF e, n
<1>3. \A k : Number(e, k) = Number(r, k)
  BY <1>1 DEF Number
<1>4. Len(e.dma) = Len(r.dma) + 1 /\ DOMAIN e.dma = 1 .. Len(r.dma) + 1
  BY <1>1, <1>2
<1>5. ASSUME NEW i \in DOMAIN e.dma
      PROVE  e.dma[i] = Number(e, e.xfer_queued - Len(e.dma) + i - 1)
  <2>1. e.xfer_queued - Len(e.dma) + i - 1 = r.xfer_queued - Len(r.dma) + i - 1
    <3>1. i \in Nat /\ Len(r.dma) \in Nat
      BY <1>2, <1>4
    <3> QED
      BY <1>1, <1>2, <1>4, <3>1
  <2>2. CASE i \in DOMAIN r.dma
    <3>1. e.dma[i] = r.dma[i]
      BY <1>1, <1>2, <2>2
    <3> QED
      BY <1>3, <2>1, <2>2, <3>1 DEF Channel
  <2>3. CASE i \notin DOMAIN r.dma
    <3>1. i = Len(r.dma) + 1 /\ e.dma[i] = n
      BY <1>1, <1>2, <1>4, <2>3
    <3>2. r.xfer_queued - Len(r.dma) + i - 1 = r.xfer_queued
      BY <1>2, <3>1
    <3> QED
      BY <1>3, <2>1, <3>1, <3>2 DEF n
  <2> QED
    BY <2>2, <2>3
<1>6. /\ e.slot_counter = Number(e, Transfers[m])
      /\ e.xfer_queued <= Transfers[m] /\ e.xfer_done <= e.xfer_queued
      /\ Outstanding(e) <= 2 /\ Len(e.dma) <= Outstanding(e)
  BY <1>1, <1>2, <1>3, <1>4 DEF Channel, Outstanding
<1> QED
  BY <1>5, <1>6 DEF Channel, e

\* A new picture makes the channel right, whatever was in it.
LEMMA StartChannel ==
  ASSUME NEW m \in Modes, NEW r \in Rings
  PROVE  Channel(m, webcam_ring_start_frame(m, r))
<1> DEFINE s == webcam_ring_start_frame(m, r)
<1>1. /\ s \in Rings
      /\ s.xfer_queued = (IF Transfers[m] = 1 THEN 1 ELSE 2) /\ s.xfer_done = 0
      /\ s.slot_counter = Number(s, Transfers[m])
      /\ Len(s.dma) = s.xfer_queued
      /\ \A i \in DOMAIN s.dma : s.dma[i] = Number(s, i - 1)
  BY StartFacts
<1>2. Transfers[m] \in Nat \ {0}
  BY RingAssumption
<1> HIDE DEF s
<1>3. \A i \in DOMAIN s.dma : s.dma[i] = Number(s, s.xfer_queued - Len(s.dma) + i - 1)
  <2> SUFFICES ASSUME NEW i \in DOMAIN s.dma
               PROVE  s.dma[i] = Number(s, s.xfer_queued - Len(s.dma) + i - 1)
    OBVIOUS
  <2>1. i \in Nat
    BY <1>1 DEF Rings
  <2>2. s.xfer_queued - Len(s.dma) + i - 1 = i - 1
    BY <1>1, <2>1
  <2> QED
    BY <1>1, <2>2
<1>4. /\ s.xfer_queued <= Transfers[m] /\ s.xfer_done <= s.xfer_queued
      /\ Outstanding(s) <= 2 /\ Len(s.dma) <= Outstanding(s)
  BY <1>1, <1>2 DEF Outstanding
<1> QED
  BY <1>1, <1>3, <1>4 DEF Channel, s

\* A transfer is done: the channel holds one less, at its head.
LEMMA DoneChannel ==
  ASSUME NEW m \in Modes, NEW r \in Rings, Channel(m, r), r.dma # <<>>
  PROVE  LET d == [r EXCEPT !.dma = Tail(@)] IN d \in Rings /\ Channel(m, d)
<1> DEFINE d == [r EXCEPT !.dma = Tail(@)]
<1>1. /\ r.xfer_queued \in Nat /\ r.xfer_done \in Nat /\ r.dma \in Seq(Numbers)
      /\ Transfers[m] \in Nat
  BY RingAssumption DEF Rings
<1>2. /\ Tail(r.dma) \in Seq(Numbers) /\ Len(Tail(r.dma)) = Len(r.dma) - 1
      /\ Len(r.dma) > 0 /\ Len(r.dma) \in Nat
      /\ \A i \in DOMAIN Tail(r.dma) : Tail(r.dma)[i] = r.dma[i + 1] /\ i + 1 \in DOMAIN r.dma
  BY <1>1
<1>3. /\ d \in Rings /\ d.dma = Tail(r.dma) /\ d.xfer_queued = r.xfer_queued
      /\ d.xfer_done = r.xfer_done /\ d.slot_base = r.slot_base
      /\ d.slot_counter = r.slot_counter
  BY <1>2 DEF Rings
<1> HIDE DEF d
<1>4. \A k : Number(d, k) = Number(r, k)
  BY <1>3 DEF Number
<1>5. ASSUME NEW i \in DOMAIN d.dma
      PROVE  d.dma[i] = Number(d, d.xfer_queued - Len(d.dma) + i - 1)
  <2>1. d.dma[i] = Number(r, r.xfer_queued - Len(r.dma) + (i + 1) - 1)
    BY <1>2, <1>3 DEF Channel
  <2>2. i \in Nat
    BY <1>2, <1>3
  <2>3. r.xfer_queued - Len(r.dma) + (i + 1) - 1 = d.xfer_queued - Len(d.dma) + i - 1
    BY <1>1, <1>2, <1>3, <2>2
  <2> QED
    BY <1>4, <2>1, <2>3
<1>6. /\ d.slot_counter = Number(d, Transfers[m])
      /\ d.xfer_queued <= Transfers[m] /\ d.xfer_done <= d.xfer_queued
      /\ Outstanding(d) <= 2 /\ Len(d.dma) <= Outstanding(d)
  BY <1>1, <1>2, <1>3, <1>4 DEF Channel, Outstanding
<1> QED
  BY <1>3, <1>5, <1>6 DEF Channel, d

\* Whether a CamIrq was lost is of no concern to the channel.
LEMMA MissedFacts ==
  ASSUME NEW r \in Rings, NEW b \in BOOLEAN
  PROVE  LET s == [r EXCEPT !.missed = b]
         IN  /\ s \in Rings /\ s.dma = r.dma
             /\ s.xfer_queued = r.xfer_queued /\ s.xfer_done = r.xfer_done
             /\ s.slot_base = r.slot_base /\ s.slot_counter = r.slot_counter
             /\ \A m \in Modes : Channel(m, r) => Channel(m, s)
<1> DEFINE s == [r EXCEPT !.missed = b]
<1>1. s \in Rings /\ s.dma = r.dma /\ s.xfer_queued = r.xfer_queued /\ s.xfer_done = r.xfer_done
      /\ s.slot_base = r.slot_base /\ s.slot_counter = r.slot_counter
  BY DEF Rings
<1> HIDE DEF s
<1>2. \A k : Number(s, k) = Number(r, k)
  BY <1>1 DEF Number
<1>3. \A m \in Modes : Channel(m, r) => Channel(m, s)
  BY <1>1, <1>2 DEF Channel, Outstanding
<1> QED
  BY <1>1, <1>3 DEF s

\* The interrupt handler adds a message, or none.
LEMMA IrqFacts ==
  ASSUME NEW r \in Rings, irqs \in 0 .. MaxIrqs, handle_irq(r)
  PROVE  irqs' \in 0 .. MaxIrqs /\ \E b \in BOOLEAN : ring' = [r EXCEPT !.missed = b]
<1>1. MaxIrqs \in Nat
  BY RingAssumption
<1>2. CASE irqs < MaxIrqs /\ irqs' = irqs + 1 /\ ring' = [r EXCEPT !.missed = FALSE]
  <2>1. irqs' \in 0 .. MaxIrqs
    BY <1>1, <1>2
  <2>2. \E b \in BOOLEAN : ring' = [r EXCEPT !.missed = b]
    BY <1>2, Zenon
  <2> QED
    BY <2>1, <2>2
<1>3. CASE /\ ring' = [r EXCEPT !.missed = @ \/ (irqs = 0 /\ loop.at = "receive")]
           /\ UNCHANGED irqs
  <2> DEFINE b == r.missed \/ (irqs = 0 /\ loop.at = "receive")
  <2>1. b \in BOOLEAN /\ ring' = [r EXCEPT !.missed = b]
    BY <1>3
  <2> QED
    BY <1>3, <2>1
<1> QED
  BY <1>2, <1>3 DEF handle_irq

\* The loop takes a transfer that dma_state says is done: it is not in the channel.
LEMMA TakeChannel ==
  ASSUME NEW m \in Modes, NEW r \in Rings, Channel(m, r), Completed(r) > 0
  PROVE  LET t == [r EXCEPT !.xfer_done = @ + 1]
         IN  t \in Rings /\ Channel(m, t) /\ Outstanding(t) = Outstanding(r) - 1
<1> DEFINE t == [r EXCEPT !.xfer_done = @ + 1]
<1>1. /\ r.xfer_queued \in Nat /\ r.xfer_done \in Nat /\ r.dma \in Seq(Numbers)
      /\ Transfers[m] \in Nat /\ Len(r.dma) \in Nat
  BY RingAssumption DEF Rings
<1>2. /\ t \in Rings /\ t.dma = r.dma /\ t.xfer_queued = r.xfer_queued
      /\ t.xfer_done = r.xfer_done + 1 /\ t.slot_base = r.slot_base
      /\ t.slot_counter = r.slot_counter
  BY <1>1 DEF Rings
<1> HIDE DEF t
<1>3. \A k : Number(t, k) = Number(r, k)
  BY <1>2 DEF Number
<1>4. Len(r.dma) < Outstanding(r)
  <2>1. Outstanding(r) <= 2 /\ Len(r.dma) <= Outstanding(r) /\ Outstanding(r) \in Int
    BY <1>1 DEF Channel, Outstanding
  <2>2. Len(r.dma) = 0 \/ Len(r.dma) = 1 \/ Len(r.dma) = 2
    <3>1. \A l \in Nat, o \in Int : l <= o /\ o <= 2 => l = 0 \/ l = 1 \/ l = 2
      OBVIOUS
    <3> QED
      BY <1>1, <2>1, <3>1, Zenon
  <2>3. CASE Len(r.dma) = 0
    BY <2>1, <2>3 DEF Completed
  <2>4. CASE Len(r.dma) = 1
    BY <2>1, <2>4 DEF Completed
  <2>5. CASE Len(r.dma) = 2
    BY <2>1, <2>5 DEF Completed
  <2> QED
    BY <2>2, <2>3, <2>4, <2>5
<1>5. Outstanding(t) = Outstanding(r) - 1 /\ t.xfer_done <= t.xfer_queued
  BY <1>1, <1>2, <1>4 DEF Outstanding
<1>6. Outstanding(t) <= 2 /\ Len(t.dma) <= Outstanding(t)
  BY <1>1, <1>2, <1>4, <1>5 DEF Channel, Outstanding
<1> QED
  BY <1>2, <1>3, <1>5, <1>6 DEF Channel, t

-----------------------------------------------------------------------------
(***************************************************************************)
(* The inductive invariant.                                                *)
(***************************************************************************)
\* Two transfers are outstanding while there are more to queue, except after the
\* loop has taken one and before it has fed the channel.
Fed ==
    /\ MoreToQueue => Outstanding(ring) = IF Unlooked THEN 1 ELSE 2
    /\ Unlooked => ring.xfer_done = loop.k + 1 /\ Outstanding(ring) <= 1

\* The transfer that is copied is the one before the outstanding ones, also when
\* those are of the next picture.
CopiesTheOneBefore ==
    loop.at \in {"feed", "copy"} => Number(ring, ring.xfer_done) = Succ(loop.number)

\* Pixels that are lost are lost with two transfers to be taken: the next look
\* at the channel notices.
LostIsSeen == torn = "lost" => ring.dma = <<>> /\ MoreToQueue /\ ~Unlooked

IInv ==
    /\ RingTypeOK
    /\ loop.at # "receive" => active
    /\ active => Channel(mode, ring) /\ Fed /\ CopiesTheOneBefore /\ LostIsSeen
    /\ loop.torn # "lost"

\* What the other lemmas need of the type invariant.
LEMMA TypeGivesRing ==
  ASSUME RingTypeOK
  PROVE  /\ ring \in Rings /\ mode \in Modes
         /\ Transfers[mode] \in Nat \ {0} /\ Depth[mode] \in 1 .. 3
         /\ ring.xfer_queued \in Nat /\ ring.xfer_done \in Nat
         /\ Outstanding(ring) \in Int
<1>1. Transfers[mode] \in Nat \ {0} /\ Depth[mode] \in 1 .. 3 /\ mode \in Modes
  BY RingAssumption DEF RingTypeOK
<1>2. ring.xfer_queued \in Nat /\ ring.xfer_done \in Nat
  BY <1>1 DEF RingTypeOK
<1>3. ring \in Rings
  BY <1>1 DEF RingTypeOK, Rings
<1> QED
  BY <1>1, <1>2, <1>3 DEF Outstanding

\* Type correctness of a ring that follows from what is known of its channel.
LEMMA ChannelGivesType ==
  ASSUME NEW m \in Modes, NEW r \in Rings, Channel(m, r)
  PROVE  /\ r \in [xfer_queued : 0 .. Transfers[m], xfer_done : 0 .. Transfers[m],
                   slot_base : Numbers, slot_counter : Numbers, dma : Seq(Numbers),
                   missed : BOOLEAN]
         /\ r.xfer_done <= r.xfer_queued /\ Len(r.dma) <= 2
<1>1. /\ Transfers[m] \in Nat /\ r.xfer_queued \in Nat /\ r.xfer_done \in Nat
      /\ Len(r.dma) \in Nat
  BY RingAssumption DEF Rings
<1>2. r.xfer_queued \in 0 .. Transfers[m] /\ r.xfer_done \in 0 .. Transfers[m]
  BY <1>1 DEF Channel
<1>3. Len(r.dma) <= 2
  BY <1>1 DEF Channel, Outstanding
<1> QED
  BY <1>2, <1>3 DEF Channel, Rings

\* The invariant holds when the display server starts.
LEMMA InitInv == RingInit => IInv
<1> SUFFICES ASSUME RingInit PROVE IInv
  OBVIOUS
<1>1. CounterMod \in Nat /\ CounterMod > 3 /\ MaxIrqs \in Nat /\ mode \in Modes
      /\ Transfers[mode] \in Nat \ {0}
  BY RingAssumption DEF RingInit
<1>2. 0 \in Numbers /\ 0 \in 0 .. Transfers[mode] /\ 0 \in 0 .. Transfers[mode] - 1
      /\ <<>> \in Seq(Numbers) /\ Len(<<>>) = 0
  BY <1>1 DEF Numbers
<1>3. ring \in [xfer_queued : 0 .. Transfers[mode], xfer_done : 0 .. Transfers[mode],
                slot_base : Numbers, slot_counter : Numbers, dma : Seq(Numbers),
                missed : BOOLEAN]
      /\ ring.xfer_done <= ring.xfer_queued /\ Len(ring.dma) <= 2
  BY <1>2 DEF RingInit, NewRing
<1>4. loop \in [at : {"receive", "check", "feed", "copy", "send"},
                k : 0 .. Transfers[mode] - 1, number : Numbers,
                torn : {"no", "lost", "unnoticed"}]
  BY <1>2 DEF RingInit, Idle
<1>5. irqs \in 0 .. MaxIrqs
  BY <1>1 DEF RingInit
<1>6. /\ active \in BOOLEAN /\ running \in BOOLEAN /\ torn \in {"no", "lost", "unnoticed"}
  BY DEF RingInit
<1>7. RingTypeOK
  BY <1>1, <1>3, <1>4, <1>5, <1>6, Zenon DEF RingTypeOK
<1> QED
  BY <1>7 DEF RingInit, IInv, Idle

\* What QueueNext does to the ring after the loop has taken a transfer.
LEMMA QueueNextKeeps ==
  ASSUME IInv, active, Unlooked, QueueNext
  PROVE  /\ ring' \in Rings /\ Channel(mode, ring')
         /\ ring'.xfer_queued < Transfers[mode] => Outstanding(ring') = 2
         /\ Number(ring', ring'.xfer_done) = Succ(loop.number)
         /\ torn' \in {"no", torn}
<1>1. /\ ring \in Rings /\ mode \in Modes /\ Transfers[mode] \in Nat \ {0}
      /\ ring.xfer_queued \in Nat /\ ring.xfer_done \in Nat /\ loop.k \in Nat
      /\ ring.slot_base \in Numbers
  BY TypeGivesRing DEF IInv, RingTypeOK, Rings
<1>2. /\ Channel(mode, ring) /\ Outstanding(ring) <= 1 /\ ring.xfer_done = loop.k + 1
      /\ MoreToQueue => Outstanding(ring) = 1
      /\ Number(ring, ring.xfer_done) = Succ(loop.number)
  BY DEF IInv, Fed, CopiesTheOneBefore, Unlooked
<1>3. CASE MoreToQueue
  <2> DEFINE e == webcam_ring_enqueue(mode, ring)
  <2>1. ring' = e /\ torn' = torn
    BY <1>3 DEF QueueNext
  <2>2. /\ e \in Rings
        /\ e.xfer_queued = ring.xfer_queued + 1 /\ e.xfer_done = ring.xfer_done
        /\ e.slot_base = ring.slot_base
    BY <1>1, EnqueueFacts
  <2>3. Channel(mode, e)
    BY <1>1, <1>2, <1>3, EnqueueChannel DEF MoreToQueue
  <2> HIDE DEF e
  <2>4. Outstanding(e) = 2
    BY <1>1, <1>2, <1>3, <2>2 DEF Outstanding
  <2>5. Number(e, e.xfer_done) = Number(ring, ring.xfer_done)
    BY <2>2 DEF Number
  <2> QED
    BY <1>2, <2>1, <2>2, <2>3, <2>4, <2>5
<1>4. CASE ~MoreToQueue /\ IsLast
  <2> DEFINE s == webcam_ring_start_frame(mode, ring)
  <2>1. ring' = s /\ torn' = "no"
    BY <1>4 DEF QueueNext
  <2>2. /\ s \in Rings /\ s.xfer_queued = (IF Transfers[mode] = 1 THEN 1 ELSE 2)
        /\ s.xfer_done = 0 /\ s.slot_base = ring.slot_counter
    BY <1>1, StartFacts
  <2>3. Channel(mode, s)
    BY <1>1, StartChannel
  <2> HIDE DEF s
  <2>4. s.xfer_queued < Transfers[mode] => Outstanding(s) = 2
    BY <1>1, <2>2 DEF Outstanding
  <2>5. Number(s, s.xfer_done) = ring.slot_counter
    BY <2>2, NumberFacts DEF Rings
  <2>6. ring.slot_counter = Number(ring, ring.xfer_done)
    BY <1>2, <1>4 DEF Channel, IsLast
  <2> QED
    BY <1>2, <2>1, <2>2, <2>3, <2>4, <2>5, <2>6
<1>5. CASE ~MoreToQueue /\ ~IsLast
  BY <1>1, <1>2, <1>5 DEF QueueNext, MoreToQueue
<1> QED
  BY <1>3, <1>4, <1>5

\* The places of the loop in mode m.
Loops(m) == [at : {"receive", "check", "feed", "copy", "send"},
             k : 0 .. Transfers[m] - 1, number : Numbers,
             torn : {"no", "lost", "unnoticed"}]

\* Where the loop is after a message and after a chunk.
LEMMA IdleFacts ==
  ASSUME NEW m \in Modes
  PROVE  Idle \in Loops(m) /\ [Idle EXCEPT !.at = "check"] \in Loops(m)
<1>1. 0 \in Numbers /\ 0 \in 0 .. Transfers[m] - 1
  BY RingAssumption DEF Numbers
<1> QED
  BY <1>1 DEF Idle, Loops

\* The type invariant of the next state, from its parts.
LEMMA NextType ==
  ASSUME active' \in BOOLEAN, mode' \in Modes, running' \in BOOLEAN,
         ring' \in Rings, Channel(mode', ring'),
         torn' \in {"no", "lost", "unnoticed"}, irqs' \in 0 .. MaxIrqs, loop' \in Loops(mode')
  PROVE  RingTypeOK'
<1>1. /\ ring' \in [xfer_queued : 0 .. Transfers[mode'], xfer_done : 0 .. Transfers[mode'],
                    slot_base : Numbers, slot_counter : Numbers, dma : Seq(Numbers),
                    missed : BOOLEAN]
      /\ ring'.xfer_done <= ring'.xfer_queued /\ Len(ring'.dma) <= 2
  BY ChannelGivesType
<1> QED
  BY <1>1 DEF RingTypeOK, Loops

\* The actions that start a picture, with the loop going back to receive.
LEMMA StartKeeps ==
  ASSUME IInv, NEW m \in Modes, active' = TRUE, mode' = m,
         ring' = webcam_ring_start_frame(m, ring), running' \in BOOLEAN,
         torn' = "no", irqs' = irqs, loop' = Idle
  PROVE  IInv'
<1>1. ring \in Rings /\ irqs \in 0 .. MaxIrqs
  BY TypeGivesRing DEF IInv, RingTypeOK
<1>2. /\ ring' \in Rings /\ Channel(m, ring')
      /\ ring'.xfer_queued = (IF Transfers[m] = 1 THEN 1 ELSE 2) /\ ring'.xfer_done = 0
  BY <1>1, StartFacts, StartChannel
<1>3. RingTypeOK'
  BY <1>1, <1>2, IdleFacts, NextType
<1>4. Fed'
  BY <1>2, RingAssumption DEF Fed, MoreToQueue, Unlooked, Outstanding, Idle
<1>5. CopiesTheOneBefore' /\ LostIsSeen'
  BY DEF CopiesTheOneBefore, LostIsSeen, Idle
<1> QED
  BY <1>2, <1>3, <1>4, <1>5 DEF IInv, Idle

\* Every step of the loop, the camera and the rest of the service keeps it.
LEMMA NextInv == IInv /\ [RingNext]_ringVars => IInv'
<1> SUFFICES ASSUME IInv, [RingNext]_ringVars PROVE IInv'
  OBVIOUS
<1>1. /\ RingTypeOK /\ ring \in Rings /\ mode \in Modes /\ loop \in Loops(mode)
      /\ Transfers[mode] \in Nat \ {0} /\ Depth[mode] \in 1 .. 3
      /\ ring.xfer_queued \in Nat /\ ring.xfer_done \in Nat /\ Outstanding(ring) \in Int
      /\ active \in BOOLEAN /\ running \in BOOLEAN /\ torn \in {"no", "lost", "unnoticed"}
      /\ irqs \in 0 .. MaxIrqs /\ MaxIrqs \in Nat
  BY TypeGivesRing, RingAssumption DEF IInv, RingTypeOK, Loops
<1>2. active => Channel(mode, ring) /\ Fed /\ CopiesTheOneBefore /\ LostIsSeen
  BY DEF IInv
<1>3. (loop.at # "receive" => active) /\ loop.torn # "lost"
  BY DEF IInv
<1>4. CASE CamIrq
  <2>1. active /\ active' /\ loop' \in Loops(mode) /\ loop'.at = "check" /\ loop.at = "receive"
        /\ loop'.torn = loop.torn /\ irqs' \in 0 .. MaxIrqs
        /\ UNCHANGED <<active, mode, ring, running, torn>>
    BY <1>1, <1>4 DEF CamIrq, Loops
  <2>2. Channel(mode, ring)'
    BY <1>2, <2>1
  <2>3. RingTypeOK'
    BY <1>1, <2>1, <2>2, NextType
  <2>4. Fed' /\ CopiesTheOneBefore' /\ LostIsSeen'
    BY <1>2, <2>1 DEF Fed, CopiesTheOneBefore, LostIsSeen, Unlooked, MoreToQueue
  <2> QED
    BY <1>3, <2>1, <2>2, <2>3, <2>4 DEF IInv
<1>5. CASE NothingDone
  <2>1. active /\ active' /\ loop' = Idle /\ loop.at = "check"
        /\ UNCHANGED <<active, mode, ring, running, torn, irqs>>
    BY <1>3, <1>5 DEF NothingDone
  <2>2. Channel(mode, ring)'
    BY <1>2, <2>1
  <2>3. RingTypeOK'
    BY <1>1, <2>1, <2>2, IdleFacts, NextType
  <2>4. Fed' /\ CopiesTheOneBefore' /\ LostIsSeen'
    BY <1>2, <2>1 DEF Fed, CopiesTheOneBefore, LostIsSeen, Unlooked, MoreToQueue, Idle
  <2> QED
    BY <2>1, <2>2, <2>3, <2>4 DEF IInv, Idle
<1>6. CASE Overrun
  <2>1. active' = TRUE /\ running' \in BOOLEAN
    BY <1>1, <1>3, <1>6 DEF Overrun
  <2> QED
    BY <1>1, <1>6, <2>1, StartKeeps DEF Overrun
<1>7. CASE Take
  <2>1. /\ loop.at = "check" /\ active /\ active' /\ Completed(ring) > 0
        /\ ~(Completed(ring) >= 2 /\ MoreToQueue)
        /\ ring' = [ring EXCEPT !.xfer_done = @ + 1]
        /\ loop' = [at |-> "feed", k |-> ring.xfer_done,
                    number |-> Number(ring, ring.xfer_done), torn |-> "no"]
        /\ UNCHANGED <<active, mode, running, torn, irqs>>
    BY <1>3, <1>7 DEF Take
  <2>2. Channel(mode, ring) /\ Fed /\ LostIsSeen /\ Outstanding(ring) <= 2
    BY <1>2, <2>1 DEF Channel
  <2>3. ring' \in Rings /\ Channel(mode', ring') /\ Outstanding(ring') = Outstanding(ring) - 1
    BY <1>1, <2>1, <2>2, TakeChannel
  <2>4. /\ ring'.xfer_done = ring.xfer_done + 1 /\ ring'.xfer_queued = ring.xfer_queued
        /\ ring'.slot_base = ring.slot_base /\ ring'.dma = ring.dma
    BY <1>1, <2>1 DEF Rings
  <2>5. ring.xfer_done \in 0 .. Transfers[mode] - 1
    BY <1>1, <2>1, <2>3, <2>4 DEF Channel
  <2>6. /\ Number(ring, ring.xfer_done) \in Numbers
        /\ Number(ring, ring.xfer_done + 1) = Succ(Number(ring, ring.xfer_done))
    BY <1>1, NumberFacts DEF Rings
  <2>7. loop' \in Loops(mode')
    BY <2>1, <2>5, <2>6 DEF Loops
  <2>8. RingTypeOK'
    BY <1>1, <2>1, <2>3, <2>7, NextType
  <2>9. Fed'
    <3>1. MoreToQueue => Outstanding(ring) = 2
      BY <2>1, <2>2 DEF Fed, Unlooked
    <3> QED
      BY <1>1, <2>1, <2>2, <2>3, <2>4, <3>1 DEF Fed, MoreToQueue, Unlooked
  <2>10. CopiesTheOneBefore'
    <3>1. Number(ring', ring'.xfer_done) = Number(ring, ring.xfer_done + 1)
      BY <2>4 DEF Number
    <3> QED
      BY <2>1, <2>6, <3>1 DEF CopiesTheOneBefore
  <2>11. torn # "lost"
    <3> SUFFICES ASSUME torn = "lost" PROVE FALSE
      OBVIOUS
    <3>1. ring.dma = <<>> /\ MoreToQueue /\ Outstanding(ring) = 2
      BY <2>1, <2>2 DEF LostIsSeen, Fed
    <3>2. Completed(ring) = 2
      BY <3>1 DEF Completed
    <3> QED
      BY <2>1, <3>1, <3>2
  <2> QED
    BY <2>1, <2>3, <2>8, <2>9, <2>10, <2>11 DEF IInv, LostIsSeen
<1>8. CASE Feed
  <2>1. /\ loop.at = "feed" /\ active /\ active' /\ Unlooked
        /\ IF Depth[mode] >= 3 THEN QueueNext ELSE UNCHANGED <<ring, torn>>
        /\ loop' = [loop EXCEPT !.at = "copy", !.torn = torn]
        /\ UNCHANGED <<active, mode, running, irqs>>
    BY <1>3, <1>8 DEF Feed, Unlooked
  <2>2. torn # "lost" /\ Channel(mode, ring) /\ Fed /\ CopiesTheOneBefore
    BY <1>2, <2>1 DEF LostIsSeen
  <2>3. /\ loop' \in Loops(mode') /\ loop'.at = "copy" /\ loop'.k = loop.k
        /\ loop'.number = loop.number /\ loop'.torn = torn
    BY <1>1, <2>1 DEF Loops
  <2>4. CASE Depth[mode] >= 3
    <3>1. /\ ring' \in Rings /\ Channel(mode, ring')
          /\ ring'.xfer_queued < Transfers[mode] => Outstanding(ring') = 2
          /\ Number(ring', ring'.xfer_done) = Succ(loop.number)
          /\ torn' \in {"no", torn}
      BY <2>1, <2>4, QueueNextKeeps
    <3>2. RingTypeOK'
      BY <1>1, <2>1, <2>3, <3>1, NextType
    <3>3. ~Unlooked'
      BY <1>1, <2>1, <2>3, <2>4 DEF Unlooked
    <3>4. Fed' /\ CopiesTheOneBefore' /\ LostIsSeen'
      BY <2>1, <2>2, <2>3, <3>1, <3>3 DEF Fed, CopiesTheOneBefore, LostIsSeen, MoreToQueue
    <3> QED
      BY <2>1, <2>2, <2>3, <3>1, <3>2, <3>4 DEF IInv
  <2>5. CASE ~(Depth[mode] >= 3)
    <3>1. UNCHANGED <<ring, torn>>
      BY <2>1, <2>5
    <3>2. RingTypeOK'
      BY <1>1, <2>1, <2>2, <2>3, <3>1, NextType
    <3>3. Unlooked'
      BY <1>1, <2>1, <2>3, <2>5 DEF Unlooked
    <3>4. Fed' /\ CopiesTheOneBefore' /\ LostIsSeen'
      BY <2>1, <2>2, <2>3, <3>1, <3>3 DEF Fed, CopiesTheOneBefore, LostIsSeen, MoreToQueue
    <3> QED
      BY <2>1, <2>2, <2>3, <3>1, <3>2, <3>4 DEF IInv
  <2> QED
    BY <2>4, <2>5
<1>9. CASE Copy
  <2>1. /\ loop.at = "copy" /\ active /\ active'
        /\ IF Depth[mode] < 3 THEN QueueNext ELSE UNCHANGED <<ring, torn>>
        /\ loop' = [loop EXCEPT !.at = "send", !.torn = IF Depth[mode] < 3 THEN torn ELSE @]
        /\ UNCHANGED <<active, mode, running, irqs>>
    BY <1>3, <1>9 DEF Copy
  <2>2. Channel(mode, ring) /\ Fed /\ LostIsSeen
    BY <1>2, <2>1
  <2>3. /\ loop' \in Loops(mode') /\ loop'.at = "send"
        /\ loop'.torn = IF Depth[mode] < 3 THEN torn ELSE loop.torn
    BY <1>1, <2>1 DEF Loops
  <2>4. CASE Depth[mode] < 3
    <3>1. Unlooked /\ torn # "lost"
      BY <2>1, <2>2, <2>4 DEF Unlooked, LostIsSeen
    <3>2. /\ ring' \in Rings /\ Channel(mode, ring')
          /\ ring'.xfer_queued < Transfers[mode] => Outstanding(ring') = 2
          /\ torn' \in {"no", torn}
      BY <2>1, <2>4, <3>1, QueueNextKeeps
    <3>3. RingTypeOK'
      BY <1>1, <2>1, <2>3, <3>2, NextType
    <3>4. Fed' /\ CopiesTheOneBefore' /\ LostIsSeen'
      BY <2>1, <2>3, <3>1, <3>2 DEF Fed, CopiesTheOneBefore, LostIsSeen, MoreToQueue, Unlooked
    <3> QED
      BY <2>1, <2>3, <2>4, <3>1, <3>2, <3>3, <3>4 DEF IInv
  <2>5. CASE ~(Depth[mode] < 3)
    <3>1. UNCHANGED <<ring, torn>> /\ ~Unlooked /\ ~Unlooked'
      BY <2>1, <2>3, <2>5 DEF Unlooked
    <3>2. RingTypeOK'
      BY <1>1, <2>1, <2>2, <2>3, <3>1, NextType
    <3>3. Fed' /\ CopiesTheOneBefore' /\ LostIsSeen'
      BY <2>1, <2>2, <2>3, <3>1 DEF Fed, CopiesTheOneBefore, LostIsSeen, MoreToQueue
    <3> QED
      BY <1>3, <2>1, <2>2, <2>3, <2>5, <3>1, <3>2, <3>3 DEF IInv
  <2> QED
    BY <2>4, <2>5
<1>10. CASE SendChunk
  <2>1. active /\ active' /\ loop' = [Idle EXCEPT !.at = "check"] /\ loop.at = "send"
        /\ UNCHANGED <<active, mode, ring, running, torn, irqs>>
    BY <1>3, <1>10 DEF SendChunk
  <2>2. loop'.at = "check" /\ loop'.torn = "no"
    BY <2>1 DEF Idle
  <2>3. Channel(mode, ring)'
    BY <1>2, <2>1
  <2>4. RingTypeOK'
    BY <1>1, <2>1, <2>3, IdleFacts, NextType
  <2>5. Fed' /\ CopiesTheOneBefore' /\ LostIsSeen'
    BY <1>2, <2>1, <2>2 DEF Fed, CopiesTheOneBefore, LostIsSeen, Unlooked, MoreToQueue
  <2> QED
    BY <2>1, <2>2, <2>3, <2>4, <2>5 DEF IInv
<1>11. CASE TransferDone
  <2> DEFINE d == [ring EXCEPT !.dma = Tail(@)]
  <2>a. ring.dma # <<>> /\ handle_irq(d) /\ UNCHANGED <<active, mode, running, torn, loop>>
    BY <1>11 DEF TransferDone
  <2>b. /\ d \in Rings /\ d.xfer_queued = ring.xfer_queued /\ d.xfer_done = ring.xfer_done
        /\ d.slot_base = ring.slot_base /\ d.slot_counter = ring.slot_counter
        /\ d.dma = Tail(ring.dma)
    <3>1. Tail(ring.dma) \in Seq(Numbers)
      BY <1>1, <2>a DEF Rings
    <3> QED
      BY <1>1, <3>1 DEF Rings
  <2>c. active => Channel(mode, d)
    BY <1>1, <1>2, <2>a, DoneChannel
  <2> HIDE DEF d
  <2>d. PICK b \in BOOLEAN : ring' = [d EXCEPT !.missed = b]
    BY <1>1, <2>a, <2>b, IrqFacts
  <2>1. /\ ring.dma # <<>> /\ ring' \in Rings
        /\ irqs' \in 0 .. MaxIrqs /\ UNCHANGED <<active, mode, running, torn, loop>>
    BY <1>1, <2>a, <2>b, <2>d, IrqFacts, MissedFacts
  <2>2. /\ ring'.xfer_queued = ring.xfer_queued /\ ring'.xfer_done = ring.xfer_done
        /\ ring'.slot_base = ring.slot_base /\ ring'.slot_counter = ring.slot_counter
        /\ ring'.dma = Tail(ring.dma)
    BY <2>b, <2>d, MissedFacts
  <2>3. CASE active
    <3>1. ring' \in Rings /\ Channel(mode', ring')
      BY <1>1, <2>1, <2>3, <2>b, <2>c, <2>d, MissedFacts
    <3>2. RingTypeOK'
      BY <1>1, <2>1, <3>1, NextType
    <3>3. Fed' /\ LostIsSeen'
      BY <1>2, <2>1, <2>2, <2>3 DEF Fed, LostIsSeen, Unlooked, MoreToQueue, Outstanding
    <3>4. CopiesTheOneBefore'
      BY <1>2, <2>1, <2>2, <2>3 DEF CopiesTheOneBefore, Number
    <3> QED
      BY <1>3, <2>1, <3>1, <3>2, <3>3, <3>4 DEF IInv
  <2>4. CASE ~active
    <3>1. Tail(ring.dma) \in Seq(Numbers) /\ Len(Tail(ring.dma)) <= 2
      BY <1>1, <2>1 DEF Rings, RingTypeOK
    <3>2. RingTypeOK'
      BY <1>1, <2>1, <2>2, <3>1 DEF RingTypeOK, Rings
    <3> QED
      BY <1>3, <2>1, <2>4, <3>2 DEF IInv
  <2> QED
    BY <2>3, <2>4
<1>12. CASE PixelsLost
  <2>1. /\ active /\ active' /\ ring.dma = <<>> /\ MoreToQueue
        /\ torn' = IF Unlooked THEN "unnoticed" ELSE "lost"
        /\ UNCHANGED <<active, mode, ring, running, irqs, loop>>
    BY <1>12 DEF PixelsLost
  <2>2. RingTypeOK'
    BY <1>1, <2>1 DEF RingTypeOK
  <2>3. Channel(mode, ring)' /\ Fed' /\ CopiesTheOneBefore'
    BY <1>2, <2>1 DEF Fed, CopiesTheOneBefore, Unlooked, MoreToQueue
  <2>4. LostIsSeen'
    BY <2>1 DEF LostIsSeen, Unlooked, MoreToQueue
  <2> QED
    BY <1>3, <2>1, <2>2, <2>3, <2>4 DEF IInv
<1>13. CASE \E m \in Modes : StartCapture(m)
  BY <1>13, StartKeeps DEF StartCapture
<1>14. CASE StopCapture
  BY <1>1, <1>3, <1>14 DEF StopCapture, IInv, RingTypeOK
<1>15. CASE OtherUse
  <2>1. PICK n \in 0 .. 2, b \in BOOLEAN : \E d \in [1 .. n -> Numbers] :
            ring' = [ring EXCEPT !.dma = d, !.missed = b]
    BY <1>15 DEF OtherUse
  <2>2. PICK d \in [1 .. n -> Numbers] : ring' = [ring EXCEPT !.dma = d, !.missed = b]
    BY <2>1
  <2>3. d \in Seq(Numbers) /\ Len(d) <= 2
    BY <2>1, <2>2
  <2>4. /\ ~active /\ loop.at = "receive" /\ running' \in BOOLEAN /\ irqs' \in 0 .. MaxIrqs
        /\ UNCHANGED <<active, mode, torn, loop>>
    BY <1>15 DEF OtherUse
  <2>5. /\ ring' \in [xfer_queued : 0 .. Transfers[mode], xfer_done : 0 .. Transfers[mode],
                      slot_base : Numbers, slot_counter : Numbers, dma : Seq(Numbers),
                      missed : BOOLEAN]
        /\ ring'.xfer_done <= ring'.xfer_queued /\ Len(ring'.dma) <= 2
    BY <1>1, <2>2, <2>3 DEF RingTypeOK
  <2>6. RingTypeOK'
    BY <1>1, <2>4, <2>5 DEF RingTypeOK
  <2> QED
    BY <1>3, <2>4, <2>6 DEF IInv
<1>16. CASE Reboot
  <2>1. /\ ~active /\ loop.at = "receive" /\ ring' = NewRing /\ running' = FALSE
        /\ torn' = "no" /\ irqs' = 0 /\ UNCHANGED <<active, mode, loop>>
    BY <1>16 DEF Reboot
  <2>2. 0 \in Numbers /\ 0 \in 0 .. Transfers[mode] /\ <<>> \in Seq(Numbers) /\ Len(<<>>) = 0
    BY <1>1, RingAssumption DEF Numbers
  <2>3. /\ ring' \in [xfer_queued : 0 .. Transfers[mode], xfer_done : 0 .. Transfers[mode],
                      slot_base : Numbers, slot_counter : Numbers, dma : Seq(Numbers),
                      missed : BOOLEAN]
        /\ ring'.xfer_done <= ring'.xfer_queued /\ Len(ring'.dma) <= 2
    BY <2>1, <2>2 DEF NewRing
  <2>4. RingTypeOK'
    <3>1. irqs' \in 0 .. MaxIrqs
      BY <1>1, <2>1
    <3>2. /\ running' \in BOOLEAN /\ torn' \in {"no", "lost", "unnoticed"}
          /\ loop' \in Loops(mode') /\ active' \in BOOLEAN /\ mode' = mode /\ mode' \in Modes
      BY <1>1, <2>1
    <3> QED
      BY <2>3, <3>1, <3>2 DEF RingTypeOK, Loops
  <2> QED
    BY <1>3, <2>1, <2>4 DEF IInv
<1>17. CASE UNCHANGED ringVars
  BY <1>17 DEF ringVars, IInv, RingTypeOK, Fed, CopiesTheOneBefore, LostIsSeen, Unlooked, MoreToQueue
<1> QED
  BY <1>4, <1>5, <1>6, <1>7, <1>8, <1>9, <1>10, <1>11, <1>12, <1>13, <1>14, <1>15, <1>16, <1>17
  DEF RingNext, Loop

-----------------------------------------------------------------------------
(***************************************************************************)
(* What follows from the invariant.                                        *)
(***************************************************************************)
\* A number and its successor share no slot if there are two or three, except
\* across the wrap.
LEMMA NeighboursApart ==
  ASSUME NEW n \in Numbers, mode \in Modes, Depth[mode] \in {2, 3}
  PROVE  ~SameSlot(n, Succ(n)) /\ ~SameSlot(Succ(n), n)
<1>1. CounterMod \in Nat /\ CounterMod > 3 /\ n \in Nat
  BY RingAssumption DEF Numbers
<1>2. CASE n = CounterMod - 1
  BY <1>1, <1>2 DEF Succ, SameSlot, AcrossTheWrap
<1>3. CASE n # CounterMod - 1
  <2>1. Succ(n) = n + 1
    BY <1>3 DEF Succ
  <2>2. n % 2 # (n + 1) % 2 /\ n % 3 # (n + 1) % 3
    BY <1>1, SlotsDiffer
  <2> QED
    BY <2>1, <2>2 DEF SameSlot, Slot
<1> QED
  BY <1>2, <1>3

\* With three slots the same holds two numbers on.
LEMMA SecondNeighbourApart ==
  ASSUME NEW n \in Numbers, mode \in Modes, Depth[mode] = 3
  PROVE  ~SameSlot(n, Succ(Succ(n)))
<1>1. CounterMod \in Nat /\ CounterMod > 3 /\ n \in Nat
  BY RingAssumption DEF Numbers
<1>2. CASE n = CounterMod - 1
  <2>1. Succ(Succ(n)) = 1
    BY <1>1, <1>2 DEF Succ
  <2>2. CASE CounterMod = 4
    BY <1>2, <2>1, <2>2 DEF SameSlot, Slot
  <2>3. CASE CounterMod > 4
    BY <1>1, <1>2, <2>1, <2>3 DEF SameSlot, AcrossTheWrap
  <2> QED
    BY <1>1, <2>2, <2>3
<1>3. CASE n = CounterMod - 2
  <2>1. Succ(Succ(n)) = 0
    BY <1>1, <1>3 DEF Succ
  <2>2. CASE CounterMod = 4
    BY <1>3, <2>1, <2>2 DEF SameSlot, Slot
  <2>3. CASE CounterMod > 4
    BY <1>1, <1>3, <2>1, <2>3 DEF SameSlot, AcrossTheWrap
  <2> QED
    BY <1>1, <2>2, <2>3
<1>4. CASE n # CounterMod - 1 /\ n # CounterMod - 2
  <2>1. Succ(Succ(n)) = n + 2
    BY <1>1, <1>4 DEF Succ
  <2>2. n % 3 # (n + 2) % 3
    BY <1>1, SlotsDiffer
  <2> QED
    BY <2>1, <2>2 DEF SameSlot, Slot
<1> QED
  BY <1>2, <1>3, <1>4

\* Outstanding transfers are neighbours, and so is the one that is copied.
LEMMA InvSlotsApart == IInv => SlotsApart
<1> SUFFICES ASSUME IInv, active PROVE SlotsApart
  BY DEF SlotsApart
<1> DEFINE done == ring.xfer_done
           queued == ring.xfer_queued
           first == Number(ring, done)
<1>1. /\ ring \in Rings /\ mode \in Modes /\ Transfers[mode] \in Nat \ {0}
      /\ Depth[mode] \in 1 .. 3 /\ done \in Nat /\ queued \in Nat
      /\ ring.slot_base \in Numbers /\ loop.number \in Numbers /\ loop.k \in Nat
  BY TypeGivesRing DEF IInv, RingTypeOK, Rings
<1>2. queued - done <= 2 /\ queued <= Transfers[mode] /\ done <= queued
  BY DEF IInv, Channel, Outstanding
<1>3. first \in Numbers /\ Number(ring, done + 1) = Succ(first)
  BY <1>1, NumberFacts
<1>4. Transfers[mode] > 1 => Depth[mode] \in {2, 3}
  BY <1>1, RingAssumption
<1>5. /\ loop.at \in {"feed", "copy"} => first = Succ(loop.number)
      /\ Unlooked => queued - done <= 1 /\ done = loop.k + 1
  BY DEF IInv, CopiesTheOneBefore, Fed, Outstanding
<1> HIDE DEF done, queued, first
<1>6. ASSUME NEW i \in done .. queued - 1, NEW j \in done .. queued - 1, i # j
      PROVE  ~SameSlot(Number(ring, i), Number(ring, j))
  <2>1. /\ (i = done /\ j = done + 1) \/ (i = done + 1 /\ j = done)
        /\ Transfers[mode] > 1
    BY <1>1, <1>2, <1>6
  <2> QED
    BY <1>1, <1>3, <1>4, <2>1, NeighboursApart DEF first
<1>7. ASSUME loop.at \in {"feed", "copy"}, NEW i \in done .. queued - 1
      PROVE  ~SameSlot(loop.number, Number(ring, i))
  <2>1. first = Succ(loop.number)
    BY <1>5, <1>7
  <2>2. CASE Unlooked
    <3>1. i = done /\ Transfers[mode] > 1
      BY <1>1, <1>2, <1>5, <1>7, <2>2
    <3> QED
      BY <1>1, <1>4, <2>1, <3>1, NeighboursApart DEF first
  <2>3. CASE ~Unlooked
    <3>1. Depth[mode] = 3
      BY <1>1, <1>7, <2>3 DEF Unlooked
    <3>2. i = done \/ i = done + 1
      BY <1>1, <1>2, <1>7
    <3>3. CASE i = done
      BY <1>1, <2>1, <3>1, <3>3, NeighboursApart DEF first
    <3>4. CASE i = done + 1
      BY <1>1, <1>3, <2>1, <3>1, <3>4, SecondNeighbourApart
    <3> QED
      BY <3>2, <3>3, <3>4
  <2> QED
    BY <2>2, <2>3
<1> QED
  BY <1>6, <1>7 DEF SlotsApart, done, queued

\* The invariant holds in every behaviour of the ring.
LEMMA InvHolds == RingSpec => []IInv
  BY InitInv, NextInv, PTL DEF RingSpec

\* Counters, channel and loop stay in range: no picture queues more transfers than
\* it has, and the channel never gets a third one (webcam_ring_enqueue).
THEOREM RingTypeCorrect == RingSpec => []RingTypeOK
<1>1. IInv => RingTypeOK
  BY DEF IInv
<1> QED
  BY <1>1, InvHolds, PTL

\* The channel holds the last of the outstanding transfers, in their order, so
\* the two bits of dma_state tell how many are done.
THEOREM ChannelCorrect == RingSpec => []ChannelHoldsTheRest
<1>1. IInv => ChannelHoldsTheRest
  BY DEF IInv, Channel, ChannelHoldsTheRest
<1> QED
  BY <1>1, InvHolds, PTL

\* No slot is filled while its last contents are still to be copied, for every
\* number of transfers and every wrap of slot_counter, with the exception of
\* neighbours across the wrap that SlotsApart names.
THEOREM SlotsCorrect == RingSpec => []SlotsApart
  BY InvSlotsApart, InvHolds, PTL

\* The overrun test misses only what is lost between the look at the channel
\* and the feeding after it.
THEOREM LossesCorrect == RingSpec => []LossesAreNoticed
<1>1. IInv => LossesAreNoticed
  BY DEF IInv, LossesAreNoticed
<1> QED
  BY <1>1, InvHolds, PTL
=============================================================================
