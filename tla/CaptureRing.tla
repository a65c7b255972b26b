---------------------------- MODULE CaptureRing -----------------------------
(***************************************************************************)
(* The capture ring of bao-video.  A picture arrives as a chain of DMA     *)
(* transfers through a few slots of memory.  The channel holds two of      *)
(* them; each one that is done raises an interrupt, whose message CamIrq   *)
(* makes the loop copy the slot, queue the transfer two ahead and hand the *)
(* copy to the USB service as one chunk.  All the while the camera goes on *)
(* filling what is queued, and pixels that find the channel empty are gone.*)
(*                                                                         *)
(* The loop is one thread.  Its steps are as small as what the camera can  *)
(* come between: it looks at the channel, feeds it, copies, and sends.     *)
(***************************************************************************)
EXTENDS Naturals, Sequences

CONSTANTS
    Modes,       \* the geometries of a picture
    Transfers,   \* for each mode, the transfers of a picture
    Depth,       \* for each mode, the slots of its ring: up to UVC_RING_DEPTH
    CounterMod,  \* the slot counter wraps here: 2^32 in the code
    MaxIrqs      \* bound: CamIrq messages that wait in the loop's queue

\* With one slot the second transfer of a picture would go over the first.  The
\* modes of UVC_MODES have three.
ASSUME RingAssumption ==
    /\ Transfers \in [Modes -> Nat \ {0}]
    /\ Depth \in [Modes -> 1 .. 3]
    /\ \A m \in Modes : Transfers[m] > 1 => Depth[m] > 1
    /\ CounterMod \in Nat /\ CounterMod > 3
    /\ MaxIrqs \in Nat \ {0}

VARIABLES
    active,   \* webcam.active
    mode,     \* webcam.custom, or else UVC_MODES[webcam.mode]
    ring,     \* the xfer_ and slot_ counters, the channel, and `missed`: the loop
              \* waits for a CamIrq that was lost, and none has come since
    running,  \* the camera delivers pixels
    torn,     \* how the picture under way lost pixels
    irqs,     \* the CamIrq messages in the queue
    loop      \* where the loop is, and with which transfer

ringVars == <<active, mode, ring, running, torn, irqs, loop>>

Idle == [at |-> "receive", k |-> 0, number |-> 0, torn |-> "no"]

\* Transfers are numbered through all pictures, up to the wrap; a number's slot
\* is its remainder.
Numbers      == 0 .. CounterMod - 1
Number(r, k) == (r.slot_base + k) % CounterMod
Slot(m, n)   == n % Depth[m]

-----------------------------------------------------------------------------
(***************************************************************************)
(* The ring's operations.  dma holds the numbers of the transfers in the   *)
(* channel: the one that is filled, and its shadow.                        *)
(***************************************************************************)
webcam_ring_enqueue(m, r) ==
    [r EXCEPT !.dma = Append(@, Number(r, r.xfer_queued)),
              !.xfer_queued = @ + 1]

webcam_ring_start_frame(m, r) ==
    LET cleared == [r EXCEPT !.dma = <<>>,
                             !.slot_base = r.slot_counter,
                             !.slot_counter = (@ + Transfers[m]) % CounterMod,
                             !.xfer_queued = 0, !.xfer_done = 0, !.missed = FALSE]
    IN  IF Transfers[m] = 1 THEN webcam_ring_enqueue(m, cleared)
        ELSE webcam_ring_enqueue(m, webcam_ring_enqueue(m, cleared))

\* What dma_state tells of the outstanding transfers.
Outstanding(r) == r.xfer_queued - r.xfer_done
\* Mutant: only the shadow is looked at.
CompletedByShadow(r) == IF Len(r.dma) = 2 THEN 0 ELSE Outstanding(r)
Completed(r) ==
    CASE Len(r.dma) = 0 -> Outstanding(r)
      [] Len(r.dma) = 1 -> Outstanding(r) - 1
      [] OTHER -> 0

MoreToQueue == ring.xfer_queued < Transfers[mode]
IsLast      == loop.k + 1 = Transfers[mode]

-----------------------------------------------------------------------------
(***************************************************************************)
(* The loop, while the webcam is active.                                   *)
(***************************************************************************)
CamIrq ==
    /\ active /\ loop.at = "receive" /\ irqs > 0
    /\ irqs' = irqs - 1
    /\ loop' = [loop EXCEPT !.at = "check"]
    /\ UNCHANGED <<active, mode, ring, running, torn>>

NothingDone ==
    /\ loop.at = "check"
    /\ Completed(ring) = 0
    /\ loop' = Idle
    /\ UNCHANGED <<active, mode, ring, running, torn, irqs>>

\* Both queued transfers are done and more should have been queued.
Overrun ==
    /\ loop.at = "check"
    /\ Completed(ring) >= 2 /\ MoreToQueue
    /\ ring' = webcam_ring_start_frame(mode, ring)
    /\ torn' = "no"
    /\ loop' = Idle
    /\ UNCHANGED <<active, mode, running, irqs>>

\* Mutant: a picture is not given up.
TakeAnyway ==
    /\ loop.at = "check"
    /\ Completed(ring) > 0
    /\ loop' = [at |-> "feed", k |-> ring.xfer_done,
                number |-> Number(ring, ring.xfer_done), torn |-> "no"]
    /\ ring' = [ring EXCEPT !.xfer_done = @ + 1]
    /\ UNCHANGED <<active, mode, running, torn, irqs>>
Take ==
    /\ loop.at = "check"
    /\ Completed(ring) > 0
    /\ ~(Completed(ring) >= 2 /\ MoreToQueue)
    /\ loop' = [at |-> "feed", k |-> ring.xfer_done,
                number |-> Number(ring, ring.xfer_done), torn |-> "no"]
    /\ ring' = [ring EXCEPT !.xfer_done = @ + 1]
    /\ UNCHANGED <<active, mode, running, torn, irqs>>

\* Mutant: the end of the picture is not looked at.
QueueMore ==
    /\ ring' = webcam_ring_enqueue(mode, ring)
    /\ UNCHANGED torn
\* Mutant: the next picture is not started.
QueueInPicture ==
    /\ ring' = IF MoreToQueue THEN webcam_ring_enqueue(mode, ring) ELSE ring
    /\ UNCHANGED torn
\* The transfer after the outstanding ones, or the next picture.
QueueNext ==
    IF MoreToQueue
    THEN /\ ring' = webcam_ring_enqueue(mode, ring)
         /\ UNCHANGED torn
    ELSE IF IsLast
    THEN /\ ring' = webcam_ring_start_frame(mode, ring)
         /\ torn' = "no"
    ELSE UNCHANGED <<ring, torn>>

\* Mutant: fed before the copy with any number of slots.
FeedAlways ==
    /\ loop.at = "feed"
    /\ QueueNext
    /\ loop' = [loop EXCEPT !.at = "copy", !.torn = torn]
    /\ UNCHANGED <<active, mode, running, irqs>>
\* With three slots the channel is fed before the copy.
Feed ==
    /\ loop.at = "feed"
    /\ IF Depth[mode] >= 3 THEN QueueNext ELSE UNCHANGED <<ring, torn>>
    /\ loop' = [loop EXCEPT !.at = "copy", !.torn = torn]
    /\ UNCHANGED <<active, mode, running, irqs>>

\* The end of the copy; with fewer slots the channel is fed now.
Copy ==
    /\ loop.at = "copy"
    /\ IF Depth[mode] < 3 THEN QueueNext ELSE UNCHANGED <<ring, torn>>
    /\ loop' = [loop EXCEPT !.at = "send",
                            !.torn = IF Depth[mode] < 3 THEN torn ELSE @]
    /\ UNCHANGED <<active, mode, running, irqs>>

\* uvc_send_chunk has returned.
SendChunk ==
    /\ loop.at = "send"
    /\ loop' = [Idle EXCEPT !.at = "check"]
    /\ UNCHANGED <<active, mode, ring, running, torn, irqs>>

-----------------------------------------------------------------------------
(***************************************************************************)
(* The camera.                                                             *)
(***************************************************************************)
\* handle_irq sends CamIrq with try_send_message, and the message is lost when
\* the loop's queue is full, of whatever messages.
handle_irq(r) ==
    \/ /\ irqs < MaxIrqs
       /\ irqs' = irqs + 1
       /\ ring' = [r EXCEPT !.missed = FALSE]
    \/ /\ ring' = [r EXCEPT !.missed = @ \/ (irqs = 0 /\ loop.at = "receive")]
       /\ UNCHANGED irqs

\* A transfer is full.
TransferDone ==
    /\ running /\ ring.dma # <<>>
    /\ handle_irq([ring EXCEPT !.dma = Tail(@)])
    /\ UNCHANGED <<active, mode, running, torn, loop>>

\* Pixels of the picture under way find the channel empty.  The loop has
\* looked at the channel and not fed it yet: it does not look again.
Unlooked ==
    loop.at = "feed" \/ (loop.at = "copy" /\ Depth[mode] < 3)
PixelsLost ==
    /\ active /\ running
    /\ ring.dma = <<>> /\ MoreToQueue
    /\ torn = "no"
    /\ torn' = IF Unlooked THEN "unnoticed" ELSE "lost"
    /\ UNCHANGED <<active, mode, ring, running, irqs, loop>>

-----------------------------------------------------------------------------
(***************************************************************************)
(* What starts and stops the ring: module Webcam.                          *)
(***************************************************************************)
\* webcam_start_capture.  The camera may or may not come up.
StartCapture(m) ==
    /\ loop.at \in {"receive", "send"}
    /\ loop' = Idle
    /\ active' = TRUE /\ mode' = m
    /\ ring' = webcam_ring_start_frame(m, ring)
    /\ running' \in BOOLEAN
    /\ torn' = "no"
    /\ UNCHANGED irqs

StopCapture ==
    /\ loop.at = "receive"
    /\ active' = FALSE /\ running' = FALSE
    /\ ring' = [ring EXCEPT !.missed = FALSE]
    /\ torn' = "no"
    /\ UNCHANGED <<mode, irqs, loop>>

\* The camera is used for something else: only while the webcam is off.
OtherUse ==
    /\ ~active /\ loop.at = "receive"
    /\ running' \in BOOLEAN /\ irqs' \in 0 .. MaxIrqs
    /\ \E n \in 0 .. 2, b \in BOOLEAN : \E d \in [1 .. n -> Numbers] :
          ring' = [ring EXCEPT !.dma = d, !.missed = b]
    /\ UNCHANGED <<active, mode, torn, loop>>

\* WebcamState::new.
NewRing == [xfer_queued |-> 0, xfer_done |-> 0, slot_base |-> 0, slot_counter |-> 0,
            dma |-> <<>>, missed |-> FALSE]
Reboot ==
    /\ ~active /\ loop.at = "receive"
    /\ ring' = NewRing /\ running' = FALSE
    /\ torn' = "no" /\ irqs' = 0
    /\ UNCHANGED <<active, mode, loop>>

-----------------------------------------------------------------------------
RingInit ==
    /\ active = FALSE /\ mode \in Modes
    /\ ring = NewRing /\ running = FALSE
    /\ torn = "no" /\ irqs = 0
    /\ loop = Idle

Loop == CamIrq \/ NothingDone \/ Overrun \/ Take \/ Feed \/ Copy \/ SendChunk

RingNext ==
    \/ Loop \/ TransferDone \/ PixelsLost
    \/ (\E m \in Modes : StartCapture(m)) \/ StopCapture \/ OtherUse \/ Reboot

RingSpec == RingInit /\ [][RingNext]_ringVars
-----------------------------------------------------------------------------
(***************************************************************************)
(* Properties.                                                             *)
(***************************************************************************)
\* Type correctness of the ring, the camera and the loop.
RingTypeOK ==
    /\ active \in BOOLEAN /\ mode \in Modes /\ running \in BOOLEAN
    /\ ring \in [xfer_queued : 0 .. Transfers[mode], xfer_done : 0 .. Transfers[mode],
                 slot_base : Numbers, slot_counter : Numbers, dma : Seq(Numbers),
                 missed : BOOLEAN]
    /\ ring.xfer_done <= ring.xfer_queued /\ Len(ring.dma) <= 2
    /\ torn \in {"no", "lost", "unnoticed"}
    /\ irqs \in 0 .. MaxIrqs
    /\ loop \in [at : {"receive", "check", "feed", "copy", "send"},
                 k : 0 .. Transfers[mode] - 1, number : Numbers,
                 torn : {"no", "lost", "unnoticed"}]

\* The transfers whose contents the loop still needs, or is copying, and those
\* in the channel never share a slot: nothing is overwritten before it has been
\* copied, in any mode that RingAssumption admits, within a picture and from one
\* to the next.  The one exception are neighbours on the two sides of the
\* counter's wrap.
AcrossTheWrap(a, b) == a + 2 < b \/ b + 2 < a
SameSlot(a, b)      == Slot(mode, a) = Slot(mode, b) /\ ~AcrossTheWrap(a, b)
SlotsApart ==
    active =>
    /\ \A i, j \in ring.xfer_done .. ring.xfer_queued - 1 :
          i # j => ~SameSlot(Number(ring, i), Number(ring, j))
    /\ loop.at \in {"feed", "copy"} =>
          \A i \in ring.xfer_done .. ring.xfer_queued - 1 :
              ~SameSlot(loop.number, Number(ring, i))

\* The channel holds the last of the outstanding transfers, in their order, and
\* never one the loop has taken: Completed, which only looks at how many the
\* channel holds, is right.
ChannelHoldsTheRest ==
    active =>
    /\ Outstanding(ring) <= 2 /\ Len(ring.dma) <= Outstanding(ring)
    /\ \A i \in DOMAIN ring.dma :
          ring.dma[i] = Number(ring, ring.xfer_queued - Len(ring.dma) + i - 1)

\* No chunk is sent of a picture that had lost pixels when the chunk was taken:
\* the look at the channel before it gives the picture up.  Only pixels lost
\* between that look and the feeding that follows it go unnoticed.
LossesAreNoticed == loop.at = "send" => loop.torn # "lost"
=============================================================================
