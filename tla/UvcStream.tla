----------------------------- MODULE UvcStream ------------------------------
(***************************************************************************)
(* The streamer of the webcam: services/usb-bao1x/src/uvc.rs, the loop of  *)
(* main.rs that feeds it and the interrupt handler of hw.rs that drives    *)
(* it.  A frame source lends a chunk of payloads to the loop, which copies *)
(* it to the one staging buffer and posts a request to the interrupt       *)
(* handler; the handler puts one payload after the other on the transfer   *)
(* ring of the bulk endpoint.  When the staging buffer is busy the lend is *)
(* parked, and its source sleeps until the loop answers.                   *)
(*                                                                         *)
(* The loop is a thread that the handler may interrupt between any two     *)
(* steps; a run of the handler is one action.  The handler tells the loop  *)
(* what happened with messages that are lost when the queue is full.       *)
(***************************************************************************)
EXTENDS Naturals, Sequences

CONSTANTS
    Sources,      \* the threads that lend chunks
    MaxPayloads,  \* UVC_CHUNK_PAYLOADS, 8
    QueueLen,     \* the slots of the service's message queue
    MaxLeft       \* bound: transfers on the ring when a stream is started

NONE == "none"

ASSUME UvcAssumption ==
    /\ MaxPayloads \in Nat \ {0} /\ QueueLen \in Nat \ {0} /\ MaxLeft \in Nat
    /\ NONE \notin Sources

VARIABLES
    usb,        \* UvcClass, irq_req, the transfer ring and the message queue
    pending,    \* uvc_pending: the source whose lend is parked
    main,       \* where the loop is
    waiting,    \* the sources whose lends are not answered
    addressed   \* the device is enumerated: the host can reach the endpoints

vars == <<usb, pending, main, waiting, addressed>>

AllSlots == 0 .. MaxPayloads - 1

\* A message without a sender: IrqUvcFrameDone, IrqUvcStreamChange, UsbBusReset,
\* PmicIrq or Other.  A UvcSendFrame also says from which source it is.
Note(op) == [op |-> op]

-----------------------------------------------------------------------------
(***************************************************************************)
(* UvcClass.  Each operator is the value of usb after the method.          *)
(***************************************************************************)
\* Sent with try_send_message.
notify(u, op) ==
    IF Len(u.queue) < QueueLen THEN [u EXCEPT !.queue = Append(@, Note(op))] ELSE u

\* A transfer descriptor sends one slot of the staging buffer.  What it will
\* send is fresh while the stream it was queued in is open, stale afterwards,
\* and torn when the slot is written again in that stream.
Marked(r, slots, data) ==
    [i \in DOMAIN r |-> IF r[i].slot \in slots /\ r[i].data # "stale"
                        THEN [r[i] EXCEPT !.data = data] ELSE r[i]]

\* Two fields only remember the past, for the properties: `leftover`, that a
\* stream was started over a transfer of an earlier one, and `failed`, that a
\* transfer of this stream ("now") or of an earlier one ("before") has failed.
Past(f) == IF f = "now" THEN "before" ELSE f

\* Mutant: the chunk in progress is kept.
StartKeepsChunk(u) ==
    notify([u EXCEPT !.cursor = 0,
                     !.discard_completion = @ \/ u.in_flight,
                     !.in_flight = FALSE,
                     !.streaming = TRUE,
                     !.ring = Marked(@, AllSlots, "stale"),
                     !.leftover = @ \/ u.ring # <<>>,
                     !.failed = Past(@)], "IrqUvcStreamChange")
start_stream(u) ==
    notify([u EXCEPT !.cursor = 0, !.frame_active = FALSE,
                     !.discard_completion = @ \/ u.in_flight,
                     !.in_flight = FALSE,
                     !.streaming = TRUE,
                     !.ring = Marked(@, AllSlots, "stale"),
                     !.leftover = @ \/ u.ring # <<>>,
                     !.failed = Past(@)], "IrqUvcStreamChange")

stop_stream(u) ==
    IF ~u.streaming THEN u
    ELSE notify([u EXCEPT !.streaming = FALSE,
                          !.cursor = 0, !.frame_active = FALSE,
                          !.discard_completion = @ \/ u.in_flight,
                          !.ring = Marked(@, AllSlots, "stale"),
                          !.failed = Past(@)], "IrqUvcStreamChange")

enqueue_payload(u) ==
    [u EXCEPT !.ring = Append(@, [slot |-> u.cursor, data |-> "fresh"]), !.in_flight = TRUE]

kick(u) ==
    IF u.streaming /\ ~u.in_flight /\ u.frame_active THEN enqueue_payload(u) ELSE u

endpoint_in_complete(u) ==
    LET v == [u EXCEPT !.ring = Tail(@), !.in_flight = FALSE]
    IN  IF u.discard_completion THEN kick([v EXCEPT !.discard_completion = FALSE])
        ELSE IF ~u.frame_active THEN v
        ELSE IF u.cursor + 1 < u.payloads THEN enqueue_payload([v EXCEPT !.cursor = @ + 1])
        ELSE notify([v EXCEPT !.cursor = 0, !.frame_active = FALSE], "IrqUvcFrameDone")

set_chunk(u, n) == [u EXCEPT !.payloads = n, !.cursor = 0, !.frame_active = TRUE]

\* The assignments of reset_state, in order: the loop makes them one by one.
ResetSteps == 1 .. 5
ResetStep(u, k) ==
    CASE k = 1 -> [u EXCEPT !.in_flight = FALSE]
      [] k = 2 -> [u EXCEPT !.discard_completion = FALSE]
      [] k = 3 -> [u EXCEPT !.cursor = 0]
      [] k = 4 -> [u EXCEPT !.frame_active = FALSE]
      [] k = 5 -> IF u.streaming  \* a swap: one step
                  THEN notify([u EXCEPT !.streaming = FALSE, !.ring = Marked(@, AllSlots, "stale")],
                              "IrqUvcStreamChange")
                  ELSE u
\* Mutant: the second assignment is missing.
ResetKeepsDiscard(u) ==
    ResetStep(ResetStep(ResetStep(ResetStep(u, 1), 3), 4), 5)
reset_state(u) ==
    ResetStep(ResetStep(ResetStep(ResetStep(ResetStep(u, 1), 2), 3), 4), 5)

\* The rings are set up again before the host can reach the endpoint.
RingsCleared(u) == [u EXCEPT !.ring = <<>>, !.leftover = FALSE, !.failed = "no"]

-----------------------------------------------------------------------------
(***************************************************************************)
(* The interrupt handler, for what the host does.  After the event it      *)
(* serves a request of the loop, whether or not that raised the interrupt. *)
(* The hardware lock is free: the loop takes it with interrupts off.       *)
(***************************************************************************)
service_sw_request(u) == IF u.irq_req THEN kick([u EXCEPT !.irq_req = FALSE]) ELSE u

composite_handler(u) ==
    /\ usb' = service_sw_request(u)
    /\ UNCHANGED <<pending, main, waiting>>

\* COMMIT.  A host may commit again without stopping first.
Commit ==
    /\ addressed /\ Len(usb.ring) <= MaxLeft
    /\ composite_handler(start_stream(usb)) /\ UNCHANGED addressed

\* CLEAR_FEATURE(ENDPOINT_HALT): the transfer on the ring stays there.
ClearHalt ==
    /\ addressed
    /\ composite_handler(stop_stream(usb)) /\ UNCHANGED addressed

\* The host has read the first transfer on the ring.
TransferDone ==
    /\ addressed /\ usb.ring # <<>>
    /\ composite_handler(endpoint_in_complete(usb)) /\ UNCHANGED addressed

\* The first transfer on the ring ends with an error.  handle_event_inner says
\* so on the console and endpoint_in_complete is not called: the flags stay.
TransferFails ==
    /\ addressed /\ usb.ring # <<>>
    /\ composite_handler(
           [usb EXCEPT !.ring = Tail(@),
                       !.failed = IF Head(usb.ring).data = "stale" /\ @ # "now"
                                  THEN "before" ELSE "now"])
    /\ UNCHANGED addressed

\* The host resets the bus and enumerates the device.
BusReset ==
    /\ composite_handler(RingsCleared(reset_state(usb)))
    /\ addressed' = TRUE

-----------------------------------------------------------------------------
(***************************************************************************)
(* The messages others send to the loop.                                   *)
(***************************************************************************)
Queued(m) == usb' = [usb EXCEPT !.queue = Append(@, m)]

uvc_send_chunk(s) ==
    /\ s \notin waiting /\ Len(usb.queue) < QueueLen
    /\ Queued([op |-> "UvcSendFrame", from |-> s])
    /\ waiting' = waiting \cup {s}
    /\ UNCHANGED <<pending, main, addressed>>

SendOther(op) ==
    /\ Len(usb.queue) < QueueLen
    /\ Queued(Note(op))
    /\ UNCHANGED <<pending, main, waiting, addressed>>

-----------------------------------------------------------------------------
(***************************************************************************)
(* The loop.  pc is the next step, then the step after a chunk has been    *)
(* dealt with, lend the source of that chunk and n its payloads.           *)
(***************************************************************************)
At(pc) == main.pc = pc
Goto(pc) == main' = [main EXCEPT !.pc = pc]

\* The lend in hand is answered, and the loop goes on.
Answer ==
    /\ main' = [main EXCEPT !.pc = main.then, !.lend = NONE, !.n = 0]
    /\ waiting' = waiting \ {main.lend}

Receive ==
    /\ At("receive") /\ usb.queue # <<>>
    /\ main' = [main EXCEPT !.pc = "resume", !.then = "dispatch", !.msg = Head(usb.queue)]
    /\ usb' = [usb EXCEPT !.queue = Tail(@)]
    /\ UNCHANGED <<pending, waiting, addressed>>

\* Whether a parked chunk stays where it is.
\* Mutants: the chunk before it is forgotten; only a notification frees it.
MustStayIfNone == pending = NONE
MustStayUnlessTold ==
    \/ pending = NONE \/ (usb.streaming /\ usb.frame_active)
    \/ main.then = "dispatch" /\ main.msg.op \notin {"IrqUvcFrameDone", "IrqUvcStreamChange"}
MustStay == pending = NONE \/ (usb.streaming /\ usb.frame_active)
uvc_resume_pending ==
    /\ At("resume")
    /\ IF MustStay
       THEN Goto(main.then) /\ UNCHANGED pending
       ELSE main' = [main EXCEPT !.pc = "streaming?", !.lend = pending] /\ pending' = NONE
    /\ UNCHANGED <<usb, waiting, addressed>>

\* The parked chunk is refused when the stream has stopped.
StageOrRefuse ==
    /\ At("streaming?")
    /\ IF usb.streaming THEN Goto("copy") /\ UNCHANGED waiting ELSE Answer
    /\ UNCHANGED <<usb, pending, addressed>>

\* A chunk of n payloads; with 0, one whose length or payload size is refused.
uvc_stage_chunk(n) ==
    /\ At("copy")
    /\ IF n = 0
       THEN Answer /\ UNCHANGED usb
       ELSE /\ main' = [main EXCEPT !.pc = "set_chunk", !.n = n]
            /\ usb' = [usb EXCEPT !.ring = Marked(@, 0 .. n - 1, "torn")]
            /\ UNCHANGED waiting
    /\ UNCHANGED <<pending, addressed>>

SetChunk ==
    /\ At("set_chunk")
    /\ usb' = set_chunk(usb, main.n)
    /\ Goto("sw_irq")
    /\ UNCHANGED <<pending, waiting, addressed>>

sw_irq ==
    /\ At("sw_irq")
    /\ usb' = [usb EXCEPT !.irq_req = TRUE]
    /\ Goto("trigger")
    /\ UNCHANGED <<pending, waiting, addressed>>

\* The software interrupt is taken before the loop goes on.
Trigger ==
    /\ At("trigger")
    /\ usb' = service_sw_request(usb)
    /\ Answer
    /\ UNCHANGED <<pending, addressed>>

\* What the loop does with the message, the streamer's part.
UvcSendFrame ==
    /\ At("dispatch") /\ main.msg.op = "UvcSendFrame"
    /\ IF usb.streaming
       THEN main' = [main EXCEPT !.pc = "busy?", !.then = "receive", !.lend = main.msg.from]
                /\ UNCHANGED waiting
       ELSE Goto("receive") /\ waiting' = waiting \ {main.msg.from}
    /\ UNCHANGED <<usb, pending, addressed>>

\* The previous chunk is still going out: the lend is parked, or refused if
\* another one is parked already.
HoldOrStage ==
    /\ At("busy?")
    /\ IF ~usb.frame_active THEN Goto("copy") /\ UNCHANGED <<pending, waiting>>
       ELSE IF pending # NONE THEN Answer /\ UNCHANGED pending
       ELSE /\ pending' = main.lend
            /\ main' = [main EXCEPT !.pc = "receive", !.lend = NONE]
            /\ UNCHANGED waiting
    /\ UNCHANGED <<usb, addressed>>

\* IrqUvcFrameDone, IrqUvcStreamChange and whatever else only wake the loop.
NothingToDo ==
    /\ At("dispatch") /\ main.msg.op \in {"IrqUvcFrameDone", "IrqUvcStreamChange", "Other"}
    /\ Goto("receive")
    /\ UNCHANGED <<usb, pending, waiting, addressed>>

UsbBusReset ==
    /\ At("dispatch") /\ main.msg.op = "UsbBusReset"
    /\ main' = [main EXCEPT !.pc = "reset", !.then = "force_reset", !.k = 1]
    /\ UNCHANGED <<usb, pending, waiting, addressed>>

\* reset_state, called from the loop: the handler may run after any assignment.
ResetByLoop ==
    /\ At("reset")
    /\ usb' = ResetStep(usb, main.k)
    /\ main' = IF main.k + 1 \in ResetSteps THEN [main EXCEPT !.k = @ + 1]
               ELSE [main EXCEPT !.pc = IF main.then = "force_reset" THEN "resume"
                                                                     ELSE "unplugged",
                                 !.k = 0]
    /\ UNCHANGED <<pending, waiting, addressed>>

\* With interrupts off.
force_reset ==
    /\ At("force_reset")
    /\ usb' = RingsCleared(usb)
    /\ addressed' = FALSE
    /\ Goto("receive")
    /\ UNCHANGED <<pending, waiting>>

\* The cable was pulled.  The hardware is reset with interrupts off, the flags
\* after force_reset has switched them on again.
unplug ==
    /\ At("dispatch") /\ main.msg.op = "PmicIrq"
    /\ usb' = RingsCleared(usb)
    /\ addressed' = FALSE
    /\ main' = [main EXCEPT !.pc = "reset", !.k = 1]
    /\ UNCHANGED <<pending, waiting>>

Unplugged ==
    /\ At("unplugged")
    /\ usb' = [usb EXCEPT !.irq_req = FALSE]
    /\ Goto("receive")
    /\ UNCHANGED <<pending, waiting, addressed>>

-----------------------------------------------------------------------------
Init ==
    /\ usb = [streaming |-> FALSE, frame_active |-> FALSE, in_flight |-> FALSE,
              discard_completion |-> FALSE, cursor |-> 0, payloads |-> 0,
              irq_req |-> FALSE, ring |-> <<>>, queue |-> <<>>, leftover |-> FALSE,
              failed |-> "no"]
    /\ pending = NONE
    /\ main = [pc |-> "receive", then |-> "receive", msg |-> Note("Other"),
               lend |-> NONE, n |-> 0, k |-> 0]
    /\ waiting = {}
    /\ addressed = FALSE

Host == Commit \/ ClearHalt \/ TransferDone \/ TransferFails \/ BusReset

Clients ==
    \/ \E s \in Sources : uvc_send_chunk(s)
    \/ \E op \in {"UsbBusReset", "PmicIrq", "Other"} : SendOther(op)

Loop ==
    \/ Receive \/ uvc_resume_pending \/ StageOrRefuse
    \/ \E n \in 0 .. MaxPayloads : uvc_stage_chunk(n)
    \/ SetChunk \/ sw_irq \/ Trigger
    \/ UvcSendFrame \/ HoldOrStage \/ NothingToDo
    \/ UsbBusReset \/ ResetByLoop \/ force_reset \/ unplug \/ Unplugged

Next == Host \/ Clients \/ Loop

\* The loop is a thread that is ready and so runs (Kernel, run fair).  A host
\* that opened a stream reads from it, unless the transfer fails, and it
\* enumerates a device that comes back.  Nobody need send anything.
Fairness ==
    /\ WF_vars(Loop)
    /\ WF_vars(TransferDone)
    /\ WF_vars(BusReset /\ ~addressed)

Spec     == Init /\ [][Next]_vars
FairSpec == Spec /\ Fairness

-----------------------------------------------------------------------------
(***************************************************************************)
(* Properties.                                                             *)
(***************************************************************************)
\* A chunk that the streamer says it transmits really is under way: one of its
\* transfers is on the ring, or the loop's request that starts it is.  No order
\* of commits, stops, resets and completions leaves frame_active set with
\* nothing that would ever clear it; only the failure of a transfer of the
\* stream does, and that until the host starts or stops a stream.
ChunkUnderWay ==
    addressed /\ usb.streaming /\ usb.frame_active /\ usb.failed # "now"
        => usb.ring # <<>> \/ usb.irq_req \/ At("sw_irq")

\* The completion that is to be discarded is that of a transfer of a stream
\* that has ended, never that of a payload of this one, unless a transfer has
\* failed since the device was enumerated: its completion does not come.
DiscardsOnlyStale ==
    addressed /\ usb.discard_completion /\ usb.failed = "no"
        => usb.ring # <<>> /\ Head(usb.ring).data = "stale"

\* As long as no stream is started over a transfer of an earlier one, there is
\* one transfer at a time and what it sends is what was staged for it.
CleanStreams ==
    ~usb.leftover => Len(usb.ring) <= 1 /\ \A i \in DOMAIN usb.ring : usb.ring[i].data # "torn"

\* A lend is answered, parked or not, whatever notifications are lost and
\* whatever the host does to the stream: its source goes on.  Only where a
\* transfer of the stream has failed it may wait, for the host to start or stop
\* the stream or to reset the device.
EveryLendIsAnswered ==
    \A s \in Sources : s \in waiting ~> s \notin waiting \/ usb.failed = "now"

\* While a payload is on the ring, nobody writes to the slot it is sent from:
\* what frame_active is for.
StagingIsLeftAlone == \A i \in DOMAIN usb.ring : usb.ring[i].data # "torn"
=============================================================================
