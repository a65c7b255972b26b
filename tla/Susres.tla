------------------------------- MODULE Susres -------------------------------
(***************************************************************************)
(* The suspend service of bao1x-hal-service (servers/susres.rs) with its   *)
(* timeout thread, and its callers through xous-api-susres: a suspend is   *)
(* requested, the subscribers are told stage by stage, each reports that   *)
(* it is ready and then blocks at the execution gate, and the system       *)
(* sleeps when the last stage has reported.  A thread of its own ends a    *)
(* suspend that takes too long.  It is told of a suspend by a message and  *)
(* of its end by a flag, timeout_pending, at which it looks now and then,  *)
(* so it may outlive the suspend it was started for.                       *)
(*                                                                         *)
(* The messages of one caller arrive in the order in which they were sent; *)
(* those of different callers, the thread's among them, interleave.        *)
(***************************************************************************)
EXTENDS Naturals, FiniteSets, Sequences

CONSTANTS
    Subscribers,  \* the services that subscribed at boot
    Stage,        \* SuspendOrder of each
    LastStage,    \* SuspendOrder::Last
    Requesters,   \* those who ask for a suspend
    MaxEvents,    \* bound: suspend events a slow subscriber has not handled
    MaxTimers,    \* bound: messages the timeout thread is behind
    MaxPosted,    \* bound: SuspendAllow and SuspendDeny messages in the queue
    Programs,     \* bound: which calls are made besides: sets of pairs <<caller, op>>
    NONE

\* "there must be at least one subscriber to the `Last` suspend order event"
ASSUME SusresAssumption ==
    /\ {LastStage, MaxEvents, MaxTimers} \subseteq Nat \ {0} /\ MaxPosted \in Nat
    /\ Stage \in [Subscribers -> 1 .. LastStage]
    /\ \E s \in Subscribers : Stage[s] = LastStage
    /\ NONE \notin Subscribers \cup Requesters \cup {"SuspendRequest", "PlatformSpecific"}
    /\ Subscribers \cap Requesters = {}

VARIABLES
    queue,              \* the messages of the service that are not received
    suspend_requested,  \* the caller to answer when the suspend is over
    timeout_pending,
    ready_to_suspend, failed_to_suspend,  \* the subscribers with the flag
    current_op_order,
    gated_pids,
    allow_suspend,
    reboot_requested,
    suspending,         \* the loop is in the branch that puts the system to sleep
    timeout_queue,      \* messages the timeout thread has not received
    timeout_thread,     \* "idle" or "waiting"
    events,             \* suspend events each subscriber has not handled
    sub,                \* where each subscriber is in suspend_until_resume
    req,                \* what each requester is blocked in
    rebooter,           \* where the caller of reboot is
    program             \* the one of Programs that is made: never changes

flags   == <<suspend_requested, timeout_pending, ready_to_suspend, failed_to_suspend,
             current_op_order, gated_pids>>
modes   == <<allow_suspend, reboot_requested>>
thread  == <<timeout_queue, timeout_thread>>
callers == <<sub, req, rebooter, program>>
vars    == <<queue, flags, modes, suspending, thread, events, callers>>

Stages == 1 .. LastStage
Posts  == {"SuspendAllow", "SuspendDeny"}
Reboots == {"RebootRequest", "RebootConfirm"}
Ops    == {"SuspendRequest", "SuspendReady", "SuspendingNow", "SuspendTimeout",
           "WasSuspendClean", "PlatformSpecific"} \cup Posts \cup Reboots

Init ==
    /\ queue = <<>>
    /\ suspend_requested = NONE /\ timeout_pending = FALSE
    /\ ready_to_suspend = {} /\ failed_to_suspend = {}
    /\ current_op_order = 1
    /\ gated_pids = {}
    /\ allow_suspend = TRUE /\ reboot_requested = FALSE
    /\ suspending = FALSE
    /\ timeout_queue = 0 /\ timeout_thread = "idle"
    /\ events = [s \in Subscribers |-> 0]
    /\ sub = [s \in Subscribers |-> "runs"]
    /\ req = [r \in Requesters |-> NONE]
    /\ rebooter = "idle"
    /\ program \in Programs

-----------------------------------------------------------------------------
(***************************************************************************)
(* The service.                                                            *)
(***************************************************************************)
Message(op, from) == [op |-> op, from |-> from]
Send(op, from)    == queue' = Append(queue, Message(op, from))

\* return_scalar: a gated subscriber goes on to ask whether the suspend was
\* clean, and then to its own work; a requester goes on at once.
Released(S) == sub' = [s \in Subscribers |->
    IF s \notin S THEN sub[s] ELSE IF sub[s] = "asks" THEN "runs" ELSE "released"]
Returned(R) == req' = [r \in Requesters |-> IF r \in R THEN NONE ELSE req[r]]

\* A message the loop receives while no reboot has been announced.
Receive(op) ==
    /\ ~suspending /\ ~reboot_requested
    /\ queue # <<>> /\ Head(queue).op = op
    /\ queue' = Tail(queue)
From == Head(queue).from

AllReady(ready) == \A s \in Subscribers : Stage[s] = current_op_order => s \in ready

\* send_event until at_least_one_event_sent: the first stage from o on that has
\* a subscriber, and the event to each of its subscribers.
\* Mutant: the event is sent once.
FirstStageOnce(o) == o
FirstStage(o) == CHOOSE p \in o .. LastStage :
    /\ \E s \in Subscribers : Stage[s] = p
    /\ \A s \in Subscribers : Stage[s] >= o => Stage[s] >= p
SendEvents(o) ==
    /\ current_op_order' = FirstStage(o)
    /\ events' = [s \in Subscribers |->
                     IF Stage[s] = FirstStage(o) THEN events[s] + 1 ELSE events[s]]

\* Mutant: the timeout thread is not told.
SuspendRequestUntimed ==
    /\ Receive("SuspendRequest")
    /\ IF allow_suspend /\ ~timeout_pending
       THEN /\ timeout_pending' = TRUE
            /\ suspend_requested' = From
            /\ ready_to_suspend' = {} /\ failed_to_suspend' = {}
            /\ SendEvents(1)
            /\ UNCHANGED <<req, timeout_queue>>
       ELSE /\ Returned({From})
            /\ UNCHANGED <<suspend_requested, timeout_pending, ready_to_suspend,
                           failed_to_suspend, current_op_order, timeout_queue, events>>
    /\ UNCHANGED <<gated_pids, modes, suspending, timeout_thread, sub, rebooter, program>>
SuspendRequest ==
    /\ Receive("SuspendRequest")
    /\ \/ /\ allow_suspend /\ ~timeout_pending
          /\ timeout_pending' = TRUE
          /\ suspend_requested' = From
          /\ ready_to_suspend' = {} /\ failed_to_suspend' = {}
          /\ timeout_queue' = timeout_queue + 1
          /\ SendEvents(1)
          /\ UNCHANGED req
       \/ /\ ~allow_suspend \/ timeout_pending
          /\ Returned({From})
          /\ UNCHANGED <<suspend_requested, timeout_pending, ready_to_suspend,
                         failed_to_suspend, current_op_order, timeout_queue, events>>
    /\ UNCHANGED <<gated_pids, modes, suspending, timeout_thread, sub, rebooter, program>>

\* A report outside a suspend, or the second of a subscriber, is ignored.
IgnoreReady ==
    /\ Receive("SuspendReady")
    /\ suspend_requested = NONE \/ From \in ready_to_suspend
    /\ UNCHANGED <<flags, modes, suspending, thread, events, callers>>

\* The last report of the last stage stops the timer, the loop yields, and
\* Sleep is the rest of the branch; that of another stage starts the next.
SuspendReady ==
    /\ Receive("SuspendReady")
    /\ suspend_requested # NONE /\ From \notin ready_to_suspend
    /\ ready_to_suspend' = ready_to_suspend \cup {From}
    /\ \/ /\ AllReady(ready_to_suspend') /\ current_op_order = LastStage
          /\ timeout_pending' = FALSE
          /\ suspending' = TRUE
          /\ UNCHANGED <<current_op_order, events>>
       \/ /\ AllReady(ready_to_suspend') /\ current_op_order # LastStage
          /\ SendEvents(current_op_order + 1)
          /\ UNCHANGED <<timeout_pending, suspending>>
       \/ /\ ~AllReady(ready_to_suspend')
          /\ UNCHANGED <<current_op_order, events, timeout_pending, suspending>>
    /\ UNCHANGED <<suspend_requested, failed_to_suspend, gated_pids, modes, thread, callers>>

\* wfi with preemption off, and after it everybody is let go.
Sleep ==
    /\ suspending
    /\ suspending' = FALSE
    /\ suspend_requested' = NONE
    /\ gated_pids' = {}
    /\ Released(gated_pids) /\ Returned({suspend_requested})
    /\ UNCHANGED <<queue, timeout_pending, ready_to_suspend, failed_to_suspend, current_op_order,
                   modes, thread, events, rebooter, program>>

\* A gate that is reached when the suspend is already over is open.
\* Mutant: it is closed all the same.
GateAlways ==
    /\ Receive("SuspendingNow")
    /\ gated_pids' = gated_pids \cup {From}
    /\ UNCHANGED <<suspend_requested, timeout_pending, ready_to_suspend, failed_to_suspend,
                   current_op_order, modes, suspending, thread, events, callers>>
SuspendingNow ==
    /\ Receive("SuspendingNow")
    /\ \/ suspend_requested = NONE /\ Released({From}) /\ UNCHANGED gated_pids
       \/ suspend_requested # NONE /\ gated_pids' = gated_pids \cup {From} /\ UNCHANGED sub
    /\ UNCHANGED <<suspend_requested, timeout_pending, ready_to_suspend, failed_to_suspend,
                   current_op_order, modes, suspending, thread, events, req, rebooter, program>>

\* The timeout of a suspend, which need not be the one it was started for.
SuspendTimeout ==
    /\ Receive("SuspendTimeout")
    /\ timeout_pending
    /\ timeout_pending' = FALSE
    /\ failed_to_suspend' = Subscribers \ ready_to_suspend
    /\ gated_pids' = {}
    /\ suspend_requested' = NONE
    /\ Released(gated_pids) /\ Returned({suspend_requested})
    /\ UNCHANGED <<ready_to_suspend, current_op_order, modes, suspending, thread, events,
                   rebooter, program>>
IgnoreTimeout ==
    /\ Receive("SuspendTimeout")
    /\ ~timeout_pending
    /\ UNCHANGED <<flags, modes, suspending, thread, events, callers>>

WasSuspendClean ==
    /\ Receive("WasSuspendClean")
    /\ Released({From})
    /\ UNCHANGED <<flags, modes, suspending, thread, events, req, rebooter, program>>

\* The clocks: answered at once, and none of this state is touched.
PlatformSpecific ==
    /\ Receive("PlatformSpecific")
    /\ Returned({From})
    /\ UNCHANGED <<flags, modes, suspending, thread, events, sub, rebooter, program>>

SetSuspendable(op, allow) ==
    /\ Receive(op)
    /\ allow_suspend' = allow
    /\ UNCHANGED <<flags, reboot_requested, suspending, thread, events, callers>>

RebootRequest ==
    /\ Receive("RebootRequest")
    /\ reboot_requested' = TRUE
    /\ UNCHANGED <<flags, allow_suspend, suspending, thread, events, callers>>
RebootUnrequested ==
    /\ Receive("RebootConfirm")
    /\ UNCHANGED <<flags, modes, suspending, thread, events, callers>>

\* After RebootRequest the next message reboots, or calls the reboot off and is
\* dropped, whatever it is: a caller that blocks in it is never answered.
Reboot ==
    /\ reboot_requested /\ queue # <<>> /\ Head(queue).op = "RebootConfirm"
    /\ queue' = <<>>
    /\ suspend_requested' = NONE /\ timeout_pending' = FALSE
    /\ ready_to_suspend' = {} /\ failed_to_suspend' = {}
    /\ current_op_order' = 1
    /\ gated_pids' = {}
    /\ allow_suspend' = TRUE /\ reboot_requested' = FALSE
    /\ suspending' = FALSE
    /\ timeout_queue' = 0 /\ timeout_thread' = "idle"
    /\ events' = [s \in Subscribers |-> 0]
    /\ sub' = [s \in Subscribers |-> "runs"]
    /\ req' = [r \in Requesters |-> NONE]
    /\ rebooter' = "idle"
    /\ UNCHANGED program
CallOffReboot ==
    /\ reboot_requested /\ ~suspending /\ queue # <<>> /\ Head(queue).op # "RebootConfirm"
    /\ queue' = Tail(queue)
    /\ reboot_requested' = FALSE
    /\ UNCHANGED <<flags, allow_suspend, suspending, thread, events, callers>>

Serve ==
    \/ SuspendRequest \/ IgnoreReady \/ SuspendReady \/ Sleep \/ SuspendingNow
    \/ SuspendTimeout \/ IgnoreTimeout \/ WasSuspendClean \/ PlatformSpecific
    \/ SetSuspendable("SuspendAllow", TRUE) \/ SetSuspendable("SuspendDeny", FALSE)
    \/ RebootRequest \/ RebootUnrequested \/ Reboot \/ CallOffReboot

-----------------------------------------------------------------------------
(***************************************************************************)
(* The timeout thread.  It looks at the time before it looks at the flag,  *)
(* so it may report a timeout after the flag has been cleared.             *)
(***************************************************************************)
StartTimer ==
    /\ timeout_thread = "idle" /\ timeout_queue > 0
    /\ timeout_thread' = "waiting"
    /\ timeout_queue' = timeout_queue - 1
    /\ UNCHANGED <<queue, flags, modes, suspending, events, callers>>
TimerStops ==
    /\ timeout_thread = "waiting" /\ ~timeout_pending
    /\ timeout_thread' = "idle"
    /\ UNCHANGED <<queue, flags, modes, suspending, timeout_queue, events, callers>>
TimeIsUp ==
    /\ timeout_thread = "waiting"
    /\ timeout_thread' = "idle"
    /\ Send("SuspendTimeout", NONE)
    /\ UNCHANGED <<flags, modes, suspending, timeout_queue, events, callers>>
Timer == StartTimer \/ TimerStops \/ TimeIsUp

-----------------------------------------------------------------------------
(***************************************************************************)
(* The callers.                                                            *)
(***************************************************************************)
\* suspend_until_resume, called when the subscriber gets to the event that its
\* callback thread has passed on.
ReportReady(s) ==
    /\ sub[s] = "runs" /\ events[s] > 0
    /\ events' = [events EXCEPT ![s] = @ - 1]
    /\ Send("SuspendReady", s)
    /\ sub' = [sub EXCEPT ![s] = "ready"]
    /\ UNCHANGED <<flags, modes, suspending, thread, req, rebooter, program>>
\* Mutant: the subscriber does not wait at the gate.
RunOn(s) ==
    /\ sub[s] = "ready"
    /\ Send("WasSuspendClean", s)
    /\ sub' = [sub EXCEPT ![s] = "asks"]
    /\ UNCHANGED <<flags, modes, suspending, thread, events, req, rebooter, program>>
WaitAtGate(s) ==
    /\ sub[s] = "ready"
    /\ Send("SuspendingNow", s)
    /\ sub' = [sub EXCEPT ![s] = "gate"]
    /\ UNCHANGED <<flags, modes, suspending, thread, events, req, rebooter, program>>
AskIfClean(s) ==
    /\ sub[s] = "released"
    /\ Send("WasSuspendClean", s)
    /\ sub' = [sub EXCEPT ![s] = "asks"]
    /\ UNCHANGED <<flags, modes, suspending, thread, events, req, rebooter, program>>

\* initiate_suspend, and the calls that read or set a clock.
Call(r, op) ==
    /\ <<r, op>> \in program /\ req[r] = NONE
    /\ op = "SuspendRequest" =>
          timeout_queue < MaxTimers /\ \A s \in Subscribers : events[s] < MaxEvents
    /\ Send(op, r)
    /\ req' = [req EXCEPT ![r] = op]
    /\ UNCHANGED <<flags, modes, suspending, thread, events, sub, rebooter, program>>

\* set_suspendable
Post(op) ==
    /\ <<NONE, op>> \in program
    /\ Cardinality({i \in DOMAIN queue : queue[i].op \in Posts}) < MaxPosted
    /\ Send(op, NONE)
    /\ UNCHANGED <<flags, modes, suspending, thread, events, callers>>

\* reboot
AnnounceReboot ==
    /\ <<NONE, "RebootRequest">> \in program
    /\ rebooter = "idle" /\ ~reboot_requested
    /\ \A i \in DOMAIN queue : queue[i].op \notin Reboots
    /\ Send("RebootRequest", NONE)
    /\ rebooter' = "announced"
    /\ UNCHANGED <<flags, modes, suspending, thread, events, sub, req, program>>
ConfirmReboot ==
    /\ rebooter = "announced"
    /\ Send("RebootConfirm", NONE)
    /\ rebooter' = "idle"
    /\ UNCHANGED <<flags, modes, suspending, thread, events, sub, req, program>>

Callers ==
    \/ \E s \in Subscribers : ReportReady(s) \/ WaitAtGate(s) \/ AskIfClean(s)
    \/ \E r \in Requesters : Call(r, "SuspendRequest") \/ Call(r, "PlatformSpecific")
    \/ Post("SuspendAllow") \/ Post("SuspendDeny")
    \/ AnnounceReboot \/ ConfirmReboot

Next == Serve \/ Timer \/ Callers

\* The kernel runs every ready thread.  A subscriber may be as slow as it likes
\* to get to the event: that is what the timeout is for.
Fairness ==
    /\ WF_vars(Serve) /\ WF_vars(Timer)
    /\ \A s \in Subscribers : WF_vars(WaitAtGate(s) \/ AskIfClean(s))
Spec == Init /\ [][Next]_vars /\ Fairness

-----------------------------------------------------------------------------
(***************************************************************************)
(* What the service is checked for.                                        *)
(***************************************************************************)
\* Type correctness; and while a suspend is under way its current stage has a
\* subscriber, whose report can take it further: the stages nobody subscribed
\* to have been passed over.
SusresTypeOK ==
    /\ queue \in Seq([op : Ops, from : Subscribers \cup Requesters \cup {NONE}])
    /\ suspend_requested \in Requesters \cup {NONE}
    /\ timeout_pending \in BOOLEAN /\ suspending \in BOOLEAN
    /\ ready_to_suspend \in SUBSET Subscribers /\ failed_to_suspend \in SUBSET Subscribers
    /\ current_op_order \in Stages
    /\ suspend_requested # NONE => \E s \in Subscribers : Stage[s] = current_op_order
    /\ gated_pids \in SUBSET Subscribers
    /\ allow_suspend \in BOOLEAN /\ reboot_requested \in BOOLEAN
    /\ timeout_queue \in Nat /\ timeout_thread \in {"idle", "waiting"}
    /\ events \in [Subscribers -> Nat]
    /\ sub \in [Subscribers -> {"runs", "ready", "gate", "released", "asks"}]
    /\ req \in [Requesters -> {NONE, "SuspendRequest", "PlatformSpecific"}]
    /\ rebooter \in {"idle", "announced"}

\* The subscriber has told the service that it is ready and does nothing of its
\* own until it is let go.
Held(s) == sub[s] \in {"ready", "gate"}

\* The flag and the requester belong together, and nobody is kept at the gate
\* without a suspend that will end: the code takes both for granted ("somehow
\* it's now None!", "race condition somewhere!").
OneSuspendAtATime ==
    /\ suspend_requested # NONE <=> timeout_pending \/ suspending
    /\ gated_pids # {} => suspend_requested # NONE
    /\ suspend_requested # NONE => req[suspend_requested] = "SuspendRequest"

\* A stage begins only when the stages before it are ready and held, the system
\* sleeps only when all are, and they stay held until the suspend is over,
\* though reports, gates and timeouts of earlier suspends may still arrive.
HeldStageByStage ==
    suspend_requested # NONE =>
        \A s \in Subscribers : suspending \/ Stage[s] < current_op_order => Held(s)

\* While no reboot is announced, whoever asks for a suspend is answered, and
\* whoever waits at the gate is let go, however slow the other subscribers are.
CallersReturn ==
    [](~reboot_requested) =>
        /\ \A r \in Requesters : req[r] # NONE ~> req[r] = NONE
        /\ \A s \in Subscribers : Held(s) ~> sub[s] = "runs"
=============================================================================
