------------------------------- MODULE Kernel -------------------------------
(***************************************************************************)
(* The kernel as its processes see it: the system calls of                 *)
(* kernel/src/syscall.rs that pass messages, start, join and end threads   *)
(* and make and break connections, over the process table of Scheduler and *)
(* one queue of module Server per server.  There is one core, and the      *)
(* kernel runs with interrupts off: an action is one trap, from the        *)
(* instruction that caused it to the thread that is resumed.               *)
(*                                                                         *)
(* What a process computes between two calls is left out.  Program says    *)
(* which calls its threads make and HandlerProgram which the interrupt     *)
(* handler makes, in any order and any number of times.                    *)
(***************************************************************************)
EXTENDS Scheduler, Server

CONSTANTS
    SIDs,            \* the addresses of servers
    NumServers,      \* MAX_SERVER_COUNT, 128
    NumConnections,  \* the length of a connection_map, 32
    Boots,           \* the sets of processes the loader may have set up
    Started,         \* the processes that have run before the model begins
    IrqOwner,        \* the process that holds the interrupt, or NoPid
    SentKinds,       \* for each process, the kinds of messages it sends
    Program,         \* for each process, the calls its threads make
    HandlerProgram   \* the calls the interrupt handler makes

NoPid == 0

\* The calls an interrupt handler may make: SysCall::can_call_from_interrupt.
InterruptCalls ==
    {"TrySendMessage", "TryReceiveMessage", "TryConnect", "ReturnMemory",
     "ReturnScalar", "ReturnToParent", "ClaimInterrupt", "FreeInterrupt"}
Calls ==
    InterruptCalls \cup
    {"Yield", "SendMessage", "ReceiveMessage", "ReplyAndReceiveNext",
     "CreateThread", "ExitThread", "JoinThread", "CreateServer", "DestroyServer",
     "Connect", "Disconnect", "TerminateProcess"}

ASSUME KernelAssumption ==
    /\ NumServers \in Nat /\ NumConnections \in Nat /\ "none" \notin SIDs
    /\ Boots \subseteq SUBSET Pids
    /\ Started \subseteq Pids /\ IrqOwner \in Started \cup {NoPid}
    /\ SentKinds \in [Pids -> SUBSET Kinds]
    /\ Program \in [Pids -> SUBSET Calls] /\ HandlerProgram \subseteq Calls

Sidxs == 0 .. NumServers - 1
Conns == 0 .. NumConnections - 1

NoServer  == [pid |-> NoPid, sid |-> "none", q |-> init]
NONE      == <<>>
Unused    == 0
TOMBSTONE == 1

VARIABLES
    procs,            \* the process table
    threads,          \* for each process, its live threads and who joins whom
    servers,          \* the server table
    connections,      \* the connection_map of each process
    current_pid,      \* the process that has the processor
    switchto_caller,  \* SWITCHTO_CALLER: whom Yield returns to
    original,         \* ORIGINAL_PID and ORIGINAL_TID: whose quantum it is
    previous_pair,    \* PREVIOUS_PAIR: the thread an interrupt handler returns to
    handling_irq,     \* HANDLING_IRQ: an interrupt handler runs
    handler,          \* the process in IRQ_HANDLERS for the interrupt
    last_pid          \* the process kmain switched to last

sched == <<procs, current_pid, switchto_caller, original, previous_pair,
           handling_irq, last_pid>>
vars  == <<sched, threads, servers, connections, handler>>

self == current_pid
tid  == procs[current_pid].current
in_irq == previous_pair # NONE

NoThreads == [live |-> {}, joins |-> [t \in Threads |-> 0], last |-> 0]
OneThread == [NoThreads EXCEPT !.live = {INITIAL_TID}]

\* The processes in Started have run and given the processor back, the owner of
\* the interrupt among them; the others are as the loader leaves them.
Starts(booted) ==
    /\ procs = [p \in Procs |->
                   CASE p = KERNEL_PID -> Run([q \in Procs |-> FreeProcess], p, INITIAL_TID, {})[p]
                     [] p \in booted \cap Started -> NewProcess
                     [] p \in booted \ Started -> SetupProcess
                     [] OTHER -> FreeProcess]
    /\ threads = [p \in Pids |-> IF p \in booted THEN OneThread ELSE NoThreads]
    /\ handler = IF IrqOwner \in booted THEN IrqOwner ELSE NoPid
Init ==
    /\ \E booted \in Boots : Starts(booted)
    /\ servers = [i \in Sidxs |-> NoServer]
    /\ connections = [p \in Pids |-> [c \in Conns |-> Unused]]
    /\ current_pid = KERNEL_PID
    /\ switchto_caller = NONE
    /\ original = <<2, 2>>
    /\ previous_pair = NONE
    /\ handling_irq = FALSE
    /\ last_pid = KERNEL_PID

(***************************************************************************)
(* What the calls have in common.                                          *)
(***************************************************************************)
May(call) ==
    /\ ~Panicked(procs)
    /\ self # KERNEL_PID
    /\ call \in IF handling_irq THEN HandlerProgram ELSE Program[self]
    /\ in_irq => call \in InterruptCalls

SetQueue(i, q) == servers' = [servers EXCEPT ![i].q = q]

\* The kernel returns to thread procs'[pid].current of process pid.
Resume(ps, pid) ==
    /\ procs' = ps
    /\ current_pid' = pid
    /\ UNCHANGED <<original, previous_pair, handling_irq, last_pid>>

\* The process goes back to its parent, which is the kernel for all of them.
ToParent(can_resume, new) ==
    /\ Resume(set_last_thread(SwitchProcess(procs, self, tid, KERNEL_PID, new, can_resume),
                              original[1], original[2]),
              IF CanActivate(procs, KERNEL_PID, new) THEN KERNEL_PID ELSE self)
    /\ switchto_caller' = NONE

\* The thread sleeps until something makes it ready.
Block == ToParent(FALSE, ANY)

do_yield ==
    IF switchto_caller = NONE
    THEN Resume(Halt(procs, self), self) /\ UNCHANGED switchto_caller
    ELSE ToParent(TRUE, switchto_caller[2])

\* A thread that answers goes on if it has an interrupt to finish, or if the
\* quantum is its process's own (the test compares ORIGINAL_TID with the
\* client's thread); otherwise it stays ready and the client runs.
\* Mutant: an interrupt handler is left like any other thread.
AnswerAndLeaveIrq(woken, client) ==
    IF original = <<self, client.tid>>
    THEN Resume(woken, self)
    ELSE Resume(switch_to_thread(ready_thread(unschedule_thread(woken, self, tid), self, tid),
                                 client.pid, client.tid),
                client.pid)
AnswerAndGoOn(woken, client) ==
    IF in_irq \/ original = <<self, client.tid>>
    THEN Resume(woken, self)
    ELSE Resume(switch_to_thread(ready_thread(unschedule_thread(woken, self, tid), self, tid),
                                 client.pid, client.tid),
                client.pid)

(***************************************************************************)
(* kmain and Yield.                                                        *)
(***************************************************************************)
\* In kmain, an error of SwitchTo is fatal.
SwitchTo ==
    /\ self = KERNEL_PID /\ ~Panicked(procs)
    /\ Runnable(procs) # {}
    /\ LET pid == next_pid_to_run(procs, last_pid)
           ps  == SwitchProcess(procs, self, tid, pid, ANY, TRUE)
       IN  /\ procs' = IF switchto_caller = NONE /\ ~in_irq THEN ps ELSE Halt(procs, self)
           /\ current_pid' = pid
           /\ switchto_caller' = <<self, tid>>
           /\ original' = <<pid, ps[pid].current>>
           /\ last_pid' = pid
    /\ UNCHANGED <<previous_pair, handling_irq, threads, servers, connections, handler>>

\* No process can run: kmain waits for an interrupt and starts again.
Idle ==
    /\ self = KERNEL_PID /\ ~Panicked(procs)
    /\ Runnable(procs) = {} /\ last_pid # KERNEL_PID
    /\ last_pid' = KERNEL_PID
    /\ UNCHANGED <<procs, current_pid, switchto_caller, original, previous_pair, handling_irq,
                   threads, servers, connections, handler>>

Yield ==
    /\ May("Yield")
    /\ do_yield
    /\ UNCHANGED <<threads, servers, connections, handler>>

(***************************************************************************)
(* send_message, over connection c.  SendMessage and TrySendMessage differ *)
(* in what they do when the queue is full.                                 *)
(***************************************************************************)
Outgoing == [kind : {k \in Kinds : self \in Pids /\ k \in SentKinds[self]},
             pid : {self}, tid : {tid}, payload : Payloads]

sidx(c) == connections[self][c] - 2

Sends(c, m) ==
    /\ May("SendMessage") \/ May("TrySendMessage")
    /\ in_irq => ~Blocking(m)
    /\ connections[self][c] > TOMBSTONE

\* The server has no thread waiting.  A connection always leads to a server
\* (NoDanglingConnection), or the kernel would stop here.
Enqueue(c, m) ==
    /\ Sends(c, m)
    /\ LET q == servers[sidx(c)].q
       IN  /\ q.ready_threads = {} /\ CanDeliver(q, m) /\ EmptySlots(q) # {}
           /\ SetQueue(sidx(c), queue_message(q, m))
    /\ IF Blocking(m) THEN Block ELSE UNCHANGED sched
    /\ UNCHANGED <<threads, connections, handler>>

\* A thread of the server waits and is made ready; the client goes on.
HandOff(c, m) ==
    /\ Sends(c, m) /\ ~Blocking(m)
    /\ LET s == servers[sidx(c)]
       IN  /\ s.q.ready_threads # {} /\ CanDeliver(s.q, m)
           /\ SetQueue(sidx(c), take_available_thread(s.q))
           /\ Resume(ready_thread(procs, s.pid, AvailableThread(s.q)), self)
    /\ UNCHANGED <<switchto_caller, threads, connections, handler>>

\* A thread of the server waits and takes over the client's quantum.  When
\* queue_response finds no slot, the server has already been entered and the
\* client is not left; the thread goes back among the waiting ones.
HandOffBlocking(c, m) ==
    /\ Sends(c, m) /\ Blocking(m)
    /\ LET s     == servers[sidx(c)]
           t     == AvailableThread(s.q)
           woken == ready_thread(procs, s.pid, t)
       IN  /\ s.q.ready_threads # {} /\ CanDeliver(s.q, m)
           /\ IF EmptySlots(s.q) # {}
              THEN /\ SetQueue(sidx(c), queue_response(take_available_thread(s.q), m))
                   /\ Resume(activate_process_thread(woken, self, tid, s.pid, t, FALSE), s.pid)
              ELSE /\ SetQueue(sidx(c), return_available_thread(take_available_thread(s.q), t))
                   /\ Resume(IF s.pid = self THEN woken ELSE Enter(woken, s.pid, t), s.pid)
    /\ UNCHANGED <<switchto_caller, threads, connections, handler>>

\* ServerQueueFull: TrySendMessage reports it, SendMessage yields and makes
\* the same call again.  A thread that was taken is not given back.
IsFull(q, m) == ~CanDeliver(q, m) \/ (q.ready_threads = {} /\ EmptySlots(q) = {})

RetrySend(c, m) ==
    /\ Sends(c, m) /\ May("SendMessage")
    /\ LET q == servers[sidx(c)].q
       IN  IsFull(q, m) /\ SetQueue(sidx(c), take_available_thread(q))
    /\ do_yield
    /\ UNCHANGED <<threads, connections, handler>>

TrySendFails(c, m) ==
    /\ Sends(c, m) /\ May("TrySendMessage")
    /\ LET q == servers[sidx(c)].q
       IN  IsFull(q, m) /\ SetQueue(sidx(c), take_available_thread(q))
    /\ UNCHANGED <<sched, threads, connections, handler>>

(***************************************************************************)
(* Receiving, by the owner of server i.                                    *)
(***************************************************************************)
Owns(i) == servers[i].pid = self

\* sidx_from_sid finds the first server of the process with the address.
Finds(i) ==
    /\ Owns(i)
    /\ \A j \in Sidxs : Owns(j) /\ servers[j].sid = servers[i].sid => i <= j

Receive(i) ==
    /\ May("ReceiveMessage") \/ May("TryReceiveMessage")
    /\ Finds(i) /\ HasNextMessage(servers[i].q)
    /\ SetQueue(i, take_next_message(servers[i].q))
    /\ UNCHANGED <<sched, threads, connections, handler>>

\* Mutant: does not look for a message first.
WaitAnyway(i) ==
    /\ May("ReceiveMessage") /\ Finds(i)
    /\ SetQueue(i, park_thread(servers[i].q, tid))
    /\ Block
    /\ UNCHANGED <<threads, connections, handler>>

\* The thread is parked; park_thread asserts that it was not.
Wait(i) ==
    /\ May("ReceiveMessage")
    /\ Finds(i) /\ ~HasNextMessage(servers[i].q)
    /\ SetQueue(i, park_thread(servers[i].q, tid))
    /\ IF tid \in servers[i].q.ready_threads
       THEN Resume(Halt(procs, self), self) /\ UNCHANGED switchto_caller
       ELSE Block
    /\ UNCHANGED <<threads, connections, handler>>

(***************************************************************************)
(* return_memory and return_result: the reply for the token in slot k of   *)
(* server i.  The reply to a process that has terminated fails after the   *)
(* token is taken.                                                         *)
(***************************************************************************)
ReplyCall(e) == IF e.tag = "WaitingReturnScalar" THEN "ReturnScalar" ELSE "ReturnMemory"

Reply(i, k) ==
    /\ Owns(i) /\ IsWaiting(servers[i].q, k)
    /\ LET client == servers[i].q.queue[k]
       IN  /\ May(ReplyCall(client))
           /\ SetQueue(i, take_waiting_message(servers[i].q, k))
           /\ IF Alive(procs, client.pid)
              THEN /\ AnswerAndGoOn(ready_thread(procs, client.pid, client.tid), client)
                   /\ UNCHANGED switchto_caller
              ELSE UNCHANGED sched
    /\ UNCHANGED <<threads, connections, handler>>

\* The next message is taken, or the thread parked, before the reply is made,
\* and stays taken or parked when the reply fails.
ReplyAndReceiveNext(i, k) ==
    /\ May("ReplyAndReceiveNext")
    /\ Owns(i) /\ IsWaiting(servers[i].q, k)
    /\ LET client == servers[i].q.queue[k]
           q      == take_waiting_message(servers[i].q, k)
           woken  == ready_thread(procs, client.pid, client.tid)
       IN  /\ SetQueue(i, ReceiveNext(q, tid))
           /\ IF ~HasNextMessage(q) /\ tid \in q.ready_threads THEN Resume(Halt(procs, self), self)
              ELSE IF ~Alive(procs, client.pid) THEN Resume(procs, self)
              ELSE IF HasNextMessage(q) THEN AnswerAndGoOn(woken, client)
              ELSE Resume(activate_process_thread(woken, self, tid, client.pid, client.tid, FALSE),
                          client.pid)
    /\ UNCHANGED <<switchto_caller, threads, connections, handler>>

(***************************************************************************)
(* Threads.                                                                *)
(***************************************************************************)
\* find_free_thread goes round the table from the thread it found last.
FreeThreads(p) == Threads \ p.live
find_free_thread(p) == find_next_thread(FreeThreads(p), p.last - 1)

CreateThread ==
    /\ May("CreateThread") /\ FreeThreads(threads[self]) # {}
    /\ LET new == find_free_thread(threads[self])
       IN  /\ threads' = [threads EXCEPT ![self].live = @ \cup {new}, ![self].last = new]
           /\ Resume(switch_to_thread([procs EXCEPT ![self].ready = @ \cup {new}], self, new), self)
    /\ UNCHANGED <<switchto_caller, servers, connections, handler>>

Joiners(pid, t) ==
    {j \in threads[pid].live \ procs[pid].ready : threads[pid].joins[j] = t}

\* The first thread that joins the one that ends is woken; the process goes
\* on with its next ready thread, or sleeps.
Woken(pid, t) ==
    {j \in Joiners(pid, t) : \A u \in Joiners(pid, t) : j <= u}

\* Not a system call: the thread returns to the address EXIT_THREAD.
ExitThread ==
    /\ ~Panicked(procs) /\ ~handling_irq /\ self # KERNEL_PID /\ "ExitThread" \in Program[self]
    /\ LET woken == Woken(self, tid)
           rest  == procs[self].ready \cup woken
           ps    == Rest(procs, self, rest)
       IN  /\ threads' = [threads EXCEPT
                 ![self].live  = @ \ {tid},
                 ![self].joins = [t \in Threads |-> IF t \in woken \cup {tid} THEN 0 ELSE @[t]]]
           /\ IF rest = {}
              THEN Resume(switch_to_thread(ps, KERNEL_PID, ANY), KERNEL_PID) /\ switchto_caller' = NONE
              ELSE Resume(switch_to_thread(ps, self, ANY), self) /\ UNCHANGED switchto_caller
    /\ UNCHANGED <<servers, connections, handler>>

\* Joining a thread that is gone returns at once.
JoinThread(t) ==
    /\ May("JoinThread") /\ t # tid /\ t \in threads[self].live
    /\ threads' = [threads EXCEPT ![self].joins[tid] = t]
    /\ Resume(SwitchProcess(procs, self, tid, KERNEL_PID, ANY, FALSE), KERNEL_PID)
    /\ switchto_caller' = NONE
    /\ UNCHANGED <<servers, connections, handler>>

(***************************************************************************)
(* Connections and servers.                                                *)
(***************************************************************************)
Least(S) == CHOOSE x \in S : \A y \in S : x <= y

WithSid(sv, sid)       == {i \in Sidxs : sv[i].sid = sid}
Connected(cm, sv, sid) == \E c \in Conns : cm[c] > TOMBSTONE /\ cm[c] - 2 \in WithSid(sv, sid)
UnusedConns(cm)        == {c \in Conns : cm[c] = Unused}

\* The connection map after connect_to_server: as it was, if the process is
\* connected already or the call fails.
connect_to_server(cm, sv, sid) ==
    IF Connected(cm, sv, sid) \/ UnusedConns(cm) = {} \/ WithSid(sv, sid) = {} THEN cm
    ELSE [cm EXCEPT ![Least(UnusedConns(cm))] = Least(WithSid(sv, sid)) + 2]

Connect(sid) ==
    /\ May("Connect") \/ May("TryConnect")
    /\ ~Connected(connections[self], servers, sid) /\ WithSid(servers, sid) # {}
    /\ connections' = [connections EXCEPT ![self] = connect_to_server(@, servers, sid)]
    /\ UNCHANGED <<sched, threads, servers, handler>>

\* No such server: Connect yields and makes the same call again.
RetryConnect(sid) ==
    /\ May("Connect")
    /\ WithSid(servers, sid) = {} /\ UnusedConns(connections[self]) # {}
    /\ do_yield
    /\ UNCHANGED <<threads, servers, connections, handler>>

Disconnect(c) ==
    /\ May("Disconnect") /\ connections[self][c] # Unused
    /\ connections' = [connections EXCEPT ![self][c] = Unused]
    /\ UNCHANGED <<sched, threads, servers, handler>>

\* The server stays when its owner has no connection left for it.
FreeServers == {i \in Sidxs : servers[i] = NoServer}
CreateServer(sid) ==
    /\ May("CreateServer") /\ FreeServers # {}
    /\ LET sv == [servers EXCEPT ![Least(FreeServers)] = [pid |-> self, sid |-> sid, q |-> init]]
       IN  /\ servers' = sv
           /\ connections' = [connections EXCEPT ![self] = connect_to_server(@, sv, sid)]
    /\ UNCHANGED <<sched, threads, handler>>

\* The threads in W are made ready; any of them that cannot be stops the kernel.
\* Mutant: only those of processes that sleep are.
ReadySleepers(ps, W) ==
    [p \in Procs |->
        LET ts == {t \in Threads : <<p, t>> \in W}
        IN  IF ts # {} /\ ps[p].state = "Sleeping"
            THEN [ps[p] EXCEPT !.state = "Ready", !.ready = ts] ELSE ps[p]]
ReadyAll(ps, W) ==
    [p \in Procs |->
        LET ts == {t \in Threads : <<p, t>> \in W}
        IN  IF ts = {} THEN ps[p] ELSE
            CASE ps[p].state \in {"Ready", "Running"} /\ ts \cap ps[p].ready = {}
                   -> [ps[p] EXCEPT !.ready = @ \cup ts]
              [] ps[p].state = "Sleeping" -> [ps[p] EXCEPT !.state = "Ready", !.ready = ts]
              [] OTHER -> [ps[p] EXCEPT !.state = "Panic"]]

\* Process::activate for every process that is not free: set_current_pid panics
\* on one that has never run.  What the sweep did before that does not matter.
Unstarted == {p \in Pids : procs[p].state = "Setup"}
activate_each(ps) == IF Unstarted = {} THEN ps ELSE Halt(ps, self)

AwaitsReply(e) ==
    e.tag \in {"BlockingScalarMessage", "MemoryMessageROLend", "MemoryMessageRWLend"} \cup TerminatedTags

\* Mutant: leaves the connections of other processes alone.
ReplaceOwnConns(i, v) ==
    [p \in Pids |-> [c \in Conns |->
        IF p = self /\ connections[p][c] = i + 2 THEN v ELSE connections[p][c]]]
ReplaceConns(i, v) ==
    [p \in Pids |-> [c \in Conns |->
        IF Alive(procs, p) /\ connections[p][c] = i + 2 THEN v ELSE connections[p][c]]]

\* Refused while a reply is owed.  The senders of unread messages and the
\* threads that wait for one are woken, and the connections removed.
DestroyServer(i) ==
    /\ May("DestroyServer") /\ Finds(i) /\ CanDestroy(servers[i].q)
    /\ LET q == servers[i].q
           W == {<<e.pid, e.tid>> : e \in {f \in {q.queue[k] : k \in Slots} : AwaitsReply(f)}}
                    \cup {<<self, t>> : t \in q.ready_threads}
       IN  Resume(activate_each(ReadyAll(procs, W)), self)
    /\ servers' = [servers EXCEPT ![i] = NoServer]
    /\ connections' = ReplaceConns(i, Unused)
    /\ UNCHANGED <<switchto_caller, threads, handler>>

\* The connections after servers S are gone with process pid.
Tombstones(S, pid) ==
    [p \in Pids |-> [c \in Conns |->
        IF p = pid THEN Unused
        ELSE IF connections[p][c] - 2 \in S THEN TOMBSTONE ELSE connections[p][c]]]

(***************************************************************************)
(* The current process terminates.  If it has a server, the other          *)
(* processes are swept: their connections to it become tombstones.  Its    *)
(* servers are dropped with what is in their queues, and its messages in   *)
(* other queues are marked.                                                *)
(***************************************************************************)
TerminateProcess ==
    /\ May("TerminateProcess")
    /\ LET mine  == {i \in Sidxs : Owns(i)}
           ps    == unschedule_thread(IF mine = {} THEN procs ELSE activate_each(procs),
                                      self, tid)
           freed == [ps EXCEPT ![self] = IF Panicked(ps) THEN @ ELSE FreeProcess]
       IN  /\ servers' = [i \in Sidxs |->
                 IF i \in mine \/ servers[i] = NoServer THEN NoServer
                 ELSE [servers[i] EXCEPT !.q = discard_messages_for_pid(@, self)]]
           /\ connections' = Tombstones(mine, self)
           /\ Resume(switch_to_thread(freed, KERNEL_PID, ANY), KERNEL_PID)
    /\ switchto_caller' = NONE
    /\ threads' = [threads EXCEPT ![self] = NoThreads]
    /\ handler' = IF handler = self THEN NoPid ELSE handler

(***************************************************************************)
(* Interrupts.  They are off while a handler runs.                         *)
(***************************************************************************)
Interrupt ==
    /\ ~Panicked(procs) /\ ~handling_irq /\ handler # NoPid
    /\ procs' = make_callback_to(procs, self, handler)
    /\ current_pid' = handler
    /\ previous_pair' = IF in_irq THEN previous_pair ELSE <<self, tid>>
    /\ handling_irq' = TRUE
    /\ UNCHANGED <<switchto_caller, original, last_pid, threads, servers, connections, handler>>

\* Whoever calls it, the next handler to end returns to the kernel and not to
\* the interrupted thread.
ReturnToParent ==
    /\ May("ReturnToParent") /\ switchto_caller # NONE
    /\ previous_pair' = switchto_caller
    /\ switchto_caller' = NONE
    /\ UNCHANGED <<procs, current_pid, original, handling_irq, last_pid,
                   threads, servers, connections, handler>>

finish_isr ==
    /\ ~Panicked(procs) /\ handling_irq
    /\ procs' = finish_callback_and_resume(procs, self, previous_pair[1], previous_pair[2])
    /\ current_pid' = previous_pair[1]
    /\ previous_pair' = NONE
    /\ handling_irq' = FALSE
    /\ UNCHANGED <<switchto_caller, original, last_pid, threads, servers, connections, handler>>

ClaimInterrupt ==
    /\ May("ClaimInterrupt") /\ handler = NoPid
    /\ handler' = self
    /\ UNCHANGED <<sched, threads, servers, connections>>

FreeInterrupt ==
    /\ May("FreeInterrupt") /\ handler = self
    /\ handler' = NoPid
    /\ UNCHANGED <<sched, threads, servers, connections>>

-----------------------------------------------------------------------------
Send ==
    \E c \in Conns : \E m \in Outgoing :
        \/ Enqueue(c, m) \/ HandOff(c, m) \/ HandOffBlocking(c, m)
        \/ RetrySend(c, m) \/ TrySendFails(c, m)

Serve ==
    \E i \in Sidxs :
        \/ Receive(i) \/ Wait(i) \/ DestroyServer(i)
        \/ \E k \in Slots : Reply(i, k) \/ ReplyAndReceiveNext(i, k)

Next ==
    \/ SwitchTo \/ Idle \/ Yield
    \/ Send \/ Serve
    \/ CreateThread \/ ExitThread \/ (\E t \in Threads : JoinThread(t))
    \/ \E sid \in SIDs : CreateServer(sid) \/ Connect(sid) \/ RetryConnect(sid)
    \/ \E c \in Conns : Disconnect(c)
    \/ TerminateProcess
    \/ Interrupt \/ ReturnToParent \/ finish_isr \/ ClaimInterrupt \/ FreeInterrupt

Spec == Init /\ [][Next]_vars

\* The timer keeps ticking and its handler always asks for the kernel and
\* always ends; it leaves the kernel time to switch between two ticks.
\* Nothing is assumed of the processes: they may compute for ever.
Fairness ==
    /\ WF_vars(Interrupt) /\ SF_vars(ReturnToParent) /\ WF_vars(finish_isr)
    /\ SF_vars(SwitchTo)

FairSpec == Spec /\ Fairness
-----------------------------------------------------------------------------
(***************************************************************************)
(* Properties.                                                             *)
(***************************************************************************)
\* The tables hold what their declarations in services.rs allow.
KernelTypeOK ==
    /\ procs \in [Procs -> Process]
    /\ threads \in [Pids -> [live : SUBSET Threads, joins : [Threads -> Tids], last : Tids]]
    /\ servers \in [Sidxs -> [pid : Pids, sid : SIDs, q : ServerRecord] \cup {NoServer}]
    /\ connections \in [Pids -> [Conns -> 0 .. NumServers + 1]]
    /\ handling_irq \in BOOLEAN
    /\ current_pid \in Procs /\ handler \in Pids \cup {NoPid}
    /\ \A pair \in {switchto_caller, previous_pair} : pair = NONE \/ pair \in Procs \X Threads

\* None of the assertions and panics of services.rs, server.rs and main.rs on
\* the scheduler's state can be reached.
NoPanic == ~Panicked(procs)

\* The process that has the processor is Running and no other is, whatever
\* message, reply, exit or interrupt moved the processor there.
OneRunning == \A p \in Procs : procs[p].state = "Running" <=> p = current_pid

\* Where thread t of process p is: on the processor, ready, parked in a server,
\* waiting for a reply, or waiting for another thread to end.
Places(p, t) ==
    {x \in {<<"running", 0, 0>>} : p = current_pid /\ procs[p].current = t}
    \cup {x \in {<<"ready", 0, 0>>} : t \in procs[p].ready}
    \cup {x \in {<<"joins", 0, 0>>} : threads[p].joins[t] # 0}
    \cup {<<"parked", i, 0>> : i \in {j \in Sidxs : servers[j].pid = p /\ t \in servers[j].q.ready_threads}}
    \cup {<<"client", x[1], x[2]>> : x \in {y \in Sidxs \X Slots :
            LET e == servers[y[1]].q.queue[y[2]]
            IN  ~IsEmpty(e) /\ e.pid = p /\ e.tid = t /\ (AwaitsReply(e) \/ is_in_server(e))}}

\* Every live thread is in exactly one of these places: none is lost, so that
\* nothing would ever wake it, and none can be woken or run twice.
EachThreadInOnePlace ==
    \A p \in Pids : procs[p].state \notin {"Free", "Setup"} =>
        \A t \in threads[p].live : Cardinality(Places(p, t)) = 1

\* What every step of the kernel keeps: nothing panics, one process runs, and
\* each thread is where exactly one thing will wake it.
KernelSound == KernelTypeOK /\ NoPanic /\ OneRunning /\ EachThreadInOnePlace

\* A connection that is neither unused nor a tombstone leads to a server, and a
\* server belongs to a process that is alive: send_message unwraps both.
NoDanglingConnection ==
    /\ \A p \in Pids, c \in Conns :
          connections[p][c] > TOMBSTONE => servers[connections[p][c] - 2] # NoServer
    /\ \A i \in Sidxs : servers[i] # NoServer => Alive(procs, servers[i].pid)

\* A thread that is ready runs at last, whatever the other threads and
\* processes do: kmain and find_next_thread each go round, and messages that
\* carry the processor from thread to thread do not defeat them.
EveryReadyThreadRuns ==
    \A p \in Pids : \A t \in Threads : t \in procs[p].ready ~> t \notin procs[p].ready

(***************************************************************************)
(* Each server's queue is the one of module ServerQueue, between the call  *)
(* that creates the server and the one that drops it.                      *)
(***************************************************************************)
Queue(i) == INSTANCE ServerQueue WITH server <- servers[i].q

\* What the calls do to a server's queue is what ServerQueue allows, so that
\* what is proved of one queue holds of every server of the kernel.
QueueStep ==
    \A i \in Sidxs :
        \/ Queue(i)!Next \/ servers'[i].q = servers[i].q
        \/ servers'[i].pid # servers[i].pid /\ servers'[i].q = init
QueuesFollowServerQueue == [][QueueStep]_servers
=============================================================================
