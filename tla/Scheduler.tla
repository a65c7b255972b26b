----------------------------- MODULE Scheduler ------------------------------
(***************************************************************************)
(* The process table of the kernel and the operations of SystemServices,   *)
(* in kernel/src/services.rs, that decide which thread runs.  They are     *)
(* operators from a process table ps to the next one.                      *)
(*                                                                         *)
(* A process is `state`, the threads that are `ready` to run (the bit mask *)
(* of ProcessState::Ready and ProcessState::Running) and its `current`     *)
(* thread.  Where the code panics or an assertion fails on a process, its  *)
(* state becomes "Panic"; the operators leave it there and the kernel      *)
(* stops.                                                                  *)
(***************************************************************************)
EXTENDS Platform, Integers, FiniteSets

KERNEL_PID  == 1
IRQ_TID     == 0
INITIAL_TID == 2

ASSUME SchedulerAssumption ==
    /\ Pids \subseteq Nat \ {0, KERNEL_PID}
    /\ Tids \subseteq Nat
    /\ {IRQ_TID, INITIAL_TID} \subseteq Tids

Procs   == Pids \cup {KERNEL_PID}
Threads == Tids \ {IRQ_TID}

\* "Any thread will do": SwitchTo passes 0 for the thread.
ANY == 0

States  == {"Free", "Setup", "Ready", "Running", "Sleeping", "Panic"}
Process == [state : States, ready : SUBSET Threads, current : Tids]

FreeProcess  == [state |-> "Free",  ready |-> {}, current |-> INITIAL_TID]
SetupProcess == [state |-> "Setup", ready |-> {}, current |-> INITIAL_TID]
NewProcess   == [state |-> "Ready", ready |-> {INITIAL_TID}, current |-> INITIAL_TID]

Halt(ps, pid)  == [ps EXCEPT ![pid].state = "Panic"]
Panicked(ps)   == \E pid \in Procs : ps[pid].state = "Panic"

\* Mutant: a process that has terminated is taken for one that is there.
AliveAlways(ps, pid) == TRUE
Alive(ps, pid) == ps[pid].state # "Free"

\* Process pid with `threads` ready and none running.  There is no Ready(0).
Rest(ps, pid, threads) ==
    [ps EXCEPT ![pid].state = IF threads = {} THEN "Sleeping" ELSE "Ready",
               ![pid].ready = threads]

\* Process pid running tid, with `threads` ready besides.
Run(ps, pid, tid, threads) ==
    [ps EXCEPT ![pid] = [state |-> "Running", ready |-> threads \ {tid}, current |-> tid]]

\* The round-robin choice: the next ready thread above `current`, or the first.
find_next_thread(threads, current) ==
    LET above  == {t \in threads : t > current}
        choice == IF above = {} THEN threads ELSE above
    IN  CHOOSE t \in choice : \A u \in choice : t <= u

\* ProcessNotFound unless Alive(ps, pid).
ready_thread(ps, pid, tid) ==
    CASE ps[pid].state \in {"Ready", "Running"} /\ tid \notin ps[pid].ready
           -> [ps EXCEPT ![pid].ready = @ \cup {tid}]
      [] ps[pid].state = "Sleeping" -> Rest(ps, pid, {tid})
      [] OTHER -> Halt(ps, pid)

unschedule_thread(ps, pid, tid) ==
    IF ps[pid].state = "Running" /\ tid \notin ps[pid].ready
    THEN Rest(ps, pid, ps[pid].ready)
    ELSE Halt(ps, pid)

\* Where the round robin of a process goes on when its quantum is over.
\* Mutant: it goes on from the thread that ran last.
KeepLastThread(ps, pid, tid) ==
    IF ps[pid].state = "Running" THEN Halt(ps, pid) ELSE ps
set_last_thread(ps, pid, tid) ==
    CASE ps[pid].state = "Running" -> Halt(ps, pid)
      [] ps[pid].state = "Ready" /\ tid \in ps[pid].ready -> [ps EXCEPT ![pid].current = tid]
      [] OTHER -> ps

\* The callers make sure that the process has the thread ready, so the errors
\* for a process that cannot be switched to are failures of the kernel.
switch_to_thread(ps, pid, tid) ==
    LET p       == ps[pid]
        threads == p.ready \cup (IF p.state = "Running" THEN {p.current} ELSE {})
        new     == IF tid = ANY THEN find_next_thread(threads, p.current) ELSE tid
    IN  IF p.state \in {"Ready", "Running"} /\ new \in threads
        THEN Run(ps, pid, new, threads)
        ELSE Halt(ps, pid)

(***************************************************************************)
(* activate_process_thread, from thread tid of process cur to thread new   *)
(* of process pid, and within process pid.  A thread that cannot resume    *)
(* is left out of the ready threads.                                       *)
(***************************************************************************)
\* Otherwise the call returns an error and has changed nothing.
CanActivate(ps, pid, new) ==
    \/ ps[pid].state \in {"Setup", "Running", "Panic"}
    \/ ps[pid].state = "Ready" /\ (new = ANY \/ new \in ps[pid].ready)

\* The first half: the new process runs.
Enter(ps, pid, new) ==
    CASE ps[pid].state = "Setup" -> Run(ps, pid, INITIAL_TID, {})
      [] ps[pid].state = "Ready" ->
            Run(ps, pid, IF new = ANY THEN find_next_thread(ps[pid].ready, ps[pid].current)
                                      ELSE new, ps[pid].ready)
      [] OTHER -> Halt(ps, pid)

\* The second half: the process that ran no longer does.
Leave(ps, cur, tid, can_resume) ==
    IF ps[cur].state = "Running"
    THEN [Rest(ps, cur, ps[cur].ready \cup (IF can_resume THEN {tid} ELSE {}))
              EXCEPT ![cur].current = tid]
    ELSE Halt(ps, cur)

SwitchProcess(ps, cur, tid, pid, new, can_resume) ==
    IF CanActivate(ps, pid, new)
    THEN Leave(Enter(ps, pid, new), cur, tid, can_resume)
    ELSE ps

SwitchThread(ps, pid, tid, new) ==
    LET p == ps[pid]
    IN  IF p.state # "Running" \/ p.current \in p.ready \/ new = tid THEN Halt(ps, pid)
        ELSE IF new \in p.ready THEN Run(ps, pid, new, p.ready)
        ELSE ps

activate_process_thread(ps, cur, tid, pid, new, can_resume) ==
    IF pid = cur THEN SwitchThread(ps, pid, tid, new)
                 ELSE SwitchProcess(ps, cur, tid, pid, new, can_resume)

(***************************************************************************)
(* Interrupts: a handler runs as the IRQ thread of its process.            *)
(***************************************************************************)
make_callback_to(ps, cur, pid) ==
    LET interrupted == IF ps[cur].state = "Running"
                       THEN Rest(ps, cur, ps[cur].ready \cup {ps[cur].current})
                       ELSE Halt(ps, cur)
    IN  IF interrupted[pid].state \in {"Ready", "Running", "Sleeping"}
        THEN Run(interrupted, pid, IRQ_TID, interrupted[pid].ready)
        ELSE Halt(interrupted, pid)

finish_callback_and_resume(ps, cur, pid, tid) ==
    LET finished == IF ps[cur].state = "Running"
                    THEN Rest(ps, cur, ps[cur].ready) ELSE Halt(ps, cur)
    IN  IF finished[pid].state = "Ready" /\ tid \in finished[pid].ready
        THEN Run(finished, pid, tid, finished[pid].ready)
        ELSE Halt(finished, pid)

(***************************************************************************)
(* kmain picks processes in the order of their numbers.                    *)
(***************************************************************************)
Runnable(ps) == {pid \in Pids : ps[pid].state \in {"Setup", "Ready"}}
next_pid_to_run(ps, last) ==
    LET after  == {p \in Runnable(ps) : p > last}
        choice == IF after = {} THEN Runnable(ps) ELSE after
    IN  CHOOSE p \in choice : \A q \in choice : p <= q
=============================================================================
