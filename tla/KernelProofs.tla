---------------------------- MODULE KernelProofs ----------------------------
(***************************************************************************)
(* Proofs about the kernel, for any processes and threads, any servers,    *)
(* slots and connections, any programs of the processes and any behaviour  *)
(* of the interrupt handler.  In order: what each operation of the         *)
(* scheduler does to the process table, the inductive invariant KInv, what *)
(* each call does to a queue, to the scheduler and to the tables, one      *)
(* lemma per action, the steps as steps of ServerQueue; then the second    *)
(* invariant, PInv, which says where each thread is, again with one lemma  *)
(* per action; the theorems.                                               *)
(***************************************************************************)
EXTENDS Kernel, ServerProofs

-----------------------------------------------------------------------------
(***************************************************************************)
(* The process table.                                                      *)
(***************************************************************************)
\* A process that is Ready has a thread to run, and the kernel never sleeps.
TableOK(ps) ==
    /\ ps \in [Procs -> Process]
    /\ \A p \in Procs : ps[p].state = "Ready" => ps[p].ready # {}
    /\ ps[KERNEL_PID].state \in {"Ready", "Running", "Panic"}

RunsThread(ps, p) == ps[p].state = "Running" => ps[p].current \in Threads

\* What the operations of the scheduler do: no process is freed, none begins
\* to run the thread of interrupts, and none but those in X begins to run.
Moves(ps, qs, X) ==
    /\ TableOK(qs)
    /\ \A p \in Procs : /\ Alive(ps, p) => Alive(qs, p)
                        /\ RunsThread(ps, p) => RunsThread(qs, p)
                        /\ qs[p].state = "Running" => p \in X \/ ps[p].state = "Running"

\* Process p got the processor, or was halted; process p lost it.
Ran(ps, qs, p) ==
    /\ Moves(ps, qs, {p})
    /\ \A r \in Procs : r # p => qs[r] = ps[r]
    /\ qs[p].state \in {"Running", "Panic"}
Stopped(ps, qs, p) ==
    /\ Moves(ps, qs, {})
    /\ \A r \in Procs : r # p => qs[r] = ps[r]
    /\ qs[p].state # "Running"

LEMMA MovesTransitive ==
    ASSUME NEW ps, NEW qs, NEW rs, NEW X, NEW Y, Moves(ps, qs, X), Moves(qs, rs, Y)
    PROVE  Moves(ps, rs, X \cup Y)
  BY DEF Moves

LEMMA MovesNowhere ==
    ASSUME NEW ps, TableOK(ps), NEW X
    PROVE  Moves(ps, ps, X)
  BY DEF Moves

\* Every operation but one changes one process.
Fits(p, v) ==
    /\ v.state # "Free"
    /\ v.state = "Ready" => v.ready # {}
    /\ v.state = "Running" => v.current \in Threads
    /\ p = KERNEL_PID => v.state \in {"Ready", "Running", "Panic"}

LEMMA OneMoves ==
    ASSUME NEW ps, TableOK(ps), NEW p \in Procs, NEW v \in Process, Fits(p, v)
    PROVE  Moves(ps, [ps EXCEPT ![p] = v], {p})
<1> DEFINE qs == [ps EXCEPT ![p] = v]
<1>1. qs \in [Procs -> Process]
  BY DEF TableOK
<1>2. \A r \in Procs : qs[r] = IF r = p THEN v ELSE ps[r]
  BY DEF TableOK
<1>3. KERNEL_PID \in Procs
  BY DEF Procs
<1> HIDE DEF qs
<1>4. TableOK(qs)
  BY <1>1, <1>2, <1>3 DEF TableOK, Fits
<1>5. Moves(ps, qs, {p})
  BY <1>2, <1>4 DEF Fits, Moves, Alive, RunsThread
<1> QED
  BY <1>5 DEF qs

LEMMA NumbersOfThreads ==
    /\ Threads \subseteq Nat /\ Threads \subseteq Tids /\ IRQ_TID \notin Threads
    /\ IRQ_TID \in Tids /\ INITIAL_TID \in Threads
    /\ KERNEL_PID \in Procs /\ KERNEL_PID \notin Pids /\ Pids \subseteq Procs
    /\ NoPid \notin Procs /\ Procs \subseteq Nat
  BY SchedulerAssumption DEF Threads, Procs, IRQ_TID, INITIAL_TID, KERNEL_PID, NoPid

LEMMA HaltMoves ==
    ASSUME NEW ps, TableOK(ps), NEW p
    PROVE  /\ Moves(ps, Halt(ps, p), {})
           /\ p \in Procs => Halt(ps, p)[p].state = "Panic"
           /\ \A r \in Procs : r # p => Halt(ps, p)[r] = ps[r]
<1> DEFINE v == [ps[p] EXCEPT !.state = "Panic"]
<1>1. CASE p \in Procs
  <2>1. v \in Process /\ v.state = "Panic"
    BY <1>1 DEF TableOK, Process, States
  <2>2. Halt(ps, p) = [ps EXCEPT ![p] = v]
    BY DEF Halt
  <2> HIDE DEF v
  <2>3. Fits(p, v)
    BY <2>1 DEF Fits
  <2>4. Moves(ps, [ps EXCEPT ![p] = v], {p})
    BY <1>1, <2>1, <2>3, OneMoves
  <2>5. Moves(ps, Halt(ps, p), {p})
    BY <2>2, <2>4
  <2>6. Halt(ps, p)[p] = v /\ \A r \in Procs : r # p => Halt(ps, p)[r] = ps[r]
    BY <1>1, <2>2 DEF TableOK
  <2> QED
    BY <2>1, <2>5, <2>6 DEF Moves
<1>2. CASE p \notin Procs
  <2>1. Halt(ps, p) = ps
    BY <1>2 DEF Halt, TableOK
  <2> QED
    BY <1>2, <2>1, MovesNowhere
<1> QED
  BY <1>1, <1>2

LEMMA HaltStops ==
    ASSUME NEW ps, TableOK(ps), NEW p \in Procs
    PROVE  Ran(ps, Halt(ps, p), p) /\ Stopped(ps, Halt(ps, p), p)
  BY HaltMoves DEF Ran, Stopped, Moves

LEMMA RestMoves ==
    ASSUME NEW ps, TableOK(ps), NEW p \in Procs, NEW ts \in SUBSET Threads,
           p = KERNEL_PID => ts # {}
    PROVE  /\ Moves(ps, Rest(ps, p, ts), {})
           /\ Rest(ps, p, ts)[p].state = IF ts = {} THEN "Sleeping" ELSE "Ready"
           /\ Rest(ps, p, ts)[p].ready = ts
           /\ Rest(ps, p, ts)[p].current = ps[p].current
           /\ \A r \in Procs : r # p => Rest(ps, p, ts)[r] = ps[r]
<1> DEFINE v == [ps[p] EXCEPT !.state = IF ts = {} THEN "Sleeping" ELSE "Ready", !.ready = ts]
<1>1. /\ v \in Process /\ v.ready = ts /\ v.current = ps[p].current
      /\ v.state = IF ts = {} THEN "Sleeping" ELSE "Ready"
  BY DEF TableOK, Process, States
<1>2. Rest(ps, p, ts) = [ps EXCEPT ![p] = v]
  BY DEF Rest, TableOK
<1> HIDE DEF v
<1>3. Fits(p, v)
  BY <1>1 DEF Fits
<1>4. Moves(ps, [ps EXCEPT ![p] = v], {p})
  BY <1>1, <1>3, OneMoves
<1>5. Moves(ps, Rest(ps, p, ts), {p})
  BY <1>2, <1>4
<1>6. Rest(ps, p, ts)[p] = v /\ \A r \in Procs : r # p => Rest(ps, p, ts)[r] = ps[r]
  BY <1>2 DEF TableOK
<1> QED
  BY <1>1, <1>5, <1>6 DEF Moves

LEMMA RunMoves ==
    ASSUME NEW ps, TableOK(ps), NEW p \in Procs, NEW t \in Threads, NEW ts \in SUBSET Threads
    PROVE  Ran(ps, Run(ps, p, t, ts), p)
<1> DEFINE v == [state |-> "Running", ready |-> ts \ {t}, current |-> t]
<1>1. v \in Process /\ v.state = "Running" /\ v.current = t
  BY NumbersOfThreads DEF Process, States
<1>2. Run(ps, p, t, ts) = [ps EXCEPT ![p] = v]
  BY DEF Run
<1> HIDE DEF v
<1>3. Fits(p, v)
  BY <1>1 DEF Fits
<1>4. Moves(ps, [ps EXCEPT ![p] = v], {p})
  BY <1>1, <1>3, OneMoves
<1>5. Run(ps, p, t, ts)[p] = v /\ \A r \in Procs : r # p => Run(ps, p, t, ts)[r] = ps[r]
  BY <1>2 DEF TableOK
<1> QED
  BY <1>1, <1>2, <1>4, <1>5 DEF Ran

\* The search for the next thread ends in the set it searches.
LEMMA NextThreadFound ==
    ASSUME NEW ts \in SUBSET Nat, ts # {}, NEW c
    PROVE  find_next_thread(ts, c) \in ts
<1> DEFINE choice == IF {t \in ts : t > c} = {} THEN ts ELSE {t \in ts : t > c}
<1>1. choice \in SUBSET Nat /\ choice # {} /\ choice \subseteq ts
  OBVIOUS
<1>2. find_next_thread(ts, c) = CHOOSE t \in choice : \A u \in choice : t <= u
  BY DEF find_next_thread
<1> HIDE DEF choice
<1>3. \E t \in choice : \A u \in choice : t <= u
  BY <1>1, LeastNatural
<1> QED
  BY <1>1, <1>2, <1>3

LEMMA ReadyThreadMoves ==
    ASSUME NEW ps, TableOK(ps), NEW p \in Procs, NEW t \in Threads
    PROVE  LET qs == ready_thread(ps, p, t)
           IN  /\ Moves(ps, qs, {})
               /\ \A r \in Procs : r # p => qs[r] = ps[r]
               /\ \/ qs[p].state = "Panic"
                  \/ /\ qs[p].state = (IF ps[p].state = "Running" THEN "Running" ELSE "Ready")
                     /\ t \in qs[p].ready
<1> DEFINE v == [ps[p] EXCEPT !.ready = @ \cup {t}]
<1>1. CASE ps[p].state \in {"Ready", "Running"} /\ t \notin ps[p].ready
  <2>1. /\ v \in Process /\ v.state = ps[p].state /\ v.current = ps[p].current
        /\ v.ready = ps[p].ready \cup {t}
    BY DEF TableOK, Process
  <2>2. ready_thread(ps, p, t) = [ps EXCEPT ![p] = v]
    BY <1>1 DEF ready_thread
  <2> HIDE DEF v
  <2> DEFINE qs == ready_thread(ps, p, t)
  <2>3. qs \in [Procs -> Process] /\ \A r \in Procs : qs[r] = IF r = p THEN v ELSE ps[r]
    BY <2>1, <2>2 DEF TableOK
  <2> HIDE DEF qs
  <2>4. TableOK(qs)
    BY <2>1, <2>3, NumbersOfThreads DEF TableOK
  <2>5. Moves(ps, qs, {})
    BY <2>1, <2>3, <2>4 DEF Moves, RunsThread, Alive
  <2> QED
    BY <1>1, <2>1, <2>3, <2>5 DEF qs
<1>2. CASE ps[p].state = "Sleeping"
  <2>1. ready_thread(ps, p, t) = Rest(ps, p, {t})
    BY <1>2 DEF ready_thread
  <2>2. {t} \in SUBSET Threads /\ {t} # {}
    OBVIOUS
  <2> QED
    BY <1>2, <2>1, <2>2, RestMoves
<1>3. CASE ~(ps[p].state \in {"Ready", "Running"} /\ t \notin ps[p].ready) /\ ps[p].state # "Sleeping"
  <2>1. ready_thread(ps, p, t) = Halt(ps, p)
    BY <1>3 DEF ready_thread
  <2> QED
    BY <2>1, HaltMoves
<1> QED
  BY <1>1, <1>2, <1>3

LEMMA UnscheduleMoves ==
    ASSUME NEW ps, TableOK(ps), NEW p \in Procs, p # KERNEL_PID, NEW t
    PROVE  Stopped(ps, unschedule_thread(ps, p, t), p)
<1>1. ps[p].ready \in SUBSET Threads
  BY DEF TableOK, Process
<1>2. unschedule_thread(ps, p, t) = Rest(ps, p, ps[p].ready) \/ unschedule_thread(ps, p, t) = Halt(ps, p)
  BY DEF unschedule_thread
<1>3. Stopped(ps, Rest(ps, p, ps[p].ready), p)
  BY <1>1, RestMoves DEF Stopped
<1> QED
  BY <1>2, <1>3, HaltStops

LEMMA SetLastMoves ==
    ASSUME NEW ps, TableOK(ps), NEW p, NEW t
    PROVE  LET qs == set_last_thread(ps, p, t)
           IN  /\ Moves(ps, qs, {})
               /\ \A r \in Procs : qs[r].state \in {ps[r].state, "Panic"}
<1> DEFINE qs == set_last_thread(ps, p, t)
<1>1. CASE ps[p].state = "Running"
  <2>1. qs = Halt(ps, p)
    BY <1>1 DEF set_last_thread
  <2> QED
    BY <2>1, HaltMoves
<1>2. CASE ps[p].state = "Ready" /\ t \in ps[p].ready
  <2>1. qs = [ps EXCEPT ![p].current = t]
    BY <1>2 DEF set_last_thread
  <2>2. CASE p \in Procs
    <3>1. t \in Tids
      BY <1>2, <2>2, NumbersOfThreads DEF TableOK, Process
    <3>2. /\ qs \in [Procs -> Process]
          /\ \A r \in Procs : qs[r].state = ps[r].state /\ qs[r].ready = ps[r].ready
          /\ \A r \in Procs : r # p => qs[r] = ps[r]
      BY <2>1, <2>2, <3>1 DEF TableOK, Process
    <3> HIDE DEF qs
    <3>3. TableOK(qs)
      BY <3>2, NumbersOfThreads DEF TableOK
    <3>4. Moves(ps, qs, {})
      BY <1>2, <3>2, <3>3 DEF Moves, RunsThread, Alive
    <3> QED
      BY <3>2, <3>4 DEF qs
  <2>3. CASE p \notin Procs
    <3>1. qs = ps
      BY <2>1, <2>3 DEF TableOK
    <3> QED
      BY <3>1, MovesNowhere
  <2> QED
    BY <2>2, <2>3
<1>3. CASE ps[p].state # "Running" /\ ~(ps[p].state = "Ready" /\ t \in ps[p].ready)
  <2>1. qs = ps
    BY <1>3 DEF set_last_thread
  <2> QED
    BY <2>1, MovesNowhere
<1> QED
  BY <1>1, <1>2, <1>3

LEMMA SwitchToThreadMoves ==
    ASSUME NEW ps, TableOK(ps), NEW p \in Procs, RunsThread(ps, p), NEW t
    PROVE  Ran(ps, switch_to_thread(ps, p, t), p)
<1> DEFINE ts  == ps[p].ready \cup (IF ps[p].state = "Running" THEN {ps[p].current} ELSE {})
           new == IF t = ANY THEN find_next_thread(ts, ps[p].current) ELSE t
<1>1. ts \in SUBSET Threads
  BY DEF TableOK, Process, RunsThread
<1>2. \/ new \in ts /\ switch_to_thread(ps, p, t) = Run(ps, p, new, ts)
      \/ switch_to_thread(ps, p, t) = Halt(ps, p)
  BY DEF switch_to_thread
<1> HIDE DEF ts, new
<1>3. new \in ts => Ran(ps, Run(ps, p, new, ts), p)
  BY <1>1, RunMoves
<1> QED
  BY <1>2, <1>3, HaltStops

\* activate_process_thread: the new process runs, and the old one does not.
LEMMA EnterMoves ==
    ASSUME NEW ps, TableOK(ps), NEW p \in Procs, NEW new, CanActivate(ps, p, new)
    PROVE  Ran(ps, Enter(ps, p, new), p)
<1>1. CASE ps[p].state = "Setup"
  <2>1. Enter(ps, p, new) = Run(ps, p, INITIAL_TID, {})
    BY <1>1 DEF Enter
  <2>2. Ran(ps, Run(ps, p, INITIAL_TID, {}), p)
    BY RunMoves, NumbersOfThreads
  <2> QED
    BY <2>1, <2>2
<1>2. CASE ps[p].state = "Ready"
  <2> DEFINE t == IF new = ANY THEN find_next_thread(ps[p].ready, ps[p].current) ELSE new
  <2>1. Enter(ps, p, new) = Run(ps, p, t, ps[p].ready)
    BY <1>2 DEF Enter
  <2>2. ps[p].ready \in SUBSET Threads /\ ps[p].ready # {} /\ ps[p].ready \in SUBSET Nat
    BY <1>2, NumbersOfThreads DEF TableOK, Process
  <2>3. t \in Threads
    BY <1>2, <2>2, NextThreadFound DEF CanActivate
  <2> HIDE DEF t
  <2>4. Ran(ps, Run(ps, p, t, ps[p].ready), p)
    BY <2>2, <2>3, RunMoves
  <2> QED
    BY <2>1, <2>4
<1>3. CASE ps[p].state \notin {"Setup", "Ready"}
  <2>1. Enter(ps, p, new) = Halt(ps, p)
    BY <1>3 DEF Enter
  <2> QED
    BY <2>1, HaltStops
<1> QED
  BY <1>1, <1>2, <1>3

LEMMA LeaveMoves ==
    ASSUME NEW ps, TableOK(ps), NEW p \in Procs, NEW t \in Threads, NEW can_resume \in BOOLEAN,
           p = KERNEL_PID => can_resume
    PROVE  Stopped(ps, Leave(ps, p, t, can_resume), p)
<1>1. CASE ps[p].state = "Running"
  <2> DEFINE ts == ps[p].ready \cup (IF can_resume THEN {t} ELSE {})
             qs == Rest(ps, p, ts)
             rs == [qs EXCEPT ![p].current = t]
  <2>1. Leave(ps, p, t, can_resume) = rs
    BY <1>1 DEF Leave
  <2>2. ts \in SUBSET Threads /\ (p = KERNEL_PID => ts # {})
    BY DEF TableOK, Process
  <2> HIDE DEF ts
  <2>3. /\ Moves(ps, qs, {})
        /\ qs[p].state \in {"Sleeping", "Ready"}
        /\ \A r \in Procs : r # p => qs[r] = ps[r]
    BY <2>2, RestMoves
  <2> HIDE DEF qs
  <2>4. /\ rs \in [Procs -> Process]
        /\ \A r \in Procs : rs[r].state = qs[r].state /\ rs[r].ready = qs[r].ready
        /\ \A r \in Procs : r # p => rs[r] = qs[r]
    BY <2>3, NumbersOfThreads DEF Moves, TableOK, Process
  <2> HIDE DEF rs
  <2>5. TableOK(rs)
    BY <2>3, <2>4, NumbersOfThreads DEF Moves, TableOK
  <2>6. Moves(ps, rs, {})
    BY <2>3, <2>4, <2>5 DEF Moves, RunsThread, Alive
  <2> QED
    BY <2>1, <2>3, <2>4, <2>6 DEF Stopped
<1>2. CASE ps[p].state # "Running"
  <2>1. Leave(ps, p, t, can_resume) = Halt(ps, p)
    BY <1>2 DEF Leave
  <2> QED
    BY <2>1, HaltStops
<1> QED
  BY <1>1, <1>2

\* From process cur to process p.
Switched(ps, qs, cur, p) ==
    /\ Moves(ps, qs, {p})
    /\ \A r \in Procs : r \notin {p, cur} => qs[r] = ps[r]
    /\ qs[p].state \in {"Running", "Panic"}
    /\ p # cur => qs[cur].state # "Running"

LEMMA SwitchProcessMoves ==
    ASSUME NEW ps, TableOK(ps), NEW cur \in Procs, NEW t \in Threads, NEW p \in Procs, p # cur,
           NEW new, CanActivate(ps, p, new),
           NEW can_resume \in BOOLEAN, cur = KERNEL_PID => can_resume
    PROVE  Switched(ps, SwitchProcess(ps, cur, t, p, new, can_resume), cur, p)
<1> DEFINE es == Enter(ps, p, new)
           qs == Leave(es, cur, t, can_resume)
<1>1. SwitchProcess(ps, cur, t, p, new, can_resume) = qs
  BY DEF SwitchProcess
<1>2. Ran(ps, es, p) /\ TableOK(es)
  BY EnterMoves DEF Ran, Moves
<1> HIDE DEF es
<1>3. Stopped(es, qs, cur)
  BY <1>2, LeaveMoves
<1> HIDE DEF qs
<1>4. Moves(ps, qs, {p})
  BY <1>2, <1>3 DEF Ran, Stopped, Moves
<1> QED
  BY <1>1, <1>2, <1>3, <1>4 DEF Ran, Stopped, Switched

LEMMA ActivateMoves ==
    ASSUME NEW ps, TableOK(ps), NEW cur \in Procs, cur # KERNEL_PID, NEW t \in Threads,
           NEW p \in Procs, NEW new, CanActivate(ps, p, new),
           p = cur => ps[p].state \in {"Running", "Panic"}
    PROVE  Switched(ps, activate_process_thread(ps, cur, t, p, new, FALSE), cur, p)
<1> DEFINE qs == activate_process_thread(ps, cur, t, p, new, FALSE)
<1>1. CASE p # cur
  <2>1. qs = SwitchProcess(ps, cur, t, p, new, FALSE)
    BY <1>1 DEF activate_process_thread
  <2>2. Switched(ps, SwitchProcess(ps, cur, t, p, new, FALSE), cur, p)
    BY <1>1, SwitchProcessMoves
  <2> QED
    BY <2>1, <2>2
<1>2. CASE p = cur
  <2>1. \/ qs = Halt(ps, p)
        \/ new \in ps[p].ready /\ qs = Run(ps, p, new, ps[p].ready)
        \/ qs = ps
    BY <1>2 DEF activate_process_thread, SwitchThread
  <2>2. new \in ps[p].ready => Ran(ps, Run(ps, p, new, ps[p].ready), p)
    BY RunMoves DEF TableOK, Process
  <2>3. Ran(ps, ps, p)
    BY <1>2, MovesNowhere DEF Ran
  <2>4. Ran(ps, qs, p)
    BY <2>1, <2>2, <2>3, HaltStops
  <2> QED
    BY <1>2, <2>4 DEF Ran, Switched
<1> QED
  BY <1>1, <1>2

(***************************************************************************)
(* Interrupts: the handler's process runs the thread of interrupts, and    *)
(* when it is done the process that was interrupted goes on.               *)
(***************************************************************************)
LEMMA CallbackMoves ==
    ASSUME NEW ps, TableOK(ps), NEW cur \in Procs, RunsThread(ps, cur), NEW p \in Pids
    PROVE  LET qs == make_callback_to(ps, cur, p)
           IN  /\ TableOK(qs)
               /\ \A r \in Procs : Alive(ps, r) => Alive(qs, r)
               /\ \A r \in Procs \ {p} : /\ RunsThread(ps, r) => RunsThread(qs, r)
                                         /\ qs[r].state = "Running" => r # cur /\ ps[r].state = "Running"
               /\ qs[p].state \in {"Running", "Panic"}
<1> DEFINE ts == ps[cur].ready \cup {ps[cur].current}
           is == IF ps[cur].state = "Running" THEN Rest(ps, cur, ts) ELSE Halt(ps, cur)
           v  == [state |-> "Running", ready |-> is[p].ready \ {IRQ_TID}, current |-> IRQ_TID]
           rs == [is EXCEPT ![p] = v]
           qs == make_callback_to(ps, cur, p)
<1>1. p \in Procs /\ p # KERNEL_PID /\ KERNEL_PID \in Procs
  BY NumbersOfThreads
<1>2. qs = rs \/ qs = Halt(is, p)
  BY DEF make_callback_to, Run
<1>3. ps[cur].state = "Running" => ts \in SUBSET Threads /\ ts # {}
  BY DEF TableOK, Process, RunsThread
<1> HIDE DEF ts, qs
<1>4. ps[cur].state = "Running" => Stopped(ps, Rest(ps, cur, ts), cur)
  BY <1>3, RestMoves DEF Stopped
<1>5. Stopped(ps, is, cur) /\ TableOK(is)
  BY <1>4, HaltStops DEF Stopped, Moves
<1> HIDE DEF is
<1>6. v \in Process /\ v.state = "Running"
  BY <1>1, <1>5, NumbersOfThreads DEF Process, States, TableOK
<1> HIDE DEF v
<1>7. rs \in [Procs -> Process] /\ \A r \in Procs : rs[r] = IF r = p THEN v ELSE is[r]
  BY <1>5, <1>6 DEF TableOK
<1> HIDE DEF rs
<1>8. CASE qs = rs
  <2>1. TableOK(qs)
    BY <1>1, <1>5, <1>6, <1>7, <1>8 DEF TableOK
  <2> QED
    BY <1>1, <1>5, <1>6, <1>7, <1>8, <2>1 DEF qs, Stopped, Moves, Alive, RunsThread
<1>9. CASE qs = Halt(is, p)
  <2>1. Stopped(is, qs, p) /\ qs[p].state = "Panic"
    BY <1>1, <1>5, <1>9, HaltStops, HaltMoves
  <2> QED
    BY <1>5, <1>1, <2>1 DEF qs, Stopped, Moves
<1> QED
  BY <1>2, <1>8, <1>9

LEMMA FinishMoves ==
    ASSUME NEW ps, TableOK(ps), NEW cur \in Procs, cur # KERNEL_PID, NEW p \in Procs, NEW t \in Threads
    PROVE  LET qs == finish_callback_and_resume(ps, cur, p, t)
           IN  /\ TableOK(qs)
               /\ \A r \in Procs : Alive(ps, r) => Alive(qs, r)
               /\ \A r \in Procs : RunsThread(ps, r) \/ r = cur => RunsThread(qs, r)
               /\ \A r \in Procs \ {p} : qs[r].state = "Running" => r # cur /\ ps[r].state = "Running"
               /\ qs[p].state \in {"Running", "Panic"}
<1> DEFINE fs == IF ps[cur].state = "Running" THEN Rest(ps, cur, ps[cur].ready) ELSE Halt(ps, cur)
           qs == finish_callback_and_resume(ps, cur, p, t)
<1>1. ps[cur].ready \in SUBSET Threads
  BY DEF TableOK, Process
<1>2. Stopped(ps, Rest(ps, cur, ps[cur].ready), cur)
  BY <1>1, RestMoves DEF Stopped
<1>3. Stopped(ps, fs, cur) /\ TableOK(fs)
  BY <1>2, HaltStops DEF Stopped, Moves
<1>4. qs = Run(fs, p, t, fs[p].ready) \/ qs = Halt(fs, p)
  BY DEF finish_callback_and_resume
<1> HIDE DEF fs, qs
<1>5. Ran(fs, Run(fs, p, t, fs[p].ready), p)
  BY <1>3, RunMoves DEF TableOK, Process
<1>6. Ran(fs, qs, p)
  BY <1>3, <1>4, <1>5, HaltStops
<1>7. RunsThread(fs, cur)
  BY <1>3 DEF Stopped, RunsThread
<1> QED
  BY <1>3, <1>6, <1>7 DEF qs, Ran, Stopped, Moves

LEMMA ActivateEachMoves ==
    ASSUME NEW ps, TableOK(ps), self \in Procs
    PROVE  /\ Moves(ps, activate_each(ps), {})
           /\ \A r \in Procs : r # self => activate_each(ps)[r] = ps[r]
           /\ activate_each(ps)[self].state \in {ps[self].state, "Panic"}
<1>1. CASE Unstarted = {}
  BY <1>1, MovesNowhere DEF activate_each
<1>2. CASE Unstarted # {}
  <2>1. activate_each(ps) = Halt(ps, self)
    BY <1>2 DEF activate_each
  <2> QED
    BY <2>1, HaltMoves
<1> QED
  BY <1>1, <1>2

LEMMA ReadyAllMoves ==
    ASSUME NEW ps, TableOK(ps), NEW W
    PROVE  /\ Moves(ps, ReadyAll(ps, W), {})
           /\ \A r \in Procs : ps[r].state = "Running" => ReadyAll(ps, W)[r].state \in {"Running", "Panic"}
<1> DEFINE qs == ReadyAll(ps, W)
<1>1. ASSUME NEW r \in Procs
      PROVE  /\ qs[r] \in Process
             /\ qs[r].state = "Ready" => qs[r].ready # {}
             /\ ps[r].state \in {"Ready", "Running", "Panic"} => qs[r].state \in {ps[r].state, "Panic"}
             /\ qs[r].state = "Free" => ps[r].state = "Free"
             /\ qs[r].state = "Running" => ps[r].state = "Running" /\ qs[r].current = ps[r].current
  <2> DEFINE ts == {t \in Threads : <<r, t>> \in W}
  <2>1. qs[r] = IF ts = {} THEN ps[r] ELSE
                CASE ps[r].state \in {"Ready", "Running"} /\ ts \cap ps[r].ready = {}
                       -> [ps[r] EXCEPT !.ready = @ \cup ts]
                  [] ps[r].state = "Sleeping" -> [ps[r] EXCEPT !.state = "Ready", !.ready = ts]
                  [] OTHER -> [ps[r] EXCEPT !.state = "Panic"]
    BY DEF ReadyAll
  <2>2. ts \in SUBSET Threads
    OBVIOUS
  <2>3. ps[r] \in Process /\ (ps[r].state = "Ready" => ps[r].ready # {})
    BY DEF TableOK
  <2> HIDE DEF ts, qs
  <2>4. CASE ts = {}
    <3>1. qs[r] = ps[r]
      BY <2>1, <2>4
    <3> QED
      BY <2>3, <3>1
  <2>5. CASE ts # {} /\ ps[r].state \in {"Ready", "Running"} /\ ts \cap ps[r].ready = {}
    <3>1. qs[r] = [ps[r] EXCEPT !.ready = @ \cup ts]
      BY <2>1, <2>5
    <3> QED
      BY <2>2, <2>3, <2>5, <3>1 DEF Process, States
  <2>6. CASE ts # {} /\ ps[r].state = "Sleeping"
    <3>1. qs[r] = [ps[r] EXCEPT !.state = "Ready", !.ready = ts]
      BY <2>1, <2>6
    <3> QED
      BY <2>2, <2>3, <2>6, <3>1 DEF Process, States
  <2>7. CASE /\ ts # {} /\ ps[r].state # "Sleeping"
             /\ ~(ps[r].state \in {"Ready", "Running"} /\ ts \cap ps[r].ready = {})
    <3>1. qs[r] = [ps[r] EXCEPT !.state = "Panic"]
      BY <2>1, <2>7
    <3> QED
      BY <2>3, <3>1 DEF Process, States
  <2> QED
    BY <2>4, <2>5, <2>6, <2>7
<1>2. qs = [r \in Procs |-> qs[r]]
  BY DEF ReadyAll
<1> HIDE DEF qs
<1>3. qs \in [Procs -> Process]
  BY <1>1, <1>2
<1>4. TableOK(qs)
  BY <1>1, <1>3, NumbersOfThreads DEF TableOK
<1>5. Moves(ps, qs, {})
  BY <1>1, <1>4 DEF Moves, Alive, RunsThread
<1> QED
  BY <1>1, <1>5 DEF qs

-----------------------------------------------------------------------------
(***************************************************************************)
(* The inductive invariant.                                                *)
(***************************************************************************)
\* Only a thread of a process waits for a message or for a reply, never the
\* thread of interrupts.
WaitsAreThreads(q) ==
    /\ q.ready_threads \subseteq Threads
    /\ \A k \in Slots : AwaitsReply(q.queue[k]) \/ is_in_server(q.queue[k])
                            => q.queue[k].tid \in Threads

QueueOK(q) == q \in ServerRecord /\ Good(q) /\ WaitsAreThreads(q)

ServerEntry == [pid : Pids, sid : SIDs, q : ServerRecord]
ThreadTable == [live : SUBSET Threads, joins : [Threads -> Tids], last : Tids]
IsPair(pair) == pair = NONE \/ pair \in Procs \X Threads

\* The scheduler: the current process runs, and runs the thread of interrupts
\* only while an interrupt is handled.
SchedOK ==
    /\ TableOK(procs)
    /\ current_pid \in Procs
    /\ NoPanic => procs[current_pid].state = "Running"
    /\ handling_irq \in BOOLEAN
    /\ \A p \in Procs : RunsThread(procs, p) \/ (handling_irq /\ p = current_pid)
    /\ handling_irq => in_irq /\ current_pid # KERNEL_PID
    /\ IsPair(switchto_caller) /\ IsPair(previous_pair)

ServersOK ==
    /\ servers \in [Sidxs -> ServerEntry \cup {NoServer}]
    /\ \A i \in Sidxs : QueueOK(servers[i].q)

\* A process that is not alive has no connections.
ConnsOK ==
    /\ connections \in [Pids -> [Conns -> 0 .. NumServers + 1]]
    /\ NoDanglingConnection
    /\ \A p \in Pids : ~Alive(procs, p) => \A c \in Conns : connections[p][c] = Unused

ThreadsOK == threads \in [Pids -> ThreadTable] /\ handler \in Pids \cup {NoPid}

KInv == SchedOK /\ ServersOK /\ ConnsOK /\ ThreadsOK

-----------------------------------------------------------------------------
(***************************************************************************)
(* What the calls do to a queue keeps it in order.                         *)
(***************************************************************************)
LEMMA EnqueueOK ==
    ASSUME NEW q, QueueOK(q), NEW m \in Message, Blocking(m) => m.tid \in Threads,
           q.ready_threads = {}, CanDeliver(q, m), EmptySlots(q) # {}
    PROVE  QueueOK(queue_message(q, m))
<1> DEFINE i == FirstFrom(q.queue_head, EmptySlots(q))
           e == [tag |-> QueuedTag(m.kind), pid |-> m.pid, tid |-> m.tid,
                 idx |-> q.tail_generation, payload |-> m.payload]
           r == queue_message(q, m)
<1>1. q \in ServerRecord /\ Good(q) /\ WaitsAreThreads(q)
  BY DEF QueueOK
<1>2. r \in ServerRecord /\ Good(r)
  BY <1>1, QueueMessageType, QueueMessageGood
<1>3. i \in Slots
  BY <1>1, EmptySlotFound DEF EmptySlots
<1>4. AwaitsReply(e) \/ is_in_server(e) => Blocking(m) /\ e.tid = m.tid
  BY DEF AwaitsReply, is_in_server, QueuedTag, Message, Kinds, ScalarKinds, MemoryKinds,
     TerminatedTags, WaitingTags, Blocking, BlockingKinds
<1>5. r.queue = [q.queue EXCEPT ![i] = e] /\ r.ready_threads = q.ready_threads
  BY <1>1 DEF queue_message, FillSlot, ServerRecord
<1> HIDE DEF e, r, i
<1>6. \A k \in Slots : r.queue[k] = IF k = i THEN e ELSE q.queue[k]
  BY <1>1, <1>3, <1>5 DEF ServerRecord
<1>7. WaitsAreThreads(r)
  BY <1>1, <1>4, <1>5, <1>6 DEF WaitsAreThreads
<1> QED
  BY <1>2, <1>7 DEF QueueOK, r

LEMMA TakeThreadOK ==
    ASSUME NEW q, QueueOK(q)
    PROVE  QueueOK(take_available_thread(q))
<1>1. q \in ServerRecord /\ Good(q) /\ WaitsAreThreads(q)
  BY DEF QueueOK
<1>2. take_available_thread(q) \in ServerRecord /\ Good(take_available_thread(q))
  BY <1>1, TakeThreadGood
<1>3. /\ take_available_thread(q).queue = q.queue
      /\ take_available_thread(q).ready_threads \subseteq q.ready_threads
  BY <1>1 DEF take_available_thread, ServerRecord
<1> QED
  BY <1>1, <1>2, <1>3 DEF QueueOK, WaitsAreThreads

\* The thread that is taken is one of those that wait, and giving it back
\* undoes the taking.
LEMMA GiveBack ==
    ASSUME NEW q, QueueOK(q), q.ready_threads # {}
    PROVE  /\ AvailableThread(q) \in q.ready_threads
           /\ AvailableThread(q) \in Threads
           /\ return_available_thread(take_available_thread(q), AvailableThread(q)) = q
<1>1. q \in ServerRecord /\ q.ready_threads \subseteq Threads
  BY DEF QueueOK, WaitsAreThreads
<1>2. q.ready_threads \in SUBSET Nat
  BY <1>1, NumbersOfThreads
<1>3. \E t \in q.ready_threads : \A u \in q.ready_threads : t <= u
  BY <1>2, LeastNatural
<1>4. AvailableThread(q) \in q.ready_threads
  BY <1>3 DEF AvailableThread
<1>5. return_available_thread(take_available_thread(q), AvailableThread(q)) = q
  BY <1>1, <1>4 DEF return_available_thread, take_available_thread, ServerRecord
<1> QED
  BY <1>1, <1>4, <1>5

LEMMA HandOffOK ==
    ASSUME NEW q, QueueOK(q), NEW m \in Message, m.tid \in Threads,
           q.ready_threads # {}, EmptySlots(q) # {}
    PROVE  QueueOK(queue_response(take_available_thread(q), m))
<1> DEFINE s == take_available_thread(q)
           i == ResponseSlot(s)
           e == [tag |-> ResponseTag(m.kind), pid |-> m.pid, tid |-> m.tid,
                 idx |-> 0, payload |-> m.payload]
           r == queue_response(s, m)
<1>1. q \in ServerRecord /\ Good(q)
  BY DEF QueueOK
<1>2. QueueOK(s) /\ EmptySlots(s) # {} /\ Unread(s) = {}
  BY <1>1, TakeThreadOK, TakeThreadGood
<1> HIDE DEF s
<1>3. s \in ServerRecord /\ Good(s) /\ WaitsAreThreads(s)
  BY <1>2 DEF QueueOK
<1>4. r \in ServerRecord /\ Good(r)
  BY <1>2, <1>3, QueueResponseType, QueueResponseGood
<1>5. i \in Slots
  BY <1>2, <1>3, EmptySlotFound DEF EmptySlots, ResponseSlot
<1>6. e.tid = m.tid
  OBVIOUS
<1>7. r.queue = [s.queue EXCEPT ![i] = e] /\ r.ready_threads = s.ready_threads
  BY <1>3 DEF queue_response, FillSlot, ServerRecord
<1> HIDE DEF e, r, i
<1>8. \A k \in Slots : r.queue[k] = IF k = i THEN e ELSE s.queue[k]
  BY <1>3, <1>5, <1>7 DEF ServerRecord
<1>9. WaitsAreThreads(r)
  BY <1>3, <1>6, <1>7, <1>8 DEF WaitsAreThreads
<1> QED
  BY <1>4, <1>9 DEF QueueOK, r, s

LEMMA TakeNextOK ==
    ASSUME NEW q, QueueOK(q), HasNextMessage(q)
    PROVE  QueueOK(take_next_message(q))
<1> DEFINE i == NextMessageSlot(q)
           r == take_next_message(q)
<1>1. q \in ServerRecord /\ Good(q) /\ WaitsAreThreads(q)
  BY DEF QueueOK
<1>2. r \in ServerRecord /\ Good(r)
  BY <1>1, TakeNextType, TakeNextGood
<1>3. i \in Slots /\ q.queue[i] \in QueuedMessage
  BY <1>1, NextMessageFound, EntryIsMessage, TagsDisjoint DEF NextMessageSlots
<1>4. r.queue = [q.queue EXCEPT ![i] = AfterReceive(q.queue[i])] /\ r.ready_threads = q.ready_threads
  BY <1>1 DEF take_next_message, ServerRecord
<1> HIDE DEF r, i
<1>5. \A k \in Slots : r.queue[k] = IF k = i THEN AfterReceive(q.queue[i]) ELSE q.queue[k]
  BY <1>1, <1>3, <1>4 DEF ServerRecord
<1>6. LET e == AfterReceive(q.queue[i])
      IN  AwaitsReply(e) \/ is_in_server(e) => AwaitsReply(q.queue[i]) /\ e.tid = q.queue[i].tid
  BY <1>3 DEF AfterReceive, QueuedMessage, AwaitsReply, is_in_server, TerminatedTags,
     WaitingTags, Empty
<1>7. WaitsAreThreads(r)
  BY <1>1, <1>3, <1>4, <1>5, <1>6 DEF WaitsAreThreads
<1> QED
  BY <1>2, <1>7 DEF QueueOK, r

LEMMA ReceiveNextOK ==
    ASSUME NEW q, QueueOK(q), NEW t \in Threads
    PROVE  QueueOK(ReceiveNext(q, t))
<1>1. CASE HasNextMessage(q)
  BY <1>1, TakeNextOK DEF ReceiveNext
<1>2. CASE ~HasNextMessage(q)
  <2>1. ReceiveNext(q, t) = park_thread(q, t)
    BY <1>2 DEF ReceiveNext
  <2>2. q \in ServerRecord /\ Good(q) /\ WaitsAreThreads(q) /\ t \in Tids
    BY NumbersOfThreads DEF QueueOK
  <2>3. ReceiveNext(q, t) \in ServerRecord /\ Good(ReceiveNext(q, t))
    BY <2>2, ReceiveNextType, ReceiveNextGood
  <2>4. /\ park_thread(q, t).queue = q.queue
        /\ park_thread(q, t).ready_threads = q.ready_threads \cup {t}
    BY <2>2 DEF park_thread, ServerRecord
  <2> QED
    BY <2>1, <2>2, <2>3, <2>4 DEF QueueOK, WaitsAreThreads
<1> QED
  BY <1>1, <1>2

LEMMA TakeWaitingOK ==
    ASSUME NEW q, QueueOK(q), NEW k \in Slots, IsWaiting(q, k)
    PROVE  /\ QueueOK(take_waiting_message(q, k))
           /\ take_waiting_message(q, k).ready_threads = q.ready_threads
<1> DEFINE r == take_waiting_message(q, k)
<1>1. q \in ServerRecord /\ Good(q) /\ WaitsAreThreads(q)
  BY DEF QueueOK
<1>2. r \in ServerRecord /\ SameUnread(q, r) /\ r.ready_threads = q.ready_threads
  BY <1>1, TakeWaitingType, TakeWaitingSame
<1>3. r.queue = [q.queue EXCEPT ![k] = Empty]
  BY <1>1 DEF take_waiting_message, ServerRecord
<1> HIDE DEF r
<1>4. Good(r)
  BY <1>1, <1>2, SameKeepsAgreement DEF Good, SleepersIdle, SameUnread
<1>5. \A j \in Slots : r.queue[j] = IF j = k THEN Empty ELSE q.queue[j]
  BY <1>1, <1>3 DEF ServerRecord
<1>6. ~AwaitsReply(Empty) /\ ~is_in_server(Empty)
  BY DEF AwaitsReply, is_in_server, Empty, TerminatedTags, WaitingTags
<1>7. WaitsAreThreads(r)
  BY <1>1, <1>2, <1>5, <1>6 DEF WaitsAreThreads
<1> QED
  BY <1>2, <1>4, <1>7 DEF QueueOK, r

LEMMA DiscardOK ==
    ASSUME NEW q, QueueOK(q), NEW pid
    PROVE  QueueOK(discard_messages_for_pid(q, pid))
<1> DEFINE r == discard_messages_for_pid(q, pid)
<1>1. q \in ServerRecord /\ Good(q) /\ WaitsAreThreads(q)
  BY DEF QueueOK
<1>2. r \in ServerRecord /\ SameUnread(q, r) /\ r.ready_threads = q.ready_threads
  BY <1>1, DiscardType, DiscardSame
<1>3. \A k \in Slots : r.queue[k] = IF ~IsEmpty(q.queue[k]) /\ q.queue[k].pid = pid
                                    THEN Terminated(q.queue[k]) ELSE q.queue[k]
  BY <1>1 DEF discard_messages_for_pid, ServerRecord
<1> HIDE DEF r
<1>4. Good(r)
  BY <1>1, <1>2, SameKeepsAgreement DEF Good, SleepersIdle, SameUnread
<1>5. ASSUME NEW e \in QueuedMessage
      PROVE  /\ Terminated(e).tid = e.tid
             /\ AwaitsReply(Terminated(e)) \/ is_in_server(Terminated(e))
                    => AwaitsReply(e) \/ is_in_server(e)
  BY DEF Terminated, QueuedMessage, AwaitsReply, is_in_server, TerminatedTags, WaitingTags
<1>6. \A k \in Slots : ~IsEmpty(q.queue[k]) => q.queue[k] \in QueuedMessage
  BY <1>1, EntryIsMessage
<1>7. WaitsAreThreads(r)
  BY <1>1, <1>2, <1>3, <1>5, <1>6 DEF WaitsAreThreads
<1> QED
  BY <1>2, <1>4, <1>7 DEF QueueOK, r

LEMMA InitOK == QueueOK(init)
<1>1. init \in ServerRecord
  BY WrapType DEF init, ServerRecord
<1>2. \A k \in Slots : init.queue[k] = Empty
  BY DEF init
<1>3. init.ready_threads = {} /\ init.head_generation = 0 /\ init.tail_generation = 0
  BY DEF init
<1>4. Unread(init) = {}
  BY <1>2, TagsDisjoint DEF Unread
<1>5. Pending(init) = 0
  BY <1>3 DEF Pending, GenDist
<1>6. \A g \in GenNumbers : ~(GenDist(init.head_generation, g) < Pending(init))
  BY <1>3, <1>5, WrapType, GenDistFacts
<1>7. Good(init)
  BY <1>3, <1>4, <1>6 DEF Good, Agrees, UnreadNumbered, UnreadDistinct, NoneMissing, SleepersIdle
<1>8. ~AwaitsReply(Empty) /\ ~is_in_server(Empty)
  BY DEF AwaitsReply, is_in_server, Empty, TerminatedTags, WaitingTags
<1>9. WaitsAreThreads(init)
  BY <1>2, <1>3, <1>8 DEF WaitsAreThreads
<1> QED
  BY <1>1, <1>7, <1>9 DEF QueueOK

-----------------------------------------------------------------------------
(***************************************************************************)
(* What a step does to the scheduler.                                      *)
(***************************************************************************)
\* No process but the current one runs.
OthersRest == \A p \in Procs \ {current_pid} : procs[p].state # "Running"

\* A server with a thread waiting has a slot for the token of a reply.
HasRoom ==
    \A i \in Sidxs : servers[i].q.ready_threads # {} => EmptySlots(servers[i].q) # {}

NoneFreed == \A p \in Procs : Alive(procs, p) => Alive(procs', p)

SchedStep == SchedOK' /\ NoneFreed /\ (HasRoom /\ OthersRest => OthersRest')

LEMMA SchedStays ==
    ASSUME SchedOK, UNCHANGED <<procs, current_pid, switchto_caller, previous_pair, handling_irq>>
    PROVE  SchedStep
<1>1. SchedOK'
  BY DEF SchedOK, NoPanic, in_irq
<1>2. NoneFreed /\ (OthersRest => OthersRest')
  BY DEF NoneFreed, OthersRest
<1> QED
  BY <1>1, <1>2 DEF SchedStep

\* The thread that traps.
LEMMA CallerFacts ==
    ASSUME SchedOK, ~Panicked(procs)
    PROVE  /\ TableOK(procs) /\ self \in Procs /\ procs[self].state = "Running"
           /\ tid \in Tids /\ Alive(procs, self)
           /\ ~handling_irq => tid \in Threads
           /\ \A p \in Procs : ~handling_irq \/ p # self => RunsThread(procs, p)
<1>1. TableOK(procs) /\ self \in Procs /\ procs[self].state = "Running"
  BY DEF SchedOK, NoPanic, self
<1>2. tid \in Tids /\ Alive(procs, self)
  BY <1>1 DEF TableOK, Process, tid, self, Alive
<1>3. \A p \in Procs : ~handling_irq \/ p # self => RunsThread(procs, p)
  BY DEF SchedOK, self
<1>4. ~handling_irq => tid \in Threads
  BY <1>1, <1>3 DEF RunsThread, tid, self
<1> QED
  BY <1>1, <1>2, <1>3, <1>4

LEMMA MayFacts ==
    ASSUME SchedOK, NEW call, May(call)
    PROVE  /\ ~Panicked(procs) /\ self \in Pids
           /\ call \notin InterruptCalls => ~in_irq /\ ~handling_irq /\ tid \in Threads
<1>1. ~Panicked(procs) /\ self # KERNEL_PID /\ (in_irq => call \in InterruptCalls)
  BY DEF May
<1>2. self \in Pids
  BY <1>1, CallerFacts DEF Procs
<1>3. handling_irq => in_irq
  BY DEF SchedOK
<1> QED
  BY <1>1, <1>2, <1>3, CallerFacts

LEMMA ResumeStep ==
    ASSUME SchedOK, NEW ps, NEW pid \in Procs, NEW X, Resume(ps, pid), Moves(procs, ps, X),
           ps[pid].state \in {"Running", "Panic"}, handling_irq => pid = self,
           IsPair(switchto_caller'),
           HasRoom => X \subseteq {pid} /\ (pid # self => ps[self].state # "Running")
    PROVE  SchedStep
<1>1. procs' = ps /\ current_pid' = pid /\ UNCHANGED <<previous_pair, handling_irq>>
  BY DEF Resume
<1>2. NoneFreed
  BY <1>1 DEF NoneFreed, Moves
<1>3. \A p \in Procs : RunsThread(ps, p) \/ (handling_irq /\ p = pid)
  BY DEF SchedOK, Moves, self
<1>4. ~Panicked(ps) => ps[pid].state = "Running"
  BY DEF Panicked
<1>5. handling_irq => pid # KERNEL_PID
  BY DEF SchedOK, self
<1>6. SchedOK'
  BY <1>1, <1>3, <1>4, <1>5 DEF SchedOK, NoPanic, in_irq, Moves
<1>7. ASSUME HasRoom, OthersRest PROVE OthersRest'
  <2>1. ASSUME NEW p \in Procs, p # pid PROVE ps[p].state # "Running"
    BY <1>7, <2>1 DEF OthersRest, Moves, self
  <2> QED
    BY <1>1, <2>1 DEF OthersRest
<1> QED
  BY <1>2, <1>6, <1>7 DEF SchedStep

LEMMA ToParentStep ==
    ASSUME SchedOK, ~Panicked(procs), ~handling_irq, self # KERNEL_PID,
           NEW can_resume \in BOOLEAN, NEW new, ToParent(can_resume, new)
    PROVE  SchedStep
<1> DEFINE qs == SwitchProcess(procs, self, tid, KERNEL_PID, new, can_resume)
           rs == set_last_thread(qs, original[1], original[2])
<1>1. /\ TableOK(procs) /\ self \in Procs /\ procs[self].state = "Running" /\ tid \in Threads
      /\ KERNEL_PID \in Procs
  BY CallerFacts, NumbersOfThreads
<1>2. /\ Resume(rs, IF CanActivate(procs, KERNEL_PID, new) THEN KERNEL_PID ELSE self)
      /\ switchto_caller' = NONE
  BY DEF ToParent
<1>3. CASE CanActivate(procs, KERNEL_PID, new)
  <2>1. Switched(procs, qs, self, KERNEL_PID)
    BY <1>1, <1>3, SwitchProcessMoves
  <2> HIDE DEF qs
  <2>2. Moves(qs, rs, {}) /\ \A r \in Procs : rs[r].state \in {qs[r].state, "Panic"}
    BY <2>1, SetLastMoves DEF Switched, Moves
  <2> HIDE DEF rs
  <2>3. Moves(procs, rs, {KERNEL_PID})
    BY <2>1, <2>2 DEF Switched, Moves
  <2>4. rs[KERNEL_PID].state \in {"Running", "Panic"} /\ rs[self].state # "Running"
    BY <1>1, <2>1, <2>2 DEF Switched
  <2>5. Resume(rs, KERNEL_PID)
    BY <1>2, <1>3
  <2> QED
    BY <1>1, <1>2, <2>3, <2>4, <2>5, ResumeStep DEF IsPair
<1>4. CASE ~CanActivate(procs, KERNEL_PID, new)
  <2>1. qs = procs
    BY <1>4 DEF SwitchProcess
  <2>2. Moves(procs, rs, {}) /\ \A r \in Procs : rs[r].state \in {procs[r].state, "Panic"}
    BY <1>1, <2>1, SetLastMoves
  <2> HIDE DEF rs
  <2>3. rs[self].state \in {"Running", "Panic"}
    BY <1>1, <2>2
  <2>4. Resume(rs, self)
    BY <1>2, <1>4
  <2> QED
    BY <1>1, <1>2, <2>2, <2>3, <2>4, ResumeStep DEF IsPair
<1> QED
  BY <1>3, <1>4

LEMMA HaltStep ==
    ASSUME SchedOK, Resume(Halt(procs, self), self), UNCHANGED switchto_caller
    PROVE  SchedStep
<1>1. TableOK(procs) /\ self \in Procs /\ IsPair(switchto_caller')
  BY DEF SchedOK, self
<1>2. Moves(procs, Halt(procs, self), {}) /\ Halt(procs, self)[self].state = "Panic"
  BY <1>1, HaltMoves
<1> QED
  BY <1>1, <1>2, ResumeStep

LEMMA YieldStep ==
    ASSUME SchedOK, ~Panicked(procs), ~handling_irq, self # KERNEL_PID, do_yield
    PROVE  SchedStep
<1>1. CASE switchto_caller = NONE
  BY <1>1, HaltStep DEF do_yield
<1>2. CASE switchto_caller # NONE
  <2>1. ToParent(TRUE, switchto_caller[2])
    BY <1>2 DEF do_yield
  <2> QED
    BY <2>1, ToParentStep
<1> QED
  BY <1>1, <1>2

\* A thread answers client, a process that is alive.
LEMMA AnswerStep ==
    ASSUME SchedOK, ~Panicked(procs), self \in Pids, UNCHANGED switchto_caller,
           NEW client, client.pid \in Pids, client.tid \in Threads,
           AnswerAndGoOn(ready_thread(procs, client.pid, client.tid), client)
    PROVE  SchedStep
<1> DEFINE ws == ready_thread(procs, client.pid, client.tid)
           us == unschedule_thread(ws, self, tid)
           rs == ready_thread(us, self, tid)
           qs == switch_to_thread(rs, client.pid, client.tid)
<1>1. /\ TableOK(procs) /\ self \in Procs /\ self # KERNEL_PID /\ procs[self].state = "Running"
      /\ client.pid \in Procs /\ IsPair(switchto_caller')
  BY CallerFacts, NumbersOfThreads DEF SchedOK
<1>2. Moves(procs, ws, {}) /\ TableOK(ws) /\ ws[self].state \in {"Running", "Panic"}
  BY <1>1, ReadyThreadMoves DEF Moves
<1>3. CASE in_irq \/ original = <<self, client.tid>>
  <2>1. Resume(ws, self)
    BY <1>3 DEF AnswerAndGoOn
  <2> HIDE DEF ws
  <2> QED
    BY <1>1, <1>2, <2>1, ResumeStep
<1>4. CASE ~(in_irq \/ original = <<self, client.tid>>)
  <2>1. Resume(qs, client.pid)
    BY <1>4 DEF AnswerAndGoOn
  <2>2. ~handling_irq /\ tid \in Threads /\ \A p \in Procs : RunsThread(procs, p)
    BY <1>4, CallerFacts DEF SchedOK
  <2> HIDE DEF ws
  <2>3. Stopped(ws, us, self) /\ TableOK(us)
    BY <1>1, <1>2, UnscheduleMoves DEF Stopped, Moves
  <2> HIDE DEF us
  <2>4. /\ Moves(us, rs, {}) /\ TableOK(rs) /\ rs[self].state # "Running"
        /\ \A r \in Procs : r # self => rs[r] = us[r]
    BY <1>1, <2>2, <2>3, ReadyThreadMoves DEF Stopped, Moves
  <2> HIDE DEF rs
  <2>5. Moves(procs, rs, {})
    BY <1>2, <2>3, <2>4 DEF Stopped, Moves
  <2>6. RunsThread(rs, client.pid)
    BY <1>1, <2>2, <2>5 DEF Moves
  <2>7. Ran(rs, qs, client.pid)
    BY <1>1, <2>4, <2>6, SwitchToThreadMoves
  <2> HIDE DEF qs
  <2>8. Moves(procs, qs, {client.pid})
    BY <2>5, <2>7 DEF Ran, Moves
  <2>9. client.pid # self => qs[self].state # "Running"
    BY <1>1, <2>4, <2>7 DEF Ran
  <2>10. qs[client.pid].state \in {"Running", "Panic"}
    BY <2>7 DEF Ran
  <2> QED
    BY <1>1, <2>1, <2>2, <2>8, <2>9, <2>10, ResumeStep
<1> QED
  BY <1>3, <1>4

\* A thread gives the processor to thread t of process pid and stays out of
\* the ready threads.
LEMMA GiveStep ==
    ASSUME SchedOK, ~Panicked(procs), ~handling_irq, self \in Pids, UNCHANGED switchto_caller,
           NEW pid \in Pids, NEW t \in Threads,
           Resume(activate_process_thread(ready_thread(procs, pid, t), self, tid, pid, t, FALSE), pid)
    PROVE  SchedStep
<1> DEFINE ws == ready_thread(procs, pid, t)
           qs == activate_process_thread(ws, self, tid, pid, t, FALSE)
<1>1. /\ TableOK(procs) /\ self \in Procs /\ self # KERNEL_PID /\ procs[self].state = "Running"
      /\ pid \in Procs /\ IsPair(switchto_caller') /\ tid \in Threads
  BY CallerFacts, NumbersOfThreads DEF SchedOK
<1>2. /\ Moves(procs, ws, {}) /\ TableOK(ws) /\ ws[self].state \in {"Running", "Panic"}
      /\ CanActivate(ws, pid, t)
  BY <1>1, ReadyThreadMoves DEF Moves, CanActivate
<1> HIDE DEF ws
<1>3. Switched(ws, qs, self, pid)
  BY <1>1, <1>2, ActivateMoves
<1>4. Resume(qs, pid)
  BY DEF ws
<1> HIDE DEF qs
<1>5. Moves(procs, qs, {pid})
  BY <1>2, <1>3 DEF Switched, Moves
<1>6. qs[pid].state \in {"Running", "Panic"} /\ (pid # self => qs[self].state # "Running")
  BY <1>3 DEF Switched
<1> QED
  BY <1>1, <1>4, <1>5, <1>6, ResumeStep

\* The processor goes to thread t of process pid, and the current process is
\* not left.
LEMMA EnterStep ==
    ASSUME SchedOK, ~HasRoom, ~Panicked(procs), ~handling_irq, self \in Pids,
           UNCHANGED switchto_caller, NEW pid \in Pids, NEW t \in Threads,
           Resume(IF pid = self THEN ready_thread(procs, pid, t)
                                ELSE Enter(ready_thread(procs, pid, t), pid, t), pid)
    PROVE  SchedStep
<1> DEFINE ws == ready_thread(procs, pid, t)
           es == IF pid = self THEN ws ELSE Enter(ws, pid, t)
<1>1. /\ TableOK(procs) /\ self \in Procs /\ procs[self].state = "Running"
      /\ pid \in Procs /\ IsPair(switchto_caller')
  BY CallerFacts, NumbersOfThreads DEF SchedOK
<1>2. /\ Moves(procs, ws, {}) /\ TableOK(ws) /\ ws[self].state \in {"Running", "Panic"}
      /\ CanActivate(ws, pid, t)
  BY <1>1, ReadyThreadMoves DEF Moves, CanActivate
<1>3. Resume(es, pid)
  OBVIOUS
<1> HIDE DEF ws
<1>4. Ran(ws, Enter(ws, pid, t), pid)
  BY <1>1, <1>2, EnterMoves
<1>5. Moves(procs, es, {pid}) /\ es[pid].state \in {"Running", "Panic"}
  <2>1. CASE pid = self
    BY <1>2, <2>1 DEF Moves
  <2>2. CASE pid # self
    <3>1. Ran(ws, es, pid)
      BY <1>4, <2>2
    <3> HIDE DEF es
    <3> QED
      BY <1>2, <3>1 DEF Ran, Moves
  <2> QED
    BY <2>1, <2>2
<1> HIDE DEF es
<1> QED
  BY <1>1, <1>3, <1>5, ResumeStep

-----------------------------------------------------------------------------
(***************************************************************************)
(* The scheduler's part of each action.                                    *)
(***************************************************************************)
LEMMA SwitchToSched ==
    ASSUME SchedOK, SwitchTo
    PROVE  SchedStep
<1> DEFINE pid == next_pid_to_run(procs, last_pid)
           ps  == SwitchProcess(procs, self, tid, pid, ANY, TRUE)
           qs  == IF switchto_caller = NONE /\ ~in_irq THEN ps ELSE Halt(procs, self)
           after  == {p \in Runnable(procs) : p > last_pid}
           choice == IF after = {} THEN Runnable(procs) ELSE after
<1>1. /\ self = KERNEL_PID /\ ~Panicked(procs) /\ Runnable(procs) # {}
      /\ procs' = qs /\ current_pid' = pid /\ switchto_caller' = <<self, tid>>
      /\ UNCHANGED <<previous_pair, handling_irq>>
  BY DEF SwitchTo
<1>2. choice \subseteq Runnable(procs) /\ choice # {}
  BY <1>1
<1>3. Runnable(procs) \subseteq Pids /\ Runnable(procs) \subseteq Nat
  BY NumbersOfThreads DEF Runnable
<1>4. pid = CHOOSE p \in choice : \A q \in choice : p <= q
  BY DEF next_pid_to_run
<1> HIDE DEF choice
<1>5. \E p \in choice : \A q \in choice : p <= q
  BY <1>2, <1>3, LeastNatural
<1>6. pid \in Runnable(procs)
  BY <1>2, <1>4, <1>5
<1> HIDE DEF pid
<1>7. ~handling_irq
  BY <1>1 DEF SchedOK, self
<1>8. /\ TableOK(procs) /\ self \in Procs /\ tid \in Threads /\ pid \in Procs /\ pid # self
      /\ Alive(procs, pid) /\ CanActivate(procs, pid, ANY) /\ procs[self].state = "Running"
  BY <1>1, <1>3, <1>6, <1>7, CallerFacts, NumbersOfThreads DEF Runnable, Alive, CanActivate
<1>9. Switched(procs, ps, self, pid)
  BY <1>1, <1>8, SwitchProcessMoves
<1>10. Moves(procs, Halt(procs, self), {}) /\ Halt(procs, self)[self].state = "Panic"
  BY <1>8, HaltMoves
<1> HIDE DEF ps
<1>11. /\ Moves(procs, qs, {pid}) /\ qs[self].state # "Running"
       /\ qs[pid].state = "Running" \/ Panicked(qs)
  BY <1>8, <1>9, <1>10 DEF Switched, Moves, Panicked
<1> HIDE DEF qs
<1>12. NoneFreed
  BY <1>1, <1>11 DEF NoneFreed, Moves
<1>13. \A p \in Procs : RunsThread(qs, p)
  BY <1>7, <1>11 DEF SchedOK, Moves
<1>14. IsPair(switchto_caller')
  BY <1>1, <1>8 DEF IsPair
<1>15. SchedOK'
  BY <1>1, <1>7, <1>8, <1>11, <1>13, <1>14 DEF SchedOK, NoPanic, in_irq, Moves
<1>16. ASSUME OthersRest PROVE OthersRest'
  <2>1. ASSUME NEW p \in Procs, p # pid PROVE qs[p].state # "Running"
    BY <1>11, <1>16, <2>1 DEF OthersRest, Moves, self
  <2> QED
    BY <1>1, <2>1 DEF OthersRest
<1> QED
  BY <1>12, <1>15, <1>16 DEF SchedStep

LEMMA InterruptSched ==
    ASSUME SchedOK, ThreadsOK, Interrupt
    PROVE  SchedStep
<1> DEFINE qs == make_callback_to(procs, self, handler)
<1>1. /\ ~Panicked(procs) /\ ~handling_irq /\ handler # NoPid
      /\ procs' = qs /\ current_pid' = handler /\ handling_irq' = TRUE
      /\ previous_pair' = IF in_irq THEN previous_pair ELSE <<self, tid>>
      /\ UNCHANGED switchto_caller
  BY DEF Interrupt
<1>2. handler \in Pids /\ handler \in Procs /\ handler # KERNEL_PID
  BY <1>1, NumbersOfThreads DEF ThreadsOK
<1>3. TableOK(procs) /\ self \in Procs /\ tid \in Threads /\ \A p \in Procs : RunsThread(procs, p)
  BY <1>1, CallerFacts
<1>4. /\ TableOK(qs)
      /\ \A r \in Procs : Alive(procs, r) => Alive(qs, r)
      /\ \A r \in Procs \ {handler} :
            /\ RunsThread(procs, r) => RunsThread(qs, r)
            /\ qs[r].state = "Running" => r # self /\ procs[r].state = "Running"
      /\ qs[handler].state \in {"Running", "Panic"}
  BY <1>2, <1>3, CallbackMoves
<1> HIDE DEF qs
<1>5. ~Panicked(qs) => qs[handler].state = "Running"
  BY <1>2, <1>4 DEF Panicked
<1>6. IsPair(previous_pair') /\ previous_pair' # NONE
  <2>1. <<self, tid>> \in Procs \X Threads /\ <<self, tid>> # NONE
    BY <1>3 DEF NONE
  <2> QED
    BY <1>1, <2>1 DEF SchedOK, IsPair, in_irq
<1>7. SchedOK'
  BY <1>1, <1>2, <1>3, <1>4, <1>5, <1>6 DEF SchedOK, NoPanic, in_irq
<1>8. NoneFreed
  BY <1>1, <1>4 DEF NoneFreed
<1>9. OthersRest => OthersRest'
  BY <1>1, <1>4 DEF OthersRest, self
<1> QED
  BY <1>7, <1>8, <1>9 DEF SchedStep

LEMMA FinishSched ==
    ASSUME SchedOK, finish_isr
    PROVE  SchedStep
<1> DEFINE p == previous_pair[1]
           qs == finish_callback_and_resume(procs, self, previous_pair[1], previous_pair[2])
<1>1. /\ ~Panicked(procs) /\ handling_irq
      /\ procs' = qs /\ current_pid' = p /\ handling_irq' = FALSE
      /\ previous_pair' = NONE /\ UNCHANGED switchto_caller
  BY DEF finish_isr
<1>2. /\ TableOK(procs) /\ self \in Procs /\ self # KERNEL_PID
      /\ \A r \in Procs : r # self => RunsThread(procs, r)
  BY <1>1, CallerFacts DEF SchedOK, self
<1>3. p \in Procs /\ previous_pair[2] \in Threads
  BY <1>1 DEF SchedOK, IsPair, in_irq
<1>4. /\ TableOK(qs)
      /\ \A r \in Procs : Alive(procs, r) => Alive(qs, r)
      /\ \A r \in Procs : RunsThread(procs, r) \/ r = self => RunsThread(qs, r)
      /\ \A r \in Procs \ {p} : qs[r].state = "Running" => r # self /\ procs[r].state = "Running"
      /\ qs[p].state \in {"Running", "Panic"}
  BY <1>2, <1>3, FinishMoves
<1> HIDE DEF qs, p
<1>5. ~Panicked(qs) => qs[p].state = "Running"
  BY <1>3, <1>4 DEF Panicked
<1>6. \A r \in Procs : RunsThread(qs, r)
  BY <1>2, <1>4
<1>7. SchedOK'
  BY <1>1, <1>3, <1>4, <1>5, <1>6 DEF SchedOK, NoPanic, in_irq, IsPair
<1>8. NoneFreed
  BY <1>1, <1>4 DEF NoneFreed
<1>9. OthersRest => OthersRest'
  BY <1>1, <1>4 DEF OthersRest, self
<1> QED
  BY <1>7, <1>8, <1>9 DEF SchedStep

LEMMA ReturnToParentSched ==
    ASSUME SchedOK, ReturnToParent
    PROVE  SchedStep
<1>1. /\ switchto_caller # NONE /\ previous_pair' = switchto_caller /\ switchto_caller' = NONE
      /\ UNCHANGED <<procs, current_pid, handling_irq>>
  BY DEF ReturnToParent
<1>2. SchedOK'
  BY <1>1 DEF SchedOK, NoPanic, in_irq, IsPair
<1> QED
  BY <1>1, <1>2 DEF SchedStep, NoneFreed, OthersRest

LEMMA CreateThreadSched ==
    ASSUME SchedOK, ThreadsOK, CreateThread
    PROVE  SchedStep /\ ThreadsOK'
<1> DEFINE new == find_free_thread(threads[self])
           ps  == [procs EXCEPT ![self].ready = @ \cup {new}]
           qs  == switch_to_thread(ps, self, new)
<1>1. /\ May("CreateThread") /\ FreeThreads(threads[self]) # {}
      /\ threads' = [threads EXCEPT ![self].live = @ \cup {new}, ![self].last = new]
      /\ Resume(qs, self) /\ UNCHANGED <<switchto_caller, handler>>
  BY DEF CreateThread
<1>2. "CreateThread" \notin InterruptCalls
  BY DEF InterruptCalls
<1>3. /\ ~Panicked(procs) /\ self \in Pids /\ self \in Procs /\ ~handling_irq
      /\ TableOK(procs) /\ procs[self].state = "Running" /\ self # KERNEL_PID
      /\ \A p \in Procs : RunsThread(procs, p)
  BY <1>1, <1>2, MayFacts, CallerFacts, NumbersOfThreads
<1>4. new \in Threads
  <2>1. FreeThreads(threads[self]) \in SUBSET Nat /\ FreeThreads(threads[self]) \subseteq Threads
    BY NumbersOfThreads DEF FreeThreads
  <2> QED
    BY <1>1, <2>1, NextThreadFound DEF find_free_thread
<1> HIDE DEF new
<1>5. /\ ps \in [Procs -> Process]
      /\ \A r \in Procs : ps[r].state = procs[r].state /\ ps[r].current = procs[r].current
      /\ \A r \in Procs : procs[r].ready # {} => ps[r].ready # {}
  BY <1>3, <1>4 DEF TableOK, Process
<1> HIDE DEF ps
<1>6. TableOK(ps)
  BY <1>3, <1>5, NumbersOfThreads DEF TableOK
<1>7. Moves(procs, ps, {}) /\ RunsThread(ps, self)
  BY <1>3, <1>5, <1>6 DEF Moves, RunsThread, Alive
<1>8. Ran(ps, qs, self)
  BY <1>3, <1>6, <1>7, SwitchToThreadMoves
<1> HIDE DEF qs
<1>9. Moves(procs, qs, {self}) /\ qs[self].state \in {"Running", "Panic"}
  BY <1>7, <1>8 DEF Ran, Moves
<1>10. SchedStep
  <2>1. IsPair(switchto_caller')
    BY <1>1 DEF SchedOK
  <2> QED
    BY <1>1, <1>3, <1>9, <2>1, ResumeStep
<1>11. ThreadsOK'
  BY <1>1, <1>3, <1>4, NumbersOfThreads DEF ThreadsOK, ThreadTable
<1> QED
  BY <1>10, <1>11

LEMMA ExitThreadSched ==
    ASSUME SchedOK, ThreadsOK, ExitThread
    PROVE  SchedStep /\ ThreadsOK'
<1> DEFINE woken == Woken(self, tid)
           rest  == procs[self].ready \cup woken
           ps    == Rest(procs, self, rest)
           pid   == IF rest = {} THEN KERNEL_PID ELSE self
           qs    == switch_to_thread(ps, pid, ANY)
<1>1. /\ ~Panicked(procs) /\ ~handling_irq /\ self # KERNEL_PID
      /\ threads' = [threads EXCEPT
             ![self].live  = @ \ {tid},
             ![self].joins = [t \in Threads |-> IF t \in woken \cup {tid} THEN 0 ELSE @[t]]]
      /\ Resume(qs, pid) /\ switchto_caller' \in {NONE, switchto_caller} /\ UNCHANGED handler
  BY DEF ExitThread
<1>2. /\ TableOK(procs) /\ self \in Procs /\ self \in Pids /\ procs[self].state = "Running"
      /\ \A p \in Procs : RunsThread(procs, p)
  BY <1>1, CallerFacts DEF Procs
<1>3. rest \in SUBSET Threads
  BY <1>2 DEF TableOK, Process, Woken, Joiners, ThreadsOK, ThreadTable
<1>4. ThreadsOK'
  <2> DEFINE js == [t \in Threads |-> IF t \in woken \cup {tid} THEN 0 ELSE threads[self].joins[t]]
  <2>1. threads[self] \in ThreadTable
    BY <1>2 DEF ThreadsOK
  <2>2. js \in [Threads -> Tids]
    BY <2>1, NumbersOfThreads DEF ThreadTable, IRQ_TID
  <2> DEFINE v == [threads[self] EXCEPT !.live = @ \ {tid}, !.joins = js]
  <2>3. threads' = [threads EXCEPT ![self] = v]
    BY <1>1, <1>2 DEF ThreadsOK
  <2> HIDE DEF js
  <2>4. v \in ThreadTable
    BY <2>1, <2>2 DEF ThreadTable
  <2> HIDE DEF v
  <2> QED
    BY <1>1, <2>3, <2>4 DEF ThreadsOK
<1> HIDE DEF rest
<1>5. Stopped(procs, ps, self) /\ TableOK(ps)
  BY <1>1, <1>2, <1>3, RestMoves DEF Stopped, Moves
<1> HIDE DEF ps
<1>6. pid \in Procs /\ RunsThread(ps, pid)
  BY <1>2, <1>5, NumbersOfThreads DEF Stopped, Moves
<1>7. Ran(ps, qs, pid)
  BY <1>5, <1>6, SwitchToThreadMoves
<1> HIDE DEF qs, pid
<1>8. Moves(procs, qs, {pid}) /\ qs[pid].state \in {"Running", "Panic"}
  BY <1>5, <1>7 DEF Stopped, Ran, Moves
<1>9. pid # self => qs[self].state # "Running"
  BY <1>2, <1>5, <1>7 DEF Stopped, Ran
<1>10. IsPair(switchto_caller')
  BY <1>1 DEF SchedOK, IsPair
<1>11. SchedStep
  BY <1>1, <1>6, <1>8, <1>9, <1>10, ResumeStep
<1> QED
  BY <1>4, <1>11

LEMMA JoinThreadSched ==
    ASSUME SchedOK, ThreadsOK, NEW t \in Threads, JoinThread(t)
    PROVE  SchedStep /\ ThreadsOK'
<1> DEFINE qs == SwitchProcess(procs, self, tid, KERNEL_PID, ANY, FALSE)
<1>1. /\ May("JoinThread")
      /\ threads' = [threads EXCEPT ![self].joins[tid] = t]
      /\ Resume(qs, KERNEL_PID) /\ switchto_caller' = NONE /\ UNCHANGED handler
  BY DEF JoinThread
<1>2. "JoinThread" \notin InterruptCalls
  BY DEF InterruptCalls
<1>3. /\ ~Panicked(procs) /\ self \in Pids /\ self \in Procs /\ ~handling_irq /\ tid \in Threads
      /\ TableOK(procs) /\ self # KERNEL_PID /\ KERNEL_PID \in Procs
  BY <1>1, <1>2, MayFacts, CallerFacts, NumbersOfThreads
<1>4. CanActivate(procs, KERNEL_PID, ANY)
  BY <1>3 DEF TableOK, CanActivate
<1>5. Switched(procs, qs, self, KERNEL_PID)
  BY <1>3, <1>4, SwitchProcessMoves
<1> HIDE DEF qs
<1>6. /\ Moves(procs, qs, {KERNEL_PID}) /\ qs[KERNEL_PID].state \in {"Running", "Panic"}
      /\ qs[self].state # "Running"
  BY <1>3, <1>5 DEF Switched
<1>7. SchedStep
  BY <1>1, <1>3, <1>6, ResumeStep DEF IsPair
<1>8. ThreadsOK'
  BY <1>1, <1>3, NumbersOfThreads DEF ThreadsOK, ThreadTable
<1> QED
  BY <1>7, <1>8

-----------------------------------------------------------------------------
(***************************************************************************)
(* Servers and connections.                                                *)
(***************************************************************************)
SameOwners ==
    \A j \in Sidxs : /\ servers'[j] = NoServer <=> servers[j] = NoServer
                     /\ servers'[j].pid = servers[j].pid

LEMMA ServerFacts ==
    ASSUME ServersOK, NEW i \in Sidxs, servers[i] # NoServer
    PROVE  servers[i] \in ServerEntry /\ servers[i].pid \in Pids
  BY DEF ServersOK, ServerEntry

LEMMA ServersStay ==
    ASSUME ServersOK, UNCHANGED servers
    PROVE  ServersOK' /\ SameOwners
  BY DEF ServersOK, SameOwners

LEMMA SetQueueOK ==
    ASSUME ServersOK, NEW i \in Sidxs, servers[i] # NoServer, NEW q, QueueOK(q), SetQueue(i, q)
    PROVE  /\ ServersOK' /\ SameOwners
           /\ servers'[i].q = q /\ \A j \in Sidxs : j # i => servers'[j] = servers[j]
<1> DEFINE v == [servers[i] EXCEPT !.q = q]
<1>1. servers[i] \in ServerEntry /\ servers[i].pid \in Pids
  BY ServerFacts
<1>2. v \in ServerEntry /\ v.pid = servers[i].pid /\ v.q = q /\ v # NoServer
  BY <1>1, NumbersOfThreads DEF ServerEntry, QueueOK, NoServer
<1>3. servers' = [servers EXCEPT ![i] = v]
  BY DEF SetQueue
<1> HIDE DEF v
<1>4. \A j \in Sidxs : servers'[j] = IF j = i THEN v ELSE servers[j]
  BY <1>3 DEF ServersOK
<1>5. servers' \in [Sidxs -> ServerEntry \cup {NoServer}]
  BY <1>2, <1>3 DEF ServersOK
<1>6. ServersOK'
  BY <1>2, <1>4, <1>5 DEF ServersOK
<1>7. SameOwners
  BY <1>2, <1>4 DEF SameOwners
<1> QED
  BY <1>2, <1>4, <1>6, <1>7

\* A connection that is in use holds the number of a server.
LEMMA ConnectionFacts ==
    ASSUME ConnsOK, NEW p \in Pids, NEW c \in Conns, connections[p][c] > TOMBSTONE
    PROVE  /\ connections[p][c] - 2 \in Sidxs
           /\ servers[connections[p][c] - 2] # NoServer
<1>1. connections[p][c] \in 0 .. NumServers + 1
  BY DEF ConnsOK
<1>2. connections[p][c] - 2 \in Sidxs
  BY <1>1, KernelAssumption DEF Sidxs, TOMBSTONE
<1> QED
  BY <1>2 DEF ConnsOK, NoDanglingConnection

LEMMA ConnsStay ==
    ASSUME ConnsOK, SameOwners, ServersOK, NoneFreed, UNCHANGED connections
    PROVE  ConnsOK'
<1>1. ASSUME NEW p \in Pids, NEW c \in Conns, connections[p][c] > TOMBSTONE
      PROVE  servers'[connections[p][c] - 2] # NoServer
  BY <1>1, ConnectionFacts DEF SameOwners
<1>2. ASSUME NEW i \in Sidxs, servers'[i] # NoServer PROVE Alive(procs', servers'[i].pid)
  <2>1. servers[i] # NoServer /\ servers'[i].pid = servers[i].pid
    BY <1>2 DEF SameOwners
  <2>2. servers[i].pid \in Procs /\ Alive(procs, servers[i].pid)
    BY <2>1, ServerFacts, NumbersOfThreads DEF ConnsOK, NoDanglingConnection
  <2> QED
    BY <2>1, <2>2 DEF NoneFreed
<1>3. ASSUME NEW p \in Pids, ~Alive(procs', p), NEW c \in Conns PROVE connections[p][c] = Unused
  <2>1. ~Alive(procs, p)
    BY <1>3, NumbersOfThreads DEF NoneFreed
  <2> QED
    BY <2>1 DEF ConnsOK
<1> QED
  BY <1>1, <1>2, <1>3 DEF ConnsOK, NoDanglingConnection

KStep == KInv' /\ (HasRoom /\ OthersRest => OthersRest')

LEMMA QueueActionStep ==
    ASSUME KInv, SchedStep, UNCHANGED <<threads, connections, handler>>, ServersOK', SameOwners
    PROVE  KStep
<1>1. SchedOK /\ ServersOK /\ ConnsOK /\ ThreadsOK
  BY DEF KInv
<1>2. ConnsOK'
  BY <1>1, ConnsStay DEF SchedStep
<1>3. ThreadsOK'
  BY <1>1 DEF ThreadsOK
<1> QED
  BY <1>2, <1>3 DEF KStep, KInv, SchedStep

\* The sender, the message and the server of send_message.
LEMMA SendFacts ==
    ASSUME KInv, NEW c \in Conns, NEW m \in Outgoing, Sends(c, m)
    PROVE  /\ ~Panicked(procs) /\ self \in Pids /\ sidx(c) \in Sidxs
           /\ servers[sidx(c)] # NoServer /\ servers[sidx(c)].pid \in Pids
           /\ QueueOK(servers[sidx(c)].q)
           /\ m \in Message
           /\ Blocking(m) => ~handling_irq /\ m.tid \in Threads
<1>1. SchedOK /\ ServersOK /\ ConnsOK
  BY DEF KInv
<1>2. /\ May("SendMessage") \/ May("TrySendMessage")
      /\ in_irq => ~Blocking(m)
      /\ connections[self][c] > TOMBSTONE
  BY DEF Sends
<1>3. ~Panicked(procs) /\ self \in Pids
  BY <1>1, <1>2, MayFacts
<1>4. sidx(c) \in Sidxs /\ servers[sidx(c)] # NoServer
  BY <1>1, <1>2, <1>3, ConnectionFacts DEF sidx
<1>5. servers[sidx(c)].pid \in Pids /\ QueueOK(servers[sidx(c)].q)
  BY <1>1, <1>4, ServerFacts DEF ServersOK
<1>6. tid \in Tids /\ (~handling_irq => tid \in Threads)
  BY <1>1, <1>3, CallerFacts
<1>7. m \in Message /\ m.tid = tid
  BY <1>3, <1>6 DEF Outgoing, Message
<1>8. Blocking(m) => ~handling_irq /\ m.tid \in Threads
  BY <1>1, <1>2, <1>6, <1>7 DEF SchedOK
<1> QED
  BY <1>3, <1>4, <1>5, <1>7, <1>8

-----------------------------------------------------------------------------
(***************************************************************************)
(* Every action keeps the invariant.                                       *)
(***************************************************************************)
LEMMA EnqueueKeeps ==
    ASSUME KInv, NEW c \in Conns, NEW m \in Outgoing, Enqueue(c, m)
    PROVE  KStep
<1> DEFINE q == servers[sidx(c)].q
<1>1. /\ Sends(c, m) /\ q.ready_threads = {} /\ CanDeliver(q, m) /\ EmptySlots(q) # {}
      /\ SetQueue(sidx(c), queue_message(q, m))
      /\ IF Blocking(m) THEN Block ELSE UNCHANGED sched
      /\ UNCHANGED <<threads, connections, handler>>
  BY DEF Enqueue
<1>2. SchedOK /\ ServersOK
  BY DEF KInv
<1>3. /\ ~Panicked(procs) /\ self \in Pids /\ self # KERNEL_PID
      /\ sidx(c) \in Sidxs /\ servers[sidx(c)] # NoServer
      /\ QueueOK(q) /\ m \in Message /\ (Blocking(m) => ~handling_irq /\ m.tid \in Threads)
  BY <1>1, SendFacts, NumbersOfThreads
<1> HIDE DEF q
<1>4. QueueOK(queue_message(q, m))
  BY <1>1, <1>3, EnqueueOK
<1>5. ServersOK' /\ SameOwners
  BY <1>1, <1>2, <1>3, <1>4, SetQueueOK
<1>6. SchedStep
  <2>1. CASE Blocking(m)
    <3>1. ToParent(FALSE, ANY)
      BY <1>1, <2>1 DEF Block
    <3> QED
      BY <1>2, <1>3, <2>1, <3>1, ToParentStep
  <2>2. CASE ~Blocking(m)
    BY <1>1, <1>2, <2>2, SchedStays DEF sched
  <2> QED
    BY <2>1, <2>2
<1> QED
  BY <1>1, <1>5, <1>6, QueueActionStep

LEMMA HandOffKeeps ==
    ASSUME KInv, NEW c \in Conns, NEW m \in Outgoing, HandOff(c, m)
    PROVE  KStep
<1> DEFINE s  == servers[sidx(c)]
           ps == ready_thread(procs, s.pid, AvailableThread(s.q))
<1>1. /\ Sends(c, m) /\ s.q.ready_threads # {}
      /\ SetQueue(sidx(c), take_available_thread(s.q)) /\ Resume(ps, self)
      /\ UNCHANGED <<switchto_caller, threads, connections, handler>>
  BY DEF HandOff
<1>2. SchedOK /\ ServersOK
  BY DEF KInv
<1>3. /\ ~Panicked(procs) /\ self \in Procs /\ sidx(c) \in Sidxs /\ s # NoServer
      /\ QueueOK(s.q) /\ s.pid \in Procs
  BY <1>1, SendFacts, NumbersOfThreads
<1>4. ServersOK' /\ SameOwners
  BY <1>1, <1>2, <1>3, TakeThreadOK, SetQueueOK
<1>5. AvailableThread(s.q) \in Threads
  BY <1>1, <1>3, GiveBack
<1>6. TableOK(procs) /\ procs[self].state = "Running" /\ IsPair(switchto_caller')
  BY <1>1, <1>2, <1>3, CallerFacts DEF SchedOK
<1>7. Moves(procs, ps, {}) /\ ps[self].state \in {"Running", "Panic"}
  BY <1>3, <1>5, <1>6, ReadyThreadMoves
<1> HIDE DEF ps
<1>8. SchedStep
  BY <1>1, <1>2, <1>3, <1>6, <1>7, ResumeStep
<1> QED
  BY <1>1, <1>4, <1>8, QueueActionStep

LEMMA HandOffBlockingKeeps ==
    ASSUME KInv, NEW c \in Conns, NEW m \in Outgoing, HandOffBlocking(c, m)
    PROVE  KStep
<1> DEFINE s  == servers[sidx(c)]
           t  == AvailableThread(s.q)
           ws == ready_thread(procs, s.pid, t)
           es == IF s.pid = self THEN ws ELSE Enter(ws, s.pid, t)
<1>1. /\ Sends(c, m) /\ Blocking(m) /\ s.q.ready_threads # {}
      /\ UNCHANGED <<switchto_caller, threads, connections, handler>>
  BY DEF HandOffBlocking
<1>2. SchedOK /\ ServersOK
  BY DEF KInv
<1>3. /\ ~Panicked(procs) /\ self \in Pids /\ self \in Procs /\ sidx(c) \in Sidxs /\ s # NoServer
      /\ QueueOK(s.q) /\ s.pid \in Pids /\ s.pid \in Procs
      /\ m \in Message /\ ~handling_irq /\ m.tid \in Threads
  BY <1>1, SendFacts, NumbersOfThreads
<1>4. t \in Threads
  BY <1>1, <1>3, GiveBack
<1>5. CASE EmptySlots(s.q) # {}
  <2>1. /\ SetQueue(sidx(c), queue_response(take_available_thread(s.q), m))
        /\ Resume(activate_process_thread(ws, self, tid, s.pid, t, FALSE), s.pid)
    BY <1>5 DEF HandOffBlocking
  <2>2. ServersOK' /\ SameOwners
    BY <1>1, <1>2, <1>3, <1>5, <2>1, HandOffOK, SetQueueOK
  <2>3. SchedStep
    BY <1>1, <1>2, <1>3, <1>4, <2>1, GiveStep
  <2> QED
    BY <1>1, <2>2, <2>3, QueueActionStep
<1>6. CASE EmptySlots(s.q) = {}
  <2>1. /\ SetQueue(sidx(c), return_available_thread(take_available_thread(s.q), t))
        /\ Resume(es, s.pid)
    BY <1>6 DEF HandOffBlocking
  <2>2. return_available_thread(take_available_thread(s.q), t) = s.q
    BY <1>1, <1>3, GiveBack
  <2>3. ServersOK' /\ SameOwners
    BY <1>2, <1>3, <2>1, <2>2, SetQueueOK
  <2>4. ~HasRoom
    BY <1>1, <1>3, <1>6 DEF HasRoom
  <2>5. SchedStep
    BY <1>1, <1>2, <1>3, <1>4, <2>1, <2>4, EnterStep
  <2> QED
    BY <1>1, <2>3, <2>5, QueueActionStep
<1> QED
  BY <1>5, <1>6

LEMMA RetrySendKeeps ==
    ASSUME KInv, NEW c \in Conns, NEW m \in Outgoing, RetrySend(c, m)
    PROVE  KStep
<1>1. /\ Sends(c, m) /\ May("SendMessage") /\ do_yield
      /\ SetQueue(sidx(c), take_available_thread(servers[sidx(c)].q))
      /\ UNCHANGED <<threads, connections, handler>>
  BY DEF RetrySend
<1>2. SchedOK /\ ServersOK
  BY DEF KInv
<1>3. ServersOK' /\ SameOwners
  BY <1>1, <1>2, SendFacts, TakeThreadOK, SetQueueOK
<1>4. "SendMessage" \notin InterruptCalls
  BY DEF InterruptCalls
<1>5. SchedStep
  BY <1>1, <1>2, <1>4, MayFacts, YieldStep, NumbersOfThreads
<1> QED
  BY <1>1, <1>3, <1>5, QueueActionStep

LEMMA TrySendFailsKeeps ==
    ASSUME KInv, NEW c \in Conns, NEW m \in Outgoing, TrySendFails(c, m)
    PROVE  KStep
<1>1. /\ Sends(c, m) /\ UNCHANGED sched
      /\ SetQueue(sidx(c), take_available_thread(servers[sidx(c)].q))
      /\ UNCHANGED <<threads, connections, handler>>
  BY DEF TrySendFails
<1>2. SchedOK /\ ServersOK
  BY DEF KInv
<1>3. ServersOK' /\ SameOwners
  BY <1>1, <1>2, SendFacts, TakeThreadOK, SetQueueOK
<1>4. SchedStep
  BY <1>1, <1>2, SchedStays DEF sched
<1> QED
  BY <1>1, <1>3, <1>4, QueueActionStep

\* The owner of a server.
LEMMA OwnerFacts ==
    ASSUME ServersOK, NEW i \in Sidxs, Owns(i), self \in Pids
    PROVE  servers[i] # NoServer /\ QueueOK(servers[i].q)
  BY NumbersOfThreads DEF ServersOK, Owns, NoServer

LEMMA ReceiveKeeps ==
    ASSUME KInv, NEW i \in Sidxs, Receive(i)
    PROVE  KStep
<1>1. /\ May("ReceiveMessage") \/ May("TryReceiveMessage")
      /\ Owns(i) /\ HasNextMessage(servers[i].q)
      /\ SetQueue(i, take_next_message(servers[i].q))
      /\ UNCHANGED sched /\ UNCHANGED <<threads, connections, handler>>
  BY DEF Receive, Finds
<1>2. SchedOK /\ ServersOK
  BY DEF KInv
<1>3. servers[i] # NoServer /\ QueueOK(servers[i].q)
  BY <1>1, <1>2, MayFacts, OwnerFacts
<1>4. ServersOK' /\ SameOwners
  BY <1>1, <1>2, <1>3, TakeNextOK, SetQueueOK
<1>5. SchedStep
  BY <1>1, <1>2, SchedStays DEF sched
<1> QED
  BY <1>1, <1>4, <1>5, QueueActionStep

LEMMA WaitKeeps ==
    ASSUME KInv, NEW i \in Sidxs, Wait(i)
    PROVE  KStep
<1>1. /\ May("ReceiveMessage") /\ Owns(i) /\ ~HasNextMessage(servers[i].q)
      /\ SetQueue(i, park_thread(servers[i].q, tid))
      /\ UNCHANGED <<threads, connections, handler>>
  BY DEF Wait, Finds
<1>2. SchedOK /\ ServersOK
  BY DEF KInv
<1>3. "ReceiveMessage" \notin InterruptCalls
  BY DEF InterruptCalls
<1>4. /\ servers[i] # NoServer /\ QueueOK(servers[i].q)
      /\ ~Panicked(procs) /\ ~handling_irq /\ tid \in Threads /\ self # KERNEL_PID
  BY <1>1, <1>2, <1>3, MayFacts, OwnerFacts, NumbersOfThreads
<1>5. QueueOK(park_thread(servers[i].q, tid))
  BY <1>1, <1>4, ReceiveNextOK DEF ReceiveNext
<1>6. ServersOK' /\ SameOwners
  BY <1>1, <1>2, <1>4, <1>5, SetQueueOK
<1>7. SchedStep
  <2>1. CASE tid \in servers[i].q.ready_threads
    BY <1>2, <2>1, HaltStep DEF Wait
  <2>2. CASE tid \notin servers[i].q.ready_threads
    <3>1. ToParent(FALSE, ANY)
      BY <2>2 DEF Wait, Block
    <3> QED
      BY <1>2, <1>4, <3>1, ToParentStep
  <2> QED
    BY <2>1, <2>2
<1> QED
  BY <1>1, <1>6, <1>7, QueueActionStep

LEMMA ClientFacts ==
    ASSUME NEW q, QueueOK(q), NEW k \in Slots, IsWaiting(q, k)
    PROVE  q.queue[k].pid \in Pids /\ q.queue[k].tid \in Threads
<1>1. q \in ServerRecord /\ is_in_server(q.queue[k])
  BY DEF QueueOK, IsWaiting
<1>2. q.queue[k] \in QueuedMessage
  BY <1>1, EntryIsMessage, TagsDisjoint
<1>3. q.queue[k].tid \in Threads
  BY <1>1 DEF QueueOK, WaitsAreThreads
<1> QED
  BY <1>2, <1>3 DEF QueuedMessage

LEMMA ReplyKeeps ==
    ASSUME KInv, NEW i \in Sidxs, NEW k \in Slots, Reply(i, k)
    PROVE  KStep
<1> DEFINE client == servers[i].q.queue[k]
<1>1. /\ Owns(i) /\ IsWaiting(servers[i].q, k) /\ May(ReplyCall(client))
      /\ SetQueue(i, take_waiting_message(servers[i].q, k))
      /\ IF Alive(procs, client.pid)
         THEN /\ AnswerAndGoOn(ready_thread(procs, client.pid, client.tid), client)
              /\ UNCHANGED switchto_caller
         ELSE UNCHANGED sched
      /\ UNCHANGED <<threads, connections, handler>>
  BY DEF Reply
<1>2. SchedOK /\ ServersOK
  BY DEF KInv
<1>3. ~Panicked(procs) /\ self \in Pids
  BY <1>1, <1>2, MayFacts
<1>4. servers[i] # NoServer /\ QueueOK(servers[i].q)
  BY <1>1, <1>2, <1>3, OwnerFacts
<1>5. client.pid \in Pids /\ client.tid \in Threads
  BY <1>1, <1>4, ClientFacts
<1>6. ServersOK' /\ SameOwners
  BY <1>1, <1>2, <1>4, TakeWaitingOK, SetQueueOK
<1> HIDE DEF client
<1>7. SchedStep
  <2>1. CASE Alive(procs, client.pid)
    BY <1>1, <1>2, <1>3, <1>5, <2>1, AnswerStep
  <2>2. CASE ~Alive(procs, client.pid)
    BY <1>1, <1>2, <2>2, SchedStays DEF sched
  <2> QED
    BY <2>1, <2>2
<1> QED
  BY <1>1, <1>6, <1>7, QueueActionStep

LEMMA ReplyAndReceiveNextKeeps ==
    ASSUME KInv, NEW i \in Sidxs, NEW k \in Slots, ReplyAndReceiveNext(i, k)
    PROVE  KStep
<1> DEFINE client == servers[i].q.queue[k]
           q      == take_waiting_message(servers[i].q, k)
           woken  == ready_thread(procs, client.pid, client.tid)
<1>1. /\ May("ReplyAndReceiveNext") /\ Owns(i) /\ IsWaiting(servers[i].q, k)
      /\ SetQueue(i, ReceiveNext(q, tid))
      /\ IF ~HasNextMessage(q) /\ tid \in q.ready_threads THEN Resume(Halt(procs, self), self)
         ELSE IF ~Alive(procs, client.pid) THEN Resume(procs, self)
         ELSE IF HasNextMessage(q) THEN AnswerAndGoOn(woken, client)
         ELSE Resume(activate_process_thread(woken, self, tid, client.pid, client.tid, FALSE),
                     client.pid)
      /\ UNCHANGED switchto_caller /\ UNCHANGED <<threads, connections, handler>>
  BY DEF ReplyAndReceiveNext
<1>2. SchedOK /\ ServersOK
  BY DEF KInv
<1>3. "ReplyAndReceiveNext" \notin InterruptCalls
  BY DEF InterruptCalls
<1>4. ~Panicked(procs) /\ self \in Pids /\ ~handling_irq /\ tid \in Threads
  BY <1>1, <1>2, <1>3, MayFacts
<1>5. servers[i] # NoServer /\ QueueOK(servers[i].q)
  BY <1>1, <1>2, <1>4, OwnerFacts
<1>6. client.pid \in Pids /\ client.tid \in Threads
  BY <1>1, <1>5, ClientFacts
<1>7. QueueOK(q)
  BY <1>1, <1>5, TakeWaitingOK
<1> HIDE DEF client, q
<1>8. ServersOK' /\ SameOwners
  BY <1>1, <1>2, <1>4, <1>5, <1>7, ReceiveNextOK, SetQueueOK
<1>9. SchedStep
  <2>1. CASE Resume(Halt(procs, self), self)
    BY <1>1, <1>2, <2>1, HaltStep
  <2>2. CASE Resume(procs, self)
    BY <1>1, <1>2, <2>2, SchedStays DEF Resume, self
  <2>3. CASE AnswerAndGoOn(woken, client)
    BY <1>1, <1>2, <1>4, <1>6, <2>3, AnswerStep
  <2>4. CASE Resume(activate_process_thread(woken, self, tid, client.pid, client.tid, FALSE),
                    client.pid)
    BY <1>1, <1>2, <1>4, <1>6, <2>4, GiveStep
  <2> QED
    BY <1>1, <2>1, <2>2, <2>3, <2>4
<1> QED
  BY <1>1, <1>8, <1>9, QueueActionStep

\* The actions that leave servers and connections alone.
LEMMA SchedActionStep ==
    ASSUME KInv, SchedStep, ThreadsOK', UNCHANGED <<servers, connections>>
    PROVE  KStep
<1>1. ServersOK /\ ConnsOK
  BY DEF KInv
<1>2. ServersOK' /\ SameOwners
  BY <1>1, ServersStay
<1>3. ConnsOK'
  BY <1>1, <1>2, ConnsStay DEF SchedStep
<1> QED
  BY <1>2, <1>3 DEF KStep, KInv, SchedStep

LEMMA SchedActionsKeep ==
    ASSUME KInv,
           \/ SwitchTo \/ Idle \/ Yield
           \/ CreateThread \/ ExitThread \/ (\E t \in Threads : JoinThread(t))
           \/ \E sid \in SIDs : RetryConnect(sid)
           \/ Interrupt \/ ReturnToParent \/ finish_isr \/ ClaimInterrupt \/ FreeInterrupt
    PROVE  KStep
<1>1. SchedOK /\ ThreadsOK
  BY DEF KInv
<1>2. UNCHANGED <<servers, connections>>
  BY DEF SwitchTo, Idle, Yield, CreateThread, ExitThread, JoinThread, RetryConnect, Interrupt,
     ReturnToParent, finish_isr, ClaimInterrupt, FreeInterrupt
<1>3. ASSUME UNCHANGED <<threads, handler>> PROVE ThreadsOK'
  BY <1>1, <1>3 DEF ThreadsOK
<1>4. CASE SwitchTo
  BY <1>1, <1>2, <1>3, <1>4, SwitchToSched, SchedActionStep DEF SwitchTo
<1>5. CASE Idle
  BY <1>1, <1>2, <1>3, <1>5, SchedStays, SchedActionStep DEF Idle
<1>6. ASSUME NEW call \in {"Yield", "Connect"}, May(call), do_yield, UNCHANGED <<threads, handler>>
      PROVE  KStep
  <2>1. call \notin InterruptCalls
    BY <1>6 DEF InterruptCalls
  <2>2. SchedStep
    BY <1>1, <1>6, <2>1, MayFacts, YieldStep, NumbersOfThreads
  <2> QED
    BY <1>2, <1>3, <1>6, <2>2, SchedActionStep
<1>7. CASE Yield
  BY <1>6, <1>7 DEF Yield
<1>8. CASE \E sid \in SIDs : RetryConnect(sid)
  BY <1>6, <1>8 DEF RetryConnect
<1>9. CASE CreateThread
  BY <1>1, <1>2, <1>9, CreateThreadSched, SchedActionStep
<1>10. CASE ExitThread
  BY <1>1, <1>2, <1>10, ExitThreadSched, SchedActionStep
<1>11. CASE \E t \in Threads : JoinThread(t)
  BY <1>1, <1>2, <1>11, JoinThreadSched, SchedActionStep
<1>12. CASE Interrupt
  BY <1>1, <1>2, <1>3, <1>12, InterruptSched, SchedActionStep DEF Interrupt
<1>13. CASE ReturnToParent
  BY <1>1, <1>2, <1>3, <1>13, ReturnToParentSched, SchedActionStep DEF ReturnToParent
<1>14. CASE finish_isr
  BY <1>1, <1>2, <1>3, <1>14, FinishSched, SchedActionStep DEF finish_isr
<1>15. CASE ClaimInterrupt \/ FreeInterrupt
  <2>1. UNCHANGED sched /\ UNCHANGED threads /\ handler' \in {self, NoPid}
    BY <1>15 DEF ClaimInterrupt, FreeInterrupt
  <2>2. self \in Pids
    BY <1>1, <1>15, MayFacts DEF ClaimInterrupt, FreeInterrupt
  <2>3. ThreadsOK'
    BY <1>1, <2>1, <2>2 DEF ThreadsOK
  <2>4. SchedStep
    BY <1>1, <2>1, SchedStays DEF sched
  <2> QED
    BY <1>2, <2>3, <2>4, SchedActionStep
<1> QED
  BY <1>4, <1>5, <1>7, <1>8, <1>9, <1>10, <1>11, <1>12, <1>13, <1>14, <1>15

ConnMap == [Conns -> 0 .. NumServers + 1]

\* connect_to_server changes at most one connection, which then leads to a
\* server with the address.
LEMMA ConnectFacts ==
    ASSUME NEW cm \in ConnMap, NEW sv, NEW sid
    PROVE  /\ connect_to_server(cm, sv, sid) \in ConnMap
           /\ \A c \in Conns : \/ connect_to_server(cm, sv, sid)[c] = cm[c]
                               \/ connect_to_server(cm, sv, sid)[c] - 2 \in WithSid(sv, sid)
<1> DEFINE dm == connect_to_server(cm, sv, sid)
           a  == Least(UnusedConns(cm))
           b  == Least(WithSid(sv, sid))
<1>1. CASE dm = cm
  BY <1>1
<1>2. CASE dm # cm
  <2>1. /\ UnusedConns(cm) # {} /\ WithSid(sv, sid) # {}
        /\ dm = [cm EXCEPT ![a] = b + 2]
    BY <1>2 DEF connect_to_server
  <2>2. UnusedConns(cm) \in SUBSET Nat /\ WithSid(sv, sid) \in SUBSET Nat
    BY KernelAssumption DEF UnusedConns, WithSid, Conns, Sidxs
  <2>3. /\ \E x \in UnusedConns(cm) : \A y \in UnusedConns(cm) : x <= y
        /\ \E x \in WithSid(sv, sid) : \A y \in WithSid(sv, sid) : x <= y
    BY <2>1, <2>2, LeastNatural
  <2>4. a \in UnusedConns(cm) /\ b \in WithSid(sv, sid)
    BY <2>3 DEF Least
  <2> HIDE DEF a, b
  <2>5. a \in Conns /\ b \in Sidxs
    BY <2>4 DEF UnusedConns, WithSid
  <2>6. b + 2 \in 0 .. NumServers + 1 /\ (b + 2) - 2 = b
    BY <2>5, KernelAssumption DEF Sidxs
  <2>7. dm \in ConnMap /\ \A c \in Conns : dm[c] = IF c = a THEN b + 2 ELSE cm[c]
    BY <2>1, <2>5, <2>6 DEF ConnMap
  <2> HIDE DEF dm
  <2> QED
    BY <2>4, <2>6, <2>7 DEF dm
<1> QED
  BY <1>1, <1>2

\* A server with an address is there.
LEMMA SidFacts ==
    ASSUME NEW sv, NEW sid \in SIDs, NEW i \in WithSid(sv, sid)
    PROVE  i \in Sidxs /\ sv[i] # NoServer
  BY KernelAssumption DEF WithSid, NoServer

LEMMA ConnectKeeps ==
    ASSUME KInv, NEW sid \in SIDs, Connect(sid)
    PROVE  KStep
<1> DEFINE dm == connect_to_server(connections[self], servers, sid)
<1>1. /\ May("Connect") \/ May("TryConnect")
      /\ connections' = [connections EXCEPT ![self] = dm]
      /\ UNCHANGED sched /\ UNCHANGED <<threads, servers, handler>>
  BY DEF Connect
<1>2. SchedOK /\ ServersOK /\ ConnsOK /\ ThreadsOK
  BY DEF KInv
<1>3. self \in Pids /\ Alive(procs, self)
  BY <1>1, <1>2, MayFacts, CallerFacts
<1>4. SchedStep
  BY <1>1, <1>2, SchedStays DEF sched
<1>5. connections \in [Pids -> ConnMap]
  BY <1>2 DEF ConnsOK, ConnMap
<1>6. /\ dm \in ConnMap
      /\ \A c \in Conns : dm[c] = connections[self][c] \/ dm[c] - 2 \in WithSid(servers, sid)
  BY <1>3, <1>5, ConnectFacts
<1> HIDE DEF dm
<1>7. /\ connections' \in [Pids -> ConnMap]
      /\ \A p \in Pids : connections'[p] = IF p = self THEN dm ELSE connections[p]
  BY <1>1, <1>3, <1>5, <1>6
<1>8. ASSUME NEW p \in Pids, NEW c \in Conns, connections'[p][c] > TOMBSTONE
      PROVE  servers[connections'[p][c] - 2] # NoServer
  <2>1. CASE connections'[p][c] = connections[p][c]
    BY <1>2, <1>8, <2>1, ConnectionFacts
  <2>2. CASE connections'[p][c] # connections[p][c]
    BY <1>6, <1>7, <2>2, SidFacts
  <2> QED
    BY <2>1, <2>2
<1>9. procs' = procs
  BY <1>1 DEF sched
<1>10. ConnsOK'
  BY <1>1, <1>2, <1>3, <1>7, <1>8, <1>9 DEF ConnsOK, NoDanglingConnection, ConnMap
<1>11. ServersOK' /\ ThreadsOK'
  BY <1>1, <1>2 DEF ServersOK, ThreadsOK
<1> QED
  BY <1>4, <1>10, <1>11 DEF KStep, KInv, SchedStep

LEMMA DisconnectKeeps ==
    ASSUME KInv, NEW c \in Conns, Disconnect(c)
    PROVE  KStep
<1>1. /\ May("Disconnect") /\ connections' = [connections EXCEPT ![self][c] = Unused]
      /\ UNCHANGED sched /\ UNCHANGED <<threads, servers, handler>>
  BY DEF Disconnect
<1>2. SchedOK /\ ServersOK /\ ConnsOK /\ ThreadsOK
  BY DEF KInv
<1>3. self \in Pids
  BY <1>1, <1>2, MayFacts
<1>4. SchedStep
  BY <1>1, <1>2, SchedStays DEF sched
<1>5. Unused \in 0 .. NumServers + 1 /\ ~(Unused > TOMBSTONE)
  BY KernelAssumption DEF Unused, TOMBSTONE
<1>6. /\ connections' \in [Pids -> [Conns -> 0 .. NumServers + 1]]
      /\ \A p \in Pids, d \in Conns : connections'[p][d] \in {connections[p][d], Unused}
  BY <1>1, <1>2, <1>3, <1>5 DEF ConnsOK
<1>7. ConnsOK'
  <2>1. procs' = procs
    BY <1>1 DEF sched
  <2> QED
    BY <1>1, <1>2, <1>5, <1>6, <2>1 DEF ConnsOK, NoDanglingConnection
<1>8. ServersOK' /\ ThreadsOK'
  BY <1>1, <1>2 DEF ServersOK, ThreadsOK
<1> QED
  BY <1>4, <1>7, <1>8 DEF KStep, KInv, SchedStep

LEMMA CreateServerKeeps ==
    ASSUME KInv, NEW sid \in SIDs, CreateServer(sid)
    PROVE  KStep
<1> DEFINE a  == Least(FreeServers)
           v  == [pid |-> self, sid |-> sid, q |-> init]
           sv == [servers EXCEPT ![a] = v]
           dm == connect_to_server(connections[self], sv, sid)
<1>1. /\ May("CreateServer") /\ FreeServers # {}
      /\ servers' = sv /\ connections' = [connections EXCEPT ![self] = dm]
      /\ UNCHANGED sched /\ UNCHANGED <<threads, handler>>
  BY DEF CreateServer
<1>2. SchedOK /\ ServersOK /\ ConnsOK /\ ThreadsOK
  BY DEF KInv
<1>3. self \in Pids /\ Alive(procs, self)
  BY <1>1, <1>2, MayFacts, CallerFacts
<1>4. SchedStep
  BY <1>1, <1>2, SchedStays DEF sched
<1>5. a \in Sidxs /\ servers[a] = NoServer
  <2>1. FreeServers \in SUBSET Nat
    BY KernelAssumption DEF FreeServers, Sidxs
  <2>2. \E x \in FreeServers : \A y \in FreeServers : x <= y
    BY <1>1, <2>1, LeastNatural
  <2>3. a \in FreeServers
    BY <2>2 DEF Least
  <2> QED
    BY <2>3 DEF FreeServers
<1> HIDE DEF a
<1>6. v \in ServerEntry /\ v.pid = self /\ v.q = init /\ v # NoServer
  BY <1>3, InitOK, NumbersOfThreads DEF ServerEntry, QueueOK, NoServer
<1> HIDE DEF v
<1>7. /\ sv \in [Sidxs -> ServerEntry \cup {NoServer}]
      /\ \A j \in Sidxs : sv[j] = IF j = a THEN v ELSE servers[j]
  BY <1>2, <1>5, <1>6 DEF ServersOK
<1> HIDE DEF sv
<1>8. ServersOK'
  BY <1>1, <1>2, <1>6, <1>7, InitOK DEF ServersOK
<1>9. connections \in [Pids -> ConnMap]
  BY <1>2 DEF ConnsOK, ConnMap
<1>10. /\ dm \in ConnMap
       /\ \A c \in Conns : dm[c] = connections[self][c] \/ dm[c] - 2 \in WithSid(sv, sid)
  BY <1>3, <1>9, ConnectFacts
<1> HIDE DEF dm
<1>11. /\ connections' \in [Pids -> ConnMap]
       /\ \A p \in Pids : connections'[p] = IF p = self THEN dm ELSE connections[p]
  BY <1>1, <1>3, <1>9, <1>10
<1>12. ASSUME NEW p \in Pids, NEW c \in Conns, connections'[p][c] > TOMBSTONE
       PROVE  sv[connections'[p][c] - 2] # NoServer
  <2>1. CASE connections'[p][c] = connections[p][c]
    BY <1>2, <1>5, <1>7, <1>12, <2>1, ConnectionFacts
  <2>2. CASE connections'[p][c] # connections[p][c]
    BY <1>10, <1>11, <2>2, SidFacts
  <2> QED
    BY <2>1, <2>2
<1>13. procs' = procs
  BY <1>1 DEF sched
<1>14. \A i \in Sidxs : sv[i] # NoServer => Alive(procs, sv[i].pid)
  BY <1>2, <1>3, <1>6, <1>7 DEF ConnsOK, NoDanglingConnection
<1>15. ConnsOK'
  BY <1>1, <1>2, <1>3, <1>11, <1>12, <1>13, <1>14 DEF ConnsOK, NoDanglingConnection, ConnMap
<1>16. ThreadsOK'
  BY <1>1, <1>2 DEF ThreadsOK
<1> QED
  BY <1>4, <1>8, <1>15, <1>16 DEF KStep, KInv, SchedStep

LEMMA DestroyServerKeeps ==
    ASSUME KInv, NEW i \in Sidxs, DestroyServer(i)
    PROVE  KStep
<1>1. /\ May("DestroyServer")
      /\ \E W : Resume(activate_each(ReadyAll(procs, W)), self)
      /\ servers' = [servers EXCEPT ![i] = NoServer]
      /\ connections' = ReplaceConns(i, Unused)
      /\ UNCHANGED <<switchto_caller, threads, handler>>
  BY DEF DestroyServer
<1>2. SchedOK /\ ServersOK /\ ConnsOK /\ ThreadsOK
  BY DEF KInv
<1>3. PICK W : Resume(activate_each(ReadyAll(procs, W)), self)
  BY <1>1
<1>4. /\ TableOK(procs) /\ self \in Procs /\ procs[self].state = "Running"
      /\ IsPair(switchto_caller')
  BY <1>1, <1>2, MayFacts, CallerFacts DEF SchedOK
<1>5. SchedStep
  <2> DEFINE rs == ReadyAll(procs, W)
             qs == activate_each(rs)
  <2>1. Moves(procs, rs, {}) /\ rs[self].state \in {"Running", "Panic"}
    BY <1>4, ReadyAllMoves
  <2>2. TableOK(rs)
    BY <2>1 DEF Moves
  <2>3. Resume(qs, self)
    BY <1>3
  <2> HIDE DEF rs
  <2>4. Moves(rs, qs, {}) /\ qs[self].state \in {rs[self].state, "Panic"}
    BY <1>4, <2>2, ActivateEachMoves
  <2> HIDE DEF qs
  <2>5. Moves(procs, qs, {} \cup {}) /\ {} \cup {} = {}
    BY <2>1, <2>4, MovesTransitive
  <2>6. Moves(procs, qs, {}) /\ qs[self].state \in {"Running", "Panic"}
    BY <2>1, <2>4, <2>5
  <2> QED
    BY <1>2, <1>4, <2>3, <2>6, ResumeStep
<1>6. /\ servers' \in [Sidxs -> ServerEntry \cup {NoServer}]
      /\ \A j \in Sidxs : servers'[j] = IF j = i THEN NoServer ELSE servers[j]
  BY <1>1, <1>2 DEF ServersOK
<1>7. NoServer.q = init
  BY DEF NoServer
<1>8. ServersOK'
  BY <1>2, <1>6, <1>7, InitOK DEF ServersOK
<1>9. \A p \in Pids, c \in Conns :
          connections'[p][c] = IF Alive(procs, p) /\ connections[p][c] = i + 2
                               THEN Unused ELSE connections[p][c]
  BY <1>1 DEF ReplaceConns
<1>10. Unused \in 0 .. NumServers + 1 /\ ~(Unused > TOMBSTONE)
  BY KernelAssumption DEF Unused, TOMBSTONE
<1>11. connections' \in [Pids -> [Conns -> 0 .. NumServers + 1]]
  BY <1>1, <1>2, <1>10 DEF ReplaceConns, ConnsOK
<1>12. ASSUME NEW p \in Pids, NEW c \in Conns, connections'[p][c] > TOMBSTONE
       PROVE  servers'[connections'[p][c] - 2] # NoServer
  <2>1. connections'[p][c] = connections[p][c] /\ Alive(procs, p)
    BY <1>2, <1>9, <1>10, <1>12 DEF ConnsOK
  <2>2. connections[p][c] # i + 2
    BY <1>9, <1>10, <1>12, <2>1
  <2>3. connections[p][c] \in Int /\ i \in Int
    BY <1>2, KernelAssumption DEF ConnsOK, Sidxs
  <2>4. connections[p][c] - 2 # i
    BY <2>2, <2>3
  <2> QED
    BY <1>2, <1>6, <1>12, <2>1, <2>4, ConnectionFacts
<1>13. ASSUME NEW j \in Sidxs, servers'[j] # NoServer PROVE Alive(procs', servers'[j].pid)
  <2>1. servers'[j] = servers[j] /\ servers[j] # NoServer
    BY <1>6, <1>13
  <2>2. servers[j].pid \in Procs /\ Alive(procs, servers[j].pid)
    BY <1>2, <2>1, ServerFacts, NumbersOfThreads DEF ConnsOK, NoDanglingConnection
  <2> QED
    BY <1>5, <2>1, <2>2 DEF SchedStep, NoneFreed
<1>14. ASSUME NEW p \in Pids, ~Alive(procs', p), NEW c \in Conns
       PROVE  connections'[p][c] = Unused
  <2>1. ~Alive(procs, p)
    BY <1>5, <1>14, NumbersOfThreads DEF SchedStep, NoneFreed
  <2> QED
    BY <1>2, <1>9, <2>1 DEF ConnsOK
<1>15. ConnsOK'
  BY <1>11, <1>12, <1>13, <1>14 DEF ConnsOK, NoDanglingConnection
<1>16. ThreadsOK'
  BY <1>1, <1>2 DEF ThreadsOK
<1> QED
  BY <1>5, <1>8, <1>15, <1>16 DEF KStep, KInv, SchedStep

LEMMA TerminateKeeps ==
    ASSUME KInv, TerminateProcess
    PROVE  KStep
<1> DEFINE mine  == {i \in Sidxs : Owns(i)}
           swept == IF mine = {} THEN procs ELSE activate_each(procs)
           ps    == unschedule_thread(swept, self, tid)
           freed == [ps EXCEPT ![self] = IF Panicked(ps) THEN @ ELSE FreeProcess]
           qs    == switch_to_thread(freed, KERNEL_PID, ANY)
<1>1. /\ May("TerminateProcess")
      /\ servers' = [i \in Sidxs |->
             IF i \in mine \/ servers[i] = NoServer THEN NoServer
             ELSE [servers[i] EXCEPT !.q = discard_messages_for_pid(@, self)]]
      /\ connections' = Tombstones(mine, self)
      /\ Resume(qs, KERNEL_PID) /\ switchto_caller' = NONE
      /\ threads' = [threads EXCEPT ![self] = NoThreads]
      /\ handler' = IF handler = self THEN NoPid ELSE handler
  BY DEF TerminateProcess
<1>2. SchedOK /\ ServersOK /\ ConnsOK /\ ThreadsOK
  BY DEF KInv
<1>3. "TerminateProcess" \notin InterruptCalls
  BY DEF InterruptCalls
<1>4. /\ ~Panicked(procs) /\ self \in Pids /\ self \in Procs /\ self # KERNEL_PID
      /\ ~handling_irq /\ TableOK(procs) /\ KERNEL_PID \in Procs
      /\ \A p \in Procs : RunsThread(procs, p)
  BY <1>1, <1>2, <1>3, MayFacts, CallerFacts, NumbersOfThreads
<1>5. Stopped(procs, ps, self) /\ TableOK(ps)
  <2>1. /\ Moves(procs, swept, {}) /\ TableOK(swept)
        /\ \A r \in Procs : r # self => swept[r] = procs[r]
    BY <1>4, ActivateEachMoves, MovesNowhere DEF Moves
  <2> HIDE DEF swept
  <2>2. Stopped(swept, ps, self)
    BY <1>4, <2>1, UnscheduleMoves
  <2> HIDE DEF ps
  <2>3. Moves(procs, ps, {} \cup {}) /\ {} \cup {} = {}
    BY <2>1, <2>2, MovesTransitive DEF Stopped
  <2>4. Moves(procs, ps, {})
    BY <2>3
  <2> QED
    BY <2>1, <2>2, <2>4 DEF Stopped, Moves
<1>6. FreeProcess \in Process /\ FreeProcess.state = "Free"
  BY NumbersOfThreads DEF FreeProcess, Process, States
<1> HIDE DEF ps
<1>7. /\ freed \in [Procs -> Process]
      /\ \A r \in Procs : r # self => freed[r] = ps[r]
      /\ freed[self] = ps[self] \/ freed[self] = FreeProcess
  BY <1>4, <1>5, <1>6 DEF TableOK
<1> HIDE DEF freed
<1>8. TableOK(freed)
  BY <1>4, <1>5, <1>6, <1>7 DEF TableOK
<1>9. /\ \A r \in Procs : RunsThread(freed, r)
      /\ freed[self].state # "Running"
      /\ \A r \in Procs : freed[r].state = "Running" => procs[r].state = "Running"
      /\ \A r \in Procs : r # self /\ Alive(procs, r) => Alive(freed, r)
  BY <1>4, <1>5, <1>6, <1>7 DEF Stopped, Moves, RunsThread, Alive
<1>10. Ran(freed, qs, KERNEL_PID)
  BY <1>4, <1>8, <1>9, SwitchToThreadMoves
<1> HIDE DEF qs
<1>11. /\ TableOK(qs) /\ \A r \in Procs : RunsThread(qs, r)
       /\ \A r \in Procs : r # KERNEL_PID /\ qs[r].state = "Running"
                               => r # self /\ procs[r].state = "Running"
       /\ \A r \in Procs : r # self /\ Alive(procs, r) => Alive(qs, r)
       /\ ~Panicked(qs) => qs[KERNEL_PID].state = "Running"
  BY <1>4, <1>9, <1>10 DEF Ran, Moves, Panicked
<1>12. /\ procs' = qs /\ current_pid' = KERNEL_PID
       /\ UNCHANGED <<previous_pair, handling_irq>>
  BY <1>1 DEF Resume
<1>13. SchedOK'
  BY <1>1, <1>2, <1>4, <1>11, <1>12 DEF SchedOK, NoPanic, in_irq, IsPair
<1>14. OthersRest => OthersRest'
  BY <1>11, <1>12 DEF OthersRest, self
<1>15. ThreadsOK'
  <2>1. NoThreads \in ThreadTable
    BY NumbersOfThreads DEF NoThreads, ThreadTable, IRQ_TID
  <2> QED
    BY <1>1, <1>2, <2>1 DEF ThreadsOK
<1>16. ASSUME NEW j \in Sidxs
       PROVE  /\ servers'[j] \in ServerEntry \cup {NoServer} /\ QueueOK(servers'[j].q)
              /\ servers'[j] # NoServer
                     <=> servers[j] # NoServer /\ servers[j].pid # self
              /\ servers'[j] # NoServer => servers'[j].pid = servers[j].pid
  <2> DEFINE v == [servers[j] EXCEPT !.q = discard_messages_for_pid(@, self)]
  <2>1. servers'[j] = IF servers[j].pid = self \/ servers[j] = NoServer THEN NoServer ELSE v
    BY <1>1 DEF Owns
  <2>2. CASE servers[j].pid = self \/ servers[j] = NoServer
    BY <2>1, <2>2, InitOK DEF NoServer
  <2>3. CASE ~(servers[j].pid = self \/ servers[j] = NoServer)
    <3>1. servers[j] \in ServerEntry /\ servers[j].pid \in Pids /\ QueueOK(servers[j].q)
      BY <1>2, <2>3, ServerFacts DEF ServersOK
    <3>2. QueueOK(discard_messages_for_pid(servers[j].q, self))
      BY <3>1, DiscardOK
    <3>3. /\ v \in ServerEntry /\ v.pid = servers[j].pid
          /\ v.q = discard_messages_for_pid(servers[j].q, self)
      BY <3>1, <3>2 DEF ServerEntry, QueueOK
    <3>4. v # NoServer
      BY <3>1, <3>3, NumbersOfThreads DEF NoServer
    <3> HIDE DEF v
    <3> QED
      BY <2>1, <2>3, <3>2, <3>3, <3>4
  <2> QED
    BY <2>2, <2>3
<1>17. ServersOK'
  <2>1. servers' \in [Sidxs -> ServerEntry \cup {NoServer}]
    BY <1>1, <1>16
  <2> QED
    BY <1>16, <2>1 DEF ServersOK
<1>18. \A p \in Pids, c \in Conns :
           connections'[p][c] = IF p = self THEN Unused
                                ELSE IF connections[p][c] - 2 \in mine THEN TOMBSTONE
                                ELSE connections[p][c]
  BY <1>1 DEF Tombstones
<1>19. connections' \in [Pids -> [Conns -> 0 .. NumServers + 1]]
  <2>1. {Unused, TOMBSTONE} \subseteq 0 .. NumServers + 1
    BY KernelAssumption DEF Unused, TOMBSTONE
  <2>2. \A p \in Pids, c \in Conns : connections'[p][c] \in 0 .. NumServers + 1
    BY <1>2, <1>18, <2>1 DEF ConnsOK
  <2>3. connections' = [p \in Pids |-> [c \in Conns |-> connections'[p][c]]]
    BY <1>1 DEF Tombstones
  <2> QED
    BY <2>2, <2>3
<1>20. ASSUME NEW p \in Pids, NEW c \in Conns, connections'[p][c] > TOMBSTONE
       PROVE  servers'[connections'[p][c] - 2] # NoServer
  <2>1. ~(Unused > TOMBSTONE) /\ ~(TOMBSTONE > TOMBSTONE)
    BY DEF Unused, TOMBSTONE
  <2>2. connections'[p][c] = connections[p][c] /\ connections[p][c] - 2 \notin mine
    BY <1>18, <1>20, <2>1
  <2>3. connections[p][c] - 2 \in Sidxs /\ servers[connections[p][c] - 2] # NoServer
    BY <1>2, <1>20, <2>2, ConnectionFacts
  <2>4. servers[connections[p][c] - 2].pid # self
    BY <2>2, <2>3 DEF Owns
  <2> QED
    BY <1>16, <2>2, <2>3, <2>4
<1>21. ASSUME NEW j \in Sidxs, servers'[j] # NoServer PROVE Alive(procs', servers'[j].pid)
  <2>1. servers[j] # NoServer /\ servers[j].pid # self /\ servers'[j].pid = servers[j].pid
    BY <1>16, <1>21
  <2>2. servers[j].pid \in Procs /\ Alive(procs, servers[j].pid)
    BY <1>2, <2>1, ServerFacts, NumbersOfThreads DEF ConnsOK, NoDanglingConnection
  <2> QED
    BY <1>11, <1>12, <2>1, <2>2
<1>22. ASSUME NEW p \in Pids, ~Alive(procs', p), NEW c \in Conns
       PROVE  connections'[p][c] = Unused
  <2>1. CASE p = self
    BY <1>18, <2>1
  <2>2. CASE p # self
    <3>1. ~Alive(procs, p)
      BY <1>11, <1>12, <1>22, <2>2, NumbersOfThreads
    <3>2. connections[p][c] = Unused
      BY <1>2, <3>1 DEF ConnsOK
    <3>3. Unused - 2 \notin Sidxs
      BY KernelAssumption DEF Unused, Sidxs
    <3> QED
      BY <1>18, <2>2, <3>2, <3>3
  <2> QED
    BY <2>1, <2>2
<1>23. ConnsOK'
  BY <1>19, <1>20, <1>21, <1>22 DEF ConnsOK, NoDanglingConnection
<1> QED
  BY <1>13, <1>14, <1>15, <1>17, <1>23 DEF KStep, KInv

LEMMA NextKeeps ==
    ASSUME KInv, [Next]_vars
    PROVE  KStep
<1>1. ASSUME NEW c \in Conns, NEW m \in Outgoing,
             \/ Enqueue(c, m) \/ HandOff(c, m) \/ HandOffBlocking(c, m)
             \/ RetrySend(c, m) \/ TrySendFails(c, m)
      PROVE  KStep
  BY <1>1, EnqueueKeeps, HandOffKeeps, HandOffBlockingKeeps, RetrySendKeeps, TrySendFailsKeeps
<1>2. CASE Send
  BY <1>1, <1>2 DEF Send
<1>3. ASSUME NEW i \in Sidxs,
             \/ Receive(i) \/ Wait(i) \/ DestroyServer(i)
             \/ \E k \in Slots : Reply(i, k) \/ ReplyAndReceiveNext(i, k)
      PROVE  KStep
  BY <1>3, ReceiveKeeps, WaitKeeps, DestroyServerKeeps, ReplyKeeps, ReplyAndReceiveNextKeeps
<1>4. CASE Serve
  BY <1>3, <1>4 DEF Serve
<1>5. CASE \E sid \in SIDs : CreateServer(sid) \/ Connect(sid)
  BY <1>5, CreateServerKeeps, ConnectKeeps
<1>6. CASE \E c \in Conns : Disconnect(c)
  BY <1>6, DisconnectKeeps
<1>7. CASE TerminateProcess
  BY <1>7, TerminateKeeps
<1>8. CASE UNCHANGED vars
  <2>1. SchedOK /\ ThreadsOK
    BY DEF KInv
  <2>2. SchedStep
    BY <1>8, <2>1, SchedStays DEF vars, sched
  <2>3. ThreadsOK' /\ UNCHANGED <<servers, connections>>
    BY <1>8, <2>1 DEF vars, ThreadsOK
  <2> QED
    BY <2>2, <2>3, SchedActionStep
<1> QED
  BY <1>2, <1>4, <1>5, <1>6, <1>7, <1>8, SchedActionsKeep DEF Next

LEMMA InitKeeps == Init => KInv /\ OthersRest
<1> SUFFICES ASSUME Init PROVE KInv /\ OthersRest
  OBVIOUS
<1>1. PICK booted \in Boots : Starts(booted)
  BY DEF Init
<1>2. booted \subseteq Pids
  BY KernelAssumption
<1>3. /\ FreeProcess \in Process /\ FreeProcess.state = "Free"
      /\ NewProcess \in Process /\ NewProcess.state = "Ready" /\ NewProcess.ready # {}
      /\ SetupProcess \in Process /\ SetupProcess.state = "Setup"
  BY NumbersOfThreads DEF FreeProcess, NewProcess, SetupProcess, Process, States
<1> DEFINE none == [q \in Procs |-> FreeProcess]
           k    == Run(none, KERNEL_PID, INITIAL_TID, {})[KERNEL_PID]
<1>4. k \in Process /\ k.state = "Running" /\ k.current = INITIAL_TID
  BY NumbersOfThreads DEF Run, Process, States
<1>5. /\ procs \in [Procs -> Process] /\ procs[KERNEL_PID] = k
      /\ \A p \in Procs : p # KERNEL_PID => procs[p] \in {NewProcess, SetupProcess, FreeProcess}
  <2>1. procs = [p \in Procs |->
                   CASE p = KERNEL_PID -> Run(none, p, INITIAL_TID, {})[p]
                     [] p \in booted \cap Started -> NewProcess
                     [] p \in booted \ Started -> SetupProcess
                     [] OTHER -> FreeProcess]
    BY <1>1 DEF Starts
  <2>2. procs[KERNEL_PID] = k
    <3>1. KERNEL_PID \notin booted /\ KERNEL_PID \in Procs
      BY <1>2, NumbersOfThreads
    <3> HIDE DEF none
    <3> QED
      BY <2>1, <3>1
  <2>3. ASSUME NEW p \in Procs, p # KERNEL_PID
        PROVE  procs[p] \in {NewProcess, SetupProcess, FreeProcess}
    <3> HIDE DEF none
    <3> QED
      BY <2>1, <2>3
  <2>4. procs = [p \in Procs |-> procs[p]]
    BY <2>1
  <2> HIDE DEF k
  <2>5. \A p \in Procs : procs[p] \in Process
    BY <1>3, <1>4, <2>2, <2>3
  <2> QED
    BY <2>2, <2>3, <2>4, <2>5
<1> HIDE DEF k
<1>6. TableOK(procs)
  BY <1>3, <1>4, <1>5 DEF TableOK
<1>7. /\ current_pid = KERNEL_PID /\ switchto_caller = NONE /\ previous_pair = NONE
      /\ handling_irq = FALSE
      /\ servers = [i \in Sidxs |-> NoServer]
      /\ connections = [p \in Pids |-> [c \in Conns |-> Unused]]
  BY DEF Init
<1>8. \A p \in Procs : RunsThread(procs, p)
  BY <1>3, <1>4, <1>5, NumbersOfThreads DEF RunsThread
<1>9. SchedOK
  BY <1>4, <1>5, <1>6, <1>7, <1>8, NumbersOfThreads DEF SchedOK, IsPair
<1>10. OthersRest
  BY <1>3, <1>5, <1>7 DEF OthersRest
<1>11. ServersOK
  <2>1. NoServer.q = init
    BY DEF NoServer
  <2> QED
    BY <1>7, <2>1, InitOK DEF ServersOK
<1>12. ConnsOK
  <2>1. Unused \in 0 .. NumServers + 1 /\ ~(Unused > TOMBSTONE)
    BY KernelAssumption DEF Unused, TOMBSTONE
  <2> QED
    BY <1>7, <2>1 DEF ConnsOK, NoDanglingConnection
<1>13. ThreadsOK
  <2>1. NoThreads \in ThreadTable
    BY NumbersOfThreads DEF NoThreads, ThreadTable, IRQ_TID
  <2>2. OneThread \in ThreadTable
    BY <2>1, NumbersOfThreads DEF OneThread, ThreadTable
  <2>3. /\ threads = [p \in Pids |-> IF p \in booted THEN OneThread ELSE NoThreads]
        /\ handler = IF IrqOwner \in booted THEN IrqOwner ELSE NoPid
    BY <1>1 DEF Starts
  <2> QED
    BY <1>2, <2>1, <2>2, <2>3 DEF ThreadsOK
<1> QED
  BY <1>9, <1>10, <1>11, <1>12, <1>13 DEF KInv

-----------------------------------------------------------------------------
(***************************************************************************)
(* Each server's queue is one of module ServerQueue.  The operators of its *)
(* instance for server i are those of module Server.                       *)
(***************************************************************************)
LEMMA InstanceSets ==
    ASSUME NEW i
    PROVE  Queue(i)!Slots = Slots /\ Queue(i)!Message = Message
  BY DEF Queue!Slots, Slots, Queue!Message, Message, Queue!Kinds, Queue!ScalarKinds,
     Queue!MemoryKinds, Kinds, ScalarKinds, MemoryKinds

LEMMA InstanceTests ==
    ASSUME NEW i, NEW q, NEW m, NEW k
    PROVE  /\ Queue(i)!CanDeliver(q, m) <=> CanDeliver(q, m)
           /\ Queue(i)!Blocking(m) <=> Blocking(m)
           /\ Queue(i)!EmptySlots(q) = EmptySlots(q)
           /\ Queue(i)!IsWaiting(q, k) <=> IsWaiting(q, k)
           /\ Queue(i)!HasNextMessage(q) <=> HasNextMessage(q)
<1>1. Queue(i)!EmptySlots(q) = EmptySlots(q)
  BY DEF Queue!EmptySlots, EmptySlots, Queue!Slots, Slots, Queue!IsEmpty, IsEmpty
<1>2. Queue(i)!Blocking(m) <=> Blocking(m)
  BY DEF Queue!Blocking, Blocking, Queue!BlockingKinds, BlockingKinds
<1>3. Queue(i)!CanDeliver(q, m) <=> CanDeliver(q, m)
  BY <1>1, <1>2 DEF Queue!CanDeliver, CanDeliver, Queue!HasMemory, HasMemory, Queue!MemoryKinds,
     MemoryKinds, Queue!has_queue_capacity, has_queue_capacity,
     Queue!has_queue_capacity_scalar, has_queue_capacity_scalar,
     Queue!GenerationsFull, GenerationsFull, Queue!PrevGen, PrevGen
<1>4. Queue(i)!IsWaiting(q, k) <=> IsWaiting(q, k)
  BY DEF Queue!IsWaiting, IsWaiting, Queue!Slots, Slots, Queue!is_in_server, is_in_server,
     Queue!WaitingTags, WaitingTags
<1>5. Queue(i)!HasNextMessage(q) <=> HasNextMessage(q)
  BY DEF Queue!HasNextMessage, HasNextMessage, Queue!NextMessageSlots, NextMessageSlots,
     Queue!Slots, Slots, Queue!IsUnread, IsUnread, Queue!UnreadTags, UnreadTags,
     Queue!QueuedTags, QueuedTags, Queue!TerminatedTags, TerminatedTags
<1> QED
  BY <1>1, <1>2, <1>3, <1>4, <1>5

LEMMA InstanceUpdates ==
    ASSUME NEW i, NEW q, NEW m, NEW k, NEW t, NEW pid
    PROVE  /\ Queue(i)!queue_message(q, m) = queue_message(q, m)
           /\ Queue(i)!queue_response(q, m) = queue_response(q, m)
           /\ Queue(i)!take_next_message(q) = take_next_message(q)
           /\ Queue(i)!take_waiting_message(q, k) = take_waiting_message(q, k)
           /\ Queue(i)!discard_messages_for_pid(q, pid) = discard_messages_for_pid(q, pid)
           /\ Queue(i)!take_available_thread(q) = take_available_thread(q)
           /\ Queue(i)!ReceiveNext(q, t) = ReceiveNext(q, t)
<1> USE DEF Queue!FirstFrom, FirstFrom, Queue!SlotDist, SlotDist, Queue!Slots, Slots,
            Queue!NextSlot, NextSlot, Queue!NextGen, NextGen, Queue!IsEmpty, IsEmpty
<1>1. Queue(i)!queue_message(q, m) = queue_message(q, m)
  BY DEF Queue!queue_message, queue_message, Queue!EmptySlots, EmptySlots, Queue!QueuedTag,
     QueuedTag, Queue!FillSlot, FillSlot
<1>2. Queue(i)!queue_response(q, m) = queue_response(q, m)
  BY DEF Queue!queue_response, queue_response, Queue!ResponseSlot, ResponseSlot,
     Queue!EmptySlots, EmptySlots, Queue!ResponseTag, ResponseTag, Queue!FillSlot, FillSlot,
     Queue!ScalarKinds, ScalarKinds
<1>3. Queue(i)!take_next_message(q) = take_next_message(q)
  BY DEF Queue!take_next_message, take_next_message, Queue!NextMessageSlot, NextMessageSlot,
     Queue!NextMessageSlots, NextMessageSlots, Queue!AfterReceive, AfterReceive, Queue!Empty,
     Empty, Queue!IsUnread, IsUnread, Queue!UnreadTags, UnreadTags, Queue!QueuedTags,
     QueuedTags, Queue!TerminatedTags, TerminatedTags
<1>4. Queue(i)!take_waiting_message(q, k) = take_waiting_message(q, k)
  BY DEF Queue!take_waiting_message, take_waiting_message, Queue!Empty, Empty
<1>5. Queue(i)!discard_messages_for_pid(q, pid) = discard_messages_for_pid(q, pid)
  BY DEF Queue!discard_messages_for_pid, discard_messages_for_pid, Queue!Terminated, Terminated
<1>6. Queue(i)!take_available_thread(q) = take_available_thread(q)
  BY DEF Queue!take_available_thread, take_available_thread, Queue!AvailableThread, AvailableThread
<1>7. Queue(i)!ReceiveNext(q, t) = ReceiveNext(q, t)
  BY <1>3, InstanceTests DEF Queue!ReceiveNext, ReceiveNext, Queue!park_thread, park_thread
<1> QED
  BY <1>1, <1>2, <1>3, <1>4, <1>5, <1>6, <1>7

\* What one server's queue may do in a step.
QueueMoves(i) ==
    \/ Queue(i)!Next \/ servers'[i].q = servers[i].q
    \/ servers'[i].pid # servers[i].pid /\ servers'[i].q = init

LEMMA SendMoves ==
    ASSUME NEW i, NEW m \in Message,
           LET q == servers[i].q
           IN  \/ /\ q.ready_threads = {} /\ CanDeliver(q, m) /\ EmptySlots(q) # {}
                  /\ servers'[i].q = queue_message(q, m)
               \/ /\ q.ready_threads # {} /\ CanDeliver(q, m) /\ Blocking(m) /\ EmptySlots(q) # {}
                  /\ servers'[i].q = queue_response(take_available_thread(q), m)
               \/ /\ q.ready_threads # {} /\ CanDeliver(q, m) /\ ~Blocking(m)
                  /\ servers'[i].q = take_available_thread(q)
               \/ /\ q.ready_threads # {} /\ ~CanDeliver(q, m)
                  /\ servers'[i].q = take_available_thread(q)
    PROVE  QueueMoves(i)
<1>1. Queue(i)!SendMessage(m)
  BY InstanceTests, InstanceUpdates
     DEF Queue!SendMessage, Queue!Enqueue, Queue!HandOff, Queue!DropThread
<1> QED
  BY <1>1, InstanceSets DEF QueueMoves, Queue!Next

LEMMA ReceiveMoves ==
    ASSUME NEW i,
           LET q == servers[i].q
           IN  \/ HasNextMessage(q) /\ servers'[i].q = take_next_message(q)
               \/ \E t \in Tids : t \notin q.ready_threads /\ servers'[i].q = ReceiveNext(q, t)
    PROVE  QueueMoves(i)
<1>1. CASE HasNextMessage(servers[i].q) /\ servers'[i].q = take_next_message(servers[i].q)
  <2>1. Queue(i)!TryReceiveMessage
    BY <1>1, InstanceTests, InstanceUpdates DEF Queue!TryReceiveMessage
  <2> QED
    BY <2>1 DEF QueueMoves, Queue!Next
<1>2. ASSUME NEW t \in Tids, t \notin servers[i].q.ready_threads,
             servers'[i].q = ReceiveNext(servers[i].q, t)
      PROVE  QueueMoves(i)
  <2>1. Queue(i)!ReceiveMessage(t)
    BY <1>2, InstanceUpdates DEF Queue!ReceiveMessage
  <2> QED
    BY <2>1 DEF QueueMoves, Queue!Next
<1> QED
  BY <1>1, <1>2

LEMMA ReplyMoves ==
    ASSUME NEW i, NEW k \in Slots, IsWaiting(servers[i].q, k),
           LET q == servers[i].q
               r == take_waiting_message(q, k)
           IN  \/ servers'[i].q = r
               \/ \E t \in Tids : t \notin q.ready_threads /\ servers'[i].q = ReceiveNext(r, t)
    PROVE  QueueMoves(i)
<1>1. CASE servers'[i].q = take_waiting_message(servers[i].q, k)
  <2>1. Queue(i)!Reply(k)
    BY <1>1, InstanceTests, InstanceUpdates DEF Queue!Reply
  <2> QED
    BY <2>1, InstanceSets DEF QueueMoves, Queue!Next
<1>2. ASSUME NEW t \in Tids, t \notin servers[i].q.ready_threads,
             servers'[i].q = ReceiveNext(take_waiting_message(servers[i].q, k), t)
      PROVE  QueueMoves(i)
  <2>1. Queue(i)!ReplyAndReceiveNext(t, k)
    BY <1>2, InstanceTests, InstanceUpdates DEF Queue!ReplyAndReceiveNext
  <2> QED
    BY <2>1, InstanceSets DEF QueueMoves, Queue!Next
<1> QED
  BY <1>1, <1>2

LEMMA DiscardMoves ==
    ASSUME NEW i, NEW pid \in Pids, servers'[i].q = discard_messages_for_pid(servers[i].q, pid)
    PROVE  QueueMoves(i)
<1>1. Queue(i)!TerminateClient(pid)
  BY InstanceUpdates DEF Queue!TerminateClient
<1> QED
  BY <1>1 DEF QueueMoves, Queue!Next

\* A call changes one queue.
LEMMA OneQueueMoves ==
    ASSUME ServersOK, NEW i \in Sidxs, servers[i] # NoServer, NEW q, QueueOK(q), SetQueue(i, q),
           servers'[i].q = q => QueueMoves(i)
    PROVE  QueueStep
<1>1. servers'[i].q = q /\ \A j \in Sidxs : j # i => servers'[j] = servers[j]
  BY SetQueueOK
<1>2. QueueMoves(i)
  BY <1>1
<1>3. \A j \in Sidxs : j # i => QueueMoves(j)
  BY <1>1 DEF QueueMoves
<1> QED
  BY <1>2, <1>3 DEF QueueStep, QueueMoves

\* What a send does to the queue q of the server it reaches: the result of each action.
SendResult(i, m) ==
    LET q == servers[i].q
    IN  \/ /\ q.ready_threads = {} /\ CanDeliver(q, m) /\ EmptySlots(q) # {}
           /\ SetQueue(i, queue_message(q, m))
        \/ /\ q.ready_threads # {} /\ CanDeliver(q, m) /\ ~Blocking(m)
           /\ SetQueue(i, take_available_thread(q))
        \/ /\ q.ready_threads # {} /\ CanDeliver(q, m) /\ Blocking(m) /\ EmptySlots(q) # {}
           /\ SetQueue(i, queue_response(take_available_thread(q), m))
        \/ /\ q.ready_threads # {} /\ EmptySlots(q) = {}
           /\ SetQueue(i, return_available_thread(take_available_thread(q), AvailableThread(q)))
        \/ /\ IsFull(q, m) /\ SetQueue(i, take_available_thread(q))

LEMMA SendResultFollows ==
    ASSUME ServersOK, NEW i \in Sidxs, NEW m \in Message, servers[i] # NoServer,
           QueueOK(servers[i].q), Blocking(m) => m.tid \in Threads, SendResult(i, m)
    PROVE  QueueStep
<1> DEFINE q == servers[i].q
<1>1. QueueOK(take_available_thread(q))
  BY TakeThreadOK
<1>2. CASE /\ q.ready_threads = {} /\ CanDeliver(q, m) /\ EmptySlots(q) # {}
           /\ SetQueue(i, queue_message(q, m))
  <2>1. QueueOK(queue_message(q, m))
    BY <1>2, EnqueueOK
  <2>2. servers'[i].q = queue_message(q, m) => QueueMoves(i)
    BY <1>2, SendMoves
  <2> QED
    BY <1>2, <2>1, <2>2, OneQueueMoves
<1>3. CASE /\ q.ready_threads # {} /\ CanDeliver(q, m) /\ ~Blocking(m)
           /\ SetQueue(i, take_available_thread(q))
  <2>1. servers'[i].q = take_available_thread(q) => QueueMoves(i)
    BY <1>3, SendMoves
  <2> QED
    BY <1>1, <1>3, <2>1, OneQueueMoves
<1>4. CASE /\ q.ready_threads # {} /\ CanDeliver(q, m) /\ Blocking(m) /\ EmptySlots(q) # {}
           /\ SetQueue(i, queue_response(take_available_thread(q), m))
  <2>1. QueueOK(queue_response(take_available_thread(q), m))
    BY <1>4, HandOffOK
  <2>2. servers'[i].q = queue_response(take_available_thread(q), m) => QueueMoves(i)
    BY <1>4, SendMoves
  <2> QED
    BY <1>4, <2>1, <2>2, OneQueueMoves
<1>5. CASE /\ q.ready_threads # {} /\ EmptySlots(q) = {}
           /\ SetQueue(i, return_available_thread(take_available_thread(q), AvailableThread(q)))
  <2>1. SetQueue(i, q)
    BY <1>5, GiveBack
  <2>2. servers'[i].q = q => QueueMoves(i)
    BY DEF QueueMoves
  <2> QED
    BY <2>1, <2>2, OneQueueMoves
<1>6. CASE IsFull(q, m) /\ SetQueue(i, take_available_thread(q))
  <2>1. servers'[i].q = take_available_thread(q) => QueueMoves(i)
    <3>1. CASE q.ready_threads = {}
      <4>1. take_available_thread(q) = q
        BY <3>1 DEF take_available_thread, QueueOK, ServerRecord
      <4> QED
        BY <4>1 DEF QueueMoves
    <3>2. CASE q.ready_threads # {}
      BY <1>6, <3>2, SendMoves DEF IsFull
    <3> QED
      BY <3>1, <3>2
  <2> QED
    BY <1>1, <1>6, <2>1, OneQueueMoves
<1> QED
  BY <1>2, <1>3, <1>4, <1>5, <1>6 DEF SendResult

LEMMA SendFollows ==
    ASSUME KInv, NEW c \in Conns, NEW m \in Outgoing,
           \/ Enqueue(c, m) \/ HandOff(c, m) \/ HandOffBlocking(c, m)
           \/ RetrySend(c, m) \/ TrySendFails(c, m)
    PROVE  QueueStep
<1> DEFINE i == sidx(c)
<1>1. ServersOK /\ Sends(c, m)
  BY DEF KInv, Enqueue, HandOff, HandOffBlocking, RetrySend, TrySendFails
<1>2. /\ i \in Sidxs /\ servers[i] # NoServer /\ QueueOK(servers[i].q) /\ m \in Message
      /\ Blocking(m) => m.tid \in Threads
  BY <1>1, SendFacts
<1>3. SendResult(i, m)
  <2>1. CASE Enqueue(c, m)
    BY <2>1 DEF Enqueue, SendResult
  <2>2. CASE HandOff(c, m)
    BY <2>2 DEF HandOff, SendResult
  <2>3. CASE HandOffBlocking(c, m)
    BY <2>3 DEF HandOffBlocking, SendResult
  <2>4. CASE RetrySend(c, m)
    BY <2>4 DEF RetrySend, SendResult
  <2>5. CASE TrySendFails(c, m)
    BY <2>5 DEF TrySendFails, SendResult
  <2> QED
    BY <2>1, <2>2, <2>3, <2>4, <2>5
<1> HIDE DEF i
<1> QED
  BY <1>1, <1>2, <1>3, SendResultFollows

LEMMA ReceiveFollows ==
    ASSUME KInv, NEW i \in Sidxs, Receive(i) \/ Wait(i)
    PROVE  QueueStep
<1> DEFINE q == servers[i].q
<1>1. SchedOK /\ ServersOK
  BY DEF KInv
<1>2. CASE Receive(i)
  <2>1. /\ May("ReceiveMessage") \/ May("TryReceiveMessage")
        /\ Owns(i) /\ HasNextMessage(q) /\ SetQueue(i, take_next_message(q))
    BY <1>2 DEF Receive, Finds
  <2>2. servers[i] # NoServer /\ QueueOK(q)
    BY <1>1, <2>1, MayFacts, OwnerFacts
  <2>3. QueueOK(take_next_message(q))
    BY <2>1, <2>2, TakeNextOK
  <2>4. servers'[i].q = take_next_message(q) => QueueMoves(i)
    BY <2>1, ReceiveMoves
  <2> QED
    BY <1>1, <2>1, <2>2, <2>3, <2>4, OneQueueMoves
<1>3. CASE Wait(i)
  <2>1. /\ May("ReceiveMessage") /\ Owns(i) /\ ~HasNextMessage(q)
        /\ SetQueue(i, park_thread(q, tid))
    BY <1>3 DEF Wait, Finds
  <2>2. "ReceiveMessage" \notin InterruptCalls
    BY DEF InterruptCalls
  <2>3. servers[i] # NoServer /\ QueueOK(q) /\ tid \in Threads /\ tid \in Tids
    BY <1>1, <2>1, <2>2, MayFacts, OwnerFacts, NumbersOfThreads
  <2>4. ReceiveNext(q, tid) = park_thread(q, tid)
    BY <2>1 DEF ReceiveNext
  <2>5. QueueOK(park_thread(q, tid))
    BY <2>3, <2>4, ReceiveNextOK
  <2>6. servers'[i].q = park_thread(q, tid) => QueueMoves(i)
    <3>1. CASE tid \in q.ready_threads
      <4>1. park_thread(q, tid) = q
        BY <2>3, <3>1 DEF park_thread, QueueOK, ServerRecord
      <4> QED
        BY <4>1 DEF QueueMoves
    <3>2. CASE tid \notin q.ready_threads
      BY <2>3, <2>4, <3>2, ReceiveMoves
    <3> QED
      BY <3>1, <3>2
  <2> QED
    BY <1>1, <2>1, <2>3, <2>5, <2>6, OneQueueMoves
<1> QED
  BY <1>2, <1>3

LEMMA ReplyFollows ==
    ASSUME KInv, NEW i \in Sidxs, NEW k \in Slots, Reply(i, k) \/ ReplyAndReceiveNext(i, k)
    PROVE  QueueStep
<1> DEFINE q == servers[i].q
           r == take_waiting_message(q, k)
<1>1. SchedOK /\ ServersOK
  BY DEF KInv
<1>2. /\ Owns(i) /\ IsWaiting(q, k)
      /\ May(ReplyCall(q.queue[k])) \/ May("ReplyAndReceiveNext")
  BY DEF Reply, ReplyAndReceiveNext
<1>3. servers[i] # NoServer /\ QueueOK(q)
  BY <1>1, <1>2, MayFacts, OwnerFacts
<1>4. QueueOK(r) /\ r.ready_threads = q.ready_threads
  BY <1>2, <1>3, TakeWaitingOK
<1>5. CASE Reply(i, k)
  <2>1. SetQueue(i, r)
    BY <1>5 DEF Reply
  <2>2. servers'[i].q = r => QueueMoves(i)
    BY <1>2, ReplyMoves
  <2> QED
    BY <1>1, <1>3, <1>4, <2>1, <2>2, OneQueueMoves
<1>6. CASE ReplyAndReceiveNext(i, k)
  <2>1. May("ReplyAndReceiveNext") /\ SetQueue(i, ReceiveNext(r, tid))
    BY <1>6 DEF ReplyAndReceiveNext
  <2>2. "ReplyAndReceiveNext" \notin InterruptCalls
    BY DEF InterruptCalls
  <2>3. tid \in Threads /\ tid \in Tids
    BY <1>1, <2>1, <2>2, MayFacts, NumbersOfThreads
  <2>4. QueueOK(ReceiveNext(r, tid))
    BY <1>4, <2>3, ReceiveNextOK
  <2>5. servers'[i].q = ReceiveNext(r, tid) => QueueMoves(i)
    <3>1. CASE tid \notin q.ready_threads
      BY <1>2, <2>3, <3>1, ReplyMoves
    \* A thread that is parked already takes the message as any other would.
    <3>2. CASE tid \in q.ready_threads /\ HasNextMessage(r)
      <4>1. ReceiveNext(r, tid) = ReceiveNext(r, IRQ_TID)
        BY <3>2 DEF ReceiveNext
      <4>2. IRQ_TID \in Tids /\ IRQ_TID \notin q.ready_threads
        BY <1>3, NumbersOfThreads DEF QueueOK, WaitsAreThreads
      <4> QED
        BY <1>2, <4>1, <4>2, ReplyMoves
    <3>3. CASE tid \in q.ready_threads /\ ~HasNextMessage(r)
      <4>1. ReceiveNext(r, tid) = park_thread(r, tid)
        BY <3>3 DEF ReceiveNext
      <4>2. park_thread(r, tid) = r
        <5> HIDE DEF r
        <5> QED
          BY <1>4, <3>3 DEF park_thread, QueueOK, ServerRecord
      <4> QED
        BY <1>2, <4>1, <4>2, ReplyMoves
    <3> QED
      BY <3>1, <3>2, <3>3
  <2> QED
    BY <1>1, <1>3, <2>1, <2>4, <2>5, OneQueueMoves
<1> QED
  BY <1>5, <1>6

LEMMA LifeFollows ==
    ASSUME KInv,
           \/ \E i \in Sidxs : DestroyServer(i)
           \/ \E sid \in SIDs : CreateServer(sid)
           \/ TerminateProcess
    PROVE  QueueStep
<1>1. SchedOK /\ ServersOK
  BY DEF KInv
<1>2. NoServer.q = init /\ NoServer.pid = NoPid
  BY DEF NoServer
<1>3. ASSUME NEW i \in Sidxs, DestroyServer(i) PROVE QueueStep
  <2>1. /\ May("DestroyServer") /\ servers[i].pid = self
        /\ servers' = [servers EXCEPT ![i] = NoServer]
    BY <1>3 DEF DestroyServer, Finds, Owns
  <2>2. self \in Pids
    BY <1>1, <2>1, MayFacts
  <2>3. servers'[i] = NoServer /\ \A j \in Sidxs : j # i => servers'[j] = servers[j]
    BY <1>1, <2>1 DEF ServersOK
  <2>4. QueueMoves(i)
    BY <1>2, <2>1, <2>2, <2>3, NumbersOfThreads DEF QueueMoves
  <2>5. \A j \in Sidxs : j # i => QueueMoves(j)
    BY <2>3 DEF QueueMoves
  <2> QED
    BY <2>4, <2>5 DEF QueueStep, QueueMoves
<1>4. ASSUME NEW sid \in SIDs, CreateServer(sid) PROVE QueueStep
  <2> DEFINE a == Least(FreeServers)
             v == [pid |-> self, sid |-> sid, q |-> init]
  <2>1. servers' = [servers EXCEPT ![a] = v] /\ FreeServers # {}
    BY <1>4 DEF CreateServer
  <2>2. FreeServers \in SUBSET Nat
    BY KernelAssumption DEF FreeServers, Sidxs
  <2>3. \E x \in FreeServers : \A y \in FreeServers : x <= y
    BY <2>1, <2>2, LeastNatural
  <2>4. a \in Sidxs /\ servers[a] = NoServer
    BY <2>3 DEF Least, FreeServers
  <2> HIDE DEF a
  <2>5. servers'[a].q = init /\ \A j \in Sidxs : j # a => servers'[j] = servers[j]
    BY <1>1, <2>1, <2>4 DEF ServersOK
  <2>6. \A j \in Sidxs : servers'[j].q = servers[j].q
    BY <1>2, <2>4, <2>5
  <2> QED
    BY <2>6 DEF QueueStep
<1>5. ASSUME TerminateProcess PROVE QueueStep
  <2>1. /\ May("TerminateProcess")
        /\ servers' = [i \in Sidxs |->
               IF Owns(i) \/ servers[i] = NoServer THEN NoServer
               ELSE [servers[i] EXCEPT !.q = discard_messages_for_pid(@, self)]]
    BY <1>5 DEF TerminateProcess
  <2>2. self \in Pids
    BY <1>1, <2>1, MayFacts
  <2>3. ASSUME NEW i \in Sidxs PROVE QueueMoves(i)
    <3>1. CASE servers[i] = NoServer
      BY <2>1, <3>1 DEF QueueMoves
    <3>2. CASE servers[i] # NoServer /\ Owns(i)
      <4>1. servers'[i] = NoServer /\ servers[i].pid = self
        BY <2>1, <3>2 DEF Owns
      <4> QED
        BY <1>2, <2>2, <4>1, NumbersOfThreads DEF QueueMoves
    <3>3. CASE servers[i] # NoServer /\ ~Owns(i)
      <4>1. servers'[i] = [servers[i] EXCEPT !.q = discard_messages_for_pid(@, self)]
        BY <2>1, <3>3
      <4>2. servers[i] \in ServerEntry
        BY <1>1, <3>3, ServerFacts
      <4>3. servers'[i].q = discard_messages_for_pid(servers[i].q, self)
        BY <4>1, <4>2 DEF ServerEntry
      <4> QED
        BY <2>2, <4>3, DiscardMoves
    <3> QED
      BY <3>1, <3>2, <3>3
  <2> QED
    BY <2>3 DEF QueueStep, QueueMoves
<1> QED
  BY <1>3, <1>4, <1>5

LEMMA NextFollows ==
    ASSUME KInv, [Next]_vars
    PROVE  [QueueStep]_servers
<1>1. CASE UNCHANGED servers
  BY <1>1
<1>2. CASE Send
  BY <1>2, SendFollows DEF Send
<1>3. CASE Serve
  BY <1>3, ReceiveFollows, ReplyFollows, LifeFollows DEF Serve
<1>4. CASE (\E sid \in SIDs : CreateServer(sid)) \/ TerminateProcess
  BY <1>4, LifeFollows
<1>5. CASE \/ SwitchTo \/ Idle \/ Yield \/ CreateThread \/ ExitThread
           \/ (\E t \in Threads : JoinThread(t))
           \/ (\E sid \in SIDs : Connect(sid) \/ RetryConnect(sid))
           \/ (\E c \in Conns : Disconnect(c))
           \/ Interrupt \/ ReturnToParent \/ finish_isr \/ ClaimInterrupt \/ FreeInterrupt
  BY <1>5 DEF SwitchTo, Idle, Yield, CreateThread, ExitThread, JoinThread, Connect, RetryConnect,
     Disconnect, Interrupt, ReturnToParent, finish_isr, ClaimInterrupt, FreeInterrupt
<1> QED
  BY <1>1, <1>2, <1>3, <1>4, <1>5 DEF Next, vars

-----------------------------------------------------------------------------
(***************************************************************************)
(* Where the threads are.  First the process table without its panics:     *)
(* process cur runs and no other, a thread is not both running and ready,  *)
(* and the kernel waits with its one thread unless it is cur.              *)
(***************************************************************************)
Sane(ps, cur) ==
    /\ TableOK(ps) /\ cur \in Procs
    /\ \A p \in Procs : /\ ps[p].state # "Panic"
                        /\ ps[p].state = "Running" <=> p = cur
                        /\ ps[p].state \in {"Free", "Setup", "Sleeping"} => ps[p].ready = {}
    /\ ps[cur].current \notin ps[cur].ready
    /\ ps[KERNEL_PID].ready = IF cur = KERNEL_PID THEN {} ELSE {INITIAL_TID}
    /\ cur = KERNEL_PID => ps[cur].current = INITIAL_TID

\* Thread t of process p runs or is ready to.
Up(ps, cur, p, t) == (p = cur /\ ps[p].current = t) \/ t \in ps[p].ready

Absent(ps, p) == ps[p].state \in {"Free", "Setup"}

\* The processor goes from process cur to process new; the threads in W are
\* woken and those in S stop.
Shifts(ps, cur, qs, new, W, S) ==
    /\ Sane(qs, new)
    /\ \A p \in Pids : Absent(ps, p) \/ Absent(qs, p) => qs[p].state = ps[p].state
    /\ \A p \in Pids, t \in Threads :
          Up(qs, new, p, t) <=> (Up(ps, cur, p, t) \/ <<p, t>> \in W) /\ <<p, t>> \notin S

LEMMA ShiftsCompose ==
    ASSUME NEW ps, NEW c, NEW qs, NEW d, NEW rs, NEW e, NEW W, NEW S,
           Shifts(ps, c, qs, d, W, {}), Shifts(qs, d, rs, e, {}, S)
    PROVE  Shifts(ps, c, rs, e, W, S)
  BY DEF Shifts, Absent

LEMMA ShiftsNowhere ==
    ASSUME NEW ps, NEW c, Sane(ps, c)
    PROVE  Shifts(ps, c, ps, c, {}, {})
  BY DEF Shifts

LEMMA SaneFacts ==
    ASSUME NEW ps, NEW c, Sane(ps, c)
    PROVE  /\ TableOK(ps) /\ c \in Procs /\ ps[c].state = "Running" /\ ~Panicked(ps)
           /\ ps[c].current \notin ps[c].ready
           /\ \A p \in Procs : /\ ps[p] \in Process /\ ps[p].ready \subseteq Threads
                               /\ p # c /\ ~Absent(ps, p) => ps[p].state \in {"Ready", "Sleeping"}
           /\ c # KERNEL_PID => ps[KERNEL_PID].state = "Ready" /\ ps[KERNEL_PID].ready = {INITIAL_TID}
<1>1. /\ TableOK(ps) /\ c \in Procs /\ ps[c].state = "Running" /\ ~Panicked(ps)
      /\ ps[c].current \notin ps[c].ready
  BY DEF Sane, Panicked
<1>2. \A p \in Procs : ps[p] \in Process /\ ps[p].ready \subseteq Threads /\ ps[p].state \in States
  BY <1>1 DEF TableOK, Process
<1>3. \A p \in Procs : p # c /\ ~Absent(ps, p) => ps[p].state \in {"Ready", "Sleeping"}
  BY <1>2 DEF Sane, Absent, States
<1>4. c # KERNEL_PID => ps[KERNEL_PID].state = "Ready" /\ ps[KERNEL_PID].ready = {INITIAL_TID}
  BY <1>1, NumbersOfThreads DEF Sane, TableOK
<1> QED
  BY <1>1, <1>2, <1>3, <1>4

LEMMA RunRows ==
    ASSUME NEW ps, TableOK(ps), NEW p \in Procs, NEW t, NEW ts
    PROVE  LET qs == Run(ps, p, t, ts)
           IN  /\ qs[p].state = "Running" /\ qs[p].ready = ts \ {t} /\ qs[p].current = t
               /\ \A r \in Procs : r # p => qs[r] = ps[r]
  BY DEF Run, TableOK

\* A thread is made ready.
LEMMA WakeShifts ==
    ASSUME NEW ps, NEW cur, Sane(ps, cur), NEW p \in Pids, NEW t \in Threads,
           ~Absent(ps, p), ~Up(ps, cur, p, t)
    PROVE  LET qs == ready_thread(ps, p, t)
           IN  /\ Shifts(ps, cur, qs, cur, {<<p, t>>}, {})
               /\ \A r \in Procs : r # p => qs[r] = ps[r]
               /\ qs[p].ready = ps[p].ready \cup {t} /\ qs[p].current = ps[p].current
               /\ p # cur => qs[p].state = "Ready"
<1> DEFINE qs == ready_thread(ps, p, t)
<1>1. /\ TableOK(ps) /\ cur \in Procs /\ p \in Procs /\ p # KERNEL_PID /\ KERNEL_PID \in Procs
      /\ t \notin ps[p].ready /\ ps[p].ready \subseteq Threads
      /\ ps[p].state \in {"Ready", "Running", "Sleeping"}
      /\ ps[p].state = "Running" <=> p = cur
  <2>1. p \in Procs /\ p # KERNEL_PID /\ KERNEL_PID \in Procs /\ t \notin ps[p].ready
    BY NumbersOfThreads DEF Up
  <2>2. TableOK(ps) /\ cur \in Procs /\ (ps[p].state = "Running" <=> p = cur)
    BY <2>1 DEF Sane
  <2>3. ps[p].ready \subseteq Threads /\ ps[p].state \in {"Ready", "Running", "Sleeping"}
    BY <2>1, <2>2, SaneFacts
  <2> QED
    BY <2>1, <2>2, <2>3
<1>2. /\ TableOK(qs) /\ \A r \in Procs : r # p => qs[r] = ps[r]
  BY <1>1, ReadyThreadMoves DEF Moves
<1>3. /\ qs[p].ready = ps[p].ready \cup {t} /\ qs[p].current = ps[p].current
      /\ qs[p].state = IF p = cur THEN "Running" ELSE "Ready"
  <2>1. CASE ps[p].state \in {"Ready", "Running"}
    <3>1. qs = [ps EXCEPT ![p].ready = @ \cup {t}]
      BY <1>1, <2>1 DEF ready_thread
    <3> QED
      BY <1>1, <2>1, <3>1 DEF TableOK, Process
  <2>2. CASE ps[p].state = "Sleeping"
    <3>1. qs = Rest(ps, p, {t})
      BY <2>2 DEF ready_thread
    <3>2. {t} \in SUBSET Threads /\ {t} # {} /\ ps[p].ready = {}
      BY <1>1, <2>2 DEF Sane
    <3> QED
      BY <1>1, <2>2, <3>1, <3>2, RestMoves
  <2> QED
    BY <1>1, <2>1, <2>2
<1> HIDE DEF qs
<1>4. Sane(qs, cur)
  BY <1>1, <1>2, <1>3 DEF Sane, Up
<1>5. \A r \in Pids : Absent(ps, r) \/ Absent(qs, r) => qs[r].state = ps[r].state
  BY <1>1, <1>2, <1>3, NumbersOfThreads DEF Absent
<1>6. ASSUME NEW r \in Pids, NEW u \in Threads
      PROVE  Up(qs, cur, r, u) <=> Up(ps, cur, r, u) \/ <<r, u>> \in {<<p, t>>}
  BY <1>1, <1>2, <1>3, NumbersOfThreads DEF Up
<1>7. Shifts(ps, cur, qs, cur, {<<p, t>>}, {})
  BY <1>4, <1>5, <1>6 DEF Shifts
<1> QED
  BY <1>2, <1>3, <1>7 DEF qs

\* Process cur is left, with its thread ready or not, for process pid.
LEMMA LeaveRows ==
    ASSUME NEW ps, TableOK(ps), NEW cur \in Procs, ps[cur].state = "Running", NEW t \in Threads,
           NEW can_resume \in BOOLEAN
    PROVE  LET qs == Leave(ps, cur, t, can_resume)
               ts == ps[cur].ready \cup (IF can_resume THEN {t} ELSE {})
           IN  /\ qs[cur].ready = ts /\ qs[cur].current = t
               /\ qs[cur].state = IF ts = {} THEN "Sleeping" ELSE "Ready"
               /\ \A r \in Procs : r # cur => qs[r] = ps[r]
  BY DEF Leave, Rest, TableOK, Process

LEMMA EnterRows ==
    ASSUME NEW ps, NEW cur, Sane(ps, cur), NEW p \in Procs, p # cur, NEW new,
           ps[p].state \in {"Setup", "Ready"}, ps[p].state = "Setup" \/ new \in ps[p].ready \cup {ANY}
    PROVE  LET qs == Enter(ps, p, new)
           IN  /\ CanActivate(ps, p, new) /\ TableOK(qs)
               /\ qs[p].state = "Running" /\ qs[p].ready = ps[p].ready \ {qs[p].current}
               /\ qs[p].current \in Threads
               /\ ps[p].state = "Ready" => qs[p].current \in ps[p].ready
               /\ ps[p].state = "Ready" /\ new # ANY => qs[p].current = new
               /\ ps[p].state = "Setup" => qs[p].current = INITIAL_TID
               /\ \A r \in Procs : r # p => qs[r] = ps[r]
<1> DEFINE qs == Enter(ps, p, new)
<1>1. TableOK(ps) /\ ps[p].ready \subseteq Threads /\ ps[p].ready \in SUBSET Nat
  BY SaneFacts, NumbersOfThreads
<1>2. CanActivate(ps, p, new)
  BY DEF CanActivate
<1>3. TableOK(qs)
  BY <1>1, <1>2, EnterMoves DEF Ran, Moves
<1>4. CASE ps[p].state = "Setup"
  <2>1. qs = Run(ps, p, INITIAL_TID, {}) /\ ps[p].ready = {}
    BY <1>4 DEF Enter, Sane
  <2> QED
    BY <1>1, <1>2, <1>3, <1>4, <2>1, RunRows, NumbersOfThreads
<1>5. CASE ps[p].state = "Ready"
  <2> DEFINE n == IF new = ANY THEN find_next_thread(ps[p].ready, ps[p].current) ELSE new
  <2>1. qs = Run(ps, p, n, ps[p].ready)
    BY <1>5 DEF Enter
  <2>2. n \in ps[p].ready
    BY <1>1, <1>5, NextThreadFound DEF TableOK
  <2>3. new # ANY => n = new
    OBVIOUS
  <2> HIDE DEF n
  <2> QED
    BY <1>1, <1>2, <1>3, <1>5, <2>1, <2>2, <2>3, RunRows
<1> QED
  BY <1>4, <1>5

Enters(ps, cur, qs, p, can_resume) ==
    /\ Sane(qs, p)
    /\ qs[p].ready = ps[p].ready \ {qs[p].current} /\ qs[p].current \in Threads
    /\ ps[p].state = "Ready" => qs[p].current \in ps[p].ready
    /\ ps[p].state = "Setup" => qs[p].current = INITIAL_TID
    /\ qs[cur].ready = ps[cur].ready \cup (IF can_resume THEN {ps[cur].current} ELSE {})
    /\ qs[cur].state \in {"Ready", "Sleeping"}
    /\ \A r \in Procs : r \notin {cur, p} => qs[r] = ps[r]

LEMMA SwitchRows ==
    ASSUME NEW ps, NEW cur, Sane(ps, cur), ps[cur].current \in Threads,
           NEW p \in Procs, p # cur, NEW new, NEW can_resume \in BOOLEAN,
           ps[p].state \in {"Setup", "Ready"}, ps[p].state = "Setup" \/ new \in ps[p].ready \cup {ANY},
           cur = KERNEL_PID => can_resume
    PROVE  Enters(ps, cur, SwitchProcess(ps, cur, ps[cur].current, p, new, can_resume), p, can_resume)
<1> DEFINE es == Enter(ps, p, new)
           t  == ps[cur].current
           qs == Leave(es, cur, t, can_resume)
<1>1. TableOK(ps) /\ cur \in Procs /\ ps[cur].state = "Running" /\ ps[cur].ready \subseteq Threads
  BY SaneFacts
<1>2. /\ CanActivate(ps, p, new) /\ TableOK(es)
      /\ es[p].state = "Running" /\ es[p].ready = ps[p].ready \ {es[p].current}
      /\ es[p].current \in Threads
      /\ ps[p].state = "Ready" => es[p].current \in ps[p].ready
      /\ ps[p].state = "Setup" => es[p].current = INITIAL_TID
      /\ \A r \in Procs : r # p => es[r] = ps[r]
  BY EnterRows
<1>3. SwitchProcess(ps, cur, t, p, new, can_resume) = qs
  BY <1>2 DEF SwitchProcess
<1> HIDE DEF es
<1>4. es[cur] = ps[cur]
  BY <1>1, <1>2
<1>5. /\ qs[cur].ready = ps[cur].ready \cup (IF can_resume THEN {t} ELSE {})
      /\ qs[cur].state = IF qs[cur].ready = {} THEN "Sleeping" ELSE "Ready"
      /\ \A r \in Procs : r # cur => qs[r] = es[r]
  <2>1. t \in Threads /\ es[cur].state = "Running"
    BY <1>1, <1>4
  <2> DEFINE ts == es[cur].ready \cup (IF can_resume THEN {t} ELSE {})
  <2> HIDE DEF t
  <2>2. /\ qs[cur].ready = ts
        /\ qs[cur].state = IF ts = {} THEN "Sleeping" ELSE "Ready"
        /\ \A r \in Procs : r # cur => qs[r] = es[r]
    BY <1>1, <1>2, <2>1, LeaveRows
  <2>3. ts = ps[cur].ready \cup (IF can_resume THEN {t} ELSE {})
    BY <1>4
  <2> HIDE DEF ts, qs
  <2> QED
    BY <2>2, <2>3
<1>6. TableOK(qs)
  BY <1>1, <1>2, <1>4, LeaveMoves DEF Stopped, Moves
<1> HIDE DEF qs
<1>7. qs[p] = es[p] /\ \A r \in Procs : r \notin {cur, p} => qs[r] = ps[r]
  BY <1>2, <1>5
<1>8. \A r \in Procs : /\ qs[r].state # "Panic"
                       /\ qs[r].state = "Running" <=> r = p
                       /\ qs[r].state \in {"Free", "Setup", "Sleeping"} => qs[r].ready = {}
  BY <1>1, <1>2, <1>5, <1>7 DEF Sane
<1>9. qs[KERNEL_PID].ready = IF p = KERNEL_PID THEN {} ELSE {INITIAL_TID}
  <2>1. CASE p = KERNEL_PID
    <3>1. ps[p].ready = {INITIAL_TID} /\ ps[p].state = "Ready"
      BY <2>1, SaneFacts
    <3> QED
      BY <1>2, <1>7, <2>1, <3>1
  <2>2. CASE cur = KERNEL_PID
    <3>1. ps[cur].ready = {} /\ t = INITIAL_TID /\ can_resume
      BY <2>2 DEF Sane
    <3> QED
      BY <1>5, <2>2, <3>1
  <2>3. CASE p # KERNEL_PID /\ cur # KERNEL_PID
    BY <1>7, <2>3, SaneFacts, NumbersOfThreads
  <2> QED
    BY <2>1, <2>2, <2>3
<1>10. p = KERNEL_PID => qs[p].current = INITIAL_TID
  <2>1. p = KERNEL_PID => ps[p].ready = {INITIAL_TID} /\ ps[p].state = "Ready"
    BY SaneFacts
  <2> QED
    BY <1>2, <1>7, <2>1
<1>11. Sane(qs, p)
  BY <1>2, <1>6, <1>7, <1>8, <1>9, <1>10 DEF Sane
<1>12. qs[cur].state \in {"Ready", "Sleeping"}
  BY <1>5
<1>13. Enters(ps, cur, qs, p, can_resume)
  BY <1>2, <1>5, <1>7, <1>11, <1>12 DEF Enters
<1> QED
  BY <1>3, <1>13

LEMMA SwitchShifts ==
    ASSUME NEW ps, NEW cur, Sane(ps, cur), ps[cur].current \in Threads,
           NEW p \in Procs, p # cur, NEW new, NEW can_resume \in BOOLEAN,
           ps[p].state = "Ready", new \in ps[p].ready \cup {ANY},
           cur = KERNEL_PID => can_resume
    PROVE  Shifts(ps, cur, SwitchProcess(ps, cur, ps[cur].current, p, new, can_resume), p,
                  {}, IF can_resume THEN {} ELSE {<<cur, ps[cur].current>>})
<1> DEFINE qs == SwitchProcess(ps, cur, ps[cur].current, p, new, can_resume)
           t  == ps[cur].current
           S  == IF can_resume THEN {} ELSE {<<cur, t>>}
<1>1. /\ Sane(qs, p)
      /\ qs[p].ready = ps[p].ready \ {qs[p].current} /\ qs[p].current \in ps[p].ready
      /\ qs[cur].ready = ps[cur].ready \cup (IF can_resume THEN {t} ELSE {})
      /\ qs[cur].state \in {"Ready", "Sleeping"}
      /\ \A r \in Procs : r \notin {cur, p} => qs[r] = ps[r]
  <2>1. Enters(ps, cur, qs, p, can_resume)
    BY SwitchRows
  <2> QED
    BY <2>1 DEF Enters
<1>2. /\ cur \in Procs /\ ps[cur].state = "Running" /\ qs[p].state = "Running"
      /\ t \notin ps[cur].ready
  BY <1>1, SaneFacts DEF Sane
<1> HIDE DEF qs
<1>3. \A r \in Pids : Absent(ps, r) \/ Absent(qs, r) => qs[r].state = ps[r].state
  BY <1>1, <1>2, NumbersOfThreads DEF Absent
<1>4. ASSUME NEW r \in Pids, NEW u \in Threads
      PROVE  Up(qs, p, r, u) <=> (Up(ps, cur, r, u) \/ <<r, u>> \in {}) /\ <<r, u>> \notin S
  <2>1. r \in Procs
    BY NumbersOfThreads
  <2>2. CASE r = cur
    BY <1>1, <1>2, <2>2 DEF Up
  <2>3. CASE r = p
    BY <1>1, <2>3 DEF Up
  <2>4. CASE r \notin {cur, p}
    BY <1>1, <2>1, <2>4 DEF Up
  <2> QED
    BY <2>2, <2>3, <2>4
<1> QED
  BY <1>1, <1>3, <1>4 DEF Shifts, qs

\* A process that has a thread ready and does not run is Ready.
LEMMA ReadyState ==
    ASSUME NEW ps, NEW c, Sane(ps, c), NEW p \in Procs, ps[p].ready # {}
    PROVE  ~Absent(ps, p) /\ (p # c => ps[p].state = "Ready")
<1>1. ps[p].state \notin {"Free", "Setup", "Sleeping"}
  BY DEF Sane
<1> QED
  BY <1>1, SaneFacts DEF Absent

LEMMA SetLastShifts ==
    ASSUME NEW ps, Sane(ps, KERNEL_PID), NEW p \in Pids, NEW t
    PROVE  Shifts(ps, KERNEL_PID, set_last_thread(ps, p, t), KERNEL_PID, {}, {})
<1> DEFINE qs == set_last_thread(ps, p, t)
<1>1. p \in Procs /\ p # KERNEL_PID /\ KERNEL_PID \in Procs /\ KERNEL_PID \notin Pids /\ Pids \subseteq Procs
  BY NumbersOfThreads
<1>2. ps[p].state # "Running" /\ TableOK(ps)
  BY <1>1 DEF Sane
<1>3. TableOK(qs)
  BY <1>2, SetLastMoves DEF Moves
<1>4. /\ qs[KERNEL_PID] = ps[KERNEL_PID]
      /\ \A r \in Procs : qs[r].state = ps[r].state /\ qs[r].ready = ps[r].ready
  <2>1. CASE ps[p].state = "Ready" /\ t \in ps[p].ready
    <3>1. qs = [ps EXCEPT ![p].current = t]
      BY <2>1 DEF set_last_thread
    <3> QED
      BY <1>1, <1>2, <3>1 DEF TableOK, Process
  <2>2. CASE ~(ps[p].state = "Ready" /\ t \in ps[p].ready)
    <3>1. qs = ps
      BY <1>2, <2>2 DEF set_last_thread
    <3> QED
      BY <3>1
  <2> QED
    BY <2>1, <2>2
<1> HIDE DEF qs
<1>5. Sane(qs, KERNEL_PID)
  BY <1>1, <1>3, <1>4 DEF Sane
<1> QED
  BY <1>1, <1>4, <1>5 DEF Shifts, Up, Absent, qs

\* The process goes back to the kernel.
LEMMA ParentShifts ==
    ASSUME NEW ps, NEW cur \in Pids, Sane(ps, cur), ps[cur].current \in Threads,
           NEW new \in {ANY, INITIAL_TID}, NEW can_resume \in BOOLEAN, NEW o \in Pids, NEW u
    PROVE  LET qs == SwitchProcess(ps, cur, ps[cur].current, KERNEL_PID, new, can_resume)
               S  == IF can_resume THEN {} ELSE {<<cur, ps[cur].current>>}
           IN  /\ CanActivate(ps, KERNEL_PID, new)
               /\ Shifts(ps, cur, qs, KERNEL_PID, {}, S)
               /\ Shifts(ps, cur, set_last_thread(qs, o, u), KERNEL_PID, {}, S)
<1> DEFINE qs == SwitchProcess(ps, cur, ps[cur].current, KERNEL_PID, new, can_resume)
           S  == IF can_resume THEN {} ELSE {<<cur, ps[cur].current>>}
<1>1. KERNEL_PID \in Procs /\ KERNEL_PID # cur
  BY NumbersOfThreads
<1>2. ps[KERNEL_PID].state = "Ready" /\ ps[KERNEL_PID].ready = {INITIAL_TID}
  BY <1>1, SaneFacts
<1>3. CanActivate(ps, KERNEL_PID, new)
  BY <1>2 DEF CanActivate
<1>4. Shifts(ps, cur, qs, KERNEL_PID, {}, S)
  BY <1>1, <1>2, SwitchShifts
<1> HIDE DEF qs, S
<1>5. Shifts(qs, KERNEL_PID, set_last_thread(qs, o, u), KERNEL_PID, {}, {})
  BY <1>4, SetLastShifts DEF Shifts
<1>6. Shifts(ps, cur, set_last_thread(qs, o, u), KERNEL_PID, {}, S)
  BY <1>4, <1>5 DEF Shifts, Absent
<1> QED
  BY <1>3, <1>4, <1>6 DEF qs, S

\* The current thread stays ready and thread t of process p runs.
LEMMA AnswerShifts ==
    ASSUME NEW ps, NEW cur \in Pids, Sane(ps, cur), ps[cur].current \in Threads,
           NEW p \in Pids, NEW t \in ps[p].ready
    PROVE  LET c == ps[cur].current
           IN  Shifts(ps, cur,
                      switch_to_thread(ready_thread(unschedule_thread(ps, cur, c), cur, c), p, t),
                      p, {}, {})
<1> DEFINE c  == ps[cur].current
           us == unschedule_thread(ps, cur, c)
           rs == ready_thread(us, cur, c)
           qs == switch_to_thread(rs, p, t)
<1>1. /\ cur \in Procs /\ p \in Procs /\ cur # KERNEL_PID /\ p # KERNEL_PID
      /\ KERNEL_PID \in Procs /\ Pids \subseteq Procs /\ t # ANY
  <2>1. t \in Threads
    BY SaneFacts, NumbersOfThreads
  <2> QED
    BY <2>1, NumbersOfThreads DEF ANY, IRQ_TID
<1>2. /\ TableOK(ps) /\ ps[cur].state = "Running" /\ ps[cur].ready \subseteq Threads
      /\ c \notin ps[cur].ready
  BY <1>1, SaneFacts
<1>3. us = Rest(ps, cur, ps[cur].ready)
  BY <1>2 DEF unschedule_thread
<1>4. /\ TableOK(us) /\ us[cur].ready = ps[cur].ready
      /\ us[cur].state = IF ps[cur].ready = {} THEN "Sleeping" ELSE "Ready"
      /\ \A r \in Procs : r # cur => us[r] = ps[r]
  BY <1>1, <1>2, <1>3, RestMoves DEF Moves
<1> HIDE DEF us
<1>5. TableOK(rs) /\ \A r \in Procs : r # cur => rs[r] = us[r]
  BY <1>1, <1>4, ReadyThreadMoves DEF Moves
<1>6. rs[cur].state = "Ready" /\ rs[cur].ready = ps[cur].ready \cup {c}
  <2>1. CASE ps[cur].ready = {}
    <3>1. rs = Rest(us, cur, {c}) /\ {c} \in SUBSET Threads /\ {c} # {}
      BY <1>4, <2>1 DEF ready_thread
    <3> QED
      BY <1>1, <1>4, <2>1, <3>1, RestMoves
  <2>2. CASE ps[cur].ready # {}
    <3>1. rs = [us EXCEPT ![cur].ready = @ \cup {c}]
      BY <1>2, <1>4, <2>2 DEF ready_thread
    <3> QED
      BY <1>1, <1>4, <2>2, <3>1 DEF TableOK, Process
  <2> QED
    BY <2>1, <2>2
<1> HIDE DEF rs
<1>7. rs[p].state = "Ready" /\ t \in rs[p].ready
  <2>1. CASE p = cur
    BY <1>6, <2>1
  <2>2. CASE p # cur
    <3>1. rs[p] = ps[p]
      BY <1>1, <1>4, <1>5, <2>2
    <3> QED
      BY <1>1, <2>2, <3>1, ReadyState
  <2> QED
    BY <2>1, <2>2
<1>8. qs = Run(rs, p, t, rs[p].ready)
  <2>1. rs[p].ready \cup (IF rs[p].state = "Running" THEN {rs[p].current} ELSE {}) = rs[p].ready
    BY <1>7
  <2> QED
    BY <1>1, <1>7, <2>1 DEF switch_to_thread
<1>9. /\ qs[p].state = "Running" /\ qs[p].ready = rs[p].ready \ {t} /\ qs[p].current = t
      /\ \A r \in Procs : r # p => qs[r] = rs[r]
  BY <1>1, <1>5, <1>8, RunRows
<1>10. TableOK(qs)
  <2>1. t \in Threads /\ rs[p].ready \in SUBSET Threads
    BY <1>1, <1>5, <1>7 DEF TableOK, Process
  <2> QED
    BY <1>1, <1>5, <1>8, <2>1, RunMoves DEF Ran, Moves
<1> HIDE DEF qs
<1>11. \A r \in Procs : r \notin {cur, p} => qs[r] = ps[r]
  BY <1>4, <1>5, <1>9
<1>12. /\ cur # p => /\ qs[cur].state = "Ready" /\ qs[cur].ready = ps[cur].ready \cup {c}
                     /\ qs[p].ready = ps[p].ready \ {t}
       /\ cur = p => qs[p].ready = (ps[cur].ready \cup {c}) \ {t}
  BY <1>1, <1>4, <1>5, <1>6, <1>9
<1>13. \A r \in Procs : /\ qs[r].state # "Panic"
                        /\ qs[r].state = "Running" <=> r = p
                        /\ qs[r].state \in {"Free", "Setup", "Sleeping"} => qs[r].ready = {}
  BY <1>1, <1>2, <1>9, <1>11, <1>12 DEF Sane
<1>14. Sane(qs, p)
  <2>1. qs[KERNEL_PID].ready = {INITIAL_TID}
    BY <1>1, <1>11, SaneFacts
  <2> QED
    BY <1>1, <1>9, <1>10, <1>13, <2>1 DEF Sane
<1>15. \A r \in Pids : Absent(ps, r) \/ Absent(qs, r) => qs[r].state = ps[r].state
  <2>1. ~Absent(ps, p) /\ ~Absent(ps, cur)
    BY <1>1, <1>2, ReadyState DEF Absent
  <2>2. ~Absent(qs, p) /\ ~Absent(qs, cur)
    BY <1>9, <1>12 DEF Absent
  <2> QED
    BY <1>1, <1>11, <2>1, <2>2
<1>16. ASSUME NEW r \in Pids, NEW u \in Threads
       PROVE  Up(qs, p, r, u) <=> Up(ps, cur, r, u)
  <2>1. CASE r = cur /\ r # p
    BY <1>12, <2>1 DEF Up
  <2>2. CASE r = p /\ r # cur
    BY <1>9, <1>12, <2>2 DEF Up
  <2>3. CASE r = p /\ r = cur
    BY <1>9, <1>12, <2>3 DEF Up
  <2>4. CASE r \notin {cur, p}
    BY <1>1, <1>11, <2>4 DEF Up
  <2> QED
    BY <2>1, <2>2, <2>3, <2>4
<1> QED
  BY <1>14, <1>15, <1>16 DEF Shifts, qs, rs, us

\* The current thread stops and thread t of process p runs.
LEMMA GiveShifts ==
    ASSUME NEW ps, NEW cur \in Pids, Sane(ps, cur), ps[cur].current \in Threads,
           NEW p \in Pids, NEW t \in ps[p].ready
    PROVE  Shifts(ps, cur, activate_process_thread(ps, cur, ps[cur].current, p, t, FALSE), p,
                  {}, {<<cur, ps[cur].current>>})
<1> DEFINE c  == ps[cur].current
           qs == activate_process_thread(ps, cur, c, p, t, FALSE)
<1>1. /\ cur \in Procs /\ p \in Procs /\ cur # KERNEL_PID /\ p # KERNEL_PID
      /\ KERNEL_PID \in Procs /\ Pids \subseteq Procs
  BY NumbersOfThreads
<1>2. CASE p # cur
  <2>1. qs = SwitchProcess(ps, cur, c, p, t, FALSE) /\ ps[p].state = "Ready"
    BY <1>1, <1>2, ReadyState DEF activate_process_thread
  <2>2. Shifts(ps, cur, SwitchProcess(ps, cur, c, p, t, FALSE), p, {},
               IF FALSE THEN {} ELSE {<<cur, c>>})
    BY <1>1, <1>2, <2>1, SwitchShifts
  <2> QED
    BY <2>1, <2>2
<1>3. CASE p = cur
  <2>1. /\ TableOK(ps) /\ ps[cur].state = "Running" /\ ps[cur].ready \subseteq Threads
        /\ c \notin ps[cur].ready
    BY <1>1, SaneFacts
  <2>2. qs = Run(ps, p, t, ps[p].ready)
    BY <1>3, <2>1 DEF activate_process_thread, SwitchThread
  <2> HIDE DEF qs
  <2>3. /\ qs[p].state = "Running" /\ qs[p].ready = ps[p].ready \ {t} /\ qs[p].current = t
        /\ \A r \in Procs : r # p => qs[r] = ps[r]
    BY <1>1, <2>1, <2>2, RunRows
  <2>4. TableOK(qs)
    BY <1>1, <1>3, <2>1, <2>2, RunMoves DEF Ran, Moves
  <2>5. Sane(qs, p)
    BY <1>1, <1>3, <2>3, <2>4 DEF Sane
  <2>6. \A r \in Pids : Absent(ps, r) \/ Absent(qs, r) => qs[r].state = ps[r].state
    BY <1>1, <1>3, <2>1, <2>3
  <2>7. ASSUME NEW r \in Pids, NEW u \in Threads
        PROVE  Up(qs, p, r, u) <=> Up(ps, cur, r, u) /\ <<r, u>> \notin {<<cur, c>>}
    <3>1. CASE r = p
      BY <1>3, <2>1, <2>3, <3>1 DEF Up
    <3>2. CASE r # p
      BY <1>1, <1>3, <2>3, <3>2 DEF Up
    <3> QED
      BY <3>1, <3>2
  <2> QED
    BY <2>5, <2>6, <2>7 DEF Shifts, qs
<1> QED
  BY <1>2, <1>3

\* A thread that was not there starts and runs.
LEMMA CreateShifts ==
    ASSUME NEW ps, NEW cur \in Pids, Sane(ps, cur), ps[cur].current \in Threads,
           NEW t \in Threads, ~Up(ps, cur, cur, t)
    PROVE  Shifts(ps, cur, switch_to_thread([ps EXCEPT ![cur].ready = @ \cup {t}], cur, t), cur,
                  {<<cur, t>>}, {})
<1> DEFINE rs == [ps EXCEPT ![cur].ready = @ \cup {t}]
           c  == ps[cur].current
           qs == switch_to_thread(rs, cur, t)
<1>1. /\ cur \in Procs /\ cur # KERNEL_PID /\ KERNEL_PID \in Procs /\ Pids \subseteq Procs
      /\ t # ANY /\ t # c
  BY NumbersOfThreads DEF ANY, IRQ_TID, Up
<1>2. /\ TableOK(ps) /\ ps[cur].state = "Running" /\ ps[cur].ready \subseteq Threads
      /\ c \notin ps[cur].ready
  BY <1>1, SaneFacts
<1>3. /\ rs \in [Procs -> Process] /\ rs[cur].state = "Running" /\ rs[cur].current = c
      /\ rs[cur].ready = ps[cur].ready \cup {t}
      /\ \A r \in Procs : r # cur => rs[r] = ps[r]
  BY <1>1, <1>2 DEF TableOK, Process
<1> HIDE DEF rs
<1>4. TableOK(rs)
  BY <1>1, <1>2, <1>3 DEF TableOK
<1> DEFINE ts == rs[cur].ready \cup {c}
<1>5. qs = Run(rs, cur, t, ts)
  BY <1>1, <1>3 DEF switch_to_thread
<1>6. ts = ps[cur].ready \cup {t, c} /\ ts \in SUBSET Threads
  BY <1>2, <1>3
<1> HIDE DEF qs, ts
<1>7. /\ qs[cur].state = "Running" /\ qs[cur].ready = ts \ {t} /\ qs[cur].current = t
      /\ \A r \in Procs : r # cur => qs[r] = rs[r]
  BY <1>1, <1>4, <1>5, RunRows
<1>8. TableOK(qs)
  BY <1>1, <1>4, <1>5, <1>6, RunMoves DEF Ran, Moves
<1>9. Sane(qs, cur)
  BY <1>1, <1>3, <1>7, <1>8 DEF Sane
<1>10. \A r \in Pids : Absent(ps, r) \/ Absent(qs, r) => qs[r].state = ps[r].state
  BY <1>1, <1>2, <1>3, <1>7
<1>11. ASSUME NEW r \in Pids, NEW u \in Threads
       PROVE  Up(qs, cur, r, u) <=> Up(ps, cur, r, u) \/ <<r, u>> \in {<<cur, t>>}
  <2>1. CASE r = cur
    BY <1>6, <1>7, <2>1 DEF Up
  <2>2. CASE r # cur
    BY <1>1, <1>3, <1>7, <2>2 DEF Up
  <2> QED
    BY <2>1, <2>2
<1> QED
  BY <1>9, <1>10, <1>11 DEF Shifts, qs, rs

\* The thread of a process whose threads are at rest that runs next.
LEMMA AnyRows ==
    ASSUME NEW ps, TableOK(ps), NEW p \in Procs, ps[p].state = "Ready"
    PROVE  LET qs == switch_to_thread(ps, p, ANY)
           IN  /\ TableOK(qs) /\ qs[p].state = "Running"
               /\ qs[p].current \in ps[p].ready /\ qs[p].ready = ps[p].ready \ {qs[p].current}
               /\ \A r \in Procs : r # p => qs[r] = ps[r]
<1> DEFINE n  == find_next_thread(ps[p].ready, ps[p].current)
           qs == switch_to_thread(ps, p, ANY)
<1>1. ps[p].ready # {} /\ ps[p].ready \in SUBSET Nat /\ ps[p].ready \in SUBSET Threads
  BY NumbersOfThreads DEF TableOK, Process
<1>2. n \in ps[p].ready
  BY <1>1, NextThreadFound
<1>3. ps[p].ready \cup (IF ps[p].state = "Running" THEN {ps[p].current} ELSE {}) = ps[p].ready
  OBVIOUS
<1>4. qs = Run(ps, p, n, ps[p].ready)
  BY <1>2, <1>3 DEF switch_to_thread
<1> HIDE DEF n, qs
<1>5. TableOK(qs)
  BY <1>1, <1>2, <1>4, RunMoves DEF Ran, Moves
<1> QED
  BY <1>2, <1>4, <1>5, RunRows DEF qs

\* The current thread ends.
LEMMA ExitShifts ==
    ASSUME NEW ps, NEW cur \in Pids, Sane(ps, cur), ps[cur].current \in Threads,
           NEW woken \in SUBSET Threads, \A t \in woken : ~Up(ps, cur, cur, t)
    PROVE  LET rest == ps[cur].ready \cup woken
               p    == IF rest = {} THEN KERNEL_PID ELSE cur
           IN  Shifts(ps, cur, switch_to_thread(Rest(ps, cur, rest), p, ANY), p,
                      {<<cur, t>> : t \in woken}, {<<cur, ps[cur].current>>})
<1> DEFINE rest == ps[cur].ready \cup woken
           p    == IF rest = {} THEN KERNEL_PID ELSE cur
           rs   == Rest(ps, cur, rest)
           c    == ps[cur].current
           qs   == switch_to_thread(rs, p, ANY)
<1>1. cur \in Procs /\ cur # KERNEL_PID /\ KERNEL_PID \in Procs /\ Pids \subseteq Procs
  BY NumbersOfThreads
<1>2. /\ TableOK(ps) /\ ps[cur].state = "Running" /\ rest \in SUBSET Threads
      /\ c \notin rest
      /\ ps[KERNEL_PID].state = "Ready" /\ ps[KERNEL_PID].ready = {INITIAL_TID}
  BY <1>1, SaneFacts DEF Up
<1>3. /\ TableOK(rs) /\ rs[cur].ready = rest
      /\ rs[cur].state = IF rest = {} THEN "Sleeping" ELSE "Ready"
      /\ \A r \in Procs : r # cur => rs[r] = ps[r]
  BY <1>1, <1>2, RestMoves DEF Moves
<1>4. p \in Procs /\ rs[p].state = "Ready"
  BY <1>1, <1>2, <1>3
<1>5. p = KERNEL_PID \/ p = cur
  OBVIOUS
<1>6. rest = {} <=> p = KERNEL_PID
  BY <1>1
<1> HIDE DEF rs, p
<1>7. /\ TableOK(qs) /\ qs[p].state = "Running"
      /\ qs[p].current \in rs[p].ready /\ qs[p].ready = rs[p].ready \ {qs[p].current}
      /\ \A r \in Procs : r # p => qs[r] = rs[r]
  BY <1>3, <1>4, AnyRows
<1> HIDE DEF qs, rest
<1>8. /\ \A r \in Procs : r \notin {cur, KERNEL_PID} => qs[r] = ps[r]
      /\ p = KERNEL_PID => /\ qs[cur].state = "Sleeping" /\ qs[cur].ready = {}
                           /\ qs[KERNEL_PID].current = INITIAL_TID /\ qs[KERNEL_PID].ready = {}
      /\ p = cur => qs[KERNEL_PID] = ps[KERNEL_PID]
  BY <1>1, <1>2, <1>3, <1>5, <1>6, <1>7
<1>9. Sane(qs, p)
  <2>1. \A r \in Procs : /\ qs[r].state # "Panic"
                         /\ qs[r].state = "Running" <=> r = p
                         /\ qs[r].state \in {"Free", "Setup", "Sleeping"} => qs[r].ready = {}
    BY <1>1, <1>2, <1>5, <1>7, <1>8 DEF Sane
  <2> QED
    BY <1>1, <1>2, <1>4, <1>5, <1>7, <1>8, <2>1 DEF Sane
<1>10. \A r \in Pids : Absent(ps, r) \/ Absent(qs, r) => qs[r].state = ps[r].state
  <2>1. ~Absent(ps, cur) /\ ~Absent(qs, cur)
    BY <1>2, <1>5, <1>7, <1>8 DEF Absent
  <2> QED
    BY <1>1, <1>8, <2>1, NumbersOfThreads
<1>11. ASSUME NEW r \in Pids, NEW u \in Threads
       PROVE  Up(qs, p, r, u) <=> /\ Up(ps, cur, r, u) \/ <<r, u>> \in {<<cur, t>> : t \in woken}
                                  /\ <<r, u>> \notin {<<cur, c>>}
  <2>1. r # KERNEL_PID /\ r \in Procs
    BY NumbersOfThreads
  <2>2. CASE r = cur
    <3>1. Up(qs, p, r, u) <=> u \in rest
      BY <1>3, <1>5, <1>6, <1>7, <1>8, <2>1, <2>2 DEF Up
    <3>2. u \in rest <=> u \in ps[cur].ready \/ u \in woken
      BY DEF rest
    <3>3. Up(ps, cur, r, u) <=> u = c \/ u \in ps[cur].ready
      BY <2>2 DEF Up
    <3>4. <<r, u>> \in {<<cur, t>> : t \in woken} <=> u \in woken
      BY <2>2
    <3>5. <<r, u>> \notin {<<cur, c>>} <=> u # c
      BY <2>2
    <3> HIDE DEF c
    <3> QED
      BY <1>2, <3>1, <3>2, <3>3, <3>4, <3>5
  <2>3. CASE r # cur
    BY <1>5, <1>8, <2>1, <2>3 DEF Up
  <2> QED
    BY <2>2, <2>3
<1>12. Shifts(ps, cur, qs, p, {<<cur, t>> : t \in woken}, {<<cur, c>>})
  BY <1>9, <1>10, <1>11 DEF Shifts
<1> QED
  BY <1>12 DEF qs, rs, p, rest

\* An interrupt: the thread that ran stays ready.
LEMMA CallbackShifts ==
    ASSUME NEW ps, NEW cur, Sane(ps, cur), ps[cur].current \in Threads,
           NEW p \in Pids, ~Absent(ps, p)
    PROVE  LET qs == make_callback_to(ps, cur, p)
           IN  /\ Shifts(ps, cur, qs, p, {}, {})
               /\ qs[p].current = IRQ_TID /\ ps[cur].current \in qs[cur].ready
               /\ \A r \in Procs : ps[r].ready \subseteq qs[r].ready
<1> DEFINE c  == ps[cur].current
           ts == ps[cur].ready \cup {c}
           rs == Rest(ps, cur, ts)
           qs == make_callback_to(ps, cur, p)
<1>1. /\ p \in Procs /\ p # KERNEL_PID /\ KERNEL_PID \in Procs /\ Pids \subseteq Procs
      /\ IRQ_TID \notin Threads
  BY NumbersOfThreads
<1>2. /\ TableOK(ps) /\ cur \in Procs /\ ps[cur].state = "Running" /\ c \notin ps[cur].ready
      /\ ts \in SUBSET Threads /\ ts # {} /\ RunsThread(ps, cur)
  BY SaneFacts DEF RunsThread
<1> HIDE DEF ts
<1>3. /\ TableOK(rs) /\ rs[cur].state = "Ready" /\ rs[cur].ready = ts
      /\ \A r \in Procs : r # cur => rs[r] = ps[r]
  BY <1>2, RestMoves DEF Moves
<1>4. rs[p].state \in {"Ready", "Sleeping"} /\ rs[p].ready \subseteq Threads
  <2>1. CASE p = cur
    BY <1>2, <1>3, <2>1
  <2>2. CASE p # cur
    BY <1>1, <1>3, <2>2, SaneFacts
  <2> QED
    BY <2>1, <2>2
<1>5. qs = Run(rs, p, IRQ_TID, rs[p].ready)
  BY <1>2, <1>4 DEF make_callback_to, ts
<1>6. TableOK(qs)
  BY <1>2, CallbackMoves
<1> HIDE DEF rs, qs
<1>7. /\ qs[p].state = "Running" /\ qs[p].ready = rs[p].ready /\ qs[p].current = IRQ_TID
      /\ \A r \in Procs : r # p => qs[r] = rs[r]
  <2>1. rs[p].ready \ {IRQ_TID} = rs[p].ready
    BY <1>1, <1>4
  <2>2. /\ qs[p].state = "Running" /\ qs[p].ready = rs[p].ready \ {IRQ_TID} /\ qs[p].current = IRQ_TID
        /\ \A r \in Procs : r # p => qs[r] = rs[r]
    BY <1>1, <1>3, <1>5, RunRows
  <2> QED
    BY <2>1, <2>2
<1>8. /\ \A r \in Procs : r \notin {cur, p} => qs[r] = ps[r]
      /\ qs[cur].ready = ts /\ (cur # p => qs[cur].state = "Ready" /\ qs[p].ready = ps[p].ready)
  BY <1>1, <1>2, <1>3, <1>7
<1>9. \A r \in Procs : /\ qs[r].state # "Panic"
                       /\ qs[r].state = "Running" <=> r = p
                       /\ qs[r].state \in {"Free", "Setup", "Sleeping"} => qs[r].ready = {}
  BY <1>1, <1>2, <1>7, <1>8 DEF Sane
<1>10. qs[KERNEL_PID].ready = {INITIAL_TID}
  <2>1. CASE cur = KERNEL_PID
    <3>1. ps[cur].ready = {} /\ c = INITIAL_TID
      BY <2>1 DEF Sane
    <3> QED
      BY <1>8, <2>1, <3>1 DEF ts
  <2>2. CASE cur # KERNEL_PID
    BY <1>1, <1>8, <2>2, SaneFacts
  <2> QED
    BY <2>1, <2>2
<1>11. Sane(qs, p)
  BY <1>1, <1>4, <1>6, <1>7, <1>9, <1>10 DEF Sane
<1>12. \A r \in Pids : Absent(ps, r) \/ Absent(qs, r) => qs[r].state = ps[r].state
  BY <1>1, <1>2, <1>7, <1>8 DEF Absent
<1>13. ASSUME NEW r \in Pids, NEW u \in Threads
       PROVE  Up(qs, p, r, u) <=> Up(ps, cur, r, u)
  <2>1. CASE r = cur
    BY <1>1, <1>7, <1>8, <2>1 DEF Up, ts
  <2>2. CASE r = p /\ r # cur
    BY <1>1, <1>7, <1>8, <2>2 DEF Up
  <2>3. CASE r \notin {cur, p}
    BY <1>1, <1>8, <2>3 DEF Up
  <2> QED
    BY <2>1, <2>2, <2>3
<1>14. Shifts(ps, cur, qs, p, {}, {})
  BY <1>11, <1>12, <1>13 DEF Shifts
<1>15. c \in qs[cur].ready /\ \A r \in Procs : ps[r].ready \subseteq qs[r].ready
  BY <1>2, <1>8 DEF ts
<1> QED
  BY <1>7, <1>14, <1>15 DEF qs

\* The handler ends and thread t of process p goes on.
LEMMA FinishShifts ==
    ASSUME NEW ps, NEW cur \in Pids, Sane(ps, cur), ps[cur].current = IRQ_TID,
           NEW p \in Procs, NEW t \in ps[p].ready
    PROVE  Shifts(ps, cur, finish_callback_and_resume(ps, cur, p, t), p, {}, {})
<1> DEFINE rs == Rest(ps, cur, ps[cur].ready)
           qs == finish_callback_and_resume(ps, cur, p, t)
<1>1. /\ cur \in Procs /\ cur # KERNEL_PID /\ KERNEL_PID \in Procs /\ Pids \subseteq Procs
      /\ IRQ_TID \notin Threads
  BY NumbersOfThreads
<1>2. /\ TableOK(ps) /\ ps[cur].state = "Running" /\ ps[cur].ready \in SUBSET Threads
      /\ t \in Threads /\ ps[p].ready \subseteq Threads
      /\ ps[KERNEL_PID].state = "Ready" /\ ps[KERNEL_PID].ready = {INITIAL_TID}
  BY <1>1, SaneFacts
<1>3. /\ TableOK(rs) /\ rs[cur].ready = ps[cur].ready
      /\ rs[cur].state = IF ps[cur].ready = {} THEN "Sleeping" ELSE "Ready"
      /\ \A r \in Procs : r # cur => rs[r] = ps[r]
  BY <1>1, <1>2, RestMoves DEF Moves
<1>4. rs[p].state = "Ready" /\ rs[p].ready = ps[p].ready
  <2>1. CASE p = cur
    BY <1>3, <2>1
  <2>2. CASE p # cur
    BY <1>3, <2>2, ReadyState
  <2> QED
    BY <2>1, <2>2
<1>5. qs = Run(rs, p, t, rs[p].ready)
  BY <1>2, <1>4 DEF finish_callback_and_resume
<1> HIDE DEF rs, qs
<1>6. TableOK(qs)
  BY <1>2, <1>3, <1>4, <1>5, RunMoves DEF Ran, Moves
<1>7. /\ qs[p].state = "Running" /\ qs[p].ready = ps[p].ready \ {t} /\ qs[p].current = t
      /\ \A r \in Procs : r # p => qs[r] = rs[r]
  BY <1>3, <1>4, <1>5, RunRows
<1>8. /\ \A r \in Procs : r \notin {cur, p} => qs[r] = ps[r]
      /\ cur # p => /\ qs[cur].ready = ps[cur].ready
                    /\ qs[cur].state = IF ps[cur].ready = {} THEN "Sleeping" ELSE "Ready"
  BY <1>1, <1>3, <1>7
<1>9. \A r \in Procs : /\ qs[r].state # "Panic"
                       /\ qs[r].state = "Running" <=> r = p
                       /\ qs[r].state \in {"Free", "Setup", "Sleeping"} => qs[r].ready = {}
  BY <1>1, <1>2, <1>7, <1>8 DEF Sane
<1>10. /\ qs[KERNEL_PID].ready = IF p = KERNEL_PID THEN {} ELSE {INITIAL_TID}
       /\ p = KERNEL_PID => t = INITIAL_TID
  BY <1>1, <1>2, <1>7, <1>8
<1>11. Sane(qs, p)
  BY <1>6, <1>7, <1>9, <1>10 DEF Sane
<1>12. \A r \in Pids : Absent(ps, r) \/ Absent(qs, r) => qs[r].state = ps[r].state
  <2>1. ~Absent(ps, p) /\ ~Absent(qs, p) /\ ~Absent(ps, cur) /\ ~Absent(qs, cur)
    BY <1>2, <1>7, <1>8, ReadyState DEF Absent
  <2> QED
    BY <1>1, <1>8, <2>1
<1>13. ASSUME NEW r \in Pids, NEW u \in Threads
       PROVE  Up(qs, p, r, u) <=> Up(ps, cur, r, u)
  <2>1. CASE r = p
    BY <1>1, <1>7, <2>1 DEF Up
  <2>2. CASE r = cur /\ r # p
    BY <1>1, <1>8, <2>2 DEF Up
  <2>3. CASE r \notin {cur, p}
    BY <1>1, <1>8, <2>3 DEF Up
  <2> QED
    BY <2>1, <2>2, <2>3
<1> QED
  BY <1>11, <1>12, <1>13 DEF Shifts, qs

\* The threads in W are made ready together.
LEMMA ReadyAllShifts ==
    ASSUME NEW ps, NEW cur, Sane(ps, cur), NEW W,
           \A p \in Procs, t \in Threads :
               <<p, t>> \in W => p \in Pids /\ ~Absent(ps, p) /\ ~Up(ps, cur, p, t)
    PROVE  Shifts(ps, cur, ReadyAll(ps, W), cur, W, {})
<1> DEFINE qs == ReadyAll(ps, W)
           ts(r) == {t \in Threads : <<r, t>> \in W}
<1>1. KERNEL_PID \in Procs /\ Pids \subseteq Procs /\ KERNEL_PID \notin Pids
  BY NumbersOfThreads
<1>2. TableOK(ps) /\ cur \in Procs
  BY SaneFacts
<1>3. TableOK(qs)
  BY <1>2, ReadyAllMoves DEF Moves
<1>4. ASSUME NEW r \in Procs
      PROVE  /\ qs[r].ready = ps[r].ready \cup ts(r) /\ qs[r].current = ps[r].current
             /\ qs[r].state = IF ts(r) = {} \/ r = cur THEN ps[r].state ELSE "Ready"
  <2>1. qs[r] = IF ts(r) = {} THEN ps[r] ELSE
                CASE ps[r].state \in {"Ready", "Running"} /\ ts(r) \cap ps[r].ready = {}
                       -> [ps[r] EXCEPT !.ready = @ \cup ts(r)]
                  [] ps[r].state = "Sleeping" -> [ps[r] EXCEPT !.state = "Ready", !.ready = ts(r)]
                  [] OTHER -> [ps[r] EXCEPT !.state = "Panic"]
    BY DEF ReadyAll
  <2>2. ts(r) \cap ps[r].ready = {} /\ (ts(r) # {} => ~Absent(ps, r))
    BY DEF Up
  <2>3. ps[r] \in Process /\ (ps[r].state = "Running" <=> r = cur)
    BY <1>2 DEF TableOK, Sane
  <2>4. ts(r) # {} => ps[r].state \in {"Ready", "Running", "Sleeping"}
    BY <2>2, <2>3, SaneFacts
  <2>5. ps[r].state = "Sleeping" => ps[r].ready = {}
    BY DEF Sane
  <2> HIDE DEF ts, qs
  <2>6. CASE ts(r) = {}
    BY <2>1, <2>6
  <2>7. CASE ts(r) # {} /\ ps[r].state \in {"Ready", "Running"}
    <3>1. qs[r] = [ps[r] EXCEPT !.ready = @ \cup ts(r)]
      BY <2>1, <2>2, <2>7
    <3> QED
      BY <2>3, <2>7, <3>1 DEF Process
  <2>8. CASE ts(r) # {} /\ ps[r].state = "Sleeping"
    <3>1. qs[r] = [ps[r] EXCEPT !.state = "Ready", !.ready = ts(r)]
      BY <2>1, <2>8
    <3> QED
      BY <2>3, <2>5, <2>8, <3>1 DEF Process
  <2> QED
    BY <2>4, <2>6, <2>7, <2>8
<1>5. /\ ts(KERNEL_PID) = {} /\ ps[cur].current \notin ts(cur)
      /\ \A r \in Procs : ts(r) # {} => ~Absent(ps, r)
  BY <1>1, <1>2 DEF Up
<1>6. \A r \in Procs, u \in Threads : u \in ts(r) <=> <<r, u>> \in W
  OBVIOUS
<1> HIDE DEF qs, ts
<1>7. Sane(qs, cur)
  <2>1. \A r \in Procs : /\ qs[r].state # "Panic"
                         /\ qs[r].state = "Running" <=> r = cur
                         /\ qs[r].state \in {"Free", "Setup", "Sleeping"} => qs[r].ready = {}
    BY <1>4, <1>5 DEF Sane, Absent
  <2> QED
    BY <1>1, <1>2, <1>3, <1>4, <1>5, <2>1 DEF Sane
<1>8. \A r \in Pids : Absent(ps, r) \/ Absent(qs, r) => qs[r].state = ps[r].state
  BY <1>1, <1>4, <1>5 DEF Absent
<1>9. ASSUME NEW r \in Pids, NEW u \in Threads
      PROVE  Up(qs, cur, r, u) <=> Up(ps, cur, r, u) \/ <<r, u>> \in W
  BY <1>1, <1>4, <1>6 DEF Up
<1> QED
  BY <1>7, <1>8, <1>9 DEF Shifts, qs

\* The current process ends.
LEMMA FreeRows ==
    ASSUME NEW ps, NEW cur \in Pids, Sane(ps, cur)
    PROVE  LET us == unschedule_thread(ps, cur, ps[cur].current)
               fs == [us EXCEPT ![cur] = IF Panicked(us) THEN @ ELSE FreeProcess]
               qs == switch_to_thread(fs, KERNEL_PID, ANY)
           IN  /\ Sane(qs, KERNEL_PID)
               /\ qs[cur].state = "Free" /\ qs[cur].ready = {}
               /\ \A r \in Pids : r # cur => qs[r] = ps[r]
<1> DEFINE us == unschedule_thread(ps, cur, ps[cur].current)
           fs == [us EXCEPT ![cur] = IF Panicked(us) THEN @ ELSE FreeProcess]
           qs == switch_to_thread(fs, KERNEL_PID, ANY)
<1>1. cur \in Procs /\ cur # KERNEL_PID /\ KERNEL_PID \in Procs /\ Pids \subseteq Procs /\ KERNEL_PID \notin Pids
  BY NumbersOfThreads
<1>2. /\ TableOK(ps) /\ ps[cur].state = "Running" /\ ps[cur].ready \in SUBSET Threads
      /\ ps[cur].current \notin ps[cur].ready
      /\ ps[KERNEL_PID].state = "Ready" /\ ps[KERNEL_PID].ready = {INITIAL_TID}
  BY <1>1, SaneFacts
<1>3. us = Rest(ps, cur, ps[cur].ready)
  BY <1>2 DEF unschedule_thread
<1>4. /\ TableOK(us) /\ us[cur].state = IF ps[cur].ready = {} THEN "Sleeping" ELSE "Ready"
      /\ \A r \in Procs : r # cur => us[r] = ps[r]
  BY <1>1, <1>2, <1>3, RestMoves DEF Moves
<1> HIDE DEF us
<1>5. ~Panicked(us)
  BY <1>4 DEF Panicked, Sane
<1>6. FreeProcess \in Process /\ FreeProcess.state = "Free" /\ FreeProcess.ready = {}
  BY NumbersOfThreads DEF FreeProcess, Process, States
<1>7. fs \in [Procs -> Process] /\ \A r \in Procs : fs[r] = IF r = cur THEN FreeProcess ELSE ps[r]
  BY <1>1, <1>4, <1>5, <1>6 DEF TableOK
<1> HIDE DEF fs
<1>8. TableOK(fs) /\ fs[KERNEL_PID] = ps[KERNEL_PID]
  BY <1>1, <1>2, <1>6, <1>7 DEF TableOK
<1>9. /\ TableOK(qs) /\ qs[KERNEL_PID].state = "Running"
      /\ qs[KERNEL_PID].current \in fs[KERNEL_PID].ready
      /\ qs[KERNEL_PID].ready = fs[KERNEL_PID].ready \ {qs[KERNEL_PID].current}
      /\ \A r \in Procs : r # KERNEL_PID => qs[r] = fs[r]
  <2>1. TableOK(fs) /\ fs[KERNEL_PID].state = "Ready" /\ KERNEL_PID \in Procs
    BY <1>1, <1>2, <1>8
  <2> QED
    BY <2>1, AnyRows
<1> HIDE DEF qs
<1>10. qs[KERNEL_PID].current = INITIAL_TID /\ qs[KERNEL_PID].ready = {}
  BY <1>2, <1>8, <1>9
<1>11. \A r \in Procs : r # KERNEL_PID => qs[r] = IF r = cur THEN FreeProcess ELSE ps[r]
  BY <1>7, <1>9
<1>12. \A r \in Procs : /\ qs[r].state # "Panic"
                        /\ qs[r].state = "Running" <=> r = KERNEL_PID
                        /\ qs[r].state \in {"Free", "Setup", "Sleeping"} => qs[r].ready = {}
  BY <1>1, <1>6, <1>9, <1>10, <1>11 DEF Sane
<1>13. Sane(qs, KERNEL_PID)
  BY <1>1, <1>9, <1>10, <1>12 DEF Sane
<1> QED
  BY <1>1, <1>6, <1>11, <1>13 DEF qs, fs, us

-----------------------------------------------------------------------------
(***************************************************************************)
(* A thread that does not run and is not ready has one seat somewhere: at  *)
(* the desk of a server, in the slot that holds its message or its token   *)
(* or on the bench of the threads that wait for a message, or at the desk  *)
(* of those that join another thread.                                      *)
(***************************************************************************)
BENCH == -1
JOIN  == -1
Seats == Slots \cup {BENCH}
Desks == Sidxs \cup {JOIN}

Awaits(e) == AwaitsReply(e) \/ is_in_server(e)

\* Thread t of process p sits in seat y of the queue q of a server of process o.
Sits(q, o, y, p, t) ==
    IF y = BENCH THEN p = o /\ t \in q.ready_threads
    ELSE Awaits(q.queue[y]) /\ q.queue[y].pid = p /\ q.queue[y].tid = t

NoneEnded(q) == \A k \in Slots : q.queue[k].tag \notin TerminatedTags

\* From q to r the threads in In sit down and those in Out get up.
Reseats(q, r, o, In, Out) ==
    /\ NoneEnded(r)
    /\ \A y \in Seats, p \in Pids, t \in Threads :
          Sits(r, o, y, p, t) <=> \/ Sits(q, o, y, p, t) /\ <<y, p, t>> \notin Out
                                  \/ <<y, p, t>> \in In

LEMMA SeatFacts ==
    /\ BENCH \notin Slots /\ JOIN \notin Sidxs
    /\ \A e : IsEmpty(e) => ~Awaits(e)
    /\ ~Awaits(Empty) /\ IsEmpty(Empty) /\ Empty.tag \notin TerminatedTags
<1>1. BENCH \notin Slots /\ JOIN \notin Sidxs
  BY ServerAssumption, KernelAssumption DEF Slots, Sidxs, BENCH, JOIN
<1>2. \A e : IsEmpty(e) => ~Awaits(e)
  BY DEF IsEmpty, Awaits, AwaitsReply, is_in_server, TerminatedTags, WaitingTags
<1>3. IsEmpty(Empty) /\ Empty.tag \notin TerminatedTags
  BY DEF IsEmpty, Empty, TerminatedTags
<1> QED
  BY <1>1, <1>2, <1>3

LEMMA ReseatsNobody ==
    ASSUME NEW q, NEW o, NoneEnded(q)
    PROVE  Reseats(q, q, o, {}, {})
  BY DEF Reseats

\* Only who waits for a message changes.
LEMMA BenchReseats ==
    ASSUME NEW q, NEW r, NEW o \in Pids, NoneEnded(q), r.queue = q.queue, NEW t \in Threads
    PROVE  /\ r.ready_threads = q.ready_threads \cup {t}
                  => Reseats(q, r, o, {<<BENCH, o, t>>}, {})
           /\ r.ready_threads = q.ready_threads \ {t}
                  => Reseats(q, r, o, {}, {<<BENCH, o, t>>})
<1>1. NoneEnded(r)
  BY DEF NoneEnded
<1>2. \A y, p, u : y # BENCH => (Sits(r, o, y, p, u) <=> Sits(q, o, y, p, u))
  BY DEF Sits
<1>3. \A p, u : /\ Sits(r, o, BENCH, p, u) <=> p = o /\ u \in r.ready_threads
                /\ Sits(q, o, BENCH, p, u) <=> p = o /\ u \in q.ready_threads
  BY DEF Sits
<1> HIDE DEF BENCH
<1> QED
  BY <1>1, <1>2, <1>3 DEF Reseats

\* A slot gets another entry, of a client that had not been there or is there still.
LEMMA SlotReseats ==
    ASSUME NEW q \in ServerRecord, NEW r, NEW o, NoneEnded(q), NEW k \in Slots, NEW e,
           r.queue = [q.queue EXCEPT ![k] = e], r.ready_threads = q.ready_threads,
           e.tag \notin TerminatedTags
    PROVE  /\ ~Awaits(q.queue[k]) /\ Awaits(e) => Reseats(q, r, o, {<<k, e.pid, e.tid>>}, {})
           /\ Awaits(q.queue[k]) /\ ~Awaits(e)
                  => Reseats(q, r, o, {}, {<<k, q.queue[k].pid, q.queue[k].tid>>})
           /\ (Awaits(e) <=> Awaits(q.queue[k]))
                  /\ (Awaits(e) => e.pid = q.queue[k].pid /\ e.tid = q.queue[k].tid)
                  => Reseats(q, r, o, {}, {})
<1>1. \A y \in Slots : r.queue[y] = IF y = k THEN e ELSE q.queue[y]
  BY DEF ServerRecord
<1>2. NoneEnded(r)
  BY <1>1 DEF NoneEnded
<1>3. \A y \in Slots : \A p, u : y # k => (Sits(r, o, y, p, u) <=> Sits(q, o, y, p, u))
  BY <1>1, SeatFacts DEF Sits
<1>4. \A p, u : Sits(r, o, BENCH, p, u) <=> Sits(q, o, BENCH, p, u)
  BY DEF Sits
<1>5. \A p, u : /\ Sits(r, o, k, p, u) <=> Awaits(e) /\ e.pid = p /\ e.tid = u
                /\ Sits(q, o, k, p, u) <=> /\ Awaits(q.queue[k])
                                           /\ q.queue[k].pid = p /\ q.queue[k].tid = u
  BY <1>1, SeatFacts DEF Sits
<1>6. BENCH # k
  BY SeatFacts
<1> HIDE DEF BENCH
<1> QED
  BY <1>2, <1>3, <1>4, <1>5, <1>6 DEF Reseats, Seats

LEMMA ReseatsCompose ==
    ASSUME NEW q, NEW r, NEW s, NEW o, NEW In, NEW Out,
           Reseats(q, r, o, {}, Out), Reseats(r, s, o, In, {})
    PROVE  Reseats(q, s, o, In, Out)
  BY DEF Reseats

\* A message is queued: who waits for its answer sits down in its slot.
LEMMA EnqueueReseats ==
    ASSUME NEW q \in ServerRecord, NEW o, NoneEnded(q), NEW m \in Message, EmptySlots(q) # {}
    PROVE  LET r == queue_message(q, m)
           IN  /\ Blocking(m) => \E k \in Slots : Reseats(q, r, o, {<<k, m.pid, m.tid>>}, {})
               /\ ~Blocking(m) => Reseats(q, r, o, {}, {})
<1> DEFINE i == FirstFrom(q.queue_head, EmptySlots(q))
           e == [tag |-> QueuedTag(m.kind), pid |-> m.pid, tid |-> m.tid,
                 idx |-> q.tail_generation, payload |-> m.payload]
           r == queue_message(q, m)
<1>1. i \in Slots /\ ~Awaits(q.queue[i])
  BY EmptySlotFound, SeatFacts DEF EmptySlots
<1>2. (Awaits(e) <=> Blocking(m)) /\ e.tag \notin TerminatedTags /\ e.pid = m.pid /\ e.tid = m.tid
  BY DEF Awaits, AwaitsReply, is_in_server, QueuedTag, Message, Kinds, ScalarKinds, MemoryKinds,
     TerminatedTags, WaitingTags, Blocking, BlockingKinds
<1>3. r.queue = [q.queue EXCEPT ![i] = e] /\ r.ready_threads = q.ready_threads
  BY DEF queue_message, FillSlot, ServerRecord
<1> HIDE DEF e, r, i
<1>4. CASE Blocking(m)
  <2>1. Reseats(q, r, o, {<<i, e.pid, e.tid>>}, {})
    BY <1>1, <1>2, <1>3, <1>4, SlotReseats
  <2> QED
    BY <1>1, <1>2, <1>4, <2>1 DEF r
<1>5. CASE ~Blocking(m)
  <2>1. Reseats(q, r, o, {}, {})
    BY <1>1, <1>2, <1>3, <1>5, SlotReseats
  <2> QED
    BY <1>5, <2>1 DEF r
<1> QED
  BY <1>4, <1>5

\* A thread that waits for a message gets one.
LEMMA TakeThreadReseats ==
    ASSUME NEW q, QueueOK(q), NEW o \in Pids, NoneEnded(q), q.ready_threads # {}
    PROVE  Reseats(q, take_available_thread(q), o, {}, {<<BENCH, o, AvailableThread(q)>>})
<1> DEFINE r == take_available_thread(q)
           t == AvailableThread(q)
<1>1. t \in Threads
  BY GiveBack
<1>2. r.queue = q.queue /\ r.ready_threads = q.ready_threads \ {t}
  BY DEF take_available_thread, QueueOK, ServerRecord
<1> HIDE DEF r, t
<1>3. Reseats(q, r, o, {}, {<<BENCH, o, t>>})
  BY <1>1, <1>2, BenchReseats
<1> QED
  BY <1>3 DEF r, t

\* The message it gets is one whose sender waits for an answer.
LEMMA HandOffReseats ==
    ASSUME NEW q, QueueOK(q), NEW o \in Pids, NoneEnded(q), q.ready_threads # {},
           NEW m \in Message, Blocking(m), EmptySlots(q) # {}
    PROVE  \E k \in Slots :
               Reseats(q, queue_response(take_available_thread(q), m), o,
                       {<<k, m.pid, m.tid>>}, {<<BENCH, o, AvailableThread(q)>>})
<1> DEFINE s == take_available_thread(q)
           i == ResponseSlot(s)
           e == [tag |-> ResponseTag(m.kind), pid |-> m.pid, tid |-> m.tid,
                 idx |-> 0, payload |-> m.payload]
           r == queue_response(s, m)
           Out == {<<BENCH, o, AvailableThread(q)>>}
<1>1. q \in ServerRecord /\ Good(q)
  BY DEF QueueOK
<1>2. s \in ServerRecord /\ EmptySlots(s) # {}
  BY <1>1, TakeThreadOK, TakeThreadGood DEF QueueOK
<1>3. Reseats(q, s, o, {}, Out)
  BY TakeThreadReseats
<1> HIDE DEF s, Out
<1>4. i \in Slots /\ ~Awaits(s.queue[i])
  BY <1>2, EmptySlotFound, SeatFacts DEF EmptySlots, ResponseSlot
<1>5. Awaits(e) /\ e.tag \notin TerminatedTags /\ e.pid = m.pid /\ e.tid = m.tid
  BY DEF Awaits, is_in_server, ResponseTag, Message, Kinds, ScalarKinds, MemoryKinds,
     TerminatedTags, WaitingTags, Blocking, BlockingKinds
<1>6. r.queue = [s.queue EXCEPT ![i] = e] /\ r.ready_threads = s.ready_threads
  BY <1>2 DEF queue_response, FillSlot, ServerRecord
<1>7. NoneEnded(s)
  BY <1>3 DEF Reseats
<1> HIDE DEF e, r, i
<1>8. Reseats(s, r, o, {<<i, e.pid, e.tid>>}, {})
  BY <1>2, <1>4, <1>5, <1>6, <1>7, SlotReseats
<1>9. Reseats(s, r, o, {<<i, m.pid, m.tid>>}, {})
  BY <1>5, <1>8
<1>10. Reseats(q, r, o, {<<i, m.pid, m.tid>>}, Out)
  BY <1>3, <1>9, ReseatsCompose
<1> QED
  BY <1>4, <1>10 DEF r, s, Out

\* A message that is received leaves its sender where it is.
LEMMA TakeNextReseats ==
    ASSUME NEW q \in ServerRecord, NEW o, NoneEnded(q), HasNextMessage(q)
    PROVE  Reseats(q, take_next_message(q), o, {}, {})
<1> DEFINE i == NextMessageSlot(q)
           e == AfterReceive(q.queue[i])
           r == take_next_message(q)
<1>1. i \in Slots /\ q.queue[i] \in QueuedMessage /\ IsUnread(q.queue[i])
      /\ q.queue[i].tag \notin TerminatedTags
  BY NextMessageFound, EntryIsMessage, TagsDisjoint DEF NextMessageSlots, NoneEnded
<1>2. r.queue = [q.queue EXCEPT ![i] = e] /\ r.ready_threads = q.ready_threads
  BY DEF take_next_message, ServerRecord
<1>3. /\ Awaits(e) <=> Awaits(q.queue[i])
      /\ Awaits(e) => e.pid = q.queue[i].pid /\ e.tid = q.queue[i].tid
      /\ e.tag \notin TerminatedTags
  <2> DEFINE f == q.queue[i]
  <2>1. f \in QueuedMessage /\ f.tag \in QueuedTags
    BY <1>1 DEF IsUnread, UnreadTags
  <2> HIDE DEF f, i
  <2>2. /\ Awaits(AfterReceive(f)) <=> Awaits(f)
        /\ Awaits(AfterReceive(f)) => AfterReceive(f).pid = f.pid /\ AfterReceive(f).tid = f.tid
        /\ AfterReceive(f).tag \notin TerminatedTags
    BY <2>1 DEF AfterReceive, QueuedMessage, Awaits, AwaitsReply, is_in_server, TerminatedTags,
       WaitingTags, Empty, QueuedTags
  <2> QED
    BY <2>2 DEF f
<1> HIDE DEF e, r, i
<1>4. Reseats(q, r, o, {}, {})
  BY <1>1, <1>2, <1>3, SlotReseats
<1> QED
  BY <1>4 DEF r

\* A reply is taken: the client gets up.
LEMMA TakeWaitingReseats ==
    ASSUME NEW q \in ServerRecord, NEW o, NoneEnded(q), NEW k \in Slots, IsWaiting(q, k)
    PROVE  Reseats(q, take_waiting_message(q, k), o, {}, {<<k, q.queue[k].pid, q.queue[k].tid>>})
<1> DEFINE r == take_waiting_message(q, k)
<1>1. r.queue = [q.queue EXCEPT ![k] = Empty] /\ r.ready_threads = q.ready_threads
  BY DEF take_waiting_message, ServerRecord
<1>2. Awaits(q.queue[k]) /\ ~Awaits(Empty) /\ Empty.tag \notin TerminatedTags
  BY SeatFacts DEF IsWaiting, Awaits
<1> HIDE DEF r
<1>3. Reseats(q, r, o, {}, {<<k, q.queue[k].pid, q.queue[k].tid>>})
  BY <1>1, <1>2, SlotReseats
<1> QED
  BY <1>3 DEF r

\* A thread waits for a message.
LEMMA ParkReseats ==
    ASSUME NEW q \in ServerRecord, NEW o \in Pids, NoneEnded(q), NEW t \in Threads
    PROVE  Reseats(q, park_thread(q, t), o, {<<BENCH, o, t>>}, {})
<1> DEFINE r == park_thread(q, t)
<1>1. r.queue = q.queue /\ r.ready_threads = q.ready_threads \cup {t}
  BY DEF park_thread, ServerRecord
<1> HIDE DEF r
<1>2. Reseats(q, r, o, {<<BENCH, o, t>>}, {})
  BY <1>1, BenchReseats
<1> QED
  BY <1>2 DEF r

\* With room for the token and a thread that waits, the queue is not full:
\* send_message takes no thread that it does not wake.
LEMMA RoomIsNotFull ==
    ASSUME NEW q, QueueOK(q), q.ready_threads # {}, EmptySlots(q) # {}, NEW m
    PROVE  ~IsFull(q, m)
<1> DEFINE h == q.head_generation
           t == q.tail_generation
<1>1. q \in ServerRecord /\ Unread(q) = {} /\ NoneMissing(q)
  BY DEF QueueOK, Good, Agrees, SleepersIdle
<1>2. h \in GenNumbers /\ t \in GenNumbers
  BY <1>1 DEF ServerRecord
<1>3. ~(GenDist(h, h) < Pending(q))
  BY <1>1, <1>2 DEF NoneMissing
<1>4. GenDist(h, h) = 0 /\ Pending(q) \in Nat /\ (Pending(q) = 0 => h = t)
  BY <1>2, GenDistFacts DEF Pending
<1>5. h = t
  BY <1>3, <1>4
<1>6. PrevGen(h) # h
  BY <1>2, ServerAssumption DEF PrevGen, GenNumbers
<1>7. ~GenerationsFull(q)
  BY <1>5, <1>6 DEF GenerationsFull
<1> QED
  BY <1>7 DEF IsFull, CanDeliver, has_queue_capacity, has_queue_capacity_scalar

-----------------------------------------------------------------------------
(***************************************************************************)
(* The invariant.  A thread that is there runs, is ready, or has one seat; *)
(* one that is not there is nowhere.                                       *)
(***************************************************************************)
At(i, y, p, t) ==
    IF i = JOIN THEN y = BENCH /\ threads[p].joins[t] # 0
    ELSE Sits(servers[i].q, servers[i].pid, y, p, t)

Nowhere(p, t) == \A i \in Desks, y \in Seats : ~At(i, y, p, t)
Once(p, t) ==
    \E i \in Desks, y \in Seats :
        \A j \in Desks, z \in Seats : At(j, z, p, t) <=> j = i /\ z = y

Here(p, t) == t \in threads[p].live /\ ~Absent(procs, p)

PlaceOK(p, t) ==
    IF Here(p, t)
    THEN IF Up(procs, current_pid, p, t) THEN Nowhere(p, t) ELSE Once(p, t)
    ELSE ~Up(procs, current_pid, p, t) /\ Nowhere(p, t)

\* The process whose turn it is, while a handler runs or not.
Home == IF in_irq THEN previous_pair[1] ELSE current_pid

\* Yield can go back to the kernel whenever a process has its turn, and the
\* thread an interrupt handler returns to is ready.
ReturnOK ==
    /\ switchto_caller = IF Home = KERNEL_PID THEN NONE ELSE <<KERNEL_PID, INITIAL_TID>>
    /\ switchto_caller # NONE => original[1] \in Pids
    /\ handling_irq => /\ procs[current_pid].current = IRQ_TID
                       /\ previous_pair[2] \in procs[previous_pair[1]].ready
    /\ in_irq /\ ~handling_irq =>
          /\ previous_pair = <<KERNEL_PID, INITIAL_TID>> /\ current_pid # KERNEL_PID
          /\ "ReturnToParent" \in Program[current_pid]
    /\ handler # NoPid => ~Absent(procs, handler)

PlacesOK == \A p \in Pids, t \in Threads : PlaceOK(p, t)
QueuesOK == \A i \in Sidxs : NoneEnded(servers[i].q)
SetupOK  == \A p \in Pids : procs[p].state = "Setup" => threads[p].live = {INITIAL_TID}

PInv == Sane(procs, current_pid) /\ ReturnOK /\ PlacesOK /\ QueuesOK /\ SetupOK

\* What a step does to one thread: nothing, ...
LEMMA PlaceStays ==
    ASSUME NEW W, NEW S, Shifts(procs, current_pid, procs', current_pid', W, S),
           NEW p \in Pids, NEW t \in Threads, PlaceOK(p, t), <<p, t>> \notin W \cup S,
           t \in threads'[p].live <=> t \in threads[p].live,
           \A i \in Desks, y \in Seats : At(i, y, p, t)' <=> At(i, y, p, t)
    PROVE  PlaceOK(p, t)'
<1>1. Up(procs', current_pid', p, t) <=> Up(procs, current_pid, p, t)
  BY DEF Shifts
<1>2. Here(p, t)' <=> Here(p, t)
  BY DEF Shifts, Absent, Here
<1>3. Nowhere(p, t) => Nowhere(p, t)'
  BY DEF Nowhere
<1>4. ASSUME Once(p, t) PROVE Once(p, t)'
  <2>1. PICK i \in Desks, y \in Seats :
            \A j \in Desks, z \in Seats : At(j, z, p, t) <=> j = i /\ z = y
    BY <1>4 DEF Once
  <2>2. \A j \in Desks, z \in Seats : At(j, z, p, t)' <=> j = i /\ z = y
    BY <2>1
  <2> QED
    BY <2>2 DEF Once
<1> QED
  BY <1>1, <1>2, <1>3, <1>4 DEF PlaceOK

\* ... wake it, ...
LEMMA PlaceWoken ==
    ASSUME NEW W, NEW S, Shifts(procs, current_pid, procs', current_pid', W, S),
           NEW p \in Pids, NEW t \in Threads, PlaceOK(p, t), <<p, t>> \in W \ S,
           t \in threads'[p].live <=> t \in threads[p].live,
           ~Nowhere(p, t), Nowhere(p, t)'
    PROVE  PlaceOK(p, t)'
<1>1. Up(procs', current_pid', p, t)
  BY DEF Shifts
<1>2. Here(p, t)' <=> Here(p, t)
  BY DEF Shifts, Absent, Here
<1> QED
  BY <1>1, <1>2 DEF PlaceOK

\* ... or stop it.
LEMMA PlaceStopped ==
    ASSUME NEW W, NEW S, Shifts(procs, current_pid, procs', current_pid', W, S),
           NEW p \in Pids, NEW t \in Threads, PlaceOK(p, t), <<p, t>> \in S,
           t \in threads'[p].live <=> t \in threads[p].live,
           Up(procs, current_pid, p, t), Once(p, t)'
    PROVE  PlaceOK(p, t)'
<1>1. ~Up(procs', current_pid', p, t)
  BY DEF Shifts
<1>2. Here(p, t)' <=> Here(p, t)
  BY DEF Shifts, Absent, Here
<1> QED
  BY <1>1, <1>2 DEF PlaceOK

\* A thread that has a seat has no other, and does not run.
LEMMA OneSeat ==
    ASSUME NEW p \in Pids, NEW t \in Threads, PlaceOK(p, t),
           NEW i \in Desks, NEW y \in Seats, At(i, y, p, t)
    PROVE  /\ \A j \in Desks, z \in Seats : At(j, z, p, t) => j = i /\ z = y
           /\ Here(p, t) /\ ~Up(procs, current_pid, p, t) /\ ~Nowhere(p, t)
  BY DEF PlaceOK, Nowhere, Once

\* The queue of one server changes.
LEMMA QueueFrame ==
    ASSUME ServersOK, NEW i \in Sidxs, servers[i] # NoServer, NEW r, QueueOK(r), SetQueue(i, r),
           UNCHANGED threads
    PROVE  \A j \in Desks : \A y, p, t :
               At(j, y, p, t)' <=> IF j = i THEN Sits(r, servers[i].pid, y, p, t) ELSE At(j, y, p, t)
<1>1. /\ servers'[i].q = r /\ servers'[i].pid = servers[i].pid
      /\ \A j \in Sidxs : j # i => servers'[j] = servers[j]
  BY SetQueueOK DEF SameOwners
<1> QED
  BY <1>1, SeatFacts DEF At, Desks

\* Those who get up are woken, and those who are stopped sit down.
Matches(i, In, Out, W, S) ==
    /\ \A y \in Seats, p \in Pids, t \in Threads :
          /\ <<y, p, t>> \in Out => <<p, t>> \in W /\ At(i, y, p, t)
          /\ <<y, p, t>> \in In => <<p, t>> \in S
    /\ \A p \in Pids, t \in Threads :
          /\ <<p, t>> \in W => \E y \in Seats : <<y, p, t>> \in Out
          /\ <<p, t>> \in S => /\ Up(procs, current_pid, p, t)
                               /\ \E y \in Seats : \A z \in Seats : <<z, p, t>> \in In <=> z = y

LEMMA SeatsMove ==
    ASSUME ServersOK, PlacesOK, QueuesOK, NEW i \in Sidxs, servers[i] # NoServer,
           NEW r, QueueOK(r), SetQueue(i, r), UNCHANGED threads,
           NEW In, NEW Out, Reseats(servers[i].q, r, servers[i].pid, In, Out),
           NEW W, NEW S, Shifts(procs, current_pid, procs', current_pid', W, S),
           Matches(i, In, Out, W, S)
    PROVE  PlacesOK' /\ QueuesOK'
<1> DEFINE o == servers[i].pid
<1>1. \A j \in Desks : \A y, p, t :
          At(j, y, p, t)' <=> IF j = i THEN Sits(r, o, y, p, t) ELSE At(j, y, p, t)
  BY QueueFrame
<1>2. i \in Desks /\ \A y, p, t : At(i, y, p, t) <=> Sits(servers[i].q, o, y, p, t)
  BY SeatFacts DEF At, Desks
<1>3. \A j \in Desks, y \in Seats, p \in Pids, t \in Threads :
          At(j, y, p, t)' <=> IF j = i THEN \/ At(i, y, p, t) /\ <<y, p, t>> \notin Out
                                            \/ <<y, p, t>> \in In
                              ELSE At(j, y, p, t)
  BY <1>1, <1>2 DEF Reseats
<1>4. QueuesOK'
  <2>1. servers'[i].q = r /\ \A j \in Sidxs : j # i => servers'[j] = servers[j]
    BY SetQueueOK
  <2> QED
    BY <2>1 DEF QueuesOK, Reseats
<1>5. ASSUME NEW p \in Pids, NEW t \in Threads PROVE PlaceOK(p, t)'
  <2>1. PlaceOK(p, t) /\ (t \in threads'[p].live <=> t \in threads[p].live)
    BY DEF PlacesOK
  <2>2. CASE <<p, t>> \notin W \cup S
    <3>1. \A y \in Seats : <<y, p, t>> \notin Out /\ <<y, p, t>> \notin In
      BY <2>2 DEF Matches
    <3>2. ASSUME NEW j \in Desks, NEW y \in Seats PROVE At(j, y, p, t)' <=> At(j, y, p, t)
      <4>1. CASE j = i
        BY <1>3, <3>1, <4>1
      <4>2. CASE j # i
        BY <1>3, <4>2
      <4> QED
        BY <4>1, <4>2
    <3> QED
      BY <2>1, <2>2, <3>2, PlaceStays
  <2>3. CASE <<p, t>> \in W
    <3>1. PICK y \in Seats : <<y, p, t>> \in Out /\ At(i, y, p, t)
      BY <2>3 DEF Matches
    <3>2. /\ \A j \in Desks, z \in Seats : At(j, z, p, t) => j = i /\ z = y
          /\ ~Up(procs, current_pid, p, t) /\ ~Nowhere(p, t)
      BY <1>2, <2>1, <3>1, OneSeat
    <3>3. <<p, t>> \notin S
      BY <3>2 DEF Matches
    <3>4. \A j \in Desks, z \in Seats : ~At(j, z, p, t)'
      BY <1>3, <3>1, <3>2, <3>3 DEF Matches
    <3>5. Nowhere(p, t)'
      BY <3>4 DEF Nowhere
    <3> QED
      BY <2>1, <2>3, <3>2, <3>3, <3>5, PlaceWoken
  <2>4. CASE <<p, t>> \in S
    <3>1. PICK y \in Seats : \A z \in Seats : <<z, p, t>> \in In <=> z = y
      BY <2>4 DEF Matches
    <3>2. Up(procs, current_pid, p, t)
      BY <2>4 DEF Matches
    <3>3. \A j \in Desks, z \in Seats : ~At(j, z, p, t)
      BY <2>1, <3>2 DEF PlaceOK, Nowhere
    <3>4. \A j \in Desks, z \in Seats : At(j, z, p, t)' <=> j = i /\ z = y
      BY <1>2, <1>3, <3>1, <3>3
    <3>5. Once(p, t)'
      BY <1>2, <3>4 DEF Once
    <3> QED
      BY <2>1, <2>4, <3>2, <3>5, PlaceStopped
  <2> QED
    BY <2>2, <2>3, <2>4
<1> QED
  BY <1>4, <1>5 DEF PlacesOK

\* The four ways a call moves threads between a queue and the scheduler.
LEMMA NobodyMoves ==
    ASSUME ServersOK, PlacesOK, QueuesOK, NEW i \in Sidxs, servers[i] # NoServer,
           NEW r, QueueOK(r), SetQueue(i, r), UNCHANGED threads,
           Reseats(servers[i].q, r, servers[i].pid, {}, {}),
           Shifts(procs, current_pid, procs', current_pid', {}, {})
    PROVE  PlacesOK' /\ QueuesOK'
<1> DEFINE N == {}
<1>1. \A x : x \notin N
  OBVIOUS
<1>2. /\ Reseats(servers[i].q, r, servers[i].pid, N, N)
      /\ Shifts(procs, current_pid, procs', current_pid', N, N)
  OBVIOUS
<1> HIDE DEF N
<1>3. Matches(i, N, N, N, N)
  BY <1>1 DEF Matches
<1> QED
  BY <1>2, <1>3, SeatsMove

LEMMA OneSitsDown ==
    ASSUME ServersOK, PlacesOK, QueuesOK, NEW i \in Sidxs, servers[i] # NoServer,
           NEW r, QueueOK(r), SetQueue(i, r), UNCHANGED threads,
           NEW y \in Seats, NEW p \in Pids, NEW t \in Threads, Up(procs, current_pid, p, t),
           Reseats(servers[i].q, r, servers[i].pid, {<<y, p, t>>}, {}),
           Shifts(procs, current_pid, procs', current_pid', {}, {<<p, t>>})
    PROVE  PlacesOK' /\ QueuesOK'
<1> DEFINE N  == {}
           In == {<<y, p, t>>}
           S  == {<<p, t>>}
<1>1. /\ \A x : x \notin N
      /\ \A z, q, u : <<z, q, u>> \in In <=> z = y /\ q = p /\ u = t
      /\ \A q, u : <<q, u>> \in S <=> q = p /\ u = t
  OBVIOUS
<1>2. /\ Reseats(servers[i].q, r, servers[i].pid, In, N)
      /\ Shifts(procs, current_pid, procs', current_pid', N, S)
  OBVIOUS
<1> HIDE DEF N, In, S
<1>3. Matches(i, In, N, N, S)
  BY <1>1 DEF Matches
<1> QED
  BY <1>2, <1>3, SeatsMove

LEMMA OneGetsUp ==
    ASSUME ServersOK, PlacesOK, QueuesOK, NEW i \in Sidxs, servers[i] # NoServer,
           NEW r, QueueOK(r), SetQueue(i, r), UNCHANGED threads,
           NEW y \in Seats, NEW p \in Pids, NEW t \in Threads, At(i, y, p, t),
           Reseats(servers[i].q, r, servers[i].pid, {}, {<<y, p, t>>}),
           Shifts(procs, current_pid, procs', current_pid', {<<p, t>>}, {})
    PROVE  PlacesOK' /\ QueuesOK'
<1> DEFINE N   == {}
           Out == {<<y, p, t>>}
           W   == {<<p, t>>}
<1>1. /\ \A x : x \notin N
      /\ \A z, q, u : <<z, q, u>> \in Out <=> z = y /\ q = p /\ u = t
      /\ \A q, u : <<q, u>> \in W <=> q = p /\ u = t
  OBVIOUS
<1>2. /\ Reseats(servers[i].q, r, servers[i].pid, N, Out)
      /\ Shifts(procs, current_pid, procs', current_pid', W, N)
  OBVIOUS
<1> HIDE DEF N, Out, W
<1>3. Matches(i, N, Out, W, N)
  BY <1>1 DEF Matches
<1> QED
  BY <1>2, <1>3, SeatsMove

LEMMA TwoChange ==
    ASSUME ServersOK, PlacesOK, QueuesOK, NEW i \in Sidxs, servers[i] # NoServer,
           NEW r, QueueOK(r), SetQueue(i, r), UNCHANGED threads,
           NEW y \in Seats, NEW p \in Pids, NEW t \in Threads, Up(procs, current_pid, p, t),
           NEW z \in Seats, NEW q \in Pids, NEW u \in Threads, At(i, z, q, u),
           Reseats(servers[i].q, r, servers[i].pid, {<<y, p, t>>}, {<<z, q, u>>}),
           Shifts(procs, current_pid, procs', current_pid', {<<q, u>>}, {<<p, t>>})
    PROVE  PlacesOK' /\ QueuesOK'
<1> DEFINE In  == {<<y, p, t>>}
           S   == {<<p, t>>}
           Out == {<<z, q, u>>}
           W   == {<<q, u>>}
<1>1. /\ \A a, b, c : <<a, b, c>> \in In <=> a = y /\ b = p /\ c = t
      /\ \A b, c : <<b, c>> \in S <=> b = p /\ c = t
      /\ \A a, b, c : <<a, b, c>> \in Out <=> a = z /\ b = q /\ c = u
      /\ \A b, c : <<b, c>> \in W <=> b = q /\ c = u
  OBVIOUS
<1>2. /\ Reseats(servers[i].q, r, servers[i].pid, In, Out)
      /\ Shifts(procs, current_pid, procs', current_pid', W, S)
  OBVIOUS
<1> HIDE DEF In, Out, W, S
<1>3. Matches(i, In, Out, W, S)
  BY <1>1 DEF Matches
<1> QED
  BY <1>2, <1>3, SeatsMove

\* No queue and no join changes, and nobody is woken or stopped.
LEMMA NoSeatChanges ==
    ASSUME PlacesOK, QueuesOK, UNCHANGED <<servers, threads>>,
           Shifts(procs, current_pid, procs', current_pid', {}, {})
    PROVE  PlacesOK' /\ QueuesOK'
<1>1. ASSUME NEW p \in Pids, NEW t \in Threads PROVE PlaceOK(p, t)'
  <2>1. PlaceOK(p, t) /\ (t \in threads'[p].live <=> t \in threads[p].live)
    BY DEF PlacesOK
  <2>2. \A i \in Desks, y \in Seats : At(i, y, p, t)' <=> At(i, y, p, t)
    BY DEF At
  <2>3. <<p, t>> \notin {} \cup {}
    OBVIOUS
  <2> QED
    BY <2>1, <2>2, <2>3, PlaceStays
<1> QED
  BY <1>1 DEF PlacesOK, QueuesOK

-----------------------------------------------------------------------------
(***************************************************************************)
(* What a step does to the way back to the kernel.                         *)
(***************************************************************************)
LEMMA HandlerStays ==
    ASSUME ThreadsOK, NEW W, NEW S, Shifts(procs, current_pid, procs', current_pid', W, S),
           UNCHANGED handler, handler # NoPid => ~Absent(procs, handler)
    PROVE  handler' # NoPid => ~Absent(procs', handler')
  BY DEF ThreadsOK, Shifts, Absent

\* The processor stays with the processes.
LEMMA ReturnStays ==
    ASSUME SchedOK, ThreadsOK, ReturnOK, current_pid \in Pids, current_pid' \in Pids,
           NEW W, NEW S, Shifts(procs, current_pid, procs', current_pid', W, S),
           UNCHANGED <<switchto_caller, original, previous_pair, handling_irq, handler>>,
           in_irq => current_pid' = current_pid,
           handling_irq => /\ procs'[current_pid].current = procs[current_pid].current
                           /\ \A p \in Procs : procs[p].ready \subseteq procs'[p].ready
    PROVE  ReturnOK'
<1>1. current_pid # KERNEL_PID /\ current_pid' # KERNEL_PID
  BY NumbersOfThreads
<1>2. (Home = KERNEL_PID)' <=> Home = KERNEL_PID
  BY <1>1 DEF Home, in_irq
<1>3. switchto_caller' = IF (Home = KERNEL_PID)' THEN NONE ELSE <<KERNEL_PID, INITIAL_TID>>
  BY <1>2 DEF ReturnOK
<1>4. switchto_caller' # NONE => original'[1] \in Pids
  BY DEF ReturnOK
<1>5. handling_irq' => /\ procs'[current_pid'].current = IRQ_TID
                       /\ previous_pair'[2] \in procs'[previous_pair'[1]].ready
  BY DEF ReturnOK, SchedOK, IsPair, in_irq
<1>6. in_irq' /\ ~handling_irq' =>
          /\ previous_pair' = <<KERNEL_PID, INITIAL_TID>> /\ current_pid' # KERNEL_PID
          /\ "ReturnToParent" \in Program[current_pid']
  BY DEF ReturnOK, in_irq
<1>7. handler' # NoPid => ~Absent(procs', handler')
  BY HandlerStays DEF ReturnOK
<1> QED
  BY <1>3, <1>4, <1>5, <1>6, <1>7 DEF ReturnOK, in_irq

\* The kernel gets the processor back.
LEMMA ReturnParent ==
    ASSUME SchedOK, ~in_irq, current_pid' = KERNEL_PID, switchto_caller' = NONE,
           UNCHANGED <<previous_pair, handling_irq>>,
           handler' # NoPid => ~Absent(procs', handler')
    PROVE  ReturnOK'
<1>1. ~in_irq' /\ ~handling_irq'
  BY DEF SchedOK, in_irq
<1> QED
  BY <1>1 DEF ReturnOK, Home, in_irq

\* Nothing of the scheduler changes, or only who handles the interrupt.
LEMMA ReturnSame ==
    ASSUME ReturnOK, UNCHANGED <<procs, current_pid, switchto_caller, original, previous_pair,
                                 handling_irq>>,
           handler' # NoPid => ~Absent(procs, handler')
    PROVE  ReturnOK'
  BY DEF ReturnOK, Home, in_irq

(***************************************************************************)
(* The invariant after a step that keeps its parts.                        *)
(***************************************************************************)
LEMMA PStep ==
    ASSUME SetupOK, NEW W, NEW S, Shifts(procs, current_pid, procs', current_pid', W, S),
           UNCHANGED threads, ReturnOK', PlacesOK' /\ QueuesOK'
    PROVE  PInv'
<1>1. Sane(procs', current_pid')
  BY DEF Shifts
<1>2. SetupOK'
  BY DEF SetupOK, Shifts, Absent
<1> QED
  BY <1>1, <1>2 DEF PInv

LEMMA SchedSame ==
    ASSUME Sane(procs, current_pid), UNCHANGED <<procs, current_pid>>
    PROVE  Shifts(procs, current_pid, procs', current_pid', {}, {})
  BY ShiftsNowhere

-----------------------------------------------------------------------------
(***************************************************************************)
(* The thread that traps, and the ways a call gives up the processor.      *)
(***************************************************************************)
LEMMA CallerUp ==
    ASSUME KInv, PInv, self \in Pids, ~handling_irq
    PROVE  /\ tid \in Threads /\ procs[current_pid].current = tid
           /\ Up(procs, current_pid, self, tid)
           /\ Here(self, tid) /\ Nowhere(self, tid)
<1>1. ~Panicked(procs) /\ SchedOK
  BY SaneFacts DEF PInv, KInv
<1>2. tid \in Threads
  BY <1>1, CallerFacts
<1>3. Up(procs, current_pid, self, tid) /\ procs[current_pid].current = tid
  BY DEF Up, self, tid
<1>4. PlaceOK(self, tid)
  BY <1>2 DEF PInv, PlacesOK
<1> QED
  BY <1>2, <1>3, <1>4 DEF PlaceOK

LEMMA ParentStep ==
    ASSUME KInv, PInv, self \in Pids, ~in_irq, NEW new \in {ANY, INITIAL_TID},
           NEW can_resume \in BOOLEAN, ToParent(can_resume, new), UNCHANGED handler
    PROVE  /\ Shifts(procs, current_pid, procs', current_pid', {},
                     IF can_resume THEN {} ELSE {<<self, tid>>})
           /\ ReturnOK'
<1> DEFINE qs == SwitchProcess(procs, self, tid, KERNEL_PID, new, can_resume)
           rs == set_last_thread(qs, original[1], original[2])
           S  == IF can_resume THEN {} ELSE {<<self, tid>>}
<1>1. SchedOK /\ ThreadsOK /\ Sane(procs, self) /\ ReturnOK
  BY DEF KInv, PInv, self
<1>2. ~handling_irq
  BY <1>1 DEF SchedOK
<1>3. tid \in Threads /\ procs[self].current = tid
  BY <1>2, CallerUp DEF self
<1>4. original[1] \in Pids
  <2>1. Home = self /\ self # KERNEL_PID
    BY NumbersOfThreads DEF Home, self
  <2> QED
    BY <1>1, <2>1 DEF ReturnOK, NONE
<1>5. CanActivate(procs, KERNEL_PID, new) /\ Shifts(procs, self, rs, KERNEL_PID, {}, S)
  BY <1>1, <1>3, <1>4, ParentShifts
<1>6. /\ procs' = rs /\ current_pid' = KERNEL_PID /\ switchto_caller' = NONE
      /\ UNCHANGED <<previous_pair, handling_irq>>
  BY <1>5 DEF ToParent, Resume
<1> HIDE DEF rs, S
<1>7. Shifts(procs, current_pid, procs', current_pid', {}, S)
  BY <1>5, <1>6 DEF self
<1>8. handler' # NoPid => ~Absent(procs', handler')
  BY <1>1, <1>7, HandlerStays DEF ReturnOK
<1>9. ReturnOK'
  BY <1>1, <1>6, <1>8, ReturnParent
<1> QED
  BY <1>7, <1>9 DEF S

LEMMA BlockStep ==
    ASSUME KInv, PInv, self \in Pids, ~in_irq, Block, UNCHANGED handler
    PROVE  Shifts(procs, current_pid, procs', current_pid', {}, {<<self, tid>>}) /\ ReturnOK'
  BY ParentStep DEF Block

LEMMA GiveUpStep ==
    ASSUME KInv, PInv, self \in Pids, ~in_irq, do_yield, UNCHANGED handler
    PROVE  Shifts(procs, current_pid, procs', current_pid', {}, {}) /\ ReturnOK'
<1>1. switchto_caller = <<KERNEL_PID, INITIAL_TID>> /\ switchto_caller # NONE
  <2>1. Home = self /\ self # KERNEL_PID
    BY NumbersOfThreads DEF Home, self
  <2> QED
    BY <2>1 DEF PInv, ReturnOK, NONE
<1>2. ToParent(TRUE, INITIAL_TID)
  BY <1>1 DEF do_yield
<1> QED
  BY <1>2, ParentStep

-----------------------------------------------------------------------------
(***************************************************************************)
(* Every action keeps each thread in one place.                            *)
(***************************************************************************)
LEMMA PartsOfPInv ==
    ASSUME KInv, PInv
    PROVE  /\ SchedOK /\ ServersOK /\ ConnsOK /\ ThreadsOK
           /\ Sane(procs, current_pid) /\ ReturnOK /\ PlacesOK /\ QueuesOK /\ SetupOK
           /\ ~Panicked(procs) /\ (handling_irq => in_irq)
           /\ handler # NoPid => ~Absent(procs, handler)
           /\ \A i \in Sidxs : NoneEnded(servers[i].q)
  BY SaneFacts DEF KInv, PInv, SchedOK, ReturnOK, QueuesOK

\* The actions that change nothing but connections, the last process or, of
\* those that are there, the handler.
LEMMA NothingMoves ==
    ASSUME KInv, PInv,
           UNCHANGED <<procs, current_pid, switchto_caller, original, previous_pair, handling_irq>>,
           UNCHANGED <<servers, threads>>, handler' # NoPid => ~Absent(procs, handler')
    PROVE  PInv'
<1>1. Sane(procs, current_pid) /\ ReturnOK /\ PlacesOK /\ QueuesOK /\ SetupOK
  BY DEF PInv
<1>2. Shifts(procs, current_pid, procs', current_pid', {}, {})
  BY <1>1, SchedSame
<1> QED
  BY <1>1, <1>2, ReturnSame, NoSeatChanges, PStep

LEMMA YieldPlaces ==
    ASSUME KInv, PInv, self \in Pids, ~in_irq, do_yield, UNCHANGED <<threads, servers, handler>>
    PROVE  PInv'
<1>1. PlacesOK /\ QueuesOK /\ SetupOK
  BY DEF PInv
<1>2. Shifts(procs, current_pid, procs', current_pid', {}, {}) /\ ReturnOK'
  BY GiveUpStep
<1> QED
  BY <1>1, <1>2, NoSeatChanges, PStep

LEMMA EnqueuePlaces ==
    ASSUME KInv, PInv, NEW c \in Conns, NEW m \in Outgoing, Enqueue(c, m)
    PROVE  PInv'
<1> DEFINE i == sidx(c)
           q == servers[i].q
           r == queue_message(q, m)
<1>1. /\ Sends(c, m) /\ q.ready_threads = {} /\ CanDeliver(q, m) /\ EmptySlots(q) # {}
      /\ SetQueue(i, r)
      /\ IF Blocking(m) THEN Block ELSE UNCHANGED sched
      /\ UNCHANGED <<threads, connections, handler>>
  BY DEF Enqueue
<1>2. /\ self \in Pids /\ i \in Sidxs /\ servers[i] # NoServer
      /\ QueueOK(q) /\ m \in Message /\ (Blocking(m) => ~in_irq /\ ~handling_irq /\ m.tid \in Threads)
  BY <1>1, SendFacts, PartsOfPInv DEF Sends
<1>3. /\ ServersOK /\ ThreadsOK /\ Sane(procs, current_pid) /\ ReturnOK /\ PlacesOK /\ QueuesOK
      /\ SetupOK /\ NoneEnded(q) /\ (handler # NoPid => ~Absent(procs, handler))
  BY <1>2, PartsOfPInv
<1>4. m.pid = self /\ m.tid = tid
  BY DEF Outgoing
<1>5. q \in ServerRecord /\ QueueOK(r)
  BY <1>1, <1>2, EnqueueOK DEF QueueOK
<1>6. /\ Blocking(m) => \E k \in Slots : Reseats(q, r, servers[i].pid, {<<k, self, tid>>}, {})
      /\ ~Blocking(m) => Reseats(q, r, servers[i].pid, {}, {})
  BY <1>1, <1>2, <1>3, <1>4, <1>5, EnqueueReseats
<1>7. CASE Blocking(m)
  <2>1. Shifts(procs, current_pid, procs', current_pid', {}, {<<self, tid>>}) /\ ReturnOK'
    BY <1>1, <1>2, <1>7, BlockStep
  <2>2. tid \in Threads /\ Up(procs, current_pid, self, tid)
    BY <1>2, <1>7, CallerUp
  <2>3. PICK k \in Slots : Reseats(q, r, servers[i].pid, {<<k, self, tid>>}, {})
    BY <1>6, <1>7
  <2> HIDE DEF r, i
  <2>4. k \in Seats
    BY DEF Seats
  <2>5. PlacesOK' /\ QueuesOK'
    BY <1>1, <1>2, <1>3, <1>5, <2>1, <2>2, <2>3, <2>4, OneSitsDown
  <2> QED
    BY <1>1, <1>3, <2>1, <2>5, PStep
<1>8. CASE ~Blocking(m)
  <2>1. UNCHANGED <<procs, current_pid, switchto_caller, original, previous_pair, handling_irq>>
    BY <1>1, <1>8 DEF sched
  <2>2. Shifts(procs, current_pid, procs', current_pid', {}, {}) /\ ReturnOK'
    BY <1>1, <1>3, <2>1, SchedSame, ReturnSame
  <2>3. Reseats(q, r, servers[i].pid, {}, {})
    BY <1>6, <1>8
  <2> HIDE DEF r, i
  <2>4. PlacesOK' /\ QueuesOK'
    BY <1>1, <1>2, <1>3, <1>5, <2>2, <2>3, NobodyMoves
  <2> QED
    BY <1>1, <1>3, <2>2, <2>4, PStep
<1> QED
  BY <1>7, <1>8

\* A thread that has a seat is made ready: the caller goes on, ...
LEMMA WakeStep ==
    ASSUME KInv, PInv, self \in Pids, NEW i \in Desks, NEW y \in Seats,
           NEW p \in Pids, NEW t \in Threads, At(i, y, p, t)
    PROVE  LET ws == ready_thread(procs, p, t)
           IN  /\ Shifts(procs, current_pid, ws, current_pid, {<<p, t>>}, {})
               /\ ws[current_pid].current = procs[current_pid].current
               /\ \A r \in Procs : procs[r].ready \subseteq ws[r].ready
               /\ t \in ws[p].ready
<1> DEFINE ws == ready_thread(procs, p, t)
<1>1. Sane(procs, current_pid) /\ PlaceOK(p, t)
  BY PartsOfPInv DEF PlacesOK
<1>2. ~Absent(procs, p) /\ ~Up(procs, current_pid, p, t)
  BY <1>1, OneSeat DEF Here
<1>3. /\ Shifts(procs, current_pid, ws, current_pid, {<<p, t>>}, {})
      /\ \A r \in Procs : r # p => ws[r] = procs[r]
      /\ ws[p].ready = procs[p].ready \cup {t} /\ ws[p].current = procs[p].current
  BY <1>1, <1>2, WakeShifts
<1>4. current_pid \in Procs
  BY DEF self, Procs
<1> HIDE DEF ws
<1>5. /\ ws[current_pid].current = procs[current_pid].current
      /\ \A r \in Procs : procs[r].ready \subseteq ws[r].ready
      /\ t \in ws[p].ready
  BY <1>3, <1>4
<1> QED
  BY <1>3, <1>5 DEF ws

LEMMA WakeAndGoOn ==
    ASSUME KInv, PInv, self \in Pids, NEW i \in Desks, NEW y \in Seats,
           NEW p \in Pids, NEW t \in Threads, At(i, y, p, t),
           Resume(ready_thread(procs, p, t), self), UNCHANGED <<switchto_caller, handler>>
    PROVE  Shifts(procs, current_pid, procs', current_pid', {<<p, t>>}, {}) /\ ReturnOK'
<1> DEFINE ws == ready_thread(procs, p, t)
<1>1. /\ Shifts(procs, current_pid, ws, current_pid, {<<p, t>>}, {})
      /\ ws[current_pid].current = procs[current_pid].current
      /\ \A r \in Procs : procs[r].ready \subseteq ws[r].ready
  BY WakeStep
<1>2. procs' = ws /\ current_pid' = current_pid /\ UNCHANGED <<original, previous_pair, handling_irq>>
  BY DEF Resume, self
<1>3. current_pid \in Pids
  BY DEF self
<1> HIDE DEF ws
<1>4. Shifts(procs, current_pid, procs', current_pid', {<<p, t>>}, {})
  BY <1>1, <1>2
<1>5. ReturnOK'
  BY <1>1, <1>2, <1>3, <1>4, ReturnStays, PartsOfPInv
<1> QED
  BY <1>4, <1>5

\* ... gives it the processor and stops, ...
LEMMA WakeAndGive ==
    ASSUME KInv, PInv, self \in Pids, ~in_irq, NEW i \in Desks, NEW y \in Seats,
           NEW p \in Pids, NEW t \in Threads, At(i, y, p, t),
           Resume(activate_process_thread(ready_thread(procs, p, t), self, tid, p, t, FALSE), p),
           UNCHANGED <<switchto_caller, handler>>
    PROVE  Shifts(procs, current_pid, procs', current_pid', {<<p, t>>}, {<<self, tid>>}) /\ ReturnOK'
<1> DEFINE ws == ready_thread(procs, p, t)
           qs == activate_process_thread(ws, self, tid, p, t, FALSE)
<1>1. /\ Shifts(procs, self, ws, self, {<<p, t>>}, {}) /\ t \in ws[p].ready
      /\ ws[self].current = tid
  BY WakeStep DEF self, tid
<1>2. ~handling_irq /\ tid \in Threads
  BY PartsOfPInv, CallerUp
<1>3. procs' = qs /\ current_pid' = p /\ UNCHANGED <<original, previous_pair, handling_irq>>
  BY DEF Resume
<1> HIDE DEF ws
<1>4. Sane(ws, self)
  BY <1>1 DEF Shifts
<1>5. Shifts(ws, self, activate_process_thread(ws, self, ws[self].current, p, t, FALSE), p,
             {}, {<<self, ws[self].current>>})
  BY <1>1, <1>2, <1>4, GiveShifts
<1>6. Shifts(ws, self, qs, p, {}, {<<self, tid>>})
  BY <1>1, <1>5
<1> HIDE DEF qs
<1>7. Shifts(procs, self, qs, p, {<<p, t>>}, {<<self, tid>>})
  BY <1>1, <1>6, ShiftsCompose
<1>8. Shifts(procs, current_pid, procs', current_pid', {<<p, t>>}, {<<self, tid>>})
  BY <1>3, <1>7 DEF self
<1>9. current_pid \in Pids /\ current_pid' \in Pids
  BY <1>3 DEF self
<1>10. ReturnOK'
  BY <1>2, <1>3, <1>8, <1>9, ReturnStays, PartsOfPInv
<1> QED
  BY <1>8, <1>10

\* ... or stays ready and may give it the processor.
LEMMA WakeAndAnswer ==
    ASSUME KInv, PInv, self \in Pids, NEW i \in Desks, NEW y \in Seats,
           NEW client, client.pid \in Pids, client.tid \in Threads, At(i, y, client.pid, client.tid),
           AnswerAndGoOn(ready_thread(procs, client.pid, client.tid), client),
           UNCHANGED <<switchto_caller, handler>>
    PROVE  /\ Shifts(procs, current_pid, procs', current_pid', {<<client.pid, client.tid>>}, {})
           /\ ReturnOK'
<1> DEFINE p  == client.pid
           t  == client.tid
           ws == ready_thread(procs, p, t)
           qs == switch_to_thread(ready_thread(unschedule_thread(ws, self, tid), self, tid), p, t)
<1>1. CASE Resume(ws, self)
  BY <1>1, WakeAndGoOn
<1>2. CASE ~in_irq /\ Resume(qs, p)
  <2>1. /\ Shifts(procs, self, ws, self, {<<p, t>>}, {}) /\ t \in ws[p].ready
        /\ ws[self].current = tid
    BY WakeStep DEF self, tid
  <2>2. ~handling_irq /\ tid \in Threads
    BY <1>2, PartsOfPInv, CallerUp
  <2>3. procs' = qs /\ current_pid' = p /\ UNCHANGED <<original, previous_pair, handling_irq>>
    BY <1>2 DEF Resume
  <2> HIDE DEF ws
  <2>4. Sane(ws, self)
    BY <2>1 DEF Shifts
  <2>5. Shifts(ws, self, qs, p, {}, {})
    <3> DEFINE c == ws[self].current
    <3>1. Shifts(ws, self, switch_to_thread(ready_thread(unschedule_thread(ws, self, c), self, c), p, t),
                 p, {}, {})
      BY <2>1, <2>2, <2>4, AnswerShifts
    <3> QED
      BY <2>1, <3>1
  <2> HIDE DEF qs
  <2>6. Shifts(procs, self, qs, p, {<<p, t>>}, {})
    BY <2>1, <2>5, ShiftsCompose
  <2>7. Shifts(procs, current_pid, procs', current_pid', {<<p, t>>}, {})
    BY <2>3, <2>6 DEF self
  <2>8. current_pid \in Pids /\ current_pid' \in Pids
    BY <2>3 DEF self
  <2> HIDE DEF p, t
  <2>9. ReturnOK'
    BY <1>2, <2>2, <2>3, <2>7, <2>8, ReturnStays, PartsOfPInv
  <2> QED
    BY <2>7, <2>9 DEF p, t
<1> QED
  BY <1>1, <1>2 DEF AnswerAndGoOn

LEMMA BenchSeat ==
    ASSUME KInv, NEW i \in Sidxs, servers[i].q.ready_threads # {}
    PROVE  LET t == AvailableThread(servers[i].q)
           IN  t \in Threads /\ BENCH \in Seats /\ i \in Desks /\ At(i, BENCH, servers[i].pid, t)
<1>1. QueueOK(servers[i].q)
  BY DEF KInv, ServersOK
<1>2. AvailableThread(servers[i].q) \in servers[i].q.ready_threads \cap Threads
  BY <1>1, GiveBack
<1> QED
  BY <1>2, SeatFacts DEF At, Sits, Seats, Desks

LEMMA HandOffPlaces ==
    ASSUME KInv, PInv, NEW c \in Conns, NEW m \in Outgoing, HandOff(c, m)
    PROVE  PInv'
<1> DEFINE i == sidx(c)
           q == servers[i].q
           o == servers[i].pid
           t == AvailableThread(q)
           r == take_available_thread(q)
<1>1. /\ Sends(c, m) /\ q.ready_threads # {} /\ SetQueue(i, r)
      /\ Resume(ready_thread(procs, o, t), self)
      /\ UNCHANGED <<switchto_caller, threads, handler>>
  BY DEF HandOff
<1>2. /\ self \in Pids /\ i \in Sidxs /\ servers[i] # NoServer /\ o \in Pids /\ QueueOK(q)
  BY <1>1, SendFacts
<1>3. ServersOK /\ PlacesOK /\ QueuesOK /\ SetupOK /\ NoneEnded(q)
  BY <1>2, PartsOfPInv
<1>4. t \in Threads /\ BENCH \in Seats /\ i \in Desks /\ At(i, BENCH, o, t)
  BY <1>1, <1>2, BenchSeat
<1>5. Reseats(q, r, o, {}, {<<BENCH, o, t>>}) /\ QueueOK(r)
  BY <1>1, <1>2, <1>3, TakeThreadReseats, TakeThreadOK
<1> HIDE DEF r, t
<1>6. Shifts(procs, current_pid, procs', current_pid', {<<o, t>>}, {}) /\ ReturnOK'
  BY <1>1, <1>2, <1>4, WakeAndGoOn
<1> HIDE DEF i
<1>7. PlacesOK' /\ QueuesOK'
  BY <1>1, <1>2, <1>3, <1>4, <1>5, <1>6, OneGetsUp
<1> QED
  BY <1>1, <1>3, <1>6, <1>7, PStep

LEMMA HandOffBlockingPlaces ==
    ASSUME KInv, PInv, HasRoom, NEW c \in Conns, NEW m \in Outgoing, HandOffBlocking(c, m)
    PROVE  PInv'
<1> DEFINE i == sidx(c)
           q == servers[i].q
           o == servers[i].pid
           t == AvailableThread(q)
           r == queue_response(take_available_thread(q), m)
<1>1. Sends(c, m) /\ Blocking(m) /\ q.ready_threads # {} /\ CanDeliver(q, m)
  BY DEF HandOffBlocking
<1>2. /\ self \in Pids /\ i \in Sidxs /\ servers[i] # NoServer /\ o \in Pids /\ QueueOK(q)
      /\ m \in Message /\ m.tid \in Threads /\ ~in_irq /\ ~handling_irq
  BY <1>1, SendFacts DEF Sends
<1>3. EmptySlots(q) # {}
  BY <1>1, <1>2 DEF HasRoom
<1>4. /\ SetQueue(i, r)
      /\ Resume(activate_process_thread(ready_thread(procs, o, t), self, tid, o, t, FALSE), o)
      /\ UNCHANGED <<switchto_caller, threads, handler>>
  BY <1>3 DEF HandOffBlocking
<1>5. ServersOK /\ PlacesOK /\ QueuesOK /\ SetupOK /\ NoneEnded(q)
  BY <1>2, PartsOfPInv
<1>6. t \in Threads /\ BENCH \in Seats /\ i \in Desks /\ At(i, BENCH, o, t)
  BY <1>1, <1>2, BenchSeat
<1>7. m.pid = self /\ m.tid = tid
  BY DEF Outgoing
<1>8. QueueOK(r)
  BY <1>1, <1>2, <1>3, HandOffOK
<1>9. PICK k \in Slots : Reseats(q, r, o, {<<k, self, tid>>}, {<<BENCH, o, t>>})
  BY <1>1, <1>2, <1>3, <1>5, <1>7, HandOffReseats
<1> HIDE DEF r, t
<1>10. Shifts(procs, current_pid, procs', current_pid', {<<o, t>>}, {<<self, tid>>}) /\ ReturnOK'
  BY <1>2, <1>4, <1>6, WakeAndGive
<1>11. tid \in Threads /\ Up(procs, current_pid, self, tid) /\ k \in Seats
  BY <1>2, CallerUp DEF Seats
<1> HIDE DEF i
<1>12. PlacesOK' /\ QueuesOK'
  BY <1>2, <1>4, <1>5, <1>6, <1>8, <1>9, <1>10, <1>11, TwoChange
<1> QED
  BY <1>4, <1>5, <1>10, <1>12, PStep

\* With room for its token, a message that finds a thread waiting is never refused.
LEMMA FullIsEmptyBench ==
    ASSUME KInv, HasRoom, NEW i \in Sidxs, servers[i] # NoServer, NEW m, IsFull(servers[i].q, m),
           SetQueue(i, take_available_thread(servers[i].q))
    PROVE  UNCHANGED servers
<1> DEFINE q == servers[i].q
<1>1. QueueOK(q) /\ ServersOK /\ servers[i] \in ServerEntry
  BY ServerFacts DEF KInv, ServersOK
<1>2. q.ready_threads = {}
  BY <1>1, RoomIsNotFull DEF HasRoom
<1>3. take_available_thread(q) = q
  BY <1>1, <1>2 DEF take_available_thread, QueueOK, ServerRecord
<1>4. servers' = [servers EXCEPT ![i].q = q]
  BY <1>3 DEF SetQueue
<1>5. [servers[i] EXCEPT !.q = q] = servers[i]
  BY <1>1 DEF ServerEntry
<1> QED
  BY <1>1, <1>4, <1>5 DEF ServersOK

LEMMA FullPlaces ==
    ASSUME KInv, PInv, HasRoom, NEW c \in Conns, NEW m \in Outgoing,
           RetrySend(c, m) \/ TrySendFails(c, m)
    PROVE  PInv'
<1>1. /\ Sends(c, m) /\ IsFull(servers[sidx(c)].q, m)
      /\ SetQueue(sidx(c), take_available_thread(servers[sidx(c)].q))
      /\ UNCHANGED <<threads, handler>>
  BY DEF RetrySend, TrySendFails
<1>2. self \in Pids /\ sidx(c) \in Sidxs /\ servers[sidx(c)] # NoServer
  BY <1>1, SendFacts
<1>3. UNCHANGED servers
  BY <1>1, <1>2, FullIsEmptyBench
<1>4. CASE RetrySend(c, m)
  <2>1. May("SendMessage") /\ do_yield
    BY <1>4 DEF RetrySend
  <2>2. "SendMessage" \notin InterruptCalls /\ SchedOK
    BY PartsOfPInv DEF InterruptCalls
  <2>3. ~in_irq
    BY <2>1, <2>2, MayFacts
  <2> QED
    BY <1>1, <1>2, <1>3, <2>1, <2>3, YieldPlaces
<1>5. CASE TrySendFails(c, m)
  <2>1. UNCHANGED <<procs, current_pid, switchto_caller, original, previous_pair, handling_irq>>
    BY <1>5 DEF TrySendFails, sched
  <2> QED
    BY <1>1, <1>3, <2>1, NothingMoves, PartsOfPInv
<1> QED
  BY <1>4, <1>5

LEMMA ReceivePlaces ==
    ASSUME KInv, PInv, NEW i \in Sidxs, Receive(i)
    PROVE  PInv'
<1> DEFINE q == servers[i].q
           r == take_next_message(q)
<1>1. /\ May("ReceiveMessage") \/ May("TryReceiveMessage")
      /\ Owns(i) /\ HasNextMessage(q) /\ SetQueue(i, r)
      /\ UNCHANGED sched /\ UNCHANGED <<threads, handler>>
  BY DEF Receive, Finds
<1>2. /\ ServersOK /\ Sane(procs, current_pid) /\ ReturnOK /\ PlacesOK /\ QueuesOK /\ SetupOK
      /\ NoneEnded(q) /\ (handler # NoPid => ~Absent(procs, handler))
  BY PartsOfPInv
<1>3. servers[i] # NoServer /\ QueueOK(q)
  BY <1>1, PartsOfPInv, MayFacts, OwnerFacts
<1>4. QueueOK(r) /\ Reseats(q, r, servers[i].pid, {}, {})
  BY <1>1, <1>2, <1>3, TakeNextOK, TakeNextReseats DEF QueueOK
<1>5. UNCHANGED <<procs, current_pid, switchto_caller, original, previous_pair, handling_irq>>
  BY <1>1 DEF sched
<1>6. Shifts(procs, current_pid, procs', current_pid', {}, {}) /\ ReturnOK'
  BY <1>1, <1>2, <1>5, SchedSame, ReturnSame
<1> HIDE DEF r
<1>7. PlacesOK' /\ QueuesOK'
  BY <1>1, <1>2, <1>3, <1>4, <1>6, NobodyMoves
<1> QED
  BY <1>1, <1>2, <1>6, <1>7, PStep

\* The owner of a server waits in none.
LEMMA CallerHasNoSeat ==
    ASSUME KInv, PInv, self \in Pids, ~handling_irq, NEW i \in Sidxs, Owns(i)
    PROVE  tid \notin servers[i].q.ready_threads
<1>1. Nowhere(self, tid)
  BY CallerUp
<1>2. i \in Desks /\ BENCH \in Seats /\ i # JOIN
  BY SeatFacts DEF Desks, Seats
<1>3. ~Sits(servers[i].q, servers[i].pid, BENCH, self, tid)
  BY <1>1, <1>2 DEF Nowhere, At
<1> QED
  BY <1>3 DEF Sits, Owns

LEMMA WaitPlaces ==
    ASSUME KInv, PInv, NEW i \in Sidxs, Wait(i)
    PROVE  PInv'
<1> DEFINE q == servers[i].q
           r == park_thread(q, tid)
<1>1. /\ May("ReceiveMessage") /\ Owns(i) /\ ~HasNextMessage(q)
      /\ SetQueue(i, r) /\ UNCHANGED <<threads, handler>>
  BY DEF Wait, Finds
<1>2. /\ ServersOK /\ SchedOK /\ PlacesOK /\ QueuesOK /\ SetupOK /\ NoneEnded(q)
      /\ "ReceiveMessage" \notin InterruptCalls
  BY PartsOfPInv DEF InterruptCalls
<1>3. self \in Pids /\ ~in_irq /\ ~handling_irq
  BY <1>1, <1>2, MayFacts
<1>4. servers[i] # NoServer /\ QueueOK(q) /\ servers[i].pid = self
  BY <1>1, <1>2, <1>3, OwnerFacts DEF Owns
<1>5. tid \in Threads /\ Up(procs, current_pid, self, tid)
  BY <1>3, CallerUp
<1>6. QueueOK(r)
  BY <1>1, <1>4, <1>5, ReceiveNextOK DEF ReceiveNext
<1>7. Reseats(q, r, servers[i].pid, {<<BENCH, self, tid>>}, {})
  BY <1>2, <1>3, <1>4, <1>5, ParkReseats DEF QueueOK
<1>8. Block
  BY <1>1, <1>3, CallerHasNoSeat DEF Wait
<1>9. Shifts(procs, current_pid, procs', current_pid', {}, {<<self, tid>>}) /\ ReturnOK'
  BY <1>1, <1>3, <1>8, BlockStep
<1>10. BENCH \in Seats
  BY DEF Seats
<1> HIDE DEF r
<1>11. PlacesOK' /\ QueuesOK'
  BY <1>1, <1>2, <1>3, <1>4, <1>5, <1>6, <1>7, <1>9, <1>10, OneSitsDown
<1> QED
  BY <1>1, <1>2, <1>9, <1>11, PStep

\* The client that slot k of server i keeps the token of.
LEMMA ClientSeat ==
    ASSUME KInv, PInv, NEW i \in Sidxs, NEW k \in Slots, IsWaiting(servers[i].q, k)
    PROVE  LET client == servers[i].q.queue[k]
           IN  /\ client.pid \in Pids /\ client.tid \in Threads
               /\ k \in Seats /\ i \in Desks /\ At(i, k, client.pid, client.tid)
               /\ Alive(procs, client.pid)
<1> DEFINE client == servers[i].q.queue[k]
<1>1. QueueOK(servers[i].q) /\ PlacesOK
  BY PartsOfPInv DEF ServersOK
<1>2. client.pid \in Pids /\ client.tid \in Threads
  BY <1>1, ClientFacts
<1>3. k \in Seats /\ i \in Desks /\ k # BENCH /\ i # JOIN
  BY SeatFacts DEF Seats, Desks
<1>4. At(i, k, client.pid, client.tid)
  BY <1>3 DEF At, Sits, Awaits, IsWaiting
<1>5. PlaceOK(client.pid, client.tid)
  BY <1>1, <1>2 DEF PlacesOK
<1>6. Here(client.pid, client.tid)
  BY <1>2, <1>3, <1>4, <1>5, OneSeat
<1> QED
  BY <1>2, <1>3, <1>4, <1>6 DEF Here, Absent, Alive

LEMMA ReplyPlaces ==
    ASSUME KInv, PInv, NEW i \in Sidxs, NEW k \in Slots, Reply(i, k)
    PROVE  PInv'
<1> DEFINE q      == servers[i].q
           client == q.queue[k]
           r      == take_waiting_message(q, k)
<1>1. /\ Owns(i) /\ IsWaiting(q, k) /\ May(ReplyCall(client)) /\ SetQueue(i, r)
      /\ Alive(procs, client.pid)
             => /\ AnswerAndGoOn(ready_thread(procs, client.pid, client.tid), client)
                /\ UNCHANGED switchto_caller
      /\ UNCHANGED <<threads, handler>>
  BY DEF Reply
<1>2. ServersOK /\ SchedOK /\ PlacesOK /\ QueuesOK /\ SetupOK /\ NoneEnded(q)
  BY PartsOfPInv
<1>3. self \in Pids
  BY <1>1, <1>2, MayFacts
<1>4. servers[i] # NoServer /\ QueueOK(q)
  BY <1>1, <1>2, <1>3, OwnerFacts
<1>5. /\ client.pid \in Pids /\ client.tid \in Threads
      /\ k \in Seats /\ i \in Desks /\ At(i, k, client.pid, client.tid)
      /\ Alive(procs, client.pid)
  BY <1>1, ClientSeat
<1>6. QueueOK(r) /\ Reseats(q, r, servers[i].pid, {}, {<<k, client.pid, client.tid>>})
  BY <1>1, <1>2, <1>4, TakeWaitingOK, TakeWaitingReseats DEF QueueOK
<1> HIDE DEF r, client
<1>7. Shifts(procs, current_pid, procs', current_pid', {<<client.pid, client.tid>>}, {}) /\ ReturnOK'
  BY <1>1, <1>3, <1>5, WakeAndAnswer
<1>8. PlacesOK' /\ QueuesOK'
  BY <1>1, <1>2, <1>4, <1>5, <1>6, <1>7, OneGetsUp
<1> QED
  BY <1>1, <1>2, <1>7, <1>8, PStep

LEMMA ReplyAndReceiveNextPlaces ==
    ASSUME KInv, PInv, NEW i \in Sidxs, NEW k \in Slots, ReplyAndReceiveNext(i, k)
    PROVE  PInv'
<1> DEFINE q0     == servers[i].q
           client == q0.queue[k]
           q      == take_waiting_message(q0, k)
           woken  == ready_thread(procs, client.pid, client.tid)
           r      == ReceiveNext(q, tid)
<1>1. /\ May("ReplyAndReceiveNext") /\ Owns(i) /\ IsWaiting(q0, k) /\ SetQueue(i, r)
      /\ IF ~HasNextMessage(q) /\ tid \in q.ready_threads THEN Resume(Halt(procs, self), self)
         ELSE IF ~Alive(procs, client.pid) THEN Resume(procs, self)
         ELSE IF HasNextMessage(q) THEN AnswerAndGoOn(woken, client)
         ELSE Resume(activate_process_thread(woken, self, tid, client.pid, client.tid, FALSE),
                     client.pid)
      /\ UNCHANGED <<switchto_caller, threads, handler>>
  BY DEF ReplyAndReceiveNext
<1>2. /\ ServersOK /\ SchedOK /\ PlacesOK /\ QueuesOK /\ SetupOK /\ NoneEnded(q0)
      /\ "ReplyAndReceiveNext" \notin InterruptCalls
  BY PartsOfPInv DEF InterruptCalls
<1>3. self \in Pids /\ ~in_irq /\ ~handling_irq
  BY <1>1, <1>2, MayFacts
<1>4. servers[i] # NoServer /\ QueueOK(q0) /\ servers[i].pid = self
  BY <1>1, <1>2, <1>3, OwnerFacts DEF Owns
<1>5. /\ client.pid \in Pids /\ client.tid \in Threads
      /\ k \in Seats /\ i \in Desks /\ At(i, k, client.pid, client.tid)
      /\ Alive(procs, client.pid)
  BY <1>1, ClientSeat
<1>6. /\ QueueOK(q) /\ q.ready_threads = q0.ready_threads
      /\ Reseats(q0, q, servers[i].pid, {}, {<<k, client.pid, client.tid>>})
  BY <1>1, <1>2, <1>4, TakeWaitingOK, TakeWaitingReseats DEF QueueOK
<1>7. tid \in Threads /\ Up(procs, current_pid, self, tid) /\ tid \notin q0.ready_threads
  BY <1>1, <1>3, CallerUp, CallerHasNoSeat
<1> HIDE DEF q, client
<1>8. NoneEnded(q) /\ q \in ServerRecord /\ QueueOK(r) /\ BENCH \in Seats
  BY <1>6, <1>7, ReceiveNextOK DEF Reseats, QueueOK, Seats
<1>9. CASE HasNextMessage(q)
  <2>1. AnswerAndGoOn(woken, client)
    BY <1>1, <1>5, <1>9
  <2>2. Shifts(procs, current_pid, procs', current_pid', {<<client.pid, client.tid>>}, {}) /\ ReturnOK'
    BY <1>1, <1>3, <1>5, <2>1, WakeAndAnswer
  <2>3. Reseats(q, r, servers[i].pid, {}, {})
    BY <1>8, <1>9, TakeNextReseats DEF ReceiveNext
  <2> HIDE DEF r
  <2>4. Reseats(q0, r, servers[i].pid, {}, {<<k, client.pid, client.tid>>})
    BY <1>6, <2>3, ReseatsCompose
  <2>5. PlacesOK' /\ QueuesOK'
    BY <1>1, <1>2, <1>4, <1>5, <1>8, <2>2, <2>4, OneGetsUp
  <2> QED
    BY <1>1, <1>2, <2>2, <2>5, PStep
<1>10. CASE ~HasNextMessage(q)
  <2>1. Resume(activate_process_thread(woken, self, tid, client.pid, client.tid, FALSE), client.pid)
    BY <1>1, <1>5, <1>6, <1>7, <1>10
  <2>2. /\ Shifts(procs, current_pid, procs', current_pid',
                  {<<client.pid, client.tid>>}, {<<self, tid>>})
        /\ ReturnOK'
    BY <1>1, <1>3, <1>5, <2>1, WakeAndGive
  <2>3. Reseats(q, r, servers[i].pid, {<<BENCH, self, tid>>}, {})
    BY <1>3, <1>4, <1>7, <1>8, <1>10, ParkReseats DEF ReceiveNext
  <2> HIDE DEF r
  <2>4. Reseats(q0, r, servers[i].pid, {<<BENCH, self, tid>>}, {<<k, client.pid, client.tid>>})
    BY <1>6, <2>3, ReseatsCompose
  <2>5. PlacesOK' /\ QueuesOK'
    BY <1>1, <1>2, <1>3, <1>4, <1>5, <1>7, <1>8, <2>2, <2>4, TwoChange
  <2> QED
    BY <1>1, <1>2, <2>2, <2>5, PStep
<1> QED
  BY <1>9, <1>10

LEMMA NextProcessFound ==
    ASSUME NEW ps, NEW last, Runnable(ps) # {}
    PROVE  next_pid_to_run(ps, last) \in Runnable(ps)
<1> DEFINE after  == {p \in Runnable(ps) : p > last}
           choice == IF after = {} THEN Runnable(ps) ELSE after
<1>1. choice \subseteq Runnable(ps) /\ choice # {}
  OBVIOUS
<1>2. Runnable(ps) \subseteq Nat
  BY NumbersOfThreads DEF Runnable
<1>3. next_pid_to_run(ps, last) = CHOOSE p \in choice : \A q \in choice : p <= q
  BY DEF next_pid_to_run
<1> HIDE DEF choice
<1>4. \E p \in choice : \A q \in choice : p <= q
  BY <1>1, <1>2, LeastNatural
<1> QED
  BY <1>1, <1>3, <1>4

LEMMA SwitchToPlaces ==
    ASSUME KInv, PInv, SwitchTo
    PROVE  PInv'
<1> DEFINE pid == next_pid_to_run(procs, last_pid)
           ps  == SwitchProcess(procs, self, tid, pid, ANY, TRUE)
<1>1. /\ self = KERNEL_PID /\ Runnable(procs) # {} /\ current_pid = KERNEL_PID
      /\ procs' = IF switchto_caller = NONE /\ ~in_irq THEN ps ELSE Halt(procs, self)
      /\ current_pid' = pid /\ switchto_caller' = <<self, tid>> /\ original'[1] = pid
      /\ UNCHANGED <<previous_pair, handling_irq, threads, servers, handler>>
  BY DEF SwitchTo, self
<1>2. SchedOK /\ ThreadsOK /\ Sane(procs, KERNEL_PID) /\ ReturnOK /\ PlacesOK /\ QueuesOK /\ SetupOK
  BY <1>1, PartsOfPInv
<1>3. ~in_irq /\ ~handling_irq /\ switchto_caller = NONE
  <2>1. ~in_irq
    BY <1>1, <1>2 DEF ReturnOK, SchedOK
  <2> QED
    BY <1>1, <1>2, <2>1 DEF ReturnOK, Home, SchedOK
<1>4. /\ procs' = ps /\ tid = INITIAL_TID /\ tid = procs[KERNEL_PID].current
      /\ tid \in Threads /\ KERNEL_PID \in Procs
  <2>1. tid = INITIAL_TID /\ tid = procs[KERNEL_PID].current
    BY <1>1, <1>2 DEF Sane, tid
  <2> QED
    BY <1>1, <1>3, <2>1, NumbersOfThreads
<1>5. /\ pid \in Pids /\ pid \in Procs /\ pid # KERNEL_PID /\ procs[pid].state \in {"Setup", "Ready"}
  BY <1>1, NextProcessFound, NumbersOfThreads DEF Runnable
<1> HIDE DEF pid
<1>6. CASE procs[pid].state = "Ready"
  <2>1. Shifts(procs, KERNEL_PID, ps, pid, {}, {})
    BY <1>1, <1>2, <1>4, <1>5, <1>6, SwitchShifts
  <2> HIDE DEF ps
  <2>2. Shifts(procs, current_pid, procs', current_pid', {}, {})
    BY <1>1, <1>4, <2>1
  <2>3. handler' # NoPid => ~Absent(procs', handler')
    BY <1>1, <1>2, <2>2, HandlerStays DEF ReturnOK
  <2>4. ReturnOK'
    BY <1>1, <1>3, <1>4, <1>5, <2>3 DEF ReturnOK, Home, in_irq, NONE
  <2> QED
    BY <1>1, <1>2, <2>2, <2>4, NoSeatChanges, PStep
<1>7. CASE procs[pid].state = "Setup"
  <2>0. /\ Sane(ps, pid) /\ ps[pid].current = INITIAL_TID
        /\ ps[pid].ready = procs[pid].ready \ {ps[pid].current}
        /\ \A r \in Procs : r \notin {KERNEL_PID, pid} => ps[r] = procs[r]
    <3> DEFINE b  == TRUE
               qs == SwitchProcess(procs, KERNEL_PID, procs[KERNEL_PID].current, pid, ANY, b)
    <3>1. procs[KERNEL_PID].current \in Threads /\ b \in BOOLEAN /\ (KERNEL_PID = KERNEL_PID => b)
      BY <1>4
    <3>2. qs = ps
      BY <1>1, <1>4
    <3> HIDE DEF b
    <3>3. Enters(procs, KERNEL_PID, qs, pid, b)
      BY <1>2, <1>5, <1>7, <3>1, SwitchRows
    <3> QED
      BY <1>7, <3>2, <3>3 DEF Enters
  <2> HIDE DEF ps
  <2>1. procs[pid].ready = {} /\ threads[pid].live = {INITIAL_TID} /\ ps[pid].state = "Running"
    <3>1. procs[pid].ready = {}
      BY <1>2, <1>5, <1>7 DEF Sane
    <3>2. ps[pid].state = "Running"
      BY <2>0, <1>5 DEF Sane
    <3> QED
      BY <1>2, <1>5, <1>7, <3>1, <3>2 DEF SetupOK
  <2>2. \A r \in Pids : r # pid => ps[r] = procs[r]
    BY <2>0, NumbersOfThreads
  <2>3. SetupOK'
    BY <1>1, <1>2, <1>4, <2>1, <2>2 DEF SetupOK
  <2>4. handler' # NoPid => ~Absent(procs', handler')
    BY <1>1, <1>2, <1>4, <2>1, <2>2 DEF ReturnOK, Absent, ThreadsOK
  <2>5. ReturnOK'
    BY <1>1, <1>3, <1>4, <1>5, <2>4 DEF ReturnOK, Home, in_irq, NONE
  <2>6. ASSUME NEW p \in Pids, NEW t \in Threads PROVE PlaceOK(p, t)'
    <3>1. PlaceOK(p, t) /\ p # KERNEL_PID
      BY <1>2, NumbersOfThreads DEF PlacesOK
    <3>2. /\ Nowhere(p, t)' <=> Nowhere(p, t)
          /\ Once(p, t)' <=> Once(p, t)
      BY <1>1 DEF Nowhere, Once, At
    <3>3. CASE p = pid
      <4>1. ~Here(p, t)
        BY <1>7, <3>3 DEF Here, Absent
      <4>2. Nowhere(p, t)'
        BY <3>1, <3>2, <4>1 DEF PlaceOK
      <4>3. Here(p, t)' <=> t = INITIAL_TID
        BY <1>1, <1>4, <2>1, <3>3 DEF Here, Absent
      <4>4. Up(procs', current_pid', p, t) <=> t = INITIAL_TID
        BY <1>1, <1>4, <2>0, <1>7, <2>1, <3>3 DEF Up
      <4> QED
        BY <4>2, <4>3, <4>4 DEF PlaceOK
    <3>4. CASE p # pid
      <4>1. Here(p, t)' <=> Here(p, t)
        BY <1>1, <1>4, <2>2, <3>4 DEF Here, Absent
      <4>2. Up(procs', current_pid', p, t) <=> Up(procs, current_pid, p, t)
        BY <1>1, <1>4, <2>2, <3>1, <3>4 DEF Up
      <4> QED
        BY <3>1, <3>2, <4>1, <4>2 DEF PlaceOK
    <3> QED
      BY <3>3, <3>4
  <2>7. PlacesOK' /\ QueuesOK'
    BY <1>1, <1>2, <2>6 DEF PlacesOK, QueuesOK
  <2> QED
    BY <1>1, <1>4, <2>0, <2>3, <2>5, <2>7 DEF PInv
<1> QED
  BY <1>5, <1>6, <1>7

LEMMA InterruptPlaces ==
    ASSUME KInv, PInv, Interrupt
    PROVE  PInv'
<1> DEFINE qs == make_callback_to(procs, current_pid, handler)
<1>1. /\ ~handling_irq /\ handler # NoPid /\ procs' = qs /\ current_pid' = handler
      /\ previous_pair' = IF in_irq THEN previous_pair ELSE <<current_pid, tid>>
      /\ handling_irq' = TRUE
      /\ UNCHANGED <<switchto_caller, original, threads, servers, handler>>
  BY DEF Interrupt, self
<1>2. /\ SchedOK /\ ThreadsOK /\ Sane(procs, current_pid) /\ ReturnOK /\ PlacesOK /\ QueuesOK /\ SetupOK
      /\ handler \in Pids /\ ~Absent(procs, handler) /\ ~Panicked(procs)
  BY <1>1, PartsOfPInv DEF ThreadsOK
<1>3. tid \in Threads /\ procs[current_pid].current = tid
  BY <1>1, <1>2, CallerFacts DEF tid
<1>4. /\ Shifts(procs, current_pid, qs, handler, {}, {})
      /\ qs[handler].current = IRQ_TID /\ procs[current_pid].current \in qs[current_pid].ready
      /\ \A r \in Procs : procs[r].ready \subseteq qs[r].ready
  BY <1>2, <1>3, CallbackShifts
<1> HIDE DEF qs
<1>5. Shifts(procs, current_pid, procs', current_pid', {}, {})
  BY <1>1, <1>4
<1>6. handler' # NoPid => ~Absent(procs', handler')
  BY <1>2, <1>1, <1>5, HandlerStays
<1>7. previous_pair' # NONE /\ ((Home = KERNEL_PID)' <=> Home = KERNEL_PID)
  BY <1>1 DEF in_irq, NONE, Home
<1>8. previous_pair'[2] \in procs'[previous_pair'[1]].ready
  <2>1. CASE in_irq
    <3>1. previous_pair = <<KERNEL_PID, INITIAL_TID>> /\ current_pid # KERNEL_PID
      BY <1>1, <1>2, <2>1 DEF ReturnOK
    <3>2. KERNEL_PID \in Procs /\ procs[KERNEL_PID].ready = {INITIAL_TID}
      BY <1>2, <3>1, SaneFacts, NumbersOfThreads
    <3> QED
      BY <1>1, <1>4, <2>1, <3>1, <3>2
  <2>2. CASE ~in_irq
    BY <1>1, <1>3, <1>4, <2>2
  <2> QED
    BY <2>1, <2>2
<1>9. ReturnOK'
  <2>1. switchto_caller' = IF (Home = KERNEL_PID)' THEN NONE ELSE <<KERNEL_PID, INITIAL_TID>>
    BY <1>1, <1>2, <1>7 DEF ReturnOK
  <2>2. switchto_caller' # NONE => original'[1] \in Pids
    BY <1>1, <1>2 DEF ReturnOK
  <2>3. handling_irq' /\ procs'[current_pid'].current = IRQ_TID
    BY <1>1, <1>4
  <2> QED
    BY <1>6, <1>8, <2>1, <2>2, <2>3 DEF ReturnOK
<1> QED
  BY <1>1, <1>2, <1>5, <1>9, NoSeatChanges, PStep

LEMMA ReturnToParentPlaces ==
    ASSUME KInv, PInv, ReturnToParent
    PROVE  PInv'
<1>1. /\ May("ReturnToParent") /\ switchto_caller # NONE /\ previous_pair' = switchto_caller
      /\ switchto_caller' = NONE
      /\ UNCHANGED <<procs, current_pid, handling_irq, threads, servers, handler>>
  BY DEF ReturnToParent
<1>2. /\ SchedOK /\ Sane(procs, current_pid) /\ ReturnOK /\ PlacesOK /\ QueuesOK /\ SetupOK
      /\ handler # NoPid => ~Absent(procs, handler)
  BY PartsOfPInv
<1>3. current_pid \in Pids /\ current_pid # KERNEL_PID
  BY <1>1, <1>2, MayFacts, NumbersOfThreads DEF self
<1>4. previous_pair' = <<KERNEL_PID, INITIAL_TID>> /\ in_irq' /\ (Home = KERNEL_PID)'
  BY <1>1, <1>2 DEF ReturnOK, in_irq, Home, NONE
<1>5. procs[KERNEL_PID].ready = {INITIAL_TID}
  BY <1>2, <1>3, SaneFacts
<1>6. ~handling_irq => "ReturnToParent" \in Program[current_pid]
  BY <1>1 DEF May, self
<1>7. ReturnOK'
  BY <1>1, <1>2, <1>3, <1>4, <1>5, <1>6 DEF ReturnOK
<1>8. Shifts(procs, current_pid, procs', current_pid', {}, {})
  BY <1>1, <1>2, SchedSame
<1> QED
  BY <1>1, <1>2, <1>7, <1>8, NoSeatChanges, PStep

LEMMA FinishPlaces ==
    ASSUME KInv, PInv, finish_isr
    PROVE  PInv'
<1> DEFINE p  == previous_pair[1]
           t  == previous_pair[2]
           qs == finish_callback_and_resume(procs, current_pid, p, t)
<1>1. /\ handling_irq /\ procs' = qs /\ current_pid' = p /\ previous_pair' = NONE
      /\ handling_irq' = FALSE /\ UNCHANGED <<switchto_caller, original, threads, servers, handler>>
  BY DEF finish_isr, self
<1>2. /\ SchedOK /\ ThreadsOK /\ Sane(procs, current_pid) /\ ReturnOK /\ PlacesOK /\ QueuesOK /\ SetupOK
      /\ handler # NoPid => ~Absent(procs, handler)
  BY PartsOfPInv
<1>3. /\ in_irq /\ current_pid \in Pids /\ p \in Procs
      /\ procs[current_pid].current = IRQ_TID /\ t \in procs[p].ready
  BY <1>1, <1>2 DEF SchedOK, ReturnOK, IsPair, in_irq, Procs
<1>4. Shifts(procs, current_pid, qs, p, {}, {})
  BY <1>2, <1>3, FinishShifts
<1> HIDE DEF qs
<1>5. Shifts(procs, current_pid, procs', current_pid', {}, {})
  BY <1>1, <1>4
<1>6. handler' # NoPid => ~Absent(procs', handler')
  BY <1>1, <1>2, <1>5, HandlerStays
<1>7. ~in_irq' /\ ((Home = KERNEL_PID)' <=> Home = KERNEL_PID)
  BY <1>1, <1>3 DEF in_irq, Home
<1>8. ReturnOK'
  <2>1. switchto_caller' = IF (Home = KERNEL_PID)' THEN NONE ELSE <<KERNEL_PID, INITIAL_TID>>
    BY <1>1, <1>2, <1>7 DEF ReturnOK
  <2>2. switchto_caller' # NONE => original'[1] \in Pids
    BY <1>1, <1>2 DEF ReturnOK
  <2> QED
    BY <1>1, <1>6, <1>7, <2>1, <2>2 DEF ReturnOK
<1> QED
  BY <1>1, <1>2, <1>5, <1>8, NoSeatChanges, PStep

LEMMA IrqTablePlaces ==
    ASSUME KInv, PInv, ClaimInterrupt \/ FreeInterrupt
    PROVE  PInv'
<1>1. /\ UNCHANGED <<procs, current_pid, switchto_caller, original, previous_pair, handling_irq>>
      /\ UNCHANGED <<servers, threads>> /\ handler' \in {current_pid, NoPid}
  BY DEF ClaimInterrupt, FreeInterrupt, sched, self
<1>2. ~Absent(procs, current_pid)
  BY PartsOfPInv, SaneFacts DEF Absent
<1> QED
  BY <1>1, <1>2, NothingMoves

(***************************************************************************)
(* The actions that make, join and end threads.                            *)
(***************************************************************************)
\* The seats of a thread depend on the servers and on whom it joins.
LEMMA SeatsFollowJoins ==
    ASSUME UNCHANGED servers, NEW p, NEW t
    PROVE  /\ \A i \in Sidxs : \A y : At(i, y, p, t)' <=> At(i, y, p, t)
           /\ \A y : At(JOIN, y, p, t)' <=> y = BENCH /\ threads'[p].joins[t] # 0
           /\ \A y : At(JOIN, y, p, t) <=> y = BENCH /\ threads[p].joins[t] # 0
           /\ threads'[p].joins[t] = threads[p].joins[t]
                  => \A i \in Desks, y \in Seats : At(i, y, p, t)' <=> At(i, y, p, t)
<1>1. \A i \in Sidxs : i # JOIN
  BY SeatFacts
<1>2. /\ \A i \in Sidxs : \A y : At(i, y, p, t)' <=> At(i, y, p, t)
      /\ \A y : At(JOIN, y, p, t)' <=> y = BENCH /\ threads'[p].joins[t] # 0
      /\ \A y : At(JOIN, y, p, t) <=> y = BENCH /\ threads[p].joins[t] # 0
  BY <1>1 DEF At
<1> QED
  BY <1>2 DEF Desks

LEMMA NowhereWithoutJoin ==
    ASSUME UNCHANGED servers, NEW p, NEW t, \A i \in Sidxs, y \in Seats : ~At(i, y, p, t),
           threads'[p].joins[t] = 0
    PROVE  Nowhere(p, t)'
<1>1. \A i \in Sidxs, y \in Seats : ~At(i, y, p, t)'
  BY SeatsFollowJoins
<1>2. \A y \in Seats : ~At(JOIN, y, p, t)'
  BY SeatsFollowJoins
<1> QED
  BY <1>1, <1>2 DEF Nowhere, Desks

\* A process that runs was set up.
LEMMA SetupStays ==
    ASSUME Sane(procs, current_pid), SetupOK, NEW W, NEW S,
           Shifts(procs, current_pid, procs', current_pid', W, S),
           \A p \in Pids : p # current_pid => threads'[p] = threads[p]
    PROVE  SetupOK'
<1>1. procs[current_pid].state = "Running"
  BY SaneFacts
<1> QED
  BY <1>1 DEF SetupOK, Shifts, Absent

LEMMA CreateThreadPlaces ==
    ASSUME KInv, PInv, CreateThread
    PROVE  PInv'
<1> DEFINE new == find_free_thread(threads[self])
           qs  == switch_to_thread([procs EXCEPT ![self].ready = @ \cup {new}], self, new)
<1>1. /\ May("CreateThread") /\ FreeThreads(threads[self]) # {}
      /\ threads' = [threads EXCEPT ![self].live = @ \cup {new}, ![self].last = new]
      /\ Resume(qs, self) /\ UNCHANGED <<switchto_caller, servers, handler>>
  BY DEF CreateThread
<1>2. /\ SchedOK /\ ThreadsOK /\ Sane(procs, self) /\ PlacesOK /\ QueuesOK /\ SetupOK /\ ReturnOK
      /\ "CreateThread" \notin InterruptCalls /\ self = current_pid
  BY PartsOfPInv DEF InterruptCalls, self
<1>3. self \in Pids /\ ~in_irq /\ ~handling_irq
  BY <1>1, <1>2, MayFacts
<1>4. tid \in Threads /\ procs[self].current = tid
  BY <1>2, <1>3, CallerUp
<1>5. new \in Threads /\ new \notin threads[self].live
  <2>1. FreeThreads(threads[self]) \in SUBSET Nat
    BY NumbersOfThreads DEF FreeThreads
  <2>2. new \in FreeThreads(threads[self])
    BY <1>1, <2>1, NextThreadFound DEF find_free_thread
  <2> QED
    BY <2>2 DEF FreeThreads
<1>6. /\ \A p \in Pids : p # self => threads'[p] = threads[p]
      /\ threads'[self].joins = threads[self].joins
      /\ threads'[self].live = threads[self].live \cup {new}
  BY <1>1, <1>2, <1>3 DEF ThreadsOK, ThreadTable
<1>7. ~Up(procs, self, self, new) /\ Nowhere(self, new)
  BY <1>2, <1>3, <1>5 DEF PlacesOK, PlaceOK, Here
<1>8. Shifts(procs, self, qs, self, {<<self, new>>}, {})
  BY <1>2, <1>3, <1>4, <1>5, <1>7, CreateShifts
<1>9. procs' = qs /\ current_pid' = self /\ UNCHANGED <<original, previous_pair, handling_irq>>
  BY <1>1 DEF Resume
<1> HIDE DEF qs, new
<1>10. Shifts(procs, current_pid, procs', current_pid', {<<self, new>>}, {})
  BY <1>2, <1>8, <1>9
<1>11. current_pid \in Pids /\ current_pid' \in Pids
  BY <1>2, <1>3, <1>9
<1>12. ReturnOK'
  BY <1>1, <1>2, <1>3, <1>9, <1>10, <1>11, ReturnStays
<1>13. SetupOK'
  BY <1>2, <1>6, <1>10, SetupStays
<1>14. ASSUME NEW p \in Pids, NEW t \in Threads PROVE PlaceOK(p, t)'
  <2>1. PlaceOK(p, t) /\ threads'[p].joins = threads[p].joins
    BY <1>2, <1>6 DEF PlacesOK
  <2>2. \A i \in Desks, y \in Seats : At(i, y, p, t)' <=> At(i, y, p, t)
    BY <1>1, <2>1, SeatsFollowJoins
  <2>3. CASE p = self /\ t = new
    <3>1. Nowhere(p, t)'
      BY <1>7, <2>2, <2>3 DEF Nowhere
    <3>2. Up(procs', current_pid', p, t)
      BY <1>10, <2>3 DEF Shifts
    <3>3. ~Absent(procs', p)
      <4>1. Sane(procs', current_pid')
        BY <1>10 DEF Shifts
      <4> QED
        BY <1>2, <1>9, <2>3, <4>1, SaneFacts DEF Absent
    <3> QED
      BY <1>6, <2>3, <3>1, <3>2, <3>3 DEF PlaceOK, Here
  <2>4. CASE ~(p = self /\ t = new)
    <3>1. <<p, t>> \notin {<<self, new>>} \cup {}
      BY <2>4
    <3>2. t \in threads'[p].live <=> t \in threads[p].live
      BY <1>6, <2>4
    <3> QED
      BY <1>10, <2>1, <2>2, <3>1, <3>2, PlaceStays
  <2> QED
    BY <2>3, <2>4
<1>15. PlacesOK' /\ QueuesOK'
  BY <1>1, <1>2, <1>14 DEF PlacesOK, QueuesOK
<1>16. Sane(procs', current_pid')
  BY <1>10 DEF Shifts
<1> QED
  BY <1>12, <1>13, <1>15, <1>16 DEF PInv

LEMMA JoinThreadPlaces ==
    ASSUME KInv, PInv, NEW u \in Threads, JoinThread(u)
    PROVE  PInv'
<1> DEFINE b  == FALSE
           qs == SwitchProcess(procs, self, tid, KERNEL_PID, ANY, b)
<1>1. /\ May("JoinThread") /\ threads' = [threads EXCEPT ![self].joins[tid] = u]
      /\ Resume(qs, KERNEL_PID) /\ switchto_caller' = NONE /\ UNCHANGED <<servers, handler>>
  BY DEF JoinThread
<1>2. /\ SchedOK /\ ThreadsOK /\ Sane(procs, self) /\ PlacesOK /\ QueuesOK /\ SetupOK /\ ReturnOK
      /\ "JoinThread" \notin InterruptCalls /\ self = current_pid
  BY PartsOfPInv DEF InterruptCalls, self
<1>3. self \in Pids /\ ~in_irq /\ ~handling_irq /\ b \in BOOLEAN /\ ANY \in {ANY, INITIAL_TID}
  BY <1>1, <1>2, MayFacts
<1>4. /\ tid \in Threads /\ procs[self].current = tid /\ Nowhere(self, tid)
      /\ Up(procs, current_pid, self, tid)
  BY <1>2, <1>3, CallerUp
<1>5. /\ \A p \in Pids : p # self => threads'[p] = threads[p]
      /\ \A t \in Threads : threads'[self].joins[t] = IF t = tid THEN u ELSE threads[self].joins[t]
      /\ threads'[self].live = threads[self].live
  BY <1>1, <1>2, <1>3, <1>4 DEF ThreadsOK, ThreadTable
<1> DEFINE S == IF b THEN {} ELSE {<<self, procs[self].current>>}
           N == {<<self, tid>>}
<1>6. S = N
  BY <1>4
<1>7. procs' = qs /\ current_pid' = KERNEL_PID /\ UNCHANGED <<previous_pair, handling_irq>>
  BY <1>1 DEF Resume
<1> HIDE DEF b
<1>8. Shifts(procs, self, SwitchProcess(procs, self, procs[self].current, KERNEL_PID, ANY, b),
             KERNEL_PID, {}, S)
  BY <1>2, <1>3, <1>4, ParentShifts
<1> HIDE DEF S
<1>9. Shifts(procs, current_pid, procs', current_pid', {}, N)
  BY <1>2, <1>4, <1>6, <1>7, <1>8
<1> HIDE DEF qs
<1>10. ReturnOK'
  <2>1. handler' # NoPid => ~Absent(procs', handler')
    BY <1>1, <1>2, <1>9, HandlerStays DEF ReturnOK
  <2> QED
    BY <1>1, <1>2, <1>3, <1>7, <2>1, ReturnParent
<1>11. SetupOK'
  BY <1>2, <1>5, <1>9, SetupStays
<1>12. ASSUME NEW p \in Pids, NEW t \in Threads PROVE PlaceOK(p, t)'
  <2>1. PlaceOK(p, t) /\ (t \in threads'[p].live <=> t \in threads[p].live)
    BY <1>2, <1>5 DEF PlacesOK
  <2>2. CASE p = self /\ t = tid
    <3>1. threads'[p].joins[t] # 0
      BY <1>4, <1>5, <2>2 DEF Threads, IRQ_TID
    <3>2. JOIN \in Desks /\ BENCH \in Seats
      BY DEF Desks, Seats
    <3>3. \A i \in Desks, y \in Seats : At(i, y, p, t)' <=> i = JOIN /\ y = BENCH
      <4>1. \A i \in Sidxs, y \in Seats : ~At(i, y, p, t)'
        BY <1>1, <1>4, <2>2, SeatsFollowJoins DEF Nowhere, Desks
      <4>2. \A y \in Seats : At(JOIN, y, p, t)' <=> y = BENCH
        BY <1>1, <3>1, SeatsFollowJoins
      <4> QED
        BY <4>1, <4>2, SeatFacts DEF Desks
    <3>4. Once(p, t)'
      BY <3>2, <3>3 DEF Once
    <3>5. <<p, t>> \in N
      BY <2>2
    <3> HIDE DEF N
    <3> QED
      BY <1>4, <1>9, <2>1, <2>2, <3>4, <3>5, PlaceStopped
  <2>3. CASE ~(p = self /\ t = tid)
    <3>1. <<p, t>> \notin {} \cup N
      BY <2>3
    <3>2. threads'[p].joins[t] = threads[p].joins[t]
      BY <1>5, <2>3
    <3>3. \A i \in Desks, y \in Seats : At(i, y, p, t)' <=> At(i, y, p, t)
      BY <1>1, <3>2, SeatsFollowJoins
    <3> HIDE DEF N
    <3> QED
      BY <1>9, <2>1, <3>1, <3>3, PlaceStays
  <2> QED
    BY <2>2, <2>3
<1>13. PlacesOK' /\ QueuesOK'
  BY <1>1, <1>2, <1>12 DEF PlacesOK, QueuesOK
<1>14. Sane(procs', current_pid')
  BY <1>9 DEF Shifts
<1> QED
  BY <1>10, <1>11, <1>13, <1>14 DEF PInv

\* No process both ends threads and calls ReturnToParent outside a handler.
NoneMixes == \A p \in Pids : ~({"ReturnToParent", "ExitThread"} \subseteq Program[p])

\* Those who join the thread that ends wait for it and for nothing else.
LEMMA JoinersSit ==
    ASSUME KInv, PInv, self \in Pids, tid \in Threads
    PROVE  /\ Woken(self, tid) \in SUBSET Threads
           /\ \A j \in Woken(self, tid) :
                 /\ threads[self].joins[j] # 0 /\ ~Up(procs, current_pid, self, j)
                 /\ ~Nowhere(self, j) /\ \A i \in Sidxs, y \in Seats : ~At(i, y, self, j)
<1>1. threads[self] \in ThreadTable /\ PlacesOK /\ tid # 0
  BY PartsOfPInv DEF ThreadsOK, Threads, IRQ_TID
<1>2. \A j \in Woken(self, tid) : j \in Threads /\ threads[self].joins[j] # 0
  BY <1>1 DEF Woken, Joiners, ThreadTable
<1>3. ASSUME NEW j \in Woken(self, tid)
      PROVE  /\ ~Up(procs, current_pid, self, j) /\ ~Nowhere(self, j)
             /\ \A i \in Sidxs, y \in Seats : ~At(i, y, self, j)
  <2>1. JOIN \in Desks /\ BENCH \in Seats /\ At(JOIN, BENCH, self, j) /\ PlaceOK(self, j)
    BY <1>1, <1>2, <1>3 DEF Desks, Seats, At, PlacesOK
  <2>2. /\ \A i \in Desks, y \in Seats : At(i, y, self, j) => i = JOIN /\ y = BENCH
        /\ ~Up(procs, current_pid, self, j) /\ ~Nowhere(self, j)
    BY <1>2, <2>1, OneSeat
  <2> QED
    BY <2>2, SeatFacts DEF Desks
<1> QED
  BY <1>2, <1>3

LEMMA ExitThreadPlaces ==
    ASSUME KInv, PInv, NoneMixes, ExitThread
    PROVE  PInv'
<1> DEFINE woken == Woken(self, tid)
           rest  == procs[self].ready \cup woken
           pid   == IF rest = {} THEN KERNEL_PID ELSE self
           qs    == switch_to_thread(Rest(procs, self, rest), pid, ANY)
           W     == {<<self, t>> : t \in woken}
           S     == {<<self, tid>>}
<1>1. /\ ~handling_irq /\ self # KERNEL_PID /\ "ExitThread" \in Program[self]
      /\ threads' = [threads EXCEPT
             ![self].live  = @ \ {tid},
             ![self].joins = [t \in Threads |-> IF t \in woken \cup {tid} THEN 0 ELSE @[t]]]
      /\ Resume(qs, pid)
      /\ switchto_caller' = IF rest = {} THEN NONE ELSE switchto_caller
      /\ UNCHANGED <<servers, handler>>
  BY DEF ExitThread
<1>2. /\ SchedOK /\ ThreadsOK /\ Sane(procs, self) /\ PlacesOK /\ QueuesOK /\ SetupOK /\ ReturnOK
      /\ self = current_pid
  BY PartsOfPInv DEF self
<1>3. self \in Pids /\ ~in_irq
  <2>1. self \in Pids
    BY <1>1, <1>2 DEF SchedOK, Procs
  <2> QED
    BY <1>1, <1>2, <2>1 DEF ReturnOK, NoneMixes
<1>4. /\ tid \in Threads /\ procs[self].current = tid /\ Nowhere(self, tid)
      /\ Up(procs, current_pid, self, tid)
  BY <1>1, <1>2, <1>3, CallerUp
<1>5. /\ woken \in SUBSET Threads
      /\ \A j \in woken : /\ ~Up(procs, self, self, j) /\ ~Nowhere(self, j)
                          /\ \A i \in Sidxs, y \in Seats : ~At(i, y, self, j)
  BY <1>2, <1>3, <1>4, JoinersSit
<1> HIDE DEF woken
<1>6. Shifts(procs, self, qs, pid, W, S)
  <2>1. \A t \in woken : ~Up(procs, self, self, t)
    BY <1>5
  <2>2. procs[self].current \in Threads
    BY <1>4
  <2>3. Shifts(procs, self, qs, pid, W, {<<self, procs[self].current>>})
    BY <1>2, <1>3, <1>5, <2>1, <2>2, ExitShifts
  <2> QED
    BY <1>4, <2>3
<1>7. procs' = qs /\ current_pid' = pid /\ UNCHANGED <<original, previous_pair, handling_irq>>
  BY <1>1 DEF Resume
<1> HIDE DEF qs
<1>8. Shifts(procs, current_pid, procs', current_pid', W, S)
  BY <1>2, <1>6, <1>7
<1>9. /\ \A p \in Pids : p # self => threads'[p] = threads[p]
      /\ \A t \in Threads : threads'[self].joins[t]
             = IF t \in woken \cup {tid} THEN 0 ELSE threads[self].joins[t]
      /\ threads'[self].live = threads[self].live \ {tid}
  <2> DEFINE js == [t \in Threads |-> IF t \in woken \cup {tid} THEN 0 ELSE threads[self].joins[t]]
             v  == [threads[self] EXCEPT !.live = @ \ {tid}, !.joins = js]
  <2>1. threads[self] \in ThreadTable /\ threads' = [threads EXCEPT ![self] = v]
    BY <1>1, <1>2, <1>3 DEF ThreadsOK
  <2>2. \A t \in Threads : js[t] = IF t \in woken \cup {tid} THEN 0 ELSE threads[self].joins[t]
    OBVIOUS
  <2> HIDE DEF js
  <2>3. v.joins = js /\ v.live = threads[self].live \ {tid}
    BY <2>1 DEF ThreadTable
  <2> HIDE DEF v
  <2>4. threads'[self] = v /\ \A p \in Pids : p # self => threads'[p] = threads[p]
    BY <1>2, <1>3, <2>1 DEF ThreadsOK
  <2> QED
    BY <2>2, <2>3, <2>4
<1>10. ReturnOK'
  <2>1. handler' # NoPid => ~Absent(procs', handler')
    BY <1>1, <1>2, <1>8, HandlerStays DEF ReturnOK
  <2>2. CASE rest = {}
    BY <1>1, <1>2, <1>3, <1>7, <2>1, <2>2, ReturnParent
  <2>3. CASE rest # {}
    <3>1. /\ current_pid \in Pids /\ current_pid' \in Pids
          /\ UNCHANGED <<switchto_caller, original, previous_pair, handling_irq, handler>>
      BY <1>1, <1>2, <1>3, <1>7, <2>3
    <3> HIDE DEF W, S
    <3> QED
      BY <1>1, <1>2, <1>3, <1>8, <3>1, ReturnStays
  <2> QED
    BY <2>2, <2>3
<1>11. SetupOK'
  BY <1>2, <1>8, <1>9, SetupStays
<1>12. /\ \A p, t : <<p, t>> \in W <=> p = self /\ t \in woken
       /\ \A p, t : <<p, t>> \in S <=> p = self /\ t = tid
       /\ tid \notin woken
  BY <1>2, <1>4, <1>5
<1> HIDE DEF W, S
<1>13. ASSUME NEW p \in Pids, NEW t \in Threads PROVE PlaceOK(p, t)'
  <2>1. PlaceOK(p, t)
    BY <1>2 DEF PlacesOK
  <2>2. CASE p = self /\ t = tid
    <3>1. threads'[p].joins[t] = 0 /\ t \notin threads'[p].live
      BY <1>9, <2>2
    <3>2. ~Up(procs', current_pid', p, t)
      BY <1>8, <1>12, <2>2 DEF Shifts
    <3>3. Nowhere(p, t)'
      <4>1. \A i \in Sidxs, y \in Seats : ~At(i, y, p, t)
        BY <1>4, <2>2 DEF Nowhere, Desks
      <4> QED
        BY <1>1, <3>1, <4>1, NowhereWithoutJoin
    <3> QED
      BY <3>1, <3>2, <3>3 DEF PlaceOK, Here
  <2>3. CASE p = self /\ t \in woken
    <3>1. threads'[p].joins[t] = 0 /\ (t \in threads'[p].live <=> t \in threads[p].live)
      BY <1>9, <1>12, <2>3
    <3>2. <<p, t>> \in W \ S
      BY <1>12, <2>3
    <3>3. Nowhere(p, t)' /\ ~Nowhere(p, t)
      <4>1. ~Nowhere(p, t) /\ \A i \in Sidxs, y \in Seats : ~At(i, y, p, t)
        BY <1>5, <2>3
      <4> QED
        BY <1>1, <3>1, <4>1, NowhereWithoutJoin
    <3> QED
      BY <1>8, <2>1, <3>1, <3>2, <3>3, PlaceWoken
  <2>4. CASE ~(p = self /\ t \in woken \cup {tid})
    <3>1. <<p, t>> \notin W \cup S
      BY <1>12, <2>4
    <3>2. threads'[p].joins[t] = threads[p].joins[t] /\ (t \in threads'[p].live <=> t \in threads[p].live)
      BY <1>9, <2>4
    <3>3. \A i \in Desks, y \in Seats : At(i, y, p, t)' <=> At(i, y, p, t)
      BY <1>1, <3>2, SeatsFollowJoins
    <3> QED
      BY <1>8, <2>1, <3>1, <3>2, <3>3, PlaceStays
  <2> QED
    BY <2>2, <2>3, <2>4
<1>14. PlacesOK' /\ QueuesOK'
  BY <1>1, <1>2, <1>13 DEF PlacesOK, QueuesOK
<1>15. Sane(procs', current_pid')
  BY <1>8 DEF Shifts
<1> QED
  BY <1>10, <1>11, <1>14, <1>15 DEF PInv

(***************************************************************************)
(* The actions that make and drop servers.                                 *)
(***************************************************************************)
LEMMA InitIsEmpty ==
    /\ NoneEnded(init) /\ NoServer.q = init /\ NoServer.pid = NoPid
    /\ \A o, p, t : \A y \in Seats : ~Sits(init, o, y, p, t)
<1>1. init.ready_threads = {} /\ \A k \in Slots : init.queue[k] = Empty
  BY DEF init
<1>2. NoServer.q = init /\ NoServer.pid = NoPid
  BY DEF NoServer
<1>3. NoneEnded(init)
  BY <1>1, SeatFacts DEF NoneEnded
<1>4. \A o, p, t : \A y \in Seats : ~Sits(init, o, y, p, t)
  BY <1>1, SeatFacts DEF Sits, Seats
<1> QED
  BY <1>2, <1>3, <1>4

LEMMA CreateServerPlaces ==
    ASSUME KInv, PInv, NEW sid \in SIDs, CreateServer(sid)
    PROVE  PInv'
<1> DEFINE a == Least(FreeServers)
           v == [pid |-> self, sid |-> sid, q |-> init]
<1>1. /\ FreeServers # {} /\ servers' = [servers EXCEPT ![a] = v]
      /\ UNCHANGED sched /\ UNCHANGED <<threads, handler>>
  BY DEF CreateServer
<1>2. /\ ServersOK /\ Sane(procs, current_pid) /\ ReturnOK /\ PlacesOK /\ QueuesOK /\ SetupOK
      /\ handler # NoPid => ~Absent(procs, handler)
  BY PartsOfPInv
<1>3. UNCHANGED <<procs, current_pid, switchto_caller, original, previous_pair, handling_irq>>
  BY <1>1 DEF sched
<1>4. Shifts(procs, current_pid, procs', current_pid', {}, {}) /\ ReturnOK'
  BY <1>1, <1>2, <1>3, SchedSame, ReturnSame
<1>5. a \in Sidxs /\ servers[a].q = init
  <2>1. FreeServers \in SUBSET Nat
    BY KernelAssumption DEF FreeServers, Sidxs
  <2>2. \E x \in FreeServers : \A y \in FreeServers : x <= y
    BY <1>1, <2>1, LeastNatural
  <2>3. a \in FreeServers
    BY <2>2 DEF Least
  <2> QED
    BY <2>3, InitIsEmpty DEF FreeServers
<1> HIDE DEF a
<1>6. \A j \in Sidxs : IF j = a THEN servers'[j].q = init ELSE servers'[j] = servers[j]
  BY <1>1, <1>2, <1>5 DEF ServersOK
<1>7. \A p, t : \A j \in Desks, y \in Seats : At(j, y, p, t)' <=> At(j, y, p, t)
  <2>1. ASSUME NEW p, NEW t, NEW j \in Sidxs, NEW y \in Seats PROVE At(j, y, p, t)' <=> At(j, y, p, t)
    <3>1. CASE j = a
      BY <1>5, <1>6, <3>1, InitIsEmpty, SeatFacts DEF At
    <3>2. CASE j # a
      BY <1>6, <3>2, SeatFacts DEF At
    <3> QED
      BY <3>1, <3>2
  <2>2. \A p, t : \A y \in Seats : At(JOIN, y, p, t)' <=> At(JOIN, y, p, t)
    BY <1>1 DEF At
  <2> QED
    BY <2>1, <2>2 DEF Desks
<1>8. ASSUME NEW p \in Pids, NEW t \in Threads PROVE PlaceOK(p, t)'
  <2>1. PlaceOK(p, t) /\ (t \in threads'[p].live <=> t \in threads[p].live)
    BY <1>1, <1>2 DEF PlacesOK
  <2>2. <<p, t>> \notin {} \cup {}
    OBVIOUS
  <2> QED
    BY <1>4, <1>7, <2>1, <2>2, PlaceStays
<1>9. PlacesOK' /\ QueuesOK'
  BY <1>2, <1>6, <1>8, InitIsEmpty DEF PlacesOK, QueuesOK
<1> QED
  BY <1>1, <1>2, <1>4, <1>9, PStep

\* Those whom destroying server i wakes are those who sit there.
Sleepers(i) ==
    {<<e.pid, e.tid>> : e \in {f \in {servers[i].q.queue[k] : k \in Slots} : AwaitsReply(f)}}
        \cup {<<self, t>> : t \in servers[i].q.ready_threads}

LEMMA SleepersSit ==
    ASSUME KInv, self \in Pids, NEW i \in Sidxs, Owns(i), CanDestroy(servers[i].q)
    PROVE  /\ \A p, t : <<p, t>> \in Sleepers(i) => p \in Pids /\ t \in Threads
           /\ \A p, t : <<p, t>> \in Sleepers(i) <=> \E y \in Seats : At(i, y, p, t)
<1> DEFINE q == servers[i].q
<1>1. QueueOK(q) /\ i # JOIN /\ servers[i].pid = self
  BY SeatFacts DEF KInv, ServersOK, Owns
<1>2. \A k \in Slots : k # BENCH /\ (Awaits(q.queue[k]) <=> AwaitsReply(q.queue[k]))
  BY SeatFacts DEF CanDestroy, Awaits
<1>3. \A p, t : <<p, t>> \in Sleepers(i) <=>
          \/ \E k \in Slots : Awaits(q.queue[k]) /\ q.queue[k].pid = p /\ q.queue[k].tid = t
          \/ p = self /\ t \in q.ready_threads
  BY <1>2 DEF Sleepers
<1>4. \A p, t : <<p, t>> \in Sleepers(i) <=> \E y \in Seats : At(i, y, p, t)
  <2>1. \A p, t : \A k \in Slots :
            At(i, k, p, t) <=> Awaits(q.queue[k]) /\ q.queue[k].pid = p /\ q.queue[k].tid = t
    BY <1>1, <1>2 DEF At, Sits
  <2>2. \A p, t : At(i, BENCH, p, t) <=> p = self /\ t \in q.ready_threads
    BY <1>1 DEF At, Sits
  <2>3. ASSUME NEW p, NEW t, <<p, t>> \in Sleepers(i) PROVE \E y \in Seats : At(i, y, p, t)
    <3>1. CASE \E k \in Slots : Awaits(q.queue[k]) /\ q.queue[k].pid = p /\ q.queue[k].tid = t
      <4>1. \E k \in Slots : At(i, k, p, t)
        BY <2>1, <3>1
      <4> QED
        BY <4>1 DEF Seats
    <3>2. CASE p = self /\ t \in q.ready_threads
      <4>1. At(i, BENCH, p, t) /\ BENCH \in Seats
        BY <2>2, <3>2 DEF Seats
      <4> QED
        BY <4>1
    <3> QED
      BY <1>3, <2>3, <3>1, <3>2
  <2>4. ASSUME NEW p, NEW t, NEW y \in Seats, At(i, y, p, t) PROVE <<p, t>> \in Sleepers(i)
    <3>1. CASE y = BENCH
      BY <1>3, <2>2, <2>4, <3>1
    <3>2. CASE y \in Slots
      BY <1>3, <2>1, <2>4, <3>2
    <3> QED
      BY <3>1, <3>2 DEF Seats
  <2> QED
    BY <2>3, <2>4
<1>5. q.ready_threads \subseteq Threads
  BY <1>1 DEF QueueOK, WaitsAreThreads
<1>6. ASSUME NEW k \in Slots, Awaits(q.queue[k])
      PROVE  q.queue[k].pid \in Pids /\ q.queue[k].tid \in Threads
  <2>1. q.queue[k] \in QueuedMessage
    BY <1>1, <1>6, EntryIsMessage, SeatFacts DEF QueueOK
  <2> QED
    BY <1>1, <1>6, <2>1 DEF QueueOK, WaitsAreThreads, Awaits, QueuedMessage
<1>7. \A p, t : <<p, t>> \in Sleepers(i) => p \in Pids /\ t \in Threads
  BY <1>3, <1>5, <1>6
<1> QED
  BY <1>4, <1>7

LEMMA DestroyServerPlaces ==
    ASSUME KInv, PInv, Unstarted = {}, NEW i \in Sidxs, DestroyServer(i)
    PROVE  PInv'
<1> DEFINE W  == Sleepers(i)
           qs == ReadyAll(procs, W)
<1>1. /\ May("DestroyServer") /\ Owns(i) /\ CanDestroy(servers[i].q)
      /\ Resume(qs, self) /\ servers' = [servers EXCEPT ![i] = NoServer]
      /\ UNCHANGED <<switchto_caller, threads, handler>>
  <2>1. \A ps : activate_each(ps) = ps
    BY DEF activate_each
  <2> QED
    BY <2>1 DEF DestroyServer, Finds, Sleepers
<1>2. /\ SchedOK /\ ServersOK /\ ThreadsOK /\ Sane(procs, current_pid) /\ ReturnOK /\ PlacesOK
      /\ QueuesOK /\ SetupOK /\ "DestroyServer" \notin InterruptCalls
  BY PartsOfPInv DEF InterruptCalls
<1>3. self \in Pids /\ ~in_irq /\ ~handling_irq
  BY <1>1, <1>2, MayFacts
<1>4. /\ \A p, t : <<p, t>> \in W => p \in Pids /\ t \in Threads
      /\ \A p, t : <<p, t>> \in W <=> \E y \in Seats : At(i, y, p, t)
  BY <1>1, <1>3, SleepersSit
<1>5. i \in Desks /\ i # JOIN
  BY SeatFacts DEF Desks
<1> HIDE DEF W
<1>6. ASSUME NEW p \in Pids, NEW t \in Threads, <<p, t>> \in W
      PROVE  /\ ~Absent(procs, p) /\ ~Up(procs, current_pid, p, t) /\ ~Nowhere(p, t)
             /\ \A j \in Desks, z \in Seats : At(j, z, p, t) => j = i
  <2>1. PICK y \in Seats : At(i, y, p, t)
    BY <1>4, <1>6
  <2>2. PlaceOK(p, t)
    BY <1>2 DEF PlacesOK
  <2> QED
    BY <1>5, <2>1, <2>2, OneSeat DEF Here
<1>7. Shifts(procs, current_pid, qs, current_pid, W, {})
  <2>1. \A p \in Procs, t \in Threads :
            <<p, t>> \in W => p \in Pids /\ ~Absent(procs, p) /\ ~Up(procs, current_pid, p, t)
    BY <1>4, <1>6
  <2> QED
    BY <1>2, <2>1, ReadyAllShifts
<1>8. /\ procs' = qs /\ current_pid' = current_pid /\ current_pid \in Pids
      /\ UNCHANGED <<original, previous_pair, handling_irq>>
  BY <1>1, <1>3 DEF Resume, self
<1> HIDE DEF qs
<1>9. Shifts(procs, current_pid, procs', current_pid', W, {})
  BY <1>7, <1>8
<1>10. ReturnOK'
  BY <1>1, <1>2, <1>3, <1>8, <1>9, ReturnStays
<1>11. \A j \in Sidxs : servers'[j] = IF j = i THEN NoServer ELSE servers[j]
  BY <1>1, <1>2 DEF ServersOK
<1>12. \A p, t : \A j \in Desks, y \in Seats : At(j, y, p, t)' <=> j # i /\ At(j, y, p, t)
  <2>1. ASSUME NEW p, NEW t, NEW j \in Sidxs, NEW y \in Seats
        PROVE  At(j, y, p, t)' <=> j # i /\ At(j, y, p, t)
    <3>1. CASE j = i
      BY <1>5, <1>11, <3>1, InitIsEmpty DEF At
    <3>2. CASE j # i
      BY <1>11, <3>2, SeatFacts DEF At
    <3> QED
      BY <3>1, <3>2
  <2>2. \A p, t : \A y \in Seats : At(JOIN, y, p, t)' <=> At(JOIN, y, p, t)
    BY <1>1 DEF At
  <2> QED
    BY <1>5, <2>1, <2>2 DEF Desks
<1>13. ASSUME NEW p \in Pids, NEW t \in Threads PROVE PlaceOK(p, t)'
  <2>1. PlaceOK(p, t) /\ (t \in threads'[p].live <=> t \in threads[p].live)
    BY <1>1, <1>2 DEF PlacesOK
  <2>2. CASE <<p, t>> \in W
    <3>1. Nowhere(p, t)' /\ ~Nowhere(p, t)
      BY <1>6, <1>12, <2>2 DEF Nowhere
    <3>2. <<p, t>> \in W \ {}
      BY <2>2
    <3> QED
      BY <1>9, <2>1, <3>1, <3>2, PlaceWoken
  <2>3. CASE <<p, t>> \notin W
    <3>1. \A j \in Desks, y \in Seats : At(j, y, p, t)' <=> At(j, y, p, t)
      BY <1>4, <1>12, <2>3
    <3>2. <<p, t>> \notin W \cup {}
      BY <2>3
    <3> QED
      BY <1>9, <2>1, <3>1, <3>2, PlaceStays
  <2> QED
    BY <2>2, <2>3
<1>14. PlacesOK' /\ QueuesOK'
  BY <1>2, <1>11, <1>13, InitIsEmpty DEF PlacesOK, QueuesOK
<1> QED
  BY <1>1, <1>2, <1>9, <1>10, <1>14, PStep


(***************************************************************************)
(* A process that ends alone: nobody else waits for an answer of its       *)
(* servers, and it waits for no answer of another process.                 *)
(***************************************************************************)
Alone ==
    \A i \in Sidxs, k \in Slots :
        Awaits(servers[i].q.queue[k])
            => (servers[i].q.queue[k].pid = self <=> servers[i].pid = self)
ExitsAlone == TerminateProcess => Alone

(***************************************************************************)
(* No server is destroyed, and no process that has one ends, until every   *)
(* process has run.                                                        *)
(***************************************************************************)
HasServer == \E i \in Sidxs : Owns(i)
SweepsStarted ==
    (\E i \in Sidxs : DestroyServer(i)) \/ (TerminateProcess /\ HasServer) => Unstarted = {}

LEMMA DiscardNobody ==
    ASSUME NEW q, QueueOK(q), NEW pid, \A k \in Slots : Awaits(q.queue[k]) => q.queue[k].pid # pid
    PROVE  LET r == discard_messages_for_pid(q, pid)
           IN  /\ r.ready_threads = q.ready_threads
               /\ \A k \in Slots : r.queue[k] = q.queue[k]
<1> DEFINE r == discard_messages_for_pid(q, pid)
<1>1. q \in ServerRecord
  BY DEF QueueOK
<1>2. r.ready_threads = q.ready_threads
  BY <1>1, DiscardSame
<1>3. \A k \in Slots : r.queue[k] = IF ~IsEmpty(q.queue[k]) /\ q.queue[k].pid = pid
                                    THEN Terminated(q.queue[k]) ELSE q.queue[k]
  BY <1>1 DEF discard_messages_for_pid, ServerRecord
<1> HIDE DEF r
<1>4. \A e : ~Awaits(e) => Terminated(e) = e
  BY DEF Terminated, Awaits, AwaitsReply
<1>5. \A k \in Slots : r.queue[k] = q.queue[k]
  BY <1>3, <1>4
<1> QED
  BY <1>2, <1>5 DEF r

LEMMA TerminatePlaces ==
    ASSUME KInv, PInv, Alone, HasServer => Unstarted = {}, TerminateProcess
    PROVE  PInv'
<1> DEFINE us == unschedule_thread(procs, self, procs[self].current)
           fs == [us EXCEPT ![self] = IF Panicked(us) THEN @ ELSE FreeProcess]
           qs == switch_to_thread(fs, KERNEL_PID, ANY)
<1>1. /\ May("TerminateProcess")
      /\ servers' = [i \in Sidxs |->
             IF i \in {j \in Sidxs : Owns(j)} \/ servers[i] = NoServer THEN NoServer
             ELSE [servers[i] EXCEPT !.q = discard_messages_for_pid(@, self)]]
      /\ Resume(qs, KERNEL_PID) /\ switchto_caller' = NONE
      /\ threads' = [threads EXCEPT ![self] = NoThreads]
      /\ handler' = IF handler = self THEN NoPid ELSE handler
  <2>1. (IF {i \in Sidxs : Owns(i)} = {} THEN procs ELSE activate_each(procs)) = procs
    BY DEF activate_each, HasServer
  <2> QED
    BY <2>1 DEF TerminateProcess, tid, self
<1>2. /\ SchedOK /\ ServersOK /\ ThreadsOK /\ Sane(procs, current_pid) /\ ReturnOK /\ PlacesOK
      /\ QueuesOK /\ SetupOK /\ "TerminateProcess" \notin InterruptCalls
      /\ handler # NoPid => ~Absent(procs, handler)
  BY PartsOfPInv DEF InterruptCalls
<1>3. self \in Pids /\ ~in_irq /\ ~handling_irq /\ Sane(procs, self)
  BY <1>1, <1>2, MayFacts DEF self
<1>4. /\ Sane(qs, KERNEL_PID) /\ qs[self].state = "Free" /\ qs[self].ready = {}
      /\ \A r \in Pids : r # self => qs[r] = procs[r]
  BY <1>3, FreeRows
<1>5. /\ procs' = qs /\ current_pid' = KERNEL_PID
      /\ UNCHANGED <<previous_pair, handling_irq>>
  BY <1>1 DEF Resume
<1> HIDE DEF qs
<1>6. /\ Sane(procs', current_pid') /\ procs'[self].state = "Free" /\ procs'[self].ready = {}
      /\ \A r \in Pids : r # self => procs'[r] = procs[r] /\ r # current_pid' /\ r # current_pid
  BY <1>4, <1>5, NumbersOfThreads DEF self
<1>7. ReturnOK'
  <2>1. handler' # NoPid => ~Absent(procs', handler')
    BY <1>1, <1>2, <1>6 DEF ThreadsOK, Absent
  <2> QED
    BY <1>1, <1>2, <1>3, <1>5, <2>1, ReturnParent
<1>8. /\ threads'[self] = NoThreads
      /\ \A r \in Pids : r # self => threads'[r] = threads[r]
  BY <1>1, <1>2, <1>3 DEF ThreadsOK
<1>9. SetupOK'
  BY <1>2, <1>6, <1>8 DEF SetupOK
<1>10. ASSUME NEW j \in Sidxs
       PROVE  IF servers[j].pid = self \/ servers[j] = NoServer THEN servers'[j] = NoServer
              ELSE /\ servers'[j].pid = servers[j].pid
                   /\ servers'[j].q.ready_threads = servers[j].q.ready_threads
                   /\ \A k \in Slots : servers'[j].q.queue[k] = servers[j].q.queue[k]
  <2> DEFINE v == [servers[j] EXCEPT !.q = discard_messages_for_pid(@, self)]
  <2>1. servers'[j] = IF servers[j].pid = self \/ servers[j] = NoServer THEN NoServer ELSE v
    BY <1>1 DEF Owns
  <2>2. CASE ~(servers[j].pid = self \/ servers[j] = NoServer)
    <3>1. servers[j] \in ServerEntry /\ QueueOK(servers[j].q)
      BY <1>2, <2>2, ServerFacts DEF ServersOK
    <3>2. v.pid = servers[j].pid /\ v.q = discard_messages_for_pid(servers[j].q, self)
      BY <3>1 DEF ServerEntry
    <3>3. \A k \in Slots : Awaits(servers[j].q.queue[k]) => servers[j].q.queue[k].pid # self
      BY <2>2 DEF Alone
    <3> HIDE DEF v
    <3> QED
      BY <2>1, <2>2, <3>1, <3>2, <3>3, DiscardNobody
  <2> HIDE DEF v
  <2> QED
    BY <2>1, <2>2
<1>11. QueuesOK'
  BY <1>2, <1>10, InitIsEmpty DEF QueuesOK, NoneEnded
<1>12. ASSUME NEW j \in Sidxs, NEW y \in Seats, NEW p, NEW t
       PROVE  At(j, y, p, t)' <=> p # self /\ At(j, y, p, t)
  <2>1. j # JOIN /\ (y = BENCH \/ y \in Slots)
    BY SeatFacts DEF Seats
  <2>2. CASE servers[j].pid = self
    <3>1. ~At(j, y, p, t)'
      BY <1>10, <2>1, <2>2, InitIsEmpty DEF At
    <3>2. At(j, y, p, t) => p = self
      BY <2>1, <2>2 DEF At, Sits, Alone
    <3> QED
      BY <3>1, <3>2
  <2>3. CASE servers[j] = NoServer /\ servers[j].pid # self
    BY <1>10, <2>1, <2>3, InitIsEmpty DEF At
  <2>4. CASE servers[j] # NoServer /\ servers[j].pid # self
    <3>1. At(j, y, p, t)' <=> At(j, y, p, t)
      BY <1>10, <2>1, <2>4 DEF At, Sits
    <3>2. At(j, y, p, t) => p # self
      BY <2>1, <2>4 DEF At, Sits, Alone
    <3> QED
      BY <3>1, <3>2
  <2> QED
    BY <2>2, <2>3, <2>4
<1>13. ASSUME NEW p \in Pids, NEW t \in Threads, p # self PROVE PlaceOK(p, t)'
  <2>1. \A j \in Desks, y \in Seats : At(j, y, p, t)' <=> At(j, y, p, t)
    <3>1. \A y \in Seats : At(JOIN, y, p, t)' <=> At(JOIN, y, p, t)
      BY <1>8, <1>13 DEF At
    <3> QED
      BY <1>12, <1>13, <3>1 DEF Desks
  <2>2. /\ Here(p, t)' <=> Here(p, t)
        /\ Up(procs', current_pid', p, t) <=> Up(procs, current_pid, p, t)
    BY <1>6, <1>8, <1>13 DEF Here, Up, Absent
  <2>3. Nowhere(p, t) => Nowhere(p, t)'
    BY <2>1 DEF Nowhere
  <2>4. ASSUME Once(p, t) PROVE Once(p, t)'
    <3>1. PICK i \in Desks, y \in Seats :
              \A j \in Desks, z \in Seats : At(j, z, p, t) <=> j = i /\ z = y
      BY <2>4 DEF Once
    <3>2. \A j \in Desks, z \in Seats : At(j, z, p, t)' <=> j = i /\ z = y
      BY <2>1, <3>1
    <3> QED
      BY <3>2 DEF Once
  <2>5. PlaceOK(p, t)
    BY <1>2 DEF PlacesOK
  <2> QED
    BY <2>2, <2>3, <2>4, <2>5 DEF PlaceOK
<1>14. ASSUME NEW p \in Pids, NEW t \in Threads, p = self PROVE PlaceOK(p, t)'
  <2>1. threads'[p].live = {} /\ threads'[p].joins[t] = 0
    BY <1>8, <1>14 DEF NoThreads
  <2>2. ~Here(p, t)' /\ ~Up(procs', current_pid', p, t)
    BY <1>3, <1>5, <1>6, <1>14, <2>1, NumbersOfThreads DEF Here, Up
  <2>3. Nowhere(p, t)'
    <3>1. \A y \in Seats : ~At(JOIN, y, p, t)'
      BY <2>1 DEF At
    <3> QED
      BY <1>12, <1>14, <3>1 DEF Nowhere, Desks
  <2> QED
    BY <2>2, <2>3 DEF PlaceOK
<1>15. PlacesOK'
  BY <1>13, <1>14 DEF PlacesOK
<1> QED
  BY <1>6, <1>7, <1>9, <1>11, <1>15 DEF PInv


-----------------------------------------------------------------------------
(***************************************************************************)
(* Every step, and the first state.                                        *)
(***************************************************************************)
LEMMA GiveUpPlaces ==
    ASSUME KInv, PInv, Yield \/ \E sid \in SIDs : RetryConnect(sid)
    PROVE  PInv'
<1>1. SchedOK /\ "Yield" \notin InterruptCalls /\ "Connect" \notin InterruptCalls
  BY PartsOfPInv DEF InterruptCalls
<1>2. do_yield /\ (May("Yield") \/ May("Connect")) /\ UNCHANGED <<threads, servers, handler>>
  BY DEF Yield, RetryConnect
<1>3. self \in Pids /\ ~in_irq
  BY <1>1, <1>2, MayFacts
<1> QED
  BY <1>2, <1>3, YieldPlaces

LEMMA QuietPlaces ==
    ASSUME KInv, PInv,
           \/ Idle \/ UNCHANGED vars
           \/ \E sid \in SIDs : Connect(sid)
           \/ \E c \in Conns : Disconnect(c)
    PROVE  PInv'
<1>1. /\ UNCHANGED <<procs, current_pid, switchto_caller, original, previous_pair, handling_irq>>
      /\ UNCHANGED <<servers, threads>> /\ UNCHANGED handler
  BY DEF Idle, vars, sched, Connect, Disconnect
<1>2. handler # NoPid => ~Absent(procs, handler)
  BY PartsOfPInv
<1> QED
  BY <1>1, <1>2, NothingMoves

LEMMA NextPlaces ==
    ASSUME KInv, PInv, NoneMixes, HasRoom, ExitsAlone, SweepsStarted, [Next]_vars
    PROVE  PInv'
<1>1. ASSUME NEW c \in Conns, NEW m \in Outgoing,
             \/ Enqueue(c, m) \/ HandOff(c, m) \/ HandOffBlocking(c, m)
             \/ RetrySend(c, m) \/ TrySendFails(c, m)
      PROVE  PInv'
  BY <1>1, EnqueuePlaces, HandOffPlaces, HandOffBlockingPlaces, FullPlaces
<1>2. CASE Send
  BY <1>1, <1>2 DEF Send
<1>3. ASSUME NEW i \in Sidxs,
             \/ Receive(i) \/ Wait(i) \/ DestroyServer(i)
             \/ \E k \in Slots : Reply(i, k) \/ ReplyAndReceiveNext(i, k)
      PROVE  PInv'
  BY <1>3, ReceivePlaces, WaitPlaces, DestroyServerPlaces, ReplyPlaces, ReplyAndReceiveNextPlaces
     DEF SweepsStarted
<1>4. CASE Serve
  BY <1>3, <1>4 DEF Serve
<1>5. CASE \E sid \in SIDs : CreateServer(sid) \/ Connect(sid) \/ RetryConnect(sid)
  BY <1>5, CreateServerPlaces, QuietPlaces, GiveUpPlaces
<1>6. CASE Idle \/ Yield \/ (\E c \in Conns : Disconnect(c)) \/ UNCHANGED vars
  BY <1>6, QuietPlaces, GiveUpPlaces
<1>7. CASE CreateThread \/ ExitThread \/ \E t \in Threads : JoinThread(t)
  BY <1>7, CreateThreadPlaces, ExitThreadPlaces, JoinThreadPlaces
<1>8. CASE TerminateProcess
  BY <1>8, TerminatePlaces DEF ExitsAlone, SweepsStarted
<1>9. CASE SwitchTo \/ Interrupt \/ ReturnToParent \/ finish_isr
  BY <1>9, SwitchToPlaces, InterruptPlaces, ReturnToParentPlaces, FinishPlaces
<1>10. CASE ClaimInterrupt \/ FreeInterrupt
  BY <1>10, IrqTablePlaces
<1> QED
  BY <1>2, <1>4, <1>5, <1>6, <1>7, <1>8, <1>9, <1>10 DEF Next

LEMMA InitPlaces == Init => PInv
<1> SUFFICES ASSUME Init PROVE PInv
  OBVIOUS
<1>1. PICK booted \in Boots : Starts(booted)
  BY DEF Init
<1>2. /\ booted \subseteq Pids /\ KERNEL_PID \in Procs /\ KERNEL_PID \notin Pids /\ Pids \subseteq Procs
      /\ IrqOwner \in Started \cup {NoPid}
  BY KernelAssumption, NumbersOfThreads
<1>3. /\ FreeProcess.state = "Free" /\ FreeProcess.ready = {}
      /\ NewProcess.state = "Ready" /\ NewProcess.ready = {INITIAL_TID}
      /\ SetupProcess.state = "Setup" /\ SetupProcess.ready = {}
  BY DEF FreeProcess, NewProcess, SetupProcess
<1> DEFINE none == [q \in Procs |-> FreeProcess]
           k    == Run(none, KERNEL_PID, INITIAL_TID, {})[KERNEL_PID]
<1>4. k.state = "Running" /\ k.current = INITIAL_TID /\ k.ready = {}
  BY <1>2 DEF Run, FreeProcess
<1>5. /\ procs[KERNEL_PID] = k
      /\ \A p \in Pids : procs[p] = IF p \notin booted THEN FreeProcess
                                    ELSE IF p \in Started THEN NewProcess ELSE SetupProcess
  <2>1. procs = [p \in Procs |->
                   CASE p = KERNEL_PID -> Run(none, p, INITIAL_TID, {})[p]
                     [] p \in booted \cap Started -> NewProcess
                     [] p \in booted \ Started -> SetupProcess
                     [] OTHER -> FreeProcess]
    BY <1>1 DEF Starts
  <2> HIDE DEF none
  <2>2. procs[KERNEL_PID] = k
    <3>1. KERNEL_PID \notin booted
      BY <1>2
    <3> QED
      BY <1>2, <2>1, <3>1
  <2> HIDE DEF k
  <2>3. ASSUME NEW p \in Pids
        PROVE  procs[p] = IF p \notin booted THEN FreeProcess
                          ELSE IF p \in Started THEN NewProcess ELSE SetupProcess
    <3>1. p \in Procs /\ p # KERNEL_PID
      BY <1>2
    <3> QED
      BY <2>1, <3>1
  <2> QED
    BY <2>2, <2>3
<1> HIDE DEF k
<1>6. /\ current_pid = KERNEL_PID /\ switchto_caller = NONE /\ previous_pair = NONE
      /\ handling_irq = FALSE /\ servers = [i \in Sidxs |-> NoServer]
  BY DEF Init
<1>7. /\ threads = [p \in Pids |-> IF p \in booted THEN OneThread ELSE NoThreads]
      /\ handler = IF IrqOwner \in booted THEN IrqOwner ELSE NoPid
  BY <1>1 DEF Starts
<1>8. /\ NoThreads.live = {} /\ OneThread.live = {INITIAL_TID}
      /\ \A t \in Threads : NoThreads.joins[t] = 0 /\ OneThread.joins[t] = 0
  BY DEF NoThreads, OneThread
<1>9. Sane(procs, current_pid)
  <2>1. TableOK(procs)
    BY InitKeeps DEF KInv, SchedOK
  <2>2. Procs = Pids \cup {KERNEL_PID}
    BY DEF Procs
  <2>3. \A p \in Procs : /\ procs[p].state # "Panic"
                         /\ procs[p].state = "Running" <=> p = current_pid
                         /\ procs[p].state \in {"Free", "Setup", "Sleeping"} => procs[p].ready = {}
    BY <1>2, <1>3, <1>4, <1>5, <1>6, <2>2
  <2> QED
    BY <1>2, <1>4, <1>5, <1>6, <2>1, <2>3 DEF Sane
<1>10. ReturnOK
  BY <1>2, <1>3, <1>5, <1>6, <1>7 DEF ReturnOK, Home, in_irq, Absent
<1>11. QueuesOK
  BY <1>6, InitIsEmpty DEF QueuesOK
<1>12. SetupOK
  BY <1>3, <1>5, <1>7, <1>8 DEF SetupOK
<1>13. ASSUME NEW p \in Pids, NEW t \in Threads PROVE PlaceOK(p, t)
  <2>1. Nowhere(p, t)
    <3>1. \A i \in Sidxs, y \in Seats : ~At(i, y, p, t)
      BY <1>6, InitIsEmpty, SeatFacts DEF At
    <3>2. \A y \in Seats : ~At(JOIN, y, p, t)
      BY <1>7, <1>8 DEF At
    <3> QED
      BY <3>1, <3>2 DEF Nowhere, Desks
  <2>2. Up(procs, current_pid, p, t) <=> Here(p, t)
    BY <1>2, <1>3, <1>5, <1>6, <1>7, <1>8 DEF Up, Here, Absent
  <2> QED
    BY <2>1, <2>2 DEF PlaceOK
<1>14. PlacesOK
  BY <1>13 DEF PlacesOK
<1> QED
  BY <1>9, <1>10, <1>11, <1>12, <1>14 DEF PInv


-----------------------------------------------------------------------------
(***************************************************************************)
(* The places of a thread, as EachThreadInOnePlace counts them, are the    *)
(* processor, the ready set of its process and its seats.                  *)
(***************************************************************************)
LEMMA PlacesAreSeats ==
    ASSUME NEW p, NEW t
    PROVE  \A x : x \in Places(p, t) <=>
               \/ x = <<"running", 0, 0>> /\ p = current_pid /\ procs[p].current = t
               \/ x = <<"ready", 0, 0>> /\ t \in procs[p].ready
               \/ x = <<"joins", 0, 0>> /\ At(JOIN, BENCH, p, t)
               \/ \E i \in Sidxs : x = <<"parked", i, 0>> /\ At(i, BENCH, p, t)
               \/ \E i \in Sidxs, k \in Slots : x = <<"client", i, k>> /\ At(i, k, p, t)
<1> DEFINE Queued(i, k) ==
             LET e == servers[i].q.queue[k]
             IN  ~IsEmpty(e) /\ e.pid = p /\ e.tid = t /\ (AwaitsReply(e) \/ is_in_server(e))
           C == {<<"client", x[1], x[2]>> : x \in {y \in Sidxs \X Slots : Queued(y[1], y[2])}}
           B == {<<"parked", i, 0>> :
                   i \in {j \in Sidxs : servers[j].pid = p /\ t \in servers[j].q.ready_threads}}
<1>1. At(JOIN, BENCH, p, t) <=> threads[p].joins[t] # 0
  BY DEF At
<1>2. \A i \in Sidxs : At(i, BENCH, p, t) <=> servers[i].pid = p /\ t \in servers[i].q.ready_threads
  BY SeatFacts DEF At, Sits
<1>3. \A i \in Sidxs, k \in Slots : At(i, k, p, t) <=> Queued(i, k)
  BY SeatFacts DEF At, Sits, Awaits
<1> HIDE DEF Queued
<1>4. \A x : x \in C <=> \E i \in Sidxs, k \in Slots : x = <<"client", i, k>> /\ At(i, k, p, t)
  <2>1. ASSUME NEW x \in C
        PROVE  \E i \in Sidxs, k \in Slots : x = <<"client", i, k>> /\ At(i, k, p, t)
    <3>1. PICK y \in Sidxs \X Slots : Queued(y[1], y[2]) /\ x = <<"client", y[1], y[2]>>
      BY <2>1
    <3>2. y[1] \in Sidxs /\ y[2] \in Slots
      BY <3>1
    <3> QED
      BY <1>3, <3>1, <3>2
  <2>2. ASSUME NEW i \in Sidxs, NEW k \in Slots, At(i, k, p, t) PROVE <<"client", i, k>> \in C
    <3>1. <<i, k>> \in Sidxs \X Slots /\ Queued(<<i, k>>[1], <<i, k>>[2])
      BY <1>3, <2>2
    <3> QED
      BY <3>1
  <2> QED
    BY <2>1, <2>2
<1>5. \A x : x \in B <=> \E i \in Sidxs : x = <<"parked", i, 0>> /\ At(i, BENCH, p, t)
  BY <1>2
<1>6. Places(p, t) =
          {x \in {<<"running", 0, 0>>} : p = current_pid /\ procs[p].current = t}
          \cup {x \in {<<"ready", 0, 0>>} : t \in procs[p].ready}
          \cup {x \in {<<"joins", 0, 0>>} : threads[p].joins[t] # 0}
          \cup B \cup C
  BY DEF Places, Queued
<1> HIDE DEF B, C
<1> QED
  BY <1>1, <1>4, <1>5, <1>6

LEMMA OnePlace ==
    ASSUME KInv, PInv, NEW p \in Pids, NEW t \in Threads, Here(p, t)
    PROVE  Cardinality(Places(p, t)) = 1
<1>1. PlaceOK(p, t) /\ Sane(procs, current_pid)
  BY DEF PInv, PlacesOK
<1>2. BENCH \in Seats /\ JOIN \in Desks /\ Sidxs \subseteq Desks /\ Slots \subseteq Seats
      /\ BENCH \notin Slots /\ JOIN \notin Sidxs
  BY SeatFacts DEF Seats, Desks
<1>3. SUFFICES \E a : Places(p, t) = {a}
  BY FS_Singleton
<1>4. CASE Up(procs, current_pid, p, t)
  <2>1. \A i \in Desks, y \in Seats : ~At(i, y, p, t)
    BY <1>1, <1>4 DEF PlaceOK, Nowhere
  <2>2. \A x : x \in Places(p, t) <=>
            \/ x = <<"running", 0, 0>> /\ p = current_pid /\ procs[p].current = t
            \/ x = <<"ready", 0, 0>> /\ t \in procs[p].ready
    BY <1>2, <2>1, PlacesAreSeats
  <2>3. CASE p = current_pid /\ procs[p].current = t
    <3>1. t \notin procs[p].ready
      BY <1>1, <2>3 DEF Sane
    <3>2. Places(p, t) = {<<"running", 0, 0>>}
      BY <2>2, <2>3, <3>1
    <3> QED
      BY <3>2
  <2>4. CASE ~(p = current_pid /\ procs[p].current = t)
    <3>1. Places(p, t) = {<<"ready", 0, 0>>}
      BY <1>4, <2>2, <2>4 DEF Up
    <3> QED
      BY <3>1
  <2> QED
    BY <2>3, <2>4
<1>5. CASE ~Up(procs, current_pid, p, t)
  <2>1. PICK i \in Desks, y \in Seats :
            \A j \in Desks, z \in Seats : At(j, z, p, t) <=> j = i /\ z = y
    BY <1>1, <1>5 DEF PlaceOK, Once
  <2>2. \A x : x \in Places(p, t) <=>
            \/ x = <<"joins", 0, 0>> /\ i = JOIN /\ y = BENCH
            \/ x = <<"parked", i, 0>> /\ i \in Sidxs /\ y = BENCH
            \/ x = <<"client", i, y>> /\ i \in Sidxs /\ y \in Slots
    <3>1. \A x : x \in Places(p, t) <=>
              \/ x = <<"joins", 0, 0>> /\ At(JOIN, BENCH, p, t)
              \/ \E j \in Sidxs : x = <<"parked", j, 0>> /\ At(j, BENCH, p, t)
              \/ \E j \in Sidxs, k \in Slots : x = <<"client", j, k>> /\ At(j, k, p, t)
      BY <1>5, PlacesAreSeats DEF Up
    <3>2. /\ At(JOIN, BENCH, p, t) <=> i = JOIN /\ y = BENCH
          /\ \A j \in Sidxs : At(j, BENCH, p, t) <=> j = i /\ y = BENCH
          /\ \A j \in Sidxs, k \in Slots : At(j, k, p, t) <=> j = i /\ k = y
      BY <1>2, <2>1
    <3> QED
      BY <3>1, <3>2
  <2>3. CASE i = JOIN
    <3>1. y = BENCH
      BY <1>2, <2>1, <2>3 DEF At
    <3>2. Places(p, t) = {<<"joins", 0, 0>>}
      BY <1>2, <2>2, <2>3, <3>1
    <3> QED
      BY <3>2
  <2>4. CASE i \in Sidxs /\ y = BENCH
    <3>1. Places(p, t) = {<<"parked", i, 0>>}
      BY <1>2, <2>2, <2>4
    <3> QED
      BY <3>1
  <2>5. CASE i \in Sidxs /\ y \in Slots
    <3>1. Places(p, t) = {<<"client", i, y>>}
      BY <1>2, <2>2, <2>5
    <3> QED
      BY <3>1
  <2> QED
    BY <2>3, <2>4, <2>5 DEF Desks, Seats
<1> QED
  BY <1>4, <1>5

LEMMA PInvIsSound ==
    ASSUME KInv, PInv
    PROVE  KernelSound
<1>1. KernelTypeOK
  BY DEF KInv, SchedOK, ServersOK, ConnsOK, ThreadsOK, TableOK, KernelTypeOK, ThreadTable,
     ServerEntry, IsPair
<1>2. NoPanic
  BY PartsOfPInv DEF NoPanic
<1>3. OneRunning
  BY DEF PInv, Sane, OneRunning
<1>4. EachThreadInOnePlace
  <2>1. \A p \in Pids : threads[p].live \subseteq Threads
    BY <1>1 DEF KernelTypeOK
  <2> QED
    BY <2>1, OnePlace DEF EachThreadInOnePlace, Here, Absent
<1> QED
  BY <1>1, <1>2, <1>3, <1>4 DEF KernelSound

-----------------------------------------------------------------------------
(***************************************************************************)
(* What holds of the kernel.                                               *)
(***************************************************************************)
\* The inductive invariant holds, for every program the processes may run.
THEOREM KernelInvariant == Spec => []KInv
<1>1. Init => KInv
  BY InitKeeps
<1>2. KInv /\ [Next]_vars => KInv'
  BY NextKeeps DEF KStep
<1> QED
  BY <1>1, <1>2, PTL DEF Spec

\* The tables of services.rs hold what their declarations allow, in every
\* state: no call, interrupt or termination writes outside them.
THEOREM KernelTypeCorrect == Spec => []KernelTypeOK
<1>1. KInv => KernelTypeOK
  BY DEF KInv, SchedOK, ServersOK, ConnsOK, ThreadsOK, TableOK, KernelTypeOK, ThreadTable,
     ServerEntry, IsPair
<1> QED
  BY <1>1, KernelInvariant, PTL

\* send_message never unwraps a connection to a server that is gone, nor the
\* process of a server that has terminated, however servers are created,
\* destroyed and terminated and connections made and broken.
THEOREM ConnectionsNeverDangle == Spec => []NoDanglingConnection
<1>1. KInv => NoDanglingConnection
  BY DEF KInv, ConnsOK
<1> QED
  BY <1>1, KernelInvariant, PTL

\* Every system call does to the queue of every server what ServerQueue allows.
THEOREM QueuesAreServerQueues == Spec => QueuesFollowServerQueue
<1>1. KInv /\ [Next]_vars => [QueueStep]_servers
  BY NextFollows
<1> QED
  BY <1>1, KernelInvariant, PTL DEF Spec, QueuesFollowServerQueue

\* So every server of the kernel keeps the generation protocol, and no thread
\* sleeps in ReceiveMessage while its server has a message to read.
THEOREM EveryQueueIsSound ==
    Spec => [](\A i \in Sidxs : Agrees(servers[i].q) /\ SleepersIdle(servers[i].q))
<1>1. KInv => \A i \in Sidxs : Agrees(servers[i].q) /\ SleepersIdle(servers[i].q)
  BY DEF KInv, ServersOK, QueueOK, Good
<1> QED
  BY <1>1, KernelInvariant, PTL

\* As long as a server that waits for a message has a slot for the reply it
\* will owe, the current process is the only one that runs: every way from
\* one process to another takes the processor from the first.  The hypothesis
\* is needed: send_message enters the server before queue_response fails.
THEOREM OneProcessRuns == Spec /\ []HasRoom => [](NoPanic => OneRunning)
<1>1. Init => KInv /\ OthersRest
  BY InitKeeps
<1>2. KInv /\ OthersRest /\ HasRoom /\ [Next]_vars => (KInv /\ OthersRest)'
  BY NextKeeps DEF KStep
<1>3. KInv /\ OthersRest => (NoPanic => OneRunning)
  BY DEF KInv, SchedOK, OthersRest, OneRunning
<1> QED
  BY <1>1, <1>2, <1>3, PTL DEF Spec

\* Every step of the kernel keeps KernelSound: nothing panics, one process runs,
\* and each live thread runs, is ready, or waits in exactly one place, so that
\* one thing and only one will wake it.  Four things are asked for, and each is
\* needed.  HasRoom: send_message enters the server before queue_response finds
\* no slot.  ExitsAlone: the server's death leaves its clients asleep, and
\* reply_and_receive_next parks a thread whose client is gone and resumes it.
\* NoneMixes: after a ReturnToParent outside a handler, exit_thread may leave
\* the kernel with a pair to return to that SwitchTo takes for an interrupt.
\* SweepsStarted: destroy_server and terminate_process enter the address space
\* of every process, and set_current_pid panics on one that has not run.
THEOREM KernelIsSound ==
    ASSUME NoneMixes
    PROVE  Spec /\ []HasRoom /\ [][ExitsAlone /\ SweepsStarted]_vars => []KernelSound
<1>1. Init => KInv /\ PInv
  BY InitKeeps, InitPlaces
<1>2. KInv /\ PInv /\ HasRoom /\ [ExitsAlone /\ SweepsStarted]_vars /\ [Next]_vars => (KInv /\ PInv)'
  <2> SUFFICES ASSUME KInv, PInv, HasRoom, [ExitsAlone /\ SweepsStarted]_vars, [Next]_vars
               PROVE  (KInv /\ PInv)'
    OBVIOUS
  <2>1. KInv'
    BY NextKeeps DEF KStep
  <2>2. CASE ExitsAlone /\ SweepsStarted
    BY <2>1, <2>2, NextPlaces
  <2>3. CASE UNCHANGED vars
    BY <2>1, <2>3, QuietPlaces
  <2> QED
    BY <2>1, <2>2, <2>3
<1>3. KInv /\ PInv => KernelSound
  BY PInvIsSound
<1> QED
  BY <1>1, <1>2, <1>3, PTL DEF Spec
=============================================================================
