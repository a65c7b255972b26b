----------------------------- MODULE MCTicktimer ----------------------------
(***************************************************************************)
(* Instances of Ticktimer for TLC: which thread makes which calls.         *)
(***************************************************************************)
EXTENDS Ticktimer, TLC

CONSTANTS t1, t2, t3

\* Two threads that sleep and wait, and one that notifies and frees.
TimerProgram ==
    t1 :> {"SleepMs", "WaitForCondition"} @@
    t2 :> {"WaitForCondition"} @@
    t3 :> {"NotifyCondition", "FreeCondition"}

\* Three threads that share a mutex; one of them may drop it.
MutexProgram ==
    t1 :> {"LockMutex", "ElapsedMs"} @@ t2 :> {"LockMutex"} @@ t3 :> {"LockMutex", "FreeMutex"}

\* A thread that sleeps or waits, and one that suspends the system.
SuspendProgram ==
    t1 :> {"SleepMs", "WaitForCondition"} @@ t2 :> {} @@ t3 :> {"Suspend"}

AllPrograms == {TimerProgram, MutexProgram, SuspendProgram}
=============================================================================
