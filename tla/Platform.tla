------------------------------ MODULE Platform ------------------------------
(***************************************************************************)
(* The numbers that name processes and threads.                            *)
(***************************************************************************)
CONSTANTS
    Pids,  \* the processes other than the kernel
    Tids   \* the numbers a thread of a process can have
=============================================================================
