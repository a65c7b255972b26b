------------------------------ MODULE MCKernel ------------------------------
(***************************************************************************)
(* Instances of Kernel for TLC: which process makes which calls.           *)
(***************************************************************************)
EXTENDS Kernel, TLC

\* What is sent where all processes send the same kinds.
BlockingOnly   == [p \in Pids |-> {"BlockingScalar"}]
Scalars        == [p \in Pids |-> {"Scalar", "BlockingScalar"}]
ScalarsAndLend == [p \in Pids |-> {"Scalar", "BlockingScalar", "MutableBorrow"}]
BlockingOrLend == [p \in Pids |-> {"BlockingScalar", "Borrow"}]

ServerLoop == {"CreateServer", "ReceiveMessage", "ReturnScalar", "ReturnMemory"}

\* Process 2 is a driver with two threads that serve and an interrupt handler
\* that sends to it and answers for it; process 3 sends with two threads.
IpcProgram ==
    2 :> ServerLoop \cup {"ReplyAndReceiveNext", "CreateThread",
                          "ReturnToParent", "ClaimInterrupt", "FreeInterrupt"} @@
    3 :> {"TryConnect", "SendMessage", "CreateThread", "Yield"}
DriverHandler ==
    {"TrySendMessage", "TryReceiveMessage", "ReturnScalar", "ReturnToParent", "FreeInterrupt"}

\* Two systems.  In one, process 2 creates and destroys servers, and process 3
\* connects, sends, disconnects, and starts, joins and ends threads.  In the
\* other, processes 4 and 5 are servers that may terminate at any time, and
\* each process moves memory to the others.
LifeBoots == {{2, 3}, {4, 5, 6}}
LifeKinds == [p \in Pids |-> IF p <= 3 THEN {"BlockingScalar"} ELSE {"Move"}]
LifeProgram ==
    2 :> {"CreateServer", "DestroyServer", "ReceiveMessage", "ReturnScalar"} @@
    3 :> {"Connect", "Disconnect", "SendMessage", "CreateThread", "ExitThread", "JoinThread"} @@
    4 :> {"CreateServer", "ReceiveMessage", "Connect", "SendMessage", "TerminateProcess"} @@
    5 :> {"CreateServer", "ReceiveMessage", "Connect", "SendMessage", "TerminateProcess"} @@
    6 :> {"Connect", "Disconnect", "SendMessage"}

\* Process 3 is a client with two threads that may terminate at any time,
\* process 4 another client.
TerminateProgram ==
    2 :> ServerLoop @@
    3 :> {"Connect", "SendMessage", "CreateThread", "TerminateProcess"} @@
    4 :> {"Connect", "SendMessage"}

\* What the handler of the timer does: every tick ends a quantum.
TimerHandler == {"ReturnToParent"}

\* Process 2 has the timer; process 3 has a server of its own, and threads
\* that send to it and yield.
FairProgram ==
    2 :> {} @@
    3 :> {"CreateThread", "CreateServer", "SendMessage", "ReceiveMessage",
          "ReplyAndReceiveNext", "Yield"}

(***************************************************************************)
(* Programs for which the kernel does not do what its comments say.        *)
(***************************************************************************)
\* The process that has the timer has threads that compute.
StarveProgram ==
    2 :> {"CreateThread"} @@
    3 :> {"Yield"}

\* A client terminates, and then the server is destroyed.
DeadClientProgram ==
    2 :> {"CreateServer", "DestroyServer", "Yield"} @@
    3 :> {"Connect", "SendMessage", "CreateThread", "TerminateProcess"}
=============================================================================
