---------------------------- MODULE MessageFifo -----------------------------
(***************************************************************************)
(* What a server's message queue promises to the processes that use it,    *)
(* with no slots, indices or generations: messages are received in the     *)
(* order they were sent, each of them once; each received message whose    *)
(* sender waits is owed one reply, under a token of its own, and the token *)
(* lasts until the reply.  A message that finds a receiver already waiting *)
(* overtakes none.                                                         *)
(***************************************************************************)
EXTENDS Naturals, Sequences, Functions

CONSTANTS Senders,   \* the threads that send
          Payloads,  \* what a message carries
          Tokens     \* what replies are addressed with

\* What its sender waits for.
Replies == {"None", "Scalar", "Memory"}
Letter  == [sender : Senders, payload : Payloads, reply : Replies]

VARIABLES unread,  \* the messages sent and not received, oldest first
          owed     \* for each token in use, the message it replies to

vars == <<unread, owed>>

Init == unread = <<>> /\ owed = <<>>

\* The message m is received: if its sender waits, a token not in use in f
\* stands for the reply.
Delivered(f, m, g) ==
    IF m.reply = "None" THEN g = f
    ELSE \E k \in Tokens \ DOMAIN f :
            g = [j \in DOMAIN f \cup {k} |-> IF j = k THEN m ELSE f[j]]

Send(m) == unread' = Append(unread, m) /\ UNCHANGED owed

HandOff(m) ==
    /\ unread = <<>>
    /\ Delivered(owed, m, owed')
    /\ UNCHANGED unread

Receive ==
    /\ unread # <<>>
    /\ Delivered(owed, Head(unread), owed')
    /\ unread' = Tail(unread)

Without(f, k) == Restrict(f, DOMAIN f \ {k})

Reply(k) ==
    /\ k \in DOMAIN owed
    /\ owed' = Without(owed, k)
    /\ UNCHANGED unread

ReplyAndReceive(k) ==
    /\ k \in DOMAIN owed
    /\ unread # <<>>
    /\ Delivered(Without(owed, k), Head(unread), owed')
    /\ unread' = Tail(unread)

\* The senders in S are gone.  Nobody waits for their scalars any more; the
\* memory they lent is still to be given back.
Forget(m, S) ==
    IF m.sender \in S /\ m.reply = "Scalar" THEN [m EXCEPT !.reply = "None"] ELSE m
Discard(S) ==
    /\ unread' = [n \in DOMAIN unread |-> Forget(unread[n], S)]
    /\ UNCHANGED owed

Next ==
    \/ \E m \in Letter : Send(m) \/ HandOff(m)
    \/ Receive
    \/ \E k \in Tokens : Reply(k) \/ ReplyAndReceive(k)
    \/ \E S \in SUBSET Senders : Discard(S)

Spec == Init /\ [][Next]_vars
=============================================================================
