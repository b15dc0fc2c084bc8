------------------------------- MODULE Mailbox -------------------------------
(***************************************************************************)
(* What the message queue of the server promises, without threads, locks   *)
(* or a ring buffer: a bounded first-in first-out mailbox that refuses a   *)
(* message only when it is full, and hands every message it accepted,      *)
(* together with the client that sent it, to one worker at a time.         *)
(***************************************************************************)
EXTENDS Naturals, Sequences

CONSTANTS Clients, Capacity, MaxMessages

VARIABLES
  received,  \* messages received so far; the n-th message is the number n
  pending,   \* accepted and not yet taken, oldest first
  working    \* taken and not yet finished

mvars == <<received, pending, working>>

MInit == received = 0 /\ pending = <<>> /\ working = {}

\* The next message, from some client, is accepted.
Accept ==
  /\ received < MaxMessages /\ Len(pending) < Capacity
  /\ received' = received + 1
  /\ \E c \in Clients :
       pending' = Append(pending, [message |-> received + 1, client |-> c])
  /\ UNCHANGED working

\* The next message is lost, because the mailbox is full.
Refuse ==
  /\ received < MaxMessages /\ Len(pending) = Capacity
  /\ received' = received + 1
  /\ UNCHANGED <<pending, working>>

\* A worker takes the oldest message.
Take ==
  /\ pending # <<>>
  /\ working' = working \cup {Head(pending)}
  /\ pending' = Tail(pending)
  /\ UNCHANGED received

\* A worker has answered the message.
Finish ==
  /\ \E m \in working : working' = working \ {m}
  /\ UNCHANGED <<received, pending>>

MNext == Accept \/ Refuse \/ Take \/ Finish

MSpec == MInit /\ [][MNext]_mvars
=============================================================================
