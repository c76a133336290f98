------------------------------ MODULE MsgFifo ------------------------------
(***************************************************************************)
(* What a message queue promises: a queue of at most Size messages.  A     *)
(* message is read from its front, by one receiver after the other when    *)
(* several are waiting, and leaves the queue with the last of them.        *)
(***************************************************************************)
EXTENDS Integers, Sequences

CONSTANTS Receiver, Msg, NoMsg, Size

VARIABLES
  q,
  got     \* got[r]: the message receiver r has read last

Init == q = <<>> /\ got = [r \in Receiver |-> NoMsg]

Send == Len(q) < Size /\ (\E m \in Msg : q' = Append(q, m)) /\ UNCHANGED got

Receive(r) ==
  /\ q # <<>>
  /\ got' = [got EXCEPT ![r] = Head(q)]
  /\ q' \in {q, Tail(q)}

Next == Send \/ \E r \in Receiver : Receive(r)

Spec == Init /\ [][Next]_<<q, got>>

=============================================================================
