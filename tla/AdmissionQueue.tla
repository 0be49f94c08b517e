--------------------------- MODULE AdmissionQueue ---------------------------
(***************************************************************************)
(* What cooperative admission promises its clients: a ticket lock.  A      *)
(* ticket number is used once, is admitted only when every lower number is *)
(* finished with, and at most one ticket owns the machine.  A ticket whose *)
(* owner disappeared simply never moves on: nobody behind it is admitted.  *)
(***************************************************************************)
EXTENDS Naturals

CONSTANT MaxTicket          \* the largest sequence number (u64::MAX in the code)

Tickets == 1 .. MaxTicket

VARIABLE status             \* the life of each ticket number

Status == {"unused", "queued", "owner", "gone"}

TypeOK == status \in [Tickets -> Status]

Init == status = [t \in Tickets |-> "unused"]

Become(t, s) == status' = [status EXCEPT ![t] = s]

\* A client joins at the back of the queue.
Enter(t) ==
  /\ status[t] = "unused"
  /\ \A u \in Tickets : u < t => status[u] # "unused"
  /\ \A u \in Tickets : u > t => status[u] = "unused"
  /\ Become(t, "queued")

\* A number was drawn, but its client failed before it joined the queue.
Lose(t) ==
  /\ status[t] = "unused"
  /\ \A u \in Tickets : u < t => status[u] # "unused"
  /\ Become(t, "gone")

\* First come, first served, one at a time.
Admit(t) ==
  /\ status[t] = "queued"
  /\ \A u \in Tickets : u < t => status[u] = "gone"
  /\ Become(t, "owner")

\* A waiter times out, is cancelled or is found dead; an owner finishes.
Leave(t) == status[t] \in {"queued", "owner"} /\ Become(t, "gone")

Next == \E t \in Tickets : Enter(t) \/ Lose(t) \/ Admit(t) \/ Leave(t)

Spec == Init /\ [][Next]_status

OneOwner ==
  \A t, u \in Tickets : status[t] = "owner" /\ status[u] = "owner" => t = u
=============================================================================
