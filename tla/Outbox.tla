------------------------------- MODULE Outbox -------------------------------
(***************************************************************************)
(* What the send-later queue of a mailbox promises, free of the way it is  *)
(* stored: a message is accepted once, copies of it leave only while it is *)
(* queued, it leaves the queue because it was handed to SMTP or because    *)
(* the user cancelled it, and for no other reason.                         *)
(***************************************************************************)
EXTENDS Naturals

CONSTANT Mail

VARIABLES queue,      \* messages waiting to be sent
          ever,       \* messages that were accepted at some time
          copies,     \* how many copies of each message SMTP took
          refused     \* messages SMTP refused at least once

ovars == <<queue, ever, copies, refused>>

OInit ==
  /\ queue = {}
  /\ ever = {}
  /\ copies = [m \in Mail |-> 0]
  /\ refused = {}

Accept(m) ==
  /\ m \notin ever
  /\ queue' = queue \union {m}
  /\ ever' = ever \union {m}
  /\ UNCHANGED <<copies, refused>>

Deliver(m) ==
  /\ m \in queue
  /\ copies' = [copies EXCEPT ![m] = @ + 1]
  /\ UNCHANGED <<queue, ever, refused>>

Refuse(m) ==
  /\ m \in queue
  /\ refused' = refused \union {m}
  /\ UNCHANGED <<queue, ever, copies>>

Settle(S) ==
  /\ S \subseteq queue
  /\ \A m \in S : copies[m] > 0 \/ m \in refused
  /\ queue' = queue \ S
  /\ UNCHANGED <<ever, copies, refused>>

Withdraw(m) ==
  /\ m \in queue
  /\ queue' = queue \ {m}
  /\ UNCHANGED <<ever, copies, refused>>

ONext ==
  \/ \E m \in Mail : Accept(m) \/ Deliver(m) \/ Refuse(m) \/ Withdraw(m)
  \/ \E S \in SUBSET Mail : Settle(S)

OSpec == OInit /\ [][ONext]_ovars

=============================================================================
