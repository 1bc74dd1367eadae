------------------------------- MODULE Channel --------------------------------
(***************************************************************************)
(* Channels and fibers (src/backend/channel.hh, fiber.hh) as operators.    *)
(* fs maps the fibers to their states; the operations return the channel,  *)
(* the fibers and a value.                                                 *)
(*                                                                         *)
(* The fields stored and taken of a channel are history: every value that  *)
(* send put in and every value that recv took out; given counts the calls  *)
(* of send on the open channel.  No instruction calls offer or poll.       *)
(***************************************************************************)
EXTENDS Naturals, Sequences

FiberState == {"CREATED", "RUNNING", "SUSPENDED", "COMPLETED", "FAILED"}

suspend(fs, f) == IF fs[f] = "RUNNING" THEN [fs EXCEPT ![f] = "SUSPENDED"] ELSE fs
resume(fs, f)  == IF fs[f] = "SUSPENDED" THEN [fs EXCEPT ![f] = "RUNNING"] ELSE fs

NewChannel(cap) == [type |-> "CHANNEL", buffer |-> <<>>, capacity |-> cap, closed |-> FALSE,
                    waiting_senders |-> <<>>, waiting_receivers |-> <<>>,
                    given |-> 0, stored |-> <<>>, taken |-> <<>>]

Full(c) == Len(c.buffer) >= c.capacity

\* Wake up one waiting fiber, if there is one.
Wake(fs, waiting) == IF waiting = <<>> THEN fs ELSE resume(fs, Head(waiting))
Rest(waiting)     == IF waiting = <<>> THEN <<>> ELSE Tail(waiting)

\* Mutant: a value overtakes the ones in the buffer.
Push_front(c, fs, value) ==
  [c  |-> [c EXCEPT !.buffer = << value >> \o @, !.waiting_receivers = Rest(@), !.stored = Append(@, value)],
   fs |-> Wake(fs, c.waiting_receivers), ok |-> TRUE]

Push(c, fs, value) ==
  [c  |-> [c EXCEPT !.buffer = Append(@, value), !.waiting_receivers = Rest(@), !.stored = Append(@, value)],
   fs |-> Wake(fs, c.waiting_receivers), ok |-> TRUE]

Pop(c, fs) ==
  [c  |-> [c EXCEPT !.buffer = Tail(@), !.waiting_senders = Rest(@), !.taken = Append(@, Head(c.buffer))],
   fs |-> Wake(fs, c.waiting_senders), ok |-> TRUE]

\* A full channel queues the sender and returns: the value is not stored.
send(c, fs, value, current_fiber) ==
  IF c.closed THEN [c |-> c, fs |-> fs, ok |-> FALSE]
  ELSE IF Full(c)
  THEN [c  |-> [c EXCEPT !.waiting_senders = Append(@, current_fiber), !.given = @ + 1],
        fs |-> suspend(fs, current_fiber), ok |-> FALSE]
  ELSE Push([c EXCEPT !.given = @ + 1], fs, value)

\* An empty channel queues the receiver and returns the word 0; a closed one returns it at once.
recv(c, fs, current_fiber) ==
  IF c.buffer = <<>> /\ ~c.closed
  THEN [c |-> [c EXCEPT !.waiting_receivers = Append(@, current_fiber)], fs |-> suspend(fs, current_fiber), ok |-> FALSE]
  ELSE IF c.buffer = <<>> THEN [c |-> c, fs |-> fs, ok |-> FALSE]
  ELSE Pop(c, fs)

\* close resumes every fiber that waits.
close(c, fs) ==
  [c  |-> [c EXCEPT !.closed = TRUE, !.waiting_receivers = <<>>, !.waiting_senders = <<>>],
   fs |-> [f \in DOMAIN fs |->
             IF \E i \in DOMAIN (c.waiting_receivers \o c.waiting_senders) :
                  (c.waiting_receivers \o c.waiting_senders)[i] = f
             THEN resume(fs, f)[f] ELSE fs[f]],
   ok |-> TRUE]

has_data(c) == c.buffer # <<>>
==============================================================================
