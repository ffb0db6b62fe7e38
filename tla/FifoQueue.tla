------------------------------ MODULE FifoQueue ------------------------------
(***************************************************************************)
(* What CXQueue promises to the clients that Write() to it and the servers *)
(* that Read() from it, with blocks, lists, locks and semaphores left out: *)
(* "one-way FIFO communication between multiple writers and one reader",   *)
(* whole messages, each delivered at most once, in the order in which the  *)
(* writes took effect, and a write that fails leaves no trace.  It         *)
(* promises no delivery ("CXQueue offers no delivery guarantee").          *)
(***************************************************************************)
EXTENDS Sequences

CONSTANTS Writers,   \* the client threads
          Readers,   \* the server threads
          Messages,  \* what a client may send
          NoMsg      \* not a message: nothing sent, nothing received

VARIABLES queue,     \* the messages accepted and not yet taken, oldest first
          sending,   \* sending[w]: the message of w's Write() in progress
          received   \* received[r]: the message returned by r's last Read()

vars == <<queue, sending, received>>

Init == /\ queue = <<>>
        /\ sending = [w \in Writers |-> NoMsg]
        /\ received = [r \in Readers |-> NoMsg]

\* A client calls Write().
Submit(w) == /\ sending[w] = NoMsg
             /\ \E m \in Messages : sending' = [sending EXCEPT ![w] = m]
             /\ UNCHANGED <<queue, received>>

\* The write takes effect: the message is behind every earlier one.
Accept(w) == /\ sending[w] # NoMsg
             /\ queue' = Append(queue, sending[w])
             /\ sending' = [sending EXCEPT ![w] = NoMsg]
             /\ UNCHANGED received

\* The write fails: nothing of the message is left anywhere.
Reject(w) == /\ sending[w] # NoMsg
             /\ sending' = [sending EXCEPT ![w] = NoMsg]
             /\ UNCHANGED <<queue, received>>

\* A server calls Read(), giving its buffer back to the queue.
Ask(r) == /\ received[r] # NoMsg
          /\ received' = [received EXCEPT ![r] = NoMsg]
          /\ UNCHANGED <<queue, sending>>

\* The read takes effect: it gets the whole oldest message and nothing else.
Deliver(r) == /\ received[r] = NoMsg
              /\ queue # <<>>
              /\ received' = [received EXCEPT ![r] = Head(queue)]
              /\ queue' = Tail(queue)
              /\ UNCHANGED sending

Next == \/ \E w \in Writers : Submit(w) \/ Accept(w) \/ Reject(w)
        \/ \E r \in Readers : Ask(r) \/ Deliver(r)

Spec == Init /\ [][Next]_vars
=============================================================================
