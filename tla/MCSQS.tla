------------------------------- MODULE MCSQS -------------------------------
(* Small instances of SQS for TLC. *)
EXTENDS SQS, TLC

CONSTANTS q1, tomb, m1, m2, noHandle

MCSymmetry == Permutations(Clients) \cup Permutations(Ids)

MCOneQueue  == {q1, tomb}
MCMessages  == {m1, m2}
MCHandles   == MCMessages \cup {noHandle}

\* Every operation around one message; two messages without attributes and tags, a
\* receive taking one or all of them; and a queue created by the tombstone's name
\* beside one that is deleted, with receives that ask for a negative timeout.
MCMixes ==
    {[ops |-> {"CreateQueue", "DeleteQueue", "SetQueueAttributes", "TagQueue", "UntagQueue",
               "SendMessage", "ReceiveMessage", "DeleteMessage"},
      creates |-> {q1}, tags |-> BOOLEAN, sends |-> 1, most |-> 5,
      limits |-> {1}, timeouts |-> {1}],
     [ops |-> {"CreateQueue", "DeleteQueue", "SendMessage", "ReceiveMessage", "DeleteMessage"},
      creates |-> {q1}, tags |-> {FALSE}, sends |-> 2, most |-> 5,
      limits |-> {1, -1}, timeouts |-> {1}],
     [ops |-> {"CreateQueue", "DeleteQueue", "SendMessage", "ReceiveMessage", "DeleteMessage"},
      creates |-> {q1, tomb}, tags |-> {FALSE}, sends |-> 1, most |-> 2,
      limits |-> {1}, timeouts |-> {1, -1}]}
=============================================================================
