------------------------------- MODULE Queues -------------------------------
(***************************************************************************)
(* Queues of waiters as sequences (the std::list of Locking.h).            *)
(***************************************************************************)
EXTENDS Naturals, Sequences

\* The queue without the elements in gone: a loop over a list that erases some of its
\* elements. (A recursive function rather than SelectSeq, which the prover cannot
\* expand.)
Dequeued(queue, gone) ==
  LET rest[i \in 0..Len(queue)] ==
        IF i = 0 THEN <<>>
        ELSE IF queue[i] \in gone THEN rest[i - 1]
        ELSE Append(rest[i - 1], queue[i])
  IN rest[Len(queue)]
=============================================================================
