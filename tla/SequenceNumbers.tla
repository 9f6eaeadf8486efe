--------------------------- MODULE SequenceNumbers ---------------------------
(***************************************************************************)
(* How a client numbers its requests to a mirrored metadata group          *)
(* (MirrorBuddyGroup.c): the numbers in flight are kept in a binary heap,  *)
(* the finished ones in a ring buffer, and each new request acknowledges   *)
(* one finished number or all numbers below the smallest in flight. The    *)
(* server forgets the answers to acknowledged requests (Session.h).        *)
(*                                                                         *)
(* Only TLC uses this module: the loops over the heap are recursive.       *)
(***************************************************************************)
EXTENDS Naturals

CONSTANTS
  Capacity,      \* inFlightCapacity, the setting connMaxInternodeNum
  MaxSequence    \* bound: the largest sequence number

VARIABLES
  sequence,      \* 0 until the server has sent the base
  inFlightSize,
  seqNoInFlight, \* array of which the first inFlightSize elements are the heap
  firstFinishedIndex,
  finishedCount,
  finishedSeqNums,
  acknowledged   \* what the latest request acknowledges

vars == <<sequence, inFlightSize, seqNoInFlight,
          firstFinishedIndex, finishedCount, finishedSeqNums, acknowledged>>

Indices == 0..(Capacity - 1)

Init ==
  /\ sequence = 0
  /\ inFlightSize = 0
  /\ seqNoInFlight = [i \in Indices |-> 0]
  /\ firstFinishedIndex = 0
  /\ finishedCount = 0
  /\ finishedSeqNums = [i \in Indices |-> 0]
  /\ acknowledged = [selective |-> FALSE, seq |-> 0]

\* MirrorBuddyGroup_setSeqNoBase, with the base a server sends that has seen the
\* client's numbers up to seen
SetSeqNoBase(seen) ==
  /\ seen < MaxSequence
  /\ sequence < seen + 1
  /\ sequence' = seen + 1
  /\ UNCHANGED <<inFlightSize, seqNoInFlight,
                 firstFinishedIndex, finishedCount, finishedSeqNums, acknowledged>>

\* MirrorBuddyGroup_acquireSequenceNumber when a slot is free and the base is known
AcquireSequenceNumber ==
  /\ inFlightSize < Capacity
  /\ sequence \in 1..(MaxSequence - 1)
  /\ sequence' = sequence + 1
  /\ seqNoInFlight' = [seqNoInFlight EXCEPT ![inFlightSize] = sequence + 1]
  /\ inFlightSize' = inFlightSize + 1
  /\ IF finishedCount > 0
     THEN /\ acknowledged' = [selective |-> TRUE, seq |-> finishedSeqNums[firstFinishedIndex]]
          /\ firstFinishedIndex' = (firstFinishedIndex + 1) % Capacity
          /\ finishedCount' = finishedCount - 1
     ELSE /\ acknowledged' = [selective |-> FALSE, seq |-> seqNoInFlight'[0] - 1]
          /\ UNCHANGED <<firstFinishedIndex, finishedCount>>
  /\ UNCHANGED finishedSeqNums

Swap(heap, i, j) == [heap EXCEPT ![i] = heap[j], ![j] = heap[i]]

\* "decrease the key of the seq# to minimum"
RECURSIVE MoveToRoot(_, _)
MoveToRoot(heap, i) == IF i = 0 THEN heap ELSE MoveToRoot(Swap(heap, i, i \div 2), i \div 2)

\* "move the new root down to restore the heap property"
RECURSIVE MoveDown(_, _, _)
MoveDown(heap, size, i) ==
  LET Smaller(j, k) == IF j < size /\ heap[j] < heap[k] THEN j ELSE k
      minNode == Smaller(2 * i + 2, Smaller(2 * i + 1, i))
  IN IF minNode = i THEN heap ELSE MoveDown(Swap(heap, i, minNode), size, minNode)

\* MirrorBuddyGroup_releaseSequenceNumber of the number at index i
ReleaseSequenceNumber(i) ==
  LET first == IF finishedCount < Capacity THEN firstFinishedIndex
               ELSE (firstFinishedIndex + 1) % Capacity
      next == IF finishedCount < Capacity THEN (firstFinishedIndex + finishedCount) % Capacity
              ELSE first
      last == inFlightSize - 1
  IN /\ finishedSeqNums' = [finishedSeqNums EXCEPT ![next] = seqNoInFlight[i]]
     /\ firstFinishedIndex' = first
     /\ finishedCount' = IF finishedCount < Capacity THEN finishedCount + 1 ELSE finishedCount
     /\ seqNoInFlight' = MoveDown(Swap(MoveToRoot(seqNoInFlight, i), 0, last), last, 0)
     /\ inFlightSize' = last
     /\ UNCHANGED <<sequence, acknowledged>>

Next ==
  \/ \E seen \in 0..sequence : SetSeqNoBase(seen)
  \/ AcquireSequenceNumber
  \/ \E i \in 0..(inFlightSize - 1) : ReleaseSequenceNumber(i)

Spec == Init /\ [][Next]_vars

-----------------------------------------------------------------------------
\* "the client sets endSeqno to the largest sequence number it knows to be fully
\* processed, with no sequence numbers below it still being active somewhere"
\* (Session.h), and a selective acknowledgement names a finished number.
AcknowledgesFinished ==
  \A i \in 0..(inFlightSize - 1) :
    IF acknowledged.selective THEN seqNoInFlight[i] # acknowledged.seq
    ELSE seqNoInFlight[i] > acknowledged.seq
=============================================================================
