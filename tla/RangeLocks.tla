----------------------------- MODULE RangeLocks -----------------------------
(***************************************************************************)
(* The fcntl locks of one file on its metadata server (FileInode,          *)
(* RangeLockDetails): the sets of exclusive and shared ranges, the queues  *)
(* of waiters, and the works that tell waiters of their grant and unlock   *)
(* what was not acknowledged (LockRangeNotificationWork). The owner of a   *)
(* lock is a process (clientNumID, ownerPID), whose ranges are merged,     *)
(* trimmed and split.                                                      *)
(*                                                                         *)
(* How clients repeat their requests is in EntryLocks; a repeated request  *)
(* that still waits changes nothing here, so lockAckIDs are left out.      *)
(***************************************************************************)
EXTENDS Naturals, Sequences, FiniteSets, SequencesExt, Queues

CONSTANTS
  Owners,
  MaxByte,       \* bound: bytes are 0..MaxByte, below the largest uint64_t
  MaxWaiting,    \* bound: requests that wait at the same time
  MaxWorks       \* bound: notification works at the same time

ASSUME BoundsAssumption == MaxByte \in Nat /\ MaxWaiting \in Nat /\ MaxWorks \in Nat

VARIABLES
  excl,          \* exclRangeFLocks
  shared,        \* sharedRangeFLocks
  waitersExcl,   \* waitersExclRangeFLock
  waitersShared, \* waitersSharedRangeFLock
  works          \* notification works, each with the grants it has no ack for

vars == <<excl, shared, waitersExcl, waitersShared, works>>

Bytes == 0..MaxByte
Ranges == {r \in [owner : Owners, start : Bytes, end : Bytes] : r.start <= r.end}
Requests == {q \in [owner : Owners, mode : {"shared", "excl"}, start : Bytes, end : Bytes] :
               q.start <= q.end}

-----------------------------------------------------------------------------
(* RangeLockDetails                                                        *)

Overlaps(a, b) == a.start <= b.end /\ b.start <= a.end
Includes(a, b) == a.start <= b.start /\ b.end <= a.end

\* Mutant: ranges that extend each other are not merged.
MutIsMergeable(a, b) == a.start <= b.end /\ b.start <= a.end

\* isMergeable: the ranges overlap or extend each other.
IsMergeable(a, b) == a.start <= b.end + 1 /\ b.start <= a.end + 1

\* Mutant: a trim may leave an empty range.
MutWithout(a, cut) == {[a EXCEPT !.end = cut.start - 1], [a EXCEPT !.start = cut.end + 1]}

\* trim and split: what is left of range a without the range cut.
Without(a, cut) ==
  {p \in {[a EXCEPT !.end = cut.start - 1], [a EXCEPT !.start = cut.end + 1]} : p.start <= p.end}

\* merge of range a with the owner's ranges in S it is mergeable with
Merged(S, a) ==
  LET parts == {a} \cup {r \in S : r.owner = a.owner /\ IsMergeable(r, a)}
  IN [owner |-> a.owner,
      start |-> CHOOSE s \in {r.start : r \in parts} : \A r \in parts : s <= r.start,
      end |-> CHOOSE e \in {r.end : r \in parts} : \A r \in parts : r.end <= e]

-----------------------------------------------------------------------------
(* FileInode: operators on locks L, a record of excl, shared, waitersExcl   *)
(* and waitersShared.                                                      *)

Locks == [excl |-> excl, shared |-> shared,
          waitersExcl |-> waitersExcl, waitersShared |-> waitersShared]
RangeOf(q) == [owner |-> q.owner, start |-> q.start, end |-> q.end]
Own(S, q) == {r \in S : r.owner = q.owner /\ Overlaps(r, q)}
Others(S, q) == {r \in S : r.owner # q.owner /\ Overlaps(r, q)}

\* Mutant: an exclusive request does not look at shared locks.
MutCheckConflicts(L, q, before) ==
  Others(L.excl, q) # {} \/ Others(ToSet(before), q) # {}

\* flockRangeCheckConflictsEx against granted ranges and the given writers in the
\* queue
CheckConflicts(L, q, before) ==
  \/ Others(L.excl, q) # {}
  \/ q.mode = "excl" /\ Others(L.shared, q) # {}
  \/ Others(ToSet(before), q) # {}

\* flockRangeIsGranted
IsGranted(L, q) ==
  \E r \in Own(IF q.mode = "excl" THEN L.excl ELSE L.shared, q) : Includes(r, q)

Subtract(S, q) ==
  (S \ Own(S, q)) \cup UNION {Without(r, q) : r \in Own(S, q)}

\* flockRangeUnlock: shared ranges are not looked at when an exclusive range covers
\* the whole unlock.
Unlock(L, q) ==
  [L EXCEPT !.excl = Subtract(@, q),
            !.shared = IF \E r \in Own(L.excl, q) : Includes(r, q) THEN @
                       ELSE Subtract(@, q)]

Insert(S, a) == {r \in S : ~(r.owner = a.owner /\ IsMergeable(r, a))} \cup {Merged(S, a)}

\* flockRangeExclusive, flockRangeShared
Grant(L, q) ==
  IF q.mode = "excl" THEN [L EXCEPT !.excl = Insert(@, RangeOf(q))]
                     ELSE [L EXCEPT !.shared = Insert(@, RangeOf(q))]

\* The request as the notification work gets it: the grant has extended its range
\* by the owner's ranges it was merged with.
Granted(L, q) ==
  LET m == Merged(IF q.mode = "excl" THEN L.excl ELSE L.shared, RangeOf(q))
  IN [owner |-> q.owner, start |-> m.start, end |-> m.end, asked |-> RangeOf(q)]

\* A request that has to wait, in the queue of its mode
Enqueue(L, q) ==
  IF q.mode = "excl" THEN [L EXCEPT !.waitersExcl = Append(@, q)]
                     ELSE [L EXCEPT !.waitersShared = Append(@, q)]

\* One iteration of flockRangeTryNextWaiters: waiter q is granted, or kept in its queue.
TryWaiter(acc, q) ==
  IF CheckConflicts(acc.locks, q, acc.locks.waitersExcl)
  THEN [acc EXCEPT !.locks = Enqueue(@, q)]
  ELSE [locks |-> Grant(acc.locks, q), granted |-> acc.granted \cup {Granted(acc.locks, q)}]

\* The waiters in the order of the two loops
AllWaiters(L) == L.waitersExcl \o L.waitersShared

NoWaiters(L) == [L EXCEPT !.waitersExcl = <<>>, !.waitersShared = <<>>]

\* Mutant: readers are not tried.
MutTryNextWaiters(L) ==
  LET acc[i \in 0..Len(L.waitersExcl)] ==
        IF i = 0 THEN [locks |-> [L EXCEPT !.waitersExcl = <<>>], granted |-> {}]
        ELSE TryWaiter(acc[i - 1], L.waitersExcl[i])
  IN acc[Len(L.waitersExcl)]

\* flockRangeTryNextWaiters: writers in their order, then readers.
TryNextWaiters(L) ==
  LET acc[i \in 0..Len(AllWaiters(L))] ==
        IF i = 0 THEN [locks |-> NoWaiters(L), granted |-> {}]
        ELSE TryWaiter(acc[i - 1], AllWaiters(L)[i])
  IN acc[Len(AllWaiters(L))]

Set(L) ==
  /\ excl' = L.excl
  /\ shared' = L.shared
  /\ waitersExcl' = L.waitersExcl
  /\ waitersShared' = L.waitersShared

\* The locks become L; when something was removed the next waiters are granted.
\* A caller that drops the notify list tells nobody.
Install(L, removed, tell) ==
  IF removed
  THEN LET n == TryNextWaiters(L)
       IN /\ Set(n.locks)
          /\ works' = IF tell /\ n.granted # {}
                      THEN Append(works, [todo |-> n.granted, undo |-> FALSE, many |-> FALSE])
                      ELSE works
          /\ Len(works') <= MaxWorks
  ELSE Set(L) /\ UNCHANGED works

-----------------------------------------------------------------------------
(* FLockRangeMsgEx: the requests of clients.                               *)

Init ==
  /\ excl = {} /\ shared = {}
  /\ waitersExcl = <<>> /\ waitersShared = <<>>
  /\ works = <<>>

\* flockRangeUnlocked with a lock request that is not granted already: it
\* is granted or waits, in both cases without the owner's other locks in the range.
\* The owner may have requests that wait: another thread has made them, or their calls
\* were interrupted by a signal, which leaves them in the queue.
Lock(q, wait) ==
  LET conflicts == CheckConflicts(Locks, q, waitersExcl)
      unlocked == Unlock(Locks, q)
  IN /\ ~IsGranted(Locks, q)
     /\ \/ /\ ~conflicts
           /\ Install(Grant(unlocked, q), unlocked # Locks, TRUE)
        \/ /\ conflicts /\ wait /\ Len(AllWaiters(Locks)) < MaxWaiting
           /\ Install(Enqueue(unlocked, q), unlocked # Locks, TRUE)
        \/ /\ conflicts /\ ~wait
           /\ UNCHANGED vars

\* flockRangeUnlocked with an unlock request
UnlockRange(r) ==
  /\ Unlock(Locks, r) # Locks
  /\ Install(Unlock(Locks, r), TRUE, TRUE)

CancelLocks(o) ==
  LET OfOwner(waiters) == {q \in ToSet(waiters) : q.owner = o}
  IN [excl |-> {r \in excl : r.owner # o}, shared |-> {r \in shared : r.owner # o},
      waitersExcl |-> Dequeued(waitersExcl, OfOwner(waitersExcl)),
      waitersShared |-> Dequeued(waitersShared, OfOwner(waitersShared))]

\* flockRangeCancelByHandle when a file is closed, flockRangeCancelByClientID when
\* the process is the client's only one on the file and the client is gone
CancelRange(o) ==
  /\ CancelLocks(o) # Locks
  /\ Install(CancelLocks(o), TRUE, TRUE)

-----------------------------------------------------------------------------
(* LockRangeNotificationWork::process                                      *)

Acknowledged(i, g) ==
  /\ ~works[i].undo
  /\ works' = IF works[i].todo = {g} THEN RemoveAt(works, i)
              ELSE [works EXCEPT ![i].todo = @ \ {g}]
  /\ UNCHANGED <<excl, shared, waitersExcl, waitersShared>>

\* The retries are used up and acks are missing.
AcksMissing(i) ==
  /\ ~works[i].undo
  /\ works' = [works EXCEPT ![i].undo = TRUE, ![i].many = Cardinality(works[i].todo) > 1]
  /\ UNCHANGED <<excl, shared, waitersExcl, waitersShared>>

\* A lock without an ack is unlocked. The waiters this grants are not notified.
UnlockWaiter(i, g) ==
  LET L == Unlock(Locks, g)
  IN /\ works[i].undo
     /\ Set(IF L # Locks THEN TryNextWaiters(L).locks ELSE L)
     /\ works' = IF works[i].todo = {g} /\ ~works[i].many THEN RemoveAt(works, i)
                 ELSE [works EXCEPT ![i].todo = @ \ {g}]

\* flockRangeCancelAllWaiters, when several acks were missing
CancelAllWaiters(i) ==
  /\ works[i].undo /\ works[i].todo = {}
  /\ Set(NoWaiters(Locks))
  /\ works' = RemoveAt(works, i)

Next ==
  \/ \E q \in Requests, wait \in BOOLEAN : Lock(q, wait)
  \/ \E r \in Ranges : UnlockRange(r)
  \/ \E o \in Owners : CancelRange(o)
  \/ \E i \in DOMAIN works :
       \/ \E g \in works[i].todo : Acknowledged(i, g) \/ UnlockWaiter(i, g)
       \/ AcksMissing(i)
       \/ CancelAllWaiters(i)

Spec == Init /\ [][Next]_vars

-----------------------------------------------------------------------------
(* Properties                                                              *)

Grants == {g \in [owner : Owners, start : Bytes, end : Bytes, asked : Ranges] : g.start <= g.end}
Works == {w \in [todo : SUBSET Grants, undo : BOOLEAN, many : BOOLEAN] :
            w.todo = {} => w.undo /\ w.many}

\* The variables have their types; no range is empty or leaves the file, and a work
\* with nothing left to do is left only to cancel the waiters.
TypeOK ==
  /\ excl \subseteq Ranges /\ shared \subseteq Ranges
  /\ waitersExcl \in Seq(Requests) /\ waitersShared \in Seq(Requests)
  /\ works \in Seq(Works)

\* The ranges of one mode that an owner has are disjoint and not even adjacent, although
\* they are merged, trimmed and split piece by piece. flockRangeIsGranted relies on it:
\* "otherwise we wouldn't find a partial match because of our merging".
RangesMerged ==
  \A S \in {excl, shared} : \A a, b \in S :
    a # b /\ a.owner = b.owner => a.end + 1 < b.start \/ b.end + 1 < a.start

\* "there cannot be another overlapping range which we also own" (flockRangeUnlock)
OwnRangesApart ==
  \A a \in excl, b \in shared : a.owner = b.owner => ~Overlaps(a, b)

\* No wake-up is lost: every waiter conflicts with a lock of another owner or with
\* a writer of another owner that waits before it (flockRangeTryNextWaiters).
NoNeedlessWait ==
  /\ \A i \in DOMAIN waitersExcl :
       CheckConflicts(Locks, waitersExcl[i], SubSeq(waitersExcl, 1, i - 1))
  /\ \A i \in DOMAIN waitersShared : CheckConflicts(Locks, waitersShared[i], waitersExcl)

\* "unlock all locks for which we didn't receive an ack"
\* (LockRangeNotificationWork): what a work would unlock is what was asked for.
UnlocksOnlyUnacked ==
  \A i \in DOMAIN works : \A g \in works[i].todo : RangeOf(g) = g.asked

\* The byte locks that the ranges stand for
ByteLock ==
  {k \in [owner : Owners, byte : Bytes, mode : {"shared", "excl"}] :
     \E r \in IF k.mode = "excl" THEN excl ELSE shared :
       r.owner = k.owner /\ r.start <= k.byte /\ k.byte <= r.end}

B == INSTANCE ByteLocks WITH lock <- ByteLock,
                             wanted <- ToSet(waitersExcl) \cup ToSet(waitersShared)

\* The sets of ranges behave as a table of bytes: no two owners hold a byte in
\* conflicting modes, a request changes nothing outside of its range, an unlock takes
\* all of its range, or its exclusive locks only where all of it is locked exclusively,
\* and a waiter gets all it asked for or nothing.
ImplementsByteLocks == B!Spec
=============================================================================
