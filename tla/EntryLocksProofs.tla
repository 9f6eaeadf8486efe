-------------------------- MODULE EntryLocksProofs --------------------------
(***************************************************************************)
(* Safety of the flock queues for every number of handles, clients and     *)
(* requests: the IDs of the waiters match the queues, no wake-up is lost,  *)
(* and writers are preferred.                                              *)
(***************************************************************************)
EXTENDS EntryLocks, QueueProofs

-----------------------------------------------------------------------------
(* The inductive invariant                                                 *)

\* A queue has existing requests of one mode, none of them twice.
Queue(q, mode) ==
  /\ IsInjective(q)
  /\ \A id \in ToSet(q) : id \in DOMAIN req /\ req[id].mode = mode

\* What every operation on the lock queues keeps
GoodQueues(L) ==
  /\ L \in LockQueues
  /\ Queue(L.waitersExclLock, "excl")
  /\ Queue(L.waitersSharedLock, "shared")
  /\ L.waitersLockIDs = ToSet(L.waitersExclLock) \cup ToSet(L.waitersSharedLock)

\* NoNeedlessWait of lock queues L
Served(L) ==
  /\ L.waitersExclLock # <<>> => L.exclLock # NoHandle \/ L.sharedLocks # {}
  /\ L.waitersSharedLock # <<>> => L.exclLock # NoHandle \/ L.waitersExclLock # <<>>

\* Requests are numbered within the bound, and a handle in a call has made one.
RequestsInv ==
  /\ Len(req) <= MaxRequests
  /\ \A h \in Handles : Calling(h) => Used(h)

IInv ==
  /\ TypeOK
  /\ GoodQueues(lockQs)
  /\ Served(lockQs)
  /\ RequestsInv

-----------------------------------------------------------------------------
(* The operations of FileInode                                             *)

\* The prover needs the fields of lock queues one by one.
LEMMA FieldsOfQueues ==
  ASSUME NEW L \in LockQueues
  PROVE  /\ L.exclLock \in Handles \cup {NoHandle} /\ L.sharedLocks \in SUBSET Handles
         /\ L.waitersExclLock \in Seq(Ids) /\ L.waitersSharedLock \in Seq(Ids)
         /\ L.waitersLockIDs \in SUBSET Ids
BY DEF LockQueues

\* Every request has an owner and a mode.
LEMMA RequestType ==
  ASSUME req \in Seq([handle : Handles, mode : Modes, wait : BOOLEAN])
  PROVE  \A id \in DOMAIN req : /\ Owner(id) \in Handles /\ req[id].mode \in Modes
                                /\ req[id].wait \in BOOLEAN
<1>1. \A id \in DOMAIN req : req[id] \in [handle : Handles, mode : Modes, wait : BOOLEAN]
  BY SeqElements
<1> QED BY <1>1 DEF Owner

\* An empty queue has no elements, another has some.
LEMMA EmptyQueue ==
  ASSUME NEW q \in Seq(Ids)
  PROVE  ToSet(q) = {} <=> q = <<>>
<1>1. DOMAIN q = 1..Len(q) /\ Len(q) \in Nat
  OBVIOUS
<1>2. \A x : x \in ToSet(q) <=> \E i \in DOMAIN q : x = q[i]
  BY Zenon DEF ToSet
<1>3. ASSUME q # <<>> PROVE q[1] \in ToSet(q)
  <2>1. 1 \in DOMAIN q
    BY <1>1, <1>3
  <2> QED BY <1>2, <2>1
<1>4. ASSUME q = <<>> PROVE ToSet(q) = {}
  BY <1>1, <1>2, <1>4
<1> QED BY <1>3, <1>4

\* The empty queue
LEMMA EmptyIsQueue == <<>> \in Seq(Ids) /\ ToSet(<<>>) = {} /\ IsInjective(<<>>)
<1>1. <<>> \in Seq(Ids) /\ DOMAIN <<>> = {}
  OBVIOUS
<1>2. ToSet(<<>>) = {}
  BY <1>1, EmptyQueue
<1> QED BY <1>1, <1>2 DEF IsInjective

\* The two queues have no request in common.
LEMMA QueuesApart ==
  ASSUME NEW L, GoodQueues(L)
  PROVE  ToSet(L.waitersExclLock) \cap ToSet(L.waitersSharedLock) = {}
BY DEF GoodQueues, Queue

\* flockEntryUnlock leaves the waiters alone.
LEMMA UnlockGood ==
  ASSUME NEW L, GoodQueues(L), NEW h
  PROVE  /\ GoodQueues(Unlock(L, h))
         /\ Unlock(L, h).sharedLocks \subseteq L.sharedLocks
         /\ Unlock(L, h).waitersExclLock = L.waitersExclLock
         /\ Unlock(L, h).waitersLockIDs = L.waitersLockIDs
<1>1. Unlock(L, h) \in LockQueues
  BY DEF GoodQueues, Unlock, LockQueues
<1>2. /\ Unlock(L, h).waitersExclLock = L.waitersExclLock
      /\ Unlock(L, h).waitersSharedLock = L.waitersSharedLock
      /\ Unlock(L, h).waitersLockIDs = L.waitersLockIDs
      /\ Unlock(L, h).sharedLocks \subseteq L.sharedLocks
  BY DEF GoodQueues, Unlock, LockQueues
<1> QED BY <1>1, <1>2 DEF GoodQueues, Queue

\* Nothing is unlocked for a handle without a lock.
LEMMA UnlockNothing ==
  ASSUME NEW L \in LockQueues, NEW h \in Handles, ~Holds(L, h)
  PROVE  Unlock(L, h) = L
BY DEF Unlock, Holds, LockQueues

\* flockEntryShared and flockEntryExclusive
LEMMA GrantGood ==
  ASSUME NEW L, GoodQueues(L), NEW id \in DOMAIN req, Owner(id) \in Handles
  PROVE  /\ GoodQueues(Grant(L, id))
         /\ Served(L) => Served(Grant(L, id))
         /\ Grant(L, id).waitersExclLock = L.waitersExclLock
         /\ req[id].mode = "excl" => Grant(L, id).sharedLocks = L.sharedLocks
<1>1. Grant(L, id) \in LockQueues
  BY DEF GoodQueues, Grant, LockQueues
<1>2. /\ Grant(L, id).waitersExclLock = L.waitersExclLock
      /\ Grant(L, id).waitersSharedLock = L.waitersSharedLock
      /\ Grant(L, id).waitersLockIDs = L.waitersLockIDs
      /\ req[id].mode = "excl" => /\ Grant(L, id).sharedLocks = L.sharedLocks
                                  /\ Grant(L, id).exclLock = Owner(id)
      /\ req[id].mode # "excl" => /\ Grant(L, id).exclLock = L.exclLock
                                  /\ L.sharedLocks \subseteq Grant(L, id).sharedLocks
  BY DEF GoodQueues, Grant, LockQueues
<1>3. GoodQueues(Grant(L, id))
  BY <1>1, <1>2 DEF GoodQueues, Queue
<1>4. NoHandle \notin Handles
  BY ClientsAssumption
<1> QED BY <1>2, <1>3, <1>4 DEF Served

\* A request that is not queued yet is appended to the queue of its mode.
LEMMA EnqueueGood ==
  ASSUME NEW L, GoodQueues(L), NEW id \in DOMAIN req, id \in Ids,
         req[id].mode \in Modes, id \notin L.waitersLockIDs
  PROVE  /\ GoodQueues(Enqueue(L, id))
         /\ Enqueue(L, id).exclLock = L.exclLock /\ Enqueue(L, id).sharedLocks = L.sharedLocks
         /\ Enqueue(L, id).waitersExclLock = (IF req[id].mode = "excl"
              THEN Append(L.waitersExclLock, id) ELSE L.waitersExclLock)
         /\ Enqueue(L, id).waitersSharedLock = (IF req[id].mode = "excl"
              THEN L.waitersSharedLock ELSE Append(L.waitersSharedLock, id))
<1> DEFINE x == L.waitersExclLock
           s == L.waitersSharedLock
           E == Enqueue(L, id)
<1>1. x \in Seq(Ids) /\ s \in Seq(Ids) /\ L \in LockQueues
  BY DEF GoodQueues, LockQueues
<1>2. /\ E.exclLock = L.exclLock /\ E.sharedLocks = L.sharedLocks
      /\ E.waitersExclLock = IF req[id].mode = "excl" THEN Append(x, id) ELSE x
      /\ E.waitersSharedLock = IF req[id].mode = "excl" THEN s ELSE Append(s, id)
      /\ E.waitersLockIDs = L.waitersLockIDs \cup {id}
  BY <1>1 DEF Enqueue, LockQueues
<1>3. E \in LockQueues
  <2>1. Append(x, id) \in Seq(Ids) /\ Append(s, id) \in Seq(Ids)
    BY <1>1
  <2>2. L.waitersLockIDs \cup {id} \in SUBSET Ids
    BY <1>1, FieldsOfQueues
  <2> QED BY <1>1, <2>1, <2>2 DEF Enqueue, LockQueues
<1>4. id \notin ToSet(x) /\ id \notin ToSet(s)
  BY DEF GoodQueues
<1>5. CASE req[id].mode = "excl"
  <2>1. ToSet(Append(x, id)) = ToSet(x) \cup {id} /\ IsInjective(Append(x, id))
    BY <1>1, <1>4, ToSetAppend, InjectiveAppend DEF GoodQueues, Queue
  <2> QED BY <1>2, <1>3, <1>5, <2>1 DEF GoodQueues, Queue
<1>6. CASE req[id].mode # "excl"
  <2>1. ToSet(Append(s, id)) = ToSet(s) \cup {id} /\ IsInjective(Append(s, id))
    BY <1>1, <1>4, ToSetAppend, InjectiveAppend DEF GoodQueues, Queue
  <2>2. req[id].mode = "shared"
    BY <1>6 DEF Modes
  <2> QED BY <1>2, <1>3, <1>6, <2>1, <2>2 DEF GoodQueues, Queue
<1> QED BY <1>2, <1>5, <1>6

\* flockEntryCancelByHandle and flockEntryGenericCancelByClientID
LEMMA CancelGood ==
  ASSUME NEW L, GoodQueues(L), NEW S
  PROVE  GoodQueues(Cancel(L, S)) /\ Cancel(L, S).sharedLocks \subseteq L.sharedLocks
<1> DEFINE x == L.waitersExclLock
           s == L.waitersSharedLock
           C == Cancel(L, S)
<1>1. x \in Seq(Ids) /\ s \in Seq(Ids) /\ L \in LockQueues /\ L.waitersLockIDs = ToSet(x) \cup ToSet(s)
  BY DEF GoodQueues, LockQueues
<1>2. /\ Without(x, S) \in Seq(Ids)
      /\ ToSet(Without(x, S)) = {id \in ToSet(x) : Owner(id) \notin S}
      /\ IsInjective(x) => IsInjective(Without(x, S))
  BY <1>1, DequeuedElements DEF Without
<1>3. /\ Without(s, S) \in Seq(Ids)
      /\ ToSet(Without(s, S)) = {id \in ToSet(s) : Owner(id) \notin S}
      /\ IsInjective(s) => IsInjective(Without(s, S))
  BY <1>1, DequeuedElements DEF Without
<1>4. C \in LockQueues
  BY <1>1, <1>2, <1>3 DEF Cancel, LockQueues
<1>5. /\ C.waitersExclLock = Without(x, S) /\ C.waitersSharedLock = Without(s, S)
      /\ C.waitersLockIDs = {id \in ToSet(x) \cup ToSet(s) : Owner(id) \notin S}
      /\ C.sharedLocks \subseteq L.sharedLocks
  BY <1>1 DEF Cancel, LockQueues
<1> QED BY <1>2, <1>3, <1>4, <1>5 DEF GoodQueues, Queue

\* flockEntryTryNextWaiters keeps the queues in order, leaves no waiter behind that
\* could be served, and grants to readers only if no writer waits.
LEMMA NextWaitersGood ==
  ASSUME NEW L, GoodQueues(L), req \in Seq([handle : Handles, mode : Modes, wait : BOOLEAN])
  PROVE  /\ GoodQueues(TryNextWaiters(L)) /\ Served(TryNextWaiters(L))
         /\ ToSet(NextWaiters(L)) \in SUBSET Ids
         /\ \/ TryNextWaiters(L).sharedLocks = L.sharedLocks
            \/ TryNextWaiters(L).waitersExclLock = <<>>
         /\ L.waitersExclLock = <<>> => TryNextWaiters(L).waitersExclLock = <<>>
<1> DEFINE x == L.waitersExclLock
           s == L.waitersSharedLock
           N == TryNextWaiters(L)
<1>1. /\ x \in Seq(Ids) /\ s \in Seq(Ids) /\ L \in LockQueues
      /\ L.waitersLockIDs = ToSet(x) \cup ToSet(s)
      /\ Queue(x, "excl") /\ Queue(s, "shared")
  BY DEF GoodQueues, LockQueues
<1>2. \A id \in DOMAIN req : Owner(id) \in Handles
  BY RequestType
<1>3. ToSet(<<>>) = {} /\ <<>> \in Seq(Ids) /\ IsInjective(<<>>)
  BY EmptyIsQueue
<1>4. x # <<>> => /\ Head(x) \in ToSet(x) /\ ToSet(<<Head(x)>>) = {Head(x)}
                  /\ Tail(x) \in Seq(Ids) /\ IsInjective(Tail(x))
                  /\ ToSet(Tail(x)) = ToSet(x) \ {Head(x)}
  <2> SUFFICES ASSUME x # <<>> PROVE /\ Head(x) \in ToSet(x) /\ ToSet(<<Head(x)>>) = {Head(x)}
                                     /\ Tail(x) \in Seq(Ids) /\ IsInjective(Tail(x))
                                     /\ ToSet(Tail(x)) = ToSet(x) \ {Head(x)}
    OBVIOUS
  <2>1. /\ Head(x) \in Ids /\ Head(x) \in ToSet(x) /\ Tail(x) \in Seq(Ids)
        /\ ToSet(x) = ToSet(Tail(x)) \cup {Head(x)}
        /\ IsInjective(x) => IsInjective(Tail(x)) /\ Head(x) \notin ToSet(Tail(x))
    BY <1>1, ToSetTail
  <2>2. ToSet(<<Head(x)>>) = {Head(x)}
    BY ToSetSingle
  <2> QED BY <1>1, <2>1, <2>2 DEF Queue
<1>5. ToSet(x) \subseteq Ids /\ ToSet(s) \subseteq Ids
  BY <1>1 DEF LockQueues
<1>6. NoHandle \notin Handles
  BY ClientsAssumption
<1>7. CASE ToSet(NextWaiters(L)) = {}
  <2>1. N = L
    BY <1>7 DEF TryNextWaiters
  <2>2. L.exclLock # NoHandle \/ (x = <<>> /\ s = <<>>)
    BY <1>1, <1>4, <1>7, EmptyQueue DEF NextWaiters
  <2> QED BY <1>7, <2>1, <2>2 DEF Served
<1>8. CASE ToSet(NextWaiters(L)) # {} /\ x = <<>>
  <2>1. L.exclLock = NoHandle /\ NextWaiters(L) = s
    BY <1>3, <1>8 DEF NextWaiters
  <2>2. {Owner(id) : id \in ToSet(s)} \subseteq Handles
    BY <1>1, <1>2 DEF Queue
  <2>3. /\ N.waitersExclLock = <<>> /\ N.waitersSharedLock = <<>>
        /\ N.waitersLockIDs = L.waitersLockIDs \ ToSet(s)
        /\ N \in LockQueues
    BY <1>1, <1>3, <1>8, <2>1, <2>2 DEF TryNextWaiters, LockQueues
  <2>4. N.waitersLockIDs = {}
    BY <1>1, <1>3, <1>8, <2>3
  <2> QED BY <1>1, <1>3, <1>5, <2>1, <2>3, <2>4 DEF GoodQueues, Queue, Served
<1>9. CASE ToSet(NextWaiters(L)) # {} /\ x # <<>>
  <2>1. L.exclLock = NoHandle /\ NextWaiters(L) = <<Head(x)>>
    BY <1>3, <1>9 DEF NextWaiters
  <2>2. Owner(Head(x)) \in Handles
    BY <1>1, <1>2, <1>4, <1>9 DEF Queue
  <2>3. /\ N.exclLock = Owner(Head(x)) /\ N.sharedLocks = L.sharedLocks
        /\ N.waitersExclLock = Tail(x) /\ N.waitersSharedLock = s
        /\ N.waitersLockIDs = L.waitersLockIDs \ {Head(x)}
        /\ N \in LockQueues
    BY <1>1, <1>4, <1>9, <2>1, <2>2 DEF TryNextWaiters, LockQueues
  <2>4. Head(x) \notin ToSet(s)
    BY <1>4, <1>9, QueuesApart
  <2>5. N.waitersLockIDs = ToSet(Tail(x)) \cup ToSet(s)
    BY <1>1, <1>4, <1>9, <2>3, <2>4
  <2>6. Queue(Tail(x), "excl")
    BY <1>1, <1>4, <1>9 DEF Queue
  <2>7. GoodQueues(N)
    BY <1>1, <2>3, <2>5, <2>6 DEF GoodQueues
  <2>8. Served(N)
    BY <1>6, <2>2, <2>3 DEF Served
  <2> QED BY <1>4, <1>5, <1>9, <2>1, <2>3, <2>7, <2>8
<1> QED BY <1>7, <1>8, <1>9

-----------------------------------------------------------------------------
(* What a step does to the queues and to the works                         *)

\* WriterPreference of one step
NoReaderPasses ==
  lockQs'.sharedLocks \subseteq lockQs.sharedLocks \/ lockQs'.waitersExclLock = <<>>

\* A step that leaves the lock queues and the requests alone
LEMMA QueuesStay ==
  ASSUME IInv, UNCHANGED <<lockQs, req>>
  PROVE  GoodQueues(lockQs)' /\ Served(lockQs)' /\ NoReaderPasses
BY DEF IInv, GoodQueues, Queue, Served, NoReaderPasses

\* A step after which no other handle is in a call
LEMMA CallsStay ==
  ASSUME IInv, UNCHANGED req, \A h \in Handles : Calling(h)' => Calling(h)
  PROVE  RequestsInv'
BY DEF IInv, RequestsInv, Used, Owner

\* A work without a grant to tell of is not made.
LEMMA NotifyType ==
  ASSUME TypeOK, NEW q, ToSet(q) \in SUBSET Ids, Notify(q)
  PROVE  works' \in Seq(Works)
<1>1. [state |-> "send", todo |-> ToSet(q), many |-> FALSE] \in Works
  BY DEF Works
<1>2. works \in Seq(Works)
  BY DEF TypeOK
<1>3. Append(works, [state |-> "send", todo |-> ToSet(q), many |-> FALSE]) \in Seq(Works)
  BY <1>1, <1>2
<1> QED BY <1>2, <1>3 DEF Notify

\* The new queues are served if something was released, else as before.
LEMMA InstallGood ==
  ASSUME TypeOK, UNCHANGED req, NEW L, GoodQueues(L), NEW released \in BOOLEAN,
         ~released => Served(L), NEW tell \in BOOLEAN, Install(L, released, tell)
  PROVE  /\ GoodQueues(lockQs)' /\ Served(lockQs)' /\ works' \in Seq(Works)
         /\ lockQs'.sharedLocks \subseteq L.sharedLocks \/ lockQs'.waitersExclLock = <<>>
         /\ L.waitersExclLock = <<>> => lockQs'.waitersExclLock = <<>>
<1>1. /\ GoodQueues(TryNextWaiters(L)) /\ Served(TryNextWaiters(L))
      /\ ToSet(NextWaiters(L)) \in SUBSET Ids
      /\ \/ TryNextWaiters(L).sharedLocks = L.sharedLocks
         \/ TryNextWaiters(L).waitersExclLock = <<>>
      /\ L.waitersExclLock = <<>> => TryNextWaiters(L).waitersExclLock = <<>>
  BY NextWaitersGood DEF TypeOK
<1>2. works \in Seq(Works)
  BY DEF TypeOK
<1>3. CASE released
  <2>1. lockQs' = TryNextWaiters(L)
    BY <1>3 DEF Install
  <2>2. works' \in Seq(Works)
    BY <1>1, <1>2, <1>3, NotifyType DEF Install
  <2> HIDE DEF TryNextWaiters
  <2> QED BY <1>1, <2>1, <2>2 DEF GoodQueues, Queue, Served
<1>4. CASE ~released
  <2>1. lockQs' = L /\ works' = works
    BY <1>4 DEF Install
  <2> QED BY <1>2, <1>4, <2>1 DEF GoodQueues, Queue, Served
<1> QED BY <1>3, <1>4

\* The request of a handle that has made one
LEMMA CurrentFact ==
  ASSUME TypeOK, NEW h, Used(h)
  PROVE  Current(h) \in DOMAIN req /\ Owner(Current(h)) = h
<1> DEFINE S == {id \in 1..Len(req) : Owner(id) = h}
<1>1. DOMAIN req = 1..Len(req) /\ Len(req) \in Nat
  BY SeqElements DEF TypeOK
<1>2. PICK n \in S : \A m \in S : m <= n
  <2>1. S \in SUBSET Nat /\ S # {} /\ \A m \in S : m <= Len(req)
    BY <1>1 DEF Used
  <2> HIDE DEF S
  <2> QED BY <1>1, <2>1, GreatestNat
<1>3. \A later \in (n + 1)..Len(req) : Owner(later) # h
  <2> SUFFICES ASSUME NEW later \in (n + 1)..Len(req), Owner(later) = h PROVE FALSE
    OBVIOUS
  <2>1. later \in S /\ ~(later <= n)
    BY <1>1
  <2> QED BY <1>2, <2>1
<1>4. /\ Current(h) \in 1..Len(req)
      /\ Owner(Current(h)) = h
      /\ \A later \in (Current(h) + 1)..Len(req) : Owner(later) # h
  BY <1>2, <1>3 DEF Current
<1> QED BY <1>1, <1>4

-----------------------------------------------------------------------------
(* The actions                                                             *)

\* flockEntryUnlocked
LEMMA LockRequestGood ==
  ASSUME IInv, UNCHANGED req, NEW id \in DOMAIN req, LockRequest(id)
  PROVE  /\ GoodQueues(lockQs)' /\ Served(lockQs)' /\ works' \in Seq(Works)
         /\ answer' \in [Handles -> {"none", "SUCCESS", "WOULDBLOCK"}]
         /\ NoReaderPasses
<1> DEFINE h == Owner(id)
           conflicts == CheckConflicts(lockQs, id)
           proceeds == ~conflicts \/ req[id].wait
           unlocked == IF proceeds THEN Unlock(lockQs, h) ELSE lockQs
           L == IF ~conflicts THEN Grant(unlocked, id)
                ELSE IF req[id].wait THEN Enqueue(unlocked, id) ELSE unlocked
           released == proceeds /\ Holds(lockQs, h)
<1>1. /\ TypeOK /\ GoodQueues(lockQs) /\ Served(lockQs) /\ lockQs \in LockQueues
      /\ works \in Seq(Works) /\ answer \in [Handles -> {"none", "SUCCESS", "WOULDBLOCK"}]
  BY DEF IInv, TypeOK
<1>2. h \in Handles /\ req[id].mode \in Modes /\ req[id].wait \in BOOLEAN /\ id \in Ids
  <2>1. Owner(id) \in Handles /\ req[id].mode \in Modes /\ req[id].wait \in BOOLEAN
    BY <1>1, RequestType DEF TypeOK
  <2>2. DOMAIN req = 1..Len(req) /\ Len(req) \in Nat
    BY <1>1, SeqElements DEF TypeOK
  <2>3. id \in Ids
    BY <2>2, BoundAssumption DEF IInv, RequestsInv, Ids
  <2> QED BY <2>1, <2>3
<1>3. answer' \in [Handles -> {"none", "SUCCESS", "WOULDBLOCK"}]
  BY <1>1, <1>2 DEF LockRequest
<1>4. CASE id \in lockQs.waitersLockIDs \/ IsGranted(lockQs, id)
  <2>1. lockQs' = lockQs /\ works' = works
    BY <1>4 DEF LockRequest
  <2> QED BY <1>1, <1>3, <2>1, QueuesStay
<1>5. CASE id \notin lockQs.waitersLockIDs /\ ~IsGranted(lockQs, id)
  <2>1. Install(L, released, TRUE)
    BY <1>5 DEF LockRequest
  <2>2. /\ GoodQueues(unlocked) /\ unlocked.sharedLocks \subseteq lockQs.sharedLocks
        /\ unlocked.waitersExclLock = lockQs.waitersExclLock
        /\ unlocked.waitersLockIDs = lockQs.waitersLockIDs
    BY <1>1, UnlockGood
  <2>3. ~released => unlocked = lockQs
    BY <1>1, <1>2, UnlockNothing
  <2>a. released \in BOOLEAN /\ TRUE \in BOOLEAN
    BY Zenon
  <2> HIDE DEF unlocked, h
  <2>4. CASE ~conflicts
    <3>1. L = Grant(unlocked, id)
      BY <2>4
    <3>2. /\ GoodQueues(L)
          /\ ~released => Served(L)
          /\ L.waitersExclLock = lockQs.waitersExclLock
          /\ req[id].mode = "excl" => L.sharedLocks \subseteq lockQs.sharedLocks
      BY <1>1, <1>2, <2>2, <2>3, <3>1, GrantGood DEF h
    <3>3. req[id].mode = "shared" => L.waitersExclLock = <<>>
      BY <2>4, <3>2 DEF CheckConflicts
    <3> HIDE DEF L, released
    <3>4. /\ GoodQueues(lockQs)' /\ Served(lockQs)' /\ works' \in Seq(Works)
          /\ lockQs'.sharedLocks \subseteq L.sharedLocks \/ lockQs'.waitersExclLock = <<>>
          /\ L.waitersExclLock = <<>> => lockQs'.waitersExclLock = <<>>
      BY <1>1, <2>1, <2>a, <3>2, InstallGood
    <3>5. NoReaderPasses
      BY <1>2, <3>2, <3>3, <3>4 DEF NoReaderPasses, Modes
    <3> QED BY <1>3, <3>4, <3>5
  <2>5. CASE conflicts /\ req[id].wait
    <3>1. L = Enqueue(unlocked, id)
      BY <2>5
    <3>2. /\ GoodQueues(L)
          /\ L.exclLock = unlocked.exclLock /\ L.sharedLocks = unlocked.sharedLocks
          /\ L.waitersExclLock = (IF req[id].mode = "excl"
               THEN Append(unlocked.waitersExclLock, id) ELSE unlocked.waitersExclLock)
          /\ L.waitersSharedLock = (IF req[id].mode = "excl"
               THEN unlocked.waitersSharedLock ELSE Append(unlocked.waitersSharedLock, id))
      BY <1>2, <1>5, <2>2, <3>1, EnqueueGood
    <3>3. ASSUME ~released PROVE Served(L)
      <4>1. unlocked = lockQs
        BY <2>3, <3>3
      <4>2. \/ L.exclLock # NoHandle
            \/ req[id].mode = "excl" /\ L.sharedLocks # {}
            \/ req[id].mode = "shared" /\ L.waitersExclLock # <<>>
        BY <2>5, <3>2, <4>1 DEF CheckConflicts
      <4>3. CASE req[id].mode = "excl"
        BY <1>1, <3>2, <4>1, <4>2, <4>3 DEF Served
      <4>4. CASE req[id].mode = "shared"
        BY <1>1, <3>2, <4>1, <4>2, <4>4 DEF Served
      <4> QED BY <1>2, <4>3, <4>4 DEF Modes
    <3> HIDE DEF L, released
    <3>4. /\ GoodQueues(lockQs)' /\ Served(lockQs)' /\ works' \in Seq(Works)
          /\ lockQs'.sharedLocks \subseteq L.sharedLocks \/ lockQs'.waitersExclLock = <<>>
      BY <1>1, <2>1, <2>a, <3>2, <3>3, InstallGood
    <3> QED BY <1>3, <2>2, <3>2, <3>4 DEF NoReaderPasses
  <2>6. CASE conflicts /\ ~req[id].wait
    <3>1. L = lockQs /\ ~released
      BY <2>6 DEF unlocked
    <3>2. lockQs' = lockQs /\ works' = works
      BY <2>1, <3>1 DEF Install
    <3> QED BY <1>1, <1>3, <3>2, QueuesStay
  <2> QED BY <1>2, <2>4, <2>5, <2>6
<1> QED BY <1>4, <1>5

\* The types of the clients' variables
ClientsOK ==
  /\ pc \in [Handles -> {"idle", "send", "resp", "wait", "timeout", "signal", "closed"}]
  /\ answer \in [Handles -> {"none", "SUCCESS", "WOULDBLOCK"}]
  /\ received \in [Handles -> BOOLEAN]
  /\ held \in [Handles -> Modes \cup {"none"}]

\* The parts of the invariant after a step that makes no new request
LEMMA Combine ==
  ASSUME IInv, UNCHANGED req, GoodQueues(lockQs)', Served(lockQs)', works' \in Seq(Works),
         ClientsOK', RequestsInv'
  PROVE  IInv'
<1>1. lockQs' \in LockQueues /\ LockQueues' = LockQueues
  BY DEF GoodQueues, LockQueues, Ids
<1>2. TypeOK'
  BY <1>1 DEF IInv, TypeOK, ClientsOK, Works, Ids
<1> QED BY <1>2 DEF IInv

\* A step of a client or of a work that leaves the queues alone
LEMMA CombineStay ==
  ASSUME IInv, UNCHANGED <<lockQs, req>>, works' \in Seq(Works), ClientsOK', RequestsInv'
  PROVE  IInv' /\ NoReaderPasses
<1>1. GoodQueues(lockQs)' /\ Served(lockQs)' /\ NoReaderPasses
  BY QueuesStay
<1> QED BY <1>1, Combine

\* A call that runs has made a request: the mode is one of the two.
LEMMA CurrentMode ==
  ASSUME IInv, NEW h \in Handles, Calling(h)
  PROVE  /\ Current(h) \in DOMAIN req /\ Owner(Current(h)) = h
         /\ req[Current(h)].mode \in Modes
<1>1. Current(h) \in DOMAIN req /\ Owner(Current(h)) = h
  BY CurrentFact DEF IInv, RequestsInv
<1>2. req[Current(h)].mode \in Modes
  BY <1>1, RequestType DEF IInv, TypeOK
<1> QED BY <1>1, <1>2

\* A new request: a new ID, in no queue yet.
LEMMA RequestStep ==
  ASSUME IInv, NEW h \in Handles, NEW mode \in Modes, NEW wait \in BOOLEAN,
         Request(h, mode, wait)
  PROVE  IInv' /\ NoReaderPasses
<1> DEFINE new == [handle |-> h, mode |-> mode, wait |-> wait]
           R == [handle : Handles, mode : Modes, wait : BOOLEAN]
<1>1. new \in R /\ req \in Seq(R)
  BY DEF IInv, TypeOK
<1>2. req' = Append(req, new) /\ lockQs' = lockQs /\ works' = works
  BY DEF Request
<1> HIDE DEF R, new
<1>3. /\ req' \in Seq(R) /\ Len(req') = Len(req) + 1 /\ Len(req) \in Nat
      /\ DOMAIN req = 1..Len(req) /\ DOMAIN req' = 1..(Len(req) + 1)
      /\ \A id \in DOMAIN req : req'[id] = req[id]
      /\ req'[Len(req) + 1] = new
  BY <1>1, <1>2
<1>4. TypeOK'
  BY <1>2, <1>3 DEF IInv, TypeOK, Request, R, LockQueues, Works, Ids
<1>5. GoodQueues(lockQs)' /\ Served(lockQs)' /\ NoReaderPasses
  <2>1. \A id \in DOMAIN req : id \in DOMAIN req' /\ req'[id].mode = req[id].mode
    BY <1>3
  <2> QED BY <1>2, <2>1 DEF IInv, GoodQueues, Queue, Served, NoReaderPasses, LockQueues, Ids
<1>6. Len(req') <= MaxRequests
  BY <1>3, BoundAssumption DEF Request
<1>7. ASSUME NEW g \in Handles, Calling(g)' PROVE Used(g)'
  <2>1. CASE g = h
    <3>1. Len(req) + 1 \in 1..Len(req') /\ req'[Len(req) + 1].handle = h
      BY <1>3 DEF new
    <3> QED BY <2>1, <3>1 DEF Used, Owner
  <2>2. CASE g # h
    <3>1. Calling(g)
      BY <1>7, <2>2 DEF Request, Calling, IInv, TypeOK
    <3>2. PICK id \in 1..Len(req) : Owner(id) = g
      BY <3>1 DEF IInv, RequestsInv, Used
    <3>3. id \in 1..Len(req') /\ req'[id] = req[id]
      BY <1>3
    <3> QED BY <3>2, <3>3 DEF Used, Owner
  <2> QED BY <2>1, <2>2
<1> QED BY <1>4, <1>5, <1>6, <1>7 DEF IInv, RequestsInv

\* FLockEntryMsgEx::executeLocally
LEMMA HandleRequestStep ==
  ASSUME IInv, NEW h \in Handles, HandleRequest(h)
  PROVE  IInv' /\ NoReaderPasses
<1>1. Calling(h)
  BY DEF HandleRequest, Calling
<1>2. Current(h) \in DOMAIN req
  BY <1>1, CurrentMode
<1>3. /\ GoodQueues(lockQs)' /\ Served(lockQs)' /\ works' \in Seq(Works)
      /\ answer' \in [Handles -> {"none", "SUCCESS", "WOULDBLOCK"}]
      /\ NoReaderPasses
  BY <1>2, LockRequestGood DEF HandleRequest
<1>4. ClientsOK'
  BY <1>3 DEF ClientsOK, HandleRequest, IInv, TypeOK
<1>5. RequestsInv'
  <2>1. \A g \in Handles : Calling(g)' => Calling(g)
    BY <1>1 DEF HandleRequest, Calling, IInv, TypeOK
  <2> QED BY <2>1, CallsStay DEF HandleRequest
<1> QED BY <1>3, <1>4, <1>5, Combine DEF HandleRequest

\* A call that returns with a lock or none
LEMMA ReturnStep ==
  ASSUME IInv, NEW h \in Handles, NEW lock \in Modes \cup {"none"}, Return(h, lock)
  PROVE  IInv' /\ NoReaderPasses
<1>1. ClientsOK' /\ works' \in Seq(Works)
  BY DEF ClientsOK, Return, IInv, TypeOK
<1>2. RequestsInv'
  <2>1. \A g \in Handles : Calling(g)' => Calling(g)
    BY DEF Return, Calling, IInv, TypeOK
  <2> QED BY <2>1, CallsStay DEF Return
<1> QED BY <1>1, <1>2, CombineStay DEF Return

\* A step within a call
LEMMA CallStep ==
  ASSUME IInv, NEW h \in Handles, Calling(h), UNCHANGED <<lockQs, works, req, answer, held>>,
         NEW at \in {"send", "wait", "timeout", "signal"}, pc' = [pc EXCEPT ![h] = at],
         received' \in [Handles -> BOOLEAN]
  PROVE  IInv' /\ NoReaderPasses
<1>1. ClientsOK' /\ works' \in Seq(Works)
  BY DEF ClientsOK, IInv, TypeOK
<1>2. RequestsInv'
  <2>1. \A g \in Handles : Calling(g)' => Calling(g)
    BY DEF Calling, IInv, TypeOK
  <2> QED BY <2>1, CallsStay
<1> QED BY <1>1, <1>2, CombineStay

\* The response ends the call or starts its wait.
LEMMA TakeResponseStep ==
  ASSUME IInv, NEW h \in Handles, TakeResponse(h)
  PROVE  IInv' /\ NoReaderPasses
<1>1. Calling(h)
  BY DEF TakeResponse, Calling
<1>2. CASE answer[h] = "WOULDBLOCK" /\ req[Current(h)].wait
  BY <1>1, <1>2, CallStep DEF TakeResponse, IInv, TypeOK
<1>3. CASE ~(answer[h] = "WOULDBLOCK" /\ req[Current(h)].wait)
  <2> DEFINE lock == IF answer[h] = "SUCCESS" THEN req[Current(h)].mode ELSE held[h]
  <2>1. Return(h, lock)
    BY <1>3 DEF TakeResponse
  <2>2. lock \in Modes \cup {"none"}
    BY <1>1, CurrentMode DEF IInv, TypeOK
  <2> HIDE DEF lock
  <2> QED BY <2>1, <2>2, ReturnStep
<1> QED BY <1>2, <1>3

\* A call that ends with the lock of its request or with none
LEMMA GrantStep ==
  ASSUME IInv, NEW h \in Handles, GrantSeen(h) \/ Interrupted(h) \/ RequestInterrupted(h)
  PROVE  IInv' /\ NoReaderPasses
<1>1. Calling(h)
  BY DEF GrantSeen, Interrupted, RequestInterrupted, Calling
<1>2. req[Current(h)].mode \in Modes \cup {"none"} /\ "none" \in Modes \cup {"none"}
  BY <1>1, CurrentMode
<1>3. Return(h, req[Current(h)].mode) \/ Return(h, "none")
  BY DEF GrantSeen, Interrupted, RequestInterrupted
<1> QED BY <1>2, <1>3, ReturnStep

\* A wait that ends without a grant
LEMMA WaitEndsStep ==
  ASSUME IInv, NEW h \in Handles, NEW how \in {"timeout", "signal"}, WaitEnds(h, how)
  PROVE  IInv' /\ NoReaderPasses
<1>1. Calling(h)
  BY DEF WaitEnds, Calling
<1> QED BY <1>1, CallStep DEF WaitEnds, IInv, TypeOK

\* The request is sent again.
LEMMA ResendStep ==
  ASSUME IInv, NEW h \in Handles, Resend(h)
  PROVE  IInv' /\ NoReaderPasses
<1>1. Calling(h)
  BY DEF Resend, Calling
<1> QED BY <1>1, CallStep DEF Resend, IInv, TypeOK

\* An unlock by the process
LEMMA UnlockEntryStep ==
  ASSUME IInv, NEW h \in Handles, UnlockEntry(h)
  PROVE  IInv' /\ NoReaderPasses
<1> DEFINE L == Unlock(lockQs, h)
           released == Holds(lockQs, h)
<1>1. GoodQueues(L) /\ L.sharedLocks \subseteq lockQs.sharedLocks
  BY UnlockGood DEF IInv
<1>2. ~released => Served(L)
  BY UnlockNothing DEF IInv, TypeOK
<1>3. Install(L, released, TRUE) /\ req' = req
  BY DEF UnlockEntry
<1>4. released \in BOOLEAN /\ TRUE \in BOOLEAN
  BY Zenon DEF Holds
<1> HIDE DEF L, released
<1>5. /\ GoodQueues(lockQs)' /\ Served(lockQs)' /\ works' \in Seq(Works)
      /\ lockQs'.sharedLocks \subseteq L.sharedLocks \/ lockQs'.waitersExclLock = <<>>
  BY <1>1, <1>2, <1>3, <1>4, InstallGood DEF IInv
<1>6. ClientsOK'
  BY DEF ClientsOK, UnlockEntry, IInv, TypeOK
<1>7. RequestsInv'
  BY CallsStay DEF UnlockEntry, Calling
<1> QED BY <1>1, <1>3, <1>5, <1>6, <1>7, Combine DEF NoReaderPasses

\* The cancel of everything that the handles S hold or wait for
LEMMA CancelStep ==
  ASSUME IInv, UNCHANGED req, NEW S, NEW tell \in BOOLEAN,
         Install(Cancel(lockQs, S), Cancel(lockQs, S) # lockQs, tell)
  PROVE  GoodQueues(lockQs)' /\ Served(lockQs)' /\ works' \in Seq(Works) /\ NoReaderPasses
<1> DEFINE L == Cancel(lockQs, S)
           released == L # lockQs
<1>1. GoodQueues(L) /\ L.sharedLocks \subseteq lockQs.sharedLocks
  BY CancelGood DEF IInv
<1> HIDE DEF L
<1>2. ~released => Served(L)
  BY DEF IInv
<1>3. Install(L, released, tell)
  BY DEF L
<1>4. released \in BOOLEAN
  OBVIOUS
<1> HIDE DEF released
<1>5. /\ GoodQueues(lockQs)' /\ Served(lockQs)' /\ works' \in Seq(Works)
      /\ lockQs'.sharedLocks \subseteq L.sharedLocks \/ lockQs'.waitersExclLock = <<>>
  BY <1>1, <1>2, <1>3, <1>4, InstallGood DEF IInv
<1> QED BY <1>1, <1>5 DEF NoReaderPasses

\* releaseCancelLocks
LEMMA CloseStep ==
  ASSUME IInv, NEW h \in Handles, NEW session \in BOOLEAN, Close(h, session)
  PROVE  IInv' /\ NoReaderPasses
<1>1. GoodQueues(lockQs)' /\ Served(lockQs)' /\ works' \in Seq(Works) /\ NoReaderPasses
  BY CancelStep DEF Close
<1>2. ClientsOK'
  BY DEF ClientsOK, Close, IInv, TypeOK
<1>3. RequestsInv'
  <2>1. \A g \in Handles : Calling(g)' => Calling(g)
    BY DEF Close, Calling, IInv, TypeOK
  <2> QED BY <2>1, CallsStay DEF Close
<1> QED BY <1>1, <1>2, <1>3, Combine DEF Close

\* InternodeSyncer::syncClients
LEMMA RemoveClientStep ==
  ASSUME IInv, NEW c \in Clients, RemoveClient(c)
  PROVE  IInv' /\ NoReaderPasses
<1>1. GoodQueues(lockQs)' /\ Served(lockQs)' /\ works' \in Seq(Works) /\ NoReaderPasses
  BY CancelStep DEF RemoveClient
<1>2. ClientsOK'
  BY DEF ClientsOK, RemoveClient, IInv, TypeOK
<1>3. RequestsInv'
  <2>1. \A g \in Handles : Calling(g)' => Calling(g)
    BY DEF RemoveClient, Calling, IInv, TypeOK
  <2> QED BY <2>1, CallsStay DEF RemoveClient
<1> QED BY <1>1, <1>2, <1>3, Combine DEF RemoveClient

-----------------------------------------------------------------------------
(* The notification works                                                  *)

\* The fields of a work
LEMMA WorkType ==
  ASSUME TypeOK, NEW i \in DOMAIN works
  PROVE  /\ works \in Seq(Works) /\ works[i] \in Works
         /\ works[i] \in [state : {"send", "undo"}, todo : SUBSET Ids, many : BOOLEAN]
<1>1. works \in Seq(Works) /\ works[i] \in Works
  BY SeqElements DEF TypeOK
<1> QED BY <1>1 DEF Works

\* A step that changes the works only
LEMMA WorksOnly ==
  ASSUME IInv, works' \in Seq(Works), UNCHANGED <<lockQs, req, pc, answer, received, held>>
  PROVE  IInv' /\ NoReaderPasses
<1>1. ClientsOK'
  BY DEF ClientsOK, IInv, TypeOK
<1>2. RequestsInv'
  BY CallsStay DEF Calling
<1> QED BY <1>1, <1>2, CombineStay

\* A grant reaches its client, and the ack may reach the work.
LEMMA GrantArrivesStep ==
  ASSUME IInv, NEW i \in DOMAIN works, NEW id \in works[i].todo, NEW inTime \in BOOLEAN,
         GrantArrives(i, id, inTime)
  PROVE  IInv' /\ NoReaderPasses
<1> DEFINE w == [works[i] EXCEPT !.todo = @ \ {id}]
<1>1. works \in Seq(Works) /\ works[i] \in Works
  BY WorkType DEF IInv
<1>2. w \in Works
  BY <1>1 DEF Works, GrantArrives
<1>3. [works EXCEPT ![i] = w] \in Seq(Works)
  <2> HIDE DEF w
  <2> QED BY <1>1, <1>2, SeqExcept
<1>4. works' \in Seq(Works)
  BY <1>1, <1>3 DEF GrantArrives
<1>5. ClientsOK'
  BY DEF ClientsOK, GrantArrives, IInv, TypeOK
<1>6. RequestsInv'
  BY CallsStay DEF GrantArrives, Calling
<1> QED BY <1>4, <1>5, <1>6, CombineStay DEF GrantArrives

\* The work goes on to take back the locks without an ack, if there are any.
LEMMA WorkEndsStep ==
  ASSUME IInv, NEW i \in DOMAIN works, WorkEnds(i)
  PROVE  IInv' /\ NoReaderPasses
<1> DEFINE more == Cardinality(works[i].todo) > 1
           w == [works[i] EXCEPT !.state = "undo", !.many = more]
<1>1. /\ works \in Seq(Works) /\ works[i] \in Works
      /\ works[i] \in [state : {"send", "undo"}, todo : SUBSET Ids, many : BOOLEAN]
  BY WorkType DEF IInv
<1>2. CASE works[i].todo = {}
  <2>1. works' = RemoveAt(works, i)
    BY <1>2 DEF WorkEnds
  <2>2. works' \in Seq(Works)
    BY <1>1, <2>1, RemoveAtType
  <2> QED BY <2>2, WorksOnly DEF WorkEnds
<1>3. CASE works[i].todo # {}
  <2>1. more \in BOOLEAN
    OBVIOUS
  <2>2. works' = [works EXCEPT ![i] = w]
    BY <1>3 DEF WorkEnds
  <2> HIDE DEF more
  <2>3. w \in Works
    BY <1>1, <1>3, <2>1 DEF Works
  <2> HIDE DEF w
  <2>4. works' \in Seq(Works)
    BY <1>1, <2>2, <2>3, SeqExcept
  <2> QED BY <2>4, WorksOnly DEF WorkEnds
<1> QED BY <1>2, <1>3

\* unlockWaiter
LEMMA UnlockWaiterStep ==
  ASSUME IInv, NEW i \in DOMAIN works, NEW id \in works[i].todo, UnlockWaiter(i, id)
  PROVE  IInv' /\ NoReaderPasses
<1> DEFINE w == [works[i] EXCEPT !.todo = @ \ {id}]
           L == Unlock(lockQs, Owner(id))
<1>1. /\ works \in Seq(Works) /\ works[i] \in Works
      /\ works[i] \in [state : {"send", "undo"}, todo : SUBSET Ids, many : BOOLEAN]
  BY WorkType DEF IInv
<1>2. works' \in Seq(Works)
  <2>1. CASE works[i].todo = {id} /\ ~works[i].many
    <3>1. works' = RemoveAt(works, i)
      BY <2>1 DEF UnlockWaiter
    <3> QED BY <1>1, <3>1, RemoveAtType
  <2>2. CASE ~(works[i].todo = {id} /\ ~works[i].many)
    <3>1. works' = [works EXCEPT ![i] = w]
      BY <2>2 DEF UnlockWaiter
    <3>2. w \in Works
      BY <1>1, <2>2 DEF Works
    <3> HIDE DEF w
    <3> QED BY <1>1, <3>1, <3>2, SeqExcept
  <2> QED BY <2>1, <2>2
<1>3. ClientsOK'
  BY DEF ClientsOK, UnlockWaiter, IInv, TypeOK
<1>4. RequestsInv' /\ req' = req
  BY CallsStay DEF UnlockWaiter, Calling
<1>5. GoodQueues(L) /\ L.sharedLocks \subseteq lockQs.sharedLocks
  BY UnlockGood DEF IInv
<1>6. CASE Holds(lockQs, Owner(id))
  <2>1. lockQs' = TryNextWaiters(L)
    BY <1>6 DEF UnlockWaiter
  <2> HIDE DEF L
  <2>2. /\ GoodQueues(TryNextWaiters(L)) /\ Served(TryNextWaiters(L))
        /\ \/ TryNextWaiters(L).sharedLocks = L.sharedLocks
           \/ TryNextWaiters(L).waitersExclLock = <<>>
    BY <1>5, NextWaitersGood DEF IInv, TypeOK
  <2>3. GoodQueues(lockQs)' /\ Served(lockQs)'
    BY <1>4, <2>1, <2>2 DEF GoodQueues, Queue, Served, LockQueues, Ids
  <2> QED BY <1>2, <1>3, <1>4, <1>5, <2>1, <2>2, <2>3, Combine DEF NoReaderPasses
<1>7. CASE ~Holds(lockQs, Owner(id))
  <2>1. lockQs' = lockQs
    BY <1>7 DEF UnlockWaiter
  <2> QED BY <1>2, <1>3, <1>4, <2>1, CombineStay
<1> QED BY <1>6, <1>7

\* cancelAllWaiters
LEMMA CancelAllWaitersStep ==
  ASSUME IInv, NEW i \in DOMAIN works, CancelAllWaiters(i)
  PROVE  IInv' /\ NoReaderPasses
<1>1. works' \in Seq(Works)
  BY WorkType, RemoveAtType DEF CancelAllWaiters, IInv
<1>2. ClientsOK'
  BY DEF ClientsOK, CancelAllWaiters, IInv, TypeOK
<1>3. RequestsInv' /\ req' = req
  BY CallsStay DEF CancelAllWaiters, Calling
<1>4. <<>> \in Seq(Ids) /\ ToSet(<<>>) = {} /\ IsInjective(<<>>)
  BY EmptyIsQueue
<1>5. /\ lockQs' \in LockQueues /\ lockQs'.waitersExclLock = <<>>
      /\ lockQs'.waitersSharedLock = <<>> /\ lockQs'.waitersLockIDs = {}
  BY <1>4 DEF CancelAllWaiters, IInv, TypeOK, LockQueues
<1>6. GoodQueues(lockQs)' /\ Served(lockQs)' /\ NoReaderPasses
  BY <1>4, <1>5 DEF GoodQueues, Queue, Served, NoReaderPasses, LockQueues, Ids
<1> QED BY <1>1, <1>2, <1>3, <1>6, Combine

-----------------------------------------------------------------------------
(* Theorems                                                                *)

\* The invariant holds in the initial state.
LEMMA InitIInv == Init => IInv
<1> SUFFICES ASSUME Init PROVE IInv
  OBVIOUS
<1>1. <<>> \in Seq(Ids) /\ ToSet(<<>>) = {} /\ IsInjective(<<>>)
  BY EmptyIsQueue
<1>2. works \in Seq(Works) /\ req \in Seq([handle : Handles, mode : Modes, wait : BOOLEAN])
  BY DEF Init
<1>3. lockQs \in LockQueues
  BY <1>1 DEF Init, LockQueues
<1>4. TypeOK
  BY <1>2, <1>3 DEF Init, TypeOK
<1>5. GoodQueues(lockQs) /\ Served(lockQs)
  BY <1>1, <1>3 DEF Init, GoodQueues, Queue, Served
<1>6. RequestsInv
  <2>1. Len(req) = 0
    BY DEF Init
  <2> QED BY <2>1, BoundAssumption DEF Init, RequestsInv, Calling
<1> QED BY <1>4, <1>5, <1>6 DEF IInv

\* Every step keeps the invariant and lets no reader pass a waiting writer.
LEMMA NextIInv == IInv /\ [Next]_vars => IInv' /\ NoReaderPasses
<1> SUFFICES ASSUME IInv, [Next]_vars PROVE IInv' /\ NoReaderPasses
  OBVIOUS
<1>1. CASE UNCHANGED vars
  <2>1. works' \in Seq(Works) /\ ClientsOK'
    BY <1>1 DEF vars, IInv, TypeOK, ClientsOK
  <2>2. RequestsInv'
    BY <1>1, CallsStay DEF vars, Calling
  <2> QED BY <1>1, <2>1, <2>2, CombineStay DEF vars
<1>2. ASSUME NEW h \in Handles, NEW mode \in Modes, NEW wait \in BOOLEAN, Request(h, mode, wait)
      PROVE  IInv' /\ NoReaderPasses
  BY <1>2, RequestStep
<1>3. ASSUME NEW h \in Handles, Call(h) PROVE IInv' /\ NoReaderPasses
  BY <1>3, HandleRequestStep, TakeResponseStep, GrantStep, WaitEndsStep, ResendStep DEF Call
<1>4. ASSUME NEW h \in Handles, WaitEnds(h, "signal") PROVE IInv' /\ NoReaderPasses
  BY <1>4, WaitEndsStep
<1>5. ASSUME NEW h \in Handles, RequestInterrupted(h) PROVE IInv' /\ NoReaderPasses
  BY <1>5, GrantStep
<1>6. ASSUME NEW h \in Handles, UnlockEntry(h) PROVE IInv' /\ NoReaderPasses
  BY <1>6, UnlockEntryStep
<1>7. ASSUME NEW h \in Handles, NEW session \in BOOLEAN, Close(h, session)
      PROVE  IInv' /\ NoReaderPasses
  BY <1>7, CloseStep
<1>8. ASSUME NEW c \in Clients, RemoveClient(c) PROVE IInv' /\ NoReaderPasses
  BY <1>8, RemoveClientStep
<1>9. ASSUME NEW i \in DOMAIN works, NEW id \in works[i].todo, NEW inTime \in BOOLEAN,
             GrantArrives(i, id, inTime)
      PROVE  IInv' /\ NoReaderPasses
  BY <1>9, GrantArrivesStep
<1>10. ASSUME NEW i \in DOMAIN works, Work(i) PROVE IInv' /\ NoReaderPasses
  BY <1>10, WorkEndsStep, UnlockWaiterStep, CancelAllWaitersStep DEF Work
<1> QED BY <1>1, <1>2, <1>3, <1>4, <1>5, <1>6, <1>7, <1>8, <1>9, <1>10 DEF Next

\* The invariant implies WaitersKnown.
LEMMA IInvWaiters == IInv => WaitersKnown
<1> SUFFICES ASSUME IInv PROVE WaitersKnown
  OBVIOUS
<1> DEFINE x == lockQs.waitersExclLock
           s == lockQs.waitersSharedLock
<1>1. /\ GoodQueues(lockQs) /\ x \in Seq(Ids) /\ s \in Seq(Ids)
      /\ IsInjective(x) /\ IsInjective(s) /\ lockQs.waitersLockIDs = ToSet(x) \cup ToSet(s)
  BY FieldsOfQueues DEF IInv, GoodQueues, Queue
<1>2. ToSet(x) \cap ToSet(s) = {}
  BY <1>1, QueuesApart
<1>3. WaitersKnown <=> ToSet(x \o s) = lockQs.waitersLockIDs /\ IsInjective(x \o s)
  BY DEF WaitersKnown
<1> HIDE DEF x, s
<1> QED BY <1>1, <1>2, <1>3, ToSetConcat

\* The states of the flock queues, of the notification works and of the clients have
\* their types, for any number of handles, clients and requests.
THEOREM TypeCorrect == Spec => []TypeOK
<1>1. IInv => TypeOK
  BY DEF IInv
<1>2. IInv /\ [Next]_vars => IInv'
  BY NextIInv
<1> QED BY <1>1, <1>2, InitIInv, PTL DEF Spec

\* waitersLockIDs always has exactly the IDs of the two queues, and no ID is queued
\* twice: FileInode keeps three containers consistent by hand in every lock, unlock,
\* cancel and grant.
THEOREM WaitersAlwaysKnown == Spec => []WaitersKnown
<1>1. IInv /\ [Next]_vars => IInv'
  BY NextIInv
<1> QED BY <1>1, InitIInv, IInvWaiters, PTL DEF Spec

\* No wake-up is lost in flockEntryTryNextWaiters: nobody waits for a lock that nothing
\* stands in the way of, after whatever sequence of unlocks, conversions, closes, removed
\* clients and grants taken back.
THEOREM NobodyWaitsNeedlessly == Spec => []NoNeedlessWait
<1>1. IInv => NoNeedlessWait
  BY DEF IInv, Served, NoNeedlessWait
<1>2. IInv /\ [Next]_vars => IInv'
  BY NextIInv
<1> QED BY <1>1, <1>2, InitIInv, PTL DEF Spec

\* No new reader gets the lock while a writer is left waiting (flockEntryCheckConflicts).
THEOREM WritersPreferred == Spec => WriterPreference
<1>1. IInv /\ [Next]_vars => IInv'
  BY NextIInv
<1>2. IInv /\ [Next]_vars =>
        [lockQs'.sharedLocks \subseteq lockQs.sharedLocks \/ lockQs'.waitersExclLock = <<>>]_vars
  BY NextIInv DEF NoReaderPasses
<1> QED BY <1>1, <1>2, InitIInv, PTL DEF Spec, WriterPreference
=============================================================================
