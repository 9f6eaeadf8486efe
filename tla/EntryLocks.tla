----------------------------- MODULE EntryLocks -----------------------------
(***************************************************************************)
(* The flock locks of one file: the lock queues of the file's inode on its *)
(* metadata server (FileInode), the work that tells waiting clients of a   *)
(* grant by datagrams and takes the lock back when no acknowledgement      *)
(* comes (LockEntryNotificationWork), and the clients, which register for  *)
(* the grant, send their request, wait, and send it again every few        *)
(* seconds (FhgfsOpsRemoting). Append locks use the same queues with       *)
(* exclusive requests only.                                                *)
(*                                                                         *)
(* A handle is an open file of a client (clientNumID, clientFD), and makes *)
(* one request at a time. A lockAckID is the number of a request.          *)
(***************************************************************************)
EXTENDS Naturals, Sequences, FiniteSets, SequencesExt, Queues

CONSTANTS
  Handles,       \* open files
  Clients,       \* clients, each the set of its handles
  NoHandle,
  Lossy,         \* datagrams get lost and acks come too late
  MaxRequests    \* bound: lock requests of all handles

ASSUME ClientsAssumption == UNION Clients = Handles /\ NoHandle \notin Handles
ASSUME LossyAssumption == Lossy \in BOOLEAN
ASSUME BoundAssumption == MaxRequests \in Nat

VARIABLES
  lockQs,   \* the inode's EntryLockQueuesContainer
  works,    \* notification works, each with the grants it has no ack for
  req,      \* requests so far; a request's index is its lockAckID
  pc,       \* where each handle's call of flock is
  answer,   \* the response the server has sent to it
  received, \* its acknowledgement store has received the grant
  held      \* the lock each handle was told it holds

vars == <<lockQs, works, req, pc, answer, received, held>>

Modes == {"shared", "excl"}
Owner(id) == req[id].handle
\* Entry locks were used with this handle (FsFileInfo_setUsedEntryLocking).
Used(h) == \E id \in 1..Len(req) : Owner(id) = h
\* The request a handle is making or made last.
Current(h) == CHOOSE id \in 1..Len(req) :
                /\ Owner(id) = h
                /\ \A later \in (id + 1)..Len(req) : Owner(later) # h

-----------------------------------------------------------------------------
(* FileInode: operators on the lock queues L.                              *)

Holds(L, h) == L.exclLock = h \/ h \in L.sharedLocks

\* flockEntryIsGranted
IsGranted(L, id) ==
  IF req[id].mode = "excl" THEN L.exclLock = Owner(id) ELSE Owner(id) \in L.sharedLocks

\* Mutant: readers do not wait for waiting writers.
MutCheckConflicts(L, id) ==
  \/ L.exclLock \notin {NoHandle, Owner(id)}
  \/ req[id].mode = "excl" /\ L.sharedLocks \ {Owner(id)} # {}

\* flockEntryCheckConflicts: readers also wait for waiting writers.
CheckConflicts(L, id) ==
  \/ L.exclLock \notin {NoHandle, Owner(id)}
  \/ req[id].mode = "excl" /\ L.sharedLocks \ {Owner(id)} # {}
  \/ req[id].mode = "shared" /\ L.waitersExclLock # <<>>

\* flockEntryUnlock
Unlock(L, h) ==
  IF L.exclLock = h THEN [L EXCEPT !.exclLock = NoHandle]
                    ELSE [L EXCEPT !.sharedLocks = @ \ {h}]

\* flockEntryShared, flockEntryExclusive
Grant(L, id) ==
  IF req[id].mode = "excl" THEN [L EXCEPT !.exclLock = Owner(id)]
                           ELSE [L EXCEPT !.sharedLocks = @ \cup {Owner(id)}]

\* A request that has to wait, in its queue and among the IDs.
Enqueue(L, id) ==
  IF req[id].mode = "excl"
  THEN [L EXCEPT !.waitersExclLock = Append(@, id), !.waitersLockIDs = @ \cup {id}]
  ELSE [L EXCEPT !.waitersSharedLock = Append(@, id), !.waitersLockIDs = @ \cup {id}]

Without(q, S) == Dequeued(q, {id \in ToSet(q) : Owner(id) \in S})

\* Mutant: the IDs of cancelled waiters are kept.
MutCancel(L, S) ==
  [L EXCEPT !.exclLock = IF @ \in S THEN NoHandle ELSE @,
            !.sharedLocks = @ \ S,
            !.waitersExclLock = Without(@, S),
            !.waitersSharedLock = Without(@, S)]

\* flockEntryCancelByHandle and flockEntryGenericCancelByClientID: everything
\* that the handles S hold or wait for.
Cancel(L, S) ==
  [L EXCEPT !.exclLock = IF @ \in S THEN NoHandle ELSE @,
            !.sharedLocks = @ \ S,
            !.waitersExclLock = Without(@, S),
            !.waitersSharedLock = Without(@, S),
            !.waitersLockIDs = {id \in @ : Owner(id) \notin S}]

\* Mutant: readers wait for other readers.
MutNextWaiters(L) ==
  IF L.exclLock # NoHandle \/ (L.waitersExclLock = <<>> /\ L.sharedLocks # {}) THEN <<>>
  ELSE IF L.waitersExclLock = <<>> THEN L.waitersSharedLock
  ELSE <<Head(L.waitersExclLock)>>

\* The waiters that flockEntryTryNextWaiters grants: all readers if no writer
\* waits, otherwise the first writer.
NextWaiters(L) ==
  IF L.exclLock # NoHandle THEN <<>>
  ELSE IF L.waitersExclLock = <<>> THEN L.waitersSharedLock
  ELSE <<Head(L.waitersExclLock)>>

\* flockEntryTryNextWaiters: the granted waiters leave their queue.
TryNextWaiters(L) ==
  LET granted == ToSet(NextWaiters(L))
  IN IF granted = {} THEN L
     ELSE IF L.waitersExclLock = <<>>
     THEN [L EXCEPT !.sharedLocks = @ \cup {Owner(id) : id \in granted},
                    !.waitersSharedLock = <<>>, !.waitersLockIDs = @ \ granted]
     ELSE [L EXCEPT !.exclLock = Owner(Head(L.waitersExclLock)),
                    !.waitersExclLock = Tail(@), !.waitersLockIDs = @ \ granted]

-----------------------------------------------------------------------------
(* The notification work of the granted waiters, if there are any.         *)
Notify(granted) ==
  works' = IF granted = <<>> THEN works
           ELSE Append(works, [state |-> "send", todo |-> ToSet(granted), many |-> FALSE])

\* The locks become L; when something was released the next waiters follow.
\* Their clients are told only by a caller that uses the notify list.
Install(L, released, tell) ==
  IF released
  THEN /\ lockQs' = TryNextWaiters(L)
       /\ IF tell THEN Notify(NextWaiters(L)) ELSE UNCHANGED works
  ELSE lockQs' = L /\ UNCHANGED works

\* flockEntryUnlocked for a lock request: the answer, and the new queues.
LockRequest(id) ==
  LET h == Owner(id)
      conflicts == CheckConflicts(lockQs, id)
      proceeds == ~conflicts \/ req[id].wait
      unlocked == IF proceeds THEN Unlock(lockQs, h) ELSE lockQs
  IN IF id \in lockQs.waitersLockIDs
     THEN answer' = [answer EXCEPT ![h] = "WOULDBLOCK"] /\ UNCHANGED <<lockQs, works>>
     ELSE IF IsGranted(lockQs, id)
     THEN answer' = [answer EXCEPT ![h] = "SUCCESS"] /\ UNCHANGED <<lockQs, works>>
     ELSE /\ answer' = [answer EXCEPT ![h] = IF conflicts THEN "WOULDBLOCK" ELSE "SUCCESS"]
          /\ Install(IF ~conflicts THEN Grant(unlocked, id)
                     ELSE IF req[id].wait THEN Enqueue(unlocked, id) ELSE unlocked,
                     proceeds /\ Holds(lockQs, h), TRUE)

\* FLockEntryMsgEx::executeLocally for the request a client has sent.
HandleRequest(h) ==
  /\ pc[h] = "send"
  /\ LockRequest(Current(h))
  /\ pc' = [pc EXCEPT ![h] = "resp"]
  /\ UNCHANGED <<req, received, held>>

-----------------------------------------------------------------------------
(* Clients: FhgfsOpsRemoting_flockEntryEx and flockGenericEx.              *)

Init ==
  /\ lockQs = [exclLock |-> NoHandle, sharedLocks |-> {}, waitersExclLock |-> <<>>,
               waitersSharedLock |-> <<>>, waitersLockIDs |-> {}]
  /\ works = <<>>
  /\ req = <<>>
  /\ pc = [h \in Handles |-> "idle"]
  /\ answer = [h \in Handles |-> "none"]
  /\ received = [h \in Handles |-> FALSE]
  /\ held = [h \in Handles |-> "none"]

\* A process calls flock: the wait for the grant is registered and the request
\* sent. A request that may wait gives up the lock it converts.
Request(h, mode, wait) ==
  /\ pc[h] = "idle"
  /\ held[h] # mode
  /\ Len(req) < MaxRequests
  /\ req' = Append(req, [handle |-> h, mode |-> mode, wait |-> wait])
  /\ pc' = [pc EXCEPT ![h] = "send"]
  /\ received' = [received EXCEPT ![h] = FALSE]
  /\ held' = [held EXCEPT ![h] = IF wait THEN "none" ELSE @]
  /\ UNCHANGED <<lockQs, works, answer>>

\* The call returns to the process, which may take it that it has this lock.
Return(h, lock) ==
  /\ pc' = [pc EXCEPT ![h] = "idle"]
  /\ received' = [received EXCEPT ![h] = FALSE]
  /\ answer' = [answer EXCEPT ![h] = "none"]
  /\ held' = [held EXCEPT ![h] = lock]
  /\ UNCHANGED <<lockQs, works, req>>

\* The response ends the call, unless the lock may be waited for.
TakeResponse(h) ==
  /\ pc[h] = "resp"
  /\ IF answer[h] = "WOULDBLOCK" /\ req[Current(h)].wait
     THEN /\ pc' = [pc EXCEPT ![h] = "wait"]
          /\ UNCHANGED <<lockQs, works, req, answer, received, held>>
     ELSE Return(h, IF answer[h] = "SUCCESS" THEN req[Current(h)].mode ELSE held[h])

\* waitForAckCompletion sees the grant.
GrantSeen(h) ==
  /\ pc[h] = "wait"
  /\ received[h]
  /\ Return(h, req[Current(h)].mode)

\* The wait ends by a signal or by its timeout; the grant may still arrive before
\* the wait is unregistered.
WaitEnds(h, how) ==
  /\ pc[h] = "wait"
  /\ ~received[h]
  /\ pc' = [pc EXCEPT ![h] = how]
  /\ UNCHANGED <<lockQs, works, req, answer, received, held>>

\* After unregistering, a grant counts only for an interrupted call.
Interrupted(h) ==
  /\ pc[h] = "signal"
  /\ Return(h, IF received[h] THEN req[Current(h)].mode ELSE "none")

\* Mutant: the call waits on without sending again.
MutResend(h) ==
  /\ pc[h] = "timeout"
  /\ pc' = [pc EXCEPT ![h] = "wait"]
  /\ UNCHANGED <<lockQs, works, req, answer, received, held>>

\* The request is sent again under the same ID.
Resend(h) ==
  /\ pc[h] = "timeout"
  /\ pc' = [pc EXCEPT ![h] = "send"]
  /\ received' = [received EXCEPT ![h] = FALSE]
  /\ UNCHANGED <<lockQs, works, req, answer, held>>

\* The call is interrupted while it waits for the response to a request that the
\* server has handled.
RequestInterrupted(h) ==
  /\ pc[h] = "resp"
  /\ Return(h, IF received[h] THEN req[Current(h)].mode ELSE "none")

\* The process unlocks what it holds.
UnlockEntry(h) ==
  /\ pc[h] = "idle"
  /\ held[h] # "none"
  /\ held' = [held EXCEPT ![h] = "none"]
  /\ Install(Unlock(lockQs, h), Holds(lockQs, h), TRUE)
  /\ UNCHANGED <<req, pc, answer, received>>

\* releaseCancelLocks at close. Without a session file (the file was closed
\* already and the cancel repeated later) nobody is notified.
Close(h, session) ==
  /\ pc[h] = "idle"
  /\ Used(h)
  /\ pc' = [pc EXCEPT ![h] = "closed"]
  /\ held' = [held EXCEPT ![h] = "none"]
  /\ Install(Cancel(lockQs, {h}), Cancel(lockQs, {h}) # lockQs, session)
  /\ UNCHANGED <<req, answer, received>>

\* InternodeSyncer::syncClients: a client that is gone loses its sessions.
RemoveClient(c) ==
  /\ \E h \in c : Used(h) /\ pc[h] # "closed"
  /\ pc' = [h \in Handles |-> IF h \in c THEN "closed" ELSE pc[h]]
  /\ answer' = [h \in Handles |-> IF h \in c THEN "none" ELSE answer[h]]
  /\ received' = [h \in Handles |-> h \notin c /\ received[h]]
  /\ held' = [h \in Handles |-> IF h \in c THEN "none" ELSE held[h]]
  /\ Install(Cancel(lockQs, c), Cancel(lockQs, c) # lockQs, TRUE)
  /\ UNCHANGED req

-----------------------------------------------------------------------------
(* LockEntryNotificationWork::process                                      *)

\* A grant reaches its client while the work runs. The client takes and
\* acknowledges it only if a wait for this ID is registered; the ack may come too
\* late for the work.
Registered(id) ==
  /\ pc[Owner(id)] \in {"send", "resp", "wait", "timeout", "signal"}
  /\ Current(Owner(id)) = id
  /\ ~received[Owner(id)]

GrantArrives(i, id, inTime) ==
  /\ works[i].state = "send"
  /\ id \in works[i].todo
  /\ Registered(id)
  /\ received' = [received EXCEPT ![Owner(id)] = TRUE]
  /\ inTime \/ Lossy
  /\ works' = IF inTime THEN [works EXCEPT ![i].todo = @ \ {id}] ELSE works
  /\ UNCHANGED <<lockQs, req, pc, answer, held>>

\* All acks have come, or the retries are used up: those of a client that waits
\* only if datagrams get lost.
WorkEnds(i) ==
  /\ works[i].state = "send"
  /\ Lossy \/ \A id \in works[i].todo : ~Registered(id)
  /\ works' = IF works[i].todo = {} THEN RemoveAt(works, i)
              ELSE [works EXCEPT ![i].state = "undo", ![i].many = Cardinality(works[i].todo) > 1]
  /\ UNCHANGED <<lockQs, req, pc, answer, received, held>>

\* Mutant: the work is kept when nothing is left to do.
MutUnlockWaiter(i, id) ==
  /\ works[i].state = "undo"
  /\ id \in works[i].todo
  /\ lockQs' = IF Holds(lockQs, Owner(id)) THEN TryNextWaiters(Unlock(lockQs, Owner(id)))
               ELSE lockQs
  /\ works' = [works EXCEPT ![i].todo = @ \ {id}]
  /\ UNCHANGED <<req, pc, answer, received, held>>

\* unlockWaiter: a lock without an ack is taken back. The waiters this grants are
\* not notified.
UnlockWaiter(i, id) ==
  /\ works[i].state = "undo"
  /\ id \in works[i].todo
  /\ lockQs' = IF Holds(lockQs, Owner(id)) THEN TryNextWaiters(Unlock(lockQs, Owner(id)))
               ELSE lockQs
  /\ works' = IF works[i].todo = {id} /\ ~works[i].many THEN RemoveAt(works, i)
              ELSE [works EXCEPT ![i].todo = @ \ {id}]
  /\ UNCHANGED <<req, pc, answer, received, held>>

\* cancelAllWaiters, when several acks were missing
CancelAllWaiters(i) ==
  /\ works[i].state = "undo"
  /\ works[i].todo = {}
  /\ lockQs' = [lockQs EXCEPT !.waitersExclLock = <<>>, !.waitersSharedLock = <<>>,
                              !.waitersLockIDs = {}]
  /\ works' = RemoveAt(works, i)
  /\ UNCHANGED <<req, pc, answer, received, held>>

-----------------------------------------------------------------------------
Call(h) == \/ HandleRequest(h)
           \/ TakeResponse(h)
           \/ GrantSeen(h)
           \/ WaitEnds(h, "timeout")
           \/ Interrupted(h)
           \/ Resend(h)

Work(i) == \/ WorkEnds(i)
           \/ \E id \in works[i].todo : UnlockWaiter(i, id)
           \/ CancelAllWaiters(i)

Next ==
  \/ \E h \in Handles :
       \/ \E mode \in Modes, wait \in BOOLEAN : Request(h, mode, wait)
       \/ Call(h)
       \/ WaitEnds(h, "signal")
       \/ RequestInterrupted(h)
       \/ UnlockEntry(h)
       \/ \E session \in BOOLEAN : Close(h, session)
  \/ \E c \in Clients : RemoveClient(c)
  \/ \E i \in DOMAIN works :
       \/ \E id \in works[i].todo, inTime \in BOOLEAN : GrantArrives(i, id, inTime)
       \/ Work(i)

Spec == Init /\ [][Next]_vars

\* Threads of server and clients go on, and processes release their locks and
\* close their files. Nothing is assumed of datagrams.
FairSpec ==
  /\ Spec
  /\ \A h \in Handles : WF_vars(Call(h)) /\ WF_vars(UnlockEntry(h) \/ Close(h, TRUE))
  /\ WF_vars(\E i \in DOMAIN works : Work(i))

-----------------------------------------------------------------------------
(* Properties                                                              *)

Ids == 1..MaxRequests
LockQueues == [exclLock : Handles \cup {NoHandle}, sharedLocks : SUBSET Handles,
               waitersExclLock : Seq(Ids), waitersSharedLock : Seq(Ids),
               waitersLockIDs : SUBSET Ids]
Works == {w \in [state : {"send", "undo"}, todo : SUBSET Ids, many : BOOLEAN] :
            w.state = "undo" /\ w.todo = {} => w.many}

\* The variables have their types; a work that has taken back all locks is left
\* only to cancel the waiters.
TypeOK ==
  /\ lockQs \in LockQueues
  /\ works \in Seq(Works)
  /\ req \in Seq([handle : Handles, mode : Modes, wait : BOOLEAN])
  /\ pc \in [Handles -> {"idle", "send", "resp", "wait", "timeout", "signal", "closed"}]
  /\ answer \in [Handles -> {"none", "SUCCESS", "WOULDBLOCK"}]
  /\ received \in [Handles -> BOOLEAN]
  /\ held \in [Handles -> Modes \cup {"none"}]

\* waitersLockIDs, by which flockEntryUnlocked tells a repeated request from a new
\* one, has exactly the IDs in the two queues, and no ID is queued twice: else a
\* waiter would repeat its request for ever, or be granted twice.
WaitersKnown ==
  LET q == lockQs.waitersExclLock \o lockQs.waitersSharedLock
  IN ToSet(q) = lockQs.waitersLockIDs /\ IsInjective(q)

\* No wake-up is lost: a writer waits only beside a holder, a reader only beside
\* a writer that holds or waits, whatever unlocks, closes, conversions, removed
\* clients and missing acks came before (flockEntryTryNextWaiters).
NoNeedlessWait ==
  /\ lockQs.waitersExclLock # <<>> => lockQs.exclLock # NoHandle \/ lockQs.sharedLocks # {}
  /\ lockQs.waitersSharedLock # <<>> => lockQs.exclLock # NoHandle \/ lockQs.waitersExclLock # <<>>

\* "we have writer preference" (flockEntryCheckConflicts): no new reader gets in
\* while a writer is left waiting.
WriterPreference ==
  [][lockQs'.sharedLocks \subseteq lockQs.sharedLocks \/ lockQs'.waitersExclLock = <<>>]_vars

Calling(h) == pc[h] \notin {"idle", "closed"}
\* A handle holds a lock and waits: a request that an interrupted call has left in
\* the queue was granted beside its next one.
SelfBlocked == \E id \in lockQs.waitersLockIDs : Holds(lockQs, Owner(id))

\* Every call of flock returns, although grants and acks get lost, notify lists
\* are dropped and all waiters are cancelled: requests are repeated. Only a
\* handle's own abandoned request can be in the way.
CallsReturn == \A h \in Handles : Calling(h) ~> ~Calling(h) \/ SelfBlocked

\* "no exclusive and no shared locks set => we can grant an exclusive lock"
\* (flockEntryTryNextWaiters): an exclusive lock is the only one.
ExclusiveAlone == lockQs.exclLock # NoHandle => lockQs.sharedLocks \subseteq {lockQs.exclLock}

\* "we send a ack repsonse to lock-grants only if someone was still registered
\* to wait for the lock-grant. (we do this to make our handling of interrupts
\* during lock waits easier, because we don't need lock canceling now.)"
\* (LockGrantedMsgEx): a handle that was told it has the exclusive lock has it.
HeldIsHeld ==
  \A h \in Handles : pc[h] = "idle" /\ held[h] = "excl" => lockQs.exclLock = h
=============================================================================
