-------------------------- MODULE MirroredMessages --------------------------
(***************************************************************************)
(* Requests of one client to a mirrored group of two metadata servers      *)
(* (MirroredMessage.h): the primary executes a request, forwards it to the *)
(* secondary and answers. Requests carry sequence numbers, by which a      *)
(* server recognises a repeated request and answers it with the response   *)
(* stored in the client's session (Session.h). The client repeats a        *)
(* request with the same number until it is answered, at the new primary   *)
(* when the group has been switched (MessagingTk.c).                       *)
(*                                                                         *)
(* A primary that crashed and starts again has no slots. It waits to be    *)
(* replaced, but serves requests until it is marked offline.               *)
(*                                                                         *)
(* States and groups, once changed, are current everywhere: how they       *)
(* spread is in TargetStates and BuddyMirror. A request whose connection   *)
(* was closed before the server looked at its number is not handled any    *)
(* more. The locks of EntryLockStore are left out: requests do not depend  *)
(* on each other.                                                          *)
(***************************************************************************)
EXTENDS Naturals

CONSTANTS
  Threads,       \* threads of the client
  Requests,      \* what they ask for, each once
  MaxSequence,   \* bound: the largest sequence number
  MaxCrashes     \* bound: crashes of servers

ASSUME BoundsAssumption == MaxSequence \in Nat /\ MaxCrashes \in Nat
ASSUME RequestsAssumption == Requests # {}

VARIABLES
  \* client
  pc,            \* "idle", "acquire", "send" or "wait" of each thread
  request,       \* the request of each thread
  number,        \* the sequence number of each thread's message, 0 if it has none
  answer,        \* what the caller of each request was told
  sequence,      \* the largest number of the group so far
  finished,      \* finishedSeqNums
  body,          \* the request in the message with each number
  acks,          \* the numbers it acknowledges
  \* group
  primary,
  primaryState,  \* "up", "down", "waiting" to be offline after a crash, or "shunned"
  secondaryGood, \* the secondary is ONLINE and GOOD
  job,           \* the primary's latest resync job, "none" if it has failed
  \* servers
  slots,         \* mirrorProcessState of each server
  applied,       \* how often each server has executed each request successfully
  work,          \* where the primary is with the message with each number
  result,        \* what the primary's execution of it has returned
  mirror,        \* numbers of the forwarded messages in execution on each server
  crashes,
  \* history
  forgotten,     \* numbers whose slots the primary has lost in a crash
  exposed        \* requests that came again to a primary that had forgotten them, or
                 \* that a replaced primary was still working on

clientVars == <<pc, request, number, answer, sequence, finished, body, acks>>
groupVars == <<primary, primaryState, secondaryGood, job>>
workVars == <<work, result, mirror>>
crashVars == <<crashes, forgotten, exposed>>
vars == <<clientVars, groupVars, slots, applied, workVars, crashVars>>

Seqs == 2..MaxSequence
Servers == {1, 2}
secondary == 3 - primary

\* What executeLocally returns: done, refused (nothing has changed), or a
\* communication error with the storage servers.
Results == {"success", "failed", "indirect"}

\* A slot is not there, without a response, or holds a response. The secondary
\* stores the response to an AckNotifyMsg for a request that changed nothing.
SlotStates == {"none", "empty", "notified"} \cup Results

InFlight(n) == \E t \in Threads : number[t] = n

-----------------------------------------------------------------------------
(* The client: __MessagingTk_requestResponseNodeRetry                      *)

Init ==
  /\ pc = [t \in Threads |-> "idle"]
  /\ request = [t \in Threads |-> CHOOSE r \in Requests : TRUE]
  /\ number = [t \in Threads |-> 0]
  /\ answer = [r \in Requests |-> "none"]
  /\ sequence = 1
  /\ finished = {}
  /\ body = [n \in Seqs |-> CHOOSE r \in Requests : TRUE]
  /\ acks = [n \in Seqs |-> {}]
  /\ primary = 1
  /\ primaryState = "up"
  /\ secondaryGood = TRUE
  /\ job = "none"
  /\ slots = [s \in Servers |-> [n \in Seqs |-> "none"]]
  /\ applied = [s \in Servers |-> [r \in Requests |-> 0]]
  /\ work = [n \in Seqs |-> "none"]
  /\ result = [n \in Seqs |-> "failed"]
  /\ mirror = [s \in Servers |-> {}]
  /\ crashes = 0
  /\ forgotten = {}
  /\ exposed = {}

\* A system call makes a request.
Start(t, r) ==
  /\ pc[t] = "idle"
  /\ answer[r] = "none"
  /\ pc' = [pc EXCEPT ![t] = "acquire"]
  /\ request' = [request EXCEPT ![t] = r]
  /\ answer' = [answer EXCEPT ![r] = "pending"]
  /\ UNCHANGED <<number, sequence, finished, body, acks,
                 groupVars, slots, applied, workVars, crashVars>>

\* Mutant: the new number is acknowledged as well.
MutAllBelow == {m \in Seqs : m <= sequence + 1 /\ \A n \in Seqs : InFlight(n) => m < n}

\* The numbers below all numbers in flight, for a new number sequence + 1
AllBelow == {m \in Seqs : m <= sequence /\ \A n \in Seqs : InFlight(n) => m < n}

\* MirrorBuddyGroup_acquireSequenceNumber: the message acknowledges one finished
\* number, or all numbers below the smallest in flight. SequenceNumbers has the heap
\* and the ring buffer.
Acquire(t) ==
  /\ pc[t] = "acquire"
  /\ sequence < MaxSequence
  /\ sequence' = sequence + 1
  /\ pc' = [pc EXCEPT ![t] = "send"]
  /\ number' = [number EXCEPT ![t] = sequence + 1]
  /\ body' = [body EXCEPT ![sequence + 1] = request[t]]
  /\ \/ \E f \in finished : /\ acks' = [acks EXCEPT ![sequence + 1] = {f}]
                            /\ finished' = finished \ {f}
     \/ /\ finished = {}
        /\ acks' = [acks EXCEPT ![sequence + 1] = AllBelow]
        /\ UNCHANGED finished
  /\ UNCHANGED <<request, answer, groupVars, slots, applied, workVars, crashVars>>

\* The connection breaks or the response does not come in time: it is tried again
\* with the same number.
Timeout(t) ==
  /\ pc[t] = "wait"
  /\ pc' = [pc EXCEPT ![t] = "send"]
  /\ UNCHANGED <<request, number, answer, sequence, finished, body, acks,
                 groupVars, slots, applied, workVars, crashVars>>

\* The process is killed or no retry is left. The server may go on.
GiveUp(t) ==
  /\ pc[t] \in {"send", "wait"}
  /\ pc' = [pc EXCEPT ![t] = "idle"]
  /\ answer' = [answer EXCEPT ![request[t]] = "unknown"]
  /\ finished' = finished \cup {number[t]}
  /\ number' = [number EXCEPT ![t] = 0]
  /\ UNCHANGED <<request, sequence, body, acks,
                 groupVars, slots, applied, workVars, crashVars>>

\* The client gets a response: the caller is told, or the request is repeated with a
\* new number after an indirect communication error and after an AckNotifyResp.
TakeResponse(t, response) ==
  /\ finished' = finished \cup {number[t]}
  /\ number' = [number EXCEPT ![t] = 0]
  /\ IF response \in {"success", "failed"}
     THEN /\ pc' = [pc EXCEPT ![t] = "idle"]
          /\ answer' = [answer EXCEPT ![request[t]] = response]
     ELSE /\ pc' = [pc EXCEPT ![t] = "acquire"]
          /\ UNCHANGED answer
  /\ UNCHANGED <<request, sequence, body, acks>>

-----------------------------------------------------------------------------
(* The primary: MirroredMessage::processIncoming                           *)

\* acquireMirrorStateSlot, acquireMirrorStateSlotSelective: acknowledged slots are
\* erased, and a slot is there for the message's number.
AcquireSlot(s, n) ==
  slots' = [slots EXCEPT ![s] =
             [m \in Seqs |-> IF m = n /\ (m \in acks[n] \/ slots[s][m] = "none") THEN "empty"
                             ELSE IF m \in acks[n] THEN "none" ELSE slots[s][m]]]

IsNewState(s, n) == n \in acks[n] \/ slots[s][n] = "none"

\* Clients send to a primary that is ONLINE and GOOD for the management daemon, and
\* processIncoming does not look at the server's own state.
Serving == primaryState \in {"up", "waiting"}

\* A message reaches the server that is the primary now. A request with a new number is
\* executed, another is answered with the stored response or asked to come again.
ProcessIncoming(t) ==
  LET n == number[t]
      slot == slots[primary][n]
  IN /\ pc[t] = "send"
     /\ Serving
     /\ AcquireSlot(primary, n)
     /\ \/ /\ IsNewState(primary, n)
           /\ work' = [work EXCEPT ![n] = "new"]
           /\ pc' = [pc EXCEPT ![t] = "wait"]
           /\ UNCHANGED <<request, number, answer, sequence, finished, body, acks>>
        \/ /\ ~IsNewState(primary, n) /\ slot = "empty"
           /\ UNCHANGED <<clientVars, work>>
        \/ /\ ~IsNewState(primary, n) /\ slot # "empty"
           /\ TakeResponse(t, slot)
           /\ UNCHANGED work
     /\ exposed' = IF n \in forgotten THEN exposed \cup {request[t]} ELSE exposed
     /\ UNCHANGED <<groupVars, applied, result, mirror, crashes, forgotten>>

\* executeLocally
ExecuteLocally(n, res) ==
  /\ work[n] = "new"
  /\ work' = [work EXCEPT ![n] = "executed"]
  /\ result' = [result EXCEPT ![n] = res]
  /\ applied' = IF res = "success" THEN [applied EXCEPT ![primary][body[n]] = @ + 1] ELSE applied
  /\ UNCHANGED <<clientVars, groupVars, slots, mirror, crashVars>>

\* sendToSecondary up to the request: nothing is sent while a resync is running or,
\* unless the latest resync has succeeded, to a secondary that is not ONLINE and GOOD,
\* which is set to NEEDS_RESYNC.
SendToSecondary(n) ==
  /\ work[n] = "executed"
  /\ \/ /\ job # "running"
        /\ secondaryGood \/ job = "success"
        /\ work' = [work EXCEPT ![n] = "sent"]
        /\ UNCHANGED secondaryGood
     \/ /\ job = "running"
        /\ work' = [work EXCEPT ![n] = "forwarded"]
        /\ UNCHANGED secondaryGood
     \/ /\ job = "none"
        /\ work' = [work EXCEPT ![n] = "forwarded"]
        /\ secondaryGood' = FALSE
  /\ UNCHANGED <<clientVars, primary, primaryState, job, slots, applied, result, mirror, crashVars>>

\* The secondary's response is compared with the expected result.
CompareResponse(n, response) ==
  /\ work' = [work EXCEPT ![n] = "forwarded"]
  /\ secondaryGood' =
       (secondaryGood /\ response = IF result[n] = "success" THEN "success" ELSE "notified")

\* Mutant: the secondary is taken for GOOD although it may have missed the request.
MutForwardFails(n) ==
  /\ work[n] \in {"sent", "wait", "resent", "rewait"}
  /\ work' = [work EXCEPT ![n] = IF @ = "wait" THEN "resent" ELSE "forwarded"]
  /\ UNCHANGED <<clientVars, groupVars, slots, applied, result, mirror, crashVars>>

\* A communication error: the request to the secondary is repeated once
\* (requestResponseNode), then the secondary is set to NEEDS_RESYNC. A repetition of a
\* request that was not received makes no difference.
ForwardFails(n) ==
  /\ work[n] \in {"sent", "wait", "resent", "rewait"}
  /\ work' = [work EXCEPT ![n] = IF @ = "wait" THEN "resent" ELSE "forwarded"]
  /\ secondaryGood' = (secondaryGood /\ work[n] = "wait")
  /\ UNCHANGED <<clientVars, primary, primaryState, job, slots, applied, result, mirror, crashVars>>

\* Mutant: the response is sent but not stored.
MutFinishOperation(n) ==
  /\ work[n] = "forwarded"
  /\ work' = [work EXCEPT ![n] = "none"]
  /\ \/ \E t \in Threads : pc[t] = "wait" /\ number[t] = n /\ TakeResponse(t, result[n])
     \/ /\ \A t \in Threads : ~(pc[t] = "wait" /\ number[t] = n)
        /\ UNCHANGED clientVars
  /\ UNCHANGED <<groupVars, slots, applied, result, mirror, crashVars>>

\* finishOperation after forwarding: the response is stored and sent.
FinishOperation(n) ==
  /\ work[n] = "forwarded"
  /\ work' = [work EXCEPT ![n] = "none"]
  /\ slots' = [slots EXCEPT ![primary][n] = IF @ = "empty" THEN result[n] ELSE @]
  /\ \/ \E t \in Threads : pc[t] = "wait" /\ number[t] = n /\ TakeResponse(t, result[n])
     \/ /\ \A t \in Threads : ~(pc[t] = "wait" /\ number[t] = n)
        /\ UNCHANGED clientVars
  /\ UNCHANGED <<groupVars, applied, result, mirror, crashVars>>

-----------------------------------------------------------------------------
(* The secondary: processIncoming with Flag_BuddyMirrorSecond              *)

\* A forwarded message is executed, or answered from its slot when it was received
\* before. An empty slot asks for a retry, which the primary takes for an error.
MirrorIncoming(n) ==
  /\ work[n] \in {"sent", "resent"}
  /\ AcquireSlot(secondary, n)
  /\ \/ /\ IsNewState(secondary, n)
        /\ mirror' = [mirror EXCEPT ![secondary] = @ \cup {n}]
        /\ work' = [work EXCEPT ![n] = IF @ = "sent" THEN "wait" ELSE "rewait"]
        /\ UNCHANGED secondaryGood
     \/ /\ ~IsNewState(secondary, n)
        /\ CompareResponse(n, slots[secondary][n])
        /\ UNCHANGED mirror
  /\ UNCHANGED <<clientVars, primary, primaryState, job, applied, result, crashVars>>

\* executeLocally and finishOperation of a forwarded message: the response is stored,
\* and sent to the primary if it still waits for it. The server may have become the
\* primary itself.
MirrorExecute(s, n, res) ==
  /\ n \in mirror[s]
  /\ IF result[n] = "success" THEN res \in {"success", "failed"} ELSE res = "notified"
  /\ mirror' = [mirror EXCEPT ![s] = @ \ {n}]
  /\ applied' = IF res = "success" THEN [applied EXCEPT ![s][body[n]] = @ + 1] ELSE applied
  /\ slots' = [slots EXCEPT ![s][n] = IF @ = "empty" THEN res ELSE @]
  /\ IF s = secondary /\ work[n] \in {"wait", "rewait"}
     THEN CompareResponse(n, res)
     ELSE UNCHANGED <<work, secondaryGood>>
  /\ UNCHANGED <<clientVars, primary, primaryState, job, result, crashVars>>

-----------------------------------------------------------------------------
(* Crashes, switchover and resync                                          *)

NoSlots == [n \in Seqs |-> "none"]

\* The primary ends without saving its sessions.
PrimaryCrashes ==
  /\ crashes < MaxCrashes
  /\ primaryState # "down"
  /\ crashes' = crashes + 1
  /\ primaryState' = "down"
  /\ job' = "none"
  /\ slots' = [slots EXCEPT ![primary] = NoSlots]
  /\ work' = [n \in Seqs |-> "none"]
  /\ mirror' = [mirror EXCEPT ![primary] = {}]
  /\ forgotten' = forgotten \cup {n \in Seqs : slots[primary][n] # "none"}
  /\ UNCHANGED <<clientVars, primary, secondaryGood, applied, result, exposed>>

\* It is started again before it is replaced: there is no session file, so it needs a
\* resync, tells nobody and waits to be marked offline (App.cpp, NodeOfflineWait).
PrimaryRestarts ==
  /\ primaryState = "down"
  /\ primaryState' = "waiting"
  /\ UNCHANGED <<clientVars, primary, secondaryGood, job, slots, applied, workVars, crashVars>>

\* It is offline for the management daemon, or reports NEEDS_RESYNC after the wait, and
\* cannot be replaced: clients send nothing any more to the group.
MarkedOffline ==
  /\ primaryState = "waiting"
  /\ ~secondaryGood
  /\ primaryState' = "shunned"
  /\ UNCHANGED <<clientVars, primary, secondaryGood, job, slots, applied, workVars, crashVars>>

\* The management daemon hears nothing of the primary and makes an ONLINE and GOOD
\* secondary the primary. The old primary comes back, or goes on, as a secondary that
\* needs a resync. What it would still do with the requests it is working on is left
\* out.
Switchover ==
  /\ primaryState \in {"down", "waiting"}
  /\ secondaryGood
  /\ primary' = secondary
  /\ primaryState' = "up"
  /\ secondaryGood' = FALSE
  /\ work' = [n \in Seqs |-> "none"]
  /\ forgotten' = {}
  /\ exposed' = exposed \cup {body[n] : n \in {m \in Seqs : work[m] # "none"}}
  /\ UNCHANGED <<clientVars, job, slots, applied, result, mirror, crashes>>

\* The secondary ends without saving its sessions, and reports NEEDS_RESYNC when it is
\* back.
SecondaryCrashes ==
  /\ crashes < MaxCrashes
  /\ crashes' = crashes + 1
  /\ secondaryGood' = FALSE
  /\ slots' = [slots EXCEPT ![secondary] = NoSlots]
  /\ mirror' = [mirror EXCEPT ![secondary] = {}]
  /\ UNCHANGED <<clientVars, primary, primaryState, job, applied, work, result, forgotten, exposed>>

\* The workers of the primary wait at the barrier (stopAllWorkersOn).
WorkersStopped == mirror[primary] = {} /\ \A n \in Seqs : work[n] = "none"

\* checkBuddyNeedsResync: a primary that is GOOD itself resyncs its secondary.
BuddyNeedsResync == primaryState = "up" /\ ~secondaryGood

ResyncStarts ==
  /\ BuddyNeedsResync
  /\ job # "running"
  /\ WorkersStopped
  /\ job' = "running"
  /\ UNCHANGED <<clientVars, primary, primaryState, secondaryGood, slots, applied, workVars, crashVars>>

\* Mutant: the data is copied without the sessions.
MutResyncSucceeds ==
  /\ job = "running"
  /\ WorkersStopped
  /\ mirror[secondary] = {}
  /\ job' = "success"
  /\ secondaryGood' = TRUE
  /\ applied' = [applied EXCEPT ![secondary] = applied[primary]]
  /\ UNCHANGED <<clientVars, primary, primaryState, slots, workVars, crashVars>>

\* The secondary has all changes and gets the primary's sessions while the primary's
\* workers are stopped, which leaves no slot without a response. Sessions in use on the
\* secondary make the resync fail (SessionStore::clear).
ResyncSucceeds ==
  /\ job = "running"
  /\ WorkersStopped
  /\ mirror[secondary] = {}
  /\ job' = "success"
  /\ secondaryGood' = TRUE
  /\ applied' = [applied EXCEPT ![secondary] = applied[primary]]
  /\ slots' = [slots EXCEPT ![secondary] = slots[primary]]
  /\ UNCHANGED <<clientVars, primary, primaryState, workVars, crashVars>>

ResyncFails ==
  /\ job = "running"
  /\ job' = "none"
  /\ UNCHANGED <<clientVars, primary, primaryState, secondaryGood, slots, applied, workVars, crashVars>>

Client(t) ==
  \/ \E r \in Requests : Start(t, r)
  \/ Acquire(t) \/ Timeout(t) \/ GiveUp(t)

Server(n) ==
  \/ \E res \in Results : ExecuteLocally(n, res)
  \/ SendToSecondary(n) \/ ForwardFails(n) \/ FinishOperation(n) \/ MirrorIncoming(n)
  \/ \E s \in Servers, res \in SlotStates : MirrorExecute(s, n, res)

Resync == ResyncStarts \/ ResyncSucceeds \/ ResyncFails

Next ==
  \/ \E t \in Threads : Client(t) \/ ProcessIncoming(t)
  \/ \E n \in Seqs : Server(n)
  \/ PrimaryCrashes \/ PrimaryRestarts \/ MarkedOffline \/ Switchover
  \/ SecondaryCrashes \/ Resync

Spec == Init /\ [][Next]_vars

\* Clients retry and their requests reach the primary, a thread notices that its
\* connection is gone, servers go on with what they have begun, and the management
\* daemon replaces a primary when it can.
FairSpec ==
  /\ Spec
  /\ \A t \in Threads : WF_vars(Acquire(t)) /\ WF_vars(Timeout(t)) /\ WF_vars(ProcessIncoming(t))
  /\ \A n \in Seqs : WF_vars(Server(n))
  /\ WF_vars(Switchover)

-----------------------------------------------------------------------------
(* Properties                                                              *)

\* The variables have their types. A message acknowledges earlier numbers only.
TypeOK ==
  /\ pc \in [Threads -> {"idle", "acquire", "send", "wait"}]
  /\ request \in [Threads -> Requests]
  /\ number \in [Threads -> {0} \cup Seqs]
  /\ answer \in [Requests -> {"none", "pending", "success", "failed", "unknown"}]
  /\ sequence \in Nat /\ sequence >= 1
  /\ finished \subseteq Seqs
  /\ body \in [Seqs -> Requests]
  /\ acks \in [Seqs -> SUBSET Seqs] /\ \A n \in Seqs : \A m \in acks[n] : m < n
  /\ primary \in Servers
  /\ primaryState \in {"up", "down", "waiting", "shunned"}
  /\ secondaryGood \in BOOLEAN
  /\ job \in {"none", "running", "success"}
  /\ slots \in [Servers -> [Seqs -> SlotStates]]
  /\ applied \in [Servers -> [Requests -> Nat]]
  /\ work \in [Seqs -> {"none", "new", "executed", "sent", "wait", "resent", "rewait", "forwarded"}]
  /\ result \in [Seqs -> Results]
  /\ mirror \in [Servers -> SUBSET Seqs]
  /\ crashes \in Nat
  /\ forgotten \subseteq Seqs
  /\ exposed \subseteq Requests

\* Servers that serve requests or may do so after a switchover
Valid(s) == s = primary \/ secondaryGood

\* A request takes effect at most once on the primary and on a GOOD secondary, however
\* often it is sent, forwarded or repeated after a switchover, and whatever number it
\* is repeated with (MirroredMessage::processIncoming). Left out are a request given up,
\* whose number is acknowledged while servers still work on it, and one that is exposed:
\* a primary that lost its slots in a crash executes it again.
AppliedOnce ==
  \A s \in Servers, r \in Requests :
    Valid(s) /\ answer[r] # "unknown" /\ r \notin exposed => applied[s][r] <= 1

\* What a caller was told stays true, on the primary and on the server that would
\* take over: a request answered with success has had its effect, a refused one has
\* not and will not have it (MirroredMessage::finishOperation), unless it was exposed.
AnswersTrue ==
  \A s \in Servers, r \in Requests :
    Valid(s) /\ r \notin exposed =>
      /\ answer[r] = "success" => applied[s][r] = 1
      /\ answer[r] = "failed" => applied[s][r] = 0

\* No server of the group answers until an administrator does something.
NoServer == primaryState \in {"down", "shunned"} /\ ~secondaryGood

\* No request is asked to come again for ever: every thread returns to its caller
\* unless it needs a number beyond the bound or the group has no server left
\* (__MessagingTk_requestResponseNodeRetry, MirroredMessage::processIncoming).
RequestsReturn ==
  \A t \in Threads :
    pc[t] # "idle" ~>
      (pc[t] = "idle" \/ (pc[t] = "acquire" /\ sequence = MaxSequence) \/ NoServer)
=============================================================================
