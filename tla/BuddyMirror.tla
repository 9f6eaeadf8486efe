---------------------------- MODULE BuddyMirror ----------------------------
(***************************************************************************)
(* Storage mirroring of one buddy group: two storage servers with one      *)
(* target each, and the management daemon (Mgmtd). A server forwards the   *)
(* writes it gets as primary, remembers on disk that its buddy needs a     *)
(* resync (StorageTarget), downloads states and groups and publishes its   *)
(* own state (InternodeSyncer), and copies its chunks to a buddy that      *)
(* needs it (BuddyResyncJob). Requests to the daemon and to the buddy can  *)
(* be lost, and servers crash, stop and start.                             *)
(*                                                                         *)
(* A write is to a chunk of its own, so a target's data is the set of      *)
(* writes it holds.                                                        *)
(***************************************************************************)
EXTENDS Naturals

CONSTANTS
  A, B,           \* the targets: A is the configured primary
  Group,          \* the buddy group
  Writes,         \* client writes
  FaultKinds,     \* kinds of faults that happen
  MaxFaults       \* bound: how many faults happen

ASSUME TargetsDiffer == A # B

\* A server crashes or is stopped; a request to the daemon or its answer is
\* lost; a download of states fails; the buddy does not answer; a disk fails
\* during a resync; an administrator aborts a resync.
AllFaults == {"crash", "stop", "request", "download", "buddy", "disk", "abort"}

ASSUME FaultsAssumption == FaultKinds \subseteq AllFaults /\ MaxFaults \in Nat

Targets == {A, B}
Other(t) == IF t = A THEN B ELSE A

\* The function that maps t to x
Only(t, x) == [u \in {t} |-> x]

VARIABLES
  reach, cons, primary, found,   \* the management daemon's
  srv,       \* "down", "starting" or "up"
  session,   \* the session file of a clean shutdown exists
  local,     \* consistencyState
  wait,      \* offlineTimeoutEnd is set and not reached
  flag,      \* buddyNeedsResyncFile: subset of {"required", "unacked"}
  retry,     \* setBuddyNeedsResyncEntry is queued
  view,      \* the server's TargetStateStore and MirrorBuddyGroupMapper
  open,      \* some session has the chunk files open
  pc,        \* where the InternodeSyncer is in its update
  got,       \* the states and groups it downloaded
  new,       \* the state it is going to publish
  job,       \* where the BuddyResyncJob is
  todo,      \* chunks it still has to copy
  errs,      \* a copy failed
  wasOffline,\* targetWasOffline
  data,      \* chunks on disk
  wpc,       \* progress of each write
  wsrv,      \* the server that works on it
  wlock,     \* its chunk is locked
  acked,     \* writes reported as successful to the client
  client,    \* the target clients take for the usable primary, if any
  faults     \* faults so far

D == INSTANCE Mgmtd WITH Groups <- {Group}, First <- Only(Group, A), Second <- Only(Group, B)

mgmtdVars == <<reach, cons, primary, found>>
flagVars  == <<flag, retry>>
syncVars  == <<view, pc, got, new>>
jobVars   == <<job, todo, errs, wasOffline>>
writeVars == <<wpc, wsrv, wlock, acked>>
vars == <<mgmtdVars, srv, session, local, wait, flagVars, syncVars, open, jobVars,
          data, writeVars, client, faults>>

View == [reach : [Targets -> D!Reachability], cons : [Targets -> D!Consistency],
         primary : Targets]

\* What a server that is down or idle has downloaded: nothing.
Blank == [reach |-> [u \in Targets |-> "POFFLINE"], cons |-> [u \in Targets |-> "GOOD"],
          primary |-> A]

TypeOK ==
  /\ reach \in [Targets -> D!Reachability]
  /\ cons \in [Targets -> D!Consistency]
  /\ primary \in [{Group} -> Targets]
  /\ found \subseteq {Group}
  /\ srv \in [Targets -> {"down", "starting", "up"}]
  /\ session \in [Targets -> BOOLEAN]
  /\ local \in [Targets -> D!Consistency]
  /\ wait \in [Targets -> BOOLEAN]
  /\ flag \in [Targets -> SUBSET {"required", "unacked"}]
  /\ retry \in [Targets -> BOOLEAN]
  /\ view \in [Targets -> View]
  /\ open \in [Targets -> BOOLEAN]
  /\ pc \in [Targets -> {"idle", "got", "decide", "publish", "check"}]
  /\ got \in [Targets -> View]
  /\ new \in [Targets -> D!Consistency]
  /\ job \in [Targets -> {"none", "barrier", "copy", "set", "informGood", "informBad"}]
  /\ todo \in [Targets -> SUBSET Writes]
  /\ errs \in [Targets -> BOOLEAN]
  /\ wasOffline \in [Targets -> BOOLEAN]
  /\ data \in [Targets -> SUBSET Writes]
  /\ wpc \in [Writes -> {"idle", "solo", "sent", "mirrored", "written", "done"}]
  /\ wsrv \in [Writes -> Targets]
  /\ wlock \in [Writes -> BOOLEAN]
  /\ acked \subseteq Writes
  /\ client \in {{}, {A}, {B}}
  /\ faults \in 0 .. MaxFaults

-----------------------------------------------------------------------------
(* A request to the management daemon: it is answered ("ok"), or no answer *)
(* arrives although it was handled ("unanswered") or because it was lost.  *)

Outcomes == {"ok", "unanswered", "lost"}

Fault(kind) == kind \in FaultKinds /\ faults < MaxFaults /\ faults' = faults + 1

Pays(o) == IF o = "ok" THEN UNCHANGED faults ELSE Fault("request")

\* The buddy of t does not answer: it is down, or the message or answer is lost.
BuddySilent(t) ==
  \/ srv[Other(t)] # "up" /\ UNCHANGED faults
  \/ srv[Other(t)] = "up" /\ Fault("buddy")

Snapshot == [reach |-> reach, cons |-> cons, primary |-> primary[Group]]

\* What the server's mapper says of its own target.
IsPrimary(t) == view[t].primary = t

\* StorageTarget::setBuddyNeedsResyncComm on flags f. A target that is not
\* primary sends nothing and queues no retry.
SetBuddyNeedsResyncComm(t, f, o) ==
  IF "unacked" \notin f \/ ~IsPrimary(t)
  THEN /\ o = "ok"
       /\ flag' = [flag EXCEPT ![t] = f]
       /\ retry' = [retry EXCEPT ![t] = FALSE]
       /\ UNCHANGED mgmtdVars
  ELSE /\ IF o = "lost" THEN UNCHANGED mgmtdVars
          ELSE D!SetTargetConsistencyStates(
                 Only(Other(t), IF "required" \in f THEN "NEEDS_RESYNC" ELSE "GOOD"), FALSE)
       /\ flag' = [flag EXCEPT ![t] = IF o = "ok" THEN f \ {"unacked"} ELSE f]
       /\ retry' = [retry EXCEPT ![t] = o # "ok"]

\* StorageTarget::setBuddyNeedsResync: a pending needs-resync is not repeated.
SetBuddyNeedsResync(t, needsResync, o) ==
  IF needsResync /\ "required" \in flag[t]
  THEN o = "ok" /\ UNCHANGED <<flagVars, mgmtdVars>>
  ELSE SetBuddyNeedsResyncComm(t, {"unacked"} \cup (IF needsResync THEN {"required"} ELSE {}), o)

\* The timer entry.
RetrySetBuddyNeedsResyncComm(t, o) ==
  /\ srv[t] = "up"
  /\ retry[t]
  /\ SetBuddyNeedsResyncComm(t, flag[t], o)
  /\ Pays(o)
  /\ UNCHANGED <<srv, session, local, wait, syncVars, open, jobVars, data, writeVars, client>>

-----------------------------------------------------------------------------
(* The InternodeSyncer: download, decide, publish, check.                  *)

DownloadStatesAndBuddyGroups(t) ==
  /\ srv[t] = "up"
  /\ pc[t] = "idle"
  /\ got' = [got EXCEPT ![t] = Snapshot]
  /\ pc' = [pc EXCEPT ![t] = "got"]
  /\ UNCHANGED <<mgmtdVars, srv, session, local, wait, flagVars, view, new, open,
                 jobVars, data, writeVars, faults, client>>

DownloadFails(t) ==
  /\ srv[t] = "up"
  /\ pc[t] = "idle"
  /\ view' = [view EXCEPT ![t].reach = [u \in Targets |-> "POFFLINE"]]
  /\ Fault("download")
  /\ UNCHANGED <<mgmtdVars, srv, session, local, wait, flagVars, pc, got, new, open,
                 jobVars, data, writeVars, client>>

\* StorageTargets::decideResync for a target of a mirror group.
DecideResync(old, waiting, clean, fromMgmtd) ==
  CASE old = "BAD" -> "BAD"
    [] old # "BAD" /\ (\/ waiting
                       \/ old = "NEEDS_RESYNC"
                       \/ ~clean
                       \/ fromMgmtd \in {"NEEDS_RESYNC", "BAD"}) -> "NEEDS_RESYNC"
    [] OTHER -> "GOOD"

\* The downloaded states and groups become visible. Before, jobs of OFFLINE
\* targets are told about it: a job belongs to the local target it copies from.
SyncStatesAndGroups(t) ==
  /\ srv[t] = "up"
  /\ pc[t] = "got"
  /\ wasOffline' = [wasOffline EXCEPT
       ![t] = @ \/ (job[t] # "none" /\ got[t].reach[t] = "OFFLINE")]
  /\ view' = [view EXCEPT ![t] = got[t]]
  /\ pc' = [pc EXCEPT ![t] = "decide"]
  /\ UNCHANGED <<mgmtdVars, srv, session, local, wait, flagVars, got, new, open, job,
                 todo, errs, data, writeVars, faults, client>>

\* The own state is decided. A BAD target publishes what it downloaded.
Decide(t) ==
  /\ srv[t] = "up"
  /\ pc[t] = "decide"
  /\ LET decided == DecideResync(local[t], wait[t], TRUE, got[t].cons[t]) IN
     /\ local' = [local EXCEPT ![t] = decided]
     /\ new' = [new EXCEPT ![t] = IF decided = "BAD" THEN got[t].cons[t] ELSE decided]
  /\ pc' = [pc EXCEPT ![t] = "publish"]
  /\ UNCHANGED <<mgmtdVars, srv, session, wait, flagVars, view, got, open, jobVars,
                 data, writeVars, faults, client>>

\* publishLocalTargetStateChanges. A target with an offline timeout is left out
\* of the report. Without success the update starts over.
PublishLocalTargetStateChanges(t, o) ==
  /\ srv[t] = "up"
  /\ pc[t] = "publish"
  /\ LET old == IF wait[t] THEN <<>> ELSE Only(t, got[t].cons[t])
         upd == IF wait[t] THEN <<>> ELSE Only(t, new[t])
     IN  /\ IF o = "lost" THEN UNCHANGED mgmtdVars
            ELSE D!ChangeTargetConsistencyStates(old, upd, {t})
         /\ pc' = [pc EXCEPT ![t] =
                     IF o = "ok" /\ (wait[t] \/ cons[t] = got[t].cons[t])
                     THEN "check" ELSE "idle"]
  /\ got' = [got EXCEPT ![t] = Blank]
  /\ new' = [new EXCEPT ![t] = "GOOD"]
  /\ Pays(o)
  /\ UNCHANGED <<srv, session, local, wait, flagVars, view, open, jobVars,
                 data, writeVars, client>>

\* Mutant: only a resync recorded in the own flag is started.
MutCheckBuddyNeedsResync(t, o) ==
  /\ srv[t] = "up"
  /\ pc[t] = "check"
  /\ pc' = [pc EXCEPT ![t] = "idle"]
  /\ o = "ok"
  /\ IF /\ IsPrimary(t) /\ local[t] = "GOOD" /\ "required" \in flag[t]
        /\ view[t].reach[Other(t)] = "ONLINE" /\ view[t].cons[Other(t)] = "NEEDS_RESYNC"
        /\ job[t] = "none"
     THEN job' = [job EXCEPT ![t] = "barrier"]
     ELSE UNCHANGED job
  /\ UNCHANGED <<srv, session, local, wait, view, got, new, open, todo, errs, wasOffline,
                 data, writeVars, client, flagVars, mgmtdVars, faults>>

\* checkBuddyNeedsResync: a primary sets a recorded needs-resync again that the
\* daemon does not show, and starts a resync of a buddy that needs it.
CheckBuddyNeedsResync(t, o) ==
  /\ srv[t] = "up"
  /\ pc[t] = "check"
  /\ pc' = [pc EXCEPT ![t] = "idle"]
  /\ IF IsPrimary(t) /\ "required" \in flag[t] /\ view[t].cons[Other(t)] = "GOOD"
     THEN SetBuddyNeedsResync(t, TRUE, o)
     ELSE o = "ok" /\ UNCHANGED <<flagVars, mgmtdVars>>
  /\ IF /\ IsPrimary(t)
        /\ local[t] = "GOOD"
        /\ view[t].reach[Other(t)] = "ONLINE"
        /\ view[t].cons[Other(t)] = "NEEDS_RESYNC"
        /\ job[t] = "none"
     THEN job' = [job EXCEPT ![t] = "barrier"]
     ELSE UNCHANGED job
  /\ Pays(o)
  /\ UNCHANGED <<srv, session, local, wait, view, got, new, open, todo, errs, wasOffline,
                 data, writeVars, client>>

-----------------------------------------------------------------------------
(* BuddyResyncJob of target t.                                             *)

Active(w, t) == wsrv[w] = t /\ wpc[w] \in {"solo", "sent", "mirrored", "written"}

\* Gathered: the own chunks, and directories whose listing shows the buddy's.
\* All are newer than the last communication with the buddy.
SyncCandidates(t) == data[t] \cup data[Other(t)]

\* The buddy's chunks once w is synced: copied, or removed if only the buddy
\* has it.
Synced(t, w) == IF w \in data[t] THEN data[Other(t)] \cup {w} ELSE data[Other(t)] \ {w}

\* Mutant: the workers are not waited for.
MutResyncStarted(t) ==
  /\ job[t] = "barrier"
  /\ srv[Other(t)] = "up"
  /\ job' = [job EXCEPT ![t] = "copy"]
  /\ todo' = [todo EXCEPT ![t] = SyncCandidates(t)]
  /\ open' = [open EXCEPT ![Other(t)] = FALSE]
  /\ UNCHANGED <<mgmtdVars, srv, session, local, wait, flagVars, syncVars, errs,
                 wasOffline, data, writeVars, faults, client>>

\* A message between the servers arrives only if the receiver is up.
\* Once every worker has finished what it did without knowing of the resync,
\* the buddy drops its mirror sessions and the chunks are gathered.
ResyncStarted(t) ==
  /\ job[t] = "barrier"
  /\ \A w \in Writes : Active(w, t) => wlock[w]
  /\ srv[Other(t)] = "up"
  /\ job' = [job EXCEPT ![t] = "copy"]
  /\ todo' = [todo EXCEPT ![t] = SyncCandidates(t)]
  /\ open' = [open EXCEPT ![Other(t)] = FALSE]
  /\ UNCHANGED <<mgmtdVars, srv, session, local, wait, flagVars, syncVars, errs,
                 wasOffline, data, writeVars, faults, client>>

\* The job ends; the next one starts without errors.
JobEnds(t) ==
  /\ job' = [job EXCEPT ![t] = "none"]
  /\ todo' = [todo EXCEPT ![t] = {}]
  /\ errs' = [errs EXCEPT ![t] = FALSE]
  /\ wasOffline' = [wasOffline EXCEPT ![t] = FALSE]

\* The job fails and informs nobody: the buddy does not confirm the start (it
\* may have dropped its sessions all the same), or the own chunks cannot be read.
JobFails(t) ==
  /\ \/ /\ job[t] = "barrier"
        /\ \A w \in Writes : Active(w, t) => wlock[w]
        /\ BuddySilent(t)
        /\ open' \in {open, [open EXCEPT ![Other(t)] = FALSE]}
     \/ /\ job[t] = "copy"
        /\ Fault("disk")
        /\ UNCHANGED open
  /\ JobEnds(t)
  /\ UNCHANGED <<mgmtdVars, srv, session, local, wait, flagVars, syncVars, data,
                 writeVars, client>>

\* SetLastBuddyCommOverride with the abort flag: the buddy is set BAD.
AbortJob(t) ==
  /\ job[t] = "copy"
  /\ Fault("abort")
  /\ job' = [job EXCEPT ![t] = "informBad"]
  /\ todo' = [todo EXCEPT ![t] = {}]
  /\ UNCHANGED <<mgmtdVars, srv, session, local, wait, flagVars, syncVars, open, errs,
                 wasOffline, data, writeVars, client>>

\* Mutant: a chunk the buddy does not have is not created.
MutCopyChunk(t, w) ==
  /\ job[t] = "copy"
  /\ w \in todo[t]
  /\ ~(Active(w, t) /\ wlock[w])
  /\ srv[Other(t)] = "up"
  /\ view[t].reach[Other(t)] # "OFFLINE"
  /\ data' = [data EXCEPT ![Other(t)] = IF w \in data[t] THEN @ ELSE @ \ {w}]
  /\ todo' = [todo EXCEPT ![t] = @ \ {w}]
  /\ UNCHANGED <<mgmtdVars, srv, session, local, wait, flagVars, syncVars, open, job,
                 errs, wasOffline, writeVars, faults, client>>

\* Under the chunk's lock the buddy's chunk is made like the own one.
CopyChunk(t, w) ==
  /\ job[t] = "copy"
  /\ w \in todo[t]
  /\ ~(Active(w, t) /\ wlock[w])
  /\ srv[Other(t)] = "up"
  /\ view[t].reach[Other(t)] # "OFFLINE"
  /\ data' = [data EXCEPT ![Other(t)] = Synced(t, w)]
  /\ todo' = [todo EXCEPT ![t] = @ \ {w}]
  /\ UNCHANGED <<mgmtdVars, srv, session, local, wait, flagVars, syncVars, open, job,
                 errs, wasOffline, writeVars, faults, client>>

\* Mutant: the reachability is stored as the consistency.
MutSetState(u, s, o) ==
  /\ local' = [local EXCEPT ![u] = reach[u]]
  /\ o = "ok"
  /\ UNCHANGED mgmtdVars

\* StorageTarget::setState of target u on its server. Only a target that has
\* an offline timeout publishes the change.
SetState(u, s, o) ==
  /\ local' = [local EXCEPT ![u] = s]
  /\ IF local[u] # s /\ wait[u]
     THEN IF o = "lost" THEN UNCHANGED mgmtdVars
          ELSE D!SetTargetConsistencyStates(Only(u, s), TRUE)
     ELSE o = "ok" /\ UNCHANGED mgmtdVars

\* The buddy is OFFLINE for this server, or it cannot write the chunk and sets
\* itself BAD (ResyncLocalFileMsgEx).
CopyFails(t, w) ==
  /\ job[t] = "copy"
  /\ w \in todo[t]
  /\ ~(Active(w, t) /\ wlock[w])
  /\ \/ /\ view[t].reach[Other(t)] = "OFFLINE"
        /\ UNCHANGED <<mgmtdVars, local, faults>>
     \/ /\ view[t].reach[Other(t)] # "OFFLINE"
        /\ srv[Other(t)] = "up"
        /\ SetState(Other(t), "BAD", "ok")
        /\ Fault("disk")
  /\ todo' = [todo EXCEPT ![t] = @ \ {w}]
  /\ errs' = [errs EXCEPT ![t] = TRUE]
  /\ UNCHANGED <<srv, session, wait, flagVars, syncVars, open, job, wasOffline, data,
                 writeVars, client>>

\* All slaves have stopped: any errors or success?
JobVerdict(t) ==
  /\ job[t] = "copy"
  /\ todo[t] = {}
  /\ job' = [job EXCEPT ![t] = IF errs[t] \/ wasOffline[t] THEN "informBad" ELSE "set"]
  /\ UNCHANGED <<mgmtdVars, srv, session, local, wait, flagVars, syncVars, open, todo,
                 errs, wasOffline, data, writeVars, faults, client>>

JobSetBuddyNeedsResync(t, o) ==
  /\ job[t] = "set"
  /\ SetBuddyNeedsResync(t, wasOffline[t], o)
  /\ job' = [job EXCEPT ![t] = "informGood"]
  /\ Pays(o)
  /\ UNCHANGED <<srv, session, local, wait, syncVars, open, todo, errs, wasOffline,
                 data, writeVars, client>>

InformBuddy(t, o) ==
  /\ job[t] \in {"informGood", "informBad"}
  /\ \/ /\ srv[Other(t)] = "up"
        /\ SetState(Other(t), IF job[t] = "informGood" THEN "GOOD" ELSE "BAD", o)
        /\ Pays(o)
     \/ /\ o = "ok"
        /\ BuddySilent(t)
        /\ UNCHANGED <<mgmtdVars, local>>
  /\ JobEnds(t)
  /\ UNCHANGED <<srv, session, wait, flagVars, syncVars, open, data,
                 writeVars, client>>

-----------------------------------------------------------------------------
(* WriteLocalFileMsgEx. A client sends the write to the server it takes    *)
(* for the primary and sends it again when it fails.                       *)

\* The client updates its states and groups. It uses a primary that is not
\* OFFLINE and is GOOD.
ClientUpdate ==
  /\ client' = IF reach[primary[Group]] # "OFFLINE" /\ cons[primary[Group]] = "GOOD"
               THEN {primary[Group]} ELSE {}
  /\ client' # client
  /\ UNCHANGED <<mgmtdVars, srv, session, local, wait, flagVars, syncVars, open, jobVars,
                 data, writeVars, faults>>

\* Mutant: an OFFLINE buddy is left out without a mark.
MutWriteStart(w, t, o) ==
  /\ t \in client /\ srv[t] = "up" /\ wpc[w] = "idle"
  /\ IsPrimary(t)
  /\ open[t] \/ local[t] = "GOOD"
  /\ open' = [open EXCEPT ![t] = TRUE]
  /\ wpc' = [wpc EXCEPT ![w] = IF view[t].reach[Other(t)] = "OFFLINE" THEN "solo" ELSE "sent"]
  /\ o = "ok"
  /\ wsrv' = [wsrv EXCEPT ![w] = t]
  /\ wlock' = [wlock EXCEPT ![w] = job[t] # "none"]
  /\ UNCHANGED <<srv, session, local, wait, syncVars, jobVars, data, acked, client,
                 mgmtdVars, flagVars, faults>>

\* openFile lets a non-GOOD primary write to files that are open already.
\* prepareMirroring then looks at the buddy's state: an OFFLINE buddy is left
\* out and marked, an unclear state fails the request.
WriteStart(w, t, o) ==
  /\ t \in client
  /\ srv[t] = "up"
  /\ wpc[w] = "idle"
  /\ IsPrimary(t)
  /\ open[t] \/ local[t] = "GOOD"
  /\ open' = [open EXCEPT ![t] = TRUE]
  /\ LET r == view[t].reach[Other(t)]
         c == view[t].cons[Other(t)]
     IN  \/ /\ r = "OFFLINE"
            /\ SetBuddyNeedsResync(t, TRUE, o)
            /\ wpc' = [wpc EXCEPT ![w] = "solo"]
         \/ /\ r # "OFFLINE"
            /\ c = "NEEDS_RESYNC" \/ (r = "ONLINE" /\ c = "GOOD")
            /\ o = "ok"
            /\ wpc' = [wpc EXCEPT ![w] = "sent"]
            /\ UNCHANGED <<mgmtdVars, flagVars>>
  /\ wsrv' = [wsrv EXCEPT ![w] = t]
  /\ wlock' = [wlock EXCEPT ![w] = job[t] # "none"]
  /\ Pays(o)
  /\ UNCHANGED <<srv, session, local, wait, syncVars, jobVars, data, acked, client>>

\* Writes S are answered; their chunks are unlocked.
WriteEnds(S, result) ==
  /\ wpc' = [w \in Writes |-> IF w \in S THEN result ELSE wpc[w]]
  /\ wsrv' = [w \in Writes |-> IF w \in S THEN A ELSE wsrv[w]]
  /\ wlock' = [w \in Writes |-> w \notin S /\ wlock[w]]

\* The buddy executes the forwarded write if it is secondary in its own view.
MirrorWrite(w) ==
  LET b == Other(wsrv[w]) IN
  /\ wpc[w] \in {"sent", "written"}
  /\ srv[b] = "up"
  /\ ~IsPrimary(b)
  /\ data' = [data EXCEPT ![b] = @ \cup {w}]
  /\ open' = [open EXCEPT ![b] = TRUE]
  /\ \/ /\ wpc[w] = "sent"
        /\ wpc' = [wpc EXCEPT ![w] = "mirrored"]
        /\ UNCHANGED <<wsrv, wlock, acked>>
     \/ /\ wpc[w] = "written"
        /\ WriteEnds({w}, "done")
        /\ acked' = acked \cup {w}
  /\ UNCHANGED <<mgmtdVars, srv, session, local, wait, flagVars, syncVars, jobVars,
                 faults, client>>

\* Mutant: the client is answered before the buddy has answered.
MutLocalWrite(w) ==
  /\ wpc[w] \in {"sent", "mirrored", "solo"}
  /\ data' = [data EXCEPT ![wsrv[w]] = @ \cup {w}]
  /\ WriteEnds({w}, "done")
  /\ acked' = acked \cup {w}
  /\ UNCHANGED <<mgmtdVars, srv, session, local, wait, flagVars, syncVars, open, jobVars,
                 faults, client>>

\* The own half of the write. With both halves done the client is answered.
LocalWrite(w) ==
  /\ wpc[w] \in {"sent", "mirrored", "solo"}
  /\ data' = [data EXCEPT ![wsrv[w]] = @ \cup {w}]
  /\ \/ /\ wpc[w] = "sent"
        /\ wpc' = [wpc EXCEPT ![w] = "written"]
        /\ UNCHANGED <<wsrv, wlock, acked>>
     \/ /\ wpc[w] \in {"mirrored", "solo"}
        /\ WriteEnds({w}, "done")
        /\ acked' = acked \cup {w}
  /\ UNCHANGED <<mgmtdVars, srv, session, local, wait, flagVars, syncVars, open, jobVars,
                 faults, client>>

\* No answer from the buddy, or it refuses because it takes itself for the
\* primary: the client gets an error and tries again.
WriteFails(w) ==
  /\ wpc[w] \in {"sent", "mirrored", "written"}
  /\ WriteEnds({w}, "idle")
  /\ \/ BuddySilent(wsrv[w])
     \/ IsPrimary(Other(wsrv[w])) /\ UNCHANGED faults
  /\ UNCHANGED <<mgmtdVars, srv, session, local, wait, flagVars, syncVars, open, jobVars,
                 data, acked, client>>

-----------------------------------------------------------------------------
(* Servers stop and start.                                                 *)

\* What a server forgets.
Forget(t) ==
  /\ srv' = [srv EXCEPT ![t] = "down"]
  /\ local' = [local EXCEPT ![t] = "GOOD"]
  /\ wait' = [wait EXCEPT ![t] = FALSE]
  /\ retry' = [retry EXCEPT ![t] = FALSE]
  /\ open' = [open EXCEPT ![t] = FALSE]
  /\ pc' = [pc EXCEPT ![t] = "idle"]
  /\ got' = [got EXCEPT ![t] = Blank]
  /\ new' = [new EXCEPT ![t] = "GOOD"]
  /\ view' = [view EXCEPT ![t] = Blank]
  /\ JobEnds(t)
  /\ WriteEnds({w \in Writes : Active(w, t)}, "idle")
  /\ UNCHANGED <<mgmtdVars, flag, data, acked, client>>

Crash(t) ==
  /\ srv[t] # "down"
  /\ Fault("crash")
  /\ Forget(t)
  /\ UNCHANGED session

\* A clean shutdown drains the workers and stores the sessions.
Stop(t) ==
  /\ srv[t] = "up"
  /\ job[t] = "none"
  /\ \A w \in Writes : ~Active(w, t)
  /\ Fault("stop")
  /\ Forget(t)
  /\ session' = [session EXCEPT ![t] = TRUE]

\* registerAndDownloadMgmtInfo downloads the groups first ...
Start(t) ==
  /\ srv[t] \in {"down", "starting"}
  /\ srv' = [srv EXCEPT ![t] = "starting"]
  /\ view' = [view EXCEPT ![t].primary = primary[Group]]
  /\ UNCHANGED <<mgmtdVars, session, local, wait, flagVars, pc, got, new, open, jobVars,
                 data, writeVars, faults, client>>

\* ... then the states, decides about a resync and, as a primary that needs
\* one, sets the offline timeout. An unacknowledged flag is sent again.
StartUp(t) ==
  /\ srv[t] = "starting"
  /\ LET s == DecideResync("GOOD", FALSE, session[t], cons[t]) IN
     /\ local' = [local EXCEPT ![t] = s]
     /\ view' = [view EXCEPT ![t].reach = [reach EXCEPT ![t] = "ONLINE"],
                             ![t].cons = [cons EXCEPT ![t] = s]]
     /\ wait' = [wait EXCEPT ![t] = s = "NEEDS_RESYNC" /\ IsPrimary(t)]
  /\ retry' = [retry EXCEPT ![t] = "unacked" \in flag[t]]
  /\ srv' = [srv EXCEPT ![t] = "up"]
  /\ session' = [session EXCEPT ![t] = FALSE]
  /\ UNCHANGED <<mgmtdVars, flag, pc, got, new, open, jobVars, data, writeVars, faults, client>>

\* The timeout is longer than the daemon's: the target is OFFLINE by then.
OfflineTimeoutEnds(t) ==
  /\ wait[t]
  /\ reach[t] = "OFFLINE"
  /\ wait' = [wait EXCEPT ![t] = FALSE]
  /\ UNCHANGED <<mgmtdVars, srv, session, local, flagVars, syncVars, open, jobVars, data,
                 writeVars, faults, client>>

-----------------------------------------------------------------------------
(* The management daemon's own steps.                                      *)

\* The daemon gives a server six update intervals before it declares it
\* OFFLINE: by then a server that is up has noticed that it cannot reach the
\* daemon, or is silent on purpose, and the clients have noticed it too.
Silent(t) ==
  \/ srv[t] # "up"
  \/ wait[t]
  \/ \A u \in Targets : view[t].reach[u] = "POFFLINE"

MgmtdOffline(t) ==
  /\ Silent(t)
  /\ \/ /\ reach[t] = "ONLINE"
        /\ D!AutoOfflineTargets({t}, {})
        /\ UNCHANGED client
     \/ /\ reach[t] = "POFFLINE"
        /\ D!AutoOfflineTargets({}, {t})
        /\ client' = client \ {t}
  /\ UNCHANGED <<srv, session, local, wait, flagVars, syncVars, open, jobVars, data,
                 writeVars, faults>>

\* findPrimaryResync copies the groups and reads the states at one instant here.
MgmtdResolve ==
  /\ \/ /\ found = {}
        /\ cons[primary[Group]] = "NEEDS_RESYNC"
        /\ D!FindPrimaryResync({Group})
     \/ D!ResolvePrimaryResync(Group)
  /\ UNCHANGED <<srv, session, local, wait, flagVars, syncVars, open, jobVars, data,
                 writeVars, faults, client>>

-----------------------------------------------------------------------------
\* The servers in running are up, the others have been stopped long enough for
\* everyone to know. Nobody has written yet.
InitWith(running) ==
  /\ reach = [t \in Targets |-> IF t \in running THEN "ONLINE" ELSE "OFFLINE"]
  /\ cons = [t \in Targets |-> "GOOD"]
  /\ primary = Only(Group, A)
  /\ found = {}
  /\ srv = [t \in Targets |-> IF t \in running THEN "up" ELSE "down"]
  /\ session = [t \in Targets |-> t \notin running]
  /\ local = [t \in Targets |-> "GOOD"]
  /\ wait = [t \in Targets |-> FALSE]
  /\ flag = [t \in Targets |-> {}]
  /\ retry = [t \in Targets |-> FALSE]
  /\ view = [t \in Targets |-> IF t \in running THEN Snapshot ELSE Blank]
  /\ open = [t \in Targets |-> FALSE]
  /\ pc = [t \in Targets |-> "idle"]
  /\ got = [t \in Targets |-> Blank]
  /\ new = [t \in Targets |-> "GOOD"]
  /\ job = [t \in Targets |-> "none"]
  /\ todo = [t \in Targets |-> {}]
  /\ errs = [t \in Targets |-> FALSE]
  /\ wasOffline = [t \in Targets |-> FALSE]
  /\ data = [t \in Targets |-> {}]
  /\ wpc = [w \in Writes |-> "idle"]
  /\ wsrv = [w \in Writes |-> A]
  /\ wlock = [w \in Writes |-> FALSE]
  /\ acked = {}
  /\ client = {A}
  /\ faults = 0

Init == InitWith(Targets)

Syncer(t) ==
  \/ DownloadStatesAndBuddyGroups(t)
  \/ DownloadFails(t)
  \/ SyncStatesAndGroups(t)
  \/ Decide(t)
  \/ \E o \in Outcomes : PublishLocalTargetStateChanges(t, o) \/ CheckBuddyNeedsResync(t, o)

Job(t) ==
  \/ ResyncStarted(t)
  \/ JobFails(t)
  \/ AbortJob(t)
  \/ \E w \in Writes : CopyChunk(t, w) \/ CopyFails(t, w)
  \/ JobVerdict(t)
  \/ \E o \in Outcomes : JobSetBuddyNeedsResync(t, o) \/ InformBuddy(t, o)

Write(w) ==
  \/ \E t \in Targets, o \in Outcomes : WriteStart(w, t, o)
  \/ MirrorWrite(w)
  \/ LocalWrite(w)
  \/ WriteFails(w)

Server(t) ==
  \/ Crash(t)
  \/ Stop(t)
  \/ Start(t)
  \/ StartUp(t)
  \/ OfflineTimeoutEnds(t)
  \/ \E o \in Outcomes : RetrySetBuddyNeedsResyncComm(t, o)

Next ==
  \/ \E t \in Targets : Syncer(t) \/ Job(t) \/ Server(t) \/ MgmtdOffline(t)
  \/ \E w \in Writes : Write(w)
  \/ MgmtdResolve
  \/ ClientUpdate

Spec == Init /\ [][Next]_vars

\* Every thread goes on, servers are started again, and the daemon's pass runs.
Fairness ==
  /\ \A t \in Targets : /\ WF_vars(Syncer(t)) /\ WF_vars(Job(t)) /\ WF_vars(MgmtdOffline(t))
                        /\ WF_vars(Start(t) \/ StartUp(t)) /\ WF_vars(OfflineTimeoutEnds(t))
                        /\ WF_vars(\E o \in Outcomes : RetrySetBuddyNeedsResyncComm(t, o))
  /\ \A w \in Writes : WF_vars(Write(w))
  /\ WF_vars(MgmtdResolve)
  /\ WF_vars(ClientUpdate)

-----------------------------------------------------------------------------
(* Properties.                                                             *)

\* What mirroring is for: a target that the daemon has as a GOOD primary, and
\* whose server acts as one, holds every write that was reported as successful,
\* whoever was primary then. The exception is the failed setBuddyNeedsResync that
\* the old primary still has to send (StorageTarget::setBuddyNeedsResyncComm).
GoodPrimaryHasAckedWrites ==
  \A t \in Targets :
    /\ primary[Group] = t /\ cons[t] = "GOOD"
    /\ srv[t] = "up" /\ IsPrimary(t) /\ local[t] = "GOOD"
    => acked \subseteq data[t] \/ {"required", "unacked"} \subseteq flag[Other(t)]

\* If the daemon takes the buddy of a primary for GOOD although it misses an
\* acknowledged write, the primary still has the needs-resync on its disk: a
\* write that left the buddy out, a resync that ends and its setBuddyNeedsResync
\* never forget it between them.
DivergenceRecorded ==
  \A t \in Targets :
    /\ primary[Group] = t /\ acked \subseteq data[t]
    /\ cons[Other(t)] = "GOOD"
    => acked \subseteq data[Other(t)] \/ "required" \in flag[t]

\* A forwarded write is on the buddy when the client is told of its success,
\* although a resync of the same chunk (BuddyResyncerFileSyncSlave) may begin
\* while the write is under way: workers that do not lock the chunk are waited
\* for before chunks are compared.
MirroredAckOnBuddy ==
  [][\A w \in acked' \ acked : wpc[w] # "solo" => w \in data'[Other(wsrv[w])]]_vars

\* Once the faults are over every write of a client succeeds, and the two targets
\* end up with the same chunks and keep them. After a resync that failed or was
\* aborted (BuddyResyncJob::run) the daemon shows that target as BAD for good, and
\* its buddy is the primary.
BuddiesConverge ==
  <>[](/\ acked = Writes
       /\ \/ data[A] = data[B]
          \/ \E t \in Targets : local[t] = "BAD" /\ cons[t] = "BAD" /\ primary[Group] = Other(t))

\* A server that is down or whose target needs a resync comes out of it: the
\* daemon switches or shows it, its primary resyncs it and tells it the end.
ResyncEnds ==
  \A t \in Targets :
    srv[t] # "up" \/ local[t] = "NEEDS_RESYNC" ~> srv[t] = "up" /\ local[t] \in {"GOOD", "BAD"}

\* "updating them later opens a window of opportunity where the target state store
\* says "offline", but the resyncer has not noticed" (InternodeSyncer::
\* updateTargetStatesAndBuddyGroups): a resync has noticed an OFFLINE buddy when
\* the store shows it.
OfflineNoticed ==
  \A t \in Targets :
    job[t] # "none" /\ view[t].reach[Other(t)] = "OFFLINE" => wasOffline[t]
=============================================================================
