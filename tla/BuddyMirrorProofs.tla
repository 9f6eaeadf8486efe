-------------------------- MODULE BuddyMirrorProofs --------------------------
(***************************************************************************)
(* Mirrored writes for any number of writes and faults: the types, and     *)
(* that a forwarded write is on the buddy when the client is answered.     *)
(* For any number of writes and one fault: a GOOD primary has every        *)
(* acknowledged write, and a divergence is recorded.                       *)
(***************************************************************************)
EXTENDS BuddyMirror, TLAPS

-----------------------------------------------------------------------------
(* The inductive invariant                                                 *)

\* What TypeOK says of the management daemon's state
MgmtdOK ==
  /\ reach \in [Targets -> D!Reachability]
  /\ cons \in [Targets -> D!Consistency]
  /\ primary \in [{Group} -> Targets]
  /\ found \subseteq {Group}

\* While chunks are copied from t every write in progress on t has locked its chunk.
CopyLocked ==
  \A t \in Targets, w \in Writes : job[t] = "copy" /\ Active(w, t) => wlock[w]

\* A write that the buddy has answered is on the buddy.
MirroredOnBuddy ==
  \A w \in Writes : wpc[w] = "mirrored" => w \in data[Other(wsrv[w])]

IInv == TypeOK /\ CopyLocked /\ MirroredOnBuddy

\* MirroredAckOnBuddy of one step
AckedOnBuddy ==
  \A w \in acked' \ acked : wpc[w] # "solo" => w \in data'[Other(wsrv[w])]

-----------------------------------------------------------------------------
(* The management daemon                                                   *)

\* The buddy of a target is the other target.
LEMMA OtherType ==
  ASSUME NEW t \in Targets
  PROVE  Other(t) \in Targets /\ Other(t) # t
BY TargetsDiffer DEF Targets, Other

\* Switching a group keeps the primary one of the two targets.
LEMMA SwitchedType ==
  ASSUME NEW S
  PROVE  D!Switched(S) \in [{Group} -> Targets] \/ primary \notin [{Group} -> Targets]
BY DEF D!Switched, D!OtherOf, Only, Targets

\* Setting the state of one target
LEMMA SetStatesType ==
  ASSUME MgmtdOK, NEW t \in Targets, NEW s \in D!Consistency, NEW online \in BOOLEAN,
         D!SetTargetConsistencyStates(Only(t, s), online)
  PROVE  MgmtdOK'
BY DEF MgmtdOK, D!SetTargetConsistencyStates, Only, D!Reachability, D!Consistency

\* A report of one target or of none
LEMMA ChangeStatesType ==
  ASSUME MgmtdOK, NEW old, NEW upd, NEW t \in Targets,
         \A u \in DOMAIN upd : u \in Targets => upd[u] \in D!Consistency,
         D!ChangeTargetConsistencyStates(old, upd, {t})
  PROVE  MgmtdOK'
BY SwitchedType DEF MgmtdOK, D!ChangeTargetConsistencyStates, D!mgmtdVars, D!Reachability

\* Silent targets go offline.
LEMMA OfflineType ==
  ASSUME MgmtdOK, NEW poff, NEW off, D!AutoOfflineTargets(poff, off)
  PROVE  MgmtdOK'
BY SwitchedType DEF MgmtdOK, D!AutoOfflineTargets, D!Reachability

\* The pass that switches groups whose primary needs a resync
LEMMA ResolveType ==
  ASSUME MgmtdOK, D!FindPrimaryResync({Group}) \/ D!ResolvePrimaryResync(Group)
  PROVE  MgmtdOK'
BY SwitchedType DEF MgmtdOK, D!FindPrimaryResync, D!ResolvePrimaryResync

-----------------------------------------------------------------------------
(* setBuddyNeedsResync                                                     *)

\* The flag on disk and the daemon's states keep their types.
LEMMA CommType ==
  ASSUME TypeOK, NEW t \in Targets, NEW f \in SUBSET {"required", "unacked"},
         NEW o \in Outcomes, SetBuddyNeedsResyncComm(t, f, o)
  PROVE  /\ MgmtdOK'
         /\ flag' \in [Targets -> SUBSET {"required", "unacked"}]
         /\ retry' \in [Targets -> BOOLEAN]
<1>1. MgmtdOK /\ flag \in [Targets -> SUBSET {"required", "unacked"}] /\ retry \in [Targets -> BOOLEAN]
  BY DEF TypeOK, MgmtdOK
<1>2. Other(t) \in Targets
  BY OtherType
<1>3. flag' \in [Targets -> SUBSET {"required", "unacked"}] /\ retry' \in [Targets -> BOOLEAN]
  BY <1>1 DEF SetBuddyNeedsResyncComm
<1>4. UNCHANGED mgmtdVars => MgmtdOK'
  BY <1>1 DEF MgmtdOK, mgmtdVars
<1> DEFINE s == IF "required" \in f THEN "NEEDS_RESYNC" ELSE "GOOD"
<1>5. s \in D!Consistency
  BY DEF D!Consistency
<1>6. UNCHANGED mgmtdVars \/ D!SetTargetConsistencyStates(Only(Other(t), s), FALSE)
  BY DEF SetBuddyNeedsResyncComm
<1> HIDE DEF s
<1> QED BY <1>1, <1>2, <1>3, <1>4, <1>5, <1>6, SetStatesType

\* setBuddyNeedsResync: a pending mark is not repeated.
LEMMA SetBuddyNeedsResyncType ==
  ASSUME TypeOK, NEW t \in Targets, NEW needsResync \in BOOLEAN,
         NEW o \in Outcomes, SetBuddyNeedsResync(t, needsResync, o)
  PROVE  /\ MgmtdOK'
         /\ flag' \in [Targets -> SUBSET {"required", "unacked"}]
         /\ retry' \in [Targets -> BOOLEAN]
<1> DEFINE f == {"unacked"} \cup (IF needsResync THEN {"required"} ELSE {})
<1>1. f \in SUBSET {"required", "unacked"}
  OBVIOUS
<1>2. SetBuddyNeedsResyncComm(t, f, o) \/ UNCHANGED <<flagVars, mgmtdVars>>
  BY DEF SetBuddyNeedsResync
<1>3. UNCHANGED <<flagVars, mgmtdVars>> =>
        /\ MgmtdOK' /\ flag' \in [Targets -> SUBSET {"required", "unacked"}]
        /\ retry' \in [Targets -> BOOLEAN]
  BY DEF TypeOK, MgmtdOK, flagVars, mgmtdVars
<1> HIDE DEF f
<1> QED BY <1>1, <1>2, <1>3, CommType

\* StorageTarget::setState
LEMMA SetStateType ==
  ASSUME TypeOK, NEW u \in Targets, NEW s \in D!Consistency, NEW o, SetState(u, s, o)
  PROVE  MgmtdOK' /\ local' \in [Targets -> D!Consistency]
<1>1. MgmtdOK /\ local' \in [Targets -> D!Consistency]
  BY DEF TypeOK, MgmtdOK, SetState
<1>2. UNCHANGED mgmtdVars \/ D!SetTargetConsistencyStates(Only(u, s), TRUE)
  BY DEF SetState
<1>3. UNCHANGED mgmtdVars => MgmtdOK'
  BY <1>1 DEF MgmtdOK, mgmtdVars
<1> QED BY <1>1, <1>2, <1>3, SetStatesType

\* Faults are counted up to the bound.
LEMMA FaultType ==
  ASSUME TypeOK, NEW kind, Fault(kind) \/ UNCHANGED faults
  PROVE  faults' \in 0 .. MaxFaults
BY FaultsAssumption DEF TypeOK, Fault

\* A request that is not answered is a fault.
LEMMA PaysType ==
  ASSUME TypeOK, NEW o, Pays(o)
  PROVE  faults' \in 0 .. MaxFaults
BY FaultType DEF Pays

-----------------------------------------------------------------------------
(* The actions                                                             *)

\* A step that leaves chunks and writes alone and starts no copying
LEMMA WritesStay ==
  ASSUME IInv, TypeOK', UNCHANGED <<data, writeVars>>,
         \A t \in Targets : job'[t] = "copy" => job[t] = "copy"
  PROVE  IInv' /\ AckedOnBuddy
BY DEF IInv, CopyLocked, MirroredOnBuddy, AckedOnBuddy, Active, writeVars

\* What a server that is idle has downloaded
LEMMA BlankType == Blank \in View
BY DEF Blank, View, D!Reachability, D!Consistency, Targets

\* The end of a job
LEMMA JobEndsType ==
  ASSUME TypeOK, NEW t \in Targets, JobEnds(t)
  PROVE  /\ job' \in [Targets -> {"none", "barrier", "copy", "set", "informGood", "informBad"}]
         /\ \A u \in Targets : job'[u] = "copy" => job[u] = "copy"
         /\ todo' \in [Targets -> SUBSET Writes]
         /\ errs' \in [Targets -> BOOLEAN] /\ wasOffline' \in [Targets -> BOOLEAN]
BY DEF JobEnds, TypeOK

\* The snapshot of the daemon's states
LEMMA DownloadStatesAndBuddyGroupsStep ==
  ASSUME IInv, NEW t \in Targets, DownloadStatesAndBuddyGroups(t)
  PROVE  IInv' /\ AckedOnBuddy
<1>1. TypeOK'
  BY DEF IInv, TypeOK, DownloadStatesAndBuddyGroups, mgmtdVars, flagVars, syncVars, jobVars, writeVars, Snapshot, View
<1> QED BY <1>1, WritesStay DEF DownloadStatesAndBuddyGroups, jobVars, JobEnds, IInv, TypeOK

\* A failed download
LEMMA DownloadFailsStep ==
  ASSUME IInv, NEW t \in Targets, DownloadFails(t)
  PROVE  IInv' /\ AckedOnBuddy
<1>1. faults' \in 0 .. MaxFaults
  BY FaultType DEF DownloadFails, IInv
<1>2. view' \in [Targets -> View]
  <2>1. view[t] \in View /\ view \in [Targets -> View]
    BY DEF IInv, TypeOK
  <2>2. [view[t] EXCEPT !.reach = [u \in Targets |-> "POFFLINE"]] \in View
    BY <2>1 DEF View, D!Reachability
  <2> QED BY <2>1, <2>2 DEF DownloadFails
<1>3. TypeOK'
  BY <1>1, <1>2 DEF IInv, TypeOK, DownloadFails, mgmtdVars, flagVars, syncVars, jobVars, writeVars
<1> QED BY <1>3, WritesStay DEF DownloadFails, jobVars

\* The downloaded states become visible.
LEMMA SyncStatesAndGroupsStep ==
  ASSUME IInv, NEW t \in Targets, SyncStatesAndGroups(t)
  PROVE  IInv' /\ AckedOnBuddy
<1>1. TypeOK'
  BY DEF IInv, TypeOK, SyncStatesAndGroups, mgmtdVars, flagVars, syncVars, jobVars, writeVars
<1> QED BY <1>1, WritesStay DEF SyncStatesAndGroups, jobVars, JobEnds, IInv, TypeOK

\* decideResync
LEMMA DecideStep ==
  ASSUME IInv, NEW t \in Targets, Decide(t)
  PROVE  IInv' /\ AckedOnBuddy
<1>1. TypeOK'
  BY DEF IInv, TypeOK, Decide, mgmtdVars, flagVars, syncVars, jobVars, writeVars, DecideResync, View, D!Consistency
<1> QED BY <1>1, WritesStay DEF Decide, jobVars, JobEnds, IInv, TypeOK

\* The offline timeout of a primary
LEMMA OfflineTimeoutEndsStep ==
  ASSUME IInv, NEW t \in Targets, OfflineTimeoutEnds(t)
  PROVE  IInv' /\ AckedOnBuddy
<1>1. TypeOK'
  BY DEF IInv, TypeOK, OfflineTimeoutEnds, mgmtdVars, flagVars, syncVars, jobVars, writeVars
<1> QED BY <1>1, WritesStay DEF OfflineTimeoutEnds, jobVars, JobEnds, IInv, TypeOK

\* Groups are downloaded first.
LEMMA StartStep ==
  ASSUME IInv, NEW t \in Targets, Start(t)
  PROVE  IInv' /\ AckedOnBuddy
<1>1. view' \in [Targets -> View]
  <2>1. view[t] \in View /\ view \in [Targets -> View] /\ primary[Group] \in Targets
    BY DEF IInv, TypeOK
  <2>2. [view[t] EXCEPT !.primary = primary[Group]] \in View
    BY <2>1 DEF View
  <2> QED BY <2>1, <2>2 DEF Start
<1>2. TypeOK'
  BY <1>1 DEF IInv, TypeOK, Start, mgmtdVars, flagVars, syncVars, jobVars, writeVars
<1> QED BY <1>2, WritesStay DEF Start, jobVars

\* The states at start
LEMMA StartUpStep ==
  ASSUME IInv, NEW t \in Targets, StartUp(t)
  PROVE  IInv' /\ AckedOnBuddy
<1> DEFINE s == DecideResync("GOOD", FALSE, session[t], cons[t])
<1>1. s \in D!Consistency
  BY DEF DecideResync, D!Consistency
<1>2. /\ local' = [local EXCEPT ![t] = s]
      /\ view' = [view EXCEPT ![t] = [@ EXCEPT !.reach = [reach EXCEPT ![t] = "ONLINE"],
                                               !.cons = [cons EXCEPT ![t] = s]]]
      /\ wait' = [wait EXCEPT ![t] = s = "NEEDS_RESYNC" /\ IsPrimary(t)]
  BY DEF StartUp
<1> HIDE DEF s
<1>3. view' \in [Targets -> View]
  <2>1. view[t] \in View /\ view \in [Targets -> View]
    BY DEF IInv, TypeOK
  <2>2. /\ [reach EXCEPT ![t] = "ONLINE"] \in [Targets -> D!Reachability]
        /\ [cons EXCEPT ![t] = s] \in [Targets -> D!Consistency]
    BY <1>1 DEF IInv, TypeOK, D!Reachability
  <2>3. [view[t] EXCEPT !.reach = [reach EXCEPT ![t] = "ONLINE"],
                        !.cons = [cons EXCEPT ![t] = s]] \in View
    BY <2>1, <2>2 DEF View
  <2> QED BY <1>2, <2>1, <2>3
<1>4. wait' \in [Targets -> BOOLEAN] /\ local' \in [Targets -> D!Consistency]
  BY <1>1, <1>2 DEF IInv, TypeOK
<1>5. retry' \in [Targets -> BOOLEAN] /\ srv' \in [Targets -> {"down", "starting", "up"}] /\ session' \in [Targets -> BOOLEAN]
  BY DEF IInv, TypeOK, StartUp
<1>6. TypeOK'
  <2>1. UNCHANGED <<mgmtdVars, flag, pc, got, new, open, jobVars, data, writeVars, faults, client>>
    BY DEF StartUp
  <2> QED BY <1>3, <1>4, <1>5, <2>1 DEF IInv, TypeOK, mgmtdVars, flagVars, syncVars, jobVars, writeVars
<1> QED BY <1>6, WritesStay DEF StartUp, jobVars

\* The verdict of a job
LEMMA JobVerdictStep ==
  ASSUME IInv, NEW t \in Targets, JobVerdict(t)
  PROVE  IInv' /\ AckedOnBuddy
<1>1. TypeOK'
  BY DEF IInv, TypeOK, JobVerdict, mgmtdVars, flagVars, syncVars, jobVars, writeVars
<1> QED BY <1>1, WritesStay DEF JobVerdict, jobVars, JobEnds, IInv, TypeOK

\* An administrator's abort
LEMMA AbortJobStep ==
  ASSUME IInv, NEW t \in Targets, AbortJob(t)
  PROVE  IInv' /\ AckedOnBuddy
<1>1. TypeOK'
  BY FaultType DEF IInv, TypeOK, AbortJob, mgmtdVars, flagVars, syncVars, jobVars, writeVars
<1> QED BY <1>1, WritesStay DEF AbortJob, jobVars, JobEnds, IInv, TypeOK

\* publishLocalTargetStateChanges
LEMMA PublishStep ==
  ASSUME IInv, NEW t \in Targets, NEW o \in Outcomes, PublishLocalTargetStateChanges(t, o)
  PROVE  IInv' /\ AckedOnBuddy
<1> DEFINE old == IF wait[t] THEN <<>> ELSE Only(t, got[t].cons[t])
           upd == IF wait[t] THEN <<>> ELSE Only(t, new[t])
<1>1. \A u \in DOMAIN upd : u \in Targets => upd[u] \in D!Consistency
  <2>1. DOMAIN <<>> = {} /\ new[t] \in D!Consistency
    BY DEF IInv, TypeOK
  <2> QED BY <2>1 DEF Only
<1>2. UNCHANGED mgmtdVars \/ D!ChangeTargetConsistencyStates(old, upd, {t})
  BY DEF PublishLocalTargetStateChanges
<1> HIDE DEF old, upd
<1>3. MgmtdOK'
  <2>1. MgmtdOK
    BY DEF IInv, TypeOK, MgmtdOK
  <2>2. UNCHANGED mgmtdVars => MgmtdOK'
    BY <2>1 DEF MgmtdOK, mgmtdVars
  <2> QED BY <1>1, <1>2, <2>1, <2>2, ChangeStatesType
<1>4. faults' \in 0 .. MaxFaults
  BY PaysType DEF PublishLocalTargetStateChanges, IInv
<1>5. got' \in [Targets -> View] /\ new' \in [Targets -> D!Consistency]
  BY BlankType DEF PublishLocalTargetStateChanges, IInv, TypeOK, D!Consistency
<1>6. pc' \in [Targets -> {"idle", "got", "decide", "publish", "check"}]
  BY DEF PublishLocalTargetStateChanges, IInv, TypeOK
<1>7. TypeOK'
  BY <1>3, <1>4, <1>5, <1>6 DEF IInv, TypeOK, MgmtdOK, PublishLocalTargetStateChanges, mgmtdVars, flagVars, syncVars, jobVars, writeVars
<1> QED BY <1>7, WritesStay DEF PublishLocalTargetStateChanges, jobVars

\* checkBuddyNeedsResync
LEMMA CheckStep ==
  ASSUME IInv, NEW t \in Targets, NEW o \in Outcomes, CheckBuddyNeedsResync(t, o)
  PROVE  IInv' /\ AckedOnBuddy
<1>1. /\ MgmtdOK'
      /\ flag' \in [Targets -> SUBSET {"required", "unacked"}]
      /\ retry' \in [Targets -> BOOLEAN]
  <2>1. UNCHANGED <<flagVars, mgmtdVars>> \/ SetBuddyNeedsResync(t, TRUE, o)
    BY DEF CheckBuddyNeedsResync
  <2>2. UNCHANGED <<flagVars, mgmtdVars>> =>
          /\ MgmtdOK' /\ flag' \in [Targets -> SUBSET {"required", "unacked"}]
          /\ retry' \in [Targets -> BOOLEAN]
    BY DEF IInv, TypeOK, MgmtdOK, flagVars, mgmtdVars
  <2> QED BY <2>1, <2>2, SetBuddyNeedsResyncType DEF IInv
<1>2. faults' \in 0 .. MaxFaults
  BY PaysType DEF CheckBuddyNeedsResync, IInv
<1>3. /\ job' \in [Targets -> {"none", "barrier", "copy", "set", "informGood", "informBad"}]
      /\ \A u \in Targets : job'[u] = "copy" => job[u] = "copy"
  BY DEF CheckBuddyNeedsResync, IInv, TypeOK
<1>4. TypeOK'
  BY <1>1, <1>2, <1>3 DEF IInv, TypeOK, MgmtdOK, CheckBuddyNeedsResync, mgmtdVars, flagVars, syncVars, jobVars, writeVars
<1> QED BY <1>3, <1>4, WritesStay DEF CheckBuddyNeedsResync

\* The timer entry of setBuddyNeedsResyncComm
LEMMA RetryStep ==
  ASSUME IInv, NEW t \in Targets, NEW o \in Outcomes, RetrySetBuddyNeedsResyncComm(t, o)
  PROVE  IInv' /\ AckedOnBuddy
<1>1. /\ MgmtdOK'
      /\ flag' \in [Targets -> SUBSET {"required", "unacked"}]
      /\ retry' \in [Targets -> BOOLEAN]
  <2>1. flag[t] \in SUBSET {"required", "unacked"}
    BY DEF IInv, TypeOK
  <2> QED BY <2>1, CommType DEF RetrySetBuddyNeedsResyncComm, IInv
<1>2. faults' \in 0 .. MaxFaults
  BY PaysType DEF RetrySetBuddyNeedsResyncComm, IInv
<1>3. TypeOK'
  BY <1>1, <1>2 DEF IInv, TypeOK, MgmtdOK, RetrySetBuddyNeedsResyncComm, mgmtdVars, flagVars, syncVars, jobVars, writeVars
<1> QED BY <1>3, WritesStay DEF RetrySetBuddyNeedsResyncComm, jobVars

\* The job tells that the buddy is resynced.
LEMMA JobSetStep ==
  ASSUME IInv, NEW t \in Targets, NEW o \in Outcomes, JobSetBuddyNeedsResync(t, o)
  PROVE  IInv' /\ AckedOnBuddy
<1>1. /\ MgmtdOK'
      /\ flag' \in [Targets -> SUBSET {"required", "unacked"}]
      /\ retry' \in [Targets -> BOOLEAN]
  <2>1. wasOffline[t] \in BOOLEAN
    BY DEF IInv, TypeOK
  <2> QED BY <2>1, SetBuddyNeedsResyncType DEF JobSetBuddyNeedsResync, IInv
<1>2. faults' \in 0 .. MaxFaults
  BY PaysType DEF JobSetBuddyNeedsResync, IInv
<1>3. TypeOK'
  BY <1>1, <1>2 DEF IInv, TypeOK, MgmtdOK, JobSetBuddyNeedsResync, mgmtdVars, flagVars, syncVars, jobVars, writeVars
<1> QED BY <1>3, WritesStay DEF JobSetBuddyNeedsResync, IInv, TypeOK

\* The buddy is told its new state.
LEMMA InformStep ==
  ASSUME IInv, NEW t \in Targets, NEW o \in Outcomes, InformBuddy(t, o)
  PROVE  IInv' /\ AckedOnBuddy
<1>1. MgmtdOK' /\ local' \in [Targets -> D!Consistency]
  <2> DEFINE s == IF job[t] = "informGood" THEN "GOOD" ELSE "BAD"
  <2>1. s \in D!Consistency /\ Other(t) \in Targets
    BY OtherType DEF D!Consistency
  <2>2. SetState(Other(t), s, o) \/ UNCHANGED <<mgmtdVars, local>>
    BY DEF InformBuddy
  <2>3. UNCHANGED <<mgmtdVars, local>> => MgmtdOK' /\ local' \in [Targets -> D!Consistency]
    BY DEF IInv, TypeOK, MgmtdOK, mgmtdVars
  <2> HIDE DEF s
  <2> QED BY <2>1, <2>2, <2>3, SetStateType DEF IInv
<1>2. faults' \in 0 .. MaxFaults
  BY PaysType, FaultType DEF InformBuddy, BuddySilent, IInv
<1>3. /\ job' \in [Targets -> {"none", "barrier", "copy", "set", "informGood", "informBad"}]
      /\ \A u \in Targets : job'[u] = "copy" => job[u] = "copy"
      /\ todo' \in [Targets -> SUBSET Writes]
      /\ errs' \in [Targets -> BOOLEAN] /\ wasOffline' \in [Targets -> BOOLEAN]
  BY JobEndsType DEF InformBuddy, IInv
<1>4. TypeOK'
  BY <1>1, <1>2, <1>3 DEF IInv, TypeOK, MgmtdOK, InformBuddy, flagVars, syncVars, writeVars
<1> QED BY <1>3, <1>4, WritesStay DEF InformBuddy

\* A job that fails without informing anybody
LEMMA JobFailsStep ==
  ASSUME IInv, NEW t \in Targets, JobFails(t)
  PROVE  IInv' /\ AckedOnBuddy
<1>1. faults' \in 0 .. MaxFaults
  BY FaultType DEF JobFails, BuddySilent, IInv
<1>2. /\ job' \in [Targets -> {"none", "barrier", "copy", "set", "informGood", "informBad"}]
      /\ \A u \in Targets : job'[u] = "copy" => job[u] = "copy"
      /\ todo' \in [Targets -> SUBSET Writes]
      /\ errs' \in [Targets -> BOOLEAN] /\ wasOffline' \in [Targets -> BOOLEAN]
  BY JobEndsType DEF JobFails, IInv
<1>3. open' \in [Targets -> BOOLEAN]
  BY DEF JobFails, IInv, TypeOK
<1>4. TypeOK'
  BY <1>1, <1>2, <1>3 DEF IInv, TypeOK, JobFails, mgmtdVars, flagVars, syncVars, writeVars
<1> QED BY <1>2, <1>4, WritesStay DEF JobFails

\* A chunk cannot be copied.
LEMMA CopyFailsStep ==
  ASSUME IInv, NEW t \in Targets, NEW w \in Writes, CopyFails(t, w)
  PROVE  IInv' /\ AckedOnBuddy
<1>1. MgmtdOK' /\ local' \in [Targets -> D!Consistency]
  <2>1. "BAD" \in D!Consistency /\ Other(t) \in Targets
    BY OtherType DEF D!Consistency
  <2>2. SetState(Other(t), "BAD", "ok") \/ UNCHANGED <<mgmtdVars, local>>
    BY DEF CopyFails
  <2>3. UNCHANGED <<mgmtdVars, local>> => MgmtdOK' /\ local' \in [Targets -> D!Consistency]
    BY DEF IInv, TypeOK, MgmtdOK, mgmtdVars
  <2> QED BY <2>1, <2>2, <2>3, SetStateType DEF IInv
<1>2. faults' \in 0 .. MaxFaults
  BY FaultType DEF CopyFails, IInv
<1>3. TypeOK'
  BY <1>1, <1>2 DEF IInv, TypeOK, MgmtdOK, CopyFails, flagVars, syncVars, writeVars
<1> QED BY <1>3, WritesStay DEF CopyFails

\* The daemon declares a silent target offline.
LEMMA MgmtdOfflineStep ==
  ASSUME IInv, NEW t \in Targets, MgmtdOffline(t)
  PROVE  IInv' /\ AckedOnBuddy
<1>1. MgmtdOK' /\ client' \in {{}, {A}, {B}}
  <2>1. MgmtdOK
    BY DEF IInv, TypeOK, MgmtdOK
  <2>2. client' \in {{}, {A}, {B}}
    BY DEF MgmtdOffline, IInv, TypeOK
  <2> QED BY <2>1, <2>2, OfflineType DEF MgmtdOffline
<1>2. TypeOK'
  BY <1>1 DEF IInv, TypeOK, MgmtdOK, MgmtdOffline, mgmtdVars, flagVars, syncVars, jobVars, writeVars
<1> QED BY <1>2, WritesStay DEF MgmtdOffline, jobVars

\* The daemon switches a group whose primary needs a resync.
LEMMA MgmtdResolveStep ==
  ASSUME IInv, MgmtdResolve
  PROVE  IInv' /\ AckedOnBuddy
<1>1. MgmtdOK'
  <2>1. MgmtdOK
    BY DEF IInv, TypeOK, MgmtdOK
  <2> QED BY <2>1, ResolveType DEF MgmtdResolve
<1>2. TypeOK'
  BY <1>1 DEF IInv, TypeOK, MgmtdOK, MgmtdResolve, mgmtdVars, flagVars, syncVars, jobVars, writeVars
<1> QED BY <1>2, WritesStay DEF MgmtdResolve, jobVars

\* Clients update their states.
LEMMA ClientUpdateStep ==
  ASSUME IInv, ClientUpdate
  PROVE  IInv' /\ AckedOnBuddy
<1>1. client' \in {{}, {A}, {B}}
  BY DEF ClientUpdate, IInv, TypeOK, Targets
<1>2. TypeOK'
  BY <1>1 DEF IInv, TypeOK, ClientUpdate, mgmtdVars, flagVars, syncVars, jobVars, writeVars
<1> QED BY <1>2, WritesStay DEF ClientUpdate, jobVars

\* Copying starts when no worker is left that has not locked its chunk.
LEMMA ResyncStartedStep ==
  ASSUME IInv, NEW t \in Targets, ResyncStarted(t)
  PROVE  IInv' /\ AckedOnBuddy
<1>1. TypeOK'
  BY OtherType DEF IInv, TypeOK, ResyncStarted, SyncCandidates, mgmtdVars, flagVars, syncVars, writeVars
<1>2. CopyLocked'
  BY DEF IInv, TypeOK, CopyLocked, ResyncStarted, Active, writeVars
<1>3. MirroredOnBuddy' /\ AckedOnBuddy
  BY DEF IInv, MirroredOnBuddy, AckedOnBuddy, ResyncStarted, writeVars
<1> QED BY <1>1, <1>2, <1>3 DEF IInv

\* A chunk that a write has locked is not touched, the others are made equal.
LEMMA CopyChunkStep ==
  ASSUME IInv, NEW t \in Targets, NEW w \in Writes, CopyChunk(t, w)
  PROVE  IInv' /\ AckedOnBuddy
<1>1. Other(t) \in Targets /\ Synced(t, w) \in SUBSET Writes /\ data \in [Targets -> SUBSET Writes]
  BY OtherType DEF IInv, TypeOK, Synced
<1>2. TypeOK'
  BY <1>1 DEF IInv, TypeOK, CopyChunk, mgmtdVars, flagVars, syncVars, writeVars
<1>3. UNCHANGED <<wpc, wsrv, wlock, acked, job>> /\ data' = [data EXCEPT ![Other(t)] = Synced(t, w)]
  BY DEF CopyChunk, writeVars
<1>4. CopyLocked' /\ AckedOnBuddy
  BY <1>3 DEF IInv, CopyLocked, AckedOnBuddy, Active
<1>5. ASSUME NEW v \in Writes, wpc[v] = "mirrored" PROVE v \in data'[Other(wsrv[v])]
  <2>1. v \in data[Other(wsrv[v])] /\ wsrv[v] \in Targets
    BY <1>5 DEF IInv, MirroredOnBuddy, TypeOK
  <2>2. CASE wsrv[v] = t
    <3>1. Active(v, t) /\ wlock[v]
      BY <1>5, <2>2 DEF IInv, CopyLocked, Active, CopyChunk
    <3>2. v # w
      BY <3>1 DEF CopyChunk
    <3> QED BY <1>1, <1>3, <2>1, <2>2, <3>2 DEF Synced
  <2>3. CASE wsrv[v] # t
    <3>1. Other(wsrv[v]) = t
      BY <2>1, <2>3 DEF Other, Targets
    <3> QED BY <1>1, <1>3, <2>1, <3>1, OtherType
  <2> QED BY <2>2, <2>3
<1>6. MirroredOnBuddy'
  BY <1>3, <1>5 DEF MirroredOnBuddy
<1> QED BY <1>2, <1>4, <1>6 DEF IInv

\* A write that starts during a resync locks its chunk.
LEMMA WriteStartStep ==
  ASSUME IInv, NEW t \in Targets, NEW w \in Writes, NEW o \in Outcomes, WriteStart(w, t, o)
  PROVE  IInv' /\ AckedOnBuddy
<1>1. /\ MgmtdOK'
      /\ flag' \in [Targets -> SUBSET {"required", "unacked"}]
      /\ retry' \in [Targets -> BOOLEAN]
  <2>1. UNCHANGED <<mgmtdVars, flagVars>> \/ SetBuddyNeedsResync(t, TRUE, o)
    BY DEF WriteStart
  <2>2. UNCHANGED <<mgmtdVars, flagVars>> =>
          /\ MgmtdOK' /\ flag' \in [Targets -> SUBSET {"required", "unacked"}]
          /\ retry' \in [Targets -> BOOLEAN]
    BY DEF IInv, TypeOK, MgmtdOK, flagVars, mgmtdVars
  <2> QED BY <2>1, <2>2, SetBuddyNeedsResyncType DEF IInv
<1>2. faults' \in 0 .. MaxFaults
  BY PaysType DEF WriteStart, IInv
<1>3. /\ \E to \in {"solo", "sent"} : wpc' = [wpc EXCEPT ![w] = to]
      /\ wsrv' = [wsrv EXCEPT ![w] = t]
      /\ wlock' = [wlock EXCEPT ![w] = job[t] # "none"]
      /\ UNCHANGED <<job, data, acked>>
  BY DEF WriteStart, jobVars
<1>4. /\ wpc' \in [Writes -> {"idle", "solo", "sent", "mirrored", "written", "done"}]
      /\ wsrv' \in [Writes -> Targets] /\ wlock' \in [Writes -> BOOLEAN]
      /\ open' \in [Targets -> BOOLEAN]
  BY <1>3 DEF IInv, TypeOK, WriteStart
<1>5. TypeOK'
  BY <1>1, <1>2, <1>4 DEF IInv, TypeOK, MgmtdOK, WriteStart, syncVars, jobVars
<1>6. CopyLocked'
  BY <1>3 DEF IInv, TypeOK, CopyLocked, Active
<1>7. MirroredOnBuddy' /\ AckedOnBuddy
  BY <1>3 DEF IInv, TypeOK, MirroredOnBuddy, AckedOnBuddy
<1> QED BY <1>5, <1>6, <1>7 DEF IInv

\* Writes that end leave the others as they are.
LEMMA WriteEndsType ==
  ASSUME IInv, NEW S \in SUBSET Writes, NEW result \in {"idle", "done"}, WriteEnds(S, result)
  PROVE  /\ wpc' \in [Writes -> {"idle", "solo", "sent", "mirrored", "written", "done"}]
         /\ wsrv' \in [Writes -> Targets] /\ wlock' \in [Writes -> BOOLEAN]
         /\ \A w \in Writes \ S : wpc'[w] = wpc[w] /\ wsrv'[w] = wsrv[w] /\ wlock'[w] = wlock[w]
         /\ \A w \in S : wpc'[w] = result
BY DEF IInv, TypeOK, WriteEnds, Targets

\* The invariant on writes after some have ended and chunks were written
LEMMA EndedWrites ==
  ASSUME IInv, NEW S \in SUBSET Writes, NEW result \in {"idle", "done"}, WriteEnds(S, result),
         \A t \in Targets : job'[t] = "copy" => job[t] = "copy",
         \A t \in Targets : data[t] \subseteq data'[t]
  PROVE  CopyLocked' /\ MirroredOnBuddy'
<1>1. /\ \A w \in Writes \ S : wpc'[w] = wpc[w] /\ wsrv'[w] = wsrv[w] /\ wlock'[w] = wlock[w]
      /\ \A w \in S : wpc'[w] = result
  BY WriteEndsType
<1>2. CopyLocked'
  BY <1>1 DEF IInv, CopyLocked, Active
<1>3. \A w \in Writes : wsrv[w] \in Targets /\ Other(wsrv[w]) \in Targets
  BY OtherType DEF IInv, TypeOK
<1>4. MirroredOnBuddy'
  BY <1>1, <1>3 DEF IInv, MirroredOnBuddy
<1> QED BY <1>2, <1>4

\* The buddy's half of a write
LEMMA MirrorWriteStep ==
  ASSUME IInv, NEW w \in Writes, MirrorWrite(w)
  PROVE  IInv' /\ AckedOnBuddy
<1> DEFINE b == Other(wsrv[w])
<1>1. b \in Targets /\ data \in [Targets -> SUBSET Writes] /\ wsrv[w] \in Targets
  BY OtherType DEF IInv, TypeOK
<1>2. /\ data' = [data EXCEPT ![b] = @ \cup {w}] /\ open' = [open EXCEPT ![b] = TRUE]
      /\ UNCHANGED <<mgmtdVars, srv, session, local, wait, flagVars, syncVars, jobVars,
                     faults, client>>
  BY DEF MirrorWrite
<1> HIDE DEF b
<1>3. /\ data' \in [Targets -> SUBSET Writes] /\ open' \in [Targets -> BOOLEAN]
      /\ \A t \in Targets : data[t] \subseteq data'[t]
      /\ w \in data'[b] /\ job' = job
  BY <1>1, <1>2 DEF IInv, TypeOK, jobVars
<1>4. CASE wpc[w] = "sent"
  <2>1. wpc' = [wpc EXCEPT ![w] = "mirrored"] /\ UNCHANGED <<wsrv, wlock, acked>>
    BY <1>4 DEF MirrorWrite
  <2>2. TypeOK'
    BY <1>2, <1>3, <2>1 DEF IInv, TypeOK, mgmtdVars, flagVars, syncVars, jobVars
  <2>3. CopyLocked'
    BY <1>3, <1>4, <2>1 DEF IInv, TypeOK, CopyLocked, Active
  <2>4. MirroredOnBuddy'
    <3>1. \A v \in Writes : Other(wsrv[v]) \in Targets
      BY OtherType DEF IInv, TypeOK
    <3> QED BY <1>3, <2>1, <3>1 DEF IInv, TypeOK, MirroredOnBuddy, b
  <2> QED BY <2>1, <2>2, <2>3, <2>4 DEF IInv, AckedOnBuddy
<1>5. CASE wpc[w] = "written"
  <2>1. WriteEnds({w}, "done") /\ acked' = acked \cup {w}
    BY <1>5 DEF MirrorWrite
  <2>2. /\ wpc' \in [Writes -> {"idle", "solo", "sent", "mirrored", "written", "done"}]
        /\ wsrv' \in [Writes -> Targets] /\ wlock' \in [Writes -> BOOLEAN]
    BY <2>1, WriteEndsType
  <2>3. TypeOK'
    BY <1>2, <1>3, <2>1, <2>2 DEF IInv, TypeOK, mgmtdVars, flagVars, syncVars, jobVars
  <2>4. CopyLocked' /\ MirroredOnBuddy'
    BY <1>3, <2>1, EndedWrites
  <2>5. AckedOnBuddy
    BY <1>3, <2>1 DEF AckedOnBuddy, b
  <2> QED BY <2>3, <2>4, <2>5 DEF IInv
<1> QED BY <1>4, <1>5 DEF MirrorWrite

\* The primary's half of a write
LEMMA LocalWriteStep ==
  ASSUME IInv, NEW w \in Writes, LocalWrite(w)
  PROVE  IInv' /\ AckedOnBuddy
<1>1. data \in [Targets -> SUBSET Writes] /\ wsrv[w] \in Targets
  BY DEF IInv, TypeOK
<1>2. /\ data' = [data EXCEPT ![wsrv[w]] = @ \cup {w}]
      /\ UNCHANGED <<mgmtdVars, srv, session, local, wait, flagVars, syncVars, open, jobVars,
                     faults, client>>
  BY DEF LocalWrite
<1>3. /\ data' \in [Targets -> SUBSET Writes] /\ job' = job
      /\ \A t \in Targets : data[t] \subseteq data'[t]
  BY <1>1, <1>2 DEF jobVars
<1>4. \A v \in Writes : Other(wsrv[v]) \in Targets
  BY OtherType DEF IInv, TypeOK
<1>5. CASE wpc[w] = "sent"
  <2>1. wpc' = [wpc EXCEPT ![w] = "written"] /\ UNCHANGED <<wsrv, wlock, acked>>
    BY <1>5 DEF LocalWrite
  <2>2. TypeOK'
    BY <1>2, <1>3, <2>1 DEF IInv, TypeOK, mgmtdVars, flagVars, syncVars, jobVars
  <2>3. CopyLocked'
    BY <1>3, <1>5, <2>1 DEF IInv, TypeOK, CopyLocked, Active
  <2>4. MirroredOnBuddy'
    BY <1>3, <1>4, <2>1 DEF IInv, TypeOK, MirroredOnBuddy
  <2> QED BY <2>1, <2>2, <2>3, <2>4 DEF IInv, AckedOnBuddy
<1>6. CASE wpc[w] \in {"mirrored", "solo"}
  <2>1. WriteEnds({w}, "done") /\ acked' = acked \cup {w}
    BY <1>6 DEF LocalWrite
  <2>2. /\ wpc' \in [Writes -> {"idle", "solo", "sent", "mirrored", "written", "done"}]
        /\ wsrv' \in [Writes -> Targets] /\ wlock' \in [Writes -> BOOLEAN]
    BY <2>1, WriteEndsType
  <2>3. TypeOK'
    BY <1>2, <1>3, <2>1, <2>2 DEF IInv, TypeOK, mgmtdVars, flagVars, syncVars, jobVars
  <2>4. CopyLocked' /\ MirroredOnBuddy'
    BY <1>3, <2>1, EndedWrites
  <2>5. AckedOnBuddy
    BY <1>3, <1>4, <1>6, <2>1 DEF AckedOnBuddy, IInv, MirroredOnBuddy
  <2> QED BY <2>3, <2>4, <2>5 DEF IInv
<1> QED BY <1>5, <1>6 DEF LocalWrite

\* A write that fails is forgotten.
LEMMA WriteFailsStep ==
  ASSUME IInv, NEW w \in Writes, WriteFails(w)
  PROVE  IInv' /\ AckedOnBuddy
<1>1. WriteEnds({w}, "idle") /\ UNCHANGED <<job, data, acked>>
  BY DEF WriteFails, jobVars
<1>2. /\ wpc' \in [Writes -> {"idle", "solo", "sent", "mirrored", "written", "done"}]
      /\ wsrv' \in [Writes -> Targets] /\ wlock' \in [Writes -> BOOLEAN]
  BY <1>1, WriteEndsType
<1>3. faults' \in 0 .. MaxFaults
  BY FaultType DEF WriteFails, BuddySilent, IInv
<1>4. TypeOK'
  BY <1>2, <1>3 DEF IInv, TypeOK, WriteFails, mgmtdVars, flagVars, syncVars, jobVars
<1>5. CopyLocked' /\ MirroredOnBuddy'
  BY <1>1, EndedWrites
<1> QED BY <1>1, <1>4, <1>5 DEF IInv, AckedOnBuddy

\* A crash or a shutdown ends the server's job and its writes.
LEMMA ForgetStep ==
  ASSUME IInv, NEW t \in Targets, Crash(t) \/ Stop(t)
  PROVE  IInv' /\ AckedOnBuddy
<1> DEFINE S == {w \in Writes : Active(w, t)}
<1>1. Forget(t) /\ session' \in [Targets -> BOOLEAN] /\ S \in SUBSET Writes
  BY DEF Crash, Stop, IInv, TypeOK
<1>2. faults' \in 0 .. MaxFaults
  BY FaultType DEF Crash, Stop, IInv
<1>3. WriteEnds(S, "idle") /\ JobEnds(t) /\ UNCHANGED <<data, acked>>
  BY <1>1 DEF Forget
<1> HIDE DEF S
<1>4. /\ wpc' \in [Writes -> {"idle", "solo", "sent", "mirrored", "written", "done"}]
      /\ wsrv' \in [Writes -> Targets] /\ wlock' \in [Writes -> BOOLEAN]
  BY <1>1, <1>3, WriteEndsType
<1>5. /\ job' \in [Targets -> {"none", "barrier", "copy", "set", "informGood", "informBad"}]
      /\ \A u \in Targets : job'[u] = "copy" => job[u] = "copy"
      /\ todo' \in [Targets -> SUBSET Writes]
      /\ errs' \in [Targets -> BOOLEAN] /\ wasOffline' \in [Targets -> BOOLEAN]
  BY <1>3, JobEndsType DEF IInv
<1>6. TypeOK'
  BY <1>1, <1>2, <1>4, <1>5, BlankType DEF IInv, TypeOK, Forget, mgmtdVars, D!Consistency
<1>7. CopyLocked' /\ MirroredOnBuddy'
  BY <1>1, <1>3, <1>5, EndedWrites
<1> QED BY <1>3, <1>6, <1>7 DEF IInv, AckedOnBuddy

-----------------------------------------------------------------------------
(* Theorems                                                                *)

\* The invariant holds in the initial state.
LEMMA InitIInv == Init => IInv
<1> SUFFICES ASSUME Init PROVE IInv
  OBVIOUS
<1>1. A \in Targets /\ B \in Targets
  BY DEF Targets
<1>2. primary \in [{Group} -> Targets] /\ primary[Group] = A
  BY <1>1 DEF Init, InitWith, Only
<1>3. Snapshot \in View
  BY <1>1, <1>2 DEF Init, InitWith, Snapshot, View, D!Reachability, D!Consistency
<1>4. TypeOK
  BY <1>1, <1>2, <1>3, BlankType, FaultsAssumption
     DEF Init, InitWith, TypeOK, D!Reachability, D!Consistency
<1>5. CopyLocked /\ MirroredOnBuddy
  BY DEF Init, InitWith, CopyLocked, MirroredOnBuddy
<1> QED BY <1>4, <1>5 DEF IInv

\* Every step keeps the invariant and acknowledges only what is on the buddy.
LEMMA NextIInv == IInv /\ [Next]_vars => IInv' /\ AckedOnBuddy
<1> SUFFICES ASSUME IInv, [Next]_vars PROVE IInv' /\ AckedOnBuddy
  OBVIOUS
<1>1. CASE UNCHANGED vars
  <2>1. TypeOK'
    BY <1>1 DEF IInv, TypeOK, vars, mgmtdVars, flagVars, syncVars, jobVars, writeVars
  <2> QED BY <1>1, <2>1, WritesStay DEF vars, jobVars
<1>2. ASSUME NEW t \in Targets, Syncer(t) PROVE IInv' /\ AckedOnBuddy
  BY <1>2, DownloadStatesAndBuddyGroupsStep, DownloadFailsStep, SyncStatesAndGroupsStep,
     DecideStep, PublishStep, CheckStep DEF Syncer
<1>3. ASSUME NEW t \in Targets, Job(t) PROVE IInv' /\ AckedOnBuddy
  BY <1>3, ResyncStartedStep, JobFailsStep, AbortJobStep, CopyChunkStep, CopyFailsStep,
     JobVerdictStep, JobSetStep, InformStep DEF Job
<1>4. ASSUME NEW t \in Targets, Server(t) PROVE IInv' /\ AckedOnBuddy
  BY <1>4, ForgetStep, StartStep, StartUpStep, OfflineTimeoutEndsStep, RetryStep DEF Server
<1>5. ASSUME NEW w \in Writes, Write(w) PROVE IInv' /\ AckedOnBuddy
  BY <1>5, WriteStartStep, MirrorWriteStep, LocalWriteStep, WriteFailsStep DEF Write
<1> QED BY <1>1, <1>2, <1>3, <1>4, <1>5, MgmtdOfflineStep, MgmtdResolveStep, ClientUpdateStep
        DEF Next

\* The states of daemon, servers, resync jobs and writes have their types, for any
\* number of writes and faults.
THEOREM TypeCorrect == Spec => []TypeOK
<1>1. IInv => TypeOK
  BY DEF IInv
<1>2. IInv /\ [Next]_vars => IInv'
  BY NextIInv
<1> QED BY <1>1, <1>2, InitIInv, PTL DEF Spec

\* A forwarded write is on the buddy when the client is told of its success, for any
\* number of writes and whatever crashes, stops, lost requests, failed downloads, disk
\* errors, aborted resyncs and switchovers come before: the barrier of BuddyResyncJob and
\* the chunk locks keep the resync from removing it in between.
THEOREM AckedWritesMirrored == Spec => MirroredAckOnBuddy
<1>1. IInv /\ [Next]_vars => IInv'
  BY NextIInv
<1>2. IInv /\ [Next]_vars =>
        [\A w \in acked' \ acked : wpc[w] # "solo" => w \in data'[Other(wsrv[w])]]_vars
  BY NextIInv DEF AckedOnBuddy
<1> QED BY <1>1, <1>2, InitIInv, PTL DEF Spec, MirroredAckOnBuddy

-----------------------------------------------------------------------------
(* At most one fault. The invariant speaks of the two servers by their     *)
(* part in it: the survivor s has had no fault, the victim v may have had  *)
(* one. Before any fault either server can be called the survivor.         *)

\* s and v are the two targets of the group.
Buddies(s, v) ==
  /\ s \in Targets /\ v \in Targets /\ s # v /\ Targets = {s, v}
  /\ Other(s) = v /\ Other(v) = s

\* The daemon can see v, and will see it from now on.
Back(s, v) ==
  /\ reach[v] = "ONLINE" /\ srv[v] = "up" /\ ~wait[v] /\ view[v].reach[s] # "POFFLINE"

\* The survivor is up, ONLINE and GOOD ...
Healthy(s) ==
  /\ srv[s] = "up" /\ ~wait[s] /\ local[s] = "GOOD" /\ new[s] = "GOOD"
  /\ reach[s] = "ONLINE" /\ cons[s] = "GOOD" /\ view[s].reach[s] = "ONLINE"

\* ... and is never seen in another state, except by a server that cannot download.
SeenHealthy(s) ==
  \A t \in Targets :
    /\ view[t].reach[s] # "OFFLINE" /\ got[t].reach[s] # "OFFLINE"
    /\ view[t].cons[s] = "GOOD" /\ got[t].cons[s] = "GOOD"
    /\ pc[t] = "got" => got[t].reach[s] = "ONLINE"
    /\ pc[t] \in {"decide", "publish"} => view[t].reach[s] = "ONLINE"

\* A group is switched at most once, to the survivor.
NoSwitchBack(s) ==
  /\ found = {}
  /\ s = A => primary[Group] = s
  /\ \A t \in Targets : view[t].primary = s \/ got[t].primary = s => primary[Group] = s
  /\ pc[s] = "got" /\ view[s].primary = s => got[s].primary = s

\* The victim marks nobody and resyncs nobody, and the survivor's requests and
\* resyncs meet no error.
NoErrors(s, v) ==
  /\ flag[v] = {} /\ flag[s] \subseteq {"required"}
  /\ job[v] = "none" /\ job[s] # "informBad"
  /\ \A t \in Targets : ~retry[t] /\ ~errs[t] /\ ~wasOffline[t]

\* The victim is OFFLINE, marked or in need of a resync only after the survivor has
\* become the primary, or while it waits for its offline timeout.
Replaced(s, v) ==
  /\ \/ reach[v] = "OFFLINE" \/ cons[v] # "GOOD" \/ got[v].cons[v] # "GOOD"
     \/ flag[s] # {}
     => primary[Group] = s
  /\ local[v] # "GOOD" \/ new[v] # "GOOD" => wait[v] \/ primary[Group] = s
  /\ srv[v] # "up" => ~wait[v]

\* A victim that was OFFLINE or marked is OFFLINE or back. The survivor resyncs it
\* only when it is back, and sees it ONLINE to the end.
Returned(s, v) ==
  /\ \/ flag[s] # {} \/ cons[v] # "GOOD"
     \/ view[s].reach[v] = "OFFLINE" \/ got[s].reach[v] = "OFFLINE"
     => reach[v] = "OFFLINE" \/ Back(s, v)
  /\ view[s].cons[v] # "GOOD" => view[s].reach[v] = "OFFLINE" \/ Back(s, v)
  /\ got[s].cons[v] # "GOOD" => got[s].reach[v] = "OFFLINE" \/ Back(s, v)
  /\ job[s] # "none" => /\ view[s].primary = s
                        /\ Back(s, v)
                        /\ view[s].reach[v] = "ONLINE"
                        /\ pc[s] = "got" => got[s].reach[v] = "ONLINE"

\* The survivor has every acknowledged write. What the victim misses is marked, and
\* still to be copied by a resync that copies.
Chunks(s, v) ==
  /\ acked \subseteq data[s]
  /\ acked \subseteq data[v] \/ flag[s] # {}
  /\ job[s] = "copy" => acked \ data[v] \subseteq todo[s]
  /\ job[s] \in {"set", "informGood"} => acked \subseteq data[v]

\* Writes that leave the victim out are marked and come before the barrier of a resync;
\* what a server has written of a forwarded write stays there.
WritesMarked(s, v) ==
  \A w \in Writes :
    /\ wpc[w] = "solo" => /\ wsrv[w] = s /\ ~wlock[w] /\ flag[s] # {}
                          /\ job[s] \in {"none", "barrier"}
    /\ wpc[w] = "written" /\ wsrv[w] = s => w \in data[s]
    /\ wpc[w] = "written" /\ wsrv[w] = v /\ view[s].primary # s => w \in data[v]

\* The fault is contained: daemon, servers and jobs
Contained(s, v) ==
  /\ Healthy(s) /\ SeenHealthy(s) /\ NoSwitchBack(s) /\ NoErrors(s, v)
  /\ Replaced(s, v) /\ Returned(s, v)

\* The acknowledged writes survive it.
Survives(s, v) == Contained(s, v) /\ Chunks(s, v) /\ WritesMarked(s, v)

\* The inductive invariant for at most one fault
OneFaultInv ==
  /\ faults = 0 => \A s, v \in Targets : Buddies(s, v) => Survives(s, v)
  /\ \E s, v \in Targets : Buddies(s, v) /\ Survives(s, v)

\* The hypotheses of the steps below
Calm(s, v) == IInv /\ Buddies(s, v) /\ Survives(s, v)

-----------------------------------------------------------------------------
(* Steps that are no fault                                                 *)

\* What a step leaves alone stays true.
LEMMA ContainedStays ==
  ASSUME NEW s, NEW v, Contained(s, v),
         UNCHANGED <<mgmtdVars, srv, wait, local, syncVars, flagVars, job, errs, wasOffline>>
  PROVE  Contained(s, v)'
BY DEF Contained, Healthy, SeenHealthy, NoSwitchBack, NoErrors, Replaced, Returned, Back,
       mgmtdVars, syncVars, flagVars

\* The same for what is on the disks
LEMMA ChunksStay ==
  ASSUME NEW s, NEW v, Chunks(s, v), UNCHANGED <<acked, data, flag, job, todo>>
  PROVE  Chunks(s, v)'
BY DEF Chunks

\* and for writes under way
LEMMA WritesStayMarked ==
  ASSUME NEW s, NEW v, WritesMarked(s, v), UNCHANGED <<wpc, wsrv, wlock, data, flag, job>>,
         view[s].primary = s => view'[s].primary = s
  PROVE  WritesMarked(s, v)'
BY DEF WritesMarked

\* Downloaded states show what the daemon has.
LEMMA DownloadKeeps ==
  ASSUME NEW s, NEW v, Calm(s, v), NEW t \in Targets, DownloadStatesAndBuddyGroups(t)
  PROVE  Survives(s, v)'
<1> USE DEF Calm, Survives
<1>1. /\ got \in [Targets -> View] /\ pc \in [Targets -> {"idle", "got", "decide", "publish", "check"}]
      /\ s \in Targets /\ v \in Targets /\ s # v
  BY DEF IInv, TypeOK, Buddies
<1>2. /\ got' = [got EXCEPT ![t] = [reach |-> reach, cons |-> cons, primary |-> primary[Group]]]
      /\ pc[t] = "idle" /\ pc' = [pc EXCEPT ![t] = "got"]
      /\ UNCHANGED <<reach, cons, primary, found, srv, local, wait, flag, retry, view, new, job, todo,
                     errs, wasOffline, data, wpc, wsrv, wlock, acked>>
  BY DEF DownloadStatesAndBuddyGroups, Snapshot, mgmtdVars, flagVars, jobVars, writeVars
<1>3. Healthy(s)' /\ NoErrors(s, v)' /\ Chunks(s, v)' /\ WritesMarked(s, v)'
  BY <1>2 DEF Contained, Healthy, NoErrors, Chunks, WritesMarked
<1>4. SeenHealthy(s)'
  BY <1>1, <1>2 DEF Contained, Healthy, SeenHealthy
<1>5. NoSwitchBack(s)'
  BY <1>1, <1>2 DEF Contained, NoSwitchBack
<1>6. Replaced(s, v)'
  BY <1>1, <1>2 DEF Contained, Replaced
<1>7. Returned(s, v)'
  BY <1>1, <1>2 DEF Contained, Returned, Back
<1> QED BY <1>3, <1>4, <1>5, <1>6, <1>7 DEF Contained

\* They become visible.
LEMMA SyncKeeps ==
  ASSUME NEW s, NEW v, Calm(s, v), NEW t \in Targets, SyncStatesAndGroups(t)
  PROVE  Survives(s, v)'
<1> USE DEF Calm, Survives
<1>1. /\ got \in [Targets -> View] /\ pc \in [Targets -> {"idle", "got", "decide", "publish", "check"}]
      /\ view \in [Targets -> View] /\ wasOffline \in [Targets -> BOOLEAN]
      /\ s \in Targets /\ v \in Targets /\ s # v /\ t \in {s, v}
  BY DEF IInv, TypeOK, Buddies
<1>2. /\ view' = [view EXCEPT ![t] = got[t]]
      /\ wasOffline' = [wasOffline EXCEPT ![t] = @ \/ (job[t] # "none" /\ got[t].reach[t] = "OFFLINE")]
      /\ pc[t] = "got" /\ pc' = [pc EXCEPT ![t] = "decide"]
      /\ UNCHANGED <<reach, cons, primary, found, srv, local, wait, flag, retry, got, new, job, todo,
                     errs, data, wpc, wsrv, wlock, acked>>
  BY DEF SyncStatesAndGroups, mgmtdVars, flagVars, jobVars, writeVars
<1>3. Chunks(s, v)'
  BY <1>2 DEF Chunks
<1>4. NoErrors(s, v)'
  BY <1>1, <1>2 DEF Contained, NoErrors, SeenHealthy
<1>5. Healthy(s)' /\ SeenHealthy(s)'
  BY <1>1, <1>2 DEF Contained, Healthy, SeenHealthy
<1>6. NoSwitchBack(s)' /\ (view[s].primary = s => view'[s].primary = s)
  BY <1>1, <1>2 DEF Contained, NoSwitchBack
<1>7. Replaced(s, v)'
  BY <1>1, <1>2 DEF Contained, Replaced
<1>8. Returned(s, v)'
  <2>1. Back(s, v) => Back(s, v)'
    BY <1>1, <1>2 DEF Contained, Back, SeenHealthy
  <2> QED BY <1>1, <1>2, <1>6, <2>1 DEF Contained, Returned
<1>9. WritesMarked(s, v)'
  BY <1>2, <1>6, WritesStayMarked
<1> QED BY <1>3, <1>4, <1>5, <1>6, <1>7, <1>8, <1>9 DEF Contained

\* The survivor stays GOOD, the victim decides according to what it has seen.
LEMMA DecideKeeps ==
  ASSUME NEW s, NEW v, Calm(s, v), NEW t \in Targets, Decide(t)
  PROVE  Survives(s, v)'
<1> USE DEF Calm, Survives
<1> DEFINE d == DecideResync(local[t], wait[t], TRUE, got[t].cons[t])
           n == IF d = "BAD" THEN got[t].cons[t] ELSE d
<1>1. /\ got \in [Targets -> View] /\ pc \in [Targets -> {"idle", "got", "decide", "publish", "check"}]
      /\ local \in [Targets -> D!Consistency] /\ new \in [Targets -> D!Consistency]
      /\ s \in Targets /\ v \in Targets /\ s # v /\ t \in {s, v}
  BY DEF IInv, TypeOK, Buddies
<1>2. /\ local' = [local EXCEPT ![t] = d] /\ new' = [new EXCEPT ![t] = n]
      /\ pc[t] = "decide" /\ pc' = [pc EXCEPT ![t] = "publish"]
      /\ UNCHANGED <<reach, cons, primary, found, srv, wait, flag, retry, got, view, job, todo,
                     errs, wasOffline, data, wpc, wsrv, wlock, acked>>
  BY DEF Decide, mgmtdVars, flagVars, jobVars, writeVars
<1>3. t = s => d = "GOOD" /\ n = "GOOD"
  BY DEF Contained, Healthy, SeenHealthy, DecideResync
<1>4. d # "GOOD" \/ n # "GOOD" => wait[t] \/ local[t] # "GOOD" \/ got[t].cons[t] # "GOOD"
  BY DEF DecideResync
<1> HIDE DEF d, n
<1>5. Healthy(s)' /\ SeenHealthy(s)' /\ NoSwitchBack(s)'
  BY <1>1, <1>2, <1>3 DEF Contained, Healthy, SeenHealthy, NoSwitchBack
<1>6. Replaced(s, v)'
  BY <1>1, <1>2, <1>4 DEF Contained, Replaced
<1>7. NoErrors(s, v)' /\ Returned(s, v)' /\ Chunks(s, v)' /\ WritesMarked(s, v)'
  BY <1>1, <1>2 DEF Contained, NoErrors, Returned, Back, Chunks, WritesMarked
<1> QED BY <1>5, <1>6, <1>7 DEF Contained

\* A report changes the daemon's states of the reporting target at most, and nothing
\* while that target waits for its offline timeout. It switches no group.
LEMMA PublishEffect ==
  ASSUME NEW s, NEW v, Calm(s, v), NEW t \in Targets, NEW o \in Outcomes,
         PublishLocalTargetStateChanges(t, o)
  PROVE  /\ UNCHANGED <<primary, found>>
         /\ \A u \in Targets \ {t} : reach'[u] = reach[u] /\ cons'[u] = cons[u]
         /\ \/ reach'[t] = reach[t] /\ cons'[t] = cons[t]
            \/ ~wait[t] /\ reach'[t] = "ONLINE" /\ cons'[t] = new[t]
<1> USE DEF Calm, Survives
<1> DEFINE old == IF wait[t] THEN <<>> ELSE Only(t, got[t].cons[t])
           upd == IF wait[t] THEN <<>> ELSE Only(t, new[t])
<1>1. \/ UNCHANGED mgmtdVars
      \/ D!ChangeTargetConsistencyStates(old, upd, {t})
  BY DEF PublishLocalTargetStateChanges
<1>2. wait[t] => DOMAIN upd = {}
  OBVIOUS
<1>3. ~wait[t] => DOMAIN upd = {t} /\ upd[t] = new[t]
  BY DEF Only
<1>4. DOMAIN upd \subseteq {t}
  BY <1>2, <1>3
<1> HIDE DEF old, upd
<1>5. CASE D!ChangeTargetConsistencyStates(old, upd, {t}) /\ ~UNCHANGED mgmtdVars
  <2>1. /\ cons' = [u \in Targets |-> IF u \in DOMAIN upd THEN upd[u] ELSE cons[u]]
        /\ reach' = [u \in Targets |-> IF u \in DOMAIN upd THEN "ONLINE" ELSE reach[u]]
        /\ primary' = D!Switched(D!ReportSwitches(upd, {t}))
        /\ UNCHANGED found
    BY <1>5 DEF D!ChangeTargetConsistencyStates, D!mgmtdVars, mgmtdVars
  <2>2. primary \in [{Group} -> Targets] /\ primary[Group] \in {s, v}
    BY DEF IInv, TypeOK, Buddies
  <2>3. D!OtherOf(Group, s) = v /\ D!OtherOf(Group, v) = s
    BY TargetsDiffer DEF D!OtherOf, Only, Buddies, Other, Targets
  <2>4. Group \notin D!ReportSwitches(upd, {t})
    BY <2>2, <2>3 DEF D!ReportSwitches, Contained, Healthy
  <2>5. primary' = primary
    BY <2>1, <2>2, <2>4 DEF D!Switched
  <2> QED BY <1>2, <1>3, <1>4, <2>1, <2>5 DEF IInv, TypeOK
<1>6. CASE UNCHANGED mgmtdVars
  BY <1>6 DEF mgmtdVars
<1> QED BY <1>1, <1>5, <1>6

\* publishLocalTargetStateChanges: the victim is back.
LEMMA PublishKeeps ==
  ASSUME NEW s, NEW v, Calm(s, v), NEW t \in Targets, NEW o \in Outcomes,
         PublishLocalTargetStateChanges(t, o)
  PROVE  Survives(s, v)'
<1> USE DEF Calm, Survives
<1>1. /\ got \in [Targets -> View] /\ pc \in [Targets -> {"idle", "got", "decide", "publish", "check"}]
      /\ new \in [Targets -> D!Consistency]
      /\ s \in Targets /\ v \in Targets /\ s # v /\ t \in {s, v} /\ Targets = {s, v}
      /\ Blank.cons[s] = "GOOD" /\ Blank.cons[v] = "GOOD" /\ Blank.primary = A
      /\ Blank.reach[s] = "POFFLINE" /\ Blank.reach[v] = "POFFLINE"
  BY DEF IInv, TypeOK, Buddies, Blank
<1>2. /\ got' = [got EXCEPT ![t] = Blank] /\ new' = [new EXCEPT ![t] = "GOOD"]
      /\ pc[t] = "publish" /\ pc' \in [Targets -> {"idle", "got", "decide", "publish", "check"}]
      /\ pc'[t] \in {"idle", "check"} /\ \A u \in Targets \ {t} : pc'[u] = pc[u]
      /\ srv[t] = "up"
      /\ UNCHANGED <<srv, local, wait, flag, retry, view, job, todo,
                     errs, wasOffline, data, wpc, wsrv, wlock, acked>>
  BY <1>1 DEF PublishLocalTargetStateChanges, flagVars, jobVars, writeVars
<1>3. /\ UNCHANGED <<primary, found>>
      /\ \A u \in Targets \ {t} : reach'[u] = reach[u] /\ cons'[u] = cons[u]
      /\ \/ reach'[t] = reach[t] /\ cons'[t] = cons[t]
         \/ ~wait[t] /\ reach'[t] = "ONLINE" /\ cons'[t] = new[t]
  BY PublishEffect
<1>4. Healthy(s)' /\ SeenHealthy(s)'
  BY <1>1, <1>2, <1>3 DEF Contained, Healthy, SeenHealthy
<1>5. NoSwitchBack(s)'
  BY <1>1, <1>2, <1>3 DEF Contained, NoSwitchBack
<1>6. Replaced(s, v)'
  BY <1>1, <1>2, <1>3 DEF Contained, Replaced
<1>7. Returned(s, v)'
  <2>1. t = v /\ reach'[v] # reach[v] => Back(s, v)'
    BY <1>1, <1>2, <1>3 DEF Contained, Back, SeenHealthy
  <2>2. t = v /\ cons'[v] # cons[v] => Back(s, v)'
    BY <1>1, <1>2, <1>3 DEF Contained, Back, SeenHealthy
  <2>3. Back(s, v) => Back(s, v)'
    BY <1>1, <1>2, <1>3 DEF Back
  <2> QED BY <1>1, <1>2, <1>3, <2>1, <2>2, <2>3 DEF Contained, Returned
<1>8. NoErrors(s, v)' /\ Chunks(s, v)' /\ WritesMarked(s, v)'
  BY <1>1, <1>2 DEF Contained, NoErrors, Chunks, WritesMarked
<1> QED BY <1>4, <1>5, <1>6, <1>7, <1>8 DEF Contained

\* checkBuddyNeedsResync: a mark is not repeated, and a resync is started by a survivor
\* that has seen the victim back.
LEMMA CheckKeeps ==
  ASSUME NEW s, NEW v, Calm(s, v), NEW t \in Targets, NEW o \in Outcomes,
         CheckBuddyNeedsResync(t, o)
  PROVE  Survives(s, v)'
<1> USE DEF Calm, Survives
<1>1. /\ pc \in [Targets -> {"idle", "got", "decide", "publish", "check"}]
      /\ job \in [Targets -> {"none", "barrier", "copy", "set", "informGood", "informBad"}]
      /\ view \in [Targets -> View]
      /\ s \in Targets /\ v \in Targets /\ s # v /\ t \in {s, v} /\ Other(s) = v /\ Other(v) = s
  BY DEF IInv, TypeOK, Buddies
<1>2. UNCHANGED <<flag, retry, reach, cons, primary, found>>
  BY DEF CheckBuddyNeedsResync, SetBuddyNeedsResync, flagVars, mgmtdVars
<1>3. /\ pc' = [pc EXCEPT ![t] = "idle"]
      /\ UNCHANGED <<srv, local, wait, view, got, new, todo, errs, wasOffline, data, wpc, wsrv,
                     wlock, acked>>
  BY DEF CheckBuddyNeedsResync, writeVars
<1>4. \/ job' = job
      \/ /\ t = s /\ job[s] = "none" /\ job' = [job EXCEPT ![s] = "barrier"]
         /\ view[s].primary = s /\ view[s].reach[v] = "ONLINE"
         /\ view[s].cons[v] = "NEEDS_RESYNC"
  BY <1>1 DEF CheckBuddyNeedsResync, IsPrimary, Contained, SeenHealthy
<1>5. Healthy(s)' /\ SeenHealthy(s)' /\ NoSwitchBack(s)'
  BY <1>1, <1>2, <1>3 DEF Contained, Healthy, SeenHealthy, NoSwitchBack
<1>6. NoErrors(s, v)' /\ Replaced(s, v)'
  BY <1>1, <1>2, <1>3, <1>4 DEF Contained, NoErrors, Replaced
<1>7. Returned(s, v)'
  <2>1. Back(s, v) => Back(s, v)'
    BY <1>2, <1>3 DEF Back
  <2> QED BY <1>1, <1>2, <1>3, <1>4, <2>1 DEF Contained, Returned
<1>8. Chunks(s, v)' /\ WritesMarked(s, v)'
  BY <1>1, <1>2, <1>3, <1>4 DEF Chunks, WritesMarked
<1> QED BY <1>5, <1>6, <1>7, <1>8 DEF Contained

\* Nothing is queued for the timer.
LEMMA RetryKeeps ==
  ASSUME NEW s, NEW v, Calm(s, v), NEW t \in Targets, NEW o \in Outcomes,
         RetrySetBuddyNeedsResyncComm(t, o)
  PROVE  Survives(s, v)'
BY DEF Calm, Survives, Contained, NoErrors, RetrySetBuddyNeedsResyncComm

\* Only the victim starts. It sees the group as the daemon has it,
LEMMA StartKeeps ==
  ASSUME NEW s, NEW v, Calm(s, v), NEW t \in Targets, Start(t)
  PROVE  Survives(s, v)'
<1> USE DEF Calm, Survives
<1>1. /\ srv \in [Targets -> {"down", "starting", "up"}] /\ view \in [Targets -> View]
      /\ s \in Targets /\ v \in Targets /\ s # v /\ t = v
  BY DEF IInv, TypeOK, Buddies, Start, Contained, Healthy
<1>2. /\ srv' = [srv EXCEPT ![v] = "starting"] /\ srv[v] # "up"
      /\ view'[s] = view[s] /\ view'[v].reach = view[v].reach /\ view'[v].cons = view[v].cons
      /\ view'[v].primary = primary[Group]
      /\ UNCHANGED <<reach, cons, primary, found, local, wait, flag, retry, got, pc, new, job, todo,
                     errs, wasOffline, data, wpc, wsrv, wlock, acked>>
  BY <1>1 DEF Start, mgmtdVars, flagVars, jobVars, writeVars, View
<1>3. Healthy(s)' /\ NoSwitchBack(s)' /\ NoErrors(s, v)'
  BY <1>1, <1>2 DEF Contained, Healthy, NoSwitchBack, NoErrors, Buddies
<1>4. SeenHealthy(s)'
  BY <1>1, <1>2 DEF Contained, SeenHealthy, Buddies
<1>5. Replaced(s, v)' /\ Returned(s, v)'
  BY <1>1, <1>2 DEF Contained, Replaced, Returned, Back
<1>6. Chunks(s, v)' /\ WritesMarked(s, v)'
  BY <1>1, <1>2 DEF Chunks, WritesMarked
<1> QED BY <1>3, <1>4, <1>5, <1>6 DEF Contained

\* and waits for its offline timeout if it takes itself for the primary.
LEMMA StartUpKeeps ==
  ASSUME NEW s, NEW v, Calm(s, v), NEW t \in Targets, StartUp(t)
  PROVE  Survives(s, v)'
<1> USE DEF Calm, Survives
<1> DEFINE d == DecideResync("GOOD", FALSE, session[t], cons[t])
<1>1. /\ srv \in [Targets -> {"down", "starting", "up"}] /\ view \in [Targets -> View]
      /\ local \in [Targets -> D!Consistency] /\ wait \in [Targets -> BOOLEAN]
      /\ retry \in [Targets -> BOOLEAN]
      /\ reach \in [Targets -> D!Reachability] /\ cons \in [Targets -> D!Consistency]
      /\ s \in Targets /\ v \in Targets /\ s # v /\ t = v /\ Targets = {s, v}
  BY DEF IInv, TypeOK, Buddies, StartUp, Contained, Healthy
<1>2. d \in {"GOOD", "NEEDS_RESYNC"}
  BY DEF DecideResync
<1>3. /\ srv' = [srv EXCEPT ![v] = "up"] /\ srv[v] = "starting"
      /\ local' = [local EXCEPT ![v] = d]
      /\ wait' = [wait EXCEPT ![v] = d = "NEEDS_RESYNC" /\ view[v].primary = v]
      /\ view' = [view EXCEPT ![v] = [@ EXCEPT !.reach = [reach EXCEPT ![v] = "ONLINE"],
                                               !.cons = [cons EXCEPT ![v] = d]]]
      /\ retry' = [retry EXCEPT ![v] = "unacked" \in flag[v]]
      /\ UNCHANGED <<reach, cons, primary, found, flag, got, pc, new, job, todo,
                     errs, wasOffline, data, wpc, wsrv, wlock, acked>>
  BY <1>1 DEF StartUp, mgmtdVars, jobVars, writeVars, IsPrimary
<1> HIDE DEF d
<1>4. /\ view'[s] = view[s] /\ view'[v].primary = view[v].primary
      /\ view'[v].reach[s] = reach[s] /\ view'[v].cons[s] = cons[s]
  BY <1>1, <1>3 DEF View
<1>5. Healthy(s)' /\ SeenHealthy(s)'
  BY <1>1, <1>3, <1>4 DEF Contained, Healthy, SeenHealthy
<1>6. NoSwitchBack(s)' /\ NoErrors(s, v)'
  BY <1>1, <1>3, <1>4 DEF Contained, NoSwitchBack, NoErrors
<1>7. view[v].primary \in {s, v}
  BY <1>1 DEF View
<1>8. Replaced(s, v)'
  <2>1. d = "NEEDS_RESYNC" /\ view[v].primary = v => wait'[v]
    BY <1>1, <1>3
  <2>2. new[v] # "GOOD" => primary[Group] = s
    BY <1>3 DEF Contained, Replaced
  <2>3. local'[v] = d
    BY <1>1, <1>3
  <2> QED BY <1>1, <1>2, <1>3, <1>7, <2>1, <2>2, <2>3 DEF Contained, Replaced, NoSwitchBack
<1>9. Returned(s, v)'
  BY <1>1, <1>3, <1>4 DEF Contained, Returned, Back
<1>10. Chunks(s, v)' /\ WritesMarked(s, v)'
  BY <1>1, <1>3, <1>4 DEF Chunks, WritesMarked
<1> QED BY <1>5, <1>6, <1>8, <1>9, <1>10 DEF Contained

\* The timeout ends when the survivor has taken over.
LEMMA OfflineTimeoutEndsKeeps ==
  ASSUME NEW s, NEW v, Calm(s, v), NEW t \in Targets, OfflineTimeoutEnds(t)
  PROVE  Survives(s, v)'
<1> USE DEF Calm, Survives
<1>1. /\ wait \in [Targets -> BOOLEAN]
      /\ s \in Targets /\ v \in Targets /\ s # v /\ t = v
  BY DEF IInv, TypeOK, Buddies, OfflineTimeoutEnds, Contained, Healthy
<1>2. /\ wait' = [wait EXCEPT ![v] = FALSE] /\ reach[v] = "OFFLINE"
      /\ UNCHANGED <<reach, cons, primary, found, srv, local, flag, retry, view, got, pc, new, job,
                     todo, errs, wasOffline, data, wpc, wsrv, wlock, acked>>
  BY <1>1 DEF OfflineTimeoutEnds, mgmtdVars, flagVars, syncVars, jobVars, writeVars
<1>3. Healthy(s)' /\ SeenHealthy(s)' /\ NoSwitchBack(s)' /\ NoErrors(s, v)'
  BY <1>1, <1>2 DEF Contained, Healthy, SeenHealthy, NoSwitchBack, NoErrors
<1>4. Replaced(s, v)' /\ Returned(s, v)'
  BY <1>1, <1>2 DEF Contained, Replaced, Returned, Back
<1>5. Chunks(s, v)' /\ WritesMarked(s, v)'
  BY <1>2 DEF Chunks, WritesMarked
<1> QED BY <1>3, <1>4, <1>5 DEF Contained

\* The victim goes OFFLINE, and the survivor is there to take over.
LEMMA MgmtdOfflineKeeps ==
  ASSUME NEW s, NEW v, Calm(s, v), NEW t \in Targets, MgmtdOffline(t)
  PROVE  Survives(s, v)'
<1> USE DEF Calm, Survives
<1>1. /\ reach \in [Targets -> D!Reachability] /\ primary \in [{Group} -> Targets]
      /\ s \in Targets /\ v \in Targets /\ s # v /\ Targets = {s, v}
  BY DEF IInv, TypeOK, Buddies
<1>2. t = v /\ ~Back(s, v) /\ Silent(v)
  BY <1>1 DEF MgmtdOffline, Silent, Contained, Healthy, Back
<1>3. UNCHANGED <<cons, found, srv, local, wait, flag, retry, view, got, pc, new, job,
                  todo, errs, wasOffline, data, wpc, wsrv, wlock, acked>>
  BY DEF MgmtdOffline, D!AutoOfflineTargets, flagVars, syncVars, jobVars, writeVars
<1>4. D!OtherOf(Group, s) = v /\ D!OtherOf(Group, v) = s
  BY TargetsDiffer DEF D!OtherOf, Only, Buddies, Other, Targets
<1>5. CASE reach[v] = "ONLINE"
  <2>1. /\ reach' = [reach EXCEPT ![v] = "POFFLINE"] /\ primary' = primary
    BY <1>1, <1>2, <1>5 DEF MgmtdOffline, D!AutoOfflineTargets, D!Switched
  <2>2. Healthy(s)' /\ SeenHealthy(s)' /\ NoSwitchBack(s)' /\ NoErrors(s, v)'
    BY <1>1, <1>3, <2>1 DEF Contained, Healthy, SeenHealthy, NoSwitchBack, NoErrors
  <2>3. Replaced(s, v)' /\ Returned(s, v)'
    BY <1>1, <1>2, <1>3, <1>5, <2>1 DEF Contained, Replaced, Returned
  <2>4. Chunks(s, v)' /\ WritesMarked(s, v)'
    BY <1>3 DEF Chunks, WritesMarked
  <2> QED BY <2>2, <2>3, <2>4 DEF Contained
<1>6. CASE reach[v] = "POFFLINE"
  <2>1. /\ reach' = [reach EXCEPT ![v] = "OFFLINE"]
        /\ primary' = D!Switched({g \in {Group} :
             LET b == D!OtherOf(g, primary[g]) IN
             /\ primary[g] \in {v} /\ reach[primary[g]] # "OFFLINE"
             /\ reach'[b] = "ONLINE" /\ cons[b] = "GOOD"})
    BY <1>1, <1>2, <1>6 DEF MgmtdOffline, D!AutoOfflineTargets
  <2>2. primary'[Group] = s
    BY <1>1, <1>4, <1>6, <2>1 DEF D!Switched, Contained, Healthy
  <2>3. Healthy(s)' /\ SeenHealthy(s)' /\ NoSwitchBack(s)' /\ NoErrors(s, v)'
    BY <1>1, <1>3, <2>1, <2>2 DEF Contained, Healthy, SeenHealthy, NoSwitchBack, NoErrors
  <2>4. Replaced(s, v)' /\ Returned(s, v)'
    BY <1>1, <1>2, <1>3, <1>6, <2>1, <2>2 DEF Contained, Replaced, Returned
  <2>5. Chunks(s, v)' /\ WritesMarked(s, v)'
    BY <1>3 DEF Chunks, WritesMarked
  <2> QED BY <2>3, <2>4, <2>5 DEF Contained
<1> QED BY <1>2, <1>5, <1>6 DEF MgmtdOffline

\* The primary never needs a resync.
LEMMA MgmtdResolveKeeps ==
  ASSUME NEW s, NEW v, Calm(s, v), MgmtdResolve
  PROVE  Survives(s, v)'
<1>1. primary[Group] \in {s, v} /\ cons[primary[Group]] = "GOOD" /\ found = {}
  BY DEF Calm, Survives, IInv, TypeOK, Buddies, Contained, Healthy, Replaced, NoSwitchBack
<1> QED BY <1>1 DEF MgmtdResolve, D!ResolvePrimaryResync

\* What clients know is no part of the invariant.
LEMMA ClientUpdateKeeps ==
  ASSUME NEW s, NEW v, Calm(s, v), ClientUpdate
  PROVE  Survives(s, v)'
BY ContainedStays, ChunksStay, WritesStayMarked
   DEF Calm, Survives, ClientUpdate, jobVars, syncVars, flagVars, writeVars

\* A step that is no fault
LEMMA NoFault ==
  ASSUME TypeOK, UNCHANGED faults
  PROVE  /\ \A kind : ~Fault(kind)
         /\ \A o : Pays(o) => o = "ok"
BY FaultsAssumption DEF TypeOK, Fault, Pays

\* Only the survivor has a job, and the victim is there while it runs.
LEMMA JobFacts ==
  ASSUME NEW s, NEW v, Calm(s, v), NEW t \in Targets, job[t] # "none"
  PROVE  /\ t = s /\ Other(t) = v /\ view[s].primary = s /\ Back(s, v) /\ srv[v] = "up" /\ ~wait[v]
         /\ view[s].reach[v] = "ONLINE" /\ job[s] # "informBad"
BY DEF Calm, Survives, Contained, NoErrors, Returned, Buddies, Back

\* No write that leaves the victim out is under way when chunks are gathered.
LEMMA ResyncStartedKeeps ==
  ASSUME NEW s, NEW v, Calm(s, v), NEW t \in Targets, ResyncStarted(t)
  PROVE  Survives(s, v)'
<1> USE DEF Calm, Survives
<1>1. /\ job \in [Targets -> {"none", "barrier", "copy", "set", "informGood", "informBad"}]
      /\ todo \in [Targets -> SUBSET Writes] /\ s \in Targets /\ v \in Targets /\ s # v
      /\ t = s /\ Other(t) = v /\ job[s] = "barrier"
  BY JobFacts DEF IInv, TypeOK, Buddies, ResyncStarted
<1>2. /\ job' = [job EXCEPT ![s] = "copy"]
      /\ todo' = [todo EXCEPT ![s] = data[s] \cup data[v]]
      /\ \A w \in Writes : Active(w, s) => wlock[w]
      /\ UNCHANGED <<reach, cons, primary, found, srv, local, wait, flag, retry, view, got, pc, new,
                     errs, wasOffline, data, wpc, wsrv, wlock, acked>>
  BY <1>1 DEF ResyncStarted, SyncCandidates, mgmtdVars, flagVars, syncVars, writeVars
<1>3. Healthy(s)' /\ SeenHealthy(s)' /\ NoSwitchBack(s)' /\ NoErrors(s, v)' /\ Replaced(s, v)'
  BY <1>1, <1>2 DEF Contained, Healthy, SeenHealthy, NoSwitchBack, NoErrors, Replaced
<1>4. Returned(s, v)'
  BY <1>1, <1>2 DEF Contained, Returned, Back
<1>5. Chunks(s, v)'
  BY <1>1, <1>2 DEF Chunks
<1>6. WritesMarked(s, v)'
  BY <1>1, <1>2 DEF WritesMarked, Active
<1> QED BY <1>3, <1>4, <1>5, <1>6 DEF Contained

\* A job does not fail: the victim is up and nothing else goes wrong.
LEMMA JobFailsKeeps ==
  ASSUME NEW s, NEW v, Calm(s, v), UNCHANGED faults, NEW t \in Targets,
         \/ JobFails(t) \/ AbortJob(t)
         \/ \E w \in Writes : CopyFails(t, w)
  PROVE  Survives(s, v)'
<1>1. \A kind : ~Fault(kind)
  BY NoFault DEF Calm, IInv
<1>2. job[t] # "none"
  BY DEF JobFails, AbortJob, CopyFails
<1> QED BY <1>1, <1>2, JobFacts DEF JobFails, AbortJob, CopyFails, BuddySilent

\* What is copied is what the survivor has, acknowledged writes among it.
LEMMA CopyChunkKeeps ==
  ASSUME NEW s, NEW v, Calm(s, v), NEW t \in Targets, NEW w \in Writes, CopyChunk(t, w)
  PROVE  Survives(s, v)'
<1> USE DEF Calm, Survives
<1>1. /\ data \in [Targets -> SUBSET Writes] /\ todo \in [Targets -> SUBSET Writes]
      /\ s \in Targets /\ v \in Targets /\ s # v
      /\ t = s /\ Other(t) = v /\ job[s] = "copy" /\ view[s].primary = s
  BY JobFacts DEF IInv, TypeOK, Buddies, CopyChunk
<1>2. /\ data' = [data EXCEPT ![v] = IF w \in data[s] THEN data[v] \cup {w} ELSE data[v] \ {w}]
      /\ todo' = [todo EXCEPT ![s] = @ \ {w}]
      /\ UNCHANGED <<mgmtdVars, srv, wait, local, syncVars, flagVars, job, errs, wasOffline>>
      /\ UNCHANGED <<flag, view, wpc, wsrv, wlock, acked>>
  BY <1>1 DEF CopyChunk, Synced, flagVars, syncVars, writeVars
<1>3. Contained(s, v)'
  BY <1>2, ContainedStays
<1>4. Chunks(s, v)'
  BY <1>1, <1>2 DEF Chunks
<1>5. WritesMarked(s, v)'
  BY <1>1, <1>2 DEF WritesMarked
<1> QED BY <1>3, <1>4, <1>5

\* A resync without errors has copied everything.
LEMMA JobVerdictKeeps ==
  ASSUME NEW s, NEW v, Calm(s, v), NEW t \in Targets, JobVerdict(t)
  PROVE  Survives(s, v)'
<1> USE DEF Calm, Survives
<1>1. /\ job \in [Targets -> {"none", "barrier", "copy", "set", "informGood", "informBad"}]
      /\ s \in Targets /\ v \in Targets /\ s # v /\ t = s /\ job[s] = "copy" /\ todo[s] = {}
  BY JobFacts DEF IInv, TypeOK, Buddies, JobVerdict
<1>2. /\ job' = [job EXCEPT ![s] = "set"]
      /\ UNCHANGED <<reach, cons, primary, found, srv, local, wait, flag, retry, view, got, pc, new,
                     todo, errs, wasOffline, data, wpc, wsrv, wlock, acked>>
  BY <1>1 DEF JobVerdict, Contained, NoErrors, mgmtdVars, flagVars, syncVars, writeVars
<1>3. Healthy(s)' /\ SeenHealthy(s)' /\ NoSwitchBack(s)' /\ NoErrors(s, v)' /\ Replaced(s, v)'
  BY <1>1, <1>2 DEF Contained, Healthy, SeenHealthy, NoSwitchBack, NoErrors, Replaced
<1>4. Returned(s, v)'
  BY <1>1, <1>2 DEF Contained, Returned, Back
<1>5. Chunks(s, v)' /\ WritesMarked(s, v)'
  BY <1>1, <1>2 DEF Chunks, WritesMarked
<1> QED BY <1>3, <1>4, <1>5 DEF Contained

\* The mark is taken off a victim that misses nothing.
LEMMA JobSetKeeps ==
  ASSUME NEW s, NEW v, Calm(s, v), UNCHANGED faults, NEW t \in Targets, NEW o \in Outcomes,
         JobSetBuddyNeedsResync(t, o)
  PROVE  Survives(s, v)'
<1> USE DEF Calm, Survives
<1>1. /\ job \in [Targets -> {"none", "barrier", "copy", "set", "informGood", "informBad"}]
      /\ cons \in [Targets -> D!Consistency] /\ reach \in [Targets -> D!Reachability]
      /\ flag \in [Targets -> SUBSET {"required", "unacked"}] /\ retry \in [Targets -> BOOLEAN]
      /\ s \in Targets /\ v \in Targets /\ s # v /\ t = s /\ Other(t) = v /\ job[s] = "set"
      /\ view[s].primary = s /\ ~wasOffline[s] /\ wasOffline[s] \in BOOLEAN /\ o = "ok"
  BY JobFacts, NoFault DEF IInv, TypeOK, Buddies, JobSetBuddyNeedsResync, Contained, NoErrors
<1>2. SetBuddyNeedsResyncComm(s, {"unacked"}, "ok")
  BY <1>1 DEF JobSetBuddyNeedsResync, SetBuddyNeedsResync
<1>3. /\ D!SetTargetConsistencyStates(Only(v, "GOOD"), FALSE)
      /\ flag' = [flag EXCEPT ![s] = {}] /\ retry' = [retry EXCEPT ![s] = FALSE]
  BY <1>1, <1>2 DEF SetBuddyNeedsResyncComm, IsPrimary
<1>4. /\ cons' = [cons EXCEPT ![v] = "GOOD"] /\ reach' = reach
      /\ UNCHANGED <<primary, found>>
  BY <1>1, <1>3 DEF D!SetTargetConsistencyStates, Only
<1>5. /\ job' = [job EXCEPT ![s] = "informGood"]
      /\ UNCHANGED <<srv, local, wait, view, got, pc, new,
                     todo, errs, wasOffline, data, wpc, wsrv, wlock, acked>>
  BY <1>1 DEF JobSetBuddyNeedsResync, syncVars, writeVars
<1>6. Healthy(s)' /\ SeenHealthy(s)' /\ NoSwitchBack(s)'
  BY <1>1, <1>4, <1>5 DEF Contained, Healthy, SeenHealthy, NoSwitchBack
<1>7. NoErrors(s, v)' /\ Replaced(s, v)'
  BY <1>1, <1>3, <1>4, <1>5 DEF Contained, NoErrors, Replaced
<1>8. Returned(s, v)'
  <2>1. Back(s, v)' <=> Back(s, v)
    BY <1>4, <1>5 DEF Back
  <2> QED BY <1>1, <1>3, <1>4, <1>5, <2>1 DEF Contained, Returned
<1>9. Chunks(s, v)' /\ WritesMarked(s, v)'
  BY <1>1, <1>3, <1>5 DEF Chunks, WritesMarked
<1> QED BY <1>6, <1>7, <1>8, <1>9 DEF Contained

\* The victim is told that it is GOOD.
LEMMA InformKeeps ==
  ASSUME NEW s, NEW v, Calm(s, v), UNCHANGED faults, NEW t \in Targets, NEW o \in Outcomes,
         InformBuddy(t, o)
  PROVE  Survives(s, v)'
<1> USE DEF Calm, Survives
<1>1. /\ job \in [Targets -> {"none", "barrier", "copy", "set", "informGood", "informBad"}]
      /\ todo \in [Targets -> SUBSET Writes] /\ errs \in [Targets -> BOOLEAN]
      /\ wasOffline \in [Targets -> BOOLEAN] /\ local \in [Targets -> D!Consistency]
      /\ s \in Targets /\ v \in Targets /\ s # v /\ t = s /\ Other(t) = v /\ job[s] = "informGood"
      /\ ~wait[v] /\ srv[v] = "up"
  BY JobFacts DEF IInv, TypeOK, Buddies, InformBuddy
<1>2. /\ local' = [local EXCEPT ![v] = "GOOD"] /\ UNCHANGED <<reach, cons, primary, found>>
  <2>1. ~BuddySilent(s)
    BY <1>1, NoFault DEF BuddySilent, IInv
  <2> QED BY <1>1, <2>1 DEF InformBuddy, SetState, mgmtdVars
<1>3. /\ job' = [job EXCEPT ![s] = "none"] /\ todo' = [todo EXCEPT ![s] = {}]
      /\ errs' = [errs EXCEPT ![s] = FALSE] /\ wasOffline' = [wasOffline EXCEPT ![s] = FALSE]
      /\ UNCHANGED <<srv, wait, flag, retry, view, got, pc, new, data, wpc, wsrv, wlock, acked>>
  BY <1>1 DEF InformBuddy, JobEnds, syncVars, flagVars, writeVars
<1>4. Healthy(s)' /\ SeenHealthy(s)' /\ NoSwitchBack(s)'
  BY <1>1, <1>2, <1>3 DEF Contained, Healthy, SeenHealthy, NoSwitchBack
<1>5. NoErrors(s, v)' /\ Replaced(s, v)'
  BY <1>1, <1>2, <1>3 DEF Contained, NoErrors, Replaced
<1>6. Returned(s, v)'
  <2>1. Back(s, v)' <=> Back(s, v)
    BY <1>2, <1>3 DEF Back
  <2> QED BY <1>1, <1>2, <1>3, <2>1 DEF Contained, Returned
<1>7. Chunks(s, v)' /\ WritesMarked(s, v)'
  BY <1>1, <1>3 DEF Chunks, WritesMarked
<1> QED BY <1>4, <1>5, <1>6, <1>7 DEF Contained

\* A write that leaves the victim out marks it, and no resync is running then.
LEMMA WriteStartKeeps ==
  ASSUME NEW s, NEW v, Calm(s, v), UNCHANGED faults, NEW t \in Targets, NEW w \in Writes,
         NEW o \in Outcomes, WriteStart(w, t, o)
  PROVE  Survives(s, v)'
<1> USE DEF Calm, Survives
<1>1. /\ cons \in [Targets -> D!Consistency] /\ reach \in [Targets -> D!Reachability]
      /\ flag \in [Targets -> SUBSET {"required", "unacked"}] /\ retry \in [Targets -> BOOLEAN]
      /\ wpc \in [Writes -> {"idle", "solo", "sent", "mirrored", "written", "done"}]
      /\ wsrv \in [Writes -> Targets] /\ wlock \in [Writes -> BOOLEAN]
      /\ s \in Targets /\ v \in Targets /\ s # v /\ t \in {s, v} /\ Other(s) = v /\ Other(v) = s
      /\ o = "ok"
  BY NoFault DEF IInv, TypeOK, Buddies, WriteStart
<1>2. /\ wsrv' = [wsrv EXCEPT ![w] = t] /\ wlock' = [wlock EXCEPT ![w] = job[t] # "none"]
      /\ view[t].primary = t
      /\ UNCHANGED <<srv, local, wait, view, got, pc, new, job, todo, errs, wasOffline, data, acked>>
  BY DEF WriteStart, IsPrimary, syncVars, jobVars
<1>3. CASE wpc' = [wpc EXCEPT ![w] = "sent"] /\ UNCHANGED <<mgmtdVars, flagVars>>
  <2>1. Contained(s, v)'
    BY <1>2, <1>3, ContainedStays DEF syncVars
  <2>2. Chunks(s, v)'
    BY <1>2, <1>3, ChunksStay DEF flagVars
  <2>3. WritesMarked(s, v)'
    BY <1>1, <1>2, <1>3 DEF WritesMarked, flagVars
  <2> QED BY <2>1, <2>2, <2>3
<1>4. CASE /\ view[t].reach[Other(t)] = "OFFLINE" /\ SetBuddyNeedsResync(t, TRUE, o)
           /\ wpc' = [wpc EXCEPT ![w] = "solo"]
  <2>1. t = s /\ view[s].reach[v] = "OFFLINE"
    BY <1>1, <1>4 DEF Contained, SeenHealthy
  <2>2. job[s] = "none" /\ primary[Group] = s /\ (reach[v] = "OFFLINE" \/ Back(s, v))
    BY <1>1, <1>2, <2>1 DEF Contained, Returned, NoSwitchBack
  <2>3. wlock' = [wlock EXCEPT ![w] = FALSE]
    BY <1>2, <2>1, <2>2
  <2>4. /\ reach' = reach /\ UNCHANGED <<primary, found>>
        /\ cons'[s] = cons[s] /\ cons'[v] \in D!Consistency
        /\ flag'[s] = {"required"} /\ flag'[v] = flag[v]
        /\ \A u \in Targets : ~retry'[u]
    <3>1. CASE "required" \in flag[s]
      <4>1. UNCHANGED <<reach, cons, primary, found, flag, retry>>
        BY <1>4, <2>1, <3>1 DEF SetBuddyNeedsResync, flagVars, mgmtdVars
      <4>2. flag[s] = {"required"}
        BY <3>1 DEF Contained, NoErrors
      <4> QED BY <1>1, <4>1, <4>2 DEF Contained, NoErrors
    <3>2. CASE "required" \notin flag[s]
      <4> DEFINE f == {"unacked"} \cup {"required"}
      <4>1. SetBuddyNeedsResyncComm(s, f, "ok")
        BY <1>1, <1>4, <2>1, <3>2 DEF SetBuddyNeedsResync
      <4>2. "unacked" \in f /\ "required" \in f /\ f \ {"unacked"} = {"required"}
        OBVIOUS
      <4> HIDE DEF f
      <4>3. /\ D!SetTargetConsistencyStates(Only(v, "NEEDS_RESYNC"), FALSE)
            /\ flag' = [flag EXCEPT ![s] = {"required"}] /\ retry' = [retry EXCEPT ![s] = FALSE]
        BY <1>1, <1>2, <2>1, <4>1, <4>2 DEF SetBuddyNeedsResyncComm, IsPrimary
      <4>4. /\ cons' = [cons EXCEPT ![v] = "NEEDS_RESYNC"] /\ reach' = reach
            /\ UNCHANGED <<primary, found>>
        BY <1>1, <4>3 DEF D!SetTargetConsistencyStates, Only
      <4> QED BY <1>1, <4>3, <4>4 DEF Contained, NoErrors, D!Consistency
    <3> QED BY <3>1, <3>2
  <2>5. Healthy(s)' /\ SeenHealthy(s)' /\ NoSwitchBack(s)'
    BY <1>2, <2>4 DEF Contained, Healthy, SeenHealthy, NoSwitchBack
  <2>6. NoErrors(s, v)' /\ Replaced(s, v)'
    BY <1>2, <2>2, <2>4 DEF Contained, NoErrors, Replaced
  <2>7. Returned(s, v)'
    <3>1. Back(s, v)' <=> Back(s, v)
      BY <1>2, <2>4 DEF Back
    <3> QED BY <1>2, <2>2, <2>4, <3>1 DEF Contained, Returned
  <2>8. Chunks(s, v)'
    BY <1>2, <2>2, <2>4 DEF Chunks
  <2>9. WritesMarked(s, v)'
    BY <1>1, <1>2, <1>4, <2>1, <2>2, <2>3, <2>4 DEF WritesMarked
  <2> QED BY <2>5, <2>6, <2>7, <2>8, <2>9 DEF Contained
<1> QED BY <1>3, <1>4 DEF WriteStart

\* Writes that end
LEMMA EndedKeeps ==
  ASSUME NEW s, NEW v, Calm(s, v), NEW S \in SUBSET Writes, NEW result \in {"idle", "done"},
         WriteEnds(S, result), UNCHANGED <<view, flag, job>>,
         \A t \in Targets : data[t] \subseteq data'[t]
  PROVE  WritesMarked(s, v)'
<1>1. /\ \A w \in Writes \ S : wpc'[w] = wpc[w] /\ wsrv'[w] = wsrv[w] /\ wlock'[w] = wlock[w]
      /\ \A w \in S : wpc'[w] = result
  BY WriteEndsType DEF Calm
<1>2. s \in Targets /\ v \in Targets
  BY DEF Calm, Buddies
<1> QED BY <1>1, <1>2 DEF Calm, Survives, WritesMarked

\* A forwarded write is acknowledged when both have it.
LEMMA MirrorWriteKeeps ==
  ASSUME NEW s, NEW v, Calm(s, v), NEW w \in Writes, MirrorWrite(w)
  PROVE  Survives(s, v)'
<1> USE DEF Calm, Survives
<1> DEFINE b == Other(wsrv[w])
<1>1. /\ data \in [Targets -> SUBSET Writes] /\ wsrv[w] \in {s, v}
      /\ wpc \in [Writes -> {"idle", "solo", "sent", "mirrored", "written", "done"}]
      /\ s \in Targets /\ v \in Targets /\ s # v /\ Other(s) = v /\ Other(v) = s
  BY DEF IInv, TypeOK, Buddies
<1>2. /\ data' = [data EXCEPT ![b] = @ \cup {w}] /\ view[b].primary # b
      /\ UNCHANGED <<mgmtdVars, srv, wait, local, syncVars, flagVars, job, errs, wasOffline>>
      /\ UNCHANGED <<view, flag, todo>>
  BY DEF MirrorWrite, IsPrimary, jobVars, syncVars, flagVars
<1>3. b \in {s, v} /\ b # wsrv[w]
  BY <1>1
<1> HIDE DEF b
<1>4. /\ \A t \in Targets : data[t] \subseteq data'[t]
      /\ w \in data'[b]
  BY <1>1, <1>2, <1>3
<1>5. Contained(s, v)'
  BY <1>2, ContainedStays
<1>6. CASE wpc[w] = "sent"
  <2>1. wpc' = [wpc EXCEPT ![w] = "mirrored"] /\ UNCHANGED <<wsrv, wlock, acked>>
    BY <1>6 DEF MirrorWrite
  <2>2. Chunks(s, v)'
    BY <1>1, <1>2, <1>4, <2>1 DEF Chunks
  <2>3. WritesMarked(s, v)'
    BY <1>1, <1>2, <1>4, <2>1 DEF WritesMarked
  <2> QED BY <1>5, <2>2, <2>3
<1>7. CASE wpc[w] = "written"
  <2>1. WriteEnds({w}, "done") /\ acked' = acked \cup {w}
    BY <1>7 DEF MirrorWrite
  <2>2. w \in data'[wsrv[w]]
    BY <1>1, <1>2, <1>3, <1>4, <1>7 DEF WritesMarked
  <2>3. w \in data'[s] /\ w \in data'[v]
    BY <1>1, <1>3, <1>4, <2>2
  <2>4. Chunks(s, v)'
    BY <1>1, <1>2, <1>4, <2>1, <2>3 DEF Chunks
  <2>5. WritesMarked(s, v)'
    BY <1>2, <1>4, <2>1, EndedKeeps
  <2> QED BY <1>5, <2>4, <2>5
<1> QED BY <1>6, <1>7 DEF MirrorWrite

\* The own half: a write that leaves the victim out is acknowledged under the mark.
LEMMA LocalWriteKeeps ==
  ASSUME NEW s, NEW v, Calm(s, v), NEW w \in Writes, LocalWrite(w)
  PROVE  Survives(s, v)'
<1> USE DEF Calm, Survives
<1>1. /\ data \in [Targets -> SUBSET Writes] /\ wsrv[w] \in {s, v}
      /\ wpc \in [Writes -> {"idle", "solo", "sent", "mirrored", "written", "done"}]
      /\ s \in Targets /\ v \in Targets /\ s # v /\ Other(s) = v /\ Other(v) = s
  BY DEF IInv, TypeOK, Buddies
<1>2. /\ data' = [data EXCEPT ![wsrv[w]] = @ \cup {w}]
      /\ UNCHANGED <<mgmtdVars, srv, wait, local, syncVars, flagVars, job, errs, wasOffline>>
      /\ UNCHANGED <<view, flag, todo>>
  BY DEF LocalWrite, jobVars, syncVars, flagVars
<1>3. /\ \A t \in Targets : data[t] \subseteq data'[t]
      /\ w \in data'[wsrv[w]]
  BY <1>1, <1>2
<1>4. Contained(s, v)'
  BY <1>2, ContainedStays
<1>5. CASE wpc[w] = "sent"
  <2>1. wpc' = [wpc EXCEPT ![w] = "written"] /\ UNCHANGED <<wsrv, wlock, acked>>
    BY <1>5 DEF LocalWrite
  <2>2. Chunks(s, v)'
    BY <1>1, <1>2, <1>3, <2>1 DEF Chunks
  <2>3. WritesMarked(s, v)'
    BY <1>1, <1>2, <1>3, <2>1 DEF WritesMarked
  <2> QED BY <1>4, <2>2, <2>3
<1>6. CASE wpc[w] \in {"mirrored", "solo"}
  <2>1. WriteEnds({w}, "done") /\ acked' = acked \cup {w}
    BY <1>6 DEF LocalWrite
  <2>2. CASE wpc[w] = "mirrored"
    <3>1. w \in data[Other(wsrv[w])]
      BY <2>2 DEF IInv, MirroredOnBuddy
    <3>2. w \in data'[s] /\ w \in data'[v]
      BY <1>1, <1>3, <3>1
    <3> QED BY <1>1, <1>2, <1>3, <1>4, <2>1, <3>2, EndedKeeps DEF Chunks
  <2>3. CASE wpc[w] = "solo"
    <3>1. wsrv[w] = s /\ flag[s] # {} /\ job[s] \in {"none", "barrier"}
      BY <2>3 DEF WritesMarked
    <3> QED BY <1>1, <1>2, <1>3, <1>4, <2>1, <3>1, EndedKeeps DEF Chunks
  <2> QED BY <1>6, <2>2, <2>3
<1> QED BY <1>5, <1>6 DEF LocalWrite

\* A write that fails leaves its halves where they are.
LEMMA WriteFailsKeeps ==
  ASSUME NEW s, NEW v, Calm(s, v), NEW w \in Writes, WriteFails(w)
  PROVE  Survives(s, v)'
<1>1. /\ WriteEnds({w}, "idle")
      /\ UNCHANGED <<mgmtdVars, srv, wait, local, syncVars, flagVars, job, errs, wasOffline>>
      /\ UNCHANGED <<acked, data, flag, job, todo, view>>
  BY DEF WriteFails, jobVars, flagVars, syncVars
<1>2. Contained(s, v)' /\ Chunks(s, v)'
  BY <1>1, ContainedStays, ChunksStay DEF Calm, Survives
<1>3. WritesMarked(s, v)'
  BY <1>1, EndedKeeps
<1> QED BY <1>2, <1>3 DEF Survives

\* Every step that is no fault keeps the invariant.
LEMMA NoFaultStep ==
  ASSUME NEW s, NEW v, Calm(s, v), [Next]_vars, UNCHANGED faults
  PROVE  Survives(s, v)'
<1>1. CASE UNCHANGED vars
  <2>1. UNCHANGED <<mgmtdVars, srv, wait, local, syncVars, flagVars, job, errs, wasOffline>>
    BY <1>1 DEF vars, jobVars
  <2>2. UNCHANGED <<acked, data, flag, job, todo, wpc, wsrv, wlock, view>>
    BY <1>1 DEF vars, jobVars, flagVars, syncVars, writeVars
  <2> QED BY <2>1, <2>2, ContainedStays, ChunksStay, WritesStayMarked DEF Calm, Survives
<1>2. ASSUME NEW t \in Targets, Syncer(t) PROVE Survives(s, v)'
  <2>1. ~DownloadFails(t)
    BY NoFault DEF DownloadFails, Calm, IInv
  <2> QED BY <1>2, <2>1, DownloadKeeps, SyncKeeps, DecideKeeps, PublishKeeps, CheckKeeps DEF Syncer
<1>3. ASSUME NEW t \in Targets, Job(t) PROVE Survives(s, v)'
  BY <1>3, ResyncStartedKeeps, JobFailsKeeps, CopyChunkKeeps, JobVerdictKeeps, JobSetKeeps,
     InformKeeps DEF Job
<1>4. ASSUME NEW t \in Targets, Server(t) PROVE Survives(s, v)'
  <2>1. ~Crash(t) /\ ~Stop(t)
    BY NoFault DEF Crash, Stop, Calm, IInv
  <2> QED BY <1>4, <2>1, StartKeeps, StartUpKeeps, OfflineTimeoutEndsKeeps, RetryKeeps DEF Server
<1>5. ASSUME NEW w \in Writes, Write(w) PROVE Survives(s, v)'
  BY <1>5, WriteStartKeeps, MirrorWriteKeeps, LocalWriteKeeps, WriteFailsKeeps DEF Write
<1> QED BY <1>1, <1>2, <1>3, <1>4, <1>5, MgmtdOfflineKeeps, MgmtdResolveKeeps, ClientUpdateKeeps
        DEF Next

-----------------------------------------------------------------------------
(* The fault                                                               *)

\* Before any fault either server is the survivor.
LEMMA Undisturbed ==
  ASSUME NEW s, NEW v, Calm(s, v), Calm(v, s)
  PROVE  /\ flag[s] = {} /\ job[s] = "none" /\ job[v] = "none"
         /\ cons[v] = "GOOD" /\ reach[v] = "ONLINE"
         /\ view[s].reach[v] # "OFFLINE" /\ got[s].reach[v] # "OFFLINE"
         /\ view[v].reach[s] # "OFFLINE"
         /\ view[s].cons[v] = "GOOD" /\ got[s].cons[v] = "GOOD"
         /\ got[v].cons[v] = "GOOD" /\ local[v] = "GOOD" /\ new[v] = "GOOD" /\ ~wait[v]
         /\ srv[v] = "up"
BY DEF Calm, Survives, Contained, Healthy, SeenHealthy, NoErrors, Buddies

\* A server crashes or is stopped: it is the victim.
LEMMA ForgetKeeps ==
  ASSUME NEW s, NEW v, Calm(s, v), Calm(v, s), Crash(v) \/ Stop(v)
  PROVE  Survives(s, v)'
<1> USE DEF Calm, Survives
<1> DEFINE S == {w \in Writes : Active(w, v)}
<1>1. /\ s \in Targets /\ v \in Targets /\ s # v /\ Targets = {s, v}
      /\ srv \in [Targets -> {"down", "starting", "up"}] /\ view \in [Targets -> View]
      /\ local \in [Targets -> D!Consistency] /\ wait \in [Targets -> BOOLEAN]
      /\ retry \in [Targets -> BOOLEAN] /\ got \in [Targets -> View]
      /\ pc \in [Targets -> {"idle", "got", "decide", "publish", "check"}]
      /\ new \in [Targets -> D!Consistency]
      /\ job \in [Targets -> {"none", "barrier", "copy", "set", "informGood", "informBad"}]
      /\ todo \in [Targets -> SUBSET Writes]
      /\ errs \in [Targets -> BOOLEAN] /\ wasOffline \in [Targets -> BOOLEAN]
      /\ Blank.cons[s] = "GOOD" /\ Blank.cons[v] = "GOOD" /\ Blank.primary = A
      /\ Blank.reach[s] = "POFFLINE" /\ Blank.reach[v] = "POFFLINE"
  BY DEF IInv, TypeOK, Buddies, Blank
<1>2. /\ srv' = [srv EXCEPT ![v] = "down"] /\ local' = [local EXCEPT ![v] = "GOOD"]
      /\ wait' = [wait EXCEPT ![v] = FALSE] /\ retry' = [retry EXCEPT ![v] = FALSE]
      /\ pc' = [pc EXCEPT ![v] = "idle"] /\ got' = [got EXCEPT ![v] = Blank]
      /\ new' = [new EXCEPT ![v] = "GOOD"] /\ view' = [view EXCEPT ![v] = Blank]
      /\ JobEnds(v) /\ WriteEnds(S, "idle")
      /\ UNCHANGED <<reach, cons, primary, found, flag, data, acked>>
  BY DEF Crash, Stop, Forget, mgmtdVars
<1>3. /\ job' = [job EXCEPT ![v] = "none"] /\ todo' = [todo EXCEPT ![v] = {}]
      /\ errs' = [errs EXCEPT ![v] = FALSE] /\ wasOffline' = [wasOffline EXCEPT ![v] = FALSE]
  BY <1>2 DEF JobEnds
<1>4. /\ flag[s] = {} /\ job[s] = "none" /\ job[v] = "none"
      /\ cons[v] = "GOOD" /\ reach[v] = "ONLINE"
      /\ view[s].reach[v] # "OFFLINE" /\ got[s].reach[v] # "OFFLINE"
      /\ view[s].cons[v] = "GOOD" /\ got[s].cons[v] = "GOOD"
  BY Undisturbed
<1>5. Healthy(s)' /\ SeenHealthy(s)'
  BY <1>1, <1>2 DEF Contained, Healthy, SeenHealthy
<1>6. NoSwitchBack(s)' /\ NoErrors(s, v)'
  BY <1>1, <1>2, <1>3 DEF Contained, NoSwitchBack, NoErrors
<1>7. Replaced(s, v)' /\ Returned(s, v)'
  BY <1>1, <1>2, <1>3, <1>4 DEF Replaced, Returned
<1>8. Chunks(s, v)'
  BY <1>1, <1>2, <1>3, <1>4 DEF Chunks
<1>9. WritesMarked(s, v)'
  <2>1. /\ \A w \in Writes \ S : wpc'[w] = wpc[w] /\ wsrv'[w] = wsrv[w] /\ wlock'[w] = wlock[w]
        /\ \A w \in S : wpc'[w] = "idle"
    BY <1>2, WriteEndsType
  <2> HIDE DEF S
  <2> QED BY <1>1, <1>2, <1>4, <2>1 DEF WritesMarked
<1> QED BY <1>5, <1>6, <1>7, <1>8, <1>9 DEF Contained

\* A server cannot download: it is the victim.
LEMMA DownloadFailsKeeps ==
  ASSUME NEW s, NEW v, Calm(s, v), Calm(v, s), DownloadFails(v)
  PROVE  Survives(s, v)'
<1> USE DEF Calm, Survives
<1>1. /\ s \in Targets /\ v \in Targets /\ s # v /\ Targets = {s, v} /\ view \in [Targets -> View]
      /\ pc[v] = "idle"
  BY DEF IInv, TypeOK, Buddies, DownloadFails
<1>2. /\ view'[s] = view[s] /\ view'[v].cons = view[v].cons /\ view'[v].primary = view[v].primary
      /\ view'[v].reach = [u \in Targets |-> "POFFLINE"]
      /\ UNCHANGED <<reach, cons, primary, found, srv, local, wait, flag, retry, got, pc, new, job,
                     todo, errs, wasOffline, data, wpc, wsrv, wlock, acked>>
  BY <1>1 DEF DownloadFails, mgmtdVars, flagVars, jobVars, writeVars, View
<1>3. /\ flag[s] = {} /\ job[s] = "none" /\ job[v] = "none"
      /\ cons[v] = "GOOD" /\ reach[v] = "ONLINE"
      /\ view[s].reach[v] # "OFFLINE" /\ got[s].reach[v] # "OFFLINE"
      /\ view[s].cons[v] = "GOOD" /\ got[s].cons[v] = "GOOD"
  BY Undisturbed
<1>4. Healthy(s)' /\ SeenHealthy(s)'
  BY <1>1, <1>2 DEF Contained, Healthy, SeenHealthy
<1>5. NoSwitchBack(s)' /\ NoErrors(s, v)' /\ Replaced(s, v)'
  BY <1>1, <1>2 DEF Contained, NoSwitchBack, NoErrors, Replaced
<1>6. Returned(s, v)'
  BY <1>2, <1>3 DEF Returned
<1>7. Chunks(s, v)' /\ WritesMarked(s, v)'
  BY <1>1, <1>2 DEF Chunks, WritesMarked
<1> QED BY <1>4, <1>5, <1>6, <1>7 DEF Contained

\* Other faults disturb nothing: no resync runs and nobody is left out of a write.
LEMMA FaultStep ==
  ASSUME NEW s, NEW v, Calm(s, v), Calm(v, s), Next, faults' # faults
  PROVE  Survives(s, v)' \/ Survives(v, s)'
<1>1. ASSUME NEW t \in Targets PROVE t \in {s, v} /\ job[t] = "none" /\ view[t].reach[Other(t)] # "OFFLINE"
  BY Undisturbed DEF Calm, Buddies
<1>2. ASSUME NEW t \in Targets, Syncer(t) PROVE Survives(s, v)' \/ Survives(v, s)'
  BY <1>1, <1>2, DownloadKeeps, DownloadFailsKeeps, SyncKeeps, DecideKeeps, PublishKeeps, CheckKeeps
     DEF Syncer
<1>3. ASSUME NEW t \in Targets PROVE ~Job(t)
  BY <1>1 DEF Job, ResyncStarted, JobFails, AbortJob, CopyChunk, CopyFails, JobVerdict,
     JobSetBuddyNeedsResync, InformBuddy
<1>4. ASSUME NEW t \in Targets, Server(t) PROVE Survives(s, v)' \/ Survives(v, s)'
  BY <1>1, <1>4, ForgetKeeps, StartKeeps, StartUpKeeps, OfflineTimeoutEndsKeeps, RetryKeeps DEF Server
<1>5. ASSUME NEW w \in Writes, Write(w) PROVE Survives(s, v)' \/ Survives(v, s)'
  <2>1. ASSUME NEW t \in Targets, NEW o \in Outcomes PROVE ~WriteStart(w, t, o)
    BY <1>1, <2>1 DEF WriteStart, Pays
  <2> QED BY <1>5, <2>1, MirrorWriteKeeps, LocalWriteKeeps, WriteFailsKeeps DEF Write
<1> QED BY <1>2, <1>3, <1>4, <1>5, MgmtdOfflineKeeps, MgmtdResolveKeeps, ClientUpdateKeeps DEF Next

\* A step is a fault or is not counted as one.
LEMMA FaultsCounted ==
  ASSUME [Next]_vars
  PROVE  UNCHANGED faults \/ \E kind : Fault(kind)
<1>1. CASE UNCHANGED vars
  BY <1>1 DEF vars
<1>2. ASSUME NEW t \in Targets, Syncer(t) PROVE UNCHANGED faults \/ \E kind : Fault(kind)
  BY <1>2 DEF Syncer, DownloadStatesAndBuddyGroups, DownloadFails, SyncStatesAndGroups, Decide,
     PublishLocalTargetStateChanges, CheckBuddyNeedsResync, Pays
<1>3. ASSUME NEW t \in Targets, Job(t) PROVE UNCHANGED faults \/ \E kind : Fault(kind)
  BY <1>3 DEF Job, ResyncStarted, JobFails, AbortJob, CopyChunk, CopyFails, JobVerdict,
     JobSetBuddyNeedsResync, InformBuddy, Pays, BuddySilent
<1>4. ASSUME NEW t \in Targets, Server(t) PROVE UNCHANGED faults \/ \E kind : Fault(kind)
  BY <1>4 DEF Server, Crash, Stop, Start, StartUp, OfflineTimeoutEnds,
     RetrySetBuddyNeedsResyncComm, Pays
<1>5. ASSUME NEW w \in Writes, Write(w) PROVE UNCHANGED faults \/ \E kind : Fault(kind)
  BY <1>5 DEF Write, WriteStart, MirrorWrite, LocalWrite, WriteFails, Pays, BuddySilent
<1> QED BY <1>1, <1>2, <1>3, <1>4, <1>5 DEF Next, MgmtdOffline, MgmtdResolve, ClientUpdate

-----------------------------------------------------------------------------
(* Theorems for at most one fault                                          *)

\* A and B are the buddies.
LEMMA BuddiesExist ==
  /\ Buddies(A, B) /\ Buddies(B, A)
  /\ \A s, v \in Targets : Buddies(s, v) => Buddies(v, s)
BY TargetsDiffer DEF Buddies, Other, Targets

\* In the initial state nothing has happened.
LEMMA InitOneFault == Init => OneFaultInv
<1> SUFFICES ASSUME Init, NEW s \in Targets, NEW v \in Targets, Buddies(s, v) PROVE Survives(s, v)
  BY BuddiesExist DEF OneFaultInv, Targets
<1>1. Snapshot.reach = reach /\ Snapshot.cons = cons /\ Snapshot.primary = A
  BY DEF Snapshot, Init, InitWith, Only
<1>2. \A t \in Targets : Blank.reach[t] = "POFFLINE" /\ Blank.cons[t] = "GOOD" /\ Blank.primary = A
  BY DEF Blank
<1>3. primary[Group] = A
  BY DEF Init, InitWith, Only
<1>4. Healthy(s) /\ SeenHealthy(s) /\ NoSwitchBack(s)
  BY <1>1, <1>2, <1>3 DEF Init, InitWith, Healthy, SeenHealthy, NoSwitchBack
<1>5. NoErrors(s, v) /\ Replaced(s, v) /\ Returned(s, v)
  BY <1>1, <1>2 DEF Init, InitWith, NoErrors, Replaced, Returned
<1>6. Chunks(s, v) /\ WritesMarked(s, v)
  BY DEF Init, InitWith, Chunks, WritesMarked
<1> QED BY <1>4, <1>5, <1>6 DEF Survives, Contained

\* Every step keeps the invariant, if there is at most one fault.
LEMMA NextOneFault ==
  ASSUME MaxFaults <= 1, IInv, OneFaultInv, [Next]_vars
  PROVE  OneFaultInv'
<1>1. CASE UNCHANGED faults
  BY <1>1, NoFaultStep DEF OneFaultInv, Calm
<1>2. CASE faults' # faults
  <2>1. PICK kind : Fault(kind)
    BY <1>2, FaultsCounted
  <2>2. faults = 0 /\ faults' = 1
    BY <2>1, FaultsAssumption DEF Fault, IInv, TypeOK
  <2>3. Next
    BY <1>2 DEF vars
  <2>4. Calm(A, B) /\ Calm(B, A)
    BY <2>2, BuddiesExist DEF OneFaultInv, Calm, Targets
  <2>5. Survives(A, B)' \/ Survives(B, A)'
    BY <1>2, <2>3, <2>4, FaultStep
  <2> QED BY <2>2, <2>5, BuddiesExist DEF OneFaultInv, Targets
<1> QED BY <1>1, <1>2

\* What the invariant says of the two properties
LEMMA OneFaultImplies ==
  ASSUME IInv, OneFaultInv
  PROVE  GoodPrimaryHasAckedWrites /\ DivergenceRecorded
<1>1. PICK s, v \in Targets : Buddies(s, v) /\ Survives(s, v)
  BY DEF OneFaultInv
<1>2. /\ acked \subseteq data[s] /\ (acked \subseteq data[v] \/ "required" \in flag[s])
      /\ primary[Group] = v => acked \subseteq data[v]
  BY <1>1 DEF Survives, Contained, Chunks, NoErrors, Replaced, Buddies
<1>3. GoodPrimaryHasAckedWrites
  BY <1>1, <1>2 DEF GoodPrimaryHasAckedWrites, Buddies
<1>4. DivergenceRecorded
  BY <1>1, <1>2 DEF DivergenceRecorded, Buddies
<1> QED BY <1>3, <1>4

\* For any number of writes and any one fault, a target that the daemon has as a GOOD primary
\* holds every write that clients were told of, after whatever switchover and resync.
THEOREM GoodPrimaryComplete ==
  ASSUME MaxFaults <= 1
  PROVE  Spec => []GoodPrimaryHasAckedWrites
<1>1. IInv /\ [Next]_vars => IInv'
  BY NextIInv
<1>2. IInv /\ OneFaultInv /\ [Next]_vars => OneFaultInv'
  BY NextOneFault
<1>3. IInv /\ OneFaultInv => GoodPrimaryHasAckedWrites
  BY OneFaultImplies
<1> QED BY <1>1, <1>2, <1>3, InitIInv, InitOneFault, PTL DEF Spec

\* For any number of writes and any one fault, the needs-resync of a buddy that misses an
\* acknowledged write is on the primary's disk whenever the daemon takes the buddy for GOOD:
\* setBuddyNeedsResync, the end of a resync and writes never forget it between them.
THEOREM DivergenceNotForgotten ==
  ASSUME MaxFaults <= 1
  PROVE  Spec => []DivergenceRecorded
<1>1. IInv /\ [Next]_vars => IInv'
  BY NextIInv
<1>2. IInv /\ OneFaultInv /\ [Next]_vars => OneFaultInv'
  BY NextOneFault
<1>3. IInv /\ OneFaultInv => DivergenceRecorded
  BY OneFaultImplies
<1> QED BY <1>1, <1>2, <1>3, InitIInv, InitOneFault, PTL DEF Spec
=============================================================================
