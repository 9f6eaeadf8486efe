---------------------------- MODULE TargetStates ----------------------------
(***************************************************************************)
(* The management daemon's view of targets and buddy groups: the          *)
(* MgmtdTargetStateStore (reachability, consistency and the time of the    *)
(* last report of every target), the MirrorBuddyGroupMapperEx (primary     *)
(* and secondary of every mirror group), the InternodeSyncer thread that   *)
(* takes silent targets offline and switches groups over, the two message  *)
(* handlers through which servers report states, and the files both stores *)
(* are saved to and loaded from.                                           *)
(*                                                                         *)
(* A step is what the code does under one acquisition of its locks.        *)
(* Worker threads (the handlers) and the InternodeSyncer interleave.       *)
(***************************************************************************)
EXTENDS Naturals

CONSTANTS
  Targets,          \* target IDs
  Groups,           \* mirror buddy group IDs
  First, Second,    \* configured primary and secondary of each group
  Servers,          \* sets of targets that one server reports in one message
  POfflineTimeout,  \* silence after which a target is probably-offline
  OfflineTimeout,   \* silence after which a target is offline
  MaxPending,       \* bound: handlers between their response and their save
  MaxRestarts       \* bound: how often the daemon is started again

ASSUME GroupsAssumption ==
  /\ First \in [Groups -> Targets]
  /\ Second \in [Groups -> Targets]
  /\ \A g \in Groups : First[g] # Second[g]
  /\ \A g, h \in Groups :
       g # h => {First[g], Second[g]} \cap {First[h], Second[h]} = {}

ASSUME TimeoutAssumption ==
  /\ POfflineTimeout \in Nat
  /\ OfflineTimeout \in Nat
  /\ POfflineTimeout < OfflineTimeout

ASSUME BoundAssumption ==
  /\ Servers \subseteq SUBSET Targets
  /\ MaxPending \in Nat
  /\ MaxRestarts \in Nat

Reachability == {"ONLINE", "POFFLINE", "OFFLINE"}
Consistency  == {"GOOD", "NEEDS_RESYNC", "BAD"}

\* Time since a target's lastChangedTime; everything beyond the offline
\* timeout is one value.
MaxAge == OfflineTimeout + 1
Age    == 0 .. MaxAge

StateInfo == [reach : Reachability, cons : Consistency, age : Age]
StatesMap == [Targets -> StateInfo]

MirrorBuddyGroup == [first : Targets, second : Targets]
GroupMap         == [Groups -> MirrorBuddyGroup]

VARIABLES
  phase,        \* "up", "stopping", "draining" or "down"
  states,       \* statesMap
  groups,       \* mirrorBuddyGroups
  statesFile,   \* the saved statesMap
  groupsFile,   \* the saved mirrorBuddyGroups
  syncPc,       \* where the InternodeSyncer thread is in its pass
  copied,       \* findPrimaryResync's copy of the groups
  toSwitch,     \* groupsToSwitch
  pending,      \* handlers that have responded but not yet saved
  restarts,     \* starts of the daemon so far
  heard         \* targets that reported themselves since the last start

vars == <<phase, states, groups, statesFile, groupsFile, syncPc, copied,
          toSwitch, pending, restarts, heard>>

SyncPc == {"idle", "resolve", "read", "switch"}

TypeOK ==
  /\ phase \in {"up", "stopping", "draining", "down"}
  /\ states \in StatesMap
  /\ groups \in GroupMap
  /\ statesFile \in StatesMap
  /\ groupsFile \in GroupMap
  /\ syncPc \in SyncPc
  /\ copied \in GroupMap
  /\ toSwitch \in SUBSET Groups
  /\ pending \in 0 .. MaxPending
  /\ restarts \in 0 .. MaxRestarts
  /\ heard \in SUBSET Targets

-----------------------------------------------------------------------------
(* Operators on the two maps.                                              *)

ConfiguredGroups == [g \in Groups |-> [first |-> First[g], second |-> Second[g]]]

\* Mutant: the swap loses the old primary.
MutSwitchover(gs, S) ==
  [g \in Groups |-> IF g \in S
                    THEN [first |-> gs[g].second, second |-> gs[g].second]
                    ELSE gs[g]]

\* MirrorBuddyGroupMapperEx::switchover, for every group of a set.
Switchover(gs, S) ==
  [g \in Groups |-> IF g \in S
                    THEN [first |-> gs[g].second, second |-> gs[g].first]
                    ELSE gs[g]]

\* The two targets of a group.
Members(gs, g) == {gs[g].first, gs[g].second}

OnlineAndGood(info) == info.reach = "ONLINE" /\ info.cons = "GOOD"

\* Mutant: the secondary's reachability is not looked at.
MutOfflineSwitches(sts, gs, offlined) ==
  {g \in Groups : gs[g].first \in offlined /\ sts[gs[g].second].cons = "GOOD"}

\* Groups whose primary became OFFLINE in autoOfflineTargets (offlined) and
\* whose secondary can take over.
OfflineSwitches(sts, gs, offlined) ==
  {g \in Groups : gs[g].first \in offlined /\ OnlineAndGood(sts[gs[g].second])}

\* Groups that changeConsistencyStatesFromLists switches: their secondary is in
\* the report, comes online, is GOOD, and the primary is OFFLINE when the
\* secondary's turn comes. A primary in the same report that precedes its
\* secondary (it is not the case that the secondary leads) is ONLINE by then.
ReportSwitches(sts, gs, new, lead) ==
  {g \in Groups :
     LET p == gs[g].first  s == gs[g].second IN
     /\ s \in DOMAIN new
     /\ sts[s].reach # "ONLINE"
     /\ new[s] = "GOOD"
     /\ sts[p].reach = "OFFLINE"
     /\ p \in DOMAIN new => s \in lead}

\* Mutant: the shorter timeout is tested first and shadows the longer one.
MutAutoOffline(info) ==
  [info EXCEPT !.reach = IF info.age > POfflineTimeout THEN "POFFLINE" ELSE @]

\* autoOfflineTargets' new reachability of one target.
AutoOffline(info) ==
  [info EXCEPT !.reach = CASE info.age > OfflineTimeout  -> "OFFLINE"
                           [] info.age > POfflineTimeout
                              /\ info.age <= OfflineTimeout -> "POFFLINE"
                           [] OTHER -> info.reach]

Older(sts) ==
  [t \in Targets |-> [sts[t] EXCEPT !.age = IF @ < MaxAge THEN @ + 1 ELSE @]]

-----------------------------------------------------------------------------
(* Message handlers, run by worker threads. Requests are refused once the  *)
(* daemon is shutting down, but a handler that passed that check earlier   *)
(* may still run until the workers are drained. The response precedes the  *)
(* save.                                                                   *)

HandlersRun == phase \in {"up", "stopping", "draining"} /\ pending < MaxPending

\* Mutant: the reported consistency state is stored as the reachability.
MutSetTargetConsistencyStates(new, setOnline) ==
  /\ HandlersRun
  /\ states' = [t \in Targets |->
       IF t \notin DOMAIN new THEN states[t]
       ELSE IF setOnline
            THEN [reach |-> new[t], cons |-> states[t].cons, age |-> 0]
            ELSE [states[t] EXCEPT !.cons = new[t]]]
  /\ heard' = IF setOnline THEN heard \cup DOMAIN new ELSE heard
  /\ pending' = pending + 1
  /\ UNCHANGED <<phase, groups, statesFile, groupsFile, syncPc, copied,
                 toSwitch, restarts>>

\* SetTargetConsistencyStatesMsgEx: report new states of some targets.
SetTargetConsistencyStates(new, setOnline) ==
  /\ HandlersRun
  /\ states' = [t \in Targets |->
       IF t \notin DOMAIN new THEN states[t]
       ELSE IF setOnline
            THEN [reach |-> "ONLINE", cons |-> new[t], age |-> 0]
            ELSE [states[t] EXCEPT !.cons = new[t]]]
  /\ heard' = IF setOnline THEN heard \cup DOMAIN new ELSE heard
  /\ pending' = pending + 1
  /\ UNCHANGED <<phase, groups, statesFile, groupsFile, syncPc, copied,
                 toSwitch, restarts>>

\* Mutant: the handler saves first and changes the states afterwards.
MutChangeTargetConsistencyStates(old, new, lead) ==
  /\ HandlersRun
  /\ statesFile' = states
  /\ IF \A t \in DOMAIN old : states[t].cons = old[t]
     THEN /\ states' = [t \in Targets |->
               IF t \in DOMAIN new
               THEN [reach |-> "ONLINE", cons |-> new[t], age |-> 0]
               ELSE states[t]]
          /\ groups' = Switchover(groups, ReportSwitches(states, groups, new, lead))
          /\ heard' = heard \cup DOMAIN new
     ELSE UNCHANGED <<states, groups, heard>>
  /\ UNCHANGED <<phase, groupsFile, syncPc, copied, toSwitch, pending, restarts>>

\* ChangeTargetConsistencyStatesMsgEx: a server's own report. All old states
\* must match, otherwise nothing is changed (AGAIN).
ChangeTargetConsistencyStates(old, new, lead) ==
  /\ HandlersRun
  /\ IF \A t \in DOMAIN old : states[t].cons = old[t]
     THEN /\ states' = [t \in Targets |->
               IF t \in DOMAIN new
               THEN [reach |-> "ONLINE", cons |-> new[t], age |-> 0]
               ELSE states[t]]
          /\ groups' = Switchover(groups, ReportSwitches(states, groups, new, lead))
          /\ heard' = heard \cup DOMAIN new
     ELSE UNCHANGED <<states, groups, heard>>
  /\ pending' = pending + 1
  /\ UNCHANGED <<phase, statesFile, groupsFile, syncPc, copied, toSwitch, restarts>>

\* The handler's trailing saveStatesToFile.
HandlerSave ==
  /\ phase # "down"
  /\ pending > 0
  /\ statesFile' = states
  /\ pending' = pending - 1
  /\ UNCHANGED <<phase, states, groups, groupsFile, syncPc, copied, toSwitch,
                 restarts, heard>>

-----------------------------------------------------------------------------
(* The InternodeSyncer thread: one pass of syncLoop.                       *)

AutoOfflineTargets ==
  /\ phase = "up"
  /\ syncPc = "idle"
  /\ LET sts == [t \in Targets |-> AutoOffline(states[t])]
         offlined == {t \in Targets : /\ sts[t].reach = "OFFLINE"
                                      /\ states[t].reach # "OFFLINE"}
     IN  /\ states' = sts
         /\ groups' = Switchover(groups, OfflineSwitches(sts, groups, offlined))
  /\ syncPc' = "resolve"
  /\ UNCHANGED <<phase, statesFile, groupsFile, copied, toSwitch, pending,
                 restarts, heard>>

\* findPrimaryResync, first half: the groups are copied under the mapper's
\* lock, which is released before the states are read.
CopyGroups ==
  /\ phase = "up"
  /\ syncPc = "resolve"
  /\ copied' = groups
  /\ syncPc' = "read"
  /\ UNCHANGED <<phase, states, groups, statesFile, groupsFile, toSwitch,
                 pending, restarts, heard>>

\* Mutant: only primaries that are OFFLINE are looked at.
MutFindPrimaryResync ==
  /\ phase = "up"
  /\ syncPc = "read"
  /\ toSwitch' = {g \in Groups : /\ states[copied[g].first].reach = "OFFLINE"
                                 /\ states[copied[g].first].cons = "NEEDS_RESYNC"
                                 /\ OnlineAndGood(states[copied[g].second])}
  /\ copied' = ConfiguredGroups
  /\ syncPc' = "switch"
  /\ UNCHANGED <<phase, states, groups, statesFile, groupsFile, pending,
                 restarts, heard>>

\* findPrimaryResync, second half, under the store's read lock.
FindPrimaryResync ==
  /\ phase = "up"
  /\ syncPc = "read"
  /\ toSwitch' = {g \in Groups : /\ states[copied[g].first].cons = "NEEDS_RESYNC"
                                 /\ OnlineAndGood(states[copied[g].second])}
  /\ copied' = ConfiguredGroups      \* the local copy is gone
  /\ syncPc' = "switch"
  /\ UNCHANGED <<phase, states, groups, statesFile, groupsFile, pending,
                 restarts, heard>>

\* resolvePrimaryResync's loop: each found group is switched under a lock of
\* its own.
ResolvePrimaryResync(g) ==
  /\ phase = "up"
  /\ syncPc = "switch"
  /\ g \in toSwitch
  /\ groups' = Switchover(groups, {g})
  /\ toSwitch' = toSwitch \ {g}
  /\ UNCHANGED <<phase, states, statesFile, groupsFile, syncPc, copied,
                 pending, restarts, heard>>

\* The pass ends with saveStates.
SaveStates ==
  /\ phase = "up"
  /\ syncPc = "switch"
  /\ toSwitch = {}
  /\ statesFile' = states
  /\ syncPc' = "idle"
  /\ UNCHANGED <<phase, states, groups, groupsFile, copied, toSwitch, pending,
                 restarts, heard>>

\* Every 15 minutes the syncer saves the mappings, and with them the groups.
SaveTargetMappings ==
  /\ phase = "up"
  /\ syncPc = "idle"
  /\ groupsFile' = groups
  /\ UNCHANGED <<phase, states, groups, statesFile, syncPc, copied, toSwitch,
                 pending, restarts, heard>>

-----------------------------------------------------------------------------
(* Time, shutdown, crash and start.                                        *)

\* The monotonic clock advances for the stored timestamps as well.
Tick ==
  /\ states' = Older(states)
  /\ statesFile' = Older(statesFile)
  /\ UNCHANGED <<phase, groups, groupsFile, syncPc, copied, toSwitch, pending,
                 restarts, heard>>

\* App::shutDown stops the InternodeSyncer, whose run() saves both maps last.
Shutdown ==
  /\ phase = "up"
  /\ syncPc = "idle"
  /\ phase' = "stopping"
  /\ statesFile' = states
  /\ groupsFile' = groups
  /\ UNCHANGED <<states, groups, syncPc, copied, toSwitch, pending, restarts, heard>>

\* App::setPrimariesPOffline; timestamps are left alone.
SetPrimariesPOffline ==
  /\ phase = "stopping"
  /\ phase' = "draining"
  /\ states' = [t \in Targets |->
                  IF \E g \in Groups : groups[g].first = t
                  THEN [states[t] EXCEPT !.reach = "POFFLINE"]
                  ELSE states[t]]
  /\ UNCHANGED <<groups, statesFile, groupsFile, syncPc, copied, toSwitch,
                 pending, restarts, heard>>

\* Everything in memory is gone; what is left of it in the model is what the
\* next start will read.
Down ==
  /\ phase' = "down"
  /\ states' = statesFile
  /\ groups' = groupsFile
  /\ copied' = ConfiguredGroups
  /\ syncPc' = "idle"
  /\ toSwitch' = {}
  /\ pending' = 0
  /\ heard' = {}
  /\ UNCHANGED <<statesFile, groupsFile, restarts>>

\* notifyWorkers has waited for every handler; the components stop.
Stop == phase = "draining" /\ pending = 0 /\ Down

\* A crash at any time. An immediate shutdown, which skips setPrimariesPOffline
\* and the drain, is one in phase "stopping".
Crash == phase # "down" /\ restarts < MaxRestarts /\ Down

\* Mutant: the reachability of the file is believed.
MutStart(reboot, ages) ==
  /\ phase = "down"
  /\ restarts < MaxRestarts
  /\ restarts' = restarts + 1
  /\ phase' = "up"
  /\ \A t \in Targets : ages[t] = IF reboot THEN ages[t] ELSE statesFile[t].age
  /\ states' = [t \in Targets |-> [statesFile[t] EXCEPT !.age = ages[t]]]
  /\ groups' = groupsFile
  /\ UNCHANGED <<statesFile, groupsFile, syncPc, copied, toSwitch, pending, heard>>

\* App::readTargetStates and MirrorBuddyGroupMapperEx::loadFromFile. All
\* targets become POFFLINE; only those that were not POFFLINE in the file get
\* a new timestamp. After a reboot of the machine the monotonic clock has
\* started again and an old timestamp may stand for any age.
Start(reboot, ages) ==
  /\ phase = "down"
  /\ restarts < MaxRestarts
  /\ restarts' = restarts + 1
  /\ phase' = "up"
  /\ \A t \in Targets :
       ages[t] = IF statesFile[t].reach # "POFFLINE" THEN 0
                 ELSE IF reboot THEN ages[t] ELSE statesFile[t].age
  /\ states' = [t \in Targets |->
       [reach |-> "POFFLINE", cons |-> statesFile[t].cons, age |-> ages[t]]]
  /\ groups' = groupsFile
  /\ UNCHANGED <<statesFile, groupsFile, syncPc, copied, toSwitch, pending, heard>>

-----------------------------------------------------------------------------
Init ==
  /\ phase = "up"
  /\ states = [t \in Targets |-> [reach |-> "POFFLINE", cons |-> "GOOD", age |-> 0]]
  /\ groups = ConfiguredGroups
  /\ statesFile = states
  /\ groupsFile = groups
  /\ syncPc = "idle"
  /\ copied = groups
  /\ toSwitch = {}
  /\ pending = 0
  /\ restarts = 0
  /\ heard = {}

Handlers ==
  \/ \E S \in Servers : \E new \in [S -> Consistency], setOnline \in BOOLEAN :
       SetTargetConsistencyStates(new, setOnline)
  \/ \E S \in Servers : \E old, new \in [S -> Consistency], lead \in SUBSET S :
       ChangeTargetConsistencyStates(old, new, lead)
  \/ HandlerSave

SyncPass ==
  \/ AutoOfflineTargets
  \/ CopyGroups
  \/ FindPrimaryResync
  \/ \E g \in Groups : ResolvePrimaryResync(g)
  \/ SaveStates

Next ==
  \/ Handlers
  \/ SyncPass
  \/ SaveTargetMappings
  \/ Tick
  \/ Shutdown
  \/ SetPrimariesPOffline
  \/ Stop
  \/ Crash
  \/ \E reboot \in BOOLEAN, ages \in [Targets -> Age] : Start(reboot, ages)

Spec == Init /\ [][Next]_vars

\* The syncer thread runs its pass every update interval as long as the daemon
\* is up, a handler that has responded goes on to save, and time passes.
FairSpec == Spec /\ WF_vars(SyncPass) /\ WF_vars(HandlerSave) /\ WF_vars(Tick)

-----------------------------------------------------------------------------
(* Properties.                                                             *)

\* A switchover swaps the two configured members of a group and never changes
\* who they are, in memory and in the file, whichever threads switch and
\* however the daemon crashes in between.
MembersPreserved ==
  \A g \in Groups : /\ Members(groups, g) = {First[g], Second[g]}
                    /\ Members(groupsFile, g) = {First[g], Second[g]}
                    /\ Members(copied, g) = {First[g], Second[g]}

\* Once no handler is between its response and its save, the states file holds
\* every consistency state the daemon has accepted (a crash then loses none),
\* although response, save and the syncer's own save interleave freely.
AcceptedStatesSaved ==
  phase # "down" /\ pending = 0 =>
    \A t \in Targets : statesFile[t].cons = states[t].cons

Switched(g) ==
  /\ phase # "down" /\ phase' # "down"
  /\ groups'[g].first # groups[g].first

\* "Set all targets / nodes to POFFLINE to prevent switchover before we have
\* report from anyone" (loadStatesFromFile): after a start, no group is
\* switched before one of its members has reported itself.
NoSwitchBeforeReport ==
  [][\A g \in Groups : Switched(g) => Members(groups, g) \cap heard' # {}]_vars

\* What NoSwitchBeforeReport rests on: a target is ONLINE only if it reported
\* itself since the start, and a group is picked by findPrimaryResync only if
\* one of its members did.
OnlineWasHeard ==
  /\ phase # "down" =>
       \A t \in Targets : states[t].reach = "ONLINE" => t \in heard
  /\ \A g \in toSwitch : Members(groups, g) \cap heard # {}

\* A group whose primary needs a resync while its secondary is ONLINE and GOOD
\* does not stay that way: resolvePrimaryResync switches it in some pass.
PrimaryResyncResolved ==
  \A g \in Groups :
    []<>~(/\ phase = "up"
          /\ states[groups[g].first].cons = "NEEDS_RESYNC"
          /\ OnlineAndGood(states[groups[g].second]))

\* A target that stays silent beyond the offline timeout is eventually OFFLINE
\* (autoOfflineTargets).
SilentGoesOffline ==
  \A t \in Targets :
    []<>(phase = "up" /\ states[t].age = MaxAge => states[t].reach = "OFFLINE")

-----------------------------------------------------------------------------
(* Refinement: what the servers can observe of the daemon follows Mgmtd.   *)

\* A daemon that is down has no states; its next start reads them as POFFLINE.
ObservedReach == [t \in Targets |-> IF phase = "down" THEN "POFFLINE" ELSE states[t].reach]
ObservedCons == [t \in Targets |-> states[t].cons]
ObservedPrimary == [g \in Groups |-> groups[g].first]

M == INSTANCE Mgmtd WITH reach <- ObservedReach, cons <- ObservedCons,
                         primary <- ObservedPrimary, found <- toSwitch

\* The daemon implements the abstract one: whatever its threads, saves, crashes
\* and starts do, states change and groups are switched only as Mgmtd allows (a
\* switch needs an OFFLINE primary beside an ONLINE and GOOD secondary, or a
\* group picked while one member needed a resync and the other did not).
ImplementsMgmtd == M!Spec
=============================================================================
