------------------------- MODULE TargetStatesProofs -------------------------
(* Proofs about TargetStates, for any set of targets and groups, any        *)
(* timeouts and any bounds.                                                 *)
EXTENDS TargetStates, TLAPS

\* switchover swaps the members of the groups it is given and leaves the map
\* well typed (MirrorBuddyGroupMapperEx::switchover).
LEMMA SwitchoverMembers ==
  ASSUME NEW gs \in GroupMap, NEW S, NEW g \in Groups
  PROVE  /\ Switchover(gs, S) \in GroupMap
         /\ Members(Switchover(gs, S), g) = Members(gs, g)
         /\ g \notin S => Switchover(gs, S)[g] = gs[g]
BY DEF Switchover, GroupMap, MirrorBuddyGroup, Members

\* Ageing, the offline sweep and the groups' initial value are well typed.
LEMMA OperatorTypes ==
  /\ \A sts \in StatesMap : Older(sts) \in StatesMap
  /\ \A info \in StateInfo : AutoOffline(info) \in StateInfo
  /\ ConfiguredGroups \in GroupMap
  /\ \A g \in Groups : Members(ConfiguredGroups, g) = {First[g], Second[g]}
<1>1. ASSUME NEW sts \in StatesMap PROVE Older(sts) \in StatesMap
  BY TimeoutAssumption DEF Older, StatesMap, StateInfo, MaxAge, Age
<1>2. ASSUME NEW info \in StateInfo PROVE AutoOffline(info) \in StateInfo
  BY TimeoutAssumption DEF AutoOffline, StateInfo, Reachability, Age, MaxAge
<1>3. /\ ConfiguredGroups \in GroupMap
      /\ \A g \in Groups : Members(ConfiguredGroups, g) = {First[g], Second[g]}
  BY GroupsAssumption DEF ConfiguredGroups, GroupMap, MirrorBuddyGroup, Members
<1> QED BY <1>1, <1>2, <1>3

\* The type invariant of the state store, the group mapper and their files.
THEOREM TypeCorrect == Spec => []TypeOK
<1>1. Init => TypeOK
  BY OperatorTypes, TimeoutAssumption, BoundAssumption
     DEF Init, TypeOK, StatesMap, StateInfo, Reachability, Consistency, Age, MaxAge, SyncPc
<1>2. TypeOK /\ [Next]_vars => TypeOK'
  <2> SUFFICES ASSUME TypeOK, [Next]_vars PROVE TypeOK'
    OBVIOUS
  <2> USE BoundAssumption DEF TypeOK, SyncPc
  <2>1. ASSUME NEW S \in Servers, NEW new \in [S -> Consistency],
               NEW setOnline \in BOOLEAN, SetTargetConsistencyStates(new, setOnline)
        PROVE  TypeOK'
    <3>1. states' \in StatesMap
      BY <2>1, TimeoutAssumption
         DEF SetTargetConsistencyStates, StatesMap, StateInfo, Reachability, Age, MaxAge
    <3> QED BY <2>1, <3>1 DEF SetTargetConsistencyStates, HandlersRun
  <2>2. ASSUME NEW S \in Servers, NEW old \in [S -> Consistency],
               NEW new \in [S -> Consistency], NEW lead \in SUBSET S,
               ChangeTargetConsistencyStates(old, new, lead)
        PROVE  TypeOK'
    <3>1. states' \in StatesMap
      BY <2>2, TimeoutAssumption
         DEF ChangeTargetConsistencyStates, StatesMap, StateInfo, Reachability, Age, MaxAge
    <3>2. groups' \in GroupMap
      BY <2>2 DEF ChangeTargetConsistencyStates, Switchover, GroupMap, MirrorBuddyGroup
    <3> QED BY <2>2, <3>1, <3>2 DEF ChangeTargetConsistencyStates, HandlersRun
  <2>3. CASE HandlerSave
    BY <2>3 DEF HandlerSave
  <2>4. CASE AutoOfflineTargets
    <3>1. states' \in StatesMap
      BY <2>4, OperatorTypes DEF AutoOfflineTargets, StatesMap
    <3>2. groups' \in GroupMap
      BY <2>4 DEF AutoOfflineTargets, Switchover, GroupMap, MirrorBuddyGroup
    <3> QED BY <2>4, <3>1, <3>2 DEF AutoOfflineTargets
  <2>5. CASE CopyGroups
    BY <2>5 DEF CopyGroups
  <2>6. CASE FindPrimaryResync
    BY <2>6, OperatorTypes DEF FindPrimaryResync
  <2>7. ASSUME NEW g \in Groups, ResolvePrimaryResync(g) PROVE TypeOK'
    <3>1. groups' \in GroupMap
      BY <2>7 DEF ResolvePrimaryResync, Switchover, GroupMap, MirrorBuddyGroup
    <3> QED BY <2>7, <3>1 DEF ResolvePrimaryResync
  <2>8. CASE SaveStates
    BY <2>8 DEF SaveStates
  <2>9. CASE SaveTargetMappings
    BY <2>9 DEF SaveTargetMappings
  <2>10. CASE Tick
    BY <2>10, OperatorTypes DEF Tick
  <2>11. CASE Shutdown
    BY <2>11 DEF Shutdown
  <2>12. CASE SetPrimariesPOffline
    <3>1. states' \in StatesMap
      BY <2>12 DEF SetPrimariesPOffline, StatesMap, StateInfo, Reachability
    <3> QED BY <2>12, <3>1 DEF SetPrimariesPOffline
  <2>13. CASE Stop \/ Crash
    BY <2>13, OperatorTypes DEF Stop, Crash, Down
  <2>14. ASSUME NEW reboot \in BOOLEAN, NEW ages \in [Targets -> Age], Start(reboot, ages)
         PROVE  TypeOK'
    <3>1. states' \in StatesMap
      BY <2>14 DEF Start, StatesMap, StateInfo, Reachability
    <3> QED BY <2>14, <3>1 DEF Start
  <2>15. CASE UNCHANGED vars
    BY <2>15 DEF vars
  <2> QED BY <2>1, <2>2, <2>3, <2>4, <2>5, <2>6, <2>7, <2>8, <2>9, <2>10, <2>11,
             <2>12, <2>13, <2>14, <2>15 DEF Next, Handlers, SyncPass
<1> QED BY <1>1, <1>2, PTL DEF Spec

\* Every step keeps the members of every group, in memory, in the syncer's copy
\* and in the file: the only steps that touch the maps swap or copy them.
THEOREM MembersCorrect == Spec => []MembersPreserved
<1>1. Init => MembersPreserved
  BY OperatorTypes DEF Init, MembersPreserved
<1>2. TypeOK /\ MembersPreserved /\ [Next]_vars => MembersPreserved'
  <2> SUFFICES ASSUME TypeOK, MembersPreserved, [Next]_vars,
                      NEW g \in Groups
               PROVE  /\ Members(groups', g) = {First[g], Second[g]}
                      /\ Members(groupsFile', g) = {First[g], Second[g]}
                      /\ Members(copied', g) = {First[g], Second[g]}
    BY DEF MembersPreserved, Members
  <2>0. /\ Members(groups, g) = {First[g], Second[g]}
        /\ Members(groupsFile, g) = {First[g], Second[g]}
        /\ Members(copied, g) = {First[g], Second[g]}
        /\ Members(ConfiguredGroups, g) = {First[g], Second[g]}
        /\ \A S : Members(Switchover(groups, S), g) = {First[g], Second[g]}
    BY OperatorTypes, SwitchoverMembers DEF MembersPreserved, TypeOK
  <2>1. CASE Handlers
    BY <2>0, <2>1 DEF Handlers, SetTargetConsistencyStates,
                      ChangeTargetConsistencyStates, HandlerSave
  <2>2. CASE SyncPass
    BY <2>0, <2>2 DEF SyncPass, AutoOfflineTargets, CopyGroups, FindPrimaryResync,
                      ResolvePrimaryResync, SaveStates
  <2>3. CASE SaveTargetMappings \/ Tick \/ Shutdown \/ SetPrimariesPOffline
    BY <2>0, <2>3 DEF SaveTargetMappings, Tick, Shutdown, SetPrimariesPOffline
  <2>4. CASE Stop \/ Crash
    BY <2>0, <2>4 DEF Stop, Crash, Down
  <2>5. ASSUME NEW reboot \in BOOLEAN, NEW ages \in [Targets -> Age], Start(reboot, ages)
        PROVE  groups' = groupsFile /\ groupsFile' = groupsFile /\ copied' = copied
    BY <2>5 DEF Start
  <2>6. CASE UNCHANGED vars
    BY <2>0, <2>6 DEF vars
  <2> QED BY <2>0, <2>1, <2>2, <2>3, <2>4, <2>5, <2>6 DEF Next
<1> QED BY <1>1, <1>2, TypeCorrect, PTL DEF Spec

\* The states file holds every accepted consistency state whenever no handler
\* is between response and save. Inductive as it stands: only the handlers
\* change consistency states, each leaves itself pending, and every save writes
\* the whole map.
THEOREM AcceptedStatesSurvive == Spec => []AcceptedStatesSaved
<1>1. Init => AcceptedStatesSaved
  BY DEF Init, AcceptedStatesSaved
<1>2. TypeOK /\ AcceptedStatesSaved /\ [Next]_vars => AcceptedStatesSaved'
  <2> SUFFICES ASSUME TypeOK, AcceptedStatesSaved, [Next]_vars PROVE AcceptedStatesSaved'
    OBVIOUS
  <2> USE DEF AcceptedStatesSaved
  <2>1. CASE Handlers
    BY <2>1, BoundAssumption
       DEF Handlers, SetTargetConsistencyStates, ChangeTargetConsistencyStates,
           HandlerSave, HandlersRun, TypeOK
  <2>2. CASE AutoOfflineTargets
    <3>1. \A t \in Targets : states'[t].cons = states[t].cons
      BY <2>2 DEF AutoOfflineTargets, AutoOffline, TypeOK, StatesMap, StateInfo
    <3> QED BY <2>2, <3>1 DEF AutoOfflineTargets
  <2>3. CASE CopyGroups \/ FindPrimaryResync \/ SaveStates \/ SaveTargetMappings \/ Shutdown
    BY <2>3 DEF CopyGroups, FindPrimaryResync, SaveStates, SaveTargetMappings, Shutdown
  <2>4. ASSUME NEW g \in Groups, ResolvePrimaryResync(g) PROVE AcceptedStatesSaved'
    BY <2>4 DEF ResolvePrimaryResync
  <2>5. CASE Tick
    <3>1. \A t \in Targets : /\ states'[t].cons = states[t].cons
                             /\ statesFile'[t].cons = statesFile[t].cons
      BY <2>5 DEF Tick, Older, TypeOK, StatesMap, StateInfo
    <3> QED BY <2>5, <3>1 DEF Tick
  <2>6. CASE SetPrimariesPOffline
    <3>1. \A t \in Targets : states'[t].cons = states[t].cons
      BY <2>6 DEF SetPrimariesPOffline, TypeOK, StatesMap, StateInfo
    <3> QED BY <2>6, <3>1 DEF SetPrimariesPOffline
  <2>7. CASE Stop \/ Crash
    BY <2>7 DEF Stop, Crash, Down
  <2>8. ASSUME NEW reboot \in BOOLEAN, NEW ages \in [Targets -> Age], Start(reboot, ages)
        PROVE  AcceptedStatesSaved'
    BY <2>8 DEF Start
  <2>9. CASE UNCHANGED vars
    BY <2>9 DEF vars
  <2> QED BY <2>1, <2>2, <2>3, <2>4, <2>5, <2>6, <2>7, <2>8, <2>9 DEF Next, SyncPass
<1> QED BY <1>1, <1>2, TypeCorrect, PTL DEF Spec

\* The induction behind NoSwitchBeforeReport: ONLINE targets have reported since
\* the start, and so has a member of every group findPrimaryResync picked
\* (its copy of the groups may be stale, but its members are not).
LEMMA HeardInductive ==
  TypeOK /\ MembersPreserved /\ OnlineWasHeard /\ [Next]_vars => OnlineWasHeard'
<1> SUFFICES ASSUME TypeOK, MembersPreserved, OnlineWasHeard, [Next]_vars
             PROVE  OnlineWasHeard'
  OBVIOUS
<1> USE DEF OnlineWasHeard
<1>0. \A g \in Groups : \A S : Members(Switchover(groups, S), g) = Members(groups, g)
  BY SwitchoverMembers DEF TypeOK
<1>1. ASSUME NEW S \in Servers, NEW new \in [S -> Consistency],
             NEW setOnline \in BOOLEAN, SetTargetConsistencyStates(new, setOnline)
      PROVE  OnlineWasHeard'
  <2>1. \A t \in Targets : states'[t].reach = "ONLINE" => t \in heard'
    BY <1>1 DEF SetTargetConsistencyStates, HandlersRun, TypeOK, StatesMap, StateInfo
  <2> QED BY <1>1, <2>1 DEF SetTargetConsistencyStates, TypeOK, Members
<1>2. ASSUME NEW S \in Servers, NEW old \in [S -> Consistency],
             NEW new \in [S -> Consistency], NEW lead \in SUBSET S,
             ChangeTargetConsistencyStates(old, new, lead)
      PROVE  OnlineWasHeard'
  <2>1. phase # "down" /\ heard \subseteq heard' /\ toSwitch' = toSwitch
    BY <1>2 DEF ChangeTargetConsistencyStates, HandlersRun
  <2>2. \A t \in Targets : states'[t].reach = "ONLINE" => t \in heard'
    BY <1>2, <2>1 DEF ChangeTargetConsistencyStates, TypeOK, StatesMap, StateInfo
  <2>3. \A g \in Groups : Members(groups', g) = Members(groups, g)
    BY <1>2, <1>0 DEF ChangeTargetConsistencyStates
  <2> QED BY <2>1, <2>2, <2>3 DEF TypeOK
<1>3. CASE HandlerSave \/ CopyGroups \/ SaveStates \/ SaveTargetMappings \/ Shutdown
  BY <1>3 DEF HandlerSave, CopyGroups, SaveStates, SaveTargetMappings, Shutdown, Members
<1>4. CASE AutoOfflineTargets
  <2>1. \A t \in Targets : states'[t].reach = "ONLINE" => states[t].reach = "ONLINE"
    BY <1>4 DEF AutoOfflineTargets, AutoOffline, TypeOK, StatesMap, StateInfo
  <2>2. \A g \in Groups : Members(groups', g) = Members(groups, g)
    BY <1>4, <1>0 DEF AutoOfflineTargets
  <2> QED BY <1>4, <2>1, <2>2 DEF AutoOfflineTargets, TypeOK
<1>5. CASE FindPrimaryResync
  <2>1. ASSUME NEW g \in toSwitch' PROVE Members(groups', g) \cap heard' # {}
    <3>1. g \in Groups /\ states[copied[g].second].reach = "ONLINE"
      BY <1>5, <2>1 DEF FindPrimaryResync, OnlineAndGood
    <3>2. copied[g].second \in Targets
      BY <3>1 DEF TypeOK, GroupMap, MirrorBuddyGroup
    <3>3. copied[g].second \in heard
      BY <1>5, <3>1, <3>2 DEF FindPrimaryResync
    <3>4. copied[g].second \in Members(groups, g)
      BY <3>1 DEF MembersPreserved, Members
    <3> QED BY <1>5, <3>3, <3>4 DEF FindPrimaryResync, Members
  <2> QED BY <1>5, <2>1 DEF FindPrimaryResync
<1>6. ASSUME NEW g \in Groups, ResolvePrimaryResync(g) PROVE OnlineWasHeard'
  <2>1. \A h \in Groups : Members(groups', h) = Members(groups, h)
    BY <1>6, <1>0 DEF ResolvePrimaryResync
  <2> QED BY <1>6, <2>1 DEF ResolvePrimaryResync, TypeOK
<1>7. CASE Tick
  <2>1. \A t \in Targets : states'[t].reach = states[t].reach
    BY <1>7 DEF Tick, Older, TypeOK, StatesMap, StateInfo
  <2> QED BY <1>7, <2>1 DEF Tick, Members
<1>8. CASE SetPrimariesPOffline
  <2>1. \A t \in Targets : states'[t].reach = "ONLINE" => states[t].reach = "ONLINE"
    BY <1>8 DEF SetPrimariesPOffline, TypeOK, StatesMap, StateInfo
  <2> QED BY <1>8, <2>1 DEF SetPrimariesPOffline, Members
<1>9. CASE Stop \/ Crash
  BY <1>9 DEF Stop, Crash, Down
<1>10. ASSUME NEW reboot \in BOOLEAN, NEW ages \in [Targets -> Age], Start(reboot, ages)
       PROVE  OnlineWasHeard'
  <2>1. \A t \in Targets : states'[t].reach # "ONLINE"
    BY <1>10 DEF Start
  <2>2. \A g \in Groups : Members(groups', g) = Members(groups, g)
    BY <1>10 DEF Start, Members, MembersPreserved
  <2> QED BY <1>10, <2>1, <2>2 DEF Start, TypeOK
<1>11. CASE UNCHANGED vars
  BY <1>11 DEF vars, Members
<1> QED BY <1>1, <1>2, <1>3, <1>4, <1>5, <1>6, <1>7, <1>8, <1>9, <1>10, <1>11
        DEF Next, Handlers, SyncPass

\* No switchover after a start before one of the group's members has reported:
\* a step that switches a group picked it because its secondary is ONLINE, has
\* just reported, or was ONLINE when findPrimaryResync looked.
THEOREM SwitchAfterReport == Spec => NoSwitchBeforeReport
<1> DEFINE Act == \A g \in Groups : Switched(g) => Members(groups, g) \cap heard' # {}
<1>1. Init => OnlineWasHeard
  BY DEF Init, OnlineWasHeard
<1>2. TypeOK /\ MembersPreserved /\ OnlineWasHeard /\ [Next]_vars => [Act]_vars
  <2> SUFFICES ASSUME TypeOK, MembersPreserved, OnlineWasHeard, Next,
                      NEW g \in Groups, Switched(g)
               PROVE  Members(groups, g) \cap heard' # {}
    OBVIOUS
  <2>0. /\ phase # "down" /\ phase' # "down"
        /\ groups'[g].first # groups[g].first
        /\ groups[g].second \in Targets
    BY DEF Switched, TypeOK, GroupMap, MirrorBuddyGroup
  <2>1. ASSUME NEW S \in Servers, NEW old \in [S -> Consistency],
               NEW new \in [S -> Consistency], NEW lead \in SUBSET S,
               ChangeTargetConsistencyStates(old, new, lead)
        PROVE  groups[g].second \in heard'
    <3>1. g \in ReportSwitches(states, groups, new, lead)
      BY <2>0, <2>1 DEF ChangeTargetConsistencyStates, Switchover
    <3> QED BY <2>0, <2>1, <3>1 DEF ChangeTargetConsistencyStates, ReportSwitches
  <2>2. ASSUME AutoOfflineTargets PROVE groups[g].second \in heard'
    <3> DEFINE sts == [t \in Targets |-> AutoOffline(states[t])]
    <3>1. OnlineAndGood(sts[groups[g].second])
      BY <2>0, <2>2 DEF AutoOfflineTargets, Switchover, OfflineSwitches
    <3>2. states[groups[g].second].reach = "ONLINE"
      BY <2>0, <3>1 DEF OnlineAndGood, AutoOffline, TypeOK, StatesMap, StateInfo
    <3> QED BY <2>0, <2>2, <3>2 DEF OnlineWasHeard, AutoOfflineTargets
  <2>3. ASSUME NEW h \in Groups, ResolvePrimaryResync(h)
        PROVE  Members(groups, g) \cap heard' # {}
    <3>1. g \in toSwitch /\ heard' = heard
      BY <2>0, <2>3 DEF ResolvePrimaryResync, Switchover
    <3> QED BY <3>1 DEF OnlineWasHeard
  <2>4. CASE \/ HandlerSave \/ CopyGroups \/ FindPrimaryResync \/ SaveStates
             \/ SaveTargetMappings \/ Tick \/ Shutdown \/ SetPrimariesPOffline
             \/ Stop \/ Crash
             \/ \E S \in Servers : \E new \in [S -> Consistency], setOnline \in BOOLEAN :
                  SetTargetConsistencyStates(new, setOnline)
             \/ \E reboot \in BOOLEAN, ages \in [Targets -> Age] : Start(reboot, ages)
    BY <2>0, <2>4 DEF HandlerSave, CopyGroups, FindPrimaryResync, SaveStates,
       SaveTargetMappings, Tick, Shutdown, SetPrimariesPOffline, Stop, Crash, Down,
       SetTargetConsistencyStates, Start
  <2> QED BY <2>1, <2>2, <2>3, <2>4 DEF Next, Handlers, SyncPass, Members
<1> QED BY <1>1, <1>2, HeardInductive, TypeCorrect, MembersCorrect, PTL
        DEF Spec, NoSwitchBeforeReport
=============================================================================
