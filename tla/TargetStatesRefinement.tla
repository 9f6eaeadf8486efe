----------------------- MODULE TargetStatesRefinement -----------------------
(* TargetStates implements Mgmtd, for any targets, groups, timeouts and     *)
(* bounds.                                                                  *)
EXTENDS TargetStatesProofs

\* While the daemon is down the model's memory is what the next start reads.
DownReadsFiles ==
  phase = "down" => /\ toSwitch = {}
                    /\ groups = groupsFile
                    /\ \A t \in Targets : states[t].cons = statesFile[t].cons

\* It stays so: nothing but time passes until the daemon is started.
LEMMA DownInductive == Spec => []DownReadsFiles
<1>1. Init => DownReadsFiles
  BY DEF Init, DownReadsFiles
<1>2. TypeOK /\ DownReadsFiles /\ [Next]_vars => DownReadsFiles'
  <2> SUFFICES ASSUME TypeOK, DownReadsFiles, [Next]_vars PROVE DownReadsFiles'
    OBVIOUS
  <2> USE DEF DownReadsFiles
  <2>1. CASE Handlers
    BY <2>1 DEF Handlers, HandlersRun, SetTargetConsistencyStates,
                ChangeTargetConsistencyStates, HandlerSave
  <2>2. CASE SyncPass
    BY <2>2 DEF SyncPass, AutoOfflineTargets, CopyGroups, FindPrimaryResync,
                ResolvePrimaryResync, SaveStates
  <2>3. CASE SaveTargetMappings \/ Shutdown \/ SetPrimariesPOffline
    BY <2>3 DEF SaveTargetMappings, Shutdown, SetPrimariesPOffline
  <2>4. CASE Tick
    BY <2>4 DEF Tick, Older, TypeOK, StatesMap, StateInfo
  <2>5. CASE Stop \/ Crash
    BY <2>5 DEF Stop, Crash, Down
  <2>6. CASE \E reboot \in BOOLEAN, ages \in [Targets -> Age] : Start(reboot, ages)
    BY <2>6 DEF Start
  <2>7. CASE UNCHANGED vars
    BY <2>7 DEF vars
  <2> QED BY <2>1, <2>2, <2>3, <2>4, <2>5, <2>6, <2>7 DEF Next
<1> QED BY <1>1, <1>2, TypeCorrect, PTL DEF Spec

\* The abstract other member of a group is the concrete secondary, so both
\* specifications switch to the same target.
LEMMA SwitchMaps ==
  ASSUME TypeOK, MembersPreserved
  PROVE  /\ \A g \in Groups : M!OtherOf(g, ObservedPrimary[g]) = groups[g].second
         /\ \A S : M!Switched(S) = [g \in Groups |-> Switchover(groups, S)[g].first]
<1>1. \A g \in Groups : M!OtherOf(g, ObservedPrimary[g]) = groups[g].second
  <2> SUFFICES ASSUME NEW g \in Groups
               PROVE  M!OtherOf(g, ObservedPrimary[g]) = groups[g].second
    OBVIOUS
  <2>1. {groups[g].first, groups[g].second} = {First[g], Second[g]} /\ First[g] # Second[g]
    BY GroupsAssumption DEF MembersPreserved, Members
  <2> QED BY <2>1 DEF M!OtherOf, ObservedPrimary
<1>2. ASSUME NEW S
      PROVE  M!Switched(S) = [g \in Groups |-> Switchover(groups, S)[g].first]
  BY <1>1 DEF M!Switched, Switchover, ObservedPrimary
<1> QED BY <1>1, <1>2

\* What the abstract state looks like to a step that neither starts in nor leads
\* to a daemon that is down.
LEMMA UpStates ==
  ASSUME phase # "down", phase' # "down"
  PROVE  /\ ObservedReach = [t \in Targets |-> states[t].reach]
         /\ ObservedReach' = [t \in Targets |-> states'[t].reach]
BY DEF ObservedReach

\* The daemon, with its threads, locks, clocks, saves and crashes, shows the
\* servers nothing that Mgmtd does not allow.
THEOREM Implementation == Spec => ImplementsMgmtd
<1>1. Init => M!Init
  <2> SUFFICES ASSUME Init PROVE M!Init
    OBVIOUS
  <2>1. ObservedPrimary = First
    BY GroupsAssumption DEF Init, ObservedPrimary, ConfiguredGroups
  <2> QED BY <2>1 DEF Init, M!Init, ObservedReach, ObservedCons
<1>2. TypeOK /\ MembersPreserved /\ MembersPreserved' /\ DownReadsFiles /\ [Next]_vars
      => [M!Next]_(M!mgmtdVars)
  <2> SUFFICES ASSUME TypeOK, MembersPreserved, MembersPreserved', DownReadsFiles, [Next]_vars
               PROVE  M!Next \/ UNCHANGED M!mgmtdVars
    OBVIOUS
  <2>1. ASSUME NEW S \in Servers, NEW new \in [S -> Consistency],
               NEW setOnline \in BOOLEAN, SetTargetConsistencyStates(new, setOnline)
        PROVE  M!Next
    <3>1. phase # "down" /\ phase' # "down"
      BY <2>1 DEF SetTargetConsistencyStates, HandlersRun
    <3>2. S \in SUBSET Targets /\ DOMAIN new = S /\ new \in [S -> M!Consistency]
      BY BoundAssumption DEF Consistency, M!Consistency
    <3>3. ObservedReach' = [t \in Targets |-> IF t \in DOMAIN new /\ setOnline
                                              THEN "ONLINE" ELSE ObservedReach[t]]
      BY <2>1, <3>1, UpStates DEF SetTargetConsistencyStates, TypeOK, StatesMap, StateInfo
    <3>4. ObservedCons' = [t \in Targets |-> IF t \in DOMAIN new THEN new[t] ELSE ObservedCons[t]]
      BY <2>1 DEF SetTargetConsistencyStates, ObservedCons, TypeOK, StatesMap, StateInfo
    <3>5. UNCHANGED <<ObservedPrimary, toSwitch>>
      BY <2>1 DEF SetTargetConsistencyStates, ObservedPrimary
    <3>6. M!SetTargetConsistencyStates(new, setOnline)
      BY <3>3, <3>4, <3>5 DEF M!SetTargetConsistencyStates
    <3> QED BY <3>2, <3>6 DEF M!Next
  <2>2. ASSUME NEW S \in Servers, NEW old \in [S -> Consistency],
               NEW new \in [S -> Consistency], NEW lead \in SUBSET S,
               ChangeTargetConsistencyStates(old, new, lead)
        PROVE  M!Next
    <3>1. phase # "down" /\ phase' # "down"
      BY <2>2 DEF ChangeTargetConsistencyStates, HandlersRun
    <3>2. /\ S \in SUBSET Targets /\ DOMAIN new = S /\ DOMAIN old = S
          /\ old \in [S -> M!Consistency] /\ new \in [S -> M!Consistency]
      BY BoundAssumption DEF Consistency, M!Consistency
    <3>3. CASE \A t \in DOMAIN old : states[t].cons = old[t]
      <4>1. ObservedReach' = [t \in Targets |-> IF t \in DOMAIN new
                                                THEN "ONLINE" ELSE ObservedReach[t]]
        BY <2>2, <3>1, <3>3, UpStates DEF ChangeTargetConsistencyStates, TypeOK, StatesMap, StateInfo
      <4>2. ObservedCons' = [t \in Targets |-> IF t \in DOMAIN new THEN new[t] ELSE ObservedCons[t]]
        BY <2>2, <3>3 DEF ChangeTargetConsistencyStates, ObservedCons, TypeOK, StatesMap, StateInfo
      <4>3. M!ReportSwitches(new, lead) = ReportSwitches(states, groups, new, lead)
        BY <3>1, UpStates, SwitchMaps
           DEF M!ReportSwitches, ReportSwitches, ObservedPrimary, TypeOK, GroupMap, MirrorBuddyGroup
      <4>4. ObservedPrimary' = M!Switched(M!ReportSwitches(new, lead))
        BY <2>2, <3>3, <4>3, SwitchMaps DEF ChangeTargetConsistencyStates, ObservedPrimary
      <4>5. \A t \in DOMAIN old : ObservedCons[t] = old[t]
        BY <3>2, <3>3 DEF ObservedCons
      <4>6. M!ChangeTargetConsistencyStates(old, new, lead)
        BY <2>2, <4>1, <4>2, <4>4, <4>5
           DEF M!ChangeTargetConsistencyStates, ChangeTargetConsistencyStates
      <4> QED BY <3>2, <4>6 DEF M!Next
    <3>4. CASE ~ \A t \in DOMAIN old : states[t].cons = old[t]
      <4>1. UNCHANGED <<ObservedReach, ObservedCons, ObservedPrimary, toSwitch>>
        BY <2>2, <3>4 DEF ChangeTargetConsistencyStates, ObservedReach, ObservedCons, ObservedPrimary
      <4>2. ~ \A t \in DOMAIN old : ObservedCons[t] = old[t]
        BY <3>2, <3>4 DEF ObservedCons
      <4>3. M!ChangeTargetConsistencyStates(old, new, lead)
        BY <4>1, <4>2 DEF M!ChangeTargetConsistencyStates, M!mgmtdVars
      <4> QED BY <3>2, <4>3 DEF M!Next
    <3> QED BY <3>3, <3>4
  <2>3. CASE HandlerSave \/ CopyGroups \/ SaveStates \/ SaveTargetMappings \/ UNCHANGED vars
    BY <2>3 DEF HandlerSave, CopyGroups, SaveStates, SaveTargetMappings, vars, M!mgmtdVars,
                ObservedReach, ObservedCons, ObservedPrimary
  <2>4. CASE AutoOfflineTargets
    <3> DEFINE sts  == [t \in Targets |-> AutoOffline(states[t])]
               gone == {t \in Targets : sts[t].reach = "OFFLINE" /\ states[t].reach # "OFFLINE"}
               off  == {t \in Targets : sts[t].reach = "OFFLINE"}
               poff == {t \in Targets : sts[t].reach = "POFFLINE"}
    <3>1. /\ phase # "down" /\ phase' # "down" /\ states' = sts
          /\ groups' = Switchover(groups, OfflineSwitches(sts, groups, gone))
          /\ UNCHANGED toSwitch
      BY <2>4 DEF AutoOfflineTargets
    <3> HIDE DEF sts
    <3>2. sts \in StatesMap /\ \A t \in Targets : sts[t].cons = states[t].cons
      BY OperatorTypes DEF sts, AutoOffline, TypeOK, StatesMap, StateInfo
    <3>3. ObservedReach' = [t \in Targets |-> IF t \in off THEN "OFFLINE"
                              ELSE IF t \in poff THEN "POFFLINE" ELSE ObservedReach[t]]
      <4>1. \A t \in Targets : sts[t].reach \notin {"OFFLINE", "POFFLINE"}
                               => sts[t].reach = states[t].reach
        BY DEF sts, AutoOffline, TypeOK, StatesMap, StateInfo
      <4> QED BY <3>1, <4>1, UpStates
    <3>4. UNCHANGED ObservedCons
      BY <3>1, <3>2 DEF ObservedCons
    <3>5. OfflineSwitches(sts, groups, gone) =
            {g \in Groups :
               LET s == M!OtherOf(g, ObservedPrimary[g]) IN
               /\ ObservedPrimary[g] \in off
               /\ ObservedReach[ObservedPrimary[g]] # "OFFLINE"
               /\ (ObservedReach')[s] = "ONLINE"
               /\ ObservedCons[s] = "GOOD"}
      BY <3>1, <3>2, UpStates, SwitchMaps
         DEF OfflineSwitches, OnlineAndGood, ObservedPrimary, ObservedCons, TypeOK, GroupMap,
             MirrorBuddyGroup
    <3>6. ObservedPrimary' = M!Switched(OfflineSwitches(sts, groups, gone))
      BY <3>1, SwitchMaps DEF ObservedPrimary
    <3>7. M!AutoOfflineTargets(poff, off)
      BY <3>1, <3>3, <3>4, <3>5, <3>6 DEF M!AutoOfflineTargets
    <3>8. off \in SUBSET Targets /\ poff \in SUBSET Targets
      OBVIOUS
    <3> HIDE DEF off, poff
    <3> QED BY <3>7, <3>8 DEF M!Next
  <2>5. CASE FindPrimaryResync
    <3>1. /\ phase # "down" /\ toSwitch' \in SUBSET Groups
          /\ UNCHANGED <<ObservedReach, ObservedCons, ObservedPrimary>>
      BY <2>5 DEF FindPrimaryResync, ObservedReach, ObservedCons, ObservedPrimary
    <3>2. ASSUME NEW g \in toSwitch' PROVE M!Resolvable(g)
      <4>1. /\ g \in Groups
            /\ states[copied[g].first].cons = "NEEDS_RESYNC"
            /\ OnlineAndGood(states[copied[g].second])
        BY <2>5, <3>2 DEF FindPrimaryResync
      <4>2. {copied[g].first, copied[g].second} = {First[g], Second[g]} /\ First[g] # Second[g]
        BY <4>1, GroupsAssumption DEF MembersPreserved, Members
      <4>3. copied[g].first \in M!Members(g) /\ M!OtherOf(g, copied[g].first) = copied[g].second
        BY <4>2 DEF M!Members, M!OtherOf
      <4>4. copied[g].first \in Targets /\ copied[g].second \in Targets
        BY <4>1 DEF TypeOK, GroupMap, MirrorBuddyGroup
      <4> QED BY <3>1, <4>1, <4>3, <4>4 DEF M!Resolvable, OnlineAndGood, ObservedReach, ObservedCons
    <3>3. M!FindPrimaryResync(toSwitch')
      BY <3>1, <3>2 DEF M!FindPrimaryResync
    <3> QED BY <3>1, <3>3 DEF M!Next
  <2>6. ASSUME NEW g \in Groups, ResolvePrimaryResync(g) PROVE M!Next
    <3>1. UNCHANGED <<ObservedReach, ObservedCons>>
      BY <2>6 DEF ResolvePrimaryResync, ObservedReach, ObservedCons
    <3>2. ObservedPrimary' = M!Switched({g})
      BY <2>6, SwitchMaps DEF ResolvePrimaryResync, ObservedPrimary
    <3>3. M!ResolvePrimaryResync(g)
      BY <2>6, <3>1, <3>2 DEF ResolvePrimaryResync, M!ResolvePrimaryResync
    <3> QED BY <3>3 DEF M!Next
  <2>7. CASE Tick
    <3>1. \A t \in Targets : /\ states'[t].reach = states[t].reach
                             /\ states'[t].cons = states[t].cons
      BY <2>7 DEF Tick, Older, TypeOK, StatesMap, StateInfo
    <3> QED BY <2>7, <3>1 DEF Tick, M!mgmtdVars, ObservedReach, ObservedCons, ObservedPrimary
  <2>8. CASE Shutdown
    BY <2>8 DEF Shutdown, M!mgmtdVars, ObservedReach, ObservedCons, ObservedPrimary
  <2>9. CASE SetPrimariesPOffline
    <3>1. phase # "down" /\ phase' # "down"
      BY <2>9 DEF SetPrimariesPOffline
    <3>2. ObservedReach' = [t \in Targets |-> IF \E g \in Groups : ObservedPrimary[g] = t
                                              THEN "POFFLINE" ELSE ObservedReach[t]]
      BY <2>9, <3>1, UpStates
         DEF SetPrimariesPOffline, ObservedPrimary, TypeOK, StatesMap, StateInfo
    <3>3. UNCHANGED <<ObservedCons, ObservedPrimary, toSwitch>>
      BY <2>9 DEF SetPrimariesPOffline, ObservedCons, ObservedPrimary, TypeOK, StatesMap, StateInfo
    <3>4. M!SetPrimariesPOffline
      BY <3>2, <3>3 DEF M!SetPrimariesPOffline
    <3> QED BY <3>4 DEF M!Next
  <2>10. CASE Stop \/ Crash
    <3>1. Down
      BY <2>10 DEF Stop, Crash
    <3>2. M!Restart(ObservedCons', ObservedPrimary')
      BY <3>1 DEF Down, M!Restart, ObservedReach
    <3>3. ObservedCons' \in [Targets -> M!Consistency]
      BY <3>1 DEF Down, ObservedCons, TypeOK, StatesMap, StateInfo, Consistency, M!Consistency
    <3>4. ObservedPrimary' = [g \in Groups |-> groupsFile[g].first]
      BY <3>1 DEF Down, ObservedPrimary
    <3>5. ASSUME NEW g \in Groups
          PROVE  groupsFile[g].first \in Targets /\ groupsFile[g].first \in M!Members(g)
      BY DEF M!Members, MembersPreserved, Members, TypeOK, GroupMap, MirrorBuddyGroup
    <3>6. [g \in Groups |-> groupsFile[g].first] \in M!PrimaryMaps
      BY <3>5 DEF M!PrimaryMaps
    <3>7. ObservedPrimary' \in M!PrimaryMaps
      BY <3>4, <3>6
    <3> QED BY <3>2, <3>3, <3>7 DEF M!Next
  <2>11. ASSUME NEW reboot \in BOOLEAN, NEW ages \in [Targets -> Age], Start(reboot, ages)
         PROVE  UNCHANGED M!mgmtdVars
    BY <2>11 DEF Start, DownReadsFiles, M!mgmtdVars, ObservedReach, ObservedCons, ObservedPrimary
  <2> QED BY <2>1, <2>2, <2>3, <2>4, <2>5, <2>6, <2>7, <2>8, <2>9, <2>10, <2>11
          DEF Next, Handlers, SyncPass
<1> QED BY <1>1, <1>2, TypeCorrect, MembersCorrect, DownInductive, PTL
        DEF Spec, ImplementsMgmtd, M!Spec
=============================================================================
