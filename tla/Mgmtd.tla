------------------------------- MODULE Mgmtd -------------------------------
(***************************************************************************)
(* What the management daemon promises the servers about target states and *)
(* buddy groups: the abstract specification that TargetStates implements   *)
(* and that BuddyMirror is composed with. Locks, threads, clocks and files *)
(* are gone; what is left is which state changes and switchovers a server  *)
(* can observe.                                                            *)
(***************************************************************************)
EXTENDS Naturals

CONSTANTS
  Targets,        \* target IDs
  Groups,         \* mirror buddy group IDs
  First, Second   \* configured primary and secondary of each group

Reachability == {"ONLINE", "POFFLINE", "OFFLINE"}
Consistency  == {"GOOD", "NEEDS_RESYNC", "BAD"}

VARIABLES
  reach,     \* reachability of each target
  cons,      \* consistency of each target
  primary,   \* primary of each group
  found      \* groups findPrimaryResync has picked and not yet switched

mgmtdVars == <<reach, cons, primary, found>>

Members(g) == {First[g], Second[g]}

\* The other target of a group.
OtherOf(g, t) == IF t = First[g] THEN Second[g] ELSE First[g]

\* Groups switched because a reported secondary comes online and is GOOD while
\* the primary is OFFLINE (and not reported before it in the same message).
ReportSwitches(new, lead) ==
  {g \in Groups :
     LET s == OtherOf(g, primary[g]) IN
     /\ s \in DOMAIN new
     /\ reach[s] # "ONLINE"
     /\ new[s] = "GOOD"
     /\ reach[primary[g]] = "OFFLINE"
     /\ primary[g] \in DOMAIN new => s \in lead}

Switched(S) == [g \in Groups |-> IF g \in S THEN OtherOf(g, primary[g]) ELSE primary[g]]

\* A server reports its own targets; refused if an old state does not match.
ChangeTargetConsistencyStates(old, new, lead) ==
  IF \A t \in DOMAIN old : cons[t] = old[t]
  THEN /\ cons' = [t \in Targets |-> IF t \in DOMAIN new THEN new[t] ELSE cons[t]]
       /\ reach' = [t \in Targets |-> IF t \in DOMAIN new THEN "ONLINE" ELSE reach[t]]
       /\ primary' = Switched(ReportSwitches(new, lead))
       /\ UNCHANGED found
  ELSE UNCHANGED mgmtdVars

\* Somebody sets the states of some targets, unconditionally.
SetTargetConsistencyStates(new, setOnline) ==
  /\ cons' = [t \in Targets |-> IF t \in DOMAIN new THEN new[t] ELSE cons[t]]
  /\ reach' = [t \in Targets |-> IF t \in DOMAIN new /\ setOnline THEN "ONLINE" ELSE reach[t]]
  /\ UNCHANGED <<primary, found>>

\* Silent targets become probably-offline (poff) or offline (off); a group
\* whose primary goes OFFLINE is switched if its secondary can take over.
AutoOfflineTargets(poff, off) ==
  /\ reach' = [t \in Targets |-> IF t \in off THEN "OFFLINE"
                                 ELSE IF t \in poff THEN "POFFLINE" ELSE reach[t]]
  /\ primary' = Switched({g \in Groups :
       LET s == OtherOf(g, primary[g]) IN
       /\ primary[g] \in off
       /\ reach[primary[g]] # "OFFLINE"
       /\ reach'[s] = "ONLINE"
       /\ cons[s] = "GOOD"})
  /\ UNCHANGED <<cons, found>>

\* A group can be picked when one member needs a resync and the other is ONLINE
\* and GOOD. Which of the two is the primary was looked up earlier and may have
\* changed since.
Resolvable(g) ==
  \E t \in Members(g) : /\ cons[t] = "NEEDS_RESYNC"
                        /\ reach[OtherOf(g, t)] = "ONLINE"
                        /\ cons[OtherOf(g, t)] = "GOOD"

FindPrimaryResync(S) ==
  /\ \A g \in S : Resolvable(g)
  /\ found' = S
  /\ UNCHANGED <<reach, cons, primary>>

ResolvePrimaryResync(g) ==
  /\ g \in found
  /\ found' = found \ {g}
  /\ primary' = Switched({g})
  /\ UNCHANGED <<reach, cons>>

\* A shutting down daemon declares every primary probably-offline.
SetPrimariesPOffline ==
  /\ reach' = [t \in Targets |-> IF \E g \in Groups : primary[g] = t
                                 THEN "POFFLINE" ELSE reach[t]]
  /\ UNCHANGED <<cons, primary, found>>

\* The daemon ends and starts again: states and groups are those of the files,
\* which may be older, and no target is known to be reachable.
Restart(savedCons, savedPrimary) ==
  /\ reach' = [t \in Targets |-> "POFFLINE"]
  /\ cons' = savedCons
  /\ primary' = savedPrimary
  /\ found' = {}

Init ==
  /\ reach = [t \in Targets |-> "POFFLINE"]
  /\ cons = [t \in Targets |-> "GOOD"]
  /\ primary = First
  /\ found = {}

PrimaryMaps == {p \in [Groups -> Targets] : \A g \in Groups : p[g] \in Members(g)}

Next ==
  \/ \E S \in SUBSET Targets : \E old, new \in [S -> Consistency], lead \in SUBSET S :
       ChangeTargetConsistencyStates(old, new, lead)
  \/ \E S \in SUBSET Targets : \E new \in [S -> Consistency], setOnline \in BOOLEAN :
       SetTargetConsistencyStates(new, setOnline)
  \/ \E poff, off \in SUBSET Targets : AutoOfflineTargets(poff, off)
  \/ \E S \in SUBSET Groups : FindPrimaryResync(S)
  \/ \E g \in Groups : ResolvePrimaryResync(g)
  \/ SetPrimariesPOffline
  \/ \E c \in [Targets -> Consistency], p \in PrimaryMaps : Restart(c, p)

Spec == Init /\ [][Next]_mgmtdVars
=============================================================================
