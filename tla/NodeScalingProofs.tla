-------------------------- MODULE NodeScalingProofs --------------------------
(***************************************************************************)
(* What holds of NodeScaling for any number of nodes, edits, transactions  *)
(* and faults, with proofs.                                                *)
(***************************************************************************)
EXTENDS NodeScaling, FiniteSetTheorems, TLAPS

-----------------------------------------------------------------------------
(* Types.                                                                  *)

LEMMA LesserOf ==
    ASSUME NEW a \in Nat, NEW b \in Nat
    PROVE  /\ Min({a, b}) \in {a, b}
           /\ Min({a, b}) <= a /\ Min({a, b}) <= b
<1>1. \E x \in {a, b} : \A y \in {a, b} : x <= y
  BY a <= b \/ b <= a
<1> QED
  BY <1>1 DEF Min

LEMMA IndexIs ==
    /\ Index \subseteq Nat
    /\ \A i \in Index : i < MaxNodes /\ i + 1 \in 1 .. MaxNodes
    /\ NoIndex \notin Index
BY BoundsAssumption DEF Index, NoIndex

(* At most as many pods are ready as there are nodes.                      *)
LEMMA ReadyPodsTyped == ReadyPods \in 0 .. MaxNodes
<1> DEFINE ready == {i \in Index : Runs(i)}
<1>1. IsFiniteSet(Index) /\ Cardinality(Index) = MaxNodes
  BY FS_Interval, BoundsAssumption DEF Index
<1>2. IsFiniteSet(ready) /\ Cardinality(ready) <= Cardinality(Index)
  BY <1>1, FS_Subset, ready \in SUBSET Index
<1>3. Cardinality(ready) \in Nat
  BY <1>2, FS_CardinalityType
<1> QED
  BY <1>1, <1>2, <1>3, BoundsAssumption DEF ReadyPods

Passes == [at : {"idle", "claims", "sts", "status", "upgrade"},
           nodes : 0 .. MaxNodes, fresh : BOOLEAN, left : SUBSET Index,
           i : 0 .. MaxNodes, ready : BOOLEAN]

(* A pass has read a cluster, which has a node.                            *)
PassTyped ==
    /\ pass.at = "idle" <=> pass = Idle
    /\ pass.at # "idle" => pass.nodes \in 1 .. MaxNodes

Typed == TypeOK /\ PassTyped

LEMMA IdleTyped == Idle \in Passes /\ Idle.at = "idle"
BY BoundsAssumption DEF Idle, Passes

LEMMA InitTyped == Init => Typed
<1> SUFFICES ASSUME Init
             PROVE  Typed
  OBVIOUS
<1>1. /\ nodes \in 1 .. MaxNodes /\ volumes \in 1 .. MaxNodes
      /\ replicas \in 0 .. MaxNodes /\ readyReplicas \in 0 .. MaxNodes
  BY BoundsAssumption DEF Init
<1>2. leader \in Index /\ standby \in Index \cup {NoIndex}
  BY <1>1, BoundsAssumption DEF Init, Upto, Index
<1>3. vol \in [Index -> 0 .. MaxWrites + 1] /\ committed \in 1 .. MaxWrites + 1
  BY <1>1, BoundsAssumption DEF Init
<1>4. pass \in Passes /\ PassTyped
  BY IdleTyped DEF Init, PassTyped
<1>5. /\ claim \in [Index -> {"none", "bound", "terminating"}]
      /\ pod \in [Index -> {"none", "running", "stopping"}]
  BY DEF Init
<1>6. /\ wanted \in BOOLEAN /\ synced \in BOOLEAN /\ queued \in BOOLEAN
      /\ stage \in {"none", "sync", "down", "post"} /\ state \in {"scaling", "ready"}
  BY DEF Init
<1>7. edits \in 0 .. MaxEdits /\ writes \in 0 .. MaxWrites /\ faults \in 0 .. MaxFaults
  BY BoundsAssumption DEF Init
<1> QED
  BY <1>1, <1>2, <1>3, <1>4, <1>5, <1>6, <1>7 DEF Typed, TypeOK, Passes

LEMMA Given ==
    ASSUME Typed
    PROVE  /\ nodes \in 1 .. MaxNodes /\ nodes \in Nat /\ MaxNodes \in Nat \ {0}
           /\ pass \in Passes
           /\ \A i \in Index : vol[i] \in 0 .. MaxWrites + 1
           /\ committed \in 1 .. MaxWrites + 1
           /\ replicas \in Nat
BY BoundsAssumption DEF Typed, TypeOK, Passes

(* The steps of the database.                                              *)
LEMMA DatabaseTyped ==
    ASSUME Typed, Write \/ Database
    PROVE  /\ DatabaseStep
           /\ vol' \in [Index -> 0 .. MaxWrites + 1]
           /\ committed' \in 1 .. MaxWrites + 1
           /\ leader' \in Index
           /\ standby' \in Index \cup {NoIndex}
           /\ writes' \in 0 .. MaxWrites
<1>1. /\ vol \in [Index -> 0 .. MaxWrites + 1] /\ committed \in 1 .. MaxWrites + 1
      /\ leader \in Index /\ standby \in Index \cup {NoIndex} /\ writes \in 0 .. MaxWrites
      /\ MaxWrites \in Nat
  BY BoundsAssumption DEF Typed, TypeOK
<1>2. \A i \in Index : vol[i] \in Nat /\ vol[i] \in 0 .. MaxWrites + 1
  BY <1>1
<1>3. CASE Write
  <2>1. Min({vol[leader] + 1, MaxWrites + 1}) \in 0 .. MaxWrites + 1
    BY <1>1, <1>2, LesserOf
  <2>2. vol' \in [Index -> 0 .. MaxWrites + 1]
    BY <1>1, <1>3, <2>1 DEF Write
  <2>3. writes' \in 0 .. MaxWrites
    BY <1>1, <1>3 DEF Write
  <2> QED
    BY <1>1, <1>3, <2>2, <2>3 DEF Write
<1>4. CASE Commit
  <2>1. PICK safe : /\ committed < safe /\ committed' = safe
                    /\ safe = IF standby = NoIndex THEN vol[leader]
                              ELSE Min({vol[leader], vol[standby]})
    BY <1>4 DEF Commit
  <2>2. safe \in 0 .. MaxWrites + 1
    BY <1>1, <1>2, <2>1, LesserOf
  <2>3. committed' \in 1 .. MaxWrites + 1
    BY <1>1, <2>1, <2>2
  <2> QED
    BY <1>1, <1>4, <2>3 DEF Commit
<1>5. CASE DropStandby
  BY <1>1, <1>5 DEF DropStandby
<1>6. ASSUME NEW i \in Index, Replicate(i) \/ PickStandby(i)
      PROVE  /\ DatabaseStep
             /\ vol' \in [Index -> 0 .. MaxWrites + 1]
             /\ committed' \in 1 .. MaxWrites + 1
             /\ leader' \in Index
             /\ standby' \in Index \cup {NoIndex}
             /\ writes' \in 0 .. MaxWrites
  BY <1>1, <1>2, <1>6 DEF Replicate, PickStandby
<1>7. ASSUME NEW i \in Index, Elect(i)
      PROVE  /\ DatabaseStep
             /\ vol' \in [Index -> 0 .. MaxWrites + 1]
             /\ committed' \in 1 .. MaxWrites + 1
             /\ leader' \in Index
             /\ standby' \in Index \cup {NoIndex}
             /\ writes' \in 0 .. MaxWrites
  <2>1. \A j \in Index : Min({vol[j], vol[i]}) \in 0 .. MaxWrites + 1
    BY <1>2, LesserOf
  <2> QED
    BY <1>1, <1>7, <2>1 DEF Elect
<1> QED
  BY <1>3, <1>4, <1>5, <1>6, <1>7 DEF Database

(* The steps of the StatefulSet's controller and the kubelets.             *)
LEMMA PodsTyped ==
    ASSUME Typed, Pods \/ \E i \in Index : PodLoss(i)
    PROVE  /\ UNCHANGED <<user, status, synced, pass, replicas, committed, leader, standby,
                          edits, writes>>
           /\ queued' \in BOOLEAN
           /\ claim' \in [Index -> {"none", "bound", "terminating"}]
           /\ pod' \in [Index -> {"none", "running", "stopping"}]
           /\ readyReplicas' \in 0 .. MaxNodes
           /\ vol' \in [Index -> 0 .. MaxWrites + 1]
           /\ faults' \in 0 .. MaxFaults
<1>1. /\ queued \in BOOLEAN
      /\ claim \in [Index -> {"none", "bound", "terminating"}]
      /\ pod \in [Index -> {"none", "running", "stopping"}]
      /\ readyReplicas \in 0 .. MaxNodes
      /\ vol \in [Index -> 0 .. MaxWrites + 1]
      /\ faults \in 0 .. MaxFaults
      /\ MaxWrites \in Nat /\ MaxFaults \in Nat
  BY BoundsAssumption DEF Typed, TypeOK
<1>2. CASE CountReady
  BY <1>1, <1>2, ReadyPodsTyped DEF CountReady, PodStep
<1>3. ASSUME NEW i \in Index, CreatePod(i) \/ StopPod(i) \/ PodGone(i) \/ PodLoss(i)
      PROVE  /\ UNCHANGED <<user, status, synced, pass, replicas, committed, leader,
                            standby, edits, writes>>
             /\ queued' \in BOOLEAN
             /\ claim' \in [Index -> {"none", "bound", "terminating"}]
             /\ pod' \in [Index -> {"none", "running", "stopping"}]
             /\ readyReplicas' \in 0 .. MaxNodes
             /\ vol' \in [Index -> 0 .. MaxWrites + 1]
             /\ faults' \in 0 .. MaxFaults
  <2>1. CASE CreatePod(i)
    BY <1>1, <2>1 DEF CreatePod, PodStep
  <2>2. CASE StopPod(i)
    BY <1>1, <2>2 DEF StopPod, PodStep
  <2>3. CASE PodGone(i)
    <3>1. CASE claim[i] = "terminating"
      BY <1>1, <2>3, <3>1 DEF PodGone, PodStep
    <3>2. CASE claim[i] # "terminating"
      BY <1>1, <2>3, <3>2 DEF PodGone, PodStep
    <3> QED
      BY <3>1, <3>2
  <2>4. CASE PodLoss(i)
    BY <1>1, <2>4 DEF PodLoss, Fault, PodStep
  <2> QED
    BY <1>3, <2>1, <2>2, <2>3, <2>4
<1> QED
  BY <1>2, <1>3 DEF Pods

(* The user's edits.                                                       *)
LEMMA EditsTyped ==
    ASSUME Typed, EditNodes \/ WantUpgrade
    PROVE  /\ UNCHANGED <<status, synced, claim, pod, replicas, readyReplicas, database,
                          writes, faults>>
           /\ nodes' \in 1 .. MaxNodes /\ wanted' \in BOOLEAN
           /\ queued' \in BOOLEAN
           /\ pass' \in Passes /\ PassTyped'
           /\ edits' \in 0 .. MaxEdits
<1> DEFINE late == [pass EXCEPT !.fresh = FALSE]
<1>1. Edited /\ pass \in Passes
  BY Given DEF EditNodes, WantUpgrade
<1>2. /\ UNCHANGED <<status, synced, claim, pod, replicas, readyReplicas, database,
                     writes, faults>>
      /\ queued' = TRUE
      /\ pass' = IF pass = Idle THEN Idle ELSE late
      /\ edits < MaxEdits /\ edits' = edits + 1
  BY <1>1 DEF Edited
<1>3. late \in Passes /\ late.at = pass.at /\ late.nodes = pass.nodes
  BY <1>1 DEF Passes
<1> HIDE DEF late
<1>4. pass' \in Passes /\ PassTyped'
  BY <1>1, <1>2, <1>3, IdleTyped DEF Typed, PassTyped
<1>5. edits' \in 0 .. MaxEdits
  BY <1>2, BoundsAssumption DEF Typed, TypeOK
<1>6. nodes' \in 1 .. MaxNodes /\ wanted' \in BOOLEAN
  BY DEF EditNodes, WantUpgrade, Typed, TypeOK
<1> QED
  BY <1>2, <1>4, <1>5, <1>6

(* What a pass may turn into.                                              *)
LEMMA PassesTyped ==
    ASSUME Typed, pass.at # "idle"
    PROVE  /\ \A at \in {"claims", "sts", "status", "upgrade"}, ready \in BOOLEAN :
                /\ [pass EXCEPT !.at = at] \in Passes
                /\ [pass EXCEPT !.at = at, !.ready = ready] \in Passes
           /\ \A left \in SUBSET Index : [pass EXCEPT !.left = left] \in Passes
           /\ pass.i < pass.nodes =>
                /\ [pass EXCEPT !.i = pass.i + 1] \in Passes
                /\ \A left \in SUBSET Index :
                     [pass EXCEPT !.i = pass.i + 1, !.left = left] \in Passes
<1>1. pass \in Passes /\ pass.nodes \in 1 .. MaxNodes /\ pass.i \in 0 .. MaxNodes
  BY Given DEF Typed, PassTyped, Passes
<1>2. pass.i < pass.nodes => pass.i + 1 \in 0 .. MaxNodes
  BY <1>1, BoundsAssumption
<1> QED
  BY <1>1, <1>2 DEF Passes

(* A pass that begins.                                                     *)
LEMMA NewPassTyped ==
    ASSUME Typed, NEW left \in SUBSET Index
    PROVE  /\ [Idle EXCEPT !.at = "claims", !.nodes = nodes, !.left = left] \in Passes
           /\ [Idle EXCEPT !.at = "upgrade", !.nodes = nodes] \in Passes
           /\ [Idle EXCEPT !.at = "claims", !.nodes = nodes, !.left = left].nodes = nodes
           /\ [Idle EXCEPT !.at = "upgrade", !.nodes = nodes].nodes = nodes
           /\ [Idle EXCEPT !.at = "claims", !.nodes = nodes, !.left = left].at = "claims"
           /\ [Idle EXCEPT !.at = "upgrade", !.nodes = nodes].at = "upgrade"
           /\ [Idle EXCEPT !.at = "claims", !.nodes = nodes, !.left = left].left = left
           /\ [Idle EXCEPT !.at = "claims", !.nodes = nodes, !.left = left].i = 0
<1>1. nodes \in 0 .. MaxNodes /\ 0 \in 0 .. MaxNodes
  BY Given
<1> DEFINE first == [Idle EXCEPT !.at = "claims", !.nodes = nodes, !.left = left]
           stagePass == [Idle EXCEPT !.at = "upgrade", !.nodes = nodes]
<1>2. Idle \in Passes /\ Idle.i = 0
  BY IdleTyped DEF Idle
<1>3. /\ first \in Passes /\ first.nodes = nodes /\ first.at = "claims"
      /\ first.left = left /\ first.i = Idle.i
  BY <1>1, <1>2 DEF Passes
<1>4. stagePass \in Passes /\ stagePass.nodes = nodes /\ stagePass.at = "upgrade"
  BY <1>1, <1>2 DEF Passes
<1> QED
  BY <1>2, <1>3, <1>4

OperatorTypes ==
    /\ nodes \in 1 .. MaxNodes /\ wanted \in BOOLEAN
    /\ stage \in {"none", "sync", "down", "post"}
    /\ state \in {"scaling", "ready"}
    /\ volumes \in 1 .. MaxNodes
    /\ synced \in BOOLEAN /\ queued \in BOOLEAN
    /\ pass \in Passes /\ PassTyped
    /\ claim \in [Index -> {"none", "bound", "terminating"}]
    /\ replicas \in 0 .. MaxNodes
    /\ vol \in [Index -> 0 .. MaxWrites + 1]

OperatorFrame == UNCHANGED <<pod, readyReplicas, committed, leader, standby, edits, writes>>

(* The steps of a pass of the chain.                                       *)
LEMMA ChainTyped ==
    ASSUME Typed,
           \/ ChainBegin \/ EnsureClaim \/ DeleteClaim \/ ClaimsDone
           \/ ReconcileSts \/ UpdateStatus
    PROVE  OperatorTypes' /\ OperatorFrame /\ UNCHANGED <<nodes, wanted, stage, faults>>
<1>1. OperatorTypes /\ MaxWrites \in Nat /\ MaxNodes \in Nat
  BY BoundsAssumption DEF Typed, TypeOK, OperatorTypes, Passes
<1>2. OperatorStep
  BY DEF ChainBegin, EnsureClaim, DeleteClaim, ClaimsDone, ReconcileSts, UpdateStatus
<1>3. OperatorFrame /\ UNCHANGED <<nodes, wanted, faults>>
  BY <1>2 DEF OperatorStep, OperatorFrame, user, bounds
<1>4. stage' = stage
  BY DEF ChainBegin, EnsureClaim, DeleteClaim, ClaimsDone, ReconcileSts, UpdateStatus, status
<1> DEFINE Values == /\ state' \in {"scaling", "ready"}
                     /\ volumes' \in 1 .. MaxNodes
                     /\ synced' \in BOOLEAN /\ queued' \in BOOLEAN
                     /\ claim' \in [Index -> {"none", "bound", "terminating"}]
                     /\ replicas' \in 0 .. MaxNodes
                     /\ vol' \in [Index -> 0 .. MaxWrites + 1]
           PassKept == pass' \in Passes /\ PassTyped'
<1> USE DEF OperatorTypes
<1>5. SUFFICES Values /\ PassKept
  BY <1>1, <1>3, <1>4
<1>6. CASE ChainBegin
  <2> DEFINE left == {i \in Index : claim[i] # "none"}
             p == [Idle EXCEPT !.at = "claims", !.nodes = nodes, !.left = left]
  <2>1. pass' = p /\ queued' = FALSE /\ UNCHANGED <<status, synced, claim, replicas, vol>>
    BY <1>6 DEF ChainBegin
  <2>2. left \in SUBSET Index
    OBVIOUS
  <2> HIDE DEF left
  <2>3. p \in Passes /\ p.at = "claims" /\ p.nodes = nodes
    BY <2>2, NewPassTyped
  <2> HIDE DEF p
  <2>4. PassKept
    BY <1>1, <2>1, <2>3, IdleTyped DEF PassTyped
  <2> QED
    BY <1>1, <2>1, <2>4 DEF status
<1>7. ASSUME NEW p \in Passes, pass' = p, p.at # "idle", p.nodes = pass.nodes,
             pass.at # "idle"
      PROVE  PassKept
  BY <1>1, <1>7, IdleTyped DEF PassTyped
<1>8. ASSUME pass' = Idle
      PROVE  PassKept
  BY <1>8, IdleTyped DEF PassTyped
<1>9. CASE EnsureClaim
  <2>1. pass.at = "claims" /\ pass.i < pass.nodes /\ pass \in Passes
    BY <1>1, <1>9 DEF EnsureClaim
  <2>2. pass.i \in Index
    BY <1>1, <2>1 DEF PassTyped, Passes, Index
  <2>3. CASE pass.i \in pass.left /\ claim[pass.i] = "none"
    BY <1>1, <1>8, <1>9, <2>3 DEF EnsureClaim, Again, status
  <2>4. CASE pass.i \in pass.left /\ claim[pass.i] # "none"
    <3> DEFINE p == [pass EXCEPT !.i = pass.i + 1, !.left = @ \ {pass.i}]
    <3>1. pass' = p
      BY <1>9, <2>4 DEF EnsureClaim
    <3>2. pass.left \ {pass.i} \in SUBSET Index
      BY <2>1 DEF Passes
    <3>3. p \in Passes
      BY <2>1, <3>2, PassesTyped
    <3>4. p.at = "claims" /\ p.nodes = pass.nodes
      BY <2>1 DEF Passes
    <3> HIDE DEF p
    <3> QED
      BY <1>1, <1>7, <1>9, <2>1, <2>4, <3>1, <3>3, <3>4 DEF EnsureClaim, status
  <2>5. CASE pass.i \notin pass.left
    <3> DEFINE p == [pass EXCEPT !.i = pass.i + 1]
    <3>1. pass' = p
      BY <1>9, <2>5 DEF EnsureClaim
    <3>2. p \in Passes
      BY <2>1, PassesTyped
    <3>3. p.at = "claims" /\ p.nodes = pass.nodes
      BY <2>1 DEF Passes
    <3> HIDE DEF p
    <3>4. PassKept
      BY <1>7, <2>1, <3>1, <3>2, <3>3
    <3>5. /\ claim' = [claim EXCEPT ![pass.i] = "bound"]
          /\ vol' = [vol EXCEPT ![pass.i] = 0]
          /\ queued' = TRUE /\ UNCHANGED <<status, synced, replicas>>
      BY <1>9, <2>5 DEF EnsureClaim
    <3>6. claim' \in [Index -> {"none", "bound", "terminating"}]
      BY <1>1, <3>5
    <3>7. 0 \in 0 .. MaxWrites + 1
      BY <1>1
    <3>8. vol' \in [Index -> 0 .. MaxWrites + 1]
      <4>1. vol \in [Index -> 0 .. MaxWrites + 1]
        BY <1>1
      <4> QED
        BY <3>5, <3>7, <4>1
    <3>9. /\ state' \in {"scaling", "ready"} /\ volumes' \in 1 .. MaxNodes
          /\ synced' \in BOOLEAN /\ queued' \in BOOLEAN /\ replicas' \in 0 .. MaxNodes
      BY <1>1, <3>5 DEF status
    <3> QED
      BY <3>4, <3>6, <3>8, <3>9
  <2> QED
    BY <2>3, <2>4, <2>5
<1>10. CASE DeleteClaim
  <2>1. pass.at = "claims" /\ pass \in Passes /\ UNCHANGED <<status, synced, replicas>>
    BY <1>1, <1>10 DEF DeleteClaim
  <2>2. PICK i \in pass.left :
               /\ pass' = [pass EXCEPT !.left = @ \ {i}]
               /\ IF claim[i] = "bound"
                  THEN /\ queued' = TRUE
                       /\ IF pod[i] = "none"
                          THEN /\ claim' = [claim EXCEPT ![i] = "none"]
                               /\ vol' = [vol EXCEPT ![i] = 0]
                          ELSE /\ claim' = [claim EXCEPT ![i] = "terminating"]
                               /\ UNCHANGED vol
                  ELSE UNCHANGED <<queued, claim, vol>>
    BY <1>10 DEF DeleteClaim, Leftover
  <2> DEFINE p == [pass EXCEPT !.left = @ \ {i}]
  <2>3. p \in Passes /\ p.at = "claims" /\ p.nodes = pass.nodes
    BY <2>1 DEF Passes
  <2> HIDE DEF p
  <2>4. PassKept
    BY <1>7, <2>1, <2>2, <2>3 DEF p
  <2>5. queued' \in BOOLEAN /\ claim' \in [Index -> {"none", "bound", "terminating"}]
    BY <1>1, <2>2
  <2>6. vol' \in [Index -> 0 .. MaxWrites + 1]
    <3>1. vol' = vol \/ vol' = [vol EXCEPT ![i] = 0]
      BY <2>2
    <3> QED
      BY <1>1, <3>1
  <2> QED
    BY <1>1, <2>1, <2>4, <2>5, <2>6 DEF status
<1>11. CASE ClaimsDone
  <2> DEFINE p == [pass EXCEPT !.at = "sts"]
  <2>1. pass' = p /\ pass.at = "claims"
        /\ UNCHANGED <<status, synced, queued, claim, replicas, vol>>
    BY <1>11 DEF ClaimsDone
  <2>2. p \in Passes /\ p.at = "sts" /\ p.nodes = pass.nodes
    BY <1>1 DEF Passes
  <2> HIDE DEF p
  <2>3. PassKept
    BY <1>7, <2>1, <2>2
  <2> QED
    BY <1>1, <2>1, <2>3 DEF status
<1>12. CASE ReconcileSts
  <2> DEFINE p == [pass EXCEPT !.at = "status", !.ready = readyReplicas = pass.nodes]
  <2>1. pass' = p /\ pass.at = "sts" /\ replicas' = pass.nodes
        /\ UNCHANGED <<status, synced, queued, claim, vol>>
    BY <1>12 DEF ReconcileSts
  <2>2. p \in Passes /\ p.at = "status" /\ p.nodes = pass.nodes
    BY <1>1 DEF Passes
  <2> HIDE DEF p
  <2>3. PassKept
    BY <1>7, <2>1, <2>2
  <2>4. replicas' \in 0 .. MaxNodes
    BY <1>1, <2>1 DEF Passes
  <2> QED
    BY <1>1, <2>1, <2>3, <2>4 DEF status
<1>13. CASE UpdateStatus
  <2>1. /\ pass' = Idle /\ queued' \in {queued, TRUE} /\ state' \in {"scaling", "ready"}
        /\ volumes' \in {volumes, pass.nodes} /\ pass.at = "status"
        /\ UNCHANGED <<synced, claim, replicas, vol>>
    BY <1>1, <1>13 DEF UpdateStatus, Again
  <2>2. volumes' \in 1 .. MaxNodes
    BY <1>1, <2>1 DEF PassTyped
  <2> QED
    BY <1>1, <1>8, <2>1, <2>2
<1> QED
  BY <1>6, <1>9, <1>10, <1>11, <1>12, <1>13

(* The steps of an upgrade.                                                *)
LEMMA StagesTyped ==
    ASSUME Typed,
           UpgradeBegin \/ StageBegin \/ SyncStage \/ DownStage \/ PostStage \/ SyncJob
    PROVE  OperatorTypes' /\ OperatorFrame /\ UNCHANGED <<nodes, volumes, claim, vol, faults>>
<1>1. OperatorTypes /\ MaxWrites \in Nat /\ MaxNodes \in Nat
  BY BoundsAssumption DEF Typed, TypeOK, OperatorTypes, Passes
<1>2. OperatorFrame /\ UNCHANGED <<nodes, volumes, claim, vol, faults>>
  BY DEF UpgradeBegin, StageBegin, SyncStage, DownStage, PostStage, SyncJob, StagePass,
         OperatorStep, OperatorFrame, user, bounds, status
<1> DEFINE Values == /\ wanted' \in BOOLEAN
                     /\ stage' \in {"none", "sync", "down", "post"}
                     /\ state' \in {"scaling", "ready"}
                     /\ synced' \in BOOLEAN /\ queued' \in BOOLEAN
                     /\ replicas' \in 0 .. MaxNodes
           PassKept == pass' \in Passes /\ PassTyped'
<1> USE DEF OperatorTypes
<1>3. SUFFICES Values /\ PassKept
  BY <1>1, <1>2
<1>4. pass' = Idle => PassKept
  BY IdleTyped DEF PassTyped
<1>5. pass' = pass => PassKept
  BY <1>1 DEF PassTyped
<1>6. CASE UpgradeBegin
  BY <1>1, <1>5, <1>6 DEF UpgradeBegin, OperatorStep, user
<1>7. CASE StageBegin
  <2> DEFINE p == [Idle EXCEPT !.at = "upgrade", !.nodes = nodes]
  <2>1. pass' = p /\ p \in Passes /\ p.nodes = nodes /\ p.at = "upgrade"
    BY <1>7, NewPassTyped DEF StageBegin
  <2> HIDE DEF p
  <2>2. PassKept
    BY <1>1, <2>1, IdleTyped DEF PassTyped
  <2> QED
    BY <1>1, <1>7, <2>2 DEF StageBegin, OperatorStep, user, status
<1>8. ASSUME NEW s, NEW done, NEW next \in {"down", "post", "none"}, StagePass(s, done, next)
      PROVE  /\ stage' \in {"none", "sync", "down", "post"} /\ queued' \in BOOLEAN
             /\ PassKept /\ pass.nodes \in 0 .. MaxNodes
  <2>1. stage' \in {"none", "sync", "down", "post"} /\ pass' = Idle
    BY <1>1, <1>8 DEF StagePass
  <2>2. queued' \in BOOLEAN
    BY <1>8, Zenon DEF StagePass
  <2> QED
    BY <1>1, <1>4, <2>1, <2>2 DEF Passes
<1>9. CASE SyncStage
  BY <1>1, <1>8, <1>9 DEF SyncStage, OperatorStep, user
<1>10. CASE DownStage
  BY <1>1, <1>8, <1>10 DEF DownStage, OperatorStep, user
<1>11. CASE PostStage
  BY <1>1, <1>8, <1>11 DEF PostStage
<1>12. CASE SyncJob
  BY <1>1, <1>5, <1>12 DEF SyncJob, OperatorStep, user, status
<1> QED
  BY <1>6, <1>7, <1>9, <1>10, <1>11, <1>12

LEMMA AbortTyped ==
    ASSUME Typed, Abort
    PROVE  /\ UNCHANGED <<user, status, synced, claim, pod, replicas, readyReplicas, database,
                          edits, writes>>
           /\ pass' \in Passes /\ PassTyped' /\ queued' \in BOOLEAN
           /\ faults' \in 0 .. MaxFaults
<1>1. pass' = Idle /\ queued' = TRUE
  BY DEF Abort, Again
<1>2. faults' \in 0 .. MaxFaults
  BY BoundsAssumption DEF Abort, Fault, Typed, TypeOK
<1> QED
  BY <1>1, <1>2, IdleTyped DEF Abort, PassTyped

LEMMA StepTyped == Typed /\ [Next]_vars => Typed'
<1> SUFFICES ASSUME Typed, [Next]_vars
             PROVE  Typed'
  OBVIOUS
<1> USE DEF Typed, TypeOK, Passes
<1>1. CASE EditNodes \/ WantUpgrade
  BY <1>1, EditsTyped DEF status, database
<1>2. CASE \/ ChainBegin \/ EnsureClaim \/ DeleteClaim \/ ClaimsDone
           \/ ReconcileSts \/ UpdateStatus
  BY <1>2, ChainTyped DEF OperatorTypes, OperatorFrame
<1>3. CASE UpgradeBegin \/ StageBegin \/ SyncStage \/ DownStage \/ PostStage \/ SyncJob
  BY <1>3, StagesTyped DEF OperatorTypes, OperatorFrame
<1>4. CASE Pods \/ \E i \in Index : PodLoss(i)
  BY <1>4, PodsTyped DEF user, status, PassTyped
<1>5. CASE Write \/ Database
  BY <1>5, DatabaseTyped DEF DatabaseStep, user, status, PassTyped
<1>6. CASE Abort
  BY <1>6, AbortTyped DEF user, status, database
<1>7. CASE UNCHANGED vars
  BY <1>7 DEF vars, user, status, database, bounds, PassTyped
<1> QED
  BY <1>1, <1>2, <1>3, <1>4, <1>5, <1>6, <1>7 DEF Next, Operator

(* Every variable keeps its type: the StatefulSet is never told a number   *)
(* of replicas spec.nodes cannot have, the status lists at most as many    *)
(* volumes, and no index beyond them gets a claim (pvc.Reconcile).         *)
THEOREM ScalingTypes == Spec => []TypeOK
<1>1. Init => Typed
  BY InitTyped
<1>2. Typed /\ [Next]_vars => Typed'
  BY StepTyped
<1>3. Typed => TypeOK
  BY DEF Typed
<1> QED
  BY <1>1, <1>2, <1>3, PTL DEF Spec

-----------------------------------------------------------------------------
(* Committed data, under a user who removes one node at a time.            *)

Good(i)    == vol[i] >= committed
Has(i)     == vol[i] > 0 => Good(i)
(* The index goes, or its claim has not (or no longer) what it needs.      *)
Leaving(i) == i >= nodes \/ claim[i] # "bound"
Staying(i) == ~Leaving(i) /\ Good(i)

(* A pass works on the nodes the spec has, those it has not come to keep   *)
(* their claims, and an upgrade and the chain exclude each other.          *)
PassMeant ==
    /\ pass.at # "idle" => pass.nodes = nodes
    /\ pass.at = "claims" =>
        /\ pass.i <= nodes
        /\ \A i \in pass.left : i >= pass.i
        /\ \A i \in Index : i >= pass.i /\ i < nodes /\ i \notin pass.left => claim[i] = "none"
    /\ wanted \/ stage # "none" => pass.at \in {"idle", "upgrade"}
    /\ pass.at = "upgrade" => stage # "none"
    /\ wanted /\ stage = "none" => state = "ready"

(* A claim beyond the nodes that is not being deleted is one the pass has  *)
(* yet to delete, with its pod still there.                                *)
ClaimMeant(i) ==
    /\ claim[i] = "none" => vol[i] = 0 /\ pod[i] = "none"
    /\ claim[i] = "terminating" => pod[i] # "none"
    /\ i >= nodes /\ claim[i] = "bound" =>
        /\ pod[i] = "running" /\ i < replicas
        /\ pass.at = "idle" \/ (pass.at = "claims" /\ i \in pass.left)
    /\ wanted \/ stage # "none" => claim[i] = IF i < nodes THEN "bound" ELSE "none"
    /\ stage = "none" /\ pod[i] = "running" /\ i < nodes => i < replicas

(* Of leader and standby, at most one goes, and not before the other has   *)
(* everything and runs.                                                    *)
DatabaseMeant ==
    /\ Has(leader)
    /\ standby # NoIndex => standby # leader /\ Has(standby)
    /\ Staying(leader) \/ (standby # NoIndex /\ Staying(standby))
    /\ Runs(leader) /\ Leaving(leader) =>
        standby # NoIndex /\ Runs(standby) /\ ~Leaving(standby)
    /\ standby # NoIndex /\ Runs(standby) /\ Leaving(standby) =>
        Runs(leader) /\ ~Leaving(leader)

ClaimsMeant == \A i \in Index : ClaimMeant(i)

Invariant == Typed /\ PassMeant /\ ClaimsMeant /\ DatabaseMeant

LEMMA Values ==
    ASSUME Typed
    PROVE  /\ nodes \in Nat /\ replicas \in Nat /\ committed \in Nat \ {0}
           /\ \A i \in Index : i \in Nat /\ vol[i] \in Nat /\ vol[i] <= MaxWrites + 1
           /\ MaxWrites \in Nat
           /\ leader \in Index /\ (standby # NoIndex => standby \in Index)
           /\ vol \in [Index -> 0 .. MaxWrites + 1]
           /\ pod \in [Index -> {"none", "running", "stopping"}]
           /\ claim \in [Index -> {"none", "bound", "terminating"}]
           /\ pass \in Passes
BY BoundsAssumption, IndexIs DEF Typed, TypeOK, Passes

LEMMA InitSafe == Init => PassMeant /\ ClaimsMeant /\ DatabaseMeant
<1> SUFFICES ASSUME Init
             PROVE  PassMeant /\ ClaimsMeant /\ DatabaseMeant
  OBVIOUS
<1>1. Typed
  BY InitTyped
<1>2. PassMeant
  BY IdleTyped DEF Init, PassMeant
<1>3. ClaimsMeant
  <2>1. pass.at = "idle"
    BY IdleTyped DEF Init
  <2> QED
    BY <1>1, <2>1, Values DEF Init, ClaimsMeant, ClaimMeant
<1>4. DatabaseMeant
  <2>1. leader < nodes /\ (standby # NoIndex => standby < nodes /\ standby # leader)
    BY <1>1, Values DEF Init, Upto
  <2>2. ~Leaving(leader) /\ Good(leader) /\ leader \in Index
    BY <1>1, <2>1, Values DEF Init, Leaving, Good
  <2>3. standby # NoIndex => ~Leaving(standby) /\ Good(standby)
    BY <1>1, <2>1, Values DEF Init, Leaving, Good
  <2> QED
    BY <2>1, <2>2, <2>3 DEF DatabaseMeant, Has, Staying
<1> QED
  BY <1>2, <1>3, <1>4

(* What the parts of the invariant depend on.                              *)
LEMMA PassStays ==
    ASSUME PassMeant, UNCHANGED <<user, status, pass, claim>>
    PROVE  PassMeant'
BY DEF PassMeant, user, status

LEMMA DatabaseStays ==
    ASSUME DatabaseMeant, UNCHANGED <<nodes, claim, pod, vol, committed, leader, standby>>
    PROVE  DatabaseMeant'
BY DEF DatabaseMeant, Has, Good, Staying, Leaving, Runs

(* Nothing in the database changes the claims, and what has no claim has   *)
(* no data.                                                                *)
LEMMA DatabaseClaims ==
    ASSUME Invariant, DatabaseStep,
           \A i \in Index : vol[i] = 0 /\ pod[i] = "none" => vol'[i] = 0
    PROVE  PassMeant' /\ ClaimsMeant'
<1>1. PassMeant'
  BY PassStays DEF Invariant, DatabaseStep
<1>2. ASSUME NEW i \in Index
      PROVE  ClaimMeant(i)'
  BY <1>2 DEF Invariant, ClaimsMeant, ClaimMeant, DatabaseStep, user, status
<1> QED
  BY <1>1, <1>2 DEF ClaimsMeant

LEMMA WriteSafe ==
    ASSUME Invariant, Write
    PROVE  PassMeant' /\ ClaimsMeant' /\ DatabaseMeant'
<1> DEFINE more == Min({vol[leader] + 1, MaxWrites + 1})
<1>1. Typed /\ DatabaseStep /\ Runs(leader) /\ leader \in Index
  BY Values DEF Invariant, Write, LeaderRuns
<1>2. more \in Nat /\ more >= vol[leader]
  BY <1>1, Values, LesserOf
<1>3. vol' = [vol EXCEPT ![leader] = more] /\ UNCHANGED <<committed, leader, standby>>
  BY DEF Write
<1> HIDE DEF more
<1>4. vol'[leader] = more /\ \A i \in Index : i # leader => vol'[i] = vol[i]
  BY <1>1, <1>3, Values
<1>5. UNCHANGED <<nodes, claim, pod>>
  BY <1>1 DEF DatabaseStep, user
<1>6. PassMeant' /\ ClaimsMeant'
  BY <1>1, <1>4, DatabaseClaims DEF Runs
<1>7. vol[leader] > 0 /\ vol'[leader] > 0 /\ Good(leader) /\ Good(leader)'
  BY <1>1, <1>2, <1>3, <1>4, Values DEF Invariant, DatabaseMeant, Has, Good, Runs
<1>8. standby # NoIndex => vol'[standby] = vol[standby]
  BY <1>1, <1>4, Values DEF Invariant, DatabaseMeant
<1>9. DatabaseMeant'
  BY <1>3, <1>5, <1>7, <1>8 DEF Invariant, DatabaseMeant, Has, Good, Staying, Leaving, Runs
<1> QED
  BY <1>6, <1>9

LEMMA CommitSafe ==
    ASSUME Invariant, Commit
    PROVE  PassMeant' /\ ClaimsMeant' /\ DatabaseMeant'
<1>1. Typed /\ DatabaseStep /\ Runs(leader) /\ leader \in Index
  BY Values DEF Invariant, Commit, LeaderRuns
<1>2. UNCHANGED <<nodes, claim, pod, vol, leader, standby>>
  BY <1>1 DEF DatabaseStep, user, Commit
<1>3. PassMeant' /\ ClaimsMeant'
  BY <1>1, <1>2, DatabaseClaims
<1>4. vol[leader] >= committed'
      /\ (standby # NoIndex => vol[standby] >= committed')
  <2>1. CASE standby = NoIndex
    BY <1>1, <2>1, Values DEF Commit
  <2>2. CASE standby # NoIndex
    <3>1. committed' = Min({vol[leader], vol[standby]})
      BY <2>2 DEF Commit
    <3> QED
      BY <1>1, <2>2, <3>1, Values, LesserOf
  <2> QED
    BY <2>1, <2>2
<1>5. DatabaseMeant'
  BY <1>2, <1>4 DEF Invariant, DatabaseMeant, Has, Good, Staying, Leaving, Runs
<1> QED
  BY <1>3, <1>5

LEMMA ReplicateSafe ==
    ASSUME Invariant, NEW i \in Index, Replicate(i)
    PROVE  PassMeant' /\ ClaimsMeant' /\ DatabaseMeant'
<1>1. Typed /\ DatabaseStep /\ Runs(leader) /\ leader \in Index /\ pod[i] = "running"
  BY Values DEF Invariant, Replicate, LeaderRuns
<1>2. UNCHANGED <<nodes, claim, pod, committed, leader, standby>>
  BY <1>1 DEF DatabaseStep, user, Replicate
<1>3. vol'[i] = vol[leader] /\ \A j \in Index : j # i => vol'[j] = vol[j]
  BY <1>1, Values DEF Replicate
<1>4. PassMeant' /\ ClaimsMeant'
  BY <1>1, <1>3, DatabaseClaims
<1>5. i # leader /\ vol'[leader] = vol[leader] /\ vol[leader] > 0 /\ Good(leader)
  BY <1>1, <1>3, Values DEF Replicate, Runs, Invariant, DatabaseMeant, Has
<1>6. CASE i = standby
  <2>1. standby # NoIndex
    BY <1>6, IndexIs
  <2>2. Has(leader)' /\ Has(standby)'
    BY <1>2, <1>3, <1>5, <1>6 DEF Has, Good
  <2>3. Staying(leader)' \/ (standby # NoIndex /\ Staying(standby))'
    BY <1>2, <1>3, <1>5, <1>6 DEF Invariant, DatabaseMeant, Good, Staying, Leaving
  <2>4. Runs(leader)' /\ (Leaving(leader)' <=> Leaving(leader))
        /\ (Leaving(standby)' <=> Leaving(standby))
    BY <1>1, <1>2, <1>5 DEF Runs, Leaving
  <2>5. Runs(standby)'
    BY <1>1, <1>2, <1>3, <1>5, <1>6 DEF Runs
  <2>6. Leaving(leader) => ~Leaving(standby)
    BY <1>1 DEF Invariant, DatabaseMeant
  <2>7. standby' # NoIndex /\ standby' # leader'
    BY <1>2, <1>5, <1>6, <2>1
  <2> QED
    BY <1>2, <1>4, <2>1, <2>2, <2>3, <2>4, <2>5, <2>6, <2>7 DEF DatabaseMeant
<1>7. CASE i # standby
  <2>1. standby # NoIndex => vol'[standby] = vol[standby]
    BY <1>1, <1>3, <1>7, Values
  <2> QED
    BY <1>2, <1>4, <1>5, <2>1 DEF Invariant, DatabaseMeant, Has, Good, Staying, Leaving, Runs
<1> QED
  BY <1>6, <1>7

LEMMA StandbySafe ==
    ASSUME Invariant, DropStandby \/ \E i \in Index : PickStandby(i)
    PROVE  PassMeant' /\ ClaimsMeant' /\ DatabaseMeant'
<1>1. Typed /\ DatabaseStep /\ Runs(leader) /\ leader \in Index
  BY Values DEF Invariant, DropStandby, PickStandby, LeaderRuns
<1>2. UNCHANGED <<nodes, claim, pod, vol, committed, leader>>
  BY <1>1 DEF DatabaseStep, user, DropStandby, PickStandby
<1>3. PassMeant' /\ ClaimsMeant'
  BY <1>1, <1>2, DatabaseClaims
<1>4. vol[leader] > 0 /\ Good(leader)
  BY <1>1, Values DEF Runs, Invariant, DatabaseMeant, Has
<1>5. CASE DropStandby
  <2>1. standby' = NoIndex /\ ~Runs(standby)
    BY <1>5 DEF DropStandby, Runs
  <2>2. ~Leaving(leader)
    BY <1>1, <2>1 DEF Invariant, DatabaseMeant
  <2> QED
    BY <1>2, <1>3, <1>4, <2>1, <2>2 DEF DatabaseMeant, Has, Good, Staying, Leaving
<1>6. ASSUME NEW i \in Index, PickStandby(i)
      PROVE  DatabaseMeant'
  <2>1. standby' = i /\ standby = NoIndex /\ i # leader /\ vol[i] = vol[leader] /\ Runs(i)
    BY <1>6 DEF PickStandby
  <2>2. ~Leaving(leader)
    BY <2>1 DEF Invariant, DatabaseMeant, Staying
  <2>3. Has(leader)' /\ Has(standby)' /\ Staying(leader)' /\ Runs(leader)' /\ ~Leaving(leader)'
    BY <1>1, <1>2, <1>4, <2>1, <2>2 DEF Has, Good, Staying, Leaving, Runs
  <2> QED
    BY <1>2, <2>1, <2>3 DEF DatabaseMeant
<1> QED
  BY <1>3, <1>5, <1>6

LEMMA ElectSafe ==
    ASSUME Invariant, NEW i \in Index, Elect(i)
    PROVE  PassMeant' /\ ClaimsMeant' /\ DatabaseMeant'
<1>1. Typed /\ DatabaseStep /\ ~Runs(leader) /\ i = standby /\ Runs(i) /\ i # NoIndex
  BY Values, IndexIs DEF Invariant, Elect, LeaderRuns
<1>2. UNCHANGED <<nodes, claim, pod, committed>> /\ leader' = i /\ standby' = NoIndex
  BY <1>1 DEF DatabaseStep, user, Elect
<1>3. \A j \in Index : Min({vol[j], vol[i]}) \in {vol[j], vol[i]}
                        /\ Min({vol[j], vol[i]}) <= vol[j]
  BY <1>1, Values, LesserOf
<1>4. \A j \in Index : vol'[j] = Min({vol[j], vol[i]})
  BY DEF Elect
<1>5. vol'[i] = vol[i] /\ \A j \in Index : vol[j] = 0 => vol'[j] = 0
  <2>1. vol'[i] = vol[i]
    BY <1>3, <1>4
  <2>2. ASSUME NEW j \in Index, vol[j] = 0
        PROVE  vol'[j] = 0
    <3>1. Min({vol[j], vol[i]}) \in Nat /\ Min({vol[j], vol[i]}) <= vol[j]
      BY <1>1, <1>3, Values
    <3> HIDE DEF Min
    <3> QED
      BY <1>4, <2>2, <3>1
  <2> QED
    BY <2>1, <2>2
<1>6. PassMeant' /\ ClaimsMeant'
  BY <1>1, <1>5, DatabaseClaims
<1>7. Good(i) /\ ~Leaving(i)
  BY <1>1 DEF Invariant, DatabaseMeant, Has, Runs
<1>8. Good(leader)' /\ ~Leaving(leader)'
  BY <1>2, <1>5, <1>7 DEF Good, Leaving
<1>9. DatabaseMeant'
  BY <1>2, <1>8 DEF DatabaseMeant, Has, Staying
<1> QED
  BY <1>6, <1>9

(* The steps of the StatefulSet's controller and the kubelets.             *)
LEMMA CountSafe ==
    ASSUME Invariant, CountReady
    PROVE  PassMeant' /\ ClaimsMeant' /\ DatabaseMeant'
<1>1. UNCHANGED <<user, status, pass, claim, pod, vol, committed, leader, standby, replicas>>
  BY DEF CountReady, PodStep
<1>2. UNCHANGED nodes
  BY <1>1 DEF user
<1>3. ASSUME NEW i \in Index
      PROVE  ClaimMeant(i)'
  BY <1>1, <1>3 DEF Invariant, ClaimsMeant, ClaimMeant, user, status
<1> QED
  BY <1>1, <1>2, <1>3, PassStays, DatabaseStays DEF Invariant, ClaimsMeant

(* Where the data is does not depend on who runs.                          *)
LEMMA RunningSafe ==
    ASSUME DatabaseMeant, UNCHANGED <<nodes, claim, vol, committed, leader, standby>>,
           Runs(leader)' /\ Leaving(leader)' =>
              standby # NoIndex /\ Runs(standby)' /\ ~Leaving(standby)',
           standby # NoIndex /\ Runs(standby)' /\ Leaving(standby)' =>
              Runs(leader)' /\ ~Leaving(leader)'
    PROVE  DatabaseMeant'
BY DEF DatabaseMeant, Has, Good, Staying, Leaving

LEMMA CreateSafe ==
    ASSUME Invariant, NEW i \in Index, CreatePod(i)
    PROVE  PassMeant' /\ ClaimsMeant' /\ DatabaseMeant'
<1>1. /\ UNCHANGED <<user, status, pass, claim, vol, committed, leader, standby, replicas>>
      /\ i < replicas /\ pod[i] = "none" /\ claim[i] = "bound"
      /\ pod' = [pod EXCEPT ![i] = "running"]
  BY DEF CreatePod, PodStep
<1>2. UNCHANGED <<nodes, wanted, stage>> /\ Typed
  BY <1>1 DEF user, status, Invariant
<1>3. pod'[i] = "running" /\ \A j \in Index : j # i => pod'[j] = pod[j]
  BY <1>1, <1>2, Values
<1>4. i < nodes
  BY <1>1, <1>2, Values DEF Invariant, ClaimsMeant, ClaimMeant
<1>5. ASSUME NEW j \in Index
      PROVE  ClaimMeant(j)'
  <2>1. CASE j = i
    BY <1>1, <1>2, <1>3, <1>4, <2>1, Values DEF Invariant, ClaimsMeant, ClaimMeant
  <2>2. CASE j # i
    BY <1>1, <1>2, <1>3, <1>5, <2>2 DEF Invariant, ClaimsMeant, ClaimMeant
  <2> QED
    BY <2>1, <2>2
<1>6. /\ ~Leaving(i)' /\ \A j \in Index : Leaving(j)' = Leaving(j)
      /\ \A j \in Index : Runs(j) => Runs(j)'
      /\ \A j \in Index : Runs(j)' /\ Leaving(j)' => Runs(j)
  BY <1>1, <1>2, <1>3, <1>4, Values DEF Leaving, Runs
<1>7. leader \in Index /\ (standby # NoIndex => standby \in Index)
  BY <1>2, Values
<1>8. UNCHANGED <<leader, standby, nodes, claim, vol, committed>>
  BY <1>1, <1>2
<1>9. DatabaseMeant'
  <2>1. Runs(leader)' /\ Leaving(leader)' =>
           standby # NoIndex /\ Runs(standby)' /\ ~Leaving(standby)'
    BY <1>6, <1>7, <1>8 DEF Invariant, DatabaseMeant
  <2>2. standby # NoIndex /\ Runs(standby)' /\ Leaving(standby)' =>
           Runs(leader)' /\ ~Leaving(leader)'
    BY <1>6, <1>7, <1>8 DEF Invariant, DatabaseMeant
  <2> QED
    BY <1>8, <2>1, <2>2, RunningSafe DEF Invariant
<1> QED
  BY <1>1, <1>5, <1>9, PassStays DEF Invariant, ClaimsMeant

(* A node that stays keeps its pod.                                        *)
LEMMA StopSafe ==
    ASSUME Invariant, NEW i \in Index, StopPod(i)
    PROVE  PassMeant' /\ ClaimsMeant' /\ DatabaseMeant'
<1>1. /\ UNCHANGED <<user, status, pass, claim, vol, committed, leader, standby, replicas>>
      /\ i >= replicas /\ pod[i] = "running"
      /\ pod' = [pod EXCEPT ![i] = "stopping"]
  BY DEF StopPod, PodStep
<1>2. UNCHANGED <<nodes, wanted, stage>> /\ Typed
  BY <1>1 DEF user, status, Invariant
<1>3. pod'[i] = "stopping" /\ \A j \in Index : j # i => pod'[j] = pod[j]
  BY <1>1, <1>2, Values
<1>4. ~(i >= nodes /\ claim[i] = "bound")
  BY <1>1, <1>2, Values DEF Invariant, ClaimsMeant, ClaimMeant
<1>5. ASSUME NEW j \in Index
      PROVE  ClaimMeant(j)'
  <2>1. CASE j = i
    BY <1>1, <1>2, <1>3, <1>4, <2>1, Values DEF Invariant, ClaimsMeant, ClaimMeant
  <2>2. CASE j # i
    BY <1>1, <1>2, <1>3, <1>5, <2>2 DEF Invariant, ClaimsMeant, ClaimMeant
  <2> QED
    BY <2>1, <2>2
<1>6. /\ \A j \in Index : Leaving(j)' = Leaving(j)
      /\ \A j \in Index : j # i => Runs(j)' = Runs(j)
      /\ ~Runs(i)'
  BY <1>1, <1>2, <1>3, Values DEF Leaving, Runs
<1>7. leader \in Index /\ (standby # NoIndex => standby \in Index)
  BY <1>2, Values
<1>8. UNCHANGED <<leader, standby, nodes, claim, vol, committed>>
  BY <1>1, <1>2
<1>9. Leaving(i) \/ \A j \in Index : Runs(j) => ~Leaving(j)
  <2>1. CASE stage = "none"
    <3>1. i >= nodes
      BY <1>1, <1>2, <2>1, Values DEF Invariant, ClaimsMeant, ClaimMeant
    <3> QED
      BY <3>1 DEF Leaving
  <2>2. CASE stage # "none"
    <3>1. ASSUME NEW j \in Index, Runs(j)
          PROVE  ~Leaving(j)
      BY <1>2, <2>2, <3>1, Values DEF Invariant, ClaimsMeant, ClaimMeant, Runs, Leaving
    <3> QED
      BY <3>1
  <2> QED
    BY <2>1, <2>2
<1>10. DatabaseMeant'
  <2>1. Runs(leader)' /\ Leaving(leader)' =>
           standby # NoIndex /\ Runs(standby)' /\ ~Leaving(standby)'
    BY <1>6, <1>7, <1>8, <1>9 DEF Invariant, DatabaseMeant
  <2>2. standby # NoIndex /\ Runs(standby)' /\ Leaving(standby)' =>
           Runs(leader)' /\ ~Leaving(leader)'
    BY <1>6, <1>7, <1>8, <1>9 DEF Invariant, DatabaseMeant
  <2> QED
    BY <1>8, <2>1, <2>2, RunningSafe DEF Invariant
<1> QED
  BY <1>1, <1>5, <1>10, PassStays DEF Invariant, ClaimsMeant

LEMMA GoneSafe ==
    ASSUME Invariant, NEW i \in Index, PodGone(i)
    PROVE  PassMeant' /\ ClaimsMeant' /\ DatabaseMeant'
<1>1. /\ UNCHANGED <<user, status, pass, committed, leader, standby, replicas>>
      /\ pod[i] = "stopping" /\ pod' = [pod EXCEPT ![i] = "none"]
  BY DEF PodGone, PodStep
<1>2. UNCHANGED <<nodes, wanted, stage, state>> /\ Typed
  BY <1>1 DEF user, status, Invariant
<1>3. pod'[i] = "none" /\ \A j \in Index : j # i => pod'[j] = pod[j]
  BY <1>1, <1>2, Values
<1>4. \A j \in Index : j # i => claim'[j] = claim[j] /\ vol'[j] = vol[j]
  BY <1>2, Values DEF PodGone
<1>5. \/ claim[i] = "terminating" /\ claim'[i] = "none" /\ vol'[i] = 0
      \/ claim[i] = "bound" /\ claim'[i] = claim[i] /\ vol'[i] = vol[i]
  <2>1. claim[i] # "none"
    BY <1>1 DEF Invariant, ClaimsMeant, ClaimMeant
  <2>2. CASE claim[i] = "terminating"
    BY <1>2, <2>2, Values DEF PodGone
  <2>3. CASE claim[i] # "terminating"
    BY <1>2, <2>1, <2>3, Values DEF PodGone
  <2> QED
    BY <2>2, <2>3
<1>6. \A j \in Index : claim[j] = "none" => claim'[j] = "none"
  BY <1>4, <1>5
<1>7. PassMeant'
  BY <1>1, <1>2, <1>6 DEF Invariant, PassMeant
<1>8. ASSUME NEW j \in Index
      PROVE  ClaimMeant(j)'
  <2>1. CASE j = i
    BY <1>1, <1>2, <1>3, <1>5, <2>1, Values DEF Invariant, ClaimsMeant, ClaimMeant
  <2>2. CASE j # i
    BY <1>1, <1>2, <1>3, <1>4, <1>8, <2>2 DEF Invariant, ClaimsMeant, ClaimMeant
  <2> QED
    BY <2>1, <2>2
<1>9. ASSUME NEW j \in Index
      PROVE  /\ Leaving(j)' = Leaving(j) /\ Runs(j)' = Runs(j)
             /\ (Has(j) => Has(j)') /\ (Staying(j) => Staying(j)')
  <2>1. CASE j = i
    BY <1>1, <1>2, <1>3, <1>5, <2>1, Values DEF Leaving, Runs, Has, Staying, Good
  <2>2. CASE j # i
    BY <1>1, <1>2, <1>3, <1>4, <2>2, Values DEF Leaving, Runs, Has, Staying, Good
  <2> QED
    BY <2>1, <2>2
<1>10. leader \in Index /\ (standby # NoIndex => standby \in Index)
  BY <1>2, Values
<1>11. DatabaseMeant'
  BY <1>1, <1>9, <1>10 DEF Invariant, DatabaseMeant
<1> QED
  BY <1>7, <1>8, <1>11 DEF ClaimsMeant

LEMMA LossSafe ==
    ASSUME Invariant, Careful, NEW i \in Index, PodLoss(i)
    PROVE  PassMeant' /\ ClaimsMeant' /\ DatabaseMeant'
<1>1. /\ UNCHANGED <<user, status, pass, claim, vol, committed, leader, standby, replicas>>
      /\ replicas <= nodes /\ (\A j \in Index : claim[j] # "terminating")
      /\ pod' = [pod EXCEPT ![i] = "stopping"]
  BY DEF PodLoss, PodStep
<1>2. UNCHANGED <<nodes, wanted, stage>> /\ Typed
  BY <1>1 DEF user, status, Invariant
<1>3. pod'[i] = "stopping" /\ \A j \in Index : j # i => pod'[j] = pod[j]
  BY <1>1, <1>2, Values
<1>4. \A j \in Index : j >= nodes => claim[j] # "bound"
  BY <1>1, <1>2, Values DEF Invariant, ClaimsMeant, ClaimMeant
<1>5. claim[i] # "none"
  BY DEF Invariant, ClaimsMeant, ClaimMeant, PodLoss
<1>6. ASSUME NEW j \in Index
      PROVE  ClaimMeant(j)'
  <2>1. CASE j = i
    BY <1>1, <1>2, <1>3, <1>4, <1>5, <2>1, Values DEF Invariant, ClaimsMeant, ClaimMeant
  <2>2. CASE j # i
    BY <1>1, <1>2, <1>3, <1>6, <2>2 DEF Invariant, ClaimsMeant, ClaimMeant
  <2> QED
    BY <2>1, <2>2
<1>7. ASSUME NEW j \in Index
      PROVE  Runs(j)' => ~Leaving(j)'
  <2>1. pod'[j] = "running" => pod[j] = "running"
    BY <1>3
  <2>2. pod[j] = "running" => claim[j] = "bound"
    BY <1>1, <1>2, Values DEF Invariant, ClaimsMeant, ClaimMeant
  <2> QED
    BY <1>1, <1>2, <1>4, <2>1, <2>2, Values DEF Runs, Leaving
<1>8. leader \in Index /\ (standby # NoIndex => standby \in Index)
  BY <1>2, Values
<1>9. UNCHANGED <<leader, standby, nodes, claim, vol, committed>>
  BY <1>1, <1>2
<1>10. DatabaseMeant'
  BY <1>7, <1>8, <1>9, RunningSafe DEF Invariant
<1> QED
  BY <1>1, <1>6, <1>10, PassStays DEF Invariant, ClaimsMeant

(* The user's edits.                                                       *)
LEMMA WantSafe ==
    ASSUME Invariant, Careful, WantUpgrade
    PROVE  PassMeant' /\ ClaimsMeant' /\ DatabaseMeant'
<1>1. /\ UNCHANGED <<status, synced, claim, pod, replicas, readyReplicas, database, nodes>>
      /\ Settled /\ wanted'
  BY DEF WantUpgrade, Edited
<1>2. pass = Idle /\ pass' = Idle /\ pass'.at = "idle" /\ pass.at = "idle" /\ stage = "none"
  BY <1>1, IdleTyped DEF WantUpgrade, Edited, Settled
<1>3. UNCHANGED <<stage, state, vol, committed, leader, standby>>
  BY <1>1 DEF status, database
<1>4. PassMeant'
  BY <1>1, <1>2, <1>3 DEF PassMeant, Settled
<1>5. ASSUME NEW i \in Index
      PROVE  ClaimMeant(i)'
  BY <1>1, <1>2, <1>3, <1>5 DEF Invariant, ClaimsMeant, ClaimMeant, Settled
<1> QED
  BY <1>1, <1>3, <1>4, <1>5, DatabaseStays DEF Invariant, ClaimsMeant

LEMMA EditSafe ==
    ASSUME Invariant, Careful, ~Hasty, ~DuringUpgrade, EditNodes
    PROVE  PassMeant' /\ ClaimsMeant' /\ DatabaseMeant'
<1>1. PICK n \in 1 .. MaxNodes : CarefulEdit(n) /\ n # nodes /\ nodes' = n
  BY DEF EditNodes
<1>2. ActedOn /\ stage = "none" /\ ~wanted /\ Typed /\ pass = Idle
  BY DEF EditNodes, ActedOn, Invariant
<1>3. /\ UNCHANGED <<stage, claim, pod, replicas, vol, committed, leader, standby, wanted>>
      /\ pass' = Idle /\ pass'.at = "idle" /\ pass.at = "idle"
  BY <1>2, IdleTyped DEF EditNodes, Edited, status, database
<1>4. replicas = nodes /\ \A i \in Index : pod[i] = "running" => i < nodes
  BY <1>2 DEF ActedOn
<1>5. n \in Nat /\ nodes \in Nat
  BY <1>2, Values
<1>6. PassMeant'
  BY <1>2, <1>3 DEF PassMeant
<1>7. leader \in Index /\ (standby # NoIndex => standby \in Index)
  BY <1>2, Values
<1>8. CASE n > nodes
  <2>1. ASSUME NEW i \in Index, i >= nodes
        PROVE  claim[i] # "bound"
    BY <1>2, <1>4, <2>1, Values DEF Invariant, ClaimsMeant, ClaimMeant
  <2>2. ASSUME NEW i \in Index
        PROVE  ClaimMeant(i)'
    BY <1>1, <1>2, <1>3, <1>4, <1>5, <1>8, <2>1, <2>2, Values
       DEF Invariant, ClaimsMeant, ClaimMeant
  <2>3. ASSUME NEW i \in Index
        PROVE  /\ Leaving(i)' = Leaving(i) /\ Runs(i)' = Runs(i)
               /\ Has(i)' = Has(i) /\ Staying(i)' = Staying(i)
    BY <1>1, <1>2, <1>3, <1>5, <1>8, <2>1, <2>3, Values DEF Leaving, Runs, Has, Staying, Good
  <2>4. DatabaseMeant'
    BY <1>3, <1>7, <2>3 DEF Invariant, DatabaseMeant
  <2> QED
    BY <1>6, <2>2, <2>4 DEF ClaimsMeant
<1>9. CASE n < nodes
  <2>1. /\ n = nodes - 1 /\ Settled
        /\ LeaderRuns /\ standby # NoIndex /\ Runs(standby)
    BY <1>1, <1>2, <1>9 DEF CarefulEdit
  <2>2. \A i \in Index : /\ claim[i] = "bound" <=> i < nodes
                         /\ claim[i] \in {"bound", "none"}
                         /\ i < nodes => pod[i] = "running"
    BY <2>1 DEF Settled, Runs
  <2>3. ASSUME NEW i \in Index
        PROVE  ClaimMeant(i)'
    BY <1>1, <1>2, <1>3, <1>4, <1>5, <1>9, <2>2, <2>3, Values
       DEF Invariant, ClaimsMeant, ClaimMeant
  <2>4. leader < nodes /\ standby < nodes /\ leader # standby
    BY <1>4, <1>7, <2>1 DEF LeaderRuns, Runs, Invariant, DatabaseMeant
  <2>5. Good(leader) /\ Good(standby)
    BY <2>1 DEF LeaderRuns, Runs, Invariant, DatabaseMeant, Has
  <2>6. Good(leader)' /\ Good(standby)' /\ Runs(leader)' /\ Runs(standby)'
    BY <1>3, <2>1, <2>5 DEF Good, LeaderRuns, Runs
  <2>7. ~Leaving(leader)' \/ ~Leaving(standby)'
    <3>1. leader \in Nat /\ standby \in Nat
      BY <1>2, <1>7, <2>1, Values
    <3>2. leader < n \/ standby < n
      BY <1>5, <2>1, <2>4, <3>1
    <3>3. claim[leader] = "bound" /\ claim[standby] = "bound"
      BY <1>7, <2>1, <2>2, <2>4
    <3> QED
      BY <1>1, <1>3, <1>5, <3>1, <3>2, <3>3 DEF Leaving
  <2>8. DatabaseMeant'
    BY <1>3, <2>1, <2>4, <2>6, <2>7 DEF DatabaseMeant, Has, Staying
  <2> QED
    BY <1>6, <2>3, <2>8 DEF ClaimsMeant
<1> QED
  BY <1>1, <1>5, <1>8, <1>9

(* The steps of a pass of the chain.                                       *)
LEMMA BeginSafe ==
    ASSUME Invariant, ChainBegin
    PROVE  PassMeant' /\ ClaimsMeant' /\ DatabaseMeant'
<1> DEFINE left == {i \in Index : claim[i] # "none"}
           p == [Idle EXCEPT !.at = "claims", !.nodes = nodes, !.left = left]
<1>1. /\ UNCHANGED <<status, claim, replicas, vol>> /\ OperatorStep
      /\ pass = Idle /\ stage = "none" /\ ~(state = "ready" /\ wanted) /\ pass' = p
  BY DEF ChainBegin
<1>2. UNCHANGED <<nodes, wanted, stage, state, pod, committed, leader, standby>> /\ Typed
  BY <1>1 DEF OperatorStep, user, status, Invariant
<1>3. /\ p.nodes = nodes /\ p.at = "claims" /\ p.left = left /\ p.i = 0
  <2>1. left \in SUBSET Index
    OBVIOUS
  <2> HIDE DEF left
  <2> QED
    BY <1>2, <2>1, NewPassTyped
<1> HIDE DEF p
<1>4. ~wanted
  BY <1>1 DEF Invariant, PassMeant
<1>5. \A i \in Index : i \in left <=> claim[i] # "none"
  OBVIOUS
<1>6. left \subseteq Index
  OBVIOUS
<1> HIDE DEF left
<1>7. pass.at = "idle"
  BY <1>1, IdleTyped
<1>8. PassMeant'
  BY <1>1, <1>2, <1>3, <1>4, <1>5, <1>6, Values DEF PassMeant
<1>9. ASSUME NEW i \in Index
      PROVE  ClaimMeant(i)'
  BY <1>1, <1>2, <1>3, <1>4, <1>5, <1>9 DEF Invariant, ClaimsMeant, ClaimMeant
<1> QED
  BY <1>1, <1>2, <1>8, <1>9, DatabaseStays DEF Invariant, ClaimsMeant

LEMMA EnsureSafe ==
    ASSUME Invariant, EnsureClaim
    PROVE  PassMeant' /\ ClaimsMeant' /\ DatabaseMeant'
<1>1. /\ UNCHANGED <<status, replicas>> /\ OperatorStep /\ pass.at = "claims"
      /\ pass.i < pass.nodes
  BY DEF EnsureClaim
<1>2. /\ UNCHANGED <<nodes, wanted, stage, state, pod, committed, leader, standby, replicas>>
      /\ Typed
  BY <1>1 DEF OperatorStep, user, status, Invariant
<1>3. pass \in Passes /\ pass.i < nodes /\ pass.nodes = nodes /\ ~wanted /\ stage = "none"
  BY <1>1, <1>2, Values DEF Invariant, PassMeant
<1>4. pass.i \in Index /\ pass.i \in Nat /\ nodes \in Nat /\ pass.left \subseteq Index
  BY <1>2, <1>3, BoundsAssumption DEF Passes, Index, Typed, TypeOK
<1>5. CASE pass.i \in pass.left /\ claim[pass.i] = "none"
  <2>1. pass' = Idle /\ pass'.at = "idle" /\ UNCHANGED <<claim, vol>>
    BY <1>5, IdleTyped DEF EnsureClaim, Again
  <2>2. PassMeant'
    BY <1>2, <1>3, <2>1 DEF PassMeant
  <2>3. ASSUME NEW i \in Index
        PROVE  ClaimMeant(i)'
    BY <1>2, <1>3, <2>1, <2>3 DEF Invariant, ClaimsMeant, ClaimMeant
  <2> QED
    BY <1>2, <2>1, <2>2, <2>3, DatabaseStays DEF Invariant, ClaimsMeant
<1>6. CASE pass.i \in pass.left /\ claim[pass.i] # "none"
  <2> DEFINE p == [pass EXCEPT !.i = pass.i + 1, !.left = @ \ {pass.i}]
  <2>1. pass' = p /\ UNCHANGED <<claim, vol>>
    BY <1>6 DEF EnsureClaim
  <2>2. /\ p.at = "claims" /\ p.nodes = nodes /\ p.i = pass.i + 1
        /\ p.left = pass.left \ {pass.i}
    BY <1>1, <1>3 DEF Passes
  <2> HIDE DEF p
  <2>3. \A i \in p.left : i >= p.i
    <3>1. ASSUME NEW i \in p.left
          PROVE  i >= p.i
      <4>1. i \in Index /\ i >= pass.i /\ i # pass.i
        BY <1>1, <1>4, <2>2, <3>1 DEF Invariant, PassMeant
      <4> QED
        BY <1>2, <1>4, <2>2, <4>1, Values
    <3> QED
      BY <3>1
  <2>4. ASSUME NEW i \in Index, i >= p.i, i < nodes, i \notin p.left
        PROVE  claim[i] = "none"
    <3>1. i >= pass.i /\ i # pass.i
      BY <1>2, <1>4, <2>2, <2>4, Values
    <3> QED
      BY <1>1, <2>2, <2>4, <3>1 DEF Invariant, PassMeant
  <2>5. PassMeant'
    BY <1>2, <1>3, <1>4, <2>1, <2>2, <2>3, <2>4 DEF PassMeant
  <2>6. ASSUME NEW i \in Index
        PROVE  ClaimMeant(i)'
    <3>1. i >= nodes => i # pass.i
      BY <1>2, <1>3, <1>4, Values
    <3> QED
      BY <1>1, <1>2, <1>3, <2>1, <2>2, <2>6, <3>1 DEF Invariant, ClaimsMeant, ClaimMeant
  <2> QED
    BY <1>2, <2>1, <2>5, <2>6, DatabaseStays DEF Invariant, ClaimsMeant
<1>7. CASE pass.i \notin pass.left
  <2> DEFINE p == [pass EXCEPT !.i = pass.i + 1]
  <2>1. /\ pass' = p /\ claim' = [claim EXCEPT ![pass.i] = "bound"]
        /\ vol' = [vol EXCEPT ![pass.i] = 0]
    BY <1>7 DEF EnsureClaim
  <2>2. p.at = "claims" /\ p.nodes = nodes /\ p.i = pass.i + 1 /\ p.left = pass.left
    BY <1>1, <1>3 DEF Passes
  <2> HIDE DEF p
  <2>3. claim[pass.i] = "none"
    BY <1>1, <1>3, <1>4, <1>7 DEF Invariant, PassMeant
  <2>4. vol[pass.i] = 0 /\ pod[pass.i] = "none"
    BY <1>4, <2>3 DEF Invariant, ClaimsMeant, ClaimMeant
  <2>5. vol' = vol /\ claim'[pass.i] = "bound"
        /\ \A i \in Index : i # pass.i => claim'[i] = claim[i]
    BY <1>2, <1>4, <2>1, <2>4, Values
  <2>6. \A i \in p.left : i >= p.i
    <3>1. ASSUME NEW i \in p.left
          PROVE  i >= p.i
      <4>1. i \in Index /\ i >= pass.i /\ i # pass.i
        BY <1>1, <1>4, <1>7, <2>2, <3>1 DEF Invariant, PassMeant
      <4> QED
        BY <1>2, <1>4, <2>2, <4>1, Values
    <3> QED
      BY <3>1
  <2>7. ASSUME NEW i \in Index, i >= p.i, i < nodes, i \notin p.left
        PROVE  claim'[i] = "none"
    <3>1. i >= pass.i /\ i # pass.i
      BY <1>2, <1>4, <2>2, <2>7, Values
    <3> QED
      BY <1>1, <2>2, <2>5, <2>7, <3>1 DEF Invariant, PassMeant
  <2>8. PassMeant'
    BY <1>2, <1>3, <1>4, <2>1, <2>2, <2>6, <2>7 DEF PassMeant
  <2>9. ASSUME NEW i \in Index
        PROVE  ClaimMeant(i)'
    <3>1. i >= nodes => i # pass.i
      BY <1>2, <1>3, <1>4, Values
    <3>2. CASE i = pass.i
      BY <1>2, <1>3, <2>4, <2>5, <3>1, <3>2 DEF Invariant, ClaimsMeant, ClaimMeant
    <3>3. CASE i # pass.i
      BY <1>1, <1>2, <1>3, <2>1, <2>2, <2>5, <2>9, <3>3
         DEF Invariant, ClaimsMeant, ClaimMeant
    <3> QED
      BY <3>2, <3>3
  <2>10. ASSUME NEW i \in Index
         PROVE  /\ (Leaving(i)' => Leaving(i)) /\ (Runs(i)' = Runs(i))
                /\ (Has(i)' = Has(i)) /\ (Staying(i) => Staying(i)')
                /\ (Runs(i) /\ ~Leaving(i) => ~Leaving(i)')
    <3>1. CASE i = pass.i
      BY <1>2, <1>3, <2>4, <2>5, <3>1, Values DEF Leaving, Runs, Has, Staying, Good
    <3>2. CASE i # pass.i
      BY <1>2, <2>5, <2>10, <3>2, Values DEF Leaving, Runs, Has, Staying, Good
    <3> QED
      BY <3>1, <3>2
  <2>11. leader \in Index /\ (standby # NoIndex => standby \in Index)
    BY <1>2, Values
  <2>12. DatabaseMeant'
    BY <1>2, <2>10, <2>11 DEF Invariant, DatabaseMeant
  <2> QED
    BY <2>8, <2>9, <2>12 DEF ClaimsMeant
<1> QED
  BY <1>5, <1>6, <1>7

LEMMA DeleteSafe ==
    ASSUME Invariant, DeleteClaim
    PROVE  PassMeant' /\ ClaimsMeant' /\ DatabaseMeant'
<1>1. /\ UNCHANGED <<status, replicas>> /\ OperatorStep /\ pass.at = "claims"
      /\ pass.i >= pass.nodes
  BY DEF DeleteClaim
<1>2. /\ UNCHANGED <<nodes, wanted, stage, state, pod, committed, leader, standby, replicas>>
      /\ Typed
  BY <1>1 DEF OperatorStep, user, status, Invariant
<1>3. pass \in Passes /\ pass.i >= nodes /\ pass.nodes = nodes /\ ~wanted /\ stage = "none"
  BY <1>1, <1>2, Values DEF Invariant, PassMeant
<1>4. PICK i \in pass.left :
             /\ pass' = [pass EXCEPT !.left = @ \ {i}]
             /\ IF claim[i] = "bound"
                THEN /\ queued' = TRUE
                     /\ IF pod[i] = "none"
                        THEN /\ claim' = [claim EXCEPT ![i] = "none"]
                             /\ vol' = [vol EXCEPT ![i] = 0]
                        ELSE /\ claim' = [claim EXCEPT ![i] = "terminating"]
                             /\ UNCHANGED vol
                ELSE UNCHANGED <<queued, claim, vol>>
  BY DEF DeleteClaim, Leftover
<1> DEFINE p == [pass EXCEPT !.left = @ \ {i}]
<1>5. /\ pass' = p /\ p.at = "claims" /\ p.nodes = nodes /\ p.i = pass.i
      /\ p.left = pass.left \ {i}
  BY <1>1, <1>3, <1>4 DEF Passes
<1> HIDE DEF p
<1>6. i \in Index /\ i >= nodes /\ pass.i \in Nat
  <2>1. i \in Index /\ i >= pass.i /\ pass.i \in Nat
    BY <1>1, <1>3, <1>4, BoundsAssumption DEF Invariant, PassMeant, Passes
  <2> QED
    BY <1>2, <1>3, <2>1, Values
<1>7. /\ vol' = vol
      /\ \/ claim' = claim /\ claim[i] # "bound"
         \/ claim[i] = "bound" /\ pod[i] = "running" /\ claim' = [claim EXCEPT ![i] = "terminating"]
  <2>1. CASE claim[i] = "bound"
    <3>1. pod[i] = "running"
      BY <1>6, <2>1 DEF Invariant, ClaimsMeant, ClaimMeant
    <3> QED
      BY <1>4, <2>1, <3>1
  <2>2. CASE claim[i] # "bound"
    BY <1>4, <2>2
  <2> QED
    BY <2>1, <2>2
<1>8. /\ \A j \in Index : j # i => claim'[j] = claim[j]
      /\ claim[i] # "bound" => claim'[i] = claim[i]
      /\ claim[i] = "bound" => claim'[i] = "terminating" /\ pod[i] = "running"
  BY <1>2, <1>6, <1>7, Values
<1>9. PassMeant'
  <2>1. p.i <= nodes /\ \A j \in p.left : j >= p.i
    BY <1>1, <1>5 DEF Invariant, PassMeant
  <2>2. ASSUME NEW j \in Index, j >= p.i, j < nodes, j \notin p.left
        PROVE  claim'[j] = "none"
    <3>1. j # i
      BY <1>2, <1>6, <2>2, Values
    <3> QED
      BY <1>1, <1>5, <1>8, <2>2, <3>1 DEF Invariant, PassMeant
  <2> QED
    BY <1>2, <1>3, <1>5, <2>1, <2>2 DEF PassMeant
<1>10. ASSUME NEW j \in Index
       PROVE  ClaimMeant(j)'
  <2>1. CASE j = i
    BY <1>2, <1>3, <1>6, <1>7, <1>8, <2>1, Values DEF Invariant, ClaimsMeant, ClaimMeant
  <2>2. CASE j # i
    BY <1>1, <1>2, <1>3, <1>5, <1>7, <1>8, <1>10, <2>2 DEF Invariant, ClaimsMeant, ClaimMeant
  <2> QED
    BY <2>1, <2>2
<1>11. ASSUME NEW j \in Index
       PROVE  Leaving(j)' = Leaving(j)
  <2>1. CASE j = i
    BY <1>2, <1>6, <2>1 DEF Leaving
  <2>2. CASE j # i
    BY <1>2, <1>8, <1>11, <2>2 DEF Leaving
  <2> QED
    BY <2>1, <2>2
<1>12. leader \in Index /\ (standby # NoIndex => standby \in Index)
  BY <1>2, Values
<1>13. \A j \in Index : /\ Has(j)' = Has(j) /\ Staying(j)' = Staying(j)
                        /\ Runs(j)' = Runs(j)
  BY <1>2, <1>7, <1>11 DEF Has, Staying, Good, Runs
<1>14. DatabaseMeant'
  BY <1>2, <1>11, <1>12, <1>13 DEF Invariant, DatabaseMeant
<1> QED
  BY <1>9, <1>10, <1>14 DEF ClaimsMeant

LEMMA ChainRestSafe ==
    ASSUME Invariant, ClaimsDone \/ ReconcileSts \/ UpdateStatus
    PROVE  PassMeant' /\ ClaimsMeant' /\ DatabaseMeant'
<1>1. /\ UNCHANGED <<nodes, wanted, stage, claim, pod, vol, committed, leader, standby>>
      /\ Typed
  BY DEF ClaimsDone, ReconcileSts, UpdateStatus, OperatorStep, user, status, Invariant
<1>2. pass.at \in {"claims", "sts", "status"} /\ pass \in Passes
  BY <1>1, Values DEF ClaimsDone, ReconcileSts, UpdateStatus
<1>3. pass.nodes = nodes /\ ~wanted /\ stage = "none"
  BY <1>2 DEF Invariant, PassMeant
<1>4. pass'.at # "claims" /\ (pass'.at # "idle" => pass'.nodes = nodes)
      /\ pass'.at # "upgrade"
  <2>1. CASE ClaimsDone
    BY <1>2, <1>3, <2>1 DEF ClaimsDone, Passes
  <2>2. CASE ReconcileSts
    BY <1>2, <1>3, <2>2 DEF ReconcileSts, Passes
  <2>3. CASE UpdateStatus
    BY <2>3, IdleTyped DEF UpdateStatus, Again
  <2> QED
    BY <2>1, <2>2, <2>3
<1>5. PassMeant'
  BY <1>1, <1>3, <1>4 DEF PassMeant
<1>6. ASSUME NEW i \in Index, i >= nodes
      PROVE  claim[i] # "bound"
  <2>1. claim[i] = "bound" => pass.at = "claims" /\ i \in pass.left
    BY <1>2, <1>6 DEF Invariant, ClaimsMeant, ClaimMeant
  <2>2. pass.at = "claims" => pass.left = {}
    BY <1>2 DEF ClaimsDone, ReconcileSts, UpdateStatus
  <2> QED
    BY <2>1, <2>2
<1>7. ASSUME NEW i \in Index
      PROVE  ClaimMeant(i)'
  <2>1. replicas' = replicas \/ replicas' = nodes
    BY <1>3 DEF ClaimsDone, ReconcileSts, UpdateStatus
  <2> QED
    BY <1>1, <1>3, <1>6, <1>7, <2>1 DEF Invariant, ClaimsMeant, ClaimMeant
<1> QED
  BY <1>1, <1>5, <1>7, DatabaseStays DEF Invariant, ClaimsMeant

LEMMA AbortSafe ==
    ASSUME Invariant, Abort
    PROVE  PassMeant' /\ ClaimsMeant' /\ DatabaseMeant'
<1>1. /\ UNCHANGED <<nodes, wanted, stage, state, claim, pod, replicas, vol, committed,
                     leader, standby>>
      /\ pass'.at = "idle"
  BY IdleTyped DEF Abort, Again, user, status, database
<1>2. PassMeant'
  BY <1>1 DEF Invariant, PassMeant
<1>3. ASSUME NEW i \in Index
      PROVE  ClaimMeant(i)'
  BY <1>1, <1>3 DEF Invariant, ClaimsMeant, ClaimMeant
<1> QED
  BY <1>1, <1>2, <1>3, DatabaseStays DEF Invariant, ClaimsMeant

(* The steps of an upgrade: while it lasts every node of the spec, and no  *)
(* other, has its claim, so that stopping them all loses nothing.          *)
LEMMA UpgradeSafe ==
    ASSUME Invariant,
           UpgradeBegin \/ StageBegin \/ SyncStage \/ DownStage \/ PostStage \/ SyncJob
    PROVE  PassMeant' /\ ClaimsMeant' /\ DatabaseMeant'
<1>1. /\ UNCHANGED <<nodes, claim, pod, vol, committed, leader, standby>> /\ Typed
  BY DEF UpgradeBegin, StageBegin, SyncStage, DownStage, PostStage, SyncJob, StagePass,
         OperatorStep, user, status, Invariant
<1>2. wanted \/ stage # "none"
  BY DEF UpgradeBegin, StageBegin, SyncStage, DownStage, PostStage, SyncJob, StagePass
<1>3. \A i \in Index : claim[i] = IF i < nodes THEN "bound" ELSE "none"
  BY <1>2 DEF Invariant, ClaimsMeant, ClaimMeant
<1>4. pass.at \in {"idle", "upgrade"} /\ (pass.at # "idle" => pass.nodes = nodes)
  BY <1>2 DEF Invariant, PassMeant
<1>5. /\ pass'.at \in {"idle", "upgrade"} /\ (pass'.at # "idle" => pass'.nodes = nodes)
      /\ pass'.at = "upgrade" => stage' # "none"
      /\ wanted' => stage' # "none"
      /\ stage' # "none" \/ replicas' = nodes
  <2>1. CASE UpgradeBegin
    BY <1>4, <2>1 DEF UpgradeBegin, OperatorStep, Invariant, Typed, PassTyped
  <2>2. CASE StageBegin
    <3>1. pass'.at = "upgrade" /\ pass'.nodes = nodes /\ stage' # "none"
      BY <1>1, <2>2, NewPassTyped DEF StageBegin, status
    <3> QED
      BY <3>1
  <2>3. CASE SyncStage \/ DownStage
    <3>1. pass'.at = "idle" /\ stage' # "none"
      BY <2>3, IdleTyped DEF SyncStage, DownStage, StagePass
    <3> QED
      BY <3>1
  <2>4. CASE PostStage
    <3>1. pass'.at = "idle" /\ pass.nodes = nodes
      BY <1>4, <2>4, IdleTyped DEF PostStage, StagePass
    <3>2. replicas' = nodes /\ (wanted' => stage' # "none")
      BY <2>4, <3>1 DEF PostStage, StagePass
    <3> QED
      BY <3>1, <3>2
  <2>5. CASE SyncJob
    BY <1>4, <2>5 DEF SyncJob, status
  <2> QED
    BY <2>1, <2>2, <2>3, <2>4, <2>5
<1>6. PassMeant'
  BY <1>1, <1>5 DEF PassMeant
<1>7. ASSUME NEW i \in Index
      PROVE  ClaimMeant(i)'
  <2>1. claim'[i] = IF i < nodes THEN "bound" ELSE "none"
    BY <1>1, <1>3, <1>7
  <2>2. claim[i] = "none" => vol[i] = 0 /\ pod[i] = "none"
    BY <1>7 DEF Invariant, ClaimsMeant, ClaimMeant
  <2>3. i \in Nat /\ nodes \in Nat
    BY <1>1, <1>7, Values
  <2>4. stage' = "none" => replicas' = nodes
    BY <1>5
  <2> QED
    BY <1>1, <2>1, <2>2, <2>3, <2>4 DEF ClaimMeant
<1> QED
  BY <1>1, <1>6, <1>7, DatabaseStays DEF Invariant, ClaimsMeant

-----------------------------------------------------------------------------
LEMMA StepSafe ==
    ASSUME Careful, ~Hasty, ~DuringUpgrade
    PROVE  Invariant /\ [Next]_vars => Invariant'
<1> SUFFICES ASSUME Invariant, [Next]_vars
             PROVE  Invariant'
  OBVIOUS
<1>1. Typed'
  BY StepTyped DEF Invariant
<1>2. SUFFICES PassMeant' /\ ClaimsMeant' /\ DatabaseMeant'
  BY <1>1 DEF Invariant
<1>3. CASE EditNodes \/ WantUpgrade
  BY <1>3, EditSafe, WantSafe
<1>4. CASE Operator \/ SyncJob
  BY <1>4, BeginSafe, EnsureSafe, DeleteSafe, ChainRestSafe, UpgradeSafe DEF Operator
<1>5. CASE Pods \/ \E i \in Index : PodLoss(i)
  BY <1>5, CountSafe, CreateSafe, StopSafe, GoneSafe, LossSafe DEF Pods
<1>6. CASE Write \/ Database
  BY <1>6, WriteSafe, CommitSafe, StandbySafe, ReplicateSafe, ElectSafe DEF Database
<1>7. CASE Abort
  BY <1>7, AbortSafe
<1>8. CASE UNCHANGED vars
  <2>1. /\ UNCHANGED <<user, status, pass, claim, pod, replicas, vol, committed, leader, standby>>
        /\ UNCHANGED <<nodes, wanted, stage, state>>
    BY <1>8 DEF vars, user, status, database
  <2>2. ASSUME NEW i \in Index
        PROVE  ClaimMeant(i)'
    BY <2>1, <2>2 DEF Invariant, ClaimsMeant, ClaimMeant
  <2> QED
    BY <2>1, <2>2, PassStays, DatabaseStays DEF Invariant, ClaimsMeant
<1> QED
  BY <1>3, <1>4, <1>5, <1>6, <1>7, <1>8 DEF Next

LEMMA KeptByInvariant == Invariant => CommittedDataKept
<1> SUFFICES ASSUME Invariant
             PROVE  CommittedDataKept
  OBVIOUS
<1>1. leader \in Index /\ (standby # NoIndex => standby \in Index)
  BY Values DEF Invariant
<1>2. Staying(leader) \/ (standby # NoIndex /\ Staying(standby))
  BY DEF Invariant, DatabaseMeant
<1> QED
  BY <1>1, <1>2 DEF CommittedDataKept, Staying, Leaving, Good

(* Every committed transaction is on a volume whose claim is not being     *)
(* deleted, although pvc.Reconcile deletes claims by their index alone: it *)
(* takes a user who removes one node at a time, once the cluster has       *)
(* settled and two nodes have everything, who waits until the operator has *)
(* acted on an edit, and who leaves spec.nodes alone during an upgrade.    *)
THEOREM CommittedDataStays ==
    ASSUME Careful, ~Hasty, ~DuringUpgrade
    PROVE  Spec => []CommittedDataKept
<1>1. Init => Invariant
  BY InitTyped, InitSafe DEF Invariant
<1>2. Invariant /\ [Next]_vars => Invariant'
  BY StepSafe
<1>3. Invariant => CommittedDataKept
  BY KeptByInvariant
<1> QED
  BY <1>1, <1>2, <1>3, PTL DEF Spec
====
