----------------------- MODULE ResourceReconcileProofs -----------------------
(***************************************************************************)
(* What holds of ResourceReconcile for all resources, any number of        *)
(* processes and all bounds, with proofs.                                  *)
(***************************************************************************)
EXTENDS ResourceReconcile, WellFoundedInduction, TLAPS

Stages == {"before", "set", "clear", "after"}

Passes == [at : {"idle", "get", "put", "status"}, i : Places,
           instance : Instances, copy : Objects, fresh : BOOLEAN]

-----------------------------------------------------------------------------
(* The chain.                                                              *)

LEMMA ChainIs ==
    /\ DOMAIN FullChain = 1 .. 14
    /\ FullChain[1].name = "claims"
    /\ FullChain[2].name = "secret"
    /\ FullChain[3].name = "config"
    /\ \A i \in 4 .. 14 : FullChain[i].name \notin {"claims", "secret", "config"}
    /\ \A i \in 2 .. 14 : FullChain[i].exists # "patched"
    /\ FullChain[2].exists = "adopted"
    /\ FullChain[3].exists = "adopted"
BY DEF FullChain, PVCs, Secrets, ConfigMaps, RBAC, Services, StatefulSets,
       NetworkPolicies, PDBs, Adopted, Rewritten, Following

LEMMA LeastElement ==
    ASSUME NEW S \in SUBSET Nat, S # {}
    PROVE  Min(S) \in S /\ \A x \in S : Min(S) <= x
<1> DEFINE less == OpToRel(<, Nat)
<1>1. IsWellFoundedOn(less, Nat)
  BY NatLessThanWellFounded
<1>2. \A y, z \in Nat : y < z => <<y, z>> \in less
  BY DEF OpToRel
<1> HIDE DEF less
<1>3. PICK x \in S : \A y \in S : ~(<<y, x>> \in less)
  BY <1>1, WFMin
<1>4. ASSUME NEW y \in S
      PROVE  x <= y
  <2>1. x \in Nat /\ y \in Nat
    OBVIOUS
  <2>2. ~(<<y, x>> \in less)
    BY <1>3
  <2>3. ~(y < x)
    BY <1>2, <2>1, <2>2
  <2> QED
    BY <2>1, <2>3
<1> QED
  BY <1>4 DEF Min

(* Every instance has the first three objects of the chain.                *)
LEMMA PlacesAre ==
    /\ Places \subseteq 1 .. 14
    /\ 1 \in Places /\ 2 \in Places /\ 3 \in Places
    /\ \A i \in Places : FullChain[i].name \in Resources
BY ChainIs, ResourcesAssumption DEF Places

(* What the pass takes up after object i: one of the instance's, and       *)
(* Patroni's ConfigMap before anything that follows it in the chain.       *)
LEMMA NextPlace ==
    ASSUME NEW i \in Places, Beyond(i) # {}
    PROVE  /\ Min(Beyond(i)) \in Places
           /\ i < 3 => Min(Beyond(i)) <= 3
<1>1. Beyond(i) \subseteq Places /\ Places \subseteq Nat
  BY PlacesAre DEF Beyond
<1>2. Min(Beyond(i)) \in Beyond(i) /\ \A x \in Beyond(i) : Min(Beyond(i)) <= x
  BY <1>1, LeastElement, Beyond(i) \in SUBSET Nat
<1>3. i < 3 => 3 \in Beyond(i)
  BY PlacesAre DEF Beyond
<1> QED
  BY <1>1, <1>2, <1>3

(* There is something to do after the first two objects.                   *)
LEMMA ConfigFollows ==
    ASSUME NEW i \in Places, i < 3
    PROVE  Beyond(i) # {}
BY PlacesAre DEF Beyond

(* What a pass reads and writes belongs to the instance.                   *)
LEMMA TargetIs ==
    ASSUME NEW p \in Passes
    PROVE  /\ Target(p) \in Resources
           /\ Annotates(p) => Target(p) = "config"
           /\ ~Annotates(p) => Target(p) = FullChain[p.i].name
BY PlacesAre, ResourcesAssumption DEF Target, Passes

(* Only claims are patched; the secret and Patroni's ConfigMap are left as *)
(* they are once they have an owner.                                       *)
LEMMA AdoptedOnce ==
    ASSUME NEW p \in Passes, ~Annotates(p)
    PROVE  /\ FullChain[p.i].exists = "patched" => Target(p) = "claims"
           /\ Target(p) \in {"secret", "config"} =>
                /\ FullChain[p.i].exists = "adopted"
                /\ p.i \in {2, 3}
           /\ Target(p) = "config" => p.i = 3
           /\ p.i <= 3 => Target(p) \in {"claims", "secret", "config"}
<1>1. p.i \in 1 .. 14 /\ Target(p) = FullChain[p.i].name
  BY PlacesAre, TargetIs DEF Passes
<1>2. CASE p.i = 1
  BY <1>1, <1>2, ChainIs
<1>3. CASE p.i = 2
  BY <1>1, <1>3, ChainIs
<1>4. CASE p.i = 3
  BY <1>1, <1>4, ChainIs
<1>5. CASE p.i \in 4 .. 14
  BY <1>1, <1>5, ChainIs
<1> QED
  BY <1>1, <1>2, <1>3, <1>4, <1>5

-----------------------------------------------------------------------------
(* Types.                                                                  *)

LEMMA ValuesTyped ==
    /\ NoObject \in Objects /\ Blank \in [password : Nat, patroni : 0 .. MaxWrites,
                                          upgrade : BOOLEAN]
    /\ Idle \in Passes
    /\ \A owners \in SUBSET (Uids \cup {Foreign}) : Prepared(owners) \in Objects
    /\ Uids \subseteq Nat \ {0}
<1>1. NoObject \in Objects
  BY BoundsAssumption DEF NoObject, Objects, Blank
<1>2. Blank \in [password : Nat, patroni : 0 .. MaxWrites, upgrade : BOOLEAN]
  BY BoundsAssumption DEF Blank
<1>3. Idle \in Passes
  BY <1>1, PlacesAre, BoundsAssumption DEF Idle, Passes, Instances
<1>4. \A owners \in SUBSET (Uids \cup {Foreign}) : Prepared(owners) \in Objects
  BY <1>1 DEF Prepared, NoObject, Objects
<1> QED
  BY <1>1, <1>2, <1>3, <1>4, BoundsAssumption DEF Uids

LEMMA InitTyped == Init => TypeOK
<1> SUFFICES ASSUME Init
             PROVE  TypeOK
  OBVIOUS
<1>1. instance \in Instances
  BY BoundsAssumption DEF Init, Instances, Uids
<1>2. object \in [Resources -> Objects]
  BY ValuesTyped, ResourcesAssumption DEF Init
<1>3. db \in [exists : BOOLEAN, password : Nat, patroni : 0 .. MaxWrites]
  BY BoundsAssumption DEF Init, NoDatabase
<1>4. elected \in Operators
  BY OperatorsAssumption DEF Init
<1>5. pass \in [Operators -> Passes]
  BY ValuesTyped DEF Init
<1> QED
  BY <1>1, <1>2, <1>3, <1>4, <1>5, BoundsAssumption DEF Init, TypeOK, Passes

(* What a write does to the copies of others: they are outdated if they    *)
(* are of this object, and otherwise as they were.                         *)
LEMMA OutdatedTyped ==
    ASSUME pass \in [Operators -> Passes], NEW x
    PROVE  Outdated(x) \in [Operators -> Passes]
<1>1. ASSUME NEW q \in Operators
      PROVE  [pass[q] EXCEPT !.fresh = FALSE] \in Passes
  BY DEF Passes
<1> QED
  BY <1>1 DEF Outdated

LEMMA OutdatedIs ==
    ASSUME pass \in [Operators -> Passes], NEW x, NEW o \in Operators
    PROVE  /\ Outdated(x)[o].at = pass[o].at /\ Outdated(x)[o].i = pass[o].i
           /\ Outdated(x)[o].instance = pass[o].instance
           /\ Outdated(x)[o].copy = pass[o].copy
           /\ Outdated(x)[o].fresh =>
                pass[o].fresh /\ ~(pass[o].at = "put" /\ Target(pass[o]) = x)
           /\ pass[o] = Idle => Outdated(x)[o] = Idle
<1> DEFINE late == [pass[o] EXCEPT !.fresh = FALSE]
<1>1. /\ late.at = pass[o].at /\ late.i = pass[o].i
      /\ late.instance = pass[o].instance /\ late.copy = pass[o].copy
      /\ late.fresh = FALSE
  BY DEF Passes
<1>2. Outdated(x)[o] = IF pass[o].at = "put" /\ Target(pass[o]) = x
                       THEN late ELSE pass[o]
  BY DEF Outdated
<1>3. pass[o] = Idle => pass[o].at # "put"
  BY DEF Idle
<1> HIDE DEF late
<1> QED
  BY <1>1, <1>2, <1>3

(* The pass goes on with a resource of the instance, or to its end.        *)
LEMMA AdvanceTyped ==
    ASSUME pass \in [Operators -> Passes], NEW o \in Operators
    PROVE  Advance(o) \in Passes
<1> DEFINE status == [Idle EXCEPT !.at = "status", !.instance = pass[o].instance]
           get(i) == [Idle EXCEPT !.at = "get", !.instance = pass[o].instance, !.i = i]
<1>1. pass[o] \in Passes /\ pass[o].instance \in Instances /\ pass[o].i \in Places
  BY DEF Passes
<1>2. status \in Passes
  BY <1>1, ValuesTyped DEF Passes
<1>3. ASSUME NEW i \in Places
      PROVE  get(i) \in Passes
  BY <1>1, ValuesTyped DEF Passes
<1>4. Advance(o) \in {Idle, status} \/ (Beyond(pass[o].i) # {}
                                        /\ Advance(o) = get(Min(Beyond(pass[o].i))))
  BY DEF Advance
<1> QED
  BY <1>1, <1>2, <1>3, <1>4, NextPlace, ValuesTyped

LEMMA BuiltTyped ==
    ASSUME NEW p \in Passes, passwords \in Nat
    PROVE  Filled(p) \in Objects /\ Annotated(p) \in Objects
<1>1. p.copy \in Objects /\ p.instance \in Instances
  BY DEF Passes
<1>2. SetMeta(p.copy.owners, p.instance.uid) \in SUBSET (Uids \cup {Foreign})
  BY <1>1 DEF SetMeta, Objects, Instances, Foreign
<1>3. p.instance.spec \in 0 .. MaxEdits /\ 0 \in 0 .. MaxEdits
  BY <1>1, BoundsAssumption DEF Instances
<1>4. NewSecret \in [password : Nat, patroni : 0 .. MaxWrites, upgrade : BOOLEAN]
  <2>1. passwords + 1 \in Nat
    OBVIOUS
  <2> QED
    BY <2>1, ValuesTyped DEF NewSecret
<1>5. p.copy.data \in [password : Nat, patroni : 0 .. MaxWrites, upgrade : BOOLEAN]
  BY <1>1 DEF Objects
<1>6. Filled(p) \in Objects
  <2> DEFINE data == IF Target(p) = "secret" /\ ~p.copy.exists
                     THEN NewSecret ELSE p.copy.data
             spec == IF FullChain[p.i].varies THEN p.instance.spec ELSE 0
  <2>1. data \in [password : Nat, patroni : 0 .. MaxWrites, upgrade : BOOLEAN]
    BY <1>4, <1>5
  <2>2. spec \in 0 .. MaxEdits
    BY <1>3
  <2>3. Filled(p) = [exists |-> TRUE, owners |-> SetMeta(p.copy.owners, p.instance.uid),
                     spec |-> spec, data |-> data]
    BY DEF Filled
  <2> HIDE DEF data, spec
  <2> QED
    BY <1>2, <2>1, <2>2, <2>3 DEF Objects
<1>7. Annotated(p) \in Objects
  <2> DEFINE data == [p.copy.data EXCEPT !.upgrade = p.instance.stage = "set"]
  <2>1. data \in [password : Nat, patroni : 0 .. MaxWrites, upgrade : BOOLEAN]
    BY <1>5
  <2>2. Annotated(p) = [p.copy EXCEPT !.data = data]
    BY <1>1 DEF Annotated
  <2> HIDE DEF data
  <2> QED
    BY <1>1, <2>1, <2>2 DEF Objects
<1> QED
  BY <1>6, <1>7

(* A deleted cluster may be recreated within the bound.                    *)
Recreatable == instance.uid = 0 => recreated < MaxRecreated

LEMMA TypesGiven ==
    ASSUME TypeOK
    PROVE  /\ pass \in [Operators -> Passes]
           /\ object \in [Resources -> Objects]
           /\ passwords \in Nat
           /\ \A o \in Operators :
                pass[o] \in Passes /\ Target(pass[o]) \in Resources
<1>1. pass \in [Operators -> Passes]
  BY DEF TypeOK, Passes
<1> QED
  BY <1>1, TargetIs DEF TypeOK

LEMMA IdleTyped ==
    ASSUME NEW passes \in [Operators -> Passes], NEW o \in Operators
    PROVE  [passes EXCEPT ![o] = Idle] \in [Operators -> Passes]
BY ValuesTyped

LEMMA PutTyped ==
    ASSUME TypeOK, NEW o \in Operators, PutObject(o)
    PROVE  /\ object' \in [Resources -> Objects]
           /\ pass' \in [Operators -> Passes]
           /\ passwords' \in Nat
<1> DEFINE x == Target(pass[o])
           built == IF Annotates(pass[o]) THEN Annotated(pass[o]) ELSE Filled(pass[o])
           others == IF built = object[x] THEN pass ELSE Outdated(x)
<1>1. /\ object' = [object EXCEPT ![x] = built]
      /\ pass' = [others EXCEPT ![o] = Advance(o)]
      /\ passwords' \in {passwords, passwords + 1}
  BY DEF PutObject
<1>2. built \in Objects
  BY TypesGiven, BuiltTyped
<1>3. others \in [Operators -> Passes]
  BY TypesGiven, OutdatedTyped
<1>4. Advance(o) \in Passes
  BY TypesGiven, AdvanceTyped
<1> HIDE DEF x, built, others
<1>5. object' \in [Resources -> Objects]
  BY <1>1, <1>2, TypesGiven
<1>6. pass' \in [Operators -> Passes]
  BY <1>1, <1>3, <1>4
<1>7. passwords' \in Nat
  BY <1>1, TypesGiven
<1> QED
  BY <1>5, <1>6, <1>7

LEMMA SetTyped ==
    ASSUME TypeOK, NEW x \in Resources, NEW value \in Objects, SetObject(x, value)
    PROVE  object' \in [Resources -> Objects] /\ pass' \in [Operators -> Passes]
BY TypesGiven, OutdatedTyped DEF SetObject

LEMMA GetTyped ==
    ASSUME TypeOK, NEW o \in Operators, GetObject(o)
    PROVE  pass' \in [Operators -> Passes] /\ queued' \in BOOLEAN
<1> DEFINE copy == object[Target(pass[o])]
           put == [pass[o] EXCEPT !.at = "put", !.copy = copy, !.fresh = TRUE]
<1>1. CASE Annotates(pass[o]) /\ ~copy.exists
  BY <1>1, TypesGiven, IdleTyped DEF GetObject, Failed, TypeOK
<1>2. CASE ~(Annotates(pass[o]) /\ ~copy.exists)
  <2>1. copy \in Objects /\ pass[o] \in Passes
    BY TypesGiven
  <2>2. put \in Passes
    BY <2>1 DEF Passes
  <2>3. pass' = [pass EXCEPT ![o] = put] /\ queued' = queued
    BY <1>2, <2>1, TypesGiven DEF GetObject, Passes
  <2> HIDE DEF put
  <2> QED
    BY <2>2, <2>3, TypesGiven DEF TypeOK
<1> QED
  BY <1>1, <1>2

(* Patroni's annotation of its ConfigMap.                                  *)
LEMMA ConfigAnnotated ==
    ASSUME TypeOK, NEW n \in 0 .. MaxWrites
    PROVE  /\ "config" \in Resources
           /\ [object["config"] EXCEPT !.data.patroni = n] \in Objects
<1>1. "config" \in Resources /\ object["config"] \in Objects
  BY TypesGiven, ResourcesAssumption
<1> DEFINE data == [object["config"].data EXCEPT !.patroni = n]
<1>2. data \in [password : Nat, patroni : 0 .. MaxWrites, upgrade : BOOLEAN]
  BY <1>1 DEF Objects
<1>3. [object["config"] EXCEPT !.data.patroni = n] = [object["config"] EXCEPT !.data = data]
  BY <1>1 DEF Objects
<1> HIDE DEF data
<1> QED
  BY <1>1, <1>2, <1>3 DEF Objects

-----------------------------------------------------------------------------
(* The steps, told apart by what they do to the objects, the instance, the *)
(* database and the passes; what is queued matters to no invariant.        *)

OnlyPasses == UNCHANGED <<instance, object, db, elected, passwords, recreated>>

(* The pass ends: it failed, its process ended, or its status update was   *)
(* refused.                                                                *)
Ended(o) == OnlyPasses /\ pass' = [pass EXCEPT ![o] = Idle]

Begun(o) ==
    /\ OnlyPasses
    /\ o = elected /\ pass[o] = Idle /\ instance.uid # 0
    /\ pass' = [pass EXCEPT ![o] = [Idle EXCEPT !.at = "get", !.instance = instance]]

ObjectRead(o) ==
    /\ OnlyPasses
    /\ pass[o].at = "get" /\ MayGoOn(o)
    /\ Annotates(pass[o]) => object[Target(pass[o])].exists
    /\ pass' = [pass EXCEPT ![o] = [pass[o] EXCEPT !.at = "put", !.fresh = TRUE,
                                                   !.copy = object[Target(pass[o])]]]

ObjectLeft(o) ==
    /\ OnlyPasses
    /\ pass[o].at = "put" /\ LeavesAlone(pass[o])
    /\ pass' = [pass EXCEPT ![o] = Advance(o)]

StatusUpdated(o) ==
    /\ UNCHANGED <<object, db, elected, passwords, recreated>>
    /\ pass[o].at = "status" /\ pass[o].instance = instance
    /\ pass' = [pass EXCEPT ![o] = Idle]
    /\ instance' = [instance EXCEPT !.stage = CASE @ = "set" -> "clear"
                                                [] @ = "clear" -> "after"
                                                [] OTHER -> @]

Resigned(o) ==
    /\ o # elected /\ pass[o] = Idle
    /\ elected' = o
    /\ UNCHANGED <<instance, object, db, pass, passwords, recreated>>

(* An object vanishes: deleted, or collected.                              *)
Vanished(x) ==
    \/ DeleteObject(x) /\ x \in Replaceable
    \/ Collect(x)

StepCases ==
    \/ OnlyPasses /\ UNCHANGED pass
    \/ \E o \in Operators :
         \/ Ended(o) \/ Begun(o) \/ ObjectRead(o) \/ ObjectLeft(o) \/ PutObject(o)
         \/ StatusUpdated(o) \/ Resigned(o)
    \/ Bootstrap \/ Annotate
    \/ EditSpec \/ BeginUpgrade \/ DeleteInstance \/ Recreate
    \/ \E x \in Resources : Vanished(x)

LEMMA IdleAgain ==
    ASSUME pass \in [Operators -> Passes], NEW o \in Operators, pass[o] = Idle
    PROVE  [pass EXCEPT ![o] = Idle] = pass
OBVIOUS

LEMMA GetCases ==
    ASSUME TypeOK, NEW o \in Operators, GetObject(o)
    PROVE  (Ended(o) \/ ObjectRead(o)) /\ queued' \in BOOLEAN /\ events' = events
<1> DEFINE copy == object[Target(pass[o])]
<1>1. CASE Annotates(pass[o]) /\ ~copy.exists
  BY <1>1 DEF GetObject, Failed, Ended, OnlyPasses, TypeOK
<1>2. CASE ~(Annotates(pass[o]) /\ ~copy.exists)
  <2> DEFINE put == [pass[o] EXCEPT !.at = "put", !.fresh = TRUE, !.copy = copy]
  <2>1. /\ pass' = [pass EXCEPT ![o].at = "put", ![o].copy = copy, ![o].fresh = TRUE]
        /\ queued' = queued
    BY <1>2 DEF GetObject
  <2>2. pass[o] \in Passes /\ pass \in [Operators -> Passes]
    BY TypesGiven
  <2>3. pass' = [pass EXCEPT ![o] = put]
    BY <2>1, <2>2 DEF Passes
  <2> HIDE DEF copy
  <2>4. ObjectRead(o)
    BY <1>2, <2>3 DEF ObjectRead, GetObject, OnlyPasses, copy
  <2> QED
    BY <2>1, <2>4 DEF GetObject, TypeOK
<1> QED
  BY <1>1, <1>2

LEMMA OperatorCases ==
    ASSUME TypeOK, NEW o \in Operators,
           Pass(o) \/ Abort(o) \/ Takeover(o) \/ Exit(o)
    PROVE  /\ \/ OnlyPasses /\ UNCHANGED pass
              \/ Ended(o) \/ Begun(o) \/ ObjectRead(o) \/ ObjectLeft(o) \/ PutObject(o)
              \/ StatusUpdated(o) \/ Resigned(o)
           /\ queued' \in BOOLEAN /\ events' \in 0 .. MaxEvents
<1> USE DEF OnlyPasses
<1>1. CASE TakeRequest(o)
  BY <1>1 DEF TakeRequest, Begun, TypeOK
<1>2. CASE GetObject(o)
  BY <1>2, GetCases DEF TypeOK
<1>3. CASE LeaveObject(o)
  BY <1>3 DEF LeaveObject, ObjectLeft, TypeOK
<1>4. CASE PutObject(o)
  BY <1>4 DEF PutObject, TypeOK
<1>5. CASE PutRefused(o)
  BY <1>5 DEF PutRefused, Failed, Ended, TypeOK
<1>6. CASE UpdateStatus(o)
  <2>1. CASE pass[o].instance # instance
    BY <1>6, <2>1 DEF UpdateStatus, Failed, Ended, TypeOK
  <2>2. CASE pass[o].instance = instance
    BY <1>6, <2>2 DEF UpdateStatus, StatusUpdated, TypeOK
  <2> QED
    BY <2>1, <2>2
<1>7. CASE Abort(o)
  BY <1>7, BoundsAssumption DEF Abort, Event, Failed, Ended, TypeOK
<1>8. CASE Takeover(o)
  BY <1>8, BoundsAssumption DEF Takeover, Event, Resigned, TypeOK
<1>9. CASE Exit(o)
  BY <1>9 DEF Exit, Ended, TypeOK
<1> QED
  BY <1>1, <1>2, <1>3, <1>4, <1>5, <1>6, <1>7, <1>8, <1>9 DEF Pass

LEMMA StepIs ==
    ASSUME TypeOK, [Next]_vars
    PROVE  StepCases /\ queued' \in BOOLEAN /\ events' \in 0 .. MaxEvents
<1>1. CASE UNCHANGED vars
  BY <1>1 DEF vars, StepCases, OnlyPasses, TypeOK
<1>2. CASE \E o \in Operators : Pass(o) \/ Abort(o) \/ Takeover(o) \/ Exit(o)
  BY <1>2, OperatorCases DEF StepCases
<1>3. CASE Resync
  BY <1>3 DEF Resync, StepCases, OnlyPasses, TypeOK
<1>4. CASE Bootstrap \/ Annotate
  BY <1>4 DEF Bootstrap, Annotate, StepCases, TypeOK
<1>5. CASE EditSpec \/ BeginUpgrade \/ DeleteInstance \/ Recreate
  <2>1. StepCases
    BY <1>5 DEF StepCases
  <2>2. queued' \in BOOLEAN
    BY <1>5 DEF EditSpec, BeginUpgrade, DeleteInstance, Recreate, TypeOK
  <2>3. Event \/ events' = events
    BY <1>5 DEF EditSpec, BeginUpgrade, DeleteInstance, Recreate
  <2> QED
    BY <2>1, <2>2, <2>3, BoundsAssumption DEF Event, TypeOK
<1>6. CASE \E x \in Replaceable : DeleteObject(x)
  BY <1>6, BoundsAssumption
     DEF DeleteObject, Event, Replaceable, Vanished, StepCases, TypeOK
<1>7. CASE \E x \in Resources : Collect(x)
  BY <1>7 DEF Collect, Vanished, StepCases, TypeOK
<1> QED
  BY <1>1, <1>2, <1>3, <1>4, <1>5, <1>6, <1>7 DEF Next

-----------------------------------------------------------------------------
(* The instance and who is at work for it.                                 *)

LEMMA InstanceTyped ==
    ASSUME TypeOK, NEW stage \in Stages
    PROVE  /\ [instance EXCEPT !.stage = stage] \in Instances
           /\ [instance EXCEPT !.uid = 0] \in Instances
           /\ instance.spec < MaxEdits =>
                [instance EXCEPT !.spec = @ + 1] \in Instances
           /\ recreated < MaxRecreated =>
                [instance EXCEPT !.uid = recreated + 2, !.stage = "before"] \in Instances
<1>1. instance \in Instances /\ recreated \in Nat
  BY DEF TypeOK
<1>2. [instance EXCEPT !.stage = stage] \in Instances
  BY <1>1 DEF Instances, Stages
<1>3. [instance EXCEPT !.uid = 0] \in Instances
  BY <1>1 DEF Instances
<1>4. ASSUME instance.spec < MaxEdits
      PROVE  [instance EXCEPT !.spec = @ + 1] \in Instances
  <2>1. instance.spec + 1 \in 0 .. MaxEdits
    BY <1>1, <1>4, BoundsAssumption DEF Instances
  <2> QED
    BY <1>1, <2>1 DEF Instances
<1>5. ASSUME recreated < MaxRecreated
      PROVE  [instance EXCEPT !.uid = recreated + 2, !.stage = "before"] \in Instances
  <2>1. recreated + 2 \in Uids
    BY <1>1, <1>5, BoundsAssumption DEF Uids
  <2> QED
    BY <1>1, <2>1 DEF Instances
<1> QED
  BY <1>2, <1>3, <1>4, <1>5

LEMMA StageTyped ==
    ASSUME TypeOK, NEW o \in Operators, StatusUpdated(o)
    PROVE  /\ instance' \in Instances
           /\ instance'.uid = instance.uid
           /\ instance.stage = "before" => instance'.stage = "before"
           /\ instance.stage = "set" => instance'.stage = "clear"
           /\ instance.stage \in {"clear", "after"} => instance'.stage = "after"
<1>1. instance \in Instances /\ instance.stage \in Stages
  BY DEF TypeOK, Instances, Stages
<1>2. CASE instance.stage = "set"
  <2>1. instance' = [instance EXCEPT !.stage = "clear"]
    BY <1>2 DEF StatusUpdated
  <2> QED
    BY <1>1, <1>2, <2>1 DEF Instances
<1>3. CASE instance.stage = "clear"
  <2>1. instance' = [instance EXCEPT !.stage = "after"]
    BY <1>3 DEF StatusUpdated
  <2> QED
    BY <1>1, <1>3, <2>1 DEF Instances
<1>4. CASE instance.stage \in {"before", "after"}
  <2>1. instance' = [instance EXCEPT !.stage = @]
    BY <1>4 DEF StatusUpdated
  <2> QED
    BY <1>1, <1>4, <2>1 DEF Instances
<1> QED
  BY <1>1, <1>2, <1>3, <1>4 DEF Stages

LEMMA StepTyped == TypeOK /\ Recreatable /\ [Next]_vars => (TypeOK /\ Recreatable)'
<1> SUFFICES ASSUME TypeOK, Recreatable, [Next]_vars
             PROVE  (TypeOK /\ Recreatable)'
  OBVIOUS
<1>1. StepCases /\ queued' \in BOOLEAN /\ events' \in 0 .. MaxEvents
  BY StepIs
<1> DEFINE Kind == /\ instance' \in Instances
                   /\ object' \in [Resources -> Objects]
                   /\ db' \in [exists : BOOLEAN, password : Nat, patroni : 0 .. MaxWrites]
                   /\ elected' \in Operators
                   /\ pass' \in [Operators -> Passes]
                   /\ passwords' \in Nat
                   /\ recreated' \in 0 .. MaxRecreated
                   /\ Recreatable'
<1>2. SUFFICES Kind
  BY <1>1 DEF TypeOK, Passes
<1> DEFINE Rest == /\ instance \in Instances
                   /\ object \in [Resources -> Objects]
                   /\ db \in [exists : BOOLEAN, password : Nat, patroni : 0 .. MaxWrites]
                   /\ elected \in Operators
                   /\ pass \in [Operators -> Passes]
                   /\ passwords \in Nat
                   /\ recreated \in 0 .. MaxRecreated
                   /\ Recreatable
<1>3. Rest
  BY TypesGiven DEF TypeOK
<1> USE DEF Recreatable
<1>4. CASE OnlyPasses /\ UNCHANGED pass
  BY <1>3, <1>4 DEF OnlyPasses
<1>5. ASSUME NEW o \in Operators, Ended(o) \/ Begun(o) \/ ObjectRead(o) \/ ObjectLeft(o)
      PROVE  Kind
  <2>1. pass' \in [Operators -> Passes]
    <3>1. CASE Ended(o)
      BY <1>3, <3>1, ValuesTyped DEF Ended
    <3>2. CASE Begun(o)
      <4>1. [Idle EXCEPT !.at = "get", !.instance = instance] \in Passes
        BY <1>3, ValuesTyped DEF Passes
      <4> QED
        BY <1>3, <3>2, <4>1 DEF Begun
    <3>3. CASE ObjectRead(o)
      <4>1. object[Target(pass[o])] \in Objects /\ pass[o] \in Passes
        BY TypesGiven
      <4>2. [pass[o] EXCEPT !.at = "put", !.fresh = TRUE,
                            !.copy = object[Target(pass[o])]] \in Passes
        BY <4>1 DEF Passes
      <4> QED
        BY <1>3, <3>3, <4>2 DEF ObjectRead
    <3>4. CASE ObjectLeft(o)
      BY <1>3, <3>4, AdvanceTyped DEF ObjectLeft
    <3> QED
      BY <1>5, <3>1, <3>2, <3>3, <3>4
  <2>2. OnlyPasses
    BY <1>5 DEF Ended, Begun, ObjectRead, ObjectLeft
  <2> QED
    BY <1>3, <2>1, <2>2 DEF OnlyPasses
<1>6. ASSUME NEW o \in Operators, PutObject(o)
      PROVE  Kind
  BY <1>3, <1>6, PutTyped DEF PutObject
<1>7. ASSUME NEW o \in Operators, StatusUpdated(o)
      PROVE  Kind
  <2>1. pass' \in [Operators -> Passes]
    BY <1>3, <1>7, ValuesTyped DEF StatusUpdated
  <2> QED
    BY <1>3, <1>7, <2>1, StageTyped DEF StatusUpdated
<1>8. ASSUME NEW o \in Operators, Resigned(o)
      PROVE  Kind
  BY <1>3, <1>8 DEF Resigned
<1>9. CASE Bootstrap
  <2>1. db' \in [exists : BOOLEAN, password : Nat, patroni : 0 .. MaxWrites]
    BY <1>3, <1>9, ResourcesAssumption, BoundsAssumption DEF Bootstrap, Objects
  <2>2. object' \in [Resources -> Objects] /\ pass' \in [Operators -> Passes]
    <3>1. 1 \in 0 .. MaxWrites
      BY BoundsAssumption
    <3> QED
      BY <1>9, <3>1, ConfigAnnotated, SetTyped DEF Bootstrap
  <2> QED
    BY <1>3, <1>9, <2>1, <2>2 DEF Bootstrap
<1>10. CASE Annotate
  <2>1. db.patroni + 1 \in 0 .. MaxWrites
    BY <1>3, <1>10, BoundsAssumption DEF Annotate
  <2>2. db' \in [exists : BOOLEAN, password : Nat, patroni : 0 .. MaxWrites]
    BY <1>3, <1>10, <2>1 DEF Annotate
  <2>3. object' \in [Resources -> Objects] /\ pass' \in [Operators -> Passes]
    BY <1>10, <2>1, ConfigAnnotated, SetTyped DEF Annotate
  <2> QED
    BY <1>3, <1>10, <2>2, <2>3 DEF Annotate
<1>11. CASE EditSpec \/ BeginUpgrade \/ DeleteInstance
  <2>1. /\ instance' \in Instances
        /\ instance'.uid = 0 => recreated < MaxRecreated
    <3>1. CASE EditSpec
      BY <1>3, <3>1, InstanceTyped, "before" \in Stages DEF EditSpec, Instances, Stages
    <3>2. CASE BeginUpgrade
      BY <1>3, <3>2, InstanceTyped, "set" \in Stages DEF BeginUpgrade, Instances, Stages
    <3>3. CASE DeleteInstance
      BY <1>3, <3>3, InstanceTyped, "before" \in Stages DEF DeleteInstance, Stages
    <3> QED
      BY <1>11, <3>1, <3>2, <3>3
  <2>2. UNCHANGED <<object, db, elected, pass, passwords, recreated>>
    BY <1>11 DEF EditSpec, BeginUpgrade, DeleteInstance
  <2> QED
    BY <1>3, <2>1, <2>2
<1>12. CASE Recreate
  <2>1. recreated < MaxRecreated
    BY <1>3, <1>12 DEF Recreate
  <2>2. recreated' = recreated + 1 /\ recreated' + 1 = recreated + 2
    BY <1>3, <1>12 DEF Recreate
  <2>3. instance' = [instance EXCEPT !.uid = recreated + 2, !.stage = "before"]
    BY <1>12, <2>2 DEF Recreate
  <2>4. instance' \in Instances /\ instance'.uid # 0
    <3>1. instance' \in Instances
      BY <2>1, <2>3, InstanceTyped, "before" \in Stages DEF Stages
    <3> QED
      BY <1>3, <2>3, <3>1 DEF Instances
  <2>5. recreated' \in 0 .. MaxRecreated
    BY <1>3, <2>1, <2>2, BoundsAssumption
  <2> QED
    BY <1>3, <1>12, <2>4, <2>5 DEF Recreate
<1>13. ASSUME NEW x \in Resources, Vanished(x)
       PROVE  Kind
  <2>1. object' \in [Resources -> Objects] /\ pass' \in [Operators -> Passes]
    BY <1>13, SetTyped, ValuesTyped DEF Vanished, DeleteObject, Collect
  <2>2. db' \in [exists : BOOLEAN, password : Nat, patroni : 0 .. MaxWrites]
    <3>1. db' \in {db, NoDatabase}
      BY <1>13 DEF Vanished, DeleteObject, Collect
    <3>2. NoDatabase \in [exists : BOOLEAN, password : Nat, patroni : 0 .. MaxWrites]
      BY BoundsAssumption DEF NoDatabase
    <3> QED
      BY <1>3, <3>1, <3>2
  <2>3. UNCHANGED <<instance, elected, passwords, recreated>>
    BY <1>13 DEF Vanished, DeleteObject, Collect
  <2> QED
    BY <1>3, <2>1, <2>2, <2>3
<1> HIDE DEF Kind, Rest
<1> QED
  BY <1>1, <1>4, <1>5, <1>6, <1>7, <1>8, <1>9, <1>10, <1>11, <1>12, <1>13 DEF StepCases

(* Every object, every copy a pass holds and every counter has its type in *)
(* every reachable state: the operator's reads and writes stay within the  *)
(* instance's resources, and a deleted cluster is recreated at most        *)
(* MaxRecreated times.                                                     *)
THEOREM TypesHold == Spec => []TypeOK
<1>1. Init => Recreatable
  BY DEF Init, Recreatable
<1> QED
  BY <1>1, InitTyped, StepTyped, PTL DEF Spec

-----------------------------------------------------------------------------
(* Who may be at work, and what the objects and their copies are.          *)

Current == recreated + 1

(* A pass works for the latest instance, even for one deleted meanwhile.   *)
UidsMeant ==
    /\ instance.uid \in {0, Current}
    /\ \A o \in Operators :
         pass[o] = Idle \/ (pass[o].at # "idle" /\ pass[o].instance.uid = Current)

(* An object is the latest instance's, a controller's, or the user's own   *)
(* until it is adopted.                                                    *)
Sound(x, c) ==
    /\ c.owners \in {{}, {Current}} \cup (IF x = "secret" THEN {{Foreign}} ELSE {})
    /\ ~c.exists => c = NoObject
    /\ c.exists /\ x \notin {"secret", "config"} => c.owners # {}

CopySound(p) ==
    p.at = "put" =>
        /\ Sound(Target(p), p.copy)
        /\ p.fresh => p.copy = object[Target(p)]
        /\ Annotates(p) => p.copy.exists

ObjectsMeant ==
    /\ \A x \in Resources : Sound(x, object[x])
    /\ \A o \in Operators : CopySound(pass[o])

(* A pass that takes no step of its own keeps its place and its copy; the  *)
(* copy is fresh only while its object does not change.                    *)
Followed(q) ==
    /\ pass'[q].at = pass[q].at /\ pass'[q].i = pass[q].i
    /\ pass'[q].instance = pass[q].instance /\ pass'[q].copy = pass[q].copy
    /\ pass'[q].fresh => pass[q].fresh
    /\ pass[q].at = "put" /\ pass'[q].fresh =>
         object'[Target(pass[q])] = object[Target(pass[q])]
    /\ pass[q] = Idle => pass'[q] = Idle

LEMMA NobodyMoves ==
    ASSUME UNCHANGED <<object, pass>>, NEW q \in Operators
    PROVE  Followed(q)
BY DEF Followed

LEMMA OthersFollow ==
    ASSUME TypeOK, NEW o \in Operators, NEW q \in Operators, q # o, NEW p,
           pass' = [pass EXCEPT ![o] = p], UNCHANGED object
    PROVE  Followed(q)
BY TypesGiven DEF Followed

LEMMA AllFollow ==
    ASSUME TypeOK, NEW x \in Resources, NEW value, SetObject(x, value), NEW q \in Operators
    PROVE  Followed(q)
<1>1. pass' = Outdated(x) /\ object' = [object EXCEPT ![x] = value]
  BY DEF SetObject
<1>2. \A y \in Resources : y # x => object'[y] = object[y]
  BY <1>1, TypesGiven
<1>3. Target(pass[q]) \in Resources
  BY TypesGiven
<1> QED
  BY <1>1, <1>2, <1>3, OutdatedIs, TypesGiven DEF Followed

(* Where a pass goes from the object it has dealt with.                    *)
LEMMA AdvanceIs ==
    ASSUME TypeOK, NEW o \in Operators
    PROVE  \/ Advance(o) = Idle
           \/ /\ MayGoOn(o)
              /\ Advance(o).at \in {"get", "status"}
              /\ Advance(o).instance = pass[o].instance
              /\ Advance(o).at = "get" => /\ Beyond(pass[o].i) # {}
                                          /\ Advance(o).i = Min(Beyond(pass[o].i))
              /\ Advance(o).at = "status" => Annotates(pass[o]) \/ Beyond(pass[o].i) = {}
<1> DEFINE status == [Idle EXCEPT !.at = "status", !.instance = pass[o].instance]
           get(i) == [Idle EXCEPT !.at = "get", !.instance = pass[o].instance, !.i = i]
<1>1. status.at = "status" /\ status.instance = pass[o].instance
  BY DEF Idle
<1>2. \A i \in Places : /\ get(i).at = "get" /\ get(i).i = i
                        /\ get(i).instance = pass[o].instance
  BY DEF Idle
<1>3. CASE ~MayGoOn(o)
  BY <1>3 DEF Advance
<1>4. CASE MayGoOn(o) /\ (Annotates(pass[o]) \/ Beyond(pass[o].i) = {})
  <2>1. Advance(o) = status
    BY <1>4 DEF Advance
  <2> QED
    BY <1>1, <1>4, <2>1
<1>5. CASE MayGoOn(o) /\ ~(Annotates(pass[o]) \/ Beyond(pass[o].i) = {})
  <2>1. Advance(o) = get(Min(Beyond(pass[o].i)))
    BY <1>5 DEF Advance
  <2>2. Min(Beyond(pass[o].i)) \in Places
    BY <1>5, TypesGiven, NextPlace DEF Passes
  <2> QED
    BY <1>2, <1>5, <2>1, <2>2
<1> QED
  BY <1>3, <1>4, <1>5

(* What an accepted write does to its object and to those who read it.     *)
LEMMA PutIs ==
    ASSUME TypeOK, UidsMeant, ObjectsMeant, NEW o \in Operators, PutObject(o)
    PROVE  LET p == pass[o]
               x == Target(p)
           IN /\ x \in Resources
              /\ \A y \in Resources : y # x => object'[y] = object[y]
              /\ object'[x].exists
              /\ Sound(x, object'[x])
              /\ Annotates(p) =>
                   /\ x = "config" /\ p.fresh
                   /\ object'[x].owners = object[x].owners /\ object[x].exists
                   /\ object'[x].data.patroni = object[x].data.patroni
                   /\ object'[x].data.upgrade = (p.instance.stage = "set")
              /\ ~Annotates(p) =>
                   /\ object'[x].owners = {Current}
                   /\ x \in {"secret", "config"} /\ object[x].exists =>
                        object'[x].data = object[x].data
                   /\ x = "config" => object'[x].data = object[x].data
              /\ pass'[o] = Advance(o)
              /\ \A q \in Operators : q # o => Followed(q)
<1> DEFINE p == pass[o]
           x == Target(p)
           built == IF Annotates(p) THEN Annotated(p) ELSE Filled(p)
           others == IF built = object[x] THEN pass ELSE Outdated(x)
<1>1. /\ p.at = "put" /\ ~LeavesAlone(p) /\ Accepted(p)
      /\ object' = [object EXCEPT ![x] = built]
      /\ pass' = [others EXCEPT ![o] = Advance(o)]
  BY DEF PutObject
<1>2. /\ p \in Passes /\ x \in Resources
      /\ object[x] \in Objects /\ p.copy \in Objects
  BY TypesGiven DEF Passes
<1>3. Current # Foreign /\ p.instance.uid = Current
  BY <1>1 DEF UidsMeant, Current, Foreign, TypeOK, Idle
<1>4. CopySound(p) /\ Sound(x, object[x]) /\ Sound(x, p.copy)
  BY <1>1, <1>2 DEF ObjectsMeant, CopySound
<1>5. object'[x] = built /\ \A y \in Resources : y # x => object'[y] = object[y]
  BY <1>1, <1>2, TypesGiven
<1>6. others \in [Operators -> Passes]
  BY TypesGiven, OutdatedTyped
<1>7. pass'[o] = Advance(o) /\ \A q \in Operators : q # o => pass'[q] = others[q]
  BY <1>1, <1>6
<1>8. ASSUME NEW q \in Operators, q # o
      PROVE  Followed(q)
  <2>1. Target(pass[q]) \in Resources
    BY TypesGiven
  <2>2. CASE built = object[x]
    <3>1. \A y \in Resources : object'[y] = object[y]
      BY <1>5, <2>2
    <3>2. pass'[q] = pass[q]
      BY <1>7, <1>8, <2>2
    <3> QED
      BY <2>1, <3>1, <3>2 DEF Followed
  <2>3. CASE built # object[x]
    <3>1. pass'[q] = Outdated(x)[q]
      BY <1>7, <1>8, <2>3
    <3> HIDE DEF x
    <3> QED
      BY <1>5, <2>1, <3>1, OutdatedIs, TypesGiven DEF Followed
  <2> QED
    BY <2>2, <2>3
<1>9. ASSUME Annotates(p)
      PROVE  /\ x = "config" /\ p.fresh
             /\ built.exists /\ built.owners = object[x].owners /\ object[x].exists
             /\ built.data.patroni = object[x].data.patroni
             /\ built.data.upgrade = (p.instance.stage = "set")
             /\ Sound(x, built)
  <2>1. x = "config" /\ p.copy.exists
    BY <1>1, <1>2, <1>4, <1>9, TargetIs DEF CopySound
  <2>2. p.fresh
    BY <1>1, <1>9, <2>1 DEF Accepted
  <2>3. p.copy = object[x]
    BY <1>1, <1>4, <2>2 DEF CopySound
  <2>4. built = [p.copy EXCEPT !.data.upgrade = p.instance.stage = "set"]
    BY <1>9 DEF Annotated
  <2>5. /\ built.exists = p.copy.exists /\ built.owners = p.copy.owners
        /\ built.data.patroni = p.copy.data.patroni
        /\ built.data.upgrade = (p.instance.stage = "set")
    BY <1>2, <2>4 DEF Objects
  <2> HIDE DEF p, x, built
  <2> QED
    BY <1>4, <2>1, <2>2, <2>3, <2>5 DEF Sound
<1>10. ASSUME ~Annotates(p)
       PROVE  /\ built.exists /\ built.owners = {Current}
              /\ x \in {"secret", "config"} /\ object[x].exists =>
                   built.data = object[x].data
              /\ x = "config" => built.data = object[x].data
  <2>1. /\ built.exists /\ built.owners = SetMeta(p.copy.owners, Current)
        /\ built.data = IF x = "secret" /\ ~p.copy.exists THEN NewSecret ELSE p.copy.data
    BY <1>3, <1>10 DEF Filled
  <2>2. Foreign \notin p.copy.owners
    <3>1. CASE x = "secret"
      <4>1. FullChain[p.i].exists = "adopted"
        BY <1>2, <1>10, <3>1, AdoptedOnce
      <4>2. ~p.copy.exists \/ p.copy.owners = {}
        BY <1>1, <1>10, <4>1 DEF LeavesAlone
      <4>3. ~p.copy.exists => p.copy.owners = {}
        BY <1>4 DEF Sound, NoObject
      <4> QED
        BY <4>2, <4>3
    <3>2. CASE x # "secret"
      BY <1>3, <1>4, <3>2 DEF Sound
    <3> QED
      BY <3>1, <3>2
  <2>3. built.owners = {Current}
    BY <2>1, <2>2 DEF SetMeta
  <2>4. ASSUME x \in {"secret", "config"}, p.copy.exists
        PROVE  built.data = object[x].data
    <3>1. FullChain[p.i].exists = "adopted"
      BY <1>2, <1>10, <2>4, AdoptedOnce
    <3>2. p.fresh
      BY <1>1, <2>4, <3>1 DEF Accepted
    <3>3. p.copy = object[x]
      BY <1>1, <1>4, <3>2 DEF CopySound
    <3> QED
      BY <2>1, <2>4, <3>3
  <2>5. ASSUME ~p.copy.exists
        PROVE  object[x] = NoObject /\ p.copy = NoObject
    BY <1>1, <1>4, <2>5 DEF Accepted, Sound
  <2>6. NoObject.exists = FALSE
    BY DEF NoObject
  <2> HIDE DEF p, x, built
  <2>7. x \in {"secret", "config"} /\ object[x].exists => built.data = object[x].data
    BY <2>4, <2>5, <2>6
  <2>8. x = "config" => built.data = object[x].data
    <3>1. CASE p.copy.exists
      BY <2>4, <3>1
    <3>2. CASE ~p.copy.exists
      BY <2>1, <2>5, <3>2
    <3> QED
      BY <3>1, <3>2
  <2> QED
    BY <2>1, <2>3, <2>7, <2>8
<1>11. Sound(x, built)
  <2>1. CASE Annotates(p)
    BY <1>9, <2>1
  <2>2. CASE ~Annotates(p)
    BY <1>10, <2>2 DEF Sound
  <2> QED
    BY <2>1, <2>2
<1> HIDE DEF built, others
<1> QED
  BY <1>2, <1>5, <1>7, <1>8, <1>9, <1>10, <1>11

(* A follower still works for the latest instance with a sound copy.       *)
LEMMA FollowerKept ==
    ASSUME TypeOK, UidsMeant, ObjectsMeant, NEW q \in Operators, Followed(q),
           recreated' = recreated
    PROVE  /\ (pass[q] = Idle \/ (pass[q].at # "idle" /\ pass[q].instance.uid = Current))'
           /\ CopySound(pass[q])'
           /\ Target(pass'[q]) = Target(pass[q])
           /\ Annotates(pass'[q]) <=> Annotates(pass[q])
<1>1. /\ pass[q] = Idle \/ (pass[q].at # "idle" /\ pass[q].instance.uid = Current)
      /\ CopySound(pass[q])
  BY DEF UidsMeant, ObjectsMeant
<1>2. Current' = Current
  BY DEF Current
<1>3. /\ Annotates(pass'[q]) <=> Annotates(pass[q])
      /\ Target(pass'[q]) = Target(pass[q])
  BY DEF Followed, Annotates, Target
<1>4. Target(pass[q])' = Target(pass'[q]) /\ Annotates(pass[q])' = Annotates(pass'[q])
  BY DEF Target, Annotates
<1>5. (pass[q] = Idle \/ (pass[q].at # "idle" /\ pass[q].instance.uid = Current))'
  BY <1>1, <1>2 DEF Followed
<1>6. CASE pass[q].at # "put"
  BY <1>3, <1>4, <1>5, <1>6 DEF Followed, CopySound
<1>7. CASE pass[q].at = "put"
  <2>1. pass'[q].at = "put" /\ pass'[q].copy = pass[q].copy
    BY <1>7 DEF Followed
  <2>2. Sound(Target(pass[q]), pass[q].copy)'
    BY <1>1, <1>2, <1>3, <1>4, <1>7, <2>1 DEF CopySound, Sound
  <2>3. pass'[q].fresh => pass'[q].copy = object'[Target(pass'[q])]
    BY <1>1, <1>3, <1>7, <2>1 DEF CopySound, Followed
  <2>4. Annotates(pass'[q]) => pass'[q].copy.exists
    BY <1>1, <1>3, <1>7, <2>1 DEF CopySound
  <2> QED
    BY <1>3, <1>4, <1>5, <2>2, <2>3, <2>4 DEF CopySound
<1> QED
  BY <1>6, <1>7

(* The objects and the copies of all but one process are as they were.     *)
LEMMA SoundOthers ==
    ASSUME TypeOK, UidsMeant, ObjectsMeant, UNCHANGED <<object, instance, recreated>>,
           NEW o \in Operators, NEW p, pass' = [pass EXCEPT ![o] = p],
           p = Idle \/ (p.at # "idle" /\ p.instance.uid = Current),
           CopySound(p)
    PROVE  (UidsMeant /\ ObjectsMeant)'
<1>1. Current' = Current
  BY DEF Current
<1>2. ASSUME NEW q \in Operators
      PROVE  /\ (pass[q] = Idle \/ (pass[q].at # "idle" /\ pass[q].instance.uid = Current))'
             /\ CopySound(pass[q])'
  <2>1. CASE q = o
    <3>1. pass'[q] = p
      BY <2>1, TypesGiven
    <3>2. CopySound(pass[q])' <=> CopySound(p)
      BY <1>1, <3>1 DEF CopySound, Sound, Target, Annotates
    <3> QED
      BY <1>1, <3>1, <3>2
  <2>2. CASE q # o
    BY <2>2, OthersFollow, FollowerKept
  <2> QED
    BY <2>1, <2>2
<1>3. \A x \in Resources : Sound(x, object[x])'
  BY <1>1 DEF ObjectsMeant, Sound
<1> QED
  BY <1>1, <1>2, <1>3 DEF UidsMeant, ObjectsMeant

LEMMA IdleSound == CopySound(Idle)
BY DEF CopySound, Idle

(* Someone else than the operator sets an object.                          *)
LEMMA SoundSet ==
    ASSUME TypeOK, UidsMeant, ObjectsMeant, UNCHANGED <<instance, recreated>>,
           NEW x \in Resources, NEW value, SetObject(x, value), Sound(x, value)
    PROVE  (UidsMeant /\ ObjectsMeant)'
<1>1. Current' = Current
  BY DEF Current
<1>2. ASSUME NEW q \in Operators
      PROVE  /\ (pass[q] = Idle \/ (pass[q].at # "idle" /\ pass[q].instance.uid = Current))'
             /\ CopySound(pass[q])'
  BY AllFollow, FollowerKept
<1>3. ASSUME NEW y \in Resources
      PROVE  Sound(y, object[y])'
  <2>1. object'[y] = IF y = x THEN value ELSE object[y]
    BY TypesGiven DEF SetObject
  <2>2. Sound(y, object'[y])
    BY <2>1 DEF ObjectsMeant
  <2> QED
    BY <1>1, <2>2 DEF Sound
<1> QED
  BY <1>1, <1>2, <1>3 DEF UidsMeant, ObjectsMeant

(* With the old cluster collected, nothing is left that has only the old   *)
(* instance as its owner.                                                  *)
LEMMA NothingLeft ==
    ASSUME TypeOK, UidsMeant, ObjectsMeant, instance.uid = 0, Collected,
           NEW x \in Resources
    PROVE  \/ object[x] = NoObject
           \/ x \in {"secret", "config"} /\ object[x].owners = {}
           \/ x = "secret" /\ object[x].owners = {Foreign}
<1>1. Sound(x, object[x]) /\ ~Dangling(x)
  BY DEF ObjectsMeant, Collected
<1>2. Current # 0
  BY DEF Current, TypeOK
<1> QED
  BY <1>1, <1>2 DEF Sound, Dangling, Foreign

LEMMA StepSound ==
    ASSUME CollectedFirst, TypeOK, UidsMeant, ObjectsMeant, [Next]_vars
    PROVE  (UidsMeant /\ ObjectsMeant)'
<1>1. StepCases
  BY StepIs
<1> DEFINE Works(p) == p = Idle \/ (p.at # "idle" /\ p.instance.uid = Current)
<1>2. \A o \in Operators : Works(pass[o]) /\ CopySound(pass[o])
  BY DEF UidsMeant, ObjectsMeant
<1>3. CASE OnlyPasses /\ UNCHANGED pass
  BY <1>3, ObjectsMeant /\ UidsMeant
     DEF OnlyPasses, UidsMeant, ObjectsMeant, CopySound, Sound, Current, Target, Annotates
<1>4. ASSUME NEW o \in Operators, Ended(o)
      PROVE  (UidsMeant /\ ObjectsMeant)'
  BY <1>4, SoundOthers, IdleSound DEF Ended, OnlyPasses
<1>5. ASSUME NEW o \in Operators, Begun(o)
      PROVE  (UidsMeant /\ ObjectsMeant)'
  <2> DEFINE p == [Idle EXCEPT !.at = "get", !.instance = instance]
  <2>1. p.at = "get" /\ p.instance = instance
    BY DEF Idle
  <2>2. pass' = [pass EXCEPT ![o] = p] /\ UNCHANGED <<object, instance, recreated>>
    BY <1>5 DEF Begun, OnlyPasses
  <2>3. instance.uid = Current
    BY <1>5 DEF Begun, UidsMeant
  <2> HIDE DEF p
  <2> QED
    BY <2>1, <2>2, <2>3, SoundOthers DEF CopySound
<1>6. ASSUME NEW o \in Operators, ObjectRead(o)
      PROVE  (UidsMeant /\ ObjectsMeant)'
  <2> DEFINE x == Target(pass[o])
             p == [pass[o] EXCEPT !.at = "put", !.fresh = TRUE, !.copy = object[x]]
  <2>1. pass[o] \in Passes /\ x \in Resources
    BY TypesGiven
  <2>2. /\ p.at = "put" /\ p.instance = pass[o].instance /\ p.i = pass[o].i
        /\ p.copy = object[x]
    BY <2>1 DEF Passes
  <2>3. pass' = [pass EXCEPT ![o] = p] /\ UNCHANGED <<object, instance, recreated>>
    BY <1>6 DEF ObjectRead, OnlyPasses
  <2>4. (Annotates(p) <=> Annotates(pass[o])) /\ Target(p) = x
    BY <2>2 DEF Annotates, Target
  <2>5. Works(p)
    BY <1>2, <1>6, <2>2 DEF ObjectRead, Idle
  <2>6. Sound(x, object[x]) /\ (Annotates(pass[o]) => object[x].exists)
    BY <1>6, <2>1 DEF ObjectsMeant, ObjectRead
  <2> HIDE DEF p, x
  <2>7. CopySound(p)
    BY <2>2, <2>4, <2>6 DEF CopySound
  <2> QED
    BY <2>3, <2>5, <2>7, SoundOthers
<1>7. ASSUME NEW o \in Operators
      PROVE  pass[o].at # "idle" => Works(Advance(o)) /\ CopySound(Advance(o))
  BY <1>2, <1>7, AdvanceIs, IdleSound DEF CopySound, Idle
<1>8. ASSUME NEW o \in Operators, ObjectLeft(o)
      PROVE  (UidsMeant /\ ObjectsMeant)'
  <2>1. pass' = [pass EXCEPT ![o] = Advance(o)] /\ UNCHANGED <<object, instance, recreated>>
    BY <1>8 DEF ObjectLeft, OnlyPasses
  <2>2. Works(Advance(o)) /\ CopySound(Advance(o))
    BY <1>7, <1>8 DEF ObjectLeft
  <2> QED
    BY <2>1, <2>2, SoundOthers
<1>9. ASSUME NEW o \in Operators, PutObject(o)
      PROVE  (UidsMeant /\ ObjectsMeant)'
  <2>1. Current' = Current /\ instance' = instance /\ recreated' = recreated
    BY <1>9 DEF Current, PutObject
  <2>2. ASSUME NEW y \in Resources
        PROVE  Sound(y, object[y])'
    <3>1. Sound(y, object'[y])
      BY <1>9, PutIs DEF ObjectsMeant
    <3> QED
      BY <2>1, <3>1 DEF Sound
  <2>3. ASSUME NEW q \in Operators
        PROVE  Works(pass[q])' /\ CopySound(pass[q])'
    <3>1. CASE q = o
      <4>1. pass'[q] = Advance(o)
        BY <1>9, <3>1, PutIs
      <4>2. Works(Advance(o)) /\ Advance(o).at # "put"
        BY <1>7, <1>9, AdvanceIs DEF PutObject, Idle
      <4> QED
        BY <2>1, <4>1, <4>2 DEF CopySound
    <3>2. CASE q # o
      BY <1>9, <2>1, <3>2, PutIs, FollowerKept
    <3> QED
      BY <3>1, <3>2
  <2> QED
    BY <2>1, <2>2, <2>3 DEF UidsMeant, ObjectsMeant
<1>10. ASSUME NEW o \in Operators, StatusUpdated(o)
       PROVE  (UidsMeant /\ ObjectsMeant)'
  <2>1. instance'.uid = instance.uid /\ recreated' = recreated
    BY <1>10, StageTyped DEF StatusUpdated
  <2>2. Current' = Current
    BY <2>1 DEF Current
  <2>3. UNCHANGED object /\ pass' = [pass EXCEPT ![o] = Idle]
    BY <1>10 DEF StatusUpdated
  <2>4. ASSUME NEW q \in Operators
        PROVE  Works(pass[q])' /\ CopySound(pass[q])'
    <3>1. CASE q = o
      <4>1. pass'[q] = Idle
        BY <2>3, <3>1, TypesGiven
      <4> QED
        BY <4>1 DEF CopySound, Idle
    <3>2. CASE q # o
      BY <2>1, <2>3, <3>2, OthersFollow, FollowerKept
    <3> QED
      BY <3>1, <3>2
  <2> QED
    BY <2>1, <2>2, <2>3, <2>4 DEF UidsMeant, ObjectsMeant, Sound
<1>11. ASSUME NEW o \in Operators, Resigned(o)
       PROVE  (UidsMeant /\ ObjectsMeant)'
  BY <1>11
     DEF Resigned, UidsMeant, ObjectsMeant, CopySound, Sound, Current, Target, Annotates
<1>12. CASE Bootstrap \/ Annotate
  <2>1. PICK n \in 0 .. MaxWrites :
               SetObject("config", [object["config"] EXCEPT !.data.patroni = n])
    <3>1. 1 \in 0 .. MaxWrites
      BY BoundsAssumption
    <3>2. Annotate => db.patroni + 1 \in 0 .. MaxWrites
      BY BoundsAssumption DEF Annotate, TypeOK
    <3> QED
      BY <1>12, <3>1, <3>2 DEF Bootstrap, Annotate
  <2> DEFINE c == [object["config"] EXCEPT !.data.patroni = n]
  <2>2. "config" \in Resources /\ object["config"] \in Objects
    BY TypesGiven, ResourcesAssumption
  <2>3. c.owners = object["config"].owners /\ c.exists = object["config"].exists
    BY <2>2 DEF Objects
  <2>4. object["config"].exists /\ UNCHANGED <<instance, recreated>>
    BY <1>12, ResourcesAssumption
       DEF Bootstrap, Annotate, PatroniRuns, Needed, NotForPatroniToCreate
  <2>5. Sound("config", c)
    BY <2>2, <2>3, <2>4 DEF ObjectsMeant, Sound
  <2> QED
    BY <2>1, <2>2, <2>4, <2>5, SoundSet
<1>13. CASE EditSpec \/ BeginUpgrade \/ DeleteInstance
  <2>1. instance'.uid \in {0, instance.uid} /\ UNCHANGED <<object, pass, recreated>>
    BY <1>13 DEF EditSpec, BeginUpgrade, DeleteInstance, TypeOK, Instances
  <2> QED
    BY <2>1
       DEF UidsMeant, ObjectsMeant, CopySound, Sound, Current, Target, Annotates
<1>14. CASE Recreate
  <2>1. /\ instance.uid = 0 /\ Collected
        /\ recreated' = recreated + 1 /\ UNCHANGED <<object, pass>>
        /\ instance' = [instance EXCEPT !.uid = recreated' + 1, !.stage = "before"]
    BY <1>14 DEF Recreate
  <2>2. instance'.uid = Current'
    BY <2>1 DEF Current, TypeOK, Instances
  <2>3. \A o \in Operators : pass[o] = Idle
    BY <2>1 DEF Collected
  <2>4. ASSUME NEW x \in Resources
        PROVE  Sound(x, object[x])'
    <3>1. \/ object[x] = NoObject
          \/ x \in {"secret", "config"} /\ object[x].owners = {} /\ Sound(x, object[x])
          \/ x = "secret" /\ object[x].owners = {Foreign} /\ Sound(x, object[x])
      BY <2>1, NothingLeft DEF ObjectsMeant
    <3> QED
      BY <2>1, <3>1 DEF Sound, NoObject
  <2>5. \A o \in Operators : pass'[o] = Idle /\ pass'[o].at # "put"
    <3>1. Idle.at # "put"
      BY DEF Idle
    <3> QED
      BY <2>1, <2>3, <3>1
  <2> QED
    BY <2>2, <2>4, <2>5 DEF UidsMeant, ObjectsMeant, CopySound
<1>15. ASSUME NEW x \in Resources, Vanished(x)
       PROVE  (UidsMeant /\ ObjectsMeant)'
  <2>1. SetObject(x, NoObject) /\ UNCHANGED <<instance, recreated>>
    BY <1>15 DEF Vanished, DeleteObject, Collect
  <2>2. Sound(x, NoObject)
    BY DEF Sound, NoObject
  <2> QED
    BY <2>1, <2>2, SoundSet
<1> QED
  BY <1>1, <1>3, <1>4, <1>5, <1>6, <1>8, <1>9, <1>10, <1>11, <1>12, <1>13, <1>14, <1>15
     DEF StepCases

-----------------------------------------------------------------------------
(* What the cluster cannot do without: its claims, its secret and          *)
(* Patroni's ConfigMap are there as long as it lives, with the password    *)
(* and the annotation the database has.                                    *)

Kept ==
    /\ db.exists => object["claims"].exists
    /\ Lives => /\ object["secret"].exists
                /\ object["secret"].data.password = db.password
                /\ object["config"].exists
                /\ object["config"].data.patroni = db.patroni

(* Only what the latest instance owned is collected, once it is deleted.   *)
LEMMA CollectedLate ==
    ASSUME TypeOK, UidsMeant, ObjectsMeant, NEW x \in Resources, Collect(x)
    PROVE  instance.uid = 0
BY DEF Collect, Dangling, UidsMeant, ObjectsMeant, Sound, Foreign

LEMMA VanishedIs ==
    ASSUME TypeOK, UidsMeant, ObjectsMeant, NEW x \in Resources, Vanished(x)
    PROVE  /\ SetObject(x, NoObject)
           /\ object'[x] = NoObject /\ NoObject.exists = FALSE
           /\ \A y \in Resources : y # x => object'[y] = object[y]
           /\ UNCHANGED <<instance, elected, recreated>>
           /\ x \in {"claims", "secret", "config"} => instance.uid = 0
           /\ IF x = "claims" THEN db' = NoDatabase ELSE db' = db
<1>1. SetObject(x, NoObject) /\ UNCHANGED <<instance, elected, recreated>>
  BY DEF Vanished, DeleteObject, Collect
<1>2. x \in {"claims", "secret", "config"} => instance.uid = 0
  BY CollectedLate DEF Vanished, Replaceable
<1>3. IF x = "claims" THEN db' = NoDatabase ELSE db' = db
  BY DEF Vanished, DeleteObject, Collect, Replaceable
<1> QED
  BY <1>1, <1>2, <1>3, TypesGiven DEF SetObject, NoObject

(* Patroni writes one annotation of its ConfigMap, and nothing else.       *)
LEMMA PatroniWrites ==
    ASSUME TypeOK, Bootstrap \/ Annotate
    PROVE  /\ \A x \in Needed : object[x].exists
           /\ \A y \in Resources : y # "config" => object'[y] = object[y]
           /\ object'["config"].exists
           /\ object'["config"].owners = object["config"].owners
           /\ object'["config"].data.upgrade = object["config"].data.upgrade
           /\ object'["config"].data.patroni = db'.patroni
           /\ db'.exists
           /\ IF db.exists THEN db'.password = db.password
              ELSE db'.password = object["secret"].data.password
           /\ UNCHANGED <<instance, elected, recreated>>
           /\ \A q \in Operators : Followed(q)
<1>1. PICK n \in Nat : /\ SetObject("config", [object["config"] EXCEPT !.data.patroni = n])
                       /\ db'.patroni = n
  <2>1. CASE Bootstrap
    <3>1. db'.patroni = 1
      BY <2>1 DEF Bootstrap
    <3> QED
      BY <2>1, <3>1 DEF Bootstrap
  <2>2. CASE Annotate
    <3>1. db.patroni \in Nat
      BY DEF TypeOK
    <3>2. db'.patroni = db.patroni + 1
      BY <2>2 DEF Annotate, TypeOK
    <3> QED
      BY <2>2, <3>1, <3>2 DEF Annotate
  <2> QED
    BY <2>1, <2>2
<1> DEFINE c == [object["config"] EXCEPT !.data.patroni = n]
<1>2. "config" \in Resources /\ object["config"] \in Objects
  BY TypesGiven, ResourcesAssumption
<1>3. /\ c.owners = object["config"].owners /\ c.exists = object["config"].exists
      /\ c.data.upgrade = object["config"].data.upgrade
      /\ c.data.patroni = n
  BY <1>2 DEF Objects
<1>4. /\ object'["config"] = c
      /\ \A y \in Resources : y # "config" => object'[y] = object[y]
  BY <1>1, <1>2, TypesGiven DEF SetObject
<1>5. \A q \in Operators : Followed(q)
  BY <1>1, <1>2, AllFollow
<1>6. /\ \A x \in Needed : object[x].exists
      /\ UNCHANGED <<instance, elected, recreated>>
  BY DEF Bootstrap, Annotate, PatroniRuns
<1>7. object["config"].exists
  BY <1>6, ResourcesAssumption DEF Needed, NotForPatroniToCreate
<1>8. /\ db'.exists
      /\ IF db.exists THEN db'.password = db.password
         ELSE db'.password = object["secret"].data.password
  <2>1. CASE Bootstrap
    BY <2>1 DEF Bootstrap
  <2>2. CASE Annotate
    BY <2>2 DEF Annotate, TypeOK
  <2> QED
    BY <2>1, <2>2
<1> HIDE DEF c
<1> QED
  BY <1>1, <1>3, <1>4, <1>5, <1>6, <1>7, <1>8

LEMMA StepKept ==
    ASSUME CollectedFirst, TypeOK, UidsMeant, ObjectsMeant, Kept, [Next]_vars
    PROVE  Kept'
<1>1. StepCases
  BY StepIs
<1>2. {"claims", "secret", "config"} \subseteq Resources
  BY ResourcesAssumption
<1>3. ASSUME UNCHANGED <<object, db>>, instance'.uid \in {0, instance.uid}
      PROVE  Kept'
  BY <1>3 DEF Kept, Lives
<1>4. CASE OnlyPasses
  BY <1>3, <1>4 DEF OnlyPasses
<1>5. ASSUME NEW o \in Operators, PutObject(o)
      PROVE  Kept'
  <2> DEFINE x == Target(pass[o])
  <2>1. instance' = instance /\ db' = db
    BY <1>5 DEF PutObject
  <2>2. /\ x \in Resources /\ object'[x].exists
        /\ \A y \in Resources : y # x => object'[y] = object[y]
        /\ x = "secret" /\ object[x].exists => object'[x].data = object[x].data
        /\ x = "config" => object'[x].data.patroni = object[x].data.patroni
    BY <1>5, PutIs
  <2> HIDE DEF x
  <2>3. \A y \in {"claims", "secret", "config"} : object[y].exists => object'[y].exists
    BY <1>2, <2>2
  <2>4. /\ object["secret"].exists =>
             object'["secret"].data.password = object["secret"].data.password
        /\ object'["config"].data.patroni = object["config"].data.patroni
    BY <1>2, <2>2
  <2> QED
    BY <2>1, <2>3, <2>4 DEF Kept, Lives
<1>6. ASSUME NEW o \in Operators, StatusUpdated(o)
      PROVE  Kept'
  BY <1>3, <1>6, StageTyped DEF StatusUpdated
<1>7. ASSUME NEW o \in Operators, Resigned(o)
      PROVE  Kept'
  BY <1>3, <1>7 DEF Resigned
<1>8. CASE Bootstrap \/ Annotate
  <2>1. {"claims", "secret", "config"} \subseteq Needed
    BY ResourcesAssumption DEF Needed, NotForPatroniToCreate
  <2> QED
    BY <1>2, <1>8, <2>1, PatroniWrites DEF Kept, Lives
<1>9. CASE EditSpec \/ BeginUpgrade \/ DeleteInstance
  <2>1. instance'.uid \in {0, instance.uid} /\ UNCHANGED <<object, db>>
    BY <1>9 DEF EditSpec, BeginUpgrade, DeleteInstance, TypeOK, Instances
  <2> QED
    BY <1>3, <2>1
<1>10. CASE Recreate
  <2>1. instance.uid = 0 /\ Collected /\ UNCHANGED <<object, db>>
    BY <1>10 DEF Recreate
  <2>2. object["claims"] = NoObject
    BY <1>2, <2>1, NothingLeft
  <2>3. ~db.exists
    BY <2>2 DEF Kept, NoObject
  <2> QED
    BY <2>1, <2>3 DEF Kept, Lives
<1>11. ASSUME NEW x \in Resources, Vanished(x)
       PROVE  Kept'
  <2>1. CASE x = "claims"
    <3>1. db' = NoDatabase /\ NoDatabase.exists = FALSE
      BY <1>11, <2>1, VanishedIs DEF NoDatabase
    <3>2. db'.exists = FALSE
      BY <3>1
    <3> QED
      BY <3>2 DEF Kept, Lives
  <2>2. CASE x # "claims"
    BY <1>2, <1>11, <2>2, VanishedIs DEF Kept, Lives
  <2> QED
    BY <2>1, <2>2
<1> QED
  BY <1>1, <1>4, <1>5, <1>6, <1>7, <1>8, <1>9, <1>10, <1>11
     DEF StepCases, Ended, Begun, ObjectRead, ObjectLeft

LEMMA InitSound == Init => UidsMeant /\ ObjectsMeant /\ Kept
<1> SUFFICES ASSUME Init
             PROVE  UidsMeant /\ ObjectsMeant /\ Kept
  OBVIOUS
<1>1. UidsMeant
  BY DEF Init, UidsMeant, Current
<1>2. ASSUME NEW x \in Resources
      PROVE  Sound(x, object[x])
  <2>1. PICK secret \in {NoObject, Prepared({}), Prepared({Foreign})},
             config \in {NoObject, Prepared({})} :
               object = [[y \in Resources |-> NoObject]
                         EXCEPT !["secret"] = secret, !["config"] = config]
    BY DEF Init
  <2>2. object[x] = IF x = "config" THEN config
                    ELSE IF x = "secret" THEN secret ELSE NoObject
    BY <2>1, ResourcesAssumption
  <2>3. /\ NoObject.exists = FALSE /\ NoObject.owners = {}
        /\ \A owners : Prepared(owners).exists /\ Prepared(owners).owners = owners
    BY DEF NoObject, Prepared
  <2> QED
    BY <2>2, <2>3 DEF Sound
<1>3. \A o \in Operators : CopySound(pass[o])
  BY IdleSound DEF Init
<1>4. Kept
  BY DEF Init, Kept, Lives, NoDatabase
<1> QED
  BY <1>1, <1>2, <1>3, <1>4 DEF ObjectsMeant

Reconciled == TypeOK /\ Recreatable /\ UidsMeant /\ ObjectsMeant /\ Kept

LEMMA AlwaysReconciled ==
    ASSUME CollectedFirst
    PROVE  Spec => []Reconciled
<1>1. Init => Reconciled
  <2>1. Init => Recreatable
    BY DEF Init, Recreatable
  <2> QED
    BY <2>1, InitTyped, InitSound DEF Reconciled
<1>2. Reconciled /\ [Next]_vars => Reconciled'
  BY StepTyped, StepSound, StepKept DEF Reconciled
<1> QED
  BY <1>1, <1>2, PTL DEF Spec

(* No update of the operator's, however old the copy it was made from and  *)
(* whichever process makes it, takes back what Patroni has written to its  *)
(* ConfigMap while the cluster lives.                                      *)
THEOREM PatroniIsNotOverwritten ==
    ASSUME CollectedFirst
    PROVE  Spec => []AnnotationsKept
<1>1. Reconciled => AnnotationsKept
  BY DEF Reconciled, Kept, AnnotationsKept
<1> QED
  BY <1>1, AlwaysReconciled, PTL

(* The secret never gets another password than the database was created    *)
(* with: secret.Reconcile generates one only before there is a database.   *)
THEOREM PasswordStays ==
    ASSUME CollectedFirst
    PROVE  Spec => []PasswordFits
<1>1. Reconciled => PasswordFits
  BY DEF Reconciled, Kept, PasswordFits
<1> QED
  BY <1>1, AlwaysReconciled, PTL

-----------------------------------------------------------------------------
(* A ConfigMap the user has prepared: until the chain has adopted it the   *)
(* cluster cannot have started, so no upgrade annotates it.                *)

Unadopted == object["config"].exists /\ object["config"].owners = {}

EarlyPass(p) ==
    /\ p.instance.stage = "before"
    /\ p.at # "status"
    /\ p.i <= 3
    /\ p.at = "put" /\ p.i = 3 => p.copy.owners = {}

UnadoptedEarly ==
    Unadopted =>
        /\ ~object["statefulset"].exists
        /\ ~db.exists
        /\ instance.stage = "before"
        /\ \A o \in Operators : EarlyPass(pass[o])

LEMMA IdleEarly == EarlyPass(Idle)
BY DEF EarlyPass, Idle

LEMMA FollowerEarly ==
    ASSUME NEW q \in Operators, Followed(q), EarlyPass(pass[q])
    PROVE  EarlyPass(pass'[q])
BY DEF Followed, EarlyPass

(* An early pass that is not at Patroni's ConfigMap goes on to an object   *)
(* no later in the chain.                                                  *)
LEMMA AdvanceEarly ==
    ASSUME TypeOK, NEW o \in Operators, EarlyPass(pass[o]), pass[o].i # 3
    PROVE  EarlyPass(Advance(o))
<1>1. ~Annotates(pass[o]) /\ pass[o].i \in Places /\ pass[o].i < 3
  <2>1. ~Annotates(pass[o]) /\ pass[o].i <= 3
    BY DEF EarlyPass, Annotates
  <2>2. pass[o].i \in Places
    BY TypesGiven DEF Passes
  <2>3. pass[o].i \in 1 .. 14
    BY <2>2, ChainIs DEF Places
  <2> QED
    BY <2>1, <2>2, <2>3
<1>2. Beyond(pass[o].i) # {} /\ Min(Beyond(pass[o].i)) <= 3
  BY <1>1, ConfigFollows, NextPlace
<1> QED
  BY <1>1, <1>2, AdvanceIs, IdleEarly DEF EarlyPass

LEMMA EarlyIs ==
    ASSUME Unadopted, UnadoptedEarly
    PROVE  /\ ~object["statefulset"].exists /\ ~db.exists /\ instance.stage = "before"
           /\ \A o \in Operators : EarlyPass(pass[o])
BY DEF UnadoptedEarly

(* The passes after a step that leaves the objects, the database and the   *)
(* stage as they are.                                                      *)
LEMMA EarlyOthers ==
    ASSUME TypeOK, UnadoptedEarly, UNCHANGED <<object, db>>, instance'.stage = instance.stage,
           NEW o \in Operators, NEW p, pass' = [pass EXCEPT ![o] = p],
           Unadopted => EarlyPass(p)
    PROVE  UnadoptedEarly'
<1> SUFFICES ASSUME Unadopted'
             PROVE  /\ ~object'["statefulset"].exists /\ ~db'.exists
                    /\ instance'.stage = "before"
                    /\ \A q \in Operators : EarlyPass(pass'[q])
  BY DEF UnadoptedEarly, EarlyPass
<1>1. Unadopted
  BY DEF Unadopted
<1>2. ASSUME NEW q \in Operators
      PROVE  EarlyPass(pass'[q])
  <2>1. CASE q = o
    <3>1. pass'[q] = p
      BY <2>1, TypesGiven
    <3> QED
      BY <1>1, <3>1
  <2>2. CASE q # o
    <3>1. pass'[q] = pass[q]
      BY <2>2, TypesGiven
    <3> QED
      BY <1>1, <3>1, EarlyIs
  <2> QED
    BY <2>1, <2>2
<1> QED
  BY <1>1, <1>2, EarlyIs

LEMMA StepEarly ==
    ASSUME Reconciled, UnadoptedEarly, [Next]_vars
    PROVE  UnadoptedEarly'
<1>0. TypeOK /\ UidsMeant /\ ObjectsMeant
  BY DEF Reconciled
<1>1. StepCases
  BY <1>0, StepIs
<1>2. {"claims", "secret", "config", "statefulset"} \subseteq Resources
  BY ResourcesAssumption
<1>3. ASSUME UNCHANGED <<object, pass, db>>,
             Unadopted => instance'.stage = "before"
      PROVE  UnadoptedEarly'
  BY <1>3 DEF UnadoptedEarly, Unadopted, EarlyPass
<1>4. CASE OnlyPasses /\ UNCHANGED pass
  BY <1>3, <1>4, EarlyIs DEF OnlyPasses
<1>5. ASSUME NEW o \in Operators, Ended(o)
      PROVE  UnadoptedEarly'
  BY <1>0, <1>5, EarlyOthers, IdleEarly DEF Ended, OnlyPasses
<1>6. ASSUME NEW o \in Operators, Begun(o)
      PROVE  UnadoptedEarly'
  <2> DEFINE p == [Idle EXCEPT !.at = "get", !.instance = instance]
  <2>1. p.at = "get" /\ p.i = 1 /\ p.instance = instance
    BY DEF Idle
  <2>2. pass' = [pass EXCEPT ![o] = p] /\ UNCHANGED <<object, db, instance>>
    BY <1>6 DEF Begun, OnlyPasses
  <2> HIDE DEF p
  <2>3. Unadopted => EarlyPass(p)
    BY <2>1, EarlyIs DEF EarlyPass
  <2> QED
    BY <1>0, <2>2, <2>3, EarlyOthers
<1>7. ASSUME NEW o \in Operators, ObjectRead(o)
      PROVE  UnadoptedEarly'
  <2> DEFINE p == [pass[o] EXCEPT !.at = "put", !.fresh = TRUE,
                                  !.copy = object[Target(pass[o])]]
  <2>1. /\ p.at = "put" /\ p.i = pass[o].i /\ p.instance = pass[o].instance
        /\ p.copy = object[Target(pass[o])]
    BY <1>0, TypesGiven DEF Passes
  <2>2. pass' = [pass EXCEPT ![o] = p] /\ UNCHANGED <<object, db, instance>>
    BY <1>7 DEF ObjectRead, OnlyPasses
  <2> HIDE DEF p
  <2>3. ASSUME Unadopted
        PROVE  EarlyPass(p)
    <3>1. EarlyPass(pass[o])
      BY <2>3, EarlyIs
    <3>2. ~Annotates(pass[o])
      BY <3>1 DEF EarlyPass, Annotates
    <3>3. pass[o].i = 3 => Target(pass[o]) = "config"
      BY <3>2, ChainIs DEF Target
    <3> QED
      BY <2>1, <2>3, <3>1, <3>3 DEF EarlyPass, Unadopted
  <2> QED
    BY <1>0, <2>2, <2>3, EarlyOthers
<1>8. ASSUME NEW o \in Operators, ObjectLeft(o)
      PROVE  UnadoptedEarly'
  <2>1. ASSUME Unadopted
        PROVE  EarlyPass(Advance(o))
    <3>1. EarlyPass(pass[o])
      BY <2>1, EarlyIs
    <3>2. pass[o].i # 3
      BY <1>8, <3>1 DEF ObjectLeft, LeavesAlone, EarlyPass
    <3> QED
      BY <1>0, <3>1, <3>2, AdvanceEarly
  <2> QED
    BY <1>0, <1>8, <2>1, EarlyOthers DEF ObjectLeft, OnlyPasses
<1>9. ASSUME NEW o \in Operators, PutObject(o), Unadopted'
      PROVE  /\ ~object'["statefulset"].exists /\ ~db'.exists
             /\ instance'.stage = "before"
             /\ \A q \in Operators : EarlyPass(pass'[q])
  <2> DEFINE x == Target(pass[o])
  <2>1. /\ x \in Resources
        /\ \A y \in Resources : y # x => object'[y] = object[y]
        /\ ~Annotates(pass[o]) => object'[x].owners = {Current}
        /\ Annotates(pass[o]) =>
             x = "config" /\ object'[x].owners = object[x].owners /\ object[x].exists
        /\ pass'[o] = Advance(o)
        /\ \A q \in Operators : q # o => Followed(q)
    BY <1>0, <1>9, PutIs
  <2>2. Unadopted
    <3> HIDE DEF x
    <3>1. x = "config" => Annotates(pass[o])
      BY <1>9, <2>1 DEF Unadopted
    <3> QED
      BY <1>2, <1>9, <2>1, <3>1 DEF Unadopted
  <2>3. \A q \in Operators : EarlyPass(pass[q])
    BY <2>2, EarlyIs
  <2>4. ~Annotates(pass[o])
    BY <2>3 DEF EarlyPass, Annotates
  <2>5. x # "config" /\ x # "statefulset" /\ pass[o].i # 3
    <3>1. pass[o] \in Passes /\ pass[o].i <= 3
      BY <1>0, <2>3, TypesGiven DEF EarlyPass
    <3>2. x # "config"
      BY <1>9, <2>1, <2>4 DEF Unadopted
    <3>3. pass[o].i = 3 => x = "config"
      BY <2>4, ChainIs DEF Target
    <3>4. x \in {"claims", "secret", "config"}
      BY <2>4, <3>1, AdoptedOnce
    <3> QED
      BY <3>2, <3>3, <3>4
  <2> HIDE DEF x
  <2>6. object'["statefulset"] = object["statefulset"]
    BY <1>2, <2>1, <2>5
  <2>7. instance' = instance /\ db' = db
    BY <1>9 DEF PutObject
  <2>8. ASSUME NEW q \in Operators
        PROVE  EarlyPass(pass'[q])
    <3>1. CASE q = o
      BY <1>0, <2>1, <2>3, <2>5, <3>1, AdvanceEarly
    <3>2. CASE q # o
      BY <2>1, <2>3, <3>2, FollowerEarly
    <3> QED
      BY <3>1, <3>2
  <2> QED
    BY <2>2, <2>6, <2>7, <2>8, EarlyIs
<1>10. ASSUME NEW o \in Operators, StatusUpdated(o)
       PROVE  UnadoptedEarly'
  <2>1. ~Unadopted
    BY <1>10, EarlyIs DEF StatusUpdated, EarlyPass
  <2> QED
    BY <1>10, <2>1 DEF StatusUpdated, Unadopted, UnadoptedEarly
<1>11. ASSUME NEW o \in Operators, Resigned(o)
       PROVE  UnadoptedEarly'
  BY <1>3, <1>11, EarlyIs DEF Resigned
<1>12. CASE Bootstrap \/ Annotate
  <2>1. object["statefulset"].exists
    BY <1>2, <1>12 DEF Bootstrap, Annotate, PatroniRuns, Needed
  <2>2. ~Unadopted
    BY <2>1, EarlyIs
  <2>3. object["config"].exists
    BY <1>0, <1>2, <1>12, PatroniWrites DEF Needed, NotForPatroniToCreate
  <2>4. ~Unadopted'
    BY <1>0, <1>12, <2>2, <2>3, PatroniWrites DEF Unadopted
  <2> QED
    BY <2>4 DEF UnadoptedEarly
<1>13. CASE EditSpec \/ BeginUpgrade \/ DeleteInstance \/ Recreate
  <2>1. UNCHANGED <<object, pass, db>>
    BY <1>13 DEF EditSpec, BeginUpgrade, DeleteInstance, Recreate
  <2>2. Unadopted => instance'.stage = "before"
    <3>1. ASSUME EditSpec
          PROVE  instance'.stage = instance.stage
      BY <1>0, <3>1 DEF EditSpec, TypeOK, Instances
    <3>2. BeginUpgrade \/ DeleteInstance => db.exists
      BY DEF BeginUpgrade, DeleteInstance, Lives
    <3>3. ASSUME Recreate
          PROVE  instance'.stage = "before"
      BY <1>0, <3>3 DEF Recreate, TypeOK, Instances
    <3> QED
      BY <1>13, <3>1, <3>2, <3>3, EarlyIs
  <2> QED
    BY <1>3, <2>1, <2>2
<1>14. ASSUME NEW x \in Resources, Vanished(x), Unadopted'
       PROVE  /\ ~object'["statefulset"].exists /\ ~db'.exists
              /\ instance'.stage = "before"
              /\ \A q \in Operators : EarlyPass(pass'[q])
  <2>1. x # "config"
    BY <1>0, <1>14, VanishedIs DEF Unadopted
  <2>2. Unadopted
    BY <1>0, <1>2, <1>14, <2>1, VanishedIs DEF Unadopted
  <2>3. ~object'["statefulset"].exists
    <3>1. CASE x = "statefulset"
      BY <1>0, <1>14, <3>1, VanishedIs
    <3>2. CASE x # "statefulset"
      BY <1>0, <1>2, <1>14, <2>2, <3>2, VanishedIs, EarlyIs
    <3> QED
      BY <3>1, <3>2
  <2>4. ~db'.exists
    <3>1. NoDatabase.exists = FALSE
      BY DEF NoDatabase
    <3>2. db' \in {db, NoDatabase}
      BY <1>0, <1>14, VanishedIs
    <3> QED
      BY <2>2, <3>1, <3>2, EarlyIs
  <2>5. ASSUME NEW q \in Operators
        PROVE  EarlyPass(pass'[q])
    BY <1>0, <1>14, <2>2, VanishedIs, AllFollow, FollowerEarly, EarlyIs
  <2> QED
    BY <1>0, <1>14, <2>2, <2>3, <2>4, <2>5, VanishedIs, EarlyIs
<1>15. ASSUME \/ \E o \in Operators : PutObject(o)
              \/ \E x \in Resources : Vanished(x)
       PROVE  UnadoptedEarly'
  BY <1>9, <1>14, <1>15 DEF UnadoptedEarly, EarlyPass
<1> QED
  BY <1>1, <1>4, <1>5, <1>6, <1>7, <1>8, <1>10, <1>11, <1>12, <1>13, <1>15
     DEF StepCases

-----------------------------------------------------------------------------
(* The annotation of an upgrade.  No pass is ahead of the instance it read.*)

Behind ==
    /\ instance.stage = "before" =>
         \A o \in Operators : pass[o].instance.stage = "before"
    /\ instance.stage = "set" =>
         \A o \in Operators : pass[o].instance.stage \in {"before", "set"}
    /\ instance.stage = "clear" =>
         \A o \in Operators : pass[o].instance.stage # "after"

LEMMA StepBehind ==
    ASSUME CollectedFirst, Reconciled, Behind, [Next]_vars
    PROVE  Behind'
<1>0. TypeOK /\ UidsMeant /\ ObjectsMeant
  BY DEF Reconciled
<1>1. StepCases
  BY <1>0, StepIs
<1>2. \A o \in Operators : Followed(o) => pass'[o].instance = pass[o].instance
  BY DEF Followed
<1>3. ASSUME instance'.stage = instance.stage,
             \A q \in Operators :
                \/ pass'[q].instance.stage \in {pass[q].instance.stage, "before"}
                \/ pass'[q].instance.stage = instance.stage
      PROVE  Behind'
  BY <1>3 DEF Behind
<1>4. Idle.instance.stage = "before"
  BY DEF Idle
<1>5. CASE OnlyPasses /\ UNCHANGED pass
  BY <1>3, <1>5 DEF OnlyPasses
<1>6. ASSUME NEW o \in Operators,
             Ended(o) \/ Begun(o) \/ ObjectRead(o) \/ ObjectLeft(o) \/ PutObject(o)
      PROVE  Behind'
  <2>1. instance' = instance
    BY <1>6 DEF Ended, Begun, ObjectRead, ObjectLeft, PutObject, OnlyPasses
  <2>2. ASSUME NEW q \in Operators, q # o
        PROVE  pass'[q].instance = pass[q].instance
    <3>1. CASE PutObject(o)
      BY <1>0, <1>2, <2>2, <3>1, PutIs
    <3>2. CASE Ended(o) \/ Begun(o) \/ ObjectRead(o) \/ ObjectLeft(o)
      BY <1>0, <2>2, <3>2, TypesGiven DEF Ended, Begun, ObjectRead, ObjectLeft
    <3> QED
      BY <1>6, <3>1, <3>2
  <2>3. \/ pass'[o].instance \in {pass[o].instance, instance}
        \/ pass'[o] = Idle
    <3>1. CASE Ended(o)
      BY <1>0, <3>1, TypesGiven DEF Ended
    <3>2. CASE Begun(o)
      <4>1. pass'[o] = [Idle EXCEPT !.at = "get", !.instance = instance]
        BY <1>0, <3>2, TypesGiven DEF Begun
      <4> QED
        BY <4>1 DEF Idle
    <3>3. CASE ObjectRead(o)
      <4>1. pass'[o] = [pass[o] EXCEPT !.at = "put", !.fresh = TRUE,
                                       !.copy = object[Target(pass[o])]]
        BY <1>0, <3>3, TypesGiven DEF ObjectRead
      <4> QED
        BY <1>0, <4>1, TypesGiven DEF Passes
    <3>4. CASE ObjectLeft(o) \/ PutObject(o)
      <4>1. pass'[o] = Advance(o)
        BY <1>0, <3>4, PutIs, TypesGiven DEF ObjectLeft
      <4> QED
        BY <1>0, <4>1, AdvanceIs
    <3> QED
      BY <1>6, <3>1, <3>2, <3>3, <3>4
  <2>4. \A q \in Operators :
           \/ pass'[q].instance.stage \in {pass[q].instance.stage, "before"}
           \/ pass'[q].instance.stage = instance.stage
    BY <1>4, <2>2, <2>3
  <2> QED
    BY <1>3, <2>1, <2>4
<1>7. ASSUME NEW o \in Operators, StatusUpdated(o)
      PROVE  Behind'
  <2>1. ASSUME NEW q \in Operators
        PROVE  pass'[q].instance.stage \in {pass[q].instance.stage, "before"}
    <3>1. pass'[q] = IF q = o THEN Idle ELSE pass[q]
      BY <1>0, <1>7, TypesGiven DEF StatusUpdated
    <3> QED
      BY <1>4, <3>1
  <2>2. instance.stage \in Stages
    BY <1>0 DEF TypeOK, Instances, Stages
  <2>3. /\ instance.stage = "before" => instance'.stage = "before"
        /\ instance.stage = "set" => instance'.stage = "clear"
        /\ instance.stage \in {"clear", "after"} => instance'.stage = "after"
    BY <1>0, <1>7, StageTyped
  <2> QED
    BY <2>1, <2>2, <2>3 DEF Behind, Stages
<1>8. ASSUME NEW o \in Operators, Resigned(o)
      PROVE  Behind'
  BY <1>3, <1>8 DEF Resigned
<1>9. CASE Bootstrap \/ Annotate
  BY <1>0, <1>2, <1>3, <1>9, PatroniWrites
<1>10. CASE EditSpec \/ DeleteInstance
  <2>1. instance'.stage = instance.stage /\ UNCHANGED pass
    BY <1>0, <1>10 DEF EditSpec, DeleteInstance, TypeOK, Instances
  <2> QED
    BY <1>3, <2>1
<1>11. CASE BeginUpgrade
  <2>1. instance'.stage = "set" /\ instance.stage = "before" /\ UNCHANGED pass
    BY <1>0, <1>11 DEF BeginUpgrade, TypeOK, Instances
  <2> QED
    BY <2>1 DEF Behind
<1>12. CASE Recreate
  <2>1. instance'.stage = "before" /\ UNCHANGED pass /\ \A o \in Operators : pass[o] = Idle
    BY <1>0, <1>12 DEF Recreate, Collected, TypeOK, Instances
  <2> QED
    BY <1>4, <2>1 DEF Behind
<1>13. ASSUME NEW x \in Resources, Vanished(x)
       PROVE  Behind'
  <2>1. \A q \in Operators : Followed(q)
    BY <1>0, <1>13, VanishedIs, AllFollow
  <2> QED
    BY <1>0, <1>2, <1>3, <1>13, <2>1, VanishedIs
<1> QED
  BY <1>1, <1>5, <1>6, <1>7, <1>8, <1>9, <1>10, <1>11, <1>12, <1>13 DEF StepCases

Doing(o, stage) == pass[o].at # "idle" /\ pass[o].instance.stage = stage

(* The passes that were to set the annotation can no longer do so: their   *)
(* processes have lost the lease, and their copies are outdated.           *)
SetsOver ==
    \A o \in Operators :
        Doing(o, "set") => o # elected /\ (pass[o].at = "put" => ~pass[o].fresh)

Annotation == object["config"].data.upgrade

AnnotationMeant ==
    /\ instance.stage = "before" => ~Annotation
    /\ instance.stage = "after" => ~Annotation /\ SetsOver
    /\ \A o, q \in Operators : Doing(o, "clear") /\ Doing(q, "set") => q # elected
    /\ instance.uid # 0 /\ instance.stage = "set" =>
         \A o \in Operators : Doing(o, "set") /\ pass[o].at = "status" => Annotation
    /\ instance.uid # 0 /\ instance.stage = "clear" =>
         /\ ~Annotation => SetsOver
         /\ \A o \in Operators : Doing(o, "clear") /\ pass[o].at = "status" => ~Annotation

(* A pass comes no nearer to setting or clearing the annotation, except    *)
(* that the elected process may read it.                                   *)
Calm(q) ==
    /\ Doing(q, "set")' =>
         /\ Doing(q, "set")
         /\ pass'[q].at = "put" /\ pass'[q].fresh =>
              q = elected \/ (pass[q].at = "put" /\ pass[q].fresh)
    /\ Doing(q, "clear")' => Doing(q, "clear")
    /\ (Doing(q, "set")' \/ Doing(q, "clear")') /\ pass'[q].at = "status" =>
         pass[q].at = "status"

LEMMA FollowerCalm ==
    ASSUME NEW q \in Operators, Followed(q)
    PROVE  Calm(q)
BY DEF Followed, Calm, Doing

LEMMA IdleCalm ==
    ASSUME NEW q \in Operators, pass'[q] = Idle
    PROVE  Calm(q)
BY DEF Calm, Doing, Idle

(* A pass of the chain does not turn into one of an upgrade.               *)
LEMMA ChainCalm ==
    ASSUME TypeOK, NEW o \in Operators, ~Annotates(pass[o]), pass'[o] = Advance(o)
    PROVE  Calm(o)
<1>1. ~Annotates(pass'[o]) \/ pass'[o] = Idle
  BY AdvanceIs DEF Annotates
<1>2. CASE pass'[o] = Idle
  BY <1>2, IdleCalm
<1>3. CASE ~Annotates(pass'[o])
  BY <1>3 DEF Calm, Doing, Annotates
<1> QED
  BY <1>1, <1>2, <1>3

LEMMA CalmKept ==
    ASSUME AnnotationMeant, \A q \in Operators : Calm(q),
           instance'.stage = instance.stage, instance'.uid \in {0, instance.uid},
           elected' = elected, Annotation' = Annotation
    PROVE  AnnotationMeant'
<1>1. SetsOver => SetsOver'
  BY DEF SetsOver, Calm
<1>2. ASSUME NEW o \in Operators, NEW q \in Operators, Doing(o, "clear")', Doing(q, "set")'
      PROVE  q # elected'
  BY <1>2 DEF AnnotationMeant, Calm
<1>3. ASSUME instance'.uid # 0, instance'.stage = "set",
             NEW o \in Operators, Doing(o, "set")', pass'[o].at = "status"
      PROVE  Annotation'
  BY <1>3 DEF AnnotationMeant, Calm
<1>4. ASSUME instance'.uid # 0, instance'.stage = "clear"
      PROVE  /\ ~Annotation' => SetsOver'
             /\ \A o \in Operators : Doing(o, "clear")' /\ pass'[o].at = "status"
                                       => ~Annotation'
  <2>1. ~Annotation' => SetsOver'
    BY <1>1, <1>4 DEF AnnotationMeant
  <2>2. ASSUME NEW o \in Operators, Doing(o, "clear")', pass'[o].at = "status"
        PROVE  ~Annotation'
    BY <1>4, <2>2 DEF AnnotationMeant, Calm
  <2> QED
    BY <2>1, <2>2
<1>5. /\ instance'.stage = "before" => ~Annotation'
      /\ instance'.stage = "after" => ~Annotation' /\ SetsOver'
  BY <1>1 DEF AnnotationMeant
<1> QED
  BY <1>2, <1>3, <1>4, <1>5 DEF AnnotationMeant

(* A process takes up a pass of the stage the instance is in.              *)
LEMMA BegunKeeps ==
    ASSUME Reconciled, Behind, AnnotationMeant, NEW o \in Operators, Begun(o)
    PROVE  AnnotationMeant'
<1> DEFINE p == [Idle EXCEPT !.at = "get", !.instance = instance]
<1>0. TypeOK
  BY DEF Reconciled
<1>1. p.at = "get" /\ p.instance = instance
  BY DEF Idle
<1>2. pass' = [pass EXCEPT ![o] = p] /\ OnlyPasses /\ o = elected /\ pass[o] = Idle
  BY DEF Begun
<1> HIDE DEF p
<1>3. pass'[o] = p /\ \A q \in Operators : q # o => pass'[q] = pass[q]
  BY <1>0, <1>2, TypesGiven
<1>4. \A q \in Operators, stage \in Stages : q # o => (Doing(q, stage)' <=> Doing(q, stage))
  BY <1>3 DEF Doing
<1>5. \A stage \in Stages : Doing(o, stage)' => instance.stage = stage
  BY <1>1, <1>3 DEF Doing
<1>6. Annotation' = Annotation /\ instance' = instance /\ elected' = elected
  BY <1>2 DEF OnlyPasses, Annotation
<1>7. {"set", "clear"} \subseteq Stages
  BY DEF Stages
<1>8. instance.stage # "set" /\ SetsOver => SetsOver'
  BY <1>3, <1>4, <1>5, <1>6, <1>7 DEF SetsOver
<1>9. ASSUME NEW c \in Operators, NEW q \in Operators, Doing(c, "clear")', Doing(q, "set")'
      PROVE  q # elected'
  <2>1. CASE q = o
    <3>1. instance.stage = "set"
      BY <1>5, <1>7, <1>9, <2>1
    <3>2. c # o /\ Doing(c, "clear")
      BY <1>4, <1>5, <1>7, <1>9, <3>1
    <3> QED
      BY <3>1, <3>2 DEF Behind, Doing
  <2>2. CASE q # o
    BY <1>2, <1>6, <2>2
  <2> QED
    BY <2>1, <2>2
<1>10. \A q \in Operators : pass'[q].at = "status" => q # o
  BY <1>1, <1>3
<1>11. ASSUME instance.uid # 0, instance.stage = "set",
              NEW q \in Operators, Doing(q, "set")', pass'[q].at = "status"
       PROVE  Annotation
  BY <1>3, <1>4, <1>7, <1>10, <1>11 DEF AnnotationMeant
<1>12. ASSUME instance.uid # 0, instance.stage = "clear",
              NEW q \in Operators, Doing(q, "clear")', pass'[q].at = "status"
       PROVE  ~Annotation
  BY <1>3, <1>4, <1>7, <1>10, <1>12 DEF AnnotationMeant
<1> QED
  BY <1>6, <1>8, <1>9, <1>11, <1>12 DEF AnnotationMeant

(* A process is elected once it has no pass left.                          *)
LEMMA ResignedKeeps ==
    ASSUME Reconciled, AnnotationMeant, NEW o \in Operators, Resigned(o)
    PROVE  AnnotationMeant'
<1>1. /\ pass' = pass /\ instance' = instance /\ elected' = o /\ pass[o] = Idle
      /\ Annotation' = Annotation
  BY DEF Resigned, Annotation
<1>2. \A stage \in Stages : ~Doing(o, stage)
  BY <1>1 DEF Doing, Idle
<1>3. \A q \in Operators, stage \in Stages : Doing(q, stage)' <=> Doing(q, stage)
  BY <1>1 DEF Doing
<1>4. {"set", "clear"} \subseteq Stages
  BY DEF Stages
<1>5. SetsOver => SetsOver'
  BY <1>1, <1>2, <1>3, <1>4 DEF SetsOver
<1>6. \A c, q \in Operators : Doing(c, "clear")' /\ Doing(q, "set")' => q # elected'
  BY <1>1, <1>2, <1>3, <1>4
<1> QED
  BY <1>1, <1>3, <1>4, <1>5, <1>6 DEF AnnotationMeant

(* The actor goes on with the same instance, no longer at its write.       *)
LEMMA WriterIs ==
    ASSUME TypeOK, UidsMeant, ObjectsMeant, NEW o \in Operators, PutObject(o)
    PROVE  /\ pass'[o].at # "put"
           /\ \A stage \in Stages : Doing(o, stage)' => Doing(o, stage)
<1>1. pass'[o] = Advance(o) /\ pass[o].at = "put"
  BY PutIs DEF PutObject
<1>2. Idle.at = "idle"
  BY DEF Idle
<1> QED
  BY <1>1, <1>2, AdvanceIs DEF Doing

(* The annotation is set: no pass has cleared it, or this one's copy would *)
(* be outdated.                                                            *)
LEMMA SetKeeps ==
    ASSUME Reconciled, Behind, AnnotationMeant, NEW o \in Operators, PutObject(o),
           pass[o].instance.stage = "set"
    PROVE  AnnotationMeant'
<1>0. TypeOK /\ UidsMeant /\ ObjectsMeant
  BY DEF Reconciled
<1>1. /\ pass[o].at = "put" /\ pass[o].fresh /\ Annotation'
      /\ \A q \in Operators : q # o => Followed(q)
  BY <1>0, PutIs DEF PutObject, Annotates, Annotation
<1>2. instance' = instance /\ elected' = elected
  BY DEF PutObject
<1>3. Doing(o, "set") /\ ~SetsOver
  BY <1>1 DEF SetsOver, Doing
<1>4. instance.stage \notin {"before", "after"}
  BY <1>3 DEF Behind, AnnotationMeant, Doing
<1>5. ASSUME NEW q \in Operators
      PROVE  /\ Doing(q, "set")' => Doing(q, "set")
             /\ Doing(q, "clear")' => Doing(q, "clear")
             /\ Doing(q, "clear")' /\ pass'[q].at = "status" => pass[q].at = "status"
  <2>1. CASE q = o
    <3>1. Doing(o, "set")' => Doing(o, "set")
      BY <1>3
    <3>2. ~Doing(o, "clear")'
      BY <1>0, WriterIs DEF Doing, Stages
    <3> QED
      BY <2>1, <3>1, <3>2
  <2>2. CASE q # o
    BY <1>1, <2>2 DEF Followed, Doing
  <2> QED
    BY <2>1, <2>2
<1>6. \A c, q \in Operators : Doing(c, "clear")' /\ Doing(q, "set")' => q # elected'
  BY <1>2, <1>5 DEF AnnotationMeant
<1>7. ASSUME instance.uid # 0, instance.stage = "clear",
             NEW q \in Operators, Doing(q, "clear")', pass'[q].at = "status"
      PROVE  FALSE
  BY <1>3, <1>5, <1>7 DEF AnnotationMeant
<1> QED
  BY <1>1, <1>2, <1>4, <1>6, <1>7 DEF AnnotationMeant

(* The annotation is cleared: whoever was still to set it has lost the     *)
(* lease, and now has an outdated copy.                                    *)
LEMMA ClearKeeps ==
    ASSUME Reconciled, Behind, AnnotationMeant, NEW o \in Operators, PutObject(o),
           pass[o].instance.stage = "clear"
    PROVE  AnnotationMeant'
<1>0. TypeOK /\ UidsMeant /\ ObjectsMeant
  BY DEF Reconciled
<1>1. /\ pass[o].at = "put" /\ Annotation' = FALSE
      /\ \A q \in Operators : q # o => Followed(q)
  BY <1>0, PutIs DEF PutObject, Annotates, Annotation
<1>2. instance' = instance /\ elected' = elected
  BY DEF PutObject
<1>3. Doing(o, "clear")
  BY <1>1 DEF Doing
<1>4. instance.stage \notin {"before", "set"}
  BY <1>3 DEF Behind, Doing
<1>5. ASSUME NEW q \in Operators
      PROVE  /\ Doing(q, "set")' => Doing(q, "set") /\ q # o
             /\ Doing(q, "clear")' => Doing(q, "clear")
  <2>1. CASE q = o
    <3>1. ~Doing(o, "set")'
      BY <1>0, WriterIs DEF Doing, Stages
    <3> QED
      BY <1>3, <2>1, <3>1
  <2>2. CASE q # o
    BY <1>1, <2>2 DEF Followed, Doing
  <2> QED
    BY <2>1, <2>2
<1>6. \A c, q \in Operators : Doing(c, "clear")' /\ Doing(q, "set")' => q # elected'
  BY <1>2, <1>5 DEF AnnotationMeant
<1>7. ASSUME instance.uid # 0 \/ instance.stage = "after"
      PROVE  SetsOver'
  <2> SUFFICES ASSUME NEW q \in Operators, Doing(q, "set")'
               PROVE  q # elected' /\ (pass'[q].at = "put" => ~pass'[q].fresh)
    BY DEF SetsOver
  <2>1. Doing(q, "set") /\ q # o /\ Followed(q)
    BY <1>1, <1>5
  <2>2. q # elected'
    BY <1>2, <1>3, <2>1 DEF AnnotationMeant
  <2>3. ASSUME pass'[q].at = "put", pass'[q].fresh
        PROVE  FALSE
    <3>1. pass[q].at = "put" /\ pass[q].fresh
      BY <2>1, <2>3 DEF Followed
    <3>2. Target(pass[q]) = "config"
      BY <2>1 DEF Doing, Target, Annotates
    <3>3. object'["config"] = object["config"]
      BY <2>1, <2>3, <3>1, <3>2 DEF Followed
    <3>4. ~Annotation
      BY <1>1, <3>3 DEF Annotation
    <3>5. instance.stage \in {"clear", "after"}
      BY <1>0, <1>4 DEF TypeOK, Instances
    <3>6. SetsOver
      BY <1>7, <3>4, <3>5 DEF AnnotationMeant
    <3> QED
      BY <2>1, <3>1, <3>6 DEF SetsOver
  <2> QED
    BY <2>2, <2>3
<1> QED
  BY <1>1, <1>2, <1>4, <1>6, <1>7 DEF AnnotationMeant

(* The next stage of the upgrade is persisted.                             *)
LEMMA StatusKeeps ==
    ASSUME Reconciled, Behind, AnnotationMeant, NEW o \in Operators, StatusUpdated(o)
    PROVE  AnnotationMeant'
<1>0. TypeOK /\ UidsMeant
  BY DEF Reconciled
<1>1. /\ Annotation' = Annotation /\ elected' = elected
      /\ pass[o].at = "status" /\ pass[o].instance = instance
      /\ pass' = [pass EXCEPT ![o] = Idle]
  BY DEF StatusUpdated, Annotation
<1>2. instance.uid # 0 /\ instance'.uid = instance.uid
  BY <1>0, <1>1, StageTyped DEF UidsMeant, Current, TypeOK, Idle
<1>3. pass'[o] = Idle /\ \A q \in Operators : q # o => pass'[q] = pass[q]
  BY <1>0, <1>1, TypesGiven
<1>4. ASSUME NEW q \in Operators
      PROVE  /\ \A stage \in Stages : Doing(q, stage)' => Doing(q, stage)
             /\ pass'[q].at # "idle" => pass'[q] = pass[q]
  <2>1. Idle.at = "idle"
    BY DEF Idle
  <2> QED
    BY <1>3, <2>1 DEF Doing
<1>5. {"set", "clear"} \subseteq Stages
  BY DEF Stages
<1>6. SetsOver => SetsOver'
  BY <1>1, <1>4, <1>5 DEF SetsOver, Doing
<1>7. \A c, q \in Operators : Doing(c, "clear")' /\ Doing(q, "set")' => q # elected'
  BY <1>1, <1>4, <1>5 DEF AnnotationMeant
<1>8. CASE instance.stage = "before"
  <2>1. instance'.stage = "before"
    BY <1>0, <1>8, StageTyped
  <2> QED
    BY <1>1, <1>7, <1>8, <2>1 DEF AnnotationMeant
<1>9. CASE instance.stage = "set"
  <2>1. instance'.stage = "clear"
    BY <1>0, <1>9, StageTyped
  <2>2. Annotation
    BY <1>1, <1>2, <1>9 DEF AnnotationMeant, Doing
  <2>3. \A q \in Operators : ~Doing(q, "clear")'
    BY <1>4, <1>5, <1>9 DEF Behind, Doing
  <2> QED
    BY <1>1, <1>7, <2>1, <2>2, <2>3 DEF AnnotationMeant
<1>10. CASE instance.stage = "clear"
  <2>1. instance'.stage = "after"
    BY <1>0, <1>10, StageTyped
  <2>2. ~Annotation
    BY <1>1, <1>2, <1>10 DEF AnnotationMeant, Doing
  <2>3. SetsOver
    BY <1>2, <1>10, <2>2 DEF AnnotationMeant
  <2> QED
    BY <1>1, <1>6, <1>7, <2>1, <2>2, <2>3 DEF AnnotationMeant
<1>11. CASE instance.stage = "after"
  <2>1. instance'.stage = "after"
    BY <1>0, <1>11, StageTyped
  <2> QED
    BY <1>1, <1>6, <1>7, <1>11, <2>1 DEF AnnotationMeant
<1> QED
  BY <1>0, <1>8, <1>9, <1>10, <1>11 DEF TypeOK, Instances

(* The next cluster starts with a ConfigMap of its own, or with one that   *)
(* no upgrade has annotated.                                               *)
LEMMA RecreatedKeeps ==
    ASSUME CollectedFirst, Reconciled, UnadoptedEarly, AnnotationMeant, Recreate
    PROVE  AnnotationMeant'
<1>0. TypeOK /\ UidsMeant /\ ObjectsMeant
  BY DEF Reconciled
<1>1. /\ instance.uid = 0 /\ Collected /\ instance'.stage = "before"
      /\ UNCHANGED <<object, pass, elected>>
  BY <1>0 DEF Recreate, TypeOK, Instances
<1>2. \A q \in Operators, stage \in Stages : ~Doing(q, stage)'
  <2>1. Idle.at = "idle"
    BY DEF Idle
  <2> QED
    BY <1>1, <2>1 DEF Collected, Doing
<1>3. "config" \in Resources
  BY ResourcesAssumption
<1>4. object["config"] = NoObject \/ object["config"].owners = {}
  BY <1>0, <1>1, <1>3, NothingLeft
<1>5. ~object["config"].exists => object["config"] = NoObject
  BY <1>0, <1>3 DEF ObjectsMeant, Sound
<1>6. NoObject.data.upgrade = FALSE
  BY DEF NoObject, Blank
<1>7. ~Annotation
  <2>1. CASE Unadopted
    BY <2>1, EarlyIs DEF AnnotationMeant
  <2>2. CASE ~Unadopted
    BY <1>4, <1>5, <1>6, <2>2 DEF Unadopted, Annotation
  <2> QED
    BY <2>1, <2>2
<1>8. ~Annotation'
  BY <1>1, <1>7 DEF Annotation
<1> QED
  BY <1>1, <1>2, <1>8 DEF AnnotationMeant, Stages

(* Patroni's ConfigMap is collected only after the cluster was deleted.    *)
LEMMA VanishedKeeps ==
    ASSUME Reconciled, AnnotationMeant, NEW x \in Resources, Vanished(x)
    PROVE  AnnotationMeant'
<1>0. TypeOK /\ UidsMeant /\ ObjectsMeant
  BY DEF Reconciled
<1>1. \A q \in Operators : Calm(q)
  BY <1>0, VanishedIs, AllFollow, FollowerCalm
<1>2. instance' = instance /\ elected' = elected
  BY <1>0, VanishedIs
<1>3. CASE x # "config"
  <2>1. Annotation' = Annotation
    BY <1>0, <1>3, VanishedIs, ResourcesAssumption DEF Annotation
  <2> QED
    BY <1>1, <1>2, <2>1, CalmKept
<1>4. CASE x = "config"
  <2>1. instance.uid = 0 /\ object'["config"] = NoObject
    BY <1>0, <1>4, VanishedIs
  <2>2. NoObject.data.upgrade = FALSE
    BY DEF NoObject, Blank
  <2>3. ~Annotation'
    BY <2>1, <2>2 DEF Annotation
  <2>4. SetsOver => SetsOver'
    BY <1>1, <1>2 DEF SetsOver, Calm
  <2>5. \A c, q \in Operators : Doing(c, "clear")' /\ Doing(q, "set")' => q # elected'
    BY <1>1, <1>2 DEF AnnotationMeant, Calm
  <2> QED
    BY <1>2, <2>1, <2>3, <2>4, <2>5 DEF AnnotationMeant
<1> QED
  BY <1>3, <1>4

LEMMA StepAnnotation ==
    ASSUME CollectedFirst, ~Lingering, Reconciled, UnadoptedEarly, Behind, AnnotationMeant,
           [Next]_vars
    PROVE  AnnotationMeant'
<1>0. TypeOK /\ UidsMeant /\ ObjectsMeant
  BY DEF Reconciled
<1>1. StepCases
  BY <1>0, StepIs
<1>2. CASE OnlyPasses /\ UNCHANGED pass
  BY <1>2, NobodyMoves, FollowerCalm, CalmKept DEF OnlyPasses, Annotation
<1>3. ASSUME NEW o \in Operators, OnlyPasses, Calm(o), NEW p,
             pass' = [pass EXCEPT ![o] = p]
      PROVE  AnnotationMeant'
  <2>1. \A q \in Operators : Calm(q)
    BY <1>0, <1>3, OthersFollow, FollowerCalm DEF OnlyPasses
  <2> QED
    BY <1>3, <2>1, CalmKept DEF OnlyPasses, Annotation
<1>4. ASSUME NEW o \in Operators, Ended(o)
      PROVE  AnnotationMeant'
  <2>1. pass'[o] = Idle
    BY <1>0, <1>4, TypesGiven DEF Ended
  <2> QED
    BY <1>3, <1>4, <2>1, IdleCalm DEF Ended
<1>5. ASSUME NEW o \in Operators, ObjectRead(o)
      PROVE  AnnotationMeant'
  <2> DEFINE p == [pass[o] EXCEPT !.at = "put", !.fresh = TRUE,
                                  !.copy = object[Target(pass[o])]]
  <2>1. p.at = "put" /\ p.instance = pass[o].instance
    BY <1>0, TypesGiven DEF Passes
  <2>2. /\ pass' = [pass EXCEPT ![o] = p] /\ OnlyPasses
        /\ pass[o].at = "get" /\ o = elected
    BY <1>5 DEF ObjectRead, MayGoOn
  <2> HIDE DEF p
  <2>3. pass'[o] = p
    BY <1>0, <2>2, TypesGiven
  <2>4. Calm(o)
    BY <2>1, <2>2, <2>3 DEF Calm, Doing
  <2> QED
    BY <1>3, <2>2, <2>4
<1>6. ASSUME NEW o \in Operators, ObjectLeft(o)
      PROVE  AnnotationMeant'
  <2>1. pass'[o] = Advance(o) /\ ~Annotates(pass[o])
    BY <1>0, <1>6, TypesGiven DEF ObjectLeft, LeavesAlone
  <2> QED
    BY <1>0, <1>3, <1>6, <2>1, ChainCalm DEF ObjectLeft
<1>7. ASSUME NEW o \in Operators, PutObject(o)
      PROVE  AnnotationMeant'
  <2>1. CASE ~Annotates(pass[o])
    <3>1. pass'[o] = Advance(o) /\ \A q \in Operators : q # o => Followed(q)
      BY <1>0, <1>7, PutIs
    <3>2. \A q \in Operators : Calm(q)
      BY <1>0, <2>1, <3>1, ChainCalm, FollowerCalm
    <3>3. Annotation' = Annotation
      <4> DEFINE x == Target(pass[o])
      <4>1. /\ \A y \in Resources : y # x => object'[y] = object[y]
            /\ x = "config" => object'[x].data = object[x].data
        BY <1>0, <1>7, <2>1, PutIs
      <4> HIDE DEF x
      <4> QED
        BY <4>1, ResourcesAssumption DEF Annotation
    <3>4. instance' = instance /\ elected' = elected
      BY <1>7 DEF PutObject
    <3> QED
      BY <3>2, <3>3, <3>4, CalmKept
  <2>2. CASE Annotates(pass[o])
    BY <1>7, <2>2, SetKeeps, ClearKeeps DEF Annotates
  <2> QED
    BY <2>1, <2>2
<1>8. CASE Bootstrap \/ Annotate
  <2>1. /\ \A q \in Operators : Calm(q)
        /\ Annotation' = Annotation /\ instance' = instance /\ elected' = elected
    BY <1>0, <1>8, PatroniWrites, FollowerCalm DEF Annotation
  <2> QED
    BY <2>1, CalmKept
<1>9. CASE EditSpec \/ DeleteInstance
  <2>1. /\ instance'.stage = instance.stage /\ instance'.uid \in {0, instance.uid}
        /\ UNCHANGED <<object, pass, elected>>
    BY <1>0, <1>9 DEF EditSpec, DeleteInstance, TypeOK, Instances
  <2> QED
    BY <2>1, NobodyMoves, FollowerCalm, CalmKept DEF Annotation
<1>10. CASE BeginUpgrade
  <2>1. /\ instance'.stage = "set" /\ instance.stage = "before"
        /\ UNCHANGED <<object, pass, elected>>
    BY <1>0, <1>10 DEF BeginUpgrade, TypeOK, Instances
  <2>2. \A q \in Operators : ~Doing(q, "set")' /\ ~Doing(q, "clear")'
    BY <2>1 DEF Behind, Doing
  <2> QED
    BY <2>1, <2>2 DEF AnnotationMeant
<1> QED
  BY <1>1, <1>2, <1>4, <1>5, <1>6, <1>7, <1>8, <1>9, <1>10,
     BegunKeeps, StatusKeeps, ResignedKeeps, RecreatedKeeps, VanishedKeeps
     DEF StepCases

LEMMA InitAnnotation == Init => UnadoptedEarly /\ Behind /\ AnnotationMeant
<1> SUFFICES ASSUME Init
             PROVE  UnadoptedEarly /\ Behind /\ AnnotationMeant
  OBVIOUS
<1>1. /\ \A o \in Operators : pass[o] = Idle
      /\ instance.stage = "before" /\ ~db.exists
  BY DEF Init, NoDatabase
<1>2. /\ Idle.at = "idle" /\ Idle.instance.stage = "before"
      /\ NoObject.exists = FALSE /\ NoObject.data.upgrade = FALSE
  BY DEF Idle, NoObject, Blank
<1>3. Prepared({}).data.upgrade = FALSE
  BY DEF Prepared, NoObject, Blank
<1>4. object["statefulset"] = NoObject
      /\ object["config"] \in {NoObject, Prepared({})}
  BY ResourcesAssumption DEF Init
<1>5. UnadoptedEarly
  BY <1>1, <1>2, <1>4, IdleEarly DEF UnadoptedEarly
<1>6. Behind
  BY <1>1, <1>2 DEF Behind
<1>7. ~Annotation
  BY <1>2, <1>3, <1>4 DEF Annotation
<1>8. AnnotationMeant
  BY <1>1, <1>2, <1>7 DEF AnnotationMeant, Doing
<1> QED
  BY <1>5, <1>6, <1>8

(* Once an upgrade has removed its annotation from Patroni's ConfigMap it  *)
(* does not come back, and no cluster starts with one, whichever process   *)
(* still had a pass under way when the lease changed hands: a process that *)
(* has lost it makes no further call, and the one it had under way carries *)
(* a version that is outdated.                                             *)
THEOREM AnnotationStaysCleared ==
    ASSUME CollectedFirst, ~Lingering
    PROVE  Spec => []UpgradeCleared
<1>1. Init => UnadoptedEarly /\ Behind /\ AnnotationMeant
  BY InitAnnotation
<1>2. Reconciled /\ UnadoptedEarly /\ Behind /\ AnnotationMeant /\ [Next]_vars
        => (UnadoptedEarly /\ Behind /\ AnnotationMeant)'
  BY StepEarly, StepBehind, StepAnnotation
<1>3. AnnotationMeant => UpgradeCleared
  BY DEF AnnotationMeant, UpgradeCleared, Annotation
<1> QED
  BY <1>1, <1>2, <1>3, AlwaysReconciled, PTL DEF Spec
====
