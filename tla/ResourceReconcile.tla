-------------------------- MODULE ResourceReconcile --------------------------
(***************************************************************************)
(* The ordinary chain, call by call: for each resource of the cluster the  *)
(* operator reads the object and then creates it, adopts it, rewrites it   *)
(* or leaves it alone, while Patroni annotates its ConfigMap, the user     *)
(* edits, deletes and recreates the cluster, objects vanish, Kubernetes    *)
(* collects what has lost its owner, and a former leader of the operator's *)
(* election still ends its pass.                                           *)
(*                                                                         *)
(* UpgradeOperator takes a read of Patroni's ConfigMap and the update that *)
(* follows for one step; here they are two, and an upgrade is reduced to   *)
(* one annotation that is set and, in a later pass, cleared.               *)
(*                                                                         *)
(* A definition marked (variant) is a faulty form of the one it precedes,  *)
(* used by no specification: README.md, "Sensitivity".                     *)
(***************************************************************************)
EXTENDS Integers, Sequences, SequencesExt

CONSTANTS
    Resources,     \* the resources an instance has, of FullChain
    Operators,     \* the operator's processes, one of them elected
    MaxEdits,      \* how many edits of spec
    MaxWrites,     \* how many annotations Patroni writes
    MaxEvents,     \* how many aborted passes, elections, edits, upgrades and deletions
    MaxRecreated,  \* how often the user recreates the cluster
    Lingering,     \* does a process that has lost the lease go on with its pass?
    CollectedFirst \* does the user wait until the old one is collected?

-----------------------------------------------------------------------------
(* The reconcilers: the objects of each, in order; whether one that exists *)
(* is only adopted (if it has no owner), rewritten, or patched; whether    *)
(* what is written depends on what a user may edit.                        *)

Adopted(x)   == [name |-> x, exists |-> "adopted", varies |-> FALSE]
Rewritten(x) == [name |-> x, exists |-> "rewritten", varies |-> FALSE]
Following(x) == [name |-> x, exists |-> "rewritten", varies |-> TRUE]

PVCs            == <<[name |-> "claims", exists |-> "patched", varies |-> TRUE]>>
Secrets         == <<Adopted("secret")>>
ConfigMaps      == <<Adopted("config"), Adopted("leader"),
                     Adopted("sync"), Adopted("failover")>>
RBAC            == <<Adopted("account"), Rewritten("role"), Rewritten("rolebinding")>>
Services        == <<Following("service"), Rewritten("headless")>>
StatefulSets    == <<Following("statefulset")>>
NetworkPolicies == <<Following("networkpolicy")>>
PDBs            == <<Rewritten("pdb")>>

FullChain ==
    PVCs \o Secrets \o ConfigMaps \o RBAC
    \o Services \o StatefulSets \o NetworkPolicies \o PDBs

(* The places in the chain of the resources an instance has, in order.     *)
Places    == {i \in DOMAIN FullChain : FullChain[i].name \in Resources}
Beyond(i) == {j \in Places : j > i}

ASSUME ResourcesAssumption ==
    /\ {"claims", "secret", "config", "statefulset"} \subseteq Resources
    /\ Resources \subseteq {x.name : x \in Range(FullChain)}
ASSUME BoundsAssumption ==
    /\ MaxEdits \in Nat /\ MaxWrites \in Nat \ {0} /\ MaxEvents \in Nat
    /\ MaxRecreated \in Nat /\ Lingering \in BOOLEAN /\ CollectedFirst \in BOOLEAN
ASSUME OperatorsAssumption == Operators # {}

(* Patroni may not create its ConfigMaps: the role's verbs are get, list,  *)
(* watch, patch and update.                                                *)
NotForPatroniToCreate == {"config", "leader"}

(* What a pod needs to start Patroni.                                      *)
Needed == Resources \cap ({"claims", "secret", "account", "role", "rolebinding",
                           "statefulset"} \cup NotForPatroniToCreate)

(* What the user may delete without losing data or passwords.              *)
Replaceable == Resources \ {"claims", "secret", "config"}

VARIABLES
    instance,  \* the PatroniPostgres object
    object,    \* the object of each resource
    db,        \* the database in the claims
    elected,   \* the process that holds the lease
    queued,    \* is the cluster in its work queue?
    pass,      \* what each process is doing
    passwords, \* how many were generated
    recreated, \* how often the cluster was recreated
    events     \* how many of the bounded events have happened

vars == <<instance, object, db, elected, queued, pass, passwords, recreated, events>>

-----------------------------------------------------------------------------
(* Objects.  Owners are instances, by their uid, or Foreign.               *)

Foreign == 0
Uids    == 1 .. MaxRecreated + 1

(* What only one resource has: the secret's password, Patroni's latest     *)
(* annotation of config and the operator's.                                *)
Blank    == [password |-> 0, patroni |-> 0, upgrade |-> FALSE]
NoObject == [exists |-> FALSE, owners |-> {}, spec |-> 0, data |-> Blank]
Prepared(owners) == [NoObject EXCEPT !.exists = TRUE, !.owners = owners]

Objects == [exists : BOOLEAN, owners : SUBSET (Uids \cup {Foreign}), spec : 0 .. MaxEdits,
            data : [password : Nat, patroni : 0 .. MaxWrites, upgrade : BOOLEAN]]

(* There is no object of the cluster: its uid is 0.                        *)
Instances == [uid : Uids \cup {0}, spec : 0 .. MaxEdits,
              stage : {"before", "set", "clear", "after"}]

Idle == [at |-> "idle", i |-> 1, instance |-> [uid |-> 0, spec |-> 0, stage |-> "before"],
         copy |-> NoObject, fresh |-> FALSE]

NoDatabase == [exists |-> FALSE, password |-> 0, patroni |-> 0]

TypeOK ==
    /\ instance \in Instances
    /\ object \in [Resources -> Objects]
    /\ db \in [exists : BOOLEAN, password : Nat, patroni : 0 .. MaxWrites]
    /\ elected \in Operators
    /\ queued \in BOOLEAN
    /\ pass \in [Operators -> [at : {"idle", "get", "put", "status"}, i : Places,
                               instance : Instances, copy : Objects, fresh : BOOLEAN]]
    /\ passwords \in Nat
    /\ recreated \in 0 .. MaxRecreated
    /\ events \in 0 .. MaxEvents

(* A new cluster; its secret and ConfigMap may have been prepared by the   *)
(* user, the secret by a controller of theirs.                             *)
Init ==
    /\ instance = [uid |-> 1, spec |-> 0, stage |-> "before"]
    /\ \E secret \in {NoObject, Prepared({}), Prepared({Foreign})},
          config \in {NoObject, Prepared({})} :
         object = [[x \in Resources |-> NoObject]
                   EXCEPT !["secret"] = secret, !["config"] = config]
    /\ db = NoDatabase
    /\ elected = CHOOSE o \in Operators : TRUE
    /\ queued = TRUE
    /\ pass = [o \in Operators |-> Idle]
    /\ passwords = 0
    /\ recreated = 0
    /\ events = 0

(* A pass of an upgrade sets or clears its annotation, any other one takes *)
(* the chain.                                                              *)
Annotates(p) == p.instance.stage \in {"set", "clear"}
Target(p) == IF Annotates(p) THEN "config" ELSE FullChain[p.i].name

(* The API server refuses an update of anything but the latest version: a  *)
(* copy is fresh as long as nobody has changed its object.                 *)
Outdated(x) ==
    [o \in Operators |->
        IF pass[o].at = "put" /\ Target(pass[o]) = x THEN [pass[o] EXCEPT !.fresh = FALSE]
        ELSE pass[o]]

(* Someone else than a pass of the operator sets an object.                *)
SetObject(x, value) ==
    /\ object' = [object EXCEPT ![x] = value]
    /\ pass' = Outdated(x)

Event == events < MaxEvents /\ events' = events + 1

-----------------------------------------------------------------------------
(* The operator's work queue.                                              *)

(* A request for a cluster that is gone is dropped.                        *)
TakeRequest(o) ==
    /\ o = elected /\ queued /\ pass[o] = Idle
    /\ queued' = FALSE
    /\ pass' = IF instance.uid = 0 THEN pass
               ELSE [pass EXCEPT ![o] = [Idle EXCEPT !.at = "get", !.instance = instance]]
    /\ UNCHANGED <<instance, object, db, elected, passwords, recreated, events>>

(* A pass that fails is queued again, by a process that still may.         *)
Failed(o, passes) ==
    /\ pass' = [passes EXCEPT ![o] = Idle]
    /\ queued' = (queued \/ o = elected)

(* Any call of a pass fails, or the process ends and another one starts.   *)
Abort(o) ==
    /\ o = elected /\ pass[o] # Idle
    /\ Event
    /\ Failed(o, pass)
    /\ UNCHANGED <<instance, object, db, elected, passwords, recreated>>

(* A process that has lost the lease exits, but the call it has under way  *)
(* may still be carried out.  The next one starts with a request for every *)
(* cluster.                                                                *)
Takeover(o) ==
    /\ o # elected /\ pass[o] = Idle
    /\ Event
    /\ elected' = o
    /\ queued' = TRUE
    /\ UNCHANGED <<instance, object, db, pass, passwords, recreated>>

Exit(o) ==
    /\ o # elected /\ pass[o] # Idle
    /\ pass' = [pass EXCEPT ![o] = Idle]
    /\ UNCHANGED <<instance, object, db, elected, queued, passwords, recreated, events>>

(* Informers repeat what they know from time to time; the predicates let   *)
(* the repeated events of claims and StatefulSets pass.                    *)
Resync ==
    /\ object["claims"].exists \/ object["statefulset"].exists
    /\ queued' = TRUE
    /\ UNCHANGED <<instance, object, db, elected, pass, passwords, recreated, events>>

-----------------------------------------------------------------------------
(* A pass of the chain.                                                    *)

(* context.SetMeta: the reference to the instance of this name is replaced *)
(* by one to this instance, other owners stay.                             *)
SetMeta(owners, uid) == (owners \cap {Foreign}) \cup {uid}

(* The setters of configmap.go change an annotation in their copy.         *)
Annotated(p) == [p.copy EXCEPT !.data.upgrade = p.instance.stage = "set"]

(* genSecret: a password that is no other's.                               *)
NewSecret == [Blank EXCEPT !.password = passwords + 1]

(* The chain fills in the copy, or a new object, from the spec it has read.*)
Filled(p) ==
    [exists |-> TRUE,
     owners |-> SetMeta(p.copy.owners, p.instance.uid),
     spec   |-> IF FullChain[p.i].varies THEN p.instance.spec ELSE 0,
     data   |-> IF Target(p) = "secret" /\ ~p.copy.exists THEN NewSecret ELSE p.copy.data]

MayGoOn(o) == o = elected \/ Lingering

GetObject(o) ==
    /\ pass[o].at = "get" /\ MayGoOn(o)
    /\ LET copy == object[Target(pass[o])] IN
       IF Annotates(pass[o]) /\ ~copy.exists
       THEN Failed(o, pass)
       ELSE /\ pass' = [pass EXCEPT ![o].at = "put", ![o].copy = copy, ![o].fresh = TRUE]
            /\ UNCHANGED queued
    /\ UNCHANGED <<instance, object, db, elected, passwords, recreated, events>>

(* (variant) the next object, whether the instance has it or not           *)
AdvanceBeyond(o) ==
    IF ~MayGoOn(o) THEN Idle
    ELSE IF Annotates(pass[o]) \/ Beyond(pass[o].i) = {}
    THEN [Idle EXCEPT !.at = "status", !.instance = pass[o].instance]
    ELSE [Idle EXCEPT !.at = "get", !.instance = pass[o].instance, !.i = pass[o].i + 1]

Advance(o) ==
    IF ~MayGoOn(o) THEN Idle
    ELSE IF Annotates(pass[o]) \/ Beyond(pass[o].i) = {}
    THEN [Idle EXCEPT !.at = "status", !.instance = pass[o].instance]
    ELSE [Idle EXCEPT !.at = "get", !.instance = pass[o].instance,
                      !.i = Min(Beyond(pass[o].i))]

(* (variant) any object that exists with an owner is left alone            *)
LeavesAllAlone(p) == ~Annotates(p) /\ p.copy.exists /\ p.copy.owners # {}

(* len(OwnerReferences) # 0: nothing to do.                                *)
LeavesAlone(p) ==
    /\ ~Annotates(p) /\ FullChain[p.i].exists = "adopted"
    /\ p.copy.exists /\ p.copy.owners # {}

(* (variant) updates are made without the version that was read            *)
AcceptedAlways(p) == object[Target(p)].exists <=> p.copy.exists

(* (variant) an object that could not be created is replaced               *)
AcceptedOver(p) == p.copy.exists => p.fresh

(* The API server accepts a creation if there is no object, an update of   *)
(* the latest version, and the patch of any claim.                         *)
Accepted(p) ==
    IF ~p.copy.exists \/ (~Annotates(p) /\ FullChain[p.i].exists = "patched")
    THEN object[Target(p)].exists <=> p.copy.exists
    ELSE p.fresh

LeaveObject(o) ==
    /\ pass[o].at = "put" /\ LeavesAlone(pass[o])
    /\ pass' = [pass EXCEPT ![o] = Advance(o)]
    /\ UNCHANGED <<instance, object, db, elected, queued, passwords, recreated, events>>

PutObject(o) ==
    /\ pass[o].at = "put" /\ ~LeavesAlone(pass[o]) /\ Accepted(pass[o])
    /\ LET x == Target(pass[o])
           built == IF Annotates(pass[o]) THEN Annotated(pass[o]) ELSE Filled(pass[o])
           others == IF built = object[x] THEN pass ELSE Outdated(x)
       IN /\ object' = [object EXCEPT ![x] = built]
          /\ pass' = [others EXCEPT ![o] = Advance(o)]
          /\ passwords' = IF x = "secret" /\ ~pass[o].copy.exists THEN passwords + 1
                          ELSE passwords
    /\ UNCHANGED <<instance, db, elected, queued, recreated, events>>

(* AlreadyExists, NotFound, Conflict.                                      *)
PutRefused(o) ==
    /\ pass[o].at = "put" /\ ~LeavesAlone(pass[o]) /\ ~Accepted(pass[o])
    /\ Failed(o, pass)
    /\ UNCHANGED <<instance, object, db, elected, passwords, recreated, events>>

(* The deferred status update, which fails once the instance has changed.  *)
(* An upgrade's pass persists its next stage and is queued again.          *)
UpdateStatus(o) ==
    /\ pass[o].at = "status"
    /\ IF pass[o].instance # instance
       THEN /\ Failed(o, pass)
            /\ UNCHANGED instance
       ELSE /\ pass' = [pass EXCEPT ![o] = Idle]
            /\ instance' = [instance EXCEPT !.stage = CASE @ = "set" -> "clear"
                                                       [] @ = "clear" -> "after"
                                                       [] OTHER -> @]
            /\ queued' = (queued \/ (o = elected /\ instance' # instance))
    /\ UNCHANGED <<object, db, elected, passwords, recreated, events>>

Pass(o) ==
    \/ TakeRequest(o) \/ GetObject(o) \/ LeaveObject(o) \/ PutObject(o) \/ PutRefused(o)
    \/ UpdateStatus(o)

-----------------------------------------------------------------------------
(* Patroni, once its pods can start.                                       *)

PatroniRuns == \A x \in Needed : object[x].exists

(* An empty volume gets a database with the secret's password.  Patroni    *)
(* reads and writes config in between other writers, one key at a time.    *)
Bootstrap ==
    /\ PatroniRuns /\ ~db.exists
    /\ object["config"].data.patroni = 0
    /\ db' = [exists |-> TRUE, password |-> object["secret"].data.password, patroni |-> 1]
    /\ SetObject("config", [object["config"] EXCEPT !.data.patroni = 1])
    /\ UNCHANGED <<instance, elected, queued, passwords, recreated, events>>

Annotate ==
    /\ PatroniRuns /\ db.exists /\ db.patroni < MaxWrites
    /\ db' = [db EXCEPT !.patroni = @ + 1]
    /\ SetObject("config", [object["config"] EXCEPT !.data.patroni = db.patroni + 1])
    /\ UNCHANGED <<instance, elected, queued, passwords, recreated, events>>

-----------------------------------------------------------------------------
(* The user, and Kubernetes' garbage collector.                            *)

EditSpec ==
    /\ instance.uid # 0
    /\ Event
    /\ instance.spec < MaxEdits
    /\ instance' = [instance EXCEPT !.spec = @ + 1]
    /\ queued' = TRUE
    /\ UNCHANGED <<object, db, elected, pass, passwords, recreated>>

(* An upgrade begins at a moment the chain finds the cluster ready.        *)
BeginUpgrade ==
    /\ instance.uid # 0 /\ instance.stage = "before"
    /\ PatroniRuns /\ db.exists
    /\ Event
    /\ instance' = [instance EXCEPT !.stage = "set"]
    /\ queued' = TRUE
    /\ UNCHANGED <<object, db, elected, pass, passwords, recreated>>

(* Nothing tells the operator: it watches claims, jobs and the status of   *)
(* StatefulSets.                                                           *)
DeleteObject(x) ==
    /\ object[x].exists
    /\ Event
    /\ SetObject(x, NoObject)
    /\ UNCHANGED <<instance, db, elected, queued, passwords, recreated>>

Lives == instance.uid # 0 /\ db.exists

DeleteInstance ==
    /\ Lives /\ recreated < MaxRecreated
    /\ Event
    /\ instance' = [instance EXCEPT !.uid = 0]
    /\ UNCHANGED <<object, db, elected, queued, pass, passwords, recreated>>

Dangling(x) ==
    /\ object[x].exists
    /\ object[x].owners # {} /\ object[x].owners \cap {Foreign, instance.uid} = {}

(* Background deletion: an object goes some time after its last owner, the *)
(* database with its claims.                                               *)
Collect(x) ==
    /\ Dangling(x)
    /\ SetObject(x, NoObject)
    /\ db' = IF x = "claims" THEN NoDatabase ELSE db
    /\ UNCHANGED <<instance, elected, queued, passwords, recreated, events>>

Collected ==
    /\ \A x \in Resources : ~Dangling(x)
    /\ \A o \in Operators : pass[o] = Idle

Recreate ==
    /\ instance.uid = 0
    /\ CollectedFirst => Collected
    /\ recreated' = recreated + 1
    /\ instance' = [instance EXCEPT !.uid = recreated' + 1, !.stage = "before"]
    /\ queued' = TRUE
    /\ UNCHANGED <<object, db, elected, pass, passwords, events>>

-----------------------------------------------------------------------------
Next ==
    \/ \E o \in Operators : Pass(o) \/ Abort(o) \/ Takeover(o) \/ Exit(o)
    \/ Resync
    \/ Bootstrap \/ Annotate
    \/ EditSpec \/ BeginUpgrade
    \/ \E x \in Replaceable : DeleteObject(x)
    \/ DeleteInstance \/ Recreate
    \/ \E x \in Resources : Collect(x)

Spec == Init /\ [][Next]_vars

(* The elected process's worker and its informers, Patroni, and the        *)
(* garbage collector.                                                      *)
Fairness ==
    /\ WF_vars(\E o \in Operators : o = elected /\ Pass(o))
    /\ WF_vars(Resync)
    /\ WF_vars(Bootstrap)
    /\ \A x \in Resources : WF_vars(Collect(x))

FairSpec == Spec /\ Fairness

-----------------------------------------------------------------------------
(* Properties.                                                             *)

(* Nothing that Patroni has written to its ConfigMap is lost to an update  *)
(* that writes back an older copy (adoption, SetPrimaryInitdbArgs and its  *)
(* kin read the whole object and write the whole object).                  *)
AnnotationsKept ==
    Lives /\ object["config"].exists => object["config"].data.patroni = db.patroni

(* An annotation of an upgrade that ClearUpgradeAnnotations has removed    *)
(* does not come back, whichever process still had a pass under way.       *)
UpgradeCleared ==
    instance.stage \in {"before", "after"} => ~object["config"].data.upgrade

(* The password in the secret is the one the database was created with     *)
(* (secret.Reconcile generates one whenever it finds no secret).           *)
PasswordFits ==
    Lives /\ object["secret"].exists => object["secret"].data.password = db.password

(* In the end every object of the cluster exists, belongs to it and        *)
(* follows its spec, or, with the cluster deleted, nothing of it is left.  *)
ResourcesReconciled ==
    <>[](IF instance.uid = 0
         THEN \A x \in Resources : ~Dangling(x)
         ELSE /\ db.exists
              /\ \A i \in Places :
                  LET x == FullChain[i] IN
                  /\ object[x.name].exists
                  /\ object[x.name].owners \in {{instance.uid}, {Foreign}}
                  /\ object[x.name].spec = IF x.varies THEN instance.spec ELSE 0)
=============================================================================
