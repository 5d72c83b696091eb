------------------------- MODULE PreupgradeSyncProofs -------------------------
(***************************************************************************)
(* What holds of PreupgradeSync for any number of servers, of writes by    *)
(* others and of faults, with proofs.                                      *)
(***************************************************************************)
EXTENDS PreupgradeSync, FiniteSetTheorems, WellFoundedInduction, TLAPS

-----------------------------------------------------------------------------
(* The extremes of sets of positions.                                      *)

LEMMA Extremes ==
    ASSUME NEW a \in Nat, NEW b \in Nat
    PROVE  /\ Min({a, b}) \in {a, b} /\ Min({a, b}) <= a /\ Min({a, b}) <= b
           /\ Max({a, b}) \in {a, b} /\ Max({a, b}) >= a /\ Max({a, b}) >= b
<1>1. \E x \in {a, b} : \A y \in {a, b} : x <= y
  BY a <= b \/ b <= a
<1>2. \E x \in {a, b} : \A y \in {a, b} : x >= y
  BY a <= b \/ b <= a
<1> QED
  BY <1>1, <1>2 DEF Min, Max

(* What a set has below a bound has a greatest element.                    *)
LEMMA Greatest ==
    ASSUME NEW S \in SUBSET Nat, NEW p \in Nat, NEW c \in S, c <= p
    PROVE  LET below == {x \in S : x <= p} IN
           Max(below) \in below /\ \A x \in below : x <= Max(below)
<1> DEFINE below == {x \in S : x <= p}
           gaps  == {p - x : x \in below}
           less  == OpToRel(<, Nat)
<1>1. gaps \in SUBSET Nat /\ gaps # {}
  <2>1. \A x \in below : x \in Nat /\ p - x \in Nat
    OBVIOUS
  <2>2. c \in below
    OBVIOUS
  <2> HIDE DEF below
  <2>3. p - c \in gaps
    BY <2>2
  <2> QED
    BY <2>1, <2>3
<1>2. IsWellFoundedOn(less, Nat)
  BY NatLessThanWellFounded
<1>3. \A y, z \in Nat : y < z => <<y, z>> \in less
  BY DEF OpToRel
<1> HIDE DEF less
<1>4. PICK g \in gaps : \A y \in gaps : ~(<<y, g>> \in less)
  BY <1>1, <1>2, WFMin
<1>5. PICK x \in below : g = p - x
  BY <1>4
<1>6. ASSUME NEW y \in below
      PROVE  y <= x
  <2>1. p - y \in gaps /\ p - y \in Nat /\ g \in Nat
    BY <1>1, <1>4
  <2>2. ~(p - y < g)
    BY <1>3, <1>4, <2>1
  <2> QED
    BY <1>5, <2>2
<1>7. \E m \in below : \A y \in below : m >= y
  BY <1>5, <1>6
<1> HIDE DEF below
<1>8. Max(below) \in below /\ \A y \in below : Max(below) >= y
  BY <1>7 DEF Max
<1> QED
  BY <1>8 DEF below

-----------------------------------------------------------------------------
(* The servers.                                                            *)

Pos == Nat \ {0}

Shapes ==
    /\ primary \in Members \cup {NoMember}
    /\ up \subseteq Members
    /\ wal \in [Members -> Pos] /\ received \in [Members -> Pos]
    /\ checkpoints \in SUBSET Pos /\ 1 \in checkpoints
    /\ restart \in [Members -> Pos]
    /\ row \in [Members -> Nat]
    /\ former \in [Members -> [at : Nat, reachable : BOOLEAN]]
    /\ paused \in BOOLEAN
    /\ pc \in Queries \cup {"succeeded", "failed"}
    /\ conn \in Members \cup {NoMember}
    /\ lsn \in Pos
    /\ asked \in [Members -> 0 .. 2]
    /\ synced \in Nat
    /\ writes \in 0 .. MaxWrites
    /\ faults \in 0 .. MaxFaults

(* A control file names a checkpoint the server has replayed.              *)
ServerMeant(m) ==
    /\ restart[m] \in checkpoints
    /\ restart[m] <= wal[m]
    /\ wal[m] <= received[m]

(* Only the primary writes: no checkpoint record is later than the one its *)
(* control file names.  The job's connection leads to it, or nowhere.      *)
PrimaryMeant ==
    /\ conn \in {primary, NoMember}
    /\ primary = NoMember => row = Nobody
    /\ primary # NoMember =>
        /\ primary \in up
        /\ row[primary] = 0
        /\ wal[primary] = received[primary]
        /\ \A c \in checkpoints : c <= restart[primary]

FormerMeant == ~FormerRows => \A m \in Members : ~former[m].reachable

Sound == Shapes /\ (\A m \in Members : ServerMeant(m)) /\ PrimaryMeant /\ FormerMeant

LEMMA Numbers ==
    /\ MaxWrites \in Nat /\ MaxFaults \in Nat
    /\ NoMember \notin Members /\ IsFiniteSet(Members)
    /\ Cardinality(Members) \in Nat /\ Cardinality(Members) >= 2
BY MembersAssumption, BoundsAssumption, FS_CardinalityType

LEMMA InitSound == Init => Sound
<1> SUFFICES ASSUME Init
             PROVE  Sound
  OBVIOUS
<1>1. Shapes
  <2>1. 1 \in Pos /\ 1 \in Nat /\ 0 \in Nat /\ 0 \in 0 .. 2
    BY DEF Pos
  <2>2. wal \in [Members -> Pos] /\ received \in [Members -> Pos] /\ restart \in [Members -> Pos]
    BY <2>1 DEF Init
  <2>3. row \in [Members -> Nat] /\ asked \in [Members -> 0 .. 2]
    BY <2>1 DEF Init, Nobody
  <2>4. former \in [Members -> [at : Nat, reachable : BOOLEAN]]
    BY <2>1 DEF Init, NoRow
  <2>5. writes \in 0 .. MaxWrites /\ faults \in 0 .. MaxFaults
    BY Numbers DEF Init
  <2>6. checkpoints \in SUBSET Pos /\ 1 \in checkpoints /\ lsn \in Pos /\ synced \in Nat
    BY <2>1 DEF Init
  <2> QED
    BY <2>2, <2>3, <2>4, <2>5, <2>6 DEF Init, Shapes, Queries
<1>2. (\A m \in Members : ServerMeant(m)) /\ FormerMeant
  BY DEF Init, ServerMeant, FormerMeant, NoRow
<1>3. PrimaryMeant
  BY Numbers DEF Init, PrimaryMeant
<1> QED
  BY <1>1, <1>2, <1>3 DEF Sound

LEMMA Given ==
    ASSUME Sound
    PROVE  /\ \A m \in Members : /\ wal[m] \in Pos /\ received[m] \in Pos /\ restart[m] \in Pos
                                 /\ restart[m] \in checkpoints
                                 /\ restart[m] <= wal[m] /\ wal[m] <= received[m]
                                 /\ row[m] \in Nat /\ former[m].at \in Nat
                                 /\ asked[m] \in 0 .. 2
           /\ checkpoints \in SUBSET Pos /\ 1 \in checkpoints
           /\ lsn \in Pos /\ synced \in Nat /\ writes \in Nat /\ faults \in Nat
           /\ primary # NoMember => primary \in Members
           /\ conn # NoMember => conn = primary /\ conn \in Members /\ primary # NoMember
BY Numbers DEF Sound, Shapes, ServerMeant, PrimaryMeant

(* The checkpoint a position leads to.                                     *)
LEMMA LastIs ==
    ASSUME Sound, NEW p \in Pos
    PROVE  /\ LastCheckpoint(p) \in checkpoints /\ LastCheckpoint(p) \in Pos
           /\ LastCheckpoint(p) <= p
           /\ \A c \in checkpoints : c <= p => c <= LastCheckpoint(p)
<1>1. checkpoints \in SUBSET Nat /\ 1 \in checkpoints /\ p \in Nat /\ 1 <= p
  BY Given DEF Pos
<1>2. /\ LastCheckpoint(p) \in {c \in checkpoints : c <= p}
      /\ \A c \in {c \in checkpoints : c <= p} : c <= LastCheckpoint(p)
  BY <1>1, Greatest DEF LastCheckpoint
<1> QED
  BY <1>2, Given

(* A record more.                                                          *)
LEMMA Extended ==
    ASSUME Sound, NEW m \in Members, Extend(m)
    PROVE  /\ wal' \in [Members -> Pos] /\ received' \in [Members -> Pos]
           /\ wal'[m] = wal[m] + 1
           /\ received'[m] = IF received[m] >= wal[m] + 1 THEN received[m] ELSE wal[m] + 1
           /\ \A n \in Members : n # m => wal'[n] = wal[n] /\ received'[n] = received[n]
<1>1. wal \in [Members -> Pos] /\ received \in [Members -> Pos] /\ wal[m] \in Pos /\ received[m] \in Pos
  BY DEF Sound, Shapes
<1> DEFINE r == Max({received[m], wal[m] + 1})
<1>2. r \in {received[m], wal[m] + 1} /\ r >= received[m] /\ r >= wal[m] + 1
  BY <1>1, Extremes DEF Pos
<1>3. wal' = [wal EXCEPT ![m] = wal[m] + 1] /\ received' = [received EXCEPT ![m] = r]
  BY DEF Extend
<1> HIDE DEF r
<1>4. r \in Pos /\ r = IF received[m] >= wal[m] + 1 THEN received[m] ELSE wal[m] + 1
  BY <1>1, <1>2 DEF Pos
<1>5. wal[m] + 1 \in Pos
  BY <1>1 DEF Pos
<1> QED
  BY <1>1, <1>3, <1>4, <1>5

(* The primary's checkpoint.                                               *)
LEMMA CheckpointSound ==
    ASSUME Sound, primary # NoMember, WriteCheckpoint(primary),
           UNCHANGED <<primary, up, row, former, paused>>,
           conn' = conn, lsn' = lsn, asked' = asked, synced' = synced,
           pc' \in Queries \cup {"succeeded", "failed"},
           writes' \in 0 .. MaxWrites, faults' \in 0 .. MaxFaults
    PROVE  Sound'
<1>1. primary \in Members
  BY Given
<1>2. Extend(primary)
  BY DEF WriteCheckpoint
<1>3. wal[primary] \in Pos /\ wal[primary] + 1 \in Pos /\ received[primary] = wal[primary]
  BY <1>1, Given DEF Pos, Sound, PrimaryMeant
<1>4. /\ checkpoints' = checkpoints \cup {wal[primary] + 1}
      /\ restart' = [restart EXCEPT ![primary] = wal[primary] + 1]
  BY DEF WriteCheckpoint
<1>5. /\ restart' \in [Members -> Pos] /\ restart'[primary] = wal[primary] + 1
      /\ \A n \in Members : n # primary => restart'[n] = restart[n]
  BY <1>1, <1>3, <1>4 DEF Sound, Shapes
<1>6. Shapes'
  BY <1>1, <1>2, <1>3, <1>4, <1>5, Extended DEF Sound, Shapes
<1>7. \A c \in checkpoints' : c <= wal[primary] + 1
  BY <1>1, <1>3, <1>4, Given DEF Sound, PrimaryMeant, Pos
<1>8. wal'[primary] = wal[primary] + 1 /\ received'[primary] = wal[primary] + 1
  BY <1>1, <1>2, <1>3, Extended DEF Pos
<1>9. ASSUME NEW n \in Members
      PROVE  ServerMeant(n)'
  <2>1. CASE n = primary
    BY <1>3, <1>4, <1>5, <1>8, <2>1 DEF ServerMeant, Pos
  <2>2. CASE n # primary
    BY <1>1, <1>2, <1>4, <1>5, <2>2, Extended, Given DEF ServerMeant
  <2> QED
    BY <2>1, <2>2
<1>10. PrimaryMeant'
  BY <1>1, <1>5, <1>7, <1>8 DEF Sound, PrimaryMeant
<1> QED
  BY <1>6, <1>9, <1>10 DEF Sound, FormerMeant

LEMMA WriteSound ==
    ASSUME Sound, Write
    PROVE  Sound'
<1>1. /\ primary # NoMember /\ primary \in Members
      /\ UNCHANGED <<primary, up, row, former, paused, pc, conn, lsn, asked, synced, faults>>
  BY Given DEF Write, job
<1>2. writes' \in 0 .. MaxWrites /\ faults' \in 0 .. MaxFaults
  BY Numbers DEF Write, Sound, Shapes
<1>3. CASE WriteCheckpoint(primary)
  BY <1>1, <1>2, <1>3, CheckpointSound DEF Sound, Shapes
<1>4. CASE Extend(primary) /\ UNCHANGED <<checkpoints, restart>>
  <2>1. wal[primary] = received[primary] /\ wal[primary] \in Pos
    BY <1>1, Given DEF Sound, PrimaryMeant
  <2>2. wal'[primary] = wal[primary] + 1 /\ received'[primary] = wal[primary] + 1
    BY <1>1, <1>4, <2>1, Extended DEF Pos
  <2>3. Shapes'
    BY <1>1, <1>2, <1>4, Extended DEF Sound, Shapes
  <2>4. ASSUME NEW n \in Members
        PROVE  ServerMeant(n)'
    <3>1. CASE n = primary
      BY <1>4, <2>1, <2>2, <3>1, Given DEF ServerMeant, Pos
    <3>2. CASE n # primary
      BY <1>1, <1>4, <3>2, Extended, Given DEF ServerMeant
    <3> QED
      BY <3>1, <3>2
  <2>5. PrimaryMeant'
    BY <1>1, <1>4, <2>2 DEF Sound, PrimaryMeant
  <2> QED
    BY <1>1, <2>3, <2>4, <2>5 DEF Sound, FormerMeant
<1> QED
  BY <1>3, <1>4 DEF Write

(* A replica replays; the primary has nothing to replay.                   *)
LEMMA ReplayOfReplica ==
    ASSUME Sound, NEW m \in Members, Replay(m)
    PROVE  /\ m # primary
           /\ wal[m] + 1 <= received[m] \/ (primary # NoMember /\ wal[m] + 1 <= wal[primary])
<1>1. wal[m] \in Pos /\ received[m] \in Pos
  BY Given
<1>2. row[m] # 0 => primary # NoMember
  BY DEF Sound, PrimaryMeant, Nobody
<1>3. primary # NoMember => primary \in Members /\ wal[primary] \in Pos
  BY Given
<1>4. wal[m] < received[m] \/ (row[m] # 0 /\ wal[m] < wal[primary])
  BY DEF Replay
<1>5. m = primary => primary # NoMember
  BY Numbers
<1>6. m # primary
  BY <1>1, <1>4, <1>5 DEF Sound, PrimaryMeant, Pos
<1> QED
  BY <1>1, <1>2, <1>3, <1>4, <1>6 DEF Pos

LEMMA ReplaySound ==
    ASSUME Sound, NEW m \in Members, Replay(m)
    PROVE  Sound'
<1>1. /\ Extend(m)
      /\ UNCHANGED <<primary, up, checkpoints, restart, row, former, paused, pc, conn, lsn, asked, synced,
                     writes, faults>>
  BY DEF Replay, job
<1>2. m # primary
  BY ReplayOfReplica
<1>3. wal[m] \in Pos /\ received[m] \in Pos
  BY Given
<1>4. Shapes'
  BY <1>1, Extended DEF Sound, Shapes
<1>5. ASSUME NEW n \in Members
      PROVE  ServerMeant(n)'
  <2>1. CASE n = m
    BY <1>1, <1>3, <2>1, Extended, Given DEF ServerMeant, Pos
  <2>2. CASE n # m
    BY <1>1, <2>2, Extended, Given DEF ServerMeant
  <2> QED
    BY <2>1, <2>2
<1>6. PrimaryMeant'
  BY <1>1, <1>2, Extended, Given DEF Sound, PrimaryMeant
<1> QED
  BY <1>1, <1>4, <1>5, <1>6 DEF Sound, FormerMeant

(* The steps that touch connections only.                                  *)
LEMMA RowsSound ==
    ASSUME Sound, NEW m \in Members,
           Connect(m) \/ Report(m) \/ Expire(m) \/ Disconnect(m)
    PROVE  Sound'
<1>1. UNCHANGED <<primary, up, wal, received, checkpoints, restart, paused, pc, conn, lsn, asked, synced,
                  writes>>
  BY DEF Connect, Report, Expire, Disconnect, job
<1>2. wal[m] \in Nat /\ row[m] \in Nat /\ m # NoMember
  BY Given, Numbers DEF Pos
<1>3. /\ row' \in [Members -> Nat]
      /\ \A n \in Members : n # m => row'[n] = row[n]
      /\ row[m] = 0 /\ row'[m] # 0 => m # primary /\ primary # NoMember
  BY <1>2 DEF Connect, Report, Expire, Disconnect, Sound, Shapes
<1>4. /\ former' \in [Members -> [at : Nat, reachable : BOOLEAN]]
      /\ ~FormerRows => \A n \in Members : former'[n] = former[n] \/ former'[n] = NoRow
  <2>1. former \in [Members -> [at : Nat, reachable : BOOLEAN]]
    BY DEF Sound, Shapes
  <2>2. NoRow \in [at : Nat, reachable : BOOLEAN]
    BY DEF NoRow
  <2>3. [at |-> row[m], reachable |-> TRUE] \in [at : Nat, reachable : BOOLEAN]
    BY <1>2
  <2> DEFINE lost == [at |-> row[m], reachable |-> TRUE]
  <2>4. \/ former' = former
        \/ former' = [former EXCEPT ![m] = NoRow]
        \/ FormerRows /\ former' = [former EXCEPT ![m] = lost]
    BY DEF Connect, Report, Expire, Disconnect
  <2> HIDE DEF lost
  <2>5. lost \in [at : Nat, reachable : BOOLEAN]
    BY <2>3 DEF lost
  <2> QED
    BY <2>1, <2>2, <2>4, <2>5
<1>5. faults' \in 0 .. MaxFaults
  BY Numbers DEF Connect, Report, Expire, Disconnect, Fault, Sound, Shapes
<1>6. Shapes'
  BY <1>1, <1>3, <1>4, <1>5 DEF Sound, Shapes
<1>7. FormerMeant'
  BY <1>4 DEF Sound, FormerMeant, NoRow
<1>8. PrimaryMeant'
  <2>1. primary = NoMember => row' = Nobody
    <3>1. ASSUME primary = NoMember
          PROVE  row' = row
      <4>1. row[m] = 0
        BY <3>1 DEF Sound, PrimaryMeant, Nobody
      <4>2. ~Connect(m) /\ ~Report(m) /\ ~Disconnect(m)
        BY <3>1, <4>1 DEF Connect, Report, Disconnect
      <4> QED
        BY <4>2 DEF Expire
    <3> QED
      BY <3>1 DEF Sound, PrimaryMeant
  <2>2. primary # NoMember => row'[primary] = 0
    BY <1>3, Given DEF Sound, PrimaryMeant, Connect, Report, Expire, Disconnect
  <2> QED
    BY <1>1, <2>1, <2>2 DEF Sound, PrimaryMeant
<1>9. \A n \in Members : ServerMeant(n)'
  BY <1>1 DEF Sound, ServerMeant
<1> QED
  BY <1>6, <1>7, <1>8, <1>9 DEF Sound

(* A server that stops takes the connections it served with it.            *)
LEMMA Stopped ==
    ASSUME Sound, NEW m \in Members, Stop(m)
    PROVE  /\ UNCHANGED <<wal, received, checkpoints, restart, paused, pc, lsn, synced, writes>>
           /\ up' = up \ {m}
           /\ primary' = IF m = primary THEN NoMember ELSE primary
           /\ conn' = IF conn = m THEN NoMember ELSE conn
           /\ row' \in [Members -> Nat]
           /\ m = primary => row' = Nobody
           /\ m # primary => row'[m] = 0 /\ \A n \in Members : n # m => row'[n] = row[n]
<1>1. Nobody \in [Members -> Nat] /\ row \in [Members -> Nat]
  BY DEF Nobody, Sound, Shapes
<1> QED
  BY <1>1 DEF Stop

LEMMA StopSound ==
    ASSUME Sound, NEW m \in Members, ServerCrash(m) \/ PodLoss(m)
    PROVE  Sound'
<1>1. Stop(m) /\ m # NoMember
  BY Numbers DEF ServerCrash, PodLoss
<1> DEFINE lost == [at |-> row[m], reachable |-> FALSE]
<1>2. \/ former' = [n \in Members |-> NoRow]
      \/ former' = former
      \/ former' = [former EXCEPT ![m] = lost]
  BY DEF ServerCrash, PodLoss
<1>3. /\ NoRow \in [at : Nat, reachable : BOOLEAN] /\ ~NoRow.reachable
      /\ lost \in [at : Nat, reachable : BOOLEAN] /\ ~lost.reachable
  BY Given DEF NoRow
<1> HIDE DEF lost
<1>4. /\ former' \in [Members -> [at : Nat, reachable : BOOLEAN]]
      /\ \A n \in Members : former'[n] = former[n] \/ ~former'[n].reachable
  BY <1>2, <1>3 DEF Sound, Shapes
<1>5. asked' \in [Members -> 0 .. 2]
  BY DEF ServerCrash, PodLoss, Sound, Shapes
<1>6. faults' \in 0 .. MaxFaults
  BY Numbers DEF ServerCrash, PodLoss, Fault, Sound, Shapes
<1>7. Shapes'
  BY <1>1, <1>4, <1>5, <1>6, Stopped DEF Sound, Shapes
<1>8. FormerMeant'
  BY <1>4 DEF Sound, FormerMeant
<1>9. PrimaryMeant'
  <2>1. CASE m = primary
    BY <1>1, <2>1, Stopped DEF Sound, PrimaryMeant
  <2>2. CASE m # primary
    <3>1. primary' = primary /\ conn' \in {primary, NoMember}
      BY <1>1, <2>2, Stopped DEF Sound, PrimaryMeant
    <3>2. primary = NoMember => row' = row
      <4>1. ASSUME primary = NoMember
            PROVE  row' = [row EXCEPT ![m] = 0]
        BY <1>1, <2>2, <4>1 DEF Stop
      <4>2. primary = NoMember => row[m] = 0
        BY DEF Sound, PrimaryMeant, Nobody
      <4> QED
        BY <4>1, <4>2 DEF Sound, Shapes
    <3>3. primary # NoMember => row'[primary] = 0 /\ primary \in up'
      BY <1>1, <2>2, Stopped, Given DEF Sound, PrimaryMeant
    <3> QED
      BY <1>1, <3>1, <3>2, <3>3, Stopped DEF Sound, PrimaryMeant
  <2> QED
    BY <2>1, <2>2
<1>10. \A n \in Members : ServerMeant(n)'
  BY <1>1, Stopped DEF Sound, ServerMeant
<1> QED
  BY <1>7, <1>8, <1>9, <1>10 DEF Sound

LEMMA StartSound ==
    ASSUME Sound, NEW m \in Members, Start(m)
    PROVE  Sound'
<1>1. PICK q \in restart[m] .. wal[m] : wal' = [wal EXCEPT ![m] = q]
  BY DEF Start
<1>2. /\ up' = up \cup {m} /\ m \notin up
      /\ UNCHANGED <<primary, received, checkpoints, restart, row, former, paused, pc, conn, lsn, asked,
                     synced, writes, faults>>
  BY DEF Start, job
<1>3. q \in Pos /\ restart[m] <= q /\ q <= wal[m]
  BY Given DEF Pos
<1>4. wal' \in [Members -> Pos] /\ wal'[m] = q /\ \A n \in Members : n # m => wal'[n] = wal[n]
  BY <1>1, <1>3 DEF Sound, Shapes
<1>5. Shapes'
  BY <1>2, <1>4 DEF Sound, Shapes
<1>6. ASSUME NEW n \in Members
      PROVE  ServerMeant(n)'
  <2>1. CASE n = m
    BY <1>2, <1>3, <1>4, <2>1, Given DEF ServerMeant, Pos
  <2>2. CASE n # m
    BY <1>2, <1>4, <2>2, Given DEF ServerMeant
  <2> QED
    BY <2>1, <2>2
<1>7. PrimaryMeant'
  <2>1. primary # NoMember => primary # m /\ wal'[primary] = wal[primary]
    BY <1>2, <1>4, Given DEF Sound, PrimaryMeant
  <2> QED
    BY <1>2, <2>1 DEF Sound, PrimaryMeant
<1> QED
  BY <1>2, <1>5, <1>6, <1>7 DEF Sound, FormerMeant

(* What a promotion leaves on the others: nothing beyond the fork.         *)
LEMMA Promoted ==
    ASSUME Sound, NEW m \in Members, Promote(m)
    PROVE  /\ primary = NoMember /\ primary' = m /\ m \in up /\ received[m] \in Pos
           /\ UNCHANGED <<up, row, former, paused, pc, conn, lsn, asked, synced, writes, faults>>
           /\ checkpoints' = {c \in checkpoints : c <= received[m]} \cup {received[m] + 1}
           /\ wal'[m] = received[m] + 1 /\ received'[m] = received[m] + 1
           /\ restart'[m] = received[m] + 1
           /\ wal' \in [Members -> Pos] /\ received' \in [Members -> Pos]
           /\ restart' \in [Members -> Pos]
           /\ \A n \in Members : n # m =>
                /\ wal'[n] = Min({wal[n], received[m]})
                /\ received'[n] = Min({received[n], received[m]})
                /\ restart'[n] = LastCheckpoint(Min({restart[n], received[m]}))
                /\ wal'[n] \in Pos /\ received'[n] \in Pos /\ restart'[n] \in Pos
                /\ Min({restart[n], received[m]}) \in Pos
<1> DEFINE fork == received[m]
           Cut(x) == Min({x, fork})
<1>1. /\ primary = NoMember /\ primary' = m /\ m \in up
      /\ UNCHANGED <<up, row, former, paused, pc, conn, lsn, asked, synced, writes, faults>>
      /\ checkpoints' = {c \in checkpoints : c <= fork} \cup {fork + 1}
      /\ wal' = [n \in Members |-> IF n = m THEN fork + 1 ELSE Cut(wal[n])]
      /\ received' = [n \in Members |-> IF n = m THEN fork + 1 ELSE Cut(received[n])]
      /\ restart' = [n \in Members |-> IF n = m THEN fork + 1 ELSE LastCheckpoint(Cut(restart[n]))]
  BY DEF Promote, job
<1>2. fork \in Pos /\ fork + 1 \in Pos
  BY Given DEF Pos
<1>3. ASSUME NEW x \in Pos
      PROVE  Cut(x) \in Pos
  <2>1. x \in Nat /\ fork \in Nat
    BY <1>2, <1>3 DEF Pos
  <2>2. Min({x, fork}) \in {x, fork}
    BY <2>1, Extremes
  <2> QED
    BY <1>2, <1>3, <2>2
<1> HIDE DEF Cut
<1>4. \A n \in Members : Cut(wal[n]) \in Pos /\ Cut(received[n]) \in Pos /\ Cut(restart[n]) \in Pos
  BY <1>3, Given
<1>5. \A n \in Members : LastCheckpoint(Cut(restart[n])) \in Pos
  BY <1>4, LastIs
<1>6. /\ wal' \in [Members -> Pos] /\ received' \in [Members -> Pos] /\ restart' \in [Members -> Pos]
      /\ wal'[m] = fork + 1 /\ received'[m] = fork + 1 /\ restart'[m] = fork + 1
  BY <1>1, <1>2, <1>4, <1>5
<1>7. \A n \in Members : n # m => /\ wal'[n] = Cut(wal[n]) /\ received'[n] = Cut(received[n])
                                  /\ restart'[n] = LastCheckpoint(Cut(restart[n]))
  BY <1>1
<1> QED
  BY <1>1, <1>2, <1>4, <1>5, <1>6, <1>7 DEF Cut

LEMMA PromoteSound ==
    ASSUME Sound, NEW m \in Members, Promote(m)
    PROVE  Sound'
<1> DEFINE fork == received[m]
<1>1. fork \in Pos /\ fork + 1 \in Pos /\ fork <= fork + 1
  BY Given DEF Pos
<1>2. /\ checkpoints' \in SUBSET Pos /\ 1 \in checkpoints' /\ fork + 1 \in checkpoints'
      /\ \A c \in checkpoints' : c <= fork + 1
      /\ \A c \in checkpoints : c <= fork => c \in checkpoints'
  BY <1>1, Promoted, Given DEF Pos
<1>3. Shapes'
  BY <1>2, Promoted DEF Sound, Shapes
<1>4. ASSUME NEW n \in Members
      PROVE  ServerMeant(n)'
  <2>1. CASE n = m
    <3>1. wal'[n] = fork + 1 /\ received'[n] = fork + 1 /\ restart'[n] = fork + 1
      BY <2>1, Promoted
    <3> QED
      BY <1>1, <1>2, <3>1 DEF ServerMeant, Pos
  <2>2. CASE n # m
    <3> DEFINE r == Min({restart[n], fork})
               w == Min({wal[n], fork})
               d == Min({received[n], fork})
    <3>1. /\ restart[n] \in Nat /\ wal[n] \in Nat /\ received[n] \in Nat /\ fork \in Nat
          /\ restart[n] <= wal[n] /\ wal[n] <= received[n]
      BY <1>1, Given DEF Pos
    <3>2. r \in {restart[n], fork} /\ r <= restart[n] /\ r <= fork
      BY <3>1, Extremes
    <3>3. w \in {wal[n], fork} /\ w <= wal[n] /\ w <= fork
      BY <3>1, Extremes
    <3>4. d \in {received[n], fork} /\ d <= received[n] /\ d <= fork
      BY <3>1, Extremes
    <3>5. r \in Pos
      BY <1>1, <3>2, Given
    <3>6. restart'[n] = LastCheckpoint(r) /\ wal'[n] = w /\ received'[n] = d
      BY <2>2, Promoted
    <3> HIDE DEF r, w, d
    <3>7. r <= w /\ w <= d
      BY <3>1, <3>2, <3>3, <3>4
    <3>8. /\ LastCheckpoint(r) \in checkpoints /\ LastCheckpoint(r) \in Pos
          /\ LastCheckpoint(r) <= r
      BY <3>5, LastIs
    <3>9. LastCheckpoint(r) <= fork /\ LastCheckpoint(r) <= w
      <4>1. r \in Nat /\ w \in Nat /\ LastCheckpoint(r) \in Nat
        BY <3>1, <3>2, <3>3, <3>8 DEF Pos
      <4> QED
        BY <3>1, <3>2, <3>7, <3>8, <4>1
    <3> QED
      BY <1>2, <3>6, <3>7, <3>8, <3>9 DEF ServerMeant
  <2> QED
    BY <2>1, <2>2
<1>5. PrimaryMeant'
  <2>1. row' = Nobody /\ conn' = NoMember
    BY Promoted DEF Sound, PrimaryMeant
  <2>2. row'[m] = 0
    BY <2>1 DEF Nobody
  <2>3. m # NoMember
    BY Numbers
  <2> QED
    BY <1>2, <2>1, <2>2, <2>3, Promoted DEF PrimaryMeant
<1> QED
  BY <1>3, <1>4, <1>5, Promoted DEF Sound, FormerMeant

(* A replica's restart point is a checkpoint it has replayed.              *)
LEMMA WaitSound ==
    ASSUME Sound, NEW m \in Members, WaitReplica(m)
    PROVE  Sound'
<1>1. /\ UNCHANGED <<primary, up, wal, received, checkpoints, row, former, paused, pc, conn, lsn, writes,
                     faults>>
      /\ asked[m] > 0 /\ asked' = [asked EXCEPT ![m] = @ - 1] /\ pc = "ask"
  BY DEF WaitReplica
<1>2. asked[m] \in 0 .. 2 /\ wal[m] \in Pos
  BY Given
<1>3. asked[m] - 1 \in 0 .. 2
  BY <1>1, <1>2
<1>4. asked' \in [Members -> 0 .. 2]
  BY <1>1, <1>3 DEF Sound, Shapes
<1> DEFINE last == LastCheckpoint(wal[m])
<1>5. last \in Pos /\ last \in checkpoints /\ last <= wal[m]
      /\ \A c \in checkpoints : c <= wal[m] => c <= last
  BY <1>2, LastIs
<1> HIDE DEF last
<1>6. \/ synced' = synced + 1 /\ restart' = [restart EXCEPT ![m] = last]
      \/ synced' = synced /\ restart' = restart
  BY DEF WaitReplica, last
<1>7. synced' \in Nat /\ restart' \in [Members -> Pos]
  BY <1>5, <1>6, Given DEF Sound, Shapes
<1>8. \A n \in Members : restart'[n] = restart[n] \/ (n = m /\ restart'[n] = last)
  BY <1>6 DEF Sound, Shapes
<1>9. Shapes'
  BY <1>1, <1>4, <1>7 DEF Sound, Shapes
<1>10. ASSUME NEW n \in Members
       PROVE  ServerMeant(n)'
  BY <1>1, <1>5, <1>8, <1>10, Given DEF ServerMeant
<1>11. PrimaryMeant'
  <2>1. primary # NoMember => \A c \in checkpoints : c <= restart'[primary]
    <3>1. ASSUME primary # NoMember, NEW c \in checkpoints
          PROVE  c <= restart'[primary]
      <4>1. primary \in Members /\ c <= restart[primary]
        BY <3>1, Given DEF Sound, PrimaryMeant
      <4>2. CASE restart'[primary] = restart[primary]
        BY <4>1, <4>2
      <4>3. CASE primary = m /\ restart'[primary] = last
        <5>1. c <= wal[m]
          <6>1. restart[m] <= wal[m] /\ restart[m] \in Nat /\ wal[m] \in Nat /\ c \in Nat
            BY <3>1, Given DEF Pos
          <6> QED
            BY <4>1, <4>3, <6>1
        <5> QED
          BY <1>5, <4>3, <5>1
      <4> QED
        BY <1>8, <4>1, <4>2, <4>3
    <3> QED
      BY <3>1
  <2> QED
    BY <1>1, <2>1 DEF Sound, PrimaryMeant
<1> QED
  BY <1>1, <1>9, <1>10, <1>11 DEF Sound, FormerMeant

(* The other steps of the job, and the ends it may come to.                *)
LEMMA AddressesTyped == Sound => Addresses \in [Members -> 0 .. 2]
BY DEF Addresses

JobQuiet ==
    \/ ConnectPrimary \/ ReadPrimaryWalLsn \/ ReadReplicas \/ WaitReplicas \/ Compare \/ Pause
    \/ ConnectionLost \/ Killed \/ PauseAnswerLost \/ Retry \/ Repeat

LEMMA JobSound ==
    ASSUME Sound, JobQuiet
    PROVE  /\ Sound'
           /\ UNCHANGED <<primary, up, wal, received, checkpoints, restart, row, former, writes>>
<1>1. UNCHANGED <<primary, up, wal, received, checkpoints, restart, row, former, writes>>
  BY DEF JobQuiet, ConnectPrimary, ReadPrimaryWalLsn, ReadReplicas, WaitReplicas, Compare, Pause,
         ConnectionLost, Killed, PauseAnswerLost, Retry, Repeat, servers, Query
<1>2. conn' \in {conn, primary, NoMember}
  BY DEF JobQuiet, ConnectPrimary, ReadPrimaryWalLsn, ReadReplicas, WaitReplicas, Compare, Pause,
         ConnectionLost, Killed, PauseAnswerLost, Retry, Repeat, JobUnchanged, Query
<1>3. lsn' \in Pos
  <2>1. lsn' \in {lsn, 1} \/ (conn # NoMember /\ lsn' = wal[conn])
    BY DEF JobQuiet, ConnectPrimary, ReadPrimaryWalLsn, ReadReplicas, WaitReplicas, Compare, Pause,
         ConnectionLost, Killed, PauseAnswerLost, Retry, Repeat, JobUnchanged, Query
  <2> QED
    BY <2>1, Given DEF Pos
<1>4. asked' \in {asked, Nobody, Addresses} /\ synced' \in {synced, 0}
  BY DEF JobQuiet, ConnectPrimary, ReadPrimaryWalLsn, ReadReplicas, WaitReplicas, Compare, Pause,
         ConnectionLost, Killed, PauseAnswerLost, Retry, Repeat, JobUnchanged, Query
<1>5. asked' \in [Members -> 0 .. 2]
  BY <1>4, AddressesTyped DEF Sound, Shapes, Nobody
<1>6. pc' \in Queries \cup {"succeeded", "failed"}
  BY DEF JobQuiet, ConnectPrimary, ReadPrimaryWalLsn, ReadReplicas, WaitReplicas, Compare, Pause,
         ConnectionLost, Killed, PauseAnswerLost, Retry, Repeat, Query, Queries
<1>7. paused' \in BOOLEAN
  BY DEF JobQuiet, ConnectPrimary, ReadPrimaryWalLsn, ReadReplicas, WaitReplicas, Compare, Pause,
         ConnectionLost, Killed, PauseAnswerLost, Retry, Repeat, Query, servers, Sound, Shapes
<1>8. faults' \in 0 .. MaxFaults
  BY Numbers
     DEF JobQuiet, ConnectPrimary, ReadPrimaryWalLsn, ReadReplicas, WaitReplicas, Compare, Pause,
         ConnectionLost, Killed, PauseAnswerLost, Retry, Repeat, Query, Fault, Sound, Shapes
<1>9. Shapes'
  BY <1>1, <1>2, <1>3, <1>4, <1>5, <1>6, <1>7, <1>8 DEF Sound, Shapes
<1>10. PrimaryMeant'
  BY <1>1, <1>2 DEF Sound, PrimaryMeant
<1>11. (\A n \in Members : ServerMeant(n)') /\ FormerMeant'
  BY <1>1 DEF Sound, ServerMeant, FormerMeant
<1> QED
  BY <1>1, <1>9, <1>10, <1>11 DEF Sound

LEMMA CheckpointPrimarySound ==
    ASSUME Sound, CheckpointPrimary
    PROVE  /\ Sound' /\ primary # NoMember /\ conn = primary /\ WriteCheckpoint(primary)
           /\ UNCHANGED <<primary, up, row, former, paused, conn, lsn, asked, synced, writes, faults>>
           /\ pc = "checkpoint" /\ pc' = "position"
<1>1. /\ primary # NoMember /\ conn = primary /\ WriteCheckpoint(primary)
      /\ UNCHANGED <<primary, up, row, former, paused, conn, lsn, asked, synced, writes, faults>>
      /\ pc = "checkpoint" /\ pc' = "position"
  BY Given DEF CheckpointPrimary, Query
<1>2. /\ pc' \in Queries \cup {"succeeded", "failed"}
      /\ writes' \in 0 .. MaxWrites /\ faults' \in 0 .. MaxFaults
  BY <1>1 DEF Queries, Sound, Shapes
<1> QED
  BY <1>1, <1>2, CheckpointSound

LEMMA NextCases ==
    ASSUME Next
    PROVE  \/ Write \/ CheckpointPrimary \/ JobQuiet
           \/ \E m \in Members :
                \/ Connect(m) \/ Report(m) \/ Expire(m) \/ Disconnect(m)
                \/ Replay(m) \/ Start(m) \/ Promote(m)
                \/ ServerCrash(m) \/ PodLoss(m) \/ WaitReplica(m)
BY DEF Next, Server, Sync, JobQuiet

LEMMA StepSound == Sound /\ [Next]_vars => Sound'
<1> SUFFICES ASSUME Sound, [Next]_vars
             PROVE  Sound'
  OBVIOUS
<1>1. CASE UNCHANGED vars
  BY <1>1 DEF vars, servers, job, Sound, Shapes, ServerMeant, PrimaryMeant, FormerMeant
<1>2. CASE Next
  BY <1>2, NextCases, WriteSound, CheckpointPrimarySound, JobSound, RowsSound, ReplaySound,
     StartSound, PromoteSound, StopSound, WaitSound
<1> QED
  BY <1>1, <1>2

-----------------------------------------------------------------------------
(* The length of the WAL: every record is paid for by a write of somebody  *)
(* else, which may call for one more cycle of the job, or by a fault,      *)
(* which may call for a promotion and for one more checkpoint of the job.  *)

PromotionDue == IF primary = NoMember THEN 1 ELSE 0

(* Is the job sure to make a checkpoint before it succeeds?                *)
CheckpointAhead ==
    \/ pc \in {"connect", "checkpoint", "failed"}
    \/ pc \in {"position", "replicas", "ask", "compare"} /\ conn = NoMember
    \/ pc \in {"replicas", "ask", "compare"} /\ conn # NoMember /\ wal[conn] # lsn
    \/ pc = "pause" /\ primary = NoMember
CheckpointDue == IF CheckpointAhead THEN 1 ELSE 0

Limit == 2 + 2 * (writes + faults) - PromotionDue - CheckpointDue

Limited ==
    /\ lsn <= Limit
    /\ \A c \in checkpoints : c <= Limit
    /\ \A m \in Members : received[m] <= Limit /\ row[m] <= Limit /\ former[m].at <= Limit

LEMMA Due ==
    ASSUME Sound
    PROVE  /\ PromotionDue \in {0, 1} /\ CheckpointDue \in {0, 1}
           /\ writes \in Nat /\ faults \in Nat /\ Limit \in Int
           /\ Limit <= 2 + 2 * (writes + faults) /\ Limit >= 2 * (writes + faults)
BY Given DEF PromotionDue, CheckpointDue, Limit

LEMMA PrimedTypes ==
    ASSUME Sound'
    PROVE  /\ Limit' \in Int /\ lsn' \in Nat /\ checkpoints' \in SUBSET Nat
           /\ \A m \in Members : received'[m] \in Nat /\ row'[m] \in Nat /\ former'[m].at \in Nat
<1>1. writes' \in Nat /\ faults' \in Nat
  BY Numbers DEF Sound, Shapes
<1>2. Limit' \in Int
  BY <1>1 DEF Limit, PromotionDue, CheckpointDue
<1>3. lsn' \in Nat /\ checkpoints' \in SUBSET Nat
  BY DEF Sound, Shapes, Pos
<1>4. \A m \in Members : received'[m] \in Nat /\ row'[m] \in Nat /\ former'[m].at \in Nat
  BY DEF Sound, Shapes, Pos
<1> QED
  BY <1>2, <1>3, <1>4

LEMMA InitLimited == Init => Limited
<1> SUFFICES ASSUME Init
             PROVE  Limited
  OBVIOUS
<1>1. primary # NoMember /\ writes = 0 /\ faults = 0 /\ pc = "connect"
  BY Numbers DEF Init
<1>2. Limit = 1
  BY <1>1 DEF Limit, PromotionDue, CheckpointDue, CheckpointAhead
<1>3. \A m \in Members : row[m] \in {0, 1} /\ former[m].at = 0
  BY DEF Init, NoRow
<1> QED
  BY <1>2, <1>3 DEF Init, Limited

LEMMA FaultPays ==
    ASSUME Sound, Sound', writes' = writes, faults' = faults + 1
    PROVE  Limit' >= Limit
<1>1. Limit \in Int /\ Limit <= 2 + 2 * (writes + faults) /\ writes \in Nat /\ faults \in Nat
  BY Due
<1>2. Limit' \in Int /\ Limit' >= 2 * (writes' + faults')
  <2>1. writes' \in Nat /\ faults' \in Nat
    BY <1>1
  <2> QED
    BY <2>1 DEF Limit, PromotionDue, CheckpointDue
<1> QED
  BY <1>1, <1>2

(* Nothing new, and no less to come.                                       *)
LEMMA LimitedStays ==
    ASSUME Sound, Sound', Limited, Limit' >= Limit,
           lsn' <= Limit, checkpoints' = checkpoints,
           \A m \in Members : received'[m] <= Limit /\ row'[m] <= Limit /\ former'[m].at <= Limit
    PROVE  Limited'
<1>1. Limit \in Int /\ Limit' \in Int
  BY Due, PrimedTypes
<1>2. /\ lsn' \in Nat /\ checkpoints \in SUBSET Nat
      /\ \A m \in Members : received'[m] \in Nat /\ row'[m] \in Nat /\ former'[m].at \in Nat
  BY PrimedTypes
<1>3. lsn' <= Limit' /\ \A c \in checkpoints' : c <= Limit'
  BY <1>1, <1>2 DEF Limited
<1>4. \A m \in Members : received'[m] <= Limit' /\ row'[m] <= Limit' /\ former'[m].at <= Limit'
  BY <1>1, <1>2
<1> QED
  BY <1>3, <1>4 DEF Limited

(* One record more on the primary, one more allowed.                       *)
LEMMA RecordLimited ==
    ASSUME Sound, Sound', Limited, Limit' >= Limit + 1, NEW h \in Nat, h <= Limit,
           UNCHANGED <<row, former, lsn>>,
           checkpoints' \subseteq checkpoints \cup {h + 1},
           \A m \in Members : received'[m] <= h + 1 \/ received'[m] <= received[m]
    PROVE  Limited'
<1>1. Limit \in Int /\ Limit' \in Int
  BY Due, PrimedTypes
<1>2. /\ lsn \in Nat /\ checkpoints \in SUBSET Nat
      /\ \A m \in Members : /\ received'[m] \in Nat /\ row[m] \in Nat /\ former[m].at \in Nat
                            /\ received[m] \in Nat
  BY PrimedTypes, Given DEF Pos
<1>3. lsn' <= Limit' /\ \A c \in checkpoints' : c <= Limit'
  BY <1>1, <1>2 DEF Limited
<1>4. ASSUME NEW m \in Members
      PROVE  received'[m] <= Limit' /\ row'[m] <= Limit' /\ former'[m].at <= Limit'
  BY <1>1, <1>2 DEF Limited
<1> QED
  BY <1>3, <1>4 DEF Limited

LEMMA WriteLimited ==
    ASSUME Sound, Limited, Write
    PROVE  Limited'
<1>1. /\ primary # NoMember /\ primary \in Members
      /\ UNCHANGED <<primary, up, row, former, paused, pc, conn, lsn, asked, synced, faults>>
      /\ writes' = writes + 1
  BY Given DEF Write, job
<1>2. Sound'
  BY WriteSound
<1>3. Limit' >= Limit + 1
  <2>1. PromotionDue' = PromotionDue
    BY <1>1 DEF PromotionDue
  <2>2. /\ CheckpointDue \in {0, 1} /\ PromotionDue \in {0, 1}
        /\ writes \in Nat /\ faults \in Nat
    BY Due
  <2>3. CheckpointDue' \in {0, 1}
    BY DEF CheckpointDue
  <2>4. Limit' = 2 + 2 * (writes + 1 + faults) - PromotionDue - CheckpointDue'
    BY <1>1, <2>1 DEF Limit
  <2> QED
    BY <2>2, <2>3, <2>4 DEF Limit
<1>4. Extend(primary)
  BY DEF Write, WriteCheckpoint
<1>5. wal[primary] \in Nat /\ wal[primary] = received[primary]
  BY <1>1, Given DEF Sound, PrimaryMeant, Pos
<1>6. received[primary] <= Limit
  BY <1>1 DEF Limited
<1>7. checkpoints' \subseteq checkpoints \cup {wal[primary] + 1}
  BY DEF Write, WriteCheckpoint
<1>8. \A m \in Members : received'[m] <= wal[primary] + 1 \/ received'[m] <= received[m]
  <2>1. received'[primary] = wal[primary] + 1
    BY <1>1, <1>4, <1>5, Extended
  <2>2. \A m \in Members : m # primary => received'[m] = received[m]
    BY <1>1, <1>4, Extended
  <2>3. \A m \in Members : received[m] \in Nat
    BY Given DEF Pos
  <2> QED
    BY <1>5, <2>1, <2>2, <2>3
<1> QED
  BY <1>1, <1>2, <1>3, <1>5, <1>6, <1>7, <1>8, RecordLimited

LEMMA CheckpointLimited ==
    ASSUME Sound, Limited, CheckpointPrimary
    PROVE  Limited'
<1>1. /\ Sound' /\ primary # NoMember /\ conn = primary /\ WriteCheckpoint(primary)
      /\ UNCHANGED <<primary, up, row, former, paused, conn, lsn, asked, synced, writes, faults>>
      /\ pc = "checkpoint" /\ pc' = "position" /\ primary \in Members
  BY CheckpointPrimarySound, Given
<1>2. Limit' >= Limit + 1
  <2>1. PromotionDue' = PromotionDue /\ CheckpointDue = 1 /\ CheckpointDue' = 0
    BY <1>1 DEF PromotionDue, CheckpointDue, CheckpointAhead
  <2>2. writes \in Nat /\ faults \in Nat /\ PromotionDue \in {0, 1}
    BY Due
  <2> QED
    BY <1>1, <2>1, <2>2 DEF Limit
<1>3. Extend(primary)
  BY <1>1 DEF WriteCheckpoint
<1>4. wal[primary] \in Nat /\ wal[primary] = received[primary]
  BY <1>1, Given DEF Sound, PrimaryMeant, Pos
<1>5. received[primary] <= Limit
  BY <1>1 DEF Limited
<1>6. checkpoints' \subseteq checkpoints \cup {wal[primary] + 1}
  BY <1>1 DEF WriteCheckpoint
<1>7. \A m \in Members : received'[m] <= wal[primary] + 1 \/ received'[m] <= received[m]
  <2>1. received'[primary] = wal[primary] + 1
    BY <1>1, <1>3, <1>4, Extended
  <2>2. \A m \in Members : m # primary => received'[m] = received[m]
    BY <1>1, <1>3, Extended
  <2>3. \A m \in Members : received[m] \in Nat
    BY Given DEF Pos
  <2> QED
    BY <1>4, <2>1, <2>2, <2>3
<1> QED
  BY <1>1, <1>2, <1>4, <1>5, <1>6, <1>7, RecordLimited

LEMMA PromoteLimited ==
    ASSUME Sound, Limited, NEW m \in Members, Promote(m)
    PROVE  Limited'
<1>1. /\ Sound' /\ primary = NoMember /\ primary' = m /\ m # NoMember /\ conn = NoMember
      /\ received[m] \in Nat
      /\ UNCHANGED <<up, row, former, paused, pc, conn, lsn, asked, synced, writes, faults>>
  BY PromoteSound, Promoted, Given, Numbers DEF Pos
<1>2. Limit' >= Limit + 1
  <2>1. PromotionDue = 1 /\ PromotionDue' = 0
    BY <1>1 DEF PromotionDue
  <2>2. CheckpointDue' <= CheckpointDue /\ CheckpointDue' \in {0, 1}
    <3>1. CheckpointAhead' => CheckpointAhead
      BY <1>1 DEF CheckpointAhead
    <3> QED
      BY <3>1 DEF CheckpointDue
  <2>3. writes \in Nat /\ faults \in Nat /\ CheckpointDue \in {0, 1}
    BY Due
  <2>4. Limit' = 2 + 2 * (writes + faults) - CheckpointDue'
    BY <1>1, <2>1, <2>3 DEF Limit
  <2>5. Limit = 2 + 2 * (writes + faults) - 1 - CheckpointDue
    BY <2>1 DEF Limit
  <2>6. CheckpointDue' = 0 \/ (CheckpointDue' = 1 /\ CheckpointDue = 1)
    BY <2>2, <2>3
  <2> QED
    BY <2>3, <2>4, <2>5, <2>6
<1>3. received[m] <= Limit
  BY DEF Limited
<1>4. checkpoints' \subseteq checkpoints \cup {received[m] + 1}
  BY Promoted
<1>5. ASSUME NEW n \in Members
      PROVE  received'[n] <= received[m] + 1 \/ received'[n] <= received[n]
  <2>1. CASE n = m
    BY <1>1, <2>1, Promoted
  <2>2. CASE n # m
    <3>1. received[n] \in Nat
      BY Given DEF Pos
    <3>2. Min({received[n], received[m]}) <= received[n]
      BY <1>1, <3>1, Extremes
    <3> QED
      BY <2>2, <3>2, Promoted
  <2> QED
    BY <2>1, <2>2
<1> QED
  BY <1>1, <1>2, <1>3, <1>4, <1>5, RecordLimited

LEMMA ReplayLimited ==
    ASSUME Sound, Limited, NEW m \in Members, Replay(m)
    PROVE  Limited'
<1>1. /\ Sound' /\ Extend(m) /\ m # primary
      /\ UNCHANGED <<primary, up, checkpoints, restart, row, former, paused, pc, conn, lsn, asked, synced,
                     writes, faults>>
  BY ReplaySound, ReplayOfReplica DEF Replay, job
<1>2. conn # NoMember => wal'[conn] = wal[conn]
  BY <1>1, Extended, Given
<1>3. Limit' = Limit /\ Limit \in Int
  BY <1>1, <1>2, Due DEF Limit, PromotionDue, CheckpointDue, CheckpointAhead
<1>4. ASSUME NEW n \in Members
      PROVE  received'[n] <= Limit
  <2>1. received[n] <= Limit /\ wal[n] \in Nat /\ received[n] \in Nat
    BY Given DEF Limited, Pos
  <2>2. CASE n = m
    <3>1. primary # NoMember => primary \in Members /\ wal[primary] <= received[primary]
                                /\ wal[primary] \in Nat /\ received[primary] \in Nat
                                /\ received[primary] <= Limit
      BY Given DEF Limited, Pos
    <3>2. wal[m] + 1 <= Limit
      BY <1>3, <2>1, <2>2, <3>1, ReplayOfReplica
    <3> QED
      BY <1>1, <2>1, <2>2, <3>2, Extended
  <2>3. CASE n # m
    BY <1>1, <2>1, <2>3, Extended
  <2> QED
    BY <2>2, <2>3
<1> QED
  BY <1>1, <1>3, <1>4, LimitedStays DEF Limited

LEMMA RowsLimited ==
    ASSUME Sound, Limited, NEW m \in Members,
           Connect(m) \/ Report(m) \/ Expire(m) \/ Disconnect(m)
    PROVE  Limited'
<1>1. /\ Sound'
      /\ UNCHANGED <<primary, up, wal, received, checkpoints, restart, paused, pc, conn, lsn, asked, synced,
                     writes>>
      /\ faults' \in {faults, faults + 1}
  BY RowsSound DEF Connect, Report, Expire, Disconnect, Fault, job
<1>2. Limit' >= Limit /\ Limit \in Int
  <2>1. faults' = faults => Limit' = Limit
    BY <1>1 DEF Limit, PromotionDue, CheckpointDue, CheckpointAhead
  <2>2. Limit \in Int
    BY Due
  <2> QED
    BY <1>1, <2>1, <2>2, FaultPays
<1>3. /\ wal[m] \in Nat /\ received[m] \in Nat /\ wal[m] <= received[m] /\ received[m] <= Limit
      /\ row[m] <= Limit /\ row[m] \in Nat /\ lsn <= Limit
  BY Given DEF Limited, Pos
<1>4. 0 <= Limit /\ wal[m] <= Limit
  BY <1>2, <1>3
<1>5. \A n \in Members : row'[n] <= Limit
  <2>1. \A n \in Members : row'[n] \in {row[n], wal[m], 0}
    BY DEF Connect, Report, Expire, Disconnect, Sound, Shapes
  <2> QED
    BY <1>4, <2>1 DEF Limited
<1>6. \A n \in Members : former'[n].at <= Limit
  <2>1. \A n \in Members : former'[n].at \in {former[n].at, row[m], 0}
    BY DEF Connect, Report, Expire, Disconnect, NoRow, Sound, Shapes
  <2> QED
    BY <1>3, <1>4, <2>1 DEF Limited
<1> QED
  BY <1>1, <1>2, <1>3, <1>5, <1>6, LimitedStays DEF Limited

LEMMA StopLimited ==
    ASSUME Sound, Limited, NEW m \in Members, ServerCrash(m) \/ PodLoss(m)
    PROVE  Limited'
<1>1. Sound' /\ Stop(m) /\ faults' = faults + 1
  BY StopSound DEF ServerCrash, PodLoss, Fault
<1>2. UNCHANGED <<wal, received, checkpoints, restart, paused, pc, lsn, synced, writes>>
  BY <1>1, Stopped
<1>3. Limit' >= Limit /\ Limit \in Int
  BY <1>1, <1>2, FaultPays, Due
<1>4. row[m] <= Limit /\ row[m] \in Nat /\ 0 <= Limit
  BY <1>3, Given DEF Limited
<1>5. \A n \in Members : row'[n] <= Limit
  <2>1. \A n \in Members : row'[n] \in {row[n], 0}
    BY <1>1 DEF Stop, Nobody, Sound, Shapes
  <2> QED
    BY <1>4, <2>1 DEF Limited
<1>6. \A n \in Members : former'[n].at <= Limit
  <2>1. \A n \in Members : former'[n].at \in {former[n].at, row[m], 0}
    BY DEF ServerCrash, PodLoss, NoRow, Sound, Shapes
  <2> QED
    BY <1>4, <2>1 DEF Limited
<1> QED
  BY <1>1, <1>2, <1>3, <1>5, <1>6, LimitedStays DEF Limited

LEMMA StartLimited ==
    ASSUME Sound, Limited, NEW m \in Members, Start(m) \/ WaitReplica(m)
    PROVE  Limited'
<1>1. /\ Sound'
      /\ UNCHANGED <<primary, received, checkpoints, row, former, pc, conn, lsn, writes, faults>>
  BY StartSound, WaitSound DEF Start, WaitReplica, job
<1>2. conn # NoMember => wal'[conn] = wal[conn]
  <2>1. CASE Start(m)
    <3>1. conn # NoMember => conn # m /\ conn \in Members
      BY <2>1, Given DEF Start, Sound, PrimaryMeant
    <3> QED
      BY <2>1, <3>1 DEF Start, Sound, Shapes
  <2>2. CASE WaitReplica(m)
    BY <2>2 DEF WaitReplica
  <2> QED
    BY <2>1, <2>2
<1>3. Limit' = Limit /\ Limit \in Int
  BY <1>1, <1>2, Due DEF Limit, PromotionDue, CheckpointDue, CheckpointAhead
<1> QED
  BY <1>1, <1>3, LimitedStays DEF Limited

LEMMA JobLimited ==
    ASSUME Sound, Limited, JobQuiet
    PROVE  Limited'
<1>1. /\ Sound'
      /\ UNCHANGED <<primary, up, wal, received, checkpoints, restart, row, former, writes>>
  BY JobSound
<1>2. Limit \in Int /\ 1 <= Limit
  BY Due, Given DEF Limited
<1>3. conn # NoMember => conn = primary /\ primary # NoMember
  BY Given
<1>4. Limit' >= Limit
  <2>1. CASE Killed \/ PauseAnswerLost \/ Repeat
    BY <1>1, <2>1, FaultPays DEF Killed, PauseAnswerLost, Repeat, Fault
  <2>2. CASE ~(Killed \/ PauseAnswerLost \/ Repeat)
    <3>1. CheckpointAhead' => CheckpointAhead
      <4>1. CASE ConnectPrimary
        BY <4>1 DEF ConnectPrimary, CheckpointAhead
      <4>2. CASE ReadPrimaryWalLsn
        BY <1>1, <4>2 DEF ReadPrimaryWalLsn, Query, CheckpointAhead
      <4>3. CASE ReadReplicas
        BY <1>1, <4>3 DEF ReadReplicas, Query, CheckpointAhead
      <4>4. CASE WaitReplicas
        BY <1>1, <4>4 DEF WaitReplicas, JobUnchanged, CheckpointAhead
      <4>5. CASE Compare
        <5>1. CASE wal[conn] = lsn
          BY <1>1, <1>3, <4>5, <5>1 DEF Compare, Query, CheckpointAhead
        <5>2. CASE wal[conn] # lsn
          BY <4>5, <5>2 DEF Compare, Query, CheckpointAhead
        <5> QED
          BY <5>1, <5>2
      <4>6. CASE Pause
        <5>1. CASE primary # NoMember
          BY <4>6, <5>1 DEF Pause, CheckpointAhead
        <5>2. CASE primary = NoMember
          BY <4>6, <5>2 DEF Pause, CheckpointAhead
        <5> QED
          BY <5>1, <5>2
      <4>7. CASE ConnectionLost
        BY <4>7 DEF ConnectionLost, CheckpointAhead
      <4>8. CASE Retry
        BY <4>8 DEF Retry, CheckpointAhead
      <4> QED
        BY <2>2, <4>1, <4>2, <4>3, <4>4, <4>5, <4>6, <4>7, <4>8 DEF JobQuiet
    <3>2. faults' = faults
      BY <2>2 DEF JobQuiet, ConnectPrimary, ReadPrimaryWalLsn, ReadReplicas, WaitReplicas, Compare,
         Pause, ConnectionLost, Retry, Query
    <3>3. PromotionDue' = PromotionDue /\ CheckpointDue' <= CheckpointDue
          /\ CheckpointDue' \in {0, 1} /\ CheckpointDue \in {0, 1} /\ PromotionDue \in {0, 1}
      BY <1>1, <3>1 DEF PromotionDue, CheckpointDue
    <3>4. writes \in Nat /\ faults \in Nat
      BY Due
    <3>5. Limit' = 2 + 2 * (writes + faults) - PromotionDue - CheckpointDue'
      BY <1>1, <3>2, <3>3 DEF Limit
    <3> QED
      BY <3>3, <3>4, <3>5 DEF Limit
  <2> QED
    BY <2>1, <2>2
<1>5. lsn' <= Limit
  <2>1. lsn' \in {lsn, 1} \/ (conn # NoMember /\ lsn' = wal[conn])
    BY DEF JobQuiet, ConnectPrimary, ReadPrimaryWalLsn, ReadReplicas, WaitReplicas, Compare, Pause,
         ConnectionLost, Killed, PauseAnswerLost, Retry, Repeat, JobUnchanged, Query
  <2>2. conn # NoMember => wal[conn] <= Limit
    <3>1. ASSUME conn # NoMember
          PROVE  /\ wal[conn] \in Nat /\ received[conn] \in Nat
                 /\ wal[conn] <= received[conn] /\ received[conn] <= Limit
      BY <3>1, Given DEF Limited, Pos
    <3> QED
      BY <1>2, <3>1
  <2> QED
    BY <1>2, <2>1, <2>2 DEF Limited
<1> QED
  BY <1>1, <1>4, <1>5, LimitedStays DEF Limited

LEMMA StepLimited == Sound /\ Limited /\ [Next]_vars => Limited'
<1> SUFFICES ASSUME Sound, Limited, [Next]_vars
             PROVE  Limited'
  OBVIOUS
<1>1. CASE UNCHANGED vars
  BY <1>1 DEF vars, servers, job, Limited, Limit, PromotionDue, CheckpointDue, CheckpointAhead
<1>2. CASE Next
  BY <1>2, NextCases, WriteLimited, CheckpointLimited, JobLimited, RowsLimited, ReplayLimited,
     StartLimited, PromoteLimited, StopLimited
<1> QED
  BY <1>1, <1>2

-----------------------------------------------------------------------------
(* The answers: those counted and those to come are at most as many as the *)
(* cluster has replicas, whatever rows linger.                             *)

Asked(k) == {m \in Members : asked[m] >= k}

Answers == synced + Cardinality(Asked(1)) + Cardinality(Asked(2)) <= Cardinality(Members) - 1

LEMMA SubsetsFinite ==
    ASSUME NEW S \in SUBSET Members
    PROVE  /\ IsFiniteSet(S) /\ Cardinality(S) \in Nat
           /\ Cardinality(S) <= Cardinality(Members)
BY Numbers, FS_Subset, FS_CardinalityType

LEMMA NobodyAnswers ==
    ASSUME asked' = Nobody, synced' = 0
    PROVE  Answers'
<1>1. {m \in Members : asked'[m] >= 1} = {} /\ {m \in Members : asked'[m] >= 2} = {}
  BY DEF Nobody
<1>2. Cardinality({}) = 0
  BY FS_EmptySet
<1> QED
  BY <1>1, <1>2, Numbers DEF Answers, Asked

LEMMA ReadAnswers ==
    ASSUME Sound, ReadReplicas
    PROVE  Answers'
<1> DEFINE R  == {m \in Members : row[m] >= lsn}
           F  == {m \in Members : former[m].at >= lsn}
           F1 == {m \in Members : former[m].at >= lsn /\ former[m].reachable}
<1>1. Cardinality(R) + Cardinality(F) = Cardinality(Members) - 1 /\ synced' = 0
  BY DEF ReadReplicas, Rows
<1>2. asked' = Addresses
  BY DEF ReadReplicas
<1>3. {m \in Members : asked'[m] >= 1} = R \cup F1
  BY <1>2 DEF Addresses
<1>4. {m \in Members : asked'[m] >= 2} = R \cap F1
  BY <1>2 DEF Addresses
<1>5. R \in SUBSET Members /\ F \in SUBSET Members /\ F1 \in SUBSET F /\ F1 \in SUBSET Members
  OBVIOUS
<1> HIDE DEF R, F, F1
<1>6. /\ IsFiniteSet(R) /\ IsFiniteSet(F) /\ IsFiniteSet(F1)
      /\ Cardinality(R) \in Nat /\ Cardinality(F) \in Nat /\ Cardinality(F1) \in Nat
  BY <1>5, SubsetsFinite
<1>7. Cardinality(F1) <= Cardinality(F)
  BY <1>5, <1>6, FS_Subset
<1>8. Cardinality(R \cup F1) = Cardinality(R) + Cardinality(F1) - Cardinality(R \cap F1)
  BY <1>6, FS_Union
<1>9. R \cap F1 \in SUBSET Members
  BY <1>5
<1>10. Cardinality(R \cap F1) \in Nat
  BY <1>9, SubsetsFinite
<1>11. Cardinality(R \cup F1) + Cardinality(R \cap F1) <= Cardinality(Members) - 1
  BY <1>1, <1>6, <1>7, <1>8, <1>10, Numbers
<1>12. Cardinality(R \cup F1) \in Nat
  BY <1>5, SubsetsFinite, R \cup F1 \in SUBSET Members
<1>13. Asked(1)' = R \cup F1 /\ Asked(2)' = R \cap F1
  BY <1>3, <1>4 DEF Asked
<1>14. 0 + Cardinality(R \cup F1) + Cardinality(R \cap F1) <= Cardinality(Members) - 1
  BY <1>10, <1>11, <1>12, Numbers
<1> QED
  BY <1>1, <1>13, <1>14 DEF Answers

LEMMA WaitAnswers ==
    ASSUME Sound, Answers, NEW m \in Members, WaitReplica(m)
    PROVE  Answers'
<1>1. /\ asked \in [Members -> 0 .. 2] /\ asked[m] \in 1 .. 2
      /\ asked' = [asked EXCEPT ![m] = asked[m] - 1]
      /\ synced' = synced \/ synced' = synced + 1
      /\ synced \in Nat
  BY Given DEF WaitReplica, Sound, Shapes
<1>2. asked'[m] = asked[m] - 1 /\ \A n \in Members : n # m => asked'[n] = asked[n]
  BY <1>1
<1> DEFINE A == Asked(1)
           B == Asked(2)
           A1 == {n \in Members : asked'[n] >= 1}
           B1 == {n \in Members : asked'[n] >= 2}
<1>3. A \in SUBSET Members /\ B \in SUBSET Members
  BY DEF Asked
<1>4. /\ Cardinality(A) \in Nat /\ Cardinality(B) \in Nat
      /\ IsFiniteSet(A) /\ IsFiniteSet(B)
  BY <1>3, SubsetsFinite
<1>5. CASE asked[m] = 1
  <2>1. A1 = A \ {m} /\ m \in A /\ B1 = B
    BY <1>1, <1>2, <1>5 DEF Asked
  <2>2. Asked(1)' = A1 /\ Asked(2)' = B1
    BY DEF Asked
  <2> HIDE DEF A1, B1
  <2>3. Cardinality(A1) = Cardinality(A) - 1
    BY <1>4, <2>1, FS_RemoveElement
  <2>4. synced + Cardinality(A) + Cardinality(B) <= Cardinality(Members) - 1
    BY DEF Answers
  <2> HIDE DEF A, B
  <2>5. synced' + Cardinality(A1) + Cardinality(B1) <= Cardinality(Members) - 1
    BY <1>1, <1>4, <2>1, <2>3, <2>4, Numbers
  <2> QED
    BY <2>2, <2>5 DEF Answers
<1>6. CASE asked[m] = 2
  <2>1. A1 = A /\ m \in B /\ B1 = B \ {m}
    BY <1>1, <1>2, <1>6 DEF Asked
  <2>2. Asked(1)' = A1 /\ Asked(2)' = B1
    BY DEF Asked
  <2> HIDE DEF A1, B1
  <2>3. Cardinality(B1) = Cardinality(B) - 1
    BY <1>4, <2>1, FS_RemoveElement
  <2>4. synced + Cardinality(A) + Cardinality(B) <= Cardinality(Members) - 1
    BY DEF Answers
  <2> HIDE DEF A, B
  <2>5. synced' + Cardinality(A1) + Cardinality(B1) <= Cardinality(Members) - 1
    BY <1>1, <1>4, <2>1, <2>3, <2>4, Numbers
  <2> QED
    BY <2>2, <2>5 DEF Answers
<1> QED
  BY <1>1, <1>5, <1>6

LEMMA LossAnswers ==
    ASSUME Sound, Answers, NEW m \in Members, PodLoss(m)
    PROVE  Answers'
<1>1. /\ asked \in [Members -> 0 .. 2] /\ asked' = [asked EXCEPT ![m] = 0]
      /\ synced' = synced /\ synced \in Nat
  BY Given DEF PodLoss, Stop, Sound, Shapes
<1> DEFINE A == Asked(1)
           B == Asked(2)
           A1 == {n \in Members : asked'[n] >= 1}
           B1 == {n \in Members : asked'[n] >= 2}
<1>2. A \in SUBSET Members /\ B \in SUBSET Members /\ A1 \in SUBSET A /\ B1 \in SUBSET B
  BY <1>1 DEF Asked
<1>3. A1 \in SUBSET Members /\ B1 \in SUBSET Members
  BY <1>2
<1> HIDE DEF A, B, A1, B1
<1>4. /\ Cardinality(A) \in Nat /\ Cardinality(B) \in Nat /\ IsFiniteSet(A) /\ IsFiniteSet(B)
      /\ Cardinality(A1) \in Nat /\ Cardinality(B1) \in Nat
  BY <1>2, <1>3, SubsetsFinite
<1>5. Cardinality(A1) <= Cardinality(A) /\ Cardinality(B1) <= Cardinality(B)
  BY <1>2, <1>4, FS_Subset
<1> QED
  BY <1>1, <1>4, <1>5, Numbers DEF Answers, A, B, A1, B1, Asked

LEMMA StepAnswers == Sound /\ Answers /\ [Next]_vars => Answers'
<1> SUFFICES ASSUME Sound, Answers, [Next]_vars
             PROVE  Answers'
  OBVIOUS
<1>1. CASE UNCHANGED <<asked, synced>>
  BY <1>1 DEF Answers, Asked
<1>2. CASE Retry \/ Repeat
  BY <1>2, NobodyAnswers DEF Retry, Repeat
<1>3. ASSUME NEW m \in Members, Connect(m) \/ Report(m) \/ Expire(m) \/ Disconnect(m)
                                \/ Replay(m) \/ Start(m) \/ Promote(m) \/ ServerCrash(m)
      PROVE  Answers'
  BY <1>1, <1>3 DEF Connect, Report, Expire, Disconnect, Replay, Start, Promote, ServerCrash, Stop,
                    job
<1>4. CASE JobQuiet
  BY <1>1, <1>2, <1>4, ReadAnswers
     DEF JobQuiet, ConnectPrimary, ReadPrimaryWalLsn, WaitReplicas, Compare, Pause,
         ConnectionLost, Killed, PauseAnswerLost, JobUnchanged
<1>5. CASE UNCHANGED vars \/ Write \/ CheckpointPrimary
  BY <1>1, <1>5 DEF vars, job, Write, CheckpointPrimary
<1> QED
  BY <1>3, <1>4, <1>5, NextCases, WaitAnswers, LossAnswers

LEMMA InitAnswers == Init => Answers
<1> SUFFICES ASSUME Init
             PROVE  Answers
  OBVIOUS
<1>1. Asked(1) = {} /\ Asked(2) = {}
  BY DEF Init, Asked, Nobody
<1>2. Cardinality({}) = 0
  BY FS_EmptySet
<1> QED
  BY <1>1, <1>2, Numbers DEF Answers, Init

LEMMA TypedByInvariant == Sound /\ Limited /\ Answers => TypeOK
<1> SUFFICES ASSUME Sound, Limited, Answers
             PROVE  TypeOK
  OBVIOUS
<1>1. /\ Limit \in Int /\ writes \in 0 .. MaxWrites /\ faults \in 0 .. MaxFaults
      /\ Limit <= 2 + 2 * (writes + faults)
  BY Due DEF Sound, Shapes
<1>2. Limit <= 2 + MaxWrites + 3 * (MaxWrites + MaxFaults)
  BY <1>1, Numbers
<1>3. ASSUME NEW p \in Nat, p <= Limit
      PROVE  p \in Position \cup {0} /\ (p \in Pos => p \in Position)
  BY <1>1, <1>2, <1>3, Numbers DEF Position, Pos
<1>4. checkpoints \subseteq Position /\ lsn \in Position
  BY <1>3, Given DEF Limited, Pos
<1>5. ASSUME NEW m \in Members
      PROVE  /\ wal[m] \in Position /\ received[m] \in Position /\ restart[m] \in Position
             /\ row[m] \in Position \cup {0} /\ former[m].at \in Position \cup {0}
  <2>1. /\ wal[m] \in Nat /\ received[m] \in Nat /\ wal[m] <= received[m] /\ received[m] <= Limit
        /\ row[m] \in Nat /\ row[m] <= Limit /\ former[m].at \in Nat /\ former[m].at <= Limit
        /\ wal[m] \in Pos /\ received[m] \in Pos
    BY Given DEF Limited, Pos
  <2>2. wal[m] <= Limit
    BY <1>1, <2>1
  <2> QED
    BY <1>3, <1>4, <2>1, <2>2, Given
<1>6. /\ wal \in [Members -> Position] /\ received \in [Members -> Position]
      /\ restart \in [Members -> Position] /\ row \in [Members -> Position \cup {0}]
  BY <1>5 DEF Sound, Shapes
<1>7. former \in [Members -> [at : Position \cup {0}, reachable : BOOLEAN]]
  <2>1. \A m \in Members : former[m] \in [at : Position \cup {0}, reachable : BOOLEAN]
    BY <1>5 DEF Sound, Shapes
  <2> QED
    BY <2>1 DEF Sound, Shapes
<1>8. synced \in 0 .. Cardinality(Members) - 1
  <2>1. Asked(1) \in SUBSET Members /\ Asked(2) \in SUBSET Members
    BY DEF Asked
  <2>2. Cardinality(Asked(1)) \in Nat /\ Cardinality(Asked(2)) \in Nat /\ synced \in Nat
    BY <2>1, SubsetsFinite, Given
  <2> QED
    BY <2>2, Numbers DEF Answers
<1> QED
  BY <1>4, <1>6, <1>7, <1>8 DEF TypeOK, Sound, Shapes

(* Every variable keeps its type.  The count of synced replicas never      *)
(* exceeds the cluster's replicas, although rows and addresses are counted *)
(* twice (waitForReplicas), and the WAL stays within a bound that only     *)
(* other sessions' writes and faults extend: the job's own checkpoints do  *)
(* not keep its loop alive (syncRestorePoints).                            *)
THEOREM SyncTypes == Spec => []TypeOK
<1> DEFINE Inv == Sound /\ Limited /\ Answers
<1>1. Init => Inv
  BY InitSound, InitLimited, InitAnswers
<1>2. Inv /\ [Next]_vars => Inv'
  BY StepSound, StepLimited, StepAnswers
<1>3. Inv => TypeOK
  BY TypedByInvariant
<1> QED
  BY <1>1, <1>2, <1>3, PTL DEF Spec

-----------------------------------------------------------------------------
(* The restore points, when rows of former connections do not linger.      *)

(* m can be recovered from the checkpoint the cycle's position leads to,   *)
(* and has the WAL up to that position.                                    *)
Known(m) == restart[m] >= LastCheckpoint(lsn) /\ received[m] >= lsn

Connected == conn # NoMember

(* The replicas that have answered well.                                   *)
Answered == {m \in Members \ {conn} : asked[m] = 0 /\ Known(m)}

CycleMeant ==
    /\ pc \in {"replicas", "ask", "compare", "pause"} /\ Connected =>
        lsn <= wal[conn] /\ restart[conn] >= LastCheckpoint(lsn)
    /\ \A m \in Members : asked[m] <= 1
    /\ pc = "ask" /\ Connected => asked[conn] = 0 /\ synced <= Cardinality(Answered)
    /\ (pc = "compare" /\ Connected) \/ pc \in {"pause", "succeeded"} =>
        \A m \in Members : Known(m)

LEMMA InitCycle == Init => CycleMeant
<1> SUFFICES ASSUME Init
             PROVE  CycleMeant
  OBVIOUS
<1>1. \A m \in Members : asked[m] = 0
  BY DEF Init, Nobody
<1> QED
  BY <1>1 DEF Init, CycleMeant

(* The position's checkpoint is the same as long as nothing is written     *)
(* before it.                                                              *)
LEMMA LastStays ==
    ASSUME lsn' = lsn,
           \A c \in checkpoints \cup checkpoints' :
              c <= lsn => (c \in checkpoints <=> c \in checkpoints')
    PROVE  LastCheckpoint(lsn)' = LastCheckpoint(lsn)
<1>1. {c \in checkpoints' : c <= lsn'} = {c \in checkpoints : c <= lsn}
  OBVIOUS
<1> QED
  BY <1>1 DEF LastCheckpoint

(* Who has answered well has, after a step that changes none of it.        *)
LEMMA AnsweredStays ==
    ASSUME Sound, UNCHANGED conn,
           \A m \in Members : asked[m] = 0 => asked'[m] = 0,
           \A m \in Members : Known(m) => Known(m)'
    PROVE  /\ Cardinality(Answered) <= Cardinality(Answered')
           /\ Cardinality(Answered) \in Nat /\ Cardinality(Answered') \in Nat
<1>1. /\ Answered \in SUBSET Members /\ Answered' \in SUBSET Members
      /\ Answered \in SUBSET (Answered')
  BY DEF Answered
<1> HIDE DEF Answered
<1>2. IsFiniteSet(Answered') /\ Cardinality(Answered') \in Nat /\ Cardinality(Answered) \in Nat
  BY <1>1, SubsetsFinite
<1> QED
  BY <1>1, <1>2, FS_Subset

(* A step that takes nothing from what is known.                           *)
LEMMA CycleStays ==
    ASSUME Sound, CycleMeant, UNCHANGED <<pc, lsn, synced>>, conn' \in {conn, NoMember},
           \A m \in Members : asked'[m] \in {asked[m], 0},
           \A m \in Members : Known(m) => Known(m)',
           conn # NoMember => /\ lsn <= wal[conn] => lsn' <= wal'[conn]
                              /\ restart[conn] >= LastCheckpoint(lsn) =>
                                    restart'[conn] >= LastCheckpoint(lsn)'
    PROVE  CycleMeant'
<1>1. synced \in Nat /\ lsn \in Nat
  BY Given DEF Pos
<1>2. /\ \A m \in Members : asked'[m] <= 1
      /\ \A m \in Members : asked[m] = 0 => asked'[m] = 0
  BY DEF CycleMeant
<1>3. (pc' = "compare" /\ Connected') \/ pc' \in {"pause", "succeeded"} =>
         \A m \in Members : Known(m)'
  BY DEF CycleMeant, Connected
<1>4. CASE conn' = NoMember
  BY <1>2, <1>3, <1>4 DEF CycleMeant, Connected
<1>5. CASE conn' # NoMember
  <2>1. conn' = conn /\ conn # NoMember /\ conn \in Members /\ wal[conn] \in Nat
    BY <1>5, Given DEF Pos
  <2>2. pc' \in {"replicas", "ask", "compare", "pause"} =>
           lsn' <= wal'[conn'] /\ restart'[conn'] >= LastCheckpoint(lsn)'
    <3>1. ASSUME pc' \in {"replicas", "ask", "compare", "pause"}
          PROVE  lsn <= wal[conn] /\ restart[conn] >= LastCheckpoint(lsn)
      BY <2>1, <3>1 DEF CycleMeant, Connected
    <3> QED
      BY <2>1, <3>1
  <2>3. pc' = "ask" => asked'[conn'] = 0 /\ synced' <= Cardinality(Answered')
    <3>1. ASSUME pc' = "ask"
          PROVE  asked[conn] = 0 /\ synced <= Cardinality(Answered)
      BY <2>1, <3>1 DEF CycleMeant, Connected
    <3>2. /\ Cardinality(Answered) <= Cardinality(Answered')
          /\ Cardinality(Answered) \in Nat /\ Cardinality(Answered') \in Nat
      BY <1>2, <2>1, AnsweredStays
    <3>3. pc' = "ask" => synced <= Cardinality(Answered')
      BY <1>1, <3>1, <3>2
    <3> QED
      BY <1>2, <2>1, <3>1, <3>3
  <2> QED
    BY <1>2, <1>3, <2>1, <2>2, <2>3 DEF CycleMeant, Connected
<1> QED
  BY <1>4, <1>5

(* A record more on the primary, with or without a checkpoint.             *)
LEMMA WriteCycle ==
    ASSUME Sound, CycleMeant, Write
    PROVE  CycleMeant'
<1>1. /\ primary # NoMember /\ primary \in Members /\ Extend(primary)
      /\ UNCHANGED <<primary, up, row, former, paused, pc, conn, lsn, asked, synced, faults>>
  BY Given DEF Write, WriteCheckpoint, job
<1>2. /\ wal[primary] \in Nat /\ lsn \in Nat /\ wal[primary] = received[primary]
      /\ wal'[primary] = wal[primary] + 1 /\ received'[primary] = wal[primary] + 1
      /\ \A n \in Members : n # primary => received'[n] = received[n]
      /\ restart[primary] \in Nat /\ restart[primary] <= wal[primary]
  <2>1. wal[primary] \in Nat /\ received[primary] = wal[primary]
    BY <1>1, Given DEF Sound, PrimaryMeant, Pos
  <2> QED
    BY <1>1, <2>1, Extended, Given DEF Pos
<1>3. \/ UNCHANGED <<checkpoints, restart>>
      \/ /\ checkpoints' = checkpoints \cup {wal[primary] + 1}
         /\ restart' = [restart EXCEPT ![primary] = wal[primary] + 1]
  BY DEF Write, WriteCheckpoint
<1>4. ASSUME lsn <= wal[primary]
      PROVE  /\ LastCheckpoint(lsn)' = LastCheckpoint(lsn)
             /\ \A m \in Members : Known(m) => Known(m)'
             /\ restart[primary] >= LastCheckpoint(lsn) => restart'[primary] >= LastCheckpoint(lsn)'
  <2>1. ASSUME NEW c \in checkpoints \cup checkpoints', c <= lsn
        PROVE  c \in checkpoints <=> c \in checkpoints'
    BY <1>2, <1>3, <1>4, <2>1
  <2>2. LastCheckpoint(lsn)' = LastCheckpoint(lsn)
    BY <1>1, <2>1, LastStays
  <2>3. LastCheckpoint(lsn) \in Nat /\ LastCheckpoint(lsn) <= lsn
    BY LastIs, Given DEF Pos
  <2>4. ASSUME NEW m \in Members
        PROVE  /\ restart'[m] = restart[m] \/ (m = primary /\ restart'[m] = wal[primary] + 1)
               /\ received'[m] = received[m] \/ (m = primary /\ received'[m] = wal[primary] + 1)
    BY <1>2, <1>3 DEF Sound, Shapes
  <2>5. ASSUME NEW m \in Members, restart[m] >= LastCheckpoint(lsn)
        PROVE  restart'[m] >= LastCheckpoint(lsn)'
    BY <1>2, <1>4, <2>2, <2>3, <2>4, <2>5
  <2>6. ASSUME NEW m \in Members, received[m] >= lsn
        PROVE  received'[m] >= lsn'
    BY <1>1, <1>2, <1>4, <2>4, <2>6
  <2> QED
    BY <1>1, <2>2, <2>5, <2>6 DEF Known
<1>5. CASE lsn <= wal[primary]
  <2>1. conn # NoMember => conn = primary
    BY Given
  <2>2. lsn <= wal[primary] => lsn' <= wal'[primary]
    BY <1>1, <1>2
  <2> QED
    BY <1>1, <1>4, <1>5, <2>1, <2>2, CycleStays
<1>6. CASE ~(lsn <= wal[primary])
  <2>1. ~(pc \in {"replicas", "ask", "compare", "pause"} /\ Connected)
    BY <1>6, Given DEF CycleMeant, Connected
  <2>2. ~Known(primary)
    BY <1>2, <1>6 DEF Known
  <2>3. ~((pc = "compare" /\ Connected) \/ pc \in {"pause", "succeeded"})
    BY <1>1, <2>2 DEF CycleMeant
  <2> QED
    BY <1>1, <2>1, <2>3 DEF CycleMeant, Connected
<1> QED
  BY <1>5, <1>6

(* The connections, the restarts and the replay take nothing away.         *)
LEMMA ServersCycle ==
    ASSUME Sound, CycleMeant, NEW m \in Members,
           \/ Connect(m) \/ Report(m) \/ Expire(m) \/ Disconnect(m)
           \/ Replay(m) \/ Start(m) \/ ServerCrash(m) \/ PodLoss(m)
    PROVE  CycleMeant'
<1>1. UNCHANGED <<checkpoints, restart, lsn, pc, synced>> /\ conn' \in {conn, NoMember}
  BY DEF Connect, Report, Expire, Disconnect, Replay, Start, ServerCrash, PodLoss, Stop, job
<1>2. \A n \in Members : asked'[n] \in {asked[n], 0}
  BY DEF Connect, Report, Expire, Disconnect, Replay, Start, ServerCrash, PodLoss, Stop, job,
         Sound, Shapes
<1>3. \A n \in Members : received'[n] >= received[n] /\ received[n] \in Nat /\ received'[n] \in Nat
  <2>1. \A n \in Members : received[n] \in Nat
    BY Given DEF Pos
  <2>2. CASE Replay(m)
    <3>1. Extend(m) /\ wal[m] \in Nat
      BY <2>2, Given DEF Replay, Pos
    <3> QED
      BY <2>1, <3>1, Extended
  <2>3. CASE ~Replay(m)
    BY <2>1, <2>3
       DEF Connect, Report, Expire, Disconnect, Start, ServerCrash, PodLoss, Stop
  <2> QED
    BY <2>2, <2>3
<1>4. LastCheckpoint(lsn)' = LastCheckpoint(lsn)
  BY <1>1, LastStays
<1>5. \A n \in Members : Known(n) => Known(n)'
  BY <1>1, <1>3, <1>4, Given DEF Known, Pos
<1>6. conn # NoMember => wal'[conn] = wal[conn] /\ conn \in Members /\ wal[conn] \in Nat
  <2>1. ASSUME conn # NoMember
        PROVE  wal'[conn] = wal[conn] /\ conn \in Members /\ wal[conn] \in Nat
    <3>1. conn = primary /\ conn \in Members /\ wal[conn] \in Nat /\ primary \in up
      BY <2>1, Given DEF Sound, PrimaryMeant, Pos
    <3>2. CASE Replay(m)
      BY <3>1, <3>2, ReplayOfReplica, Extended DEF Replay
    <3>3. CASE Start(m)
      BY <3>1, <3>3 DEF Start, Sound, Shapes
    <3>4. CASE ~Replay(m) /\ ~Start(m)
      BY <3>1, <3>4 DEF Connect, Report, Expire, Disconnect, ServerCrash, PodLoss, Stop
    <3> QED
      BY <3>1, <3>2, <3>3, <3>4
  <2> QED
    BY <2>1
<1>7. conn # NoMember => (lsn <= wal[conn] => lsn' <= wal'[conn])
  BY <1>1, <1>6
<1> QED
  BY <1>1, <1>2, <1>4, <1>5, <1>7, CycleStays

(* Whoever is promoted has the WAL up to the position, and nobody loses    *)
(* what lies before it.                                                    *)
LEMMA PromoteCycle ==
    ASSUME Sound, CycleMeant, NEW m \in Members, Promote(m)
    PROVE  CycleMeant'
<1>1. /\ received[m] \in Pos /\ received[m] \in Nat /\ lsn \in Pos /\ lsn \in Nat
      /\ conn = NoMember /\ UNCHANGED <<pc, conn, lsn, asked, synced>>
  BY Promoted, Given DEF Sound, PrimaryMeant, Pos
<1>2. CASE ~(pc \in {"pause", "succeeded"})
  BY <1>1, <1>2 DEF CycleMeant, Connected
<1>3. CASE pc \in {"pause", "succeeded"}
  <2> DEFINE last == LastCheckpoint(lsn)
  <2>1. \A n \in Members : Known(n)
    BY <1>3 DEF CycleMeant
  <2>2. lsn <= received[m]
    BY <1>1, <2>1 DEF Known
  <2>3. LastCheckpoint(lsn)' = last
    <3>1. ASSUME NEW c \in checkpoints \cup checkpoints', c <= lsn
          PROVE  c \in checkpoints <=> c \in checkpoints'
      <4>1. c \in Nat
        BY <1>1, Given, Promoted DEF Pos
      <4> QED
        BY <1>1, <2>2, <3>1, <4>1, Promoted
    <3> QED
      BY <1>1, <3>1, LastStays
  <2>4. last \in Nat /\ last <= lsn /\ last \in checkpoints
    BY <1>1, LastIs DEF Pos
  <2>5. ASSUME NEW n \in Members
        PROVE  restart'[n] >= last /\ received'[n] >= lsn
    <3>1. /\ restart[n] \in Nat /\ received[n] \in Nat
          /\ restart[n] >= last /\ received[n] >= lsn
      BY <2>1, Given DEF Known, Pos
    <3>2. CASE n = m
      <4>1. restart'[n] = received[m] + 1 /\ received'[n] = received[m] + 1
        BY <3>2, Promoted
      <4> HIDE DEF last
      <4> QED
        BY <1>1, <2>2, <2>4, <4>1
    <3>3. CASE n # m
      <4> DEFINE r == Min({restart[n], received[m]})
                 d == Min({received[n], received[m]})
      <4>1. /\ r \in {restart[n], received[m]} /\ d \in {received[n], received[m]}
            /\ r \in Pos
        BY <1>1, <3>1, <3>3, Extremes, Promoted
      <4>2. restart'[n] = LastCheckpoint(r) /\ received'[n] = d
        BY <3>3, Promoted
      <4> HIDE DEF r, d
      <4>3. last <= r
        <5> HIDE DEF last
        <5> QED
          BY <1>1, <2>2, <2>4, <3>1, <4>1
      <4>4. last <= LastCheckpoint(r)
        BY <2>4, <4>1, <4>3, LastIs
      <4>5. LastCheckpoint(r) \in Nat
        BY <4>1, LastIs DEF Pos
      <4> HIDE DEF last
      <4>6. d >= lsn
        BY <1>1, <2>2, <3>1, <4>1
      <4> QED
        BY <2>4, <4>2, <4>4, <4>5, <4>6
    <3> QED
      BY <3>2, <3>3
  <2>6. \A n \in Members : Known(n)'
    BY <1>1, <2>3, <2>5 DEF Known
  <2> QED
    BY <1>1, <1>3, <2>6 DEF CycleMeant, Connected
<1> QED
  BY <1>2, <1>3

(* An answer that is counted comes from a replica that is known.           *)
LEMMA WaitCycle ==
    ASSUME Sound, CycleMeant, NEW m \in Members, WaitReplica(m)
    PROVE  CycleMeant'
<1>1. /\ UNCHANGED <<wal, received, checkpoints, conn, lsn>> /\ pc = "ask" /\ pc' = "ask"
      /\ asked[m] > 0 /\ asked' = [asked EXCEPT ![m] = asked[m] - 1]
      /\ asked \in [Members -> 0 .. 2] /\ restart \in [Members -> Pos]
      /\ asked[m] <= 1 /\ synced \in Nat /\ lsn \in Pos /\ lsn \in Nat
      /\ wal[m] \in Pos /\ wal[m] \in Nat /\ received[m] \in Nat /\ wal[m] <= received[m]
  BY Given DEF WaitReplica, Sound, Shapes, CycleMeant, Pos
<1>2. asked'[m] = 0 /\ \A n \in Members : n # m => asked'[n] = asked[n]
  BY <1>1
<1>3. \A n \in Members : asked'[n] <= 1
  BY <1>2 DEF CycleMeant
<1>4. CASE conn = NoMember
  BY <1>1, <1>3, <1>4 DEF CycleMeant, Connected
<1>5. CASE conn # NoMember
  <2>1. /\ conn \in Members /\ lsn <= wal[conn] /\ restart[conn] >= LastCheckpoint(lsn)
        /\ asked[conn] = 0 /\ synced <= Cardinality(Answered)
    BY <1>1, <1>5, Given DEF CycleMeant, Connected
  <2>2. conn # m /\ asked'[conn] = 0
    BY <1>1, <1>2, <2>1
  <2>3. LastCheckpoint(lsn)' = LastCheckpoint(lsn)
    BY <1>1, LastStays
  <2>4. \A n \in Members : n # m => restart'[n] = restart[n]
    BY <1>1 DEF WaitReplica
  <2>5. Answered \in SUBSET (Answered') /\ m \notin Answered
    BY <1>1, <1>2, <2>3, <2>4 DEF Answered, Known
  <2>6. Answered \in SUBSET Members /\ Answered' \in SUBSET Members
    BY DEF Answered
  <2> HIDE DEF Answered
  <2>7. /\ IsFiniteSet(Answered) /\ IsFiniteSet(Answered')
        /\ Cardinality(Answered) \in Nat /\ Cardinality(Answered') \in Nat
        /\ Cardinality(Answered) <= Cardinality(Answered')
    BY <2>5, <2>6, SubsetsFinite, FS_Subset
  <2>8. synced' <= Cardinality(Answered')
    <3>1. CASE CaughtUp(m)
      <4>1. /\ synced' = synced + 1 /\ wal[m] >= lsn
            /\ restart' = [restart EXCEPT ![m] = LastCheckpoint(wal[m])]
        BY <3>1 DEF WaitReplica, CaughtUp
      <4>2. /\ LastCheckpoint(lsn) \in checkpoints /\ LastCheckpoint(lsn) <= lsn
            /\ LastCheckpoint(lsn) \in Nat
        BY <1>1, LastIs DEF Pos
      <4>3. LastCheckpoint(lsn) <= wal[m]
        BY <1>1, <4>1, <4>2
      <4>4. LastCheckpoint(lsn) <= LastCheckpoint(wal[m])
        BY <1>1, <4>2, <4>3, LastIs
      <4>5. LastCheckpoint(wal[m]) \in Nat
        BY <1>1, LastIs DEF Pos
      <4>6. restart'[m] = LastCheckpoint(wal[m])
        BY <1>1, <4>1
      <4>7. restart'[m] >= LastCheckpoint(lsn)'
        BY <2>3, <4>2, <4>4, <4>5, <4>6
      <4>8. received'[m] >= lsn'
        BY <1>1, <4>1
      <4>9. m \in Answered'
        BY <1>1, <1>2, <2>2, <4>7, <4>8 DEF Answered, Known
      <4>10. Cardinality(Answered \cup {m}) = Cardinality(Answered) + 1
        BY <2>5, <2>7, FS_AddElement
      <4>11. Answered \cup {m} \in SUBSET (Answered')
        BY <2>5, <4>9
      <4>12. Cardinality(Answered \cup {m}) <= Cardinality(Answered')
        BY <2>7, <4>11, FS_Subset
      <4> QED
        BY <1>1, <2>1, <2>7, <4>1, <4>10, <4>12
    <3>2. CASE ~CaughtUp(m)
      <4>1. synced' = synced
        BY <3>2 DEF WaitReplica
      <4> QED
        BY <1>1, <2>1, <2>7, <4>1
    <3> QED
      BY <3>1, <3>2
  <2>9. lsn' <= wal'[conn'] /\ restart'[conn'] >= LastCheckpoint(lsn)' /\ asked'[conn'] = 0
    BY <1>1, <2>1, <2>2, <2>3, <2>4
  <2> QED
    BY <1>1, <1>3, <2>8, <2>9 DEF CycleMeant, Connected
<1> QED
  BY <1>4, <1>5

(* The position is read after the checkpoint: it leads to the primary's.   *)
LEMMA PositionCycle ==
    ASSUME Sound, CycleMeant, ReadPrimaryWalLsn
    PROVE  CycleMeant'
<1>1. /\ UNCHANGED <<wal, received, checkpoints, restart, conn, asked, synced>>
      /\ conn # NoMember /\ conn = primary /\ conn \in Members /\ pc' = "replicas"
      /\ lsn' = wal[conn]
  BY Given DEF ReadPrimaryWalLsn, Query, servers
<1>2. wal[conn] \in Nat /\ wal[conn] \in Pos /\ restart[conn] \in Nat
  BY <1>1, Given DEF Pos
<1>3. LastCheckpoint(wal[conn]) \in checkpoints /\ LastCheckpoint(wal[conn]) \in Nat
  BY <1>2, LastIs DEF Pos
<1>4. LastCheckpoint(lsn)' = LastCheckpoint(wal[conn])
  BY <1>1 DEF LastCheckpoint
<1>5. LastCheckpoint(wal[conn]) <= restart[conn]
  BY <1>1, <1>3 DEF Sound, PrimaryMeant
<1>6. lsn' <= wal'[conn'] /\ restart'[conn'] >= LastCheckpoint(lsn)'
  BY <1>1, <1>2, <1>3, <1>4, <1>5
<1>7. \A m \in Members : asked'[m] <= 1
  BY <1>1 DEF CycleMeant
<1> QED
  BY <1>1, <1>6, <1>7 DEF CycleMeant, Connected

(* One address for each replica, and none for the primary.                 *)
LEMMA ReplicasCycle ==
    ASSUME ~FormerRows, Sound, CycleMeant, ReadReplicas
    PROVE  CycleMeant'
<1>1. /\ UNCHANGED <<wal, received, checkpoints, restart, conn, lsn>>
      /\ conn # NoMember /\ conn = primary /\ conn \in Members /\ primary # NoMember
      /\ pc = "replicas" /\ pc' = "ask"
      /\ asked' = Addresses /\ synced' = 0
  BY Given DEF ReadReplicas, Query, servers
<1>2. \A m \in Members : Addresses[m] = IF row[m] >= lsn THEN 1 ELSE 0
  BY DEF Addresses, Sound, FormerMeant
<1>3. \A m \in Members : asked'[m] <= 1
  BY <1>1, <1>2
<1>4. lsn \in Nat /\ lsn # 0 /\ row[conn] = 0
  BY <1>1, Given DEF Pos, Sound, PrimaryMeant
<1>5. asked'[conn] = 0
  BY <1>1, <1>2, <1>4
<1>6. lsn <= wal[conn] /\ restart[conn] >= LastCheckpoint(lsn)
  BY <1>1 DEF CycleMeant, Connected
<1>7. LastCheckpoint(lsn)' = LastCheckpoint(lsn)
  BY <1>1, LastStays
<1>8. Answered' \in SUBSET Members
  BY DEF Answered
<1>9. synced' <= Cardinality(Answered')
  BY <1>1, <1>8, SubsetsFinite
<1> QED
  BY <1>1, <1>3, <1>5, <1>6, <1>7, <1>9 DEF CycleMeant, Connected

(* As many good answers as there are replicas are all of them.             *)
LEMMA AllAnswered ==
    ASSUME Sound, CycleMeant, pc = "ask", conn # NoMember, AllSynced
    PROVE  \A m \in Members : Known(m)
<1>1. /\ conn \in Members /\ lsn <= wal[conn] /\ restart[conn] >= LastCheckpoint(lsn)
      /\ synced <= Cardinality(Answered) /\ synced = Cardinality(Members) - 1
      /\ wal[conn] <= received[conn]
      /\ lsn \in Nat /\ wal[conn] \in Nat /\ received[conn] \in Nat
  BY Given DEF CycleMeant, Connected, AllSynced, Pos
<1>2. Known(conn)
  <2>1. received[conn] >= lsn
    BY <1>1
  <2> QED
    BY <1>1, <2>1 DEF Known
<1> DEFINE Others == Members \ {conn}
<1>3. IsFiniteSet(Others) /\ Cardinality(Others) = Cardinality(Members) - 1
  BY <1>1, Numbers, FS_RemoveElement
<1>4. Answered \in SUBSET Others
  BY DEF Answered
<1> HIDE DEF Others
<1>5. Cardinality(Answered) \in Nat /\ Cardinality(Answered) <= Cardinality(Others)
  BY <1>3, <1>4, FS_Subset, FS_CardinalityType
<1>6. Cardinality(Answered) = Cardinality(Others)
  BY <1>1, <1>3, <1>5, Numbers
<1>7. Answered = Others
  BY <1>3, <1>4, <1>6, FS_Subset
<1> QED
  BY <1>2, <1>7 DEF Answered, Others

LEMMA JobCycle ==
    ASSUME ~FormerRows, Sound, CycleMeant, JobQuiet
    PROVE  CycleMeant'
<1>1. UNCHANGED <<primary, wal, received, checkpoints, restart>>
  BY JobSound
<1>2. CASE ReadPrimaryWalLsn \/ ReadReplicas
  BY <1>2, PositionCycle, ReplicasCycle
<1>3. CASE WaitReplicas
  <2>1. /\ pc = "ask" /\ UNCHANGED <<conn, lsn, asked, synced>>
        /\ pc' = IF AllSynced THEN "compare" ELSE "replicas"
    BY <1>3 DEF WaitReplicas, JobUnchanged
  <2>2. LastCheckpoint(lsn)' = LastCheckpoint(lsn)
    BY <1>1, <2>1, LastStays
  <2>3. AllSynced /\ conn # NoMember => \A m \in Members : Known(m)'
    BY <1>1, <2>1, <2>2, AllAnswered DEF Known
  <2>4. conn # NoMember => lsn <= wal[conn] /\ restart[conn] >= LastCheckpoint(lsn)
    BY <2>1 DEF CycleMeant, Connected
  <2> QED
    BY <1>1, <2>1, <2>2, <2>3, <2>4 DEF CycleMeant, Connected
<1>4. CASE Compare \/ Pause
  <2>1. /\ UNCHANGED <<conn, lsn, asked, synced>>
        /\ \/ /\ pc = "compare" /\ conn # NoMember
              /\ pc' \in {"pause", "checkpoint"}
           \/ pc = "pause" /\ pc' \in {"succeeded", "failed"}
    BY <1>4 DEF Compare, Pause, Query, JobUnchanged
  <2>2. LastCheckpoint(lsn)' = LastCheckpoint(lsn)
    BY <1>1, <2>1, LastStays
  <2>3. \A m \in Members : Known(m)'
    BY <1>1, <2>1, <2>2 DEF CycleMeant, Connected, Known
  <2>4. pc = "compare" => lsn <= wal[conn] /\ restart[conn] >= LastCheckpoint(lsn)
    BY <2>1 DEF CycleMeant, Connected
  <2> QED
    BY <1>1, <2>1, <2>2, <2>3, <2>4 DEF CycleMeant, Connected
<1>5. CASE ConnectPrimary \/ ConnectionLost \/ Killed \/ PauseAnswerLost \/ Retry \/ Repeat
  <2>1. pc' \in {"checkpoint", "failed", "connect"} /\ asked' \in {asked, Nobody}
    BY <1>5 DEF ConnectPrimary, ConnectionLost, Killed, PauseAnswerLost, Retry, Repeat, JobUnchanged
  <2>2. \A m \in Members : asked'[m] <= 1
    BY <2>1 DEF CycleMeant, Nobody
  <2> QED
    BY <2>1, <2>2 DEF CycleMeant
<1> QED
  BY <1>2, <1>3, <1>4, <1>5 DEF JobQuiet

LEMMA StepCycle ==
    ASSUME ~FormerRows
    PROVE  Sound /\ CycleMeant /\ [Next]_vars => CycleMeant'
<1> SUFFICES ASSUME Sound, CycleMeant, [Next]_vars
             PROVE  CycleMeant'
  OBVIOUS
<1>1. CASE UNCHANGED vars
  <2>1. LastCheckpoint(lsn)' = LastCheckpoint(lsn)
    BY <1>1, LastStays DEF vars, servers, job
  <2>2. UNCHANGED <<conn, asked>> /\ \A m \in Members : Known(m)' <=> Known(m)
    BY <1>1, <2>1 DEF vars, servers, job, Known
  <2>3. Answered' = Answered
    BY <2>2 DEF Answered
  <2> QED
    BY <1>1, <2>1, <2>2, <2>3 DEF vars, servers, job, CycleMeant, Connected
<1>2. CASE CheckpointPrimary
  <2>1. pc' = "position" /\ asked' = asked
    BY <1>2, CheckpointPrimarySound
  <2> QED
    BY <2>1 DEF CycleMeant
<1>3. CASE Next
  BY <1>2, <1>3, NextCases, WriteCycle, JobCycle, ServersCycle, PromoteCycle, WaitCycle
<1> QED
  BY <1>1, <1>3

(* Once the job goes on to pause Patroni, every server can be recovered    *)
(* from the checkpoint the last cycle made on the primary, or from a later *)
(* one, for any number of servers and of faults, when no row of a former   *)
(* connection answers for a replica that is counted already: with such a   *)
(* row the count is reached without everybody (syncRestorePoints).         *)
THEOREM RestorePointsStaySynced == ASSUME ~FormerRows PROVE Spec => []RestorePointsSynced
<1> DEFINE Inv == Sound /\ CycleMeant
<1>1. Init => Inv
  BY InitSound, InitCycle
<1>2. Inv /\ [Next]_vars => Inv'
  BY StepSound, StepCycle
<1>3. Inv => RestorePointsSynced
  BY DEF CycleMeant, Known, RestorePointsSynced
<1> QED
  BY <1>1, <1>2, <1>3, PTL DEF Spec

(* The loop ends only when all control files name the primary's last       *)
(* checkpoint: it has the position's, nothing follows the position, and no *)
(* control file is ahead of it (syncRestorePoints).                        *)
THEOREM LoopEndsAtOneCheckpoint == ASSUME ~FormerRows PROVE Spec => LatestCheckpointShared
<1> DEFINE Inv == Sound /\ CycleMeant
           Shared == pc = "compare" /\ pc' = "pause" =>
                        \A m \in Members : restart[m] = LastCheckpoint(wal[primary])
<1>1. Init => Inv
  BY InitSound, InitCycle
<1>2. Inv /\ [Next]_vars => Inv'
  BY StepSound, StepCycle
<1>3. Inv /\ [Next]_vars => Shared
  <2> SUFFICES ASSUME Inv, [Next]_vars, pc = "compare", pc' = "pause", NEW m \in Members
               PROVE  restart[m] = LastCheckpoint(wal[primary])
    OBVIOUS
  <2>1. Compare /\ wal[conn] = lsn /\ conn # NoMember
    <3>1. ~ UNCHANGED vars
      BY DEF vars, job
    <3>2. pc' # pc /\ Next
      BY <3>1
    <3> QED
      BY <3>2
         DEF Next, Server, Sync, Write, Connect, Replay, Report, Expire, Start, Promote, Disconnect,
             ServerCrash, PodLoss, Stop, ConnectPrimary, CheckpointPrimary, ReadPrimaryWalLsn,
             ReadReplicas, WaitReplica, WaitReplicas, Compare, Pause, ConnectionLost, Retry, Killed,
             PauseAnswerLost, Repeat, Query, job
  <2>2. conn = primary /\ primary # NoMember /\ Known(m)
    BY <2>1, Given DEF CycleMeant, Connected
  <2>3. /\ primary \in Members /\ wal[primary] = lsn
        /\ lsn \in Pos /\ lsn \in Nat /\ wal[primary] \in Pos
        /\ restart[m] \in Nat /\ restart[m] \in checkpoints
        /\ restart[primary] \in Nat /\ restart[primary] <= wal[primary]
    BY <2>1, <2>2, Given DEF Pos
  <2>4. restart[m] <= restart[primary]
    BY <2>2, <2>3 DEF Sound, PrimaryMeant
  <2>5. restart[m] <= lsn
    BY <2>3, <2>4
  <2>6. restart[m] <= LastCheckpoint(lsn) /\ LastCheckpoint(lsn) \in Nat
    BY <2>3, <2>5, LastIs DEF Pos
  <2>7. restart[m] >= LastCheckpoint(lsn)
    BY <2>2 DEF Known
  <2> QED
    BY <2>3, <2>6, <2>7
<1>4. Spec => [][Shared]_vars
  BY <1>1, <1>2, <1>3, PTL DEF Spec
<1> QED
  BY <1>4 DEF LatestCheckpointShared
====
