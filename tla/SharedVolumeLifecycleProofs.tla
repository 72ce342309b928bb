---------------------- MODULE SharedVolumeLifecycleProofs ----------------------
(***************************************************************************)
(* Of the lifecycle: it leaves nothing stray.                              *)
(***************************************************************************)
EXTENDS SharedVolumeLifecycle, TLAPS

LEMMA LifecycleInit == Init => TypeOK /\ NothingStray
BY DEF Init, TypeOK, NothingStray, Lives, Presences

LEMMA LifecycleType == TypeOK /\ [Next]_vars => TypeOK'
<1>. SUFFICES ASSUME TypeOK, [Next]_vars PROVE TypeOK'
  OBVIOUS
<1>1. ASSUME NEW s \in Names, Appear(s) \/ Guard(s) \/ Leave(s) \/ Release(s)
      PROVE  TypeOK'
  BY <1>1 DEF Appear, Guard, Leave, Release, Live, TypeOK, Lives
<1>2. ASSUME NEW s \in Names, MakeClaim(s) \/ DropClaim(s) \/ ClaimGone(s)
      PROVE  TypeOK'
  BY <1>2 DEF MakeClaim, DropClaim, ClaimGone, TypeOK, Presences
<1>3. ASSUME NEW n \in VolumeNames, MakeVolume(n) \/ DropVolume(n) \/ VolumeGone(n)
      PROVE  TypeOK'
  BY <1>3 DEF MakeVolume, DropVolume, VolumeGone, TypeOK, Presences
<1>4. CASE UNCHANGED vars
  BY <1>4 DEF vars, TypeOK
<1>. QED BY <1>1, <1>2, <1>3, <1>4 DEF Next

\* A resource is made for one that is held; one that is held stays so until it is
\* released, and then its resources are no longer live.
LEMMA StrayStep ==
    ASSUME Informed, TypeOK, NothingStray, [Next]_vars
    PROVE  NothingStray'
<1>1. ASSUME NEW s \in Names, NEW from, NEW to \in SUBSET Lives, Live(s, from, to),
             life[s] \in Held => to \subseteq Held \/ (claim[s] # "live" /\ volume[volumeOf[s]] # "live")
      PROVE  NothingStray'
  <2>1. PICK next \in to : life' = [life EXCEPT ![s] = next]
    BY <1>1 DEF Live
  <2>2. UNCHANGED <<volume, claim>>
    BY <1>1 DEF Live
  <2>3. \A t \in Names : life'[t] = IF t = s THEN next ELSE life[t]
    BY <2>1 DEF TypeOK
  <2>4. ASSUME NEW n \in VolumeNames, volume[n] = "live"
        PROVE  \E t \in Names : volumeOf[t] = n /\ life'[t] \in Held
    <3>1. PICK t \in Names : volumeOf[t] = n /\ life[t] \in Held
      BY <2>4 DEF NothingStray
    <3>2. CASE t # s
      BY <2>3, <3>1, <3>2
    <3>3. CASE t = s
      BY <1>1, <2>1, <2>3, <2>4, <3>1, <3>3
    <3>. QED BY <3>2, <3>3
  <2>5. ASSUME NEW t \in Names, claim[t] = "live"
        PROVE  life'[t] \in Held
    BY <1>1, <2>1, <2>3, <2>5 DEF NothingStray
  <2>. QED BY <2>2, <2>4, <2>5 DEF NothingStray
<1>2. ASSUME NEW s \in Names, Appear(s) \/ Guard(s) \/ Leave(s) \/ Release(s)
      PROVE  NothingStray'
  <2>1. CASE Appear(s)
    BY <1>1, <2>1 DEF Appear, Live, Lives, Held
  <2>2. CASE Guard(s)
    BY <1>1, <2>2 DEF Guard, Live, Lives, Held
  <2>3. CASE Leave(s)
    <3>1. CASE Live(s, {"fresh"}, {"absent", "released"})
      BY <1>1, <3>1 DEF Live, Lives, Held
    <3>2. CASE Live(s, {"guarded"}, {"leaving"})
      BY <1>1, <3>2 DEF Live, Lives, Held
    <3>3. CASE Live(s, {"released"}, {"absent"})
      BY <1>1, <3>3 DEF Live, Lives, Held
    <3>. QED BY <2>3, <3>1, <3>2, <3>3 DEF Leave
  <2>4. CASE Release(s)
    BY <1>1, <2>4 DEF Release, Lives
  <2>. QED BY <1>2, <2>1, <2>2, <2>3, <2>4
<1>3. ASSUME NEW s \in Names, MakeClaim(s) \/ DropClaim(s) \/ ClaimGone(s)
      PROVE  NothingStray'
  BY <1>3 DEF MakeClaim, DropClaim, ClaimGone, NothingStray, TypeOK
<1>4. ASSUME NEW n \in VolumeNames, MakeVolume(n) \/ DropVolume(n) \/ VolumeGone(n)
      PROVE  NothingStray'
  BY <1>4 DEF MakeVolume, DropVolume, VolumeGone, NothingStray, TypeOK
<1>5. CASE UNCHANGED vars
  BY <1>5 DEF vars, NothingStray
<1>. QED BY <1>2, <1>3, <1>4, <1>5 DEF Next

\* If the operator knows what it has created, no live PV or PVC is ever without a
\* SharedVolume that will see to its deletion.
THEOREM StraysNever == ASSUME Informed PROVE Spec => []NothingStray
<1>1. NothingStray /\ TypeOK /\ [Next]_vars => NothingStray'
  BY StrayStep
<1>. QED BY <1>1, LifecycleInit, LifecycleType, PTL DEF Spec

-----------------------------------------------------------------------------
(* With patient users, and nobody else to delete. *)

\* Every SharedVolume has a PV of its own.
OwnVolumes ==
    /\ volumeOf \in [Names -> VolumeNames]
    /\ \A s, t \in Names : volumeOf[s] = volumeOf[t] => s = t

Orderly == Patient /\ Informed /\ Alone /\ OwnVolumes

\* A SharedVolume nobody deleted came to a clean place, and only one that is leaving
\* has its resources deleted.
LEMMA WithdrawnStep ==
    ASSUME Orderly, TypeOK, NothingWithdrawn, [Next]_vars
    PROVE  NothingWithdrawn'
<1>1. ASSUME NEW s \in Names, NEW from, NEW to \in SUBSET Lives, Live(s, from, to),
             life[s] \notin {"fresh", "guarded"} =>
                to \cap {"fresh", "guarded"} = {} \/
                (claim[s] # "going" /\ volume[volumeOf[s]] # "going")
      PROVE  NothingWithdrawn'
  <2>1. PICK next \in to : life' = [life EXCEPT ![s] = next]
    BY <1>1 DEF Live
  <2>2. \A t \in Names : life'[t] = IF t = s THEN next ELSE life[t]
    BY <2>1 DEF TypeOK
  <2>. QED BY <1>1, <2>1, <2>2 DEF NothingWithdrawn, Live
<1>2. ASSUME NEW s \in Names, Appear(s) \/ Guard(s) \/ Leave(s) \/ Release(s)
      PROVE  NothingWithdrawn'
  <2>1. CASE Appear(s)
    BY <1>1, <2>1 DEF Appear, Lives, Orderly
  <2>2. CASE Guard(s)
    BY <1>1, <2>2 DEF Guard, Live, Lives
  <2>3. CASE Leave(s)
    BY <1>1, <2>3 DEF Leave, Live, Lives
  <2>4. CASE Release(s)
    BY <1>1, <2>4 DEF Release, Lives
  <2>. QED BY <1>2, <2>1, <2>2, <2>3, <2>4
<1>3. ASSUME NEW s \in Names, MakeClaim(s) \/ DropClaim(s) \/ ClaimGone(s)
      PROVE  NothingWithdrawn'
  BY <1>3 DEF MakeClaim, DropClaim, ClaimGone, NothingWithdrawn, TypeOK, Orderly
<1>4. ASSUME NEW n \in VolumeNames, MakeVolume(n) \/ DropVolume(n) \/ VolumeGone(n)
      PROVE  NothingWithdrawn'
  <2>1. \A s \in Names : volumeOf[s] \in VolumeNames
    BY DEF Orderly, OwnVolumes
  <2>2. CASE MakeVolume(n) \/ VolumeGone(n)
    BY <2>1, <2>2 DEF MakeVolume, VolumeGone, NothingWithdrawn, TypeOK
  <2>3. CASE DropVolume(n)
    <3>1. PICK s \in Names : volumeOf[s] = n /\ life[s] = "leaving"
      BY <2>3 DEF DropVolume, Orderly
    <3>2. \A t \in Names : volumeOf[t] = n => t = s
      BY <3>1 DEF Orderly, OwnVolumes
    <3>. QED BY <2>1, <2>3, <3>1, <3>2 DEF DropVolume, NothingWithdrawn, TypeOK
  <2>. QED BY <1>4, <2>2, <2>3
<1>5. CASE UNCHANGED vars
  BY <1>5 DEF vars, NothingWithdrawn
<1>. QED BY <1>2, <1>3, <1>4, <1>5 DEF Next

\* Nothing is taken from a SharedVolume nobody deleted.
THEOREM WithdrawnNever == ASSUME Orderly PROVE Spec => [](TypeOK /\ NothingWithdrawn)
<1>1. Init => NothingWithdrawn
  BY DEF Init, NothingWithdrawn, Orderly, OwnVolumes
<1>2. NothingWithdrawn /\ TypeOK /\ [Next]_vars => NothingWithdrawn'
  BY WithdrawnStep
<1>. QED BY <1>1, <1>2, LifecycleInit, LifecycleType, PTL DEF Spec

\* A SharedVolume that is held and not deleted keeps what it has.
LEMMA GuardedKeeps ==
    ASSUME Orderly, TypeOK, [Next]_vars, NEW s \in Names
    PROVE  /\ life[s] = "guarded" => life'[s] \in Held
           /\ life[s] \in Held /\ life'[s] = "guarded" =>
                /\ life[s] = "guarded"
                /\ claim[s] = "live" => claim'[s] = "live"
                /\ volume[volumeOf[s]] = "live" => volume'[volumeOf[s]] = "live"
<1>1. ASSUME NEW t \in Names, Appear(t) \/ Guard(t) \/ Leave(t) \/ Release(t)
      PROVE  /\ life[s] = "guarded" => life'[s] \in Held
             /\ life[s] \in Held /\ life'[s] = "guarded" => life[s] = "guarded"
             /\ UNCHANGED <<volume, claim>>
  BY <1>1 DEF Appear, Guard, Leave, Release, Live, TypeOK, Held
<1>2. ASSUME NEW t \in Names, MakeClaim(t) \/ DropClaim(t) \/ ClaimGone(t)
      PROVE  /\ UNCHANGED <<life, volume>>
             /\ life[s] = "guarded" /\ claim[s] = "live" => claim'[s] = "live"
  BY <1>2 DEF MakeClaim, DropClaim, ClaimGone, TypeOK, Orderly
<1>3. ASSUME NEW n \in VolumeNames, MakeVolume(n) \/ DropVolume(n) \/ VolumeGone(n)
      PROVE  /\ UNCHANGED <<life, claim>>
             /\ life[s] = "guarded" /\ volume[volumeOf[s]] = "live" =>
                    volume'[volumeOf[s]] = "live"
  <2>1. CASE MakeVolume(n) \/ VolumeGone(n)
    BY <2>1 DEF MakeVolume, VolumeGone, TypeOK, Orderly, OwnVolumes
  <2>2. CASE DropVolume(n)
    <3>1. PICK t \in Names : volumeOf[t] = n /\ life[t] = "leaving"
      BY <2>2 DEF DropVolume, Orderly
    <3>2. life[s] = "guarded" => volumeOf[s] # n
      BY <3>1 DEF Orderly, OwnVolumes
    <3>. QED BY <2>2, <3>2 DEF DropVolume, TypeOK, Orderly, OwnVolumes
  <2>. QED BY <1>3, <2>1, <2>2
<1>4. CASE UNCHANGED vars
  BY <1>4 DEF vars, Held
<1>. QED BY <1>1, <1>2, <1>3, <1>4 DEF Next, Held
=============================================================================
