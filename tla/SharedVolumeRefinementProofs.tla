--------------------- MODULE SharedVolumeRefinementProofs ---------------------
(***************************************************************************)
(* The controller implements SharedVolumeLifecycle, and so leaves nothing  *)
(* stray if its caches keep up.                                            *)
(***************************************************************************)
EXTENDS SharedVolumeRefinement, SharedVolumeSafety

Abstract == INSTANCE SharedVolumeLifecycleProofs WITH
    Names <- SharedVolumes, VolumeNames <- PVNames, volumeOf <- pvNameForSharedVolume,
    Patient <- PATIENT, Informed <- ~LAGGING, Alone <- "delete" \notin Meddling,
    life <- lives, volume <- volumes, claim <- claims

-----------------------------------------------------------------------------
(* What operations on Ensurables do to the presence of an object. *)

LEMMA EnsurePresence ==
    ASSUME NEW T, NEW U, NEW S, NEW O, NEW e \in Ensurables(T, U, S, O),
           NEW found \in Resources(S, O) \cup {None},
           NEW server \in Resources(S, O) \cup {None},
           None \notin Resources(S, O), CompletesTo(T, S),
           NEW o \in Ensure(e, found, server)
    PROVE  /\ \/ PresenceOf(o.server) = PresenceOf(server)
              \/ PresenceOf(server) = "none" /\ PresenceOf(o.server) = "live"
           /\ o.ok /\ found = server => PresenceOf(o.server) # "none"
<1>. DEFINE latest == LatestDefinition(e)
<1>1. latest \in Resources(S, O)
  BY DefinitionType
<1>. HIDE DEF latest
<1>2. Created(e) # None /\ ~Created(e).term
  <2>. DEFINE sent == [latest EXCEPT !.rv = 1, !.term = FALSE]
  <2>1. sent \in Resources(S, O) /\ ~sent.term /\ ~[sent EXCEPT !.spec = "golden"].term
    BY <1>1 DEF Resources
  <2>2. Created(e) = Completed(e, sent)
    BY DEF Created, latest
  <2>. HIDE DEF sent
  <2>3. Created(e) \in Resources(S, O)
    BY <2>1, <2>2, CompletedType
  <2>. QED BY <2>1, <2>2, <2>3 DEF Completed
<1>3. ASSUME found # None
      PROVE  Updated(e, found) # None /\ Updated(e, found).term = found.term
  <2>. DEFINE sent == [latest EXCEPT !.rv = found.rv, !.term = found.term]
              made == Completed(e, sent)
  <2>1. sent \in Resources(S, O) /\ sent.term = found.term
        /\ [sent EXCEPT !.spec = "golden"].term = found.term
    BY <1>1, <1>3 DEF Resources
  <2>2. made \in Resources(S, O) /\ made.term = found.term
    <3>. HIDE DEF sent
    <3>. QED BY <2>1, CompletedType DEF Completed
  <2>3. Updated(e, found) = IF made = found THEN found ELSE [made EXCEPT !.rv = found.rv + 1]
    BY DEF Updated, latest
  <2>. HIDE DEF made
  <2>4. [made EXCEPT !.rv = found.rv + 1] \in Resources(S, O)
        /\ [made EXCEPT !.rv = found.rv + 1].term = found.term
    BY <1>3, <2>2 DEF Resources
  <2>. QED BY <1>3, <2>3, <2>4
<1>4. \/ o.server = server
      \/ server = None /\ o.server = Created(e)
      \/ found # None /\ server = found /\ o.server = Updated(e, found)
  <2>1. o \in CreateOutcomes(e, server) =>
            o.server = server \/ (server = None /\ o.server = Created(e))
    BY DEF CreateOutcomes, Outcome
  <2>2. o \in UpdateOutcomes(e, found, server) =>
            o.server = server \/ (server = found /\ o.server = Updated(e, found))
    BY DEF UpdateOutcomes, Outcome
  <2>3. \/ o = Outcome(FALSE, server, e, TRUE)
        \/ o = Outcome(TRUE, server, Remember(e, found), FALSE)
        \/ o \in CreateOutcomes(e, server)
        \/ found # None /\ o \in UpdateOutcomes(e, found, server)
    BY DEF Ensure
  <2>4. \/ o = Outcome(FALSE, server, e, TRUE)
        \/ o = Outcome(TRUE, server, Remember(e, found), FALSE)
        => o.server = server
    BY DEF Outcome
  <2>. QED BY <2>1, <2>2, <2>3, <2>4
<1>5. o.ok /\ found = server => o.server # None
  <2>1. o \in CreateOutcomes(e, server) /\ o.ok => o.server = Created(e)
    BY DEF CreateOutcomes, Outcome
  <2>2. o \in UpdateOutcomes(e, found, server) /\ o.ok => o.server = Updated(e, found)
    BY DEF UpdateOutcomes, Outcome
  <2>3. \/ ~o.ok
        \/ found # None /\ o = Outcome(TRUE, server, Remember(e, found), FALSE)
        \/ o \in CreateOutcomes(e, server)
        \/ found # None /\ o \in UpdateOutcomes(e, found, server)
    BY DEF Ensure, Outcome
  <2>4. o = Outcome(TRUE, server, Remember(e, found), FALSE) => o.server = server
    BY DEF Outcome
  <2>. QED BY <1>2, <1>3, <2>1, <2>2, <2>3, <2>4
<1>. QED BY <1>2, <1>3, <1>4, <1>5 DEF PresenceOf

LEMMA TerminatingPresence ==
    ASSUME NEW S, NEW O, NEW obj \in Resources(S, O) \cup {None}, None \notin Resources(S, O)
    PROVE  PresenceOf(Terminating(obj)) = IF PresenceOf(obj) = "live" THEN "going"
                                          ELSE PresenceOf(obj)
<1>1. CASE obj = None
  BY <1>1 DEF Terminating, PresenceOf
<1>2. CASE obj # None
  <2>1. obj.rv + 1 \in Nat
    BY <1>2 DEF Resources
  <2>2. [obj EXCEPT !.rv = obj.rv + 1, !.term = TRUE] \in Resources(S, O)
        /\ [obj EXCEPT !.rv = obj.rv + 1, !.term = TRUE].term
    BY <1>2, <2>1 DEF Resources
  <2>. QED BY <1>2, <2>2 DEF Terminating, PresenceOf
<1>. QED BY <1>1, <1>2

LEMMA MeddledPresence ==
    ASSUME NEW S, NEW obj \in Resources(S, SharedVolumes), None \notin Resources(S, SharedVolumes),
           NEW kind \in Kinds, NEW new \in Meddled(obj, kind),
           kind = "garble" => Garbled \subseteq S,
           kind = "restyle" => {OldStyle(spec) : spec \in Specs} \subseteq S
    PROVE  PresenceOf(new) = IF kind = "delete" /\ PresenceOf(obj) = "live" THEN "going"
                             ELSE PresenceOf(obj)
<1>1. CASE kind = "delete"
  BY <1>1, TerminatingPresence DEF Meddled
<1>2. ASSUME NEW r \in Resources(S, SharedVolumes), r.term = obj.term
      PROVE  PresenceOf(Newer(r)) = PresenceOf(obj)
  <2>1. r.rv + 1 \in Nat
    BY DEF Resources
  <2>2. Newer(r) \in Resources(S, SharedVolumes) /\ Newer(r).term = obj.term
    BY <1>2, <2>1 DEF Newer, Resources
  <2>. QED BY <2>2 DEF PresenceOf
<1>3. CASE kind = "unlabel"
  <2>. DEFINE r == [obj EXCEPT !.care = FALSE]
  <2>1. r \in Resources(S, SharedVolumes) /\ r.term = obj.term
    BY DEF Resources
  <2>2. new = Newer(r)
    BY <1>3 DEF Meddled
  <2>. HIDE DEF r
  <2>. QED BY <1>2, <1>3, <2>1, <2>2
<1>4. CASE kind = "disown"
  <2>. DEFINE r == [obj EXCEPT !.owner = None]
  <2>1. r \in Resources(S, SharedVolumes) /\ r.term = obj.term
    BY DEF Resources
  <2>2. new = Newer(r)
    BY <1>4 DEF Meddled
  <2>. HIDE DEF r
  <2>. QED BY <1>2, <1>4, <2>1, <2>2
<1>5. CASE kind \in {"garble", "restyle"}
  <2>1. PICK source \in S : new = Newer([obj EXCEPT !.spec = source])
    BY <1>5 DEF Meddled
  <2>. DEFINE r == [obj EXCEPT !.spec = source]
  <2>2. r \in Resources(S, SharedVolumes) /\ r.term = obj.term
    BY DEF Resources
  <2>. HIDE DEF r
  <2>3. new = Newer(r)
    BY <2>1 DEF r
  <2>. QED BY <1>2, <1>5, <2>2, <2>3
<1>. QED BY <1>1, <1>3, <1>4, <1>5 DEF Kinds

LEMMA DeletePresence ==
    ASSUME NEW S, NEW O, NEW e, NEW found,
           NEW server \in Resources(S, O) \cup {None},
           None \notin Resources(S, O), NEW o \in Delete(e, found, server)
    PROVE  /\ \/ PresenceOf(o.server) = PresenceOf(server)
              \/ PresenceOf(server) = "live" /\ PresenceOf(o.server) = "going"
           /\ o.ok /\ found = server => PresenceOf(o.server) # "live"
<1>1. /\ o.server \in {server, Terminating(server)}
      /\ o.ok /\ found = server => server = None \/ o.server = Terminating(server)
  BY DEF Delete, Outcome
<1>2. server = None => Terminating(server) = None
  BY DEF Terminating
<1>3. o.ok /\ found = server => o.server = Terminating(server)
  BY <1>1, <1>2
<1>. QED BY <1>1, <1>3, TerminatingPresence DEF PresenceOf

-----------------------------------------------------------------------------
(* The state of the lifecycle after a write. *)

LEMMA LivesWritten ==
    ASSUME TypeOK, NEW s \in SharedVolumes, NEW new \in SharedVolume \cup {None},
           svs' = Write(svs, s, new)
    PROVE  lives' = [lives EXCEPT ![s] = LifeOf(new)]
<1>1. svs \in [SharedVolumes -> Versions(SharedVolume)]
  BY DEF TypeOK, ClusterTypeOK
<1>2. /\ \A t \in SharedVolumes \ {s} : svs'[t] = svs[t]
      /\ Stored(svs'[s]) = new
  BY <1>1, WriteFacts
<1>. QED BY <1>2 DEF lives

LEMMA VolumesWritten ==
    ASSUME TypeOK, NEW n \in PVNames, NEW new \in PV \cup {None}, pvs' = Write(pvs, n, new)
    PROVE  volumes' = [volumes EXCEPT ![n] = PresenceOf(new)]
<1>1. pvs \in [PVNames -> Versions(PV)]
  BY DEF TypeOK, ClusterTypeOK
<1>2. /\ \A m \in PVNames \ {n} : pvs'[m] = pvs[m]
      /\ Stored(pvs'[n]) = new
  BY <1>1, WriteFacts
<1>. QED BY <1>2 DEF volumes

LEMMA ClaimsWritten ==
    ASSUME TypeOK, NEW s \in SharedVolumes, NEW new \in PVC \cup {None},
           pvcs' = Write(pvcs, s, new)
    PROVE  claims' = [claims EXCEPT ![s] = PresenceOf(new)]
<1>1. pvcs \in [SharedVolumes -> Versions(PVC)]
  BY DEF TypeOK, ClusterTypeOK
<1>2. /\ \A t \in SharedVolumes \ {s} : pvcs'[t] = pvcs[t]
      /\ Stored(pvcs'[s]) = new
  BY <1>1, WriteFacts
<1>. QED BY <1>2 DEF claims

LEMMA Unwritten ==
    /\ UNCHANGED svs => UNCHANGED lives
    /\ UNCHANGED pvs => UNCHANGED volumes
    /\ UNCHANGED pvcs => UNCHANGED claims
BY DEF lives, volumes, claims

Stutter == UNCHANGED <<lives, volumes, claims>>

\* What no step but the operator's own does to what it relies on.
Calm ==
    /\ \A s \in SharedVolumes : lives[s] = "leaving" => lives'[s] = "leaving"
    /\ \A s \in SharedVolumes : claims[s] # "live" => claims'[s] # "live"
    /\ \A n \in PVNames : volumes[n] # "live" => volumes'[n] # "live"

LEMMA StutterIsCalm == Stutter => Calm
BY DEF Stutter, Calm

\* One SharedVolume moves on, and nothing else.
LEMMA LifeStep ==
    ASSUME TypeOK, NEW s \in SharedVolumes, NEW new \in SharedVolume \cup {None},
           svs' = Write(svs, s, new), UNCHANGED <<pvs, pvcs>>,
           NEW from, NEW to, lives[s] \in from, LifeOf(new) \in to
    PROVE  Lifecycle!Live(s, from, to)
BY LivesWritten, Unwritten DEF Lifecycle!Live

LEMMA LifeCalm ==
    ASSUME TypeOK, NEW s \in SharedVolumes, NEW new \in SharedVolume \cup {None},
           svs' = Write(svs, s, new), UNCHANGED <<pvs, pvcs>>,
           lives[s] = "leaving" => LifeOf(new) = "leaving"
    PROVE  Calm
<1>1. lives' = [lives EXCEPT ![s] = LifeOf(new)] /\ lives = [t \in SharedVolumes |-> lives[t]]
  BY LivesWritten DEF lives
<1>. QED BY <1>1, Unwritten DEF Calm

-----------------------------------------------------------------------------
(* Steps of the cluster. *)

LifecycleStep == Lifecycle!Next \/ Stutter

LEMMA UserSteps ==
    ASSUME TypeOK, NEW s \in SharedVolumes,
           CreateSV(s) \/ EditSV(s) \/ DeleteSV(s) \/ ReleaseSV(s)
    PROVE  LifecycleStep /\ Calm
<1>. DEFINE old == Stored(svs[s])
<1>1. old \in SharedVolume \cup {None} /\ lives[s] = LifeOf(old)
  BY StoredTypes DEF lives
<1>2. CASE CreateSV(s)
  <2>1. PICK new \in SharedVolume :
            ~new.fin /\ ~new.deleting /\ svs' = Write(svs, s, new)
    <3>1. uids' \in Nat
      <4>1. uids' = uids + 1
        BY <1>2 DEF CreateSV
      <4>2. uids \in Nat
        BY DEF TypeOK, ClusterTypeOK
      <4>. QED BY <4>1, <4>2
    <3>2. \A spec \in Specs, held \in ForeignFinalizers :
            [uid |-> uids', spec |-> spec, fin |-> FALSE, held |-> held,
             deleting |-> FALSE, phase |-> "", message |-> FALSE,
             claimRef |-> FALSE] \in SharedVolume
      BY <3>1, ConstantsAssumption DEF SharedVolume, Phases
    <3>. QED BY <1>2, <3>2 DEF CreateSV
  <2>2. LifeOf(new) = "fresh" /\ lives[s] = "absent" /\ UNCHANGED <<pvs, pvcs>>
    BY <1>1, <1>2, <2>1, NoneAssumption DEF LifeOf, CreateSV
  <2>3. PATIENT => claims[s] = "none" /\ volumes[pvNameForSharedVolume[s]] = "none"
    <3>1. pvNameForSharedVolume[s] \in PVNames
      BY NamesType
    <3>2. /\ claims[s] = PresenceOf(Stored(pvcs[s]))
          /\ volumes[pvNameForSharedVolume[s]] = PresenceOf(Stored(pvs[pvNameForSharedVolume[s]]))
      BY <3>1 DEF claims, volumes
    <3>. QED BY <1>2, <3>2 DEF CreateSV, PresenceOf
  <2>4. Lifecycle!Appear(s)
    BY <2>1, <2>2, <2>3, LifeStep DEF Lifecycle!Appear
  <2>5. Calm
    BY <2>1, <2>2, LifeCalm
  <2>. QED BY <2>4, <2>5 DEF LifecycleStep, Lifecycle!Next
<1>3. CASE EditSV(s)
  <2>1. old \in SharedVolume /\ UNCHANGED <<pvs, pvcs>>
    BY <1>1, <1>3 DEF EditSV
  <2>2. PICK new \in SharedVolume :
            new.fin = old.fin /\ new.deleting = old.deleting /\ svs' = Write(svs, s, new)
    <3>1. PICK spec \in Specs : svs' = Write(svs, s, [old EXCEPT !.spec = spec])
      BY <1>3 DEF EditSV
    <3>2. [old EXCEPT !.spec = spec] \in SharedVolume
          /\ [old EXCEPT !.spec = spec].fin = old.fin
          /\ [old EXCEPT !.spec = spec].deleting = old.deleting
      BY <2>1 DEF SharedVolume
    <3>. QED BY <3>1, <3>2
  <2>3. LifeOf(new) = lives[s]
    BY <1>1, <2>1, <2>2, NoneAssumption DEF LifeOf
  <2>4. lives' = [lives EXCEPT ![s] = lives[s]]
    BY <2>2, <2>3, LivesWritten
  <2>5. Stutter
    BY <2>1, <2>4, Unwritten DEF Stutter, lives
  <2>. QED BY <2>5, StutterIsCalm DEF LifecycleStep
<1>4. CASE DeleteSV(s)
  <2>. DEFINE marked == [old EXCEPT !.deleting = TRUE]
              new == Finalized(marked)
  <2>1. /\ old \in SharedVolume /\ ~old.deleting /\ UNCHANGED <<pvs, pvcs>>
        /\ svs' = Write(svs, s, new)
    BY <1>1, <1>4 DEF DeleteSV
  <2>2. /\ marked \in SharedVolume /\ marked.fin = old.fin /\ marked.deleting
        /\ old # None /\ marked # None
    BY <2>1, NoneAssumption DEF SharedVolume
  <2>. HIDE DEF old, marked
  <2>3. /\ new \in SharedVolume \cup {None}
        /\ (new = None \/ new = marked) /\ (new = None => ~marked.fin)
    BY <2>2 DEF Finalized
  <2>4. new = None => ~marked.fin
    BY <2>2 DEF Finalized
  <2>. HIDE DEF new
  <2>5. CASE old.fin
    <3>1. lives[s] = "guarded" /\ LifeOf(new) = "leaving"
      BY <1>1, <2>1, <2>2, <2>3, <2>4, <2>5 DEF LifeOf
    <3>2. Lifecycle!Live(s, {"guarded"}, {"leaving"})
      BY <2>1, <2>3, <3>1, LifeStep
    <3>. QED BY <2>1, <2>3, <3>1, <3>2, LifeCalm DEF LifecycleStep, Lifecycle!Next, Lifecycle!Leave
  <2>6. CASE ~old.fin
    <3>1. lives[s] = "fresh" /\ LifeOf(new) \in {"absent", "released"}
      BY <1>1, <2>1, <2>2, <2>3, <2>4, <2>6 DEF LifeOf
    <3>2. Lifecycle!Live(s, {"fresh"}, {"absent", "released"})
      BY <2>1, <2>3, <3>1, LifeStep
    <3>. QED BY <2>1, <2>3, <3>1, <3>2, LifeCalm DEF LifecycleStep, Lifecycle!Next, Lifecycle!Leave
  <2>. QED BY <2>5, <2>6
<1>5. CASE ReleaseSV(s)
  <2>. DEFINE freed == [old EXCEPT !.held = FALSE]
              new == Finalized(freed)
  <2>1. /\ old \in SharedVolume /\ old.deleting /\ UNCHANGED <<pvs, pvcs>>
        /\ svs' = Write(svs, s, new)
    BY <1>1, <1>5 DEF ReleaseSV
  <2>2. /\ freed \in SharedVolume /\ freed.fin = old.fin /\ freed.deleting /\ ~freed.held
        /\ old # None /\ freed # None
    BY <2>1, NoneAssumption DEF SharedVolume
  <2>. HIDE DEF old, freed
  <2>3. new = (IF freed.fin THEN freed ELSE None)
    BY <2>2 DEF Finalized
  <2>. HIDE DEF new
  <2>4. CASE old.fin
    <3>1. lives[s] = "leaving" /\ LifeOf(new) = "leaving"
      BY <1>1, <2>1, <2>2, <2>3, <2>4 DEF LifeOf
    <3>2. lives' = [lives EXCEPT ![s] = lives[s]]
      BY <2>1, <2>2, <2>3, <3>1, LivesWritten
    <3>3. Stutter
      BY <2>1, <3>2, Unwritten DEF Stutter, lives
    <3>. QED BY <3>3, StutterIsCalm DEF LifecycleStep
  <2>5. CASE ~old.fin
    <3>1. lives[s] = "released" /\ LifeOf(new) = "absent"
      BY <1>1, <2>1, <2>2, <2>3, <2>5 DEF LifeOf
    <3>2. Lifecycle!Live(s, {"released"}, {"absent"})
      BY <2>1, <2>2, <2>3, <3>1, LifeStep
    <3>. QED BY <2>1, <2>2, <2>3, <3>1, <3>2, LifeCalm DEF LifecycleStep, Lifecycle!Next, Lifecycle!Leave
  <2>. QED BY <2>4, <2>5
<1>. QED BY <1>2, <1>3, <1>4, <1>5

LEMMA ReapMeddleSteps ==
    ASSUME TypeOK,
           \/ \E n \in PVNames : ReapPV(n) \/ MeddlePV(n)
           \/ \E s \in SharedVolumes : ReapPVC(s) \/ MeddlePVC(s)
    PROVE  LifecycleStep /\ Calm
<1>1. ASSUME NEW n \in PVNames, ReapPV(n)
      PROVE  LifecycleStep /\ Calm
  <2>1. volumes' = [volumes EXCEPT ![n] = "none"] /\ UNCHANGED <<lives, claims>>
    BY <1>1, VolumesWritten, Unwritten DEF ReapPV, PresenceOf
  <2>2. volumes[n] = "going"
    BY <1>1 DEF ReapPV, volumes, PresenceOf
  <2>3. Lifecycle!VolumeGone(n)
    BY <2>1, <2>2 DEF Lifecycle!VolumeGone
  <2>4. Calm
    BY <2>1 DEF Calm, volumes
  <2>. QED BY <2>3, <2>4 DEF LifecycleStep, Lifecycle!Next
<1>2. ASSUME NEW s \in SharedVolumes, ReapPVC(s)
      PROVE  LifecycleStep /\ Calm
  <2>1. claims' = [claims EXCEPT ![s] = "none"] /\ UNCHANGED <<lives, volumes>>
    BY <1>2, ClaimsWritten, Unwritten DEF ReapPVC, PresenceOf
  <2>2. claims[s] = "going"
    BY <1>2 DEF ReapPVC, claims, PresenceOf
  <2>3. Lifecycle!ClaimGone(s)
    BY <2>1, <2>2 DEF Lifecycle!ClaimGone
  <2>4. Calm
    BY <2>1 DEF Calm, claims
  <2>. QED BY <2>3, <2>4 DEF LifecycleStep, Lifecycle!Next
<1>3. ASSUME NEW n \in PVNames, MeddlePV(n)
      PROVE  LifecycleStep /\ Calm
  <2>. DEFINE old == Stored(pvs[n])
  <2>1. /\ old \in PV /\ UNCHANGED <<svs, pvcs>>
    BY <1>3, StoredTypes DEF MeddlePV
  <2>2. PICK kind \in Meddling : \E obj \in Meddled(old, kind) : pvs' = Write(pvs, n, obj)
    BY <1>3 DEF MeddlePV
  <2>3. PICK obj \in Meddled(old, kind) : pvs' = Write(pvs, n, obj)
    BY <2>2
  <2>4. kind \in Kinds
    BY ConstantsAssumption
  <2>5. obj \in PV \cup {None}
    BY <2>1, <2>4, MeddledType, NoneAssumption DEF PV, VolumeSources
  <2>6. PresenceOf(obj) = IF kind = "delete" /\ PresenceOf(old) = "live" THEN "going"
                          ELSE PresenceOf(old)
    BY <2>1, <2>4, MeddledPresence, NoneAssumption DEF PV, VolumeSources
  <2>. HIDE DEF old
  <2>7. volumes' = [volumes EXCEPT ![n] = PresenceOf(obj)] /\ UNCHANGED <<lives, claims>>
    BY <2>1, <2>3, <2>5, VolumesWritten, Unwritten
  <2>8. volumes[n] = PresenceOf(old)
    BY DEF volumes, old
  <2>9. CASE kind = "delete" /\ PresenceOf(old) = "live"
    <3>1. Lifecycle!DropVolume(n)
      BY <2>6, <2>7, <2>8, <2>9 DEF Lifecycle!DropVolume
    <3>2. Calm
      BY <2>6, <2>7, <2>9 DEF Calm, volumes
    <3>. QED BY <3>1, <3>2 DEF LifecycleStep, Lifecycle!Next
  <2>10. CASE ~(kind = "delete" /\ PresenceOf(old) = "live")
    <3>1. Stutter
      BY <2>6, <2>7, <2>8, <2>10 DEF Stutter, volumes
    <3>. QED BY <3>1, StutterIsCalm DEF LifecycleStep
  <2>. QED BY <2>9, <2>10
<1>4. ASSUME NEW s \in SharedVolumes, MeddlePVC(s)
      PROVE  LifecycleStep /\ Calm
  <2>. DEFINE old == Stored(pvcs[s])
  <2>1. /\ old \in PVC /\ UNCHANGED <<svs, pvs>>
    BY <1>4, StoredTypes DEF MeddlePVC
  <2>2. PICK kind \in Meddling \ {"garble", "restyle"} :
            \E obj \in Meddled(old, kind) : pvcs' = Write(pvcs, s, obj)
    BY <1>4 DEF MeddlePVC
  <2>3. PICK obj \in Meddled(old, kind) : pvcs' = Write(pvcs, s, obj)
    BY <2>2
  <2>4. kind \in Kinds
    BY ConstantsAssumption
  <2>5. obj \in PVC \cup {None}
    BY <2>1, <2>2, <2>4, MeddledType, NoneAssumption DEF PVC
  <2>6. PresenceOf(obj) = IF kind = "delete" /\ PresenceOf(old) = "live" THEN "going"
                          ELSE PresenceOf(old)
    BY <2>1, <2>2, <2>4, MeddledPresence, NoneAssumption DEF PVC
  <2>. HIDE DEF old
  <2>7. claims' = [claims EXCEPT ![s] = PresenceOf(obj)] /\ UNCHANGED <<lives, volumes>>
    BY <2>1, <2>3, <2>5, ClaimsWritten, Unwritten
  <2>8. claims[s] = PresenceOf(old)
    BY DEF claims, old
  <2>9. CASE kind = "delete" /\ PresenceOf(old) = "live"
    <3>1. Lifecycle!DropClaim(s)
      BY <2>6, <2>7, <2>8, <2>9 DEF Lifecycle!DropClaim
    <3>2. Calm
      BY <2>6, <2>7, <2>9 DEF Calm, claims
    <3>. QED BY <3>1, <3>2 DEF LifecycleStep, Lifecycle!Next
  <2>10. CASE ~(kind = "delete" /\ PresenceOf(old) = "live")
    <3>1. Stutter
      BY <2>6, <2>7, <2>8, <2>10 DEF Stutter, claims
    <3>. QED BY <3>1, StutterIsCalm DEF LifecycleStep
  <2>. QED BY <2>9, <2>10
<1>. QED BY <1>1, <1>2, <1>3, <1>4

\* Watches deliver what was written before.
LEMMA InformerSteps == ASSUME TypeOK, Informers PROVE Stutter
<1>1. /\ svs \in [SharedVolumes -> Versions(SharedVolume)]
      /\ pvs \in [PVNames -> Versions(PV)]
      /\ pvcs \in [SharedVolumes -> Versions(PVC)]
  BY DEF TypeOK, ClusterTypeOK
<1>2. ASSUME NEW s \in SharedVolumes, SyncSV(s)
      PROVE  Stutter
  <2>1. Stored(Tail(svs[s])) = Stored(svs[s])
    BY <1>1, <1>2, TailFacts DEF SyncSV
  <2>2. \A t \in SharedVolumes : Stored(svs'[t]) = Stored(svs[t])
    BY <1>1, <1>2, <2>1 DEF SyncSV, Deliver
  <2>. QED BY <1>2, <2>2, Unwritten DEF SyncSV, Stutter, lives
<1>3. ASSUME NEW s \in SharedVolumes, SyncPVC(s)
      PROVE  Stutter
  <2>1. Stored(Tail(pvcs[s])) = Stored(pvcs[s])
    BY <1>1, <1>3, TailFacts DEF SyncPVC
  <2>2. \A t \in SharedVolumes : Stored(pvcs'[t]) = Stored(pvcs[t])
    BY <1>1, <1>3, <2>1 DEF SyncPVC, Deliver
  <2>. QED BY <1>3, <2>2, Unwritten DEF SyncPVC, Stutter, claims
<1>4. ASSUME NEW n \in PVNames, SyncPV(n)
      PROVE  Stutter
  <2>1. Stored(Tail(pvs[n])) = Stored(pvs[n])
    BY <1>1, <1>4, TailFacts DEF SyncPV
  <2>2. \A m \in PVNames : Stored(pvs'[m]) = Stored(pvs[m])
    BY <1>1, <1>4, <2>1 DEF SyncPV, Deliver
  <2>. QED BY <1>4, <2>2, Unwritten DEF SyncPV, Stutter, volumes
<1>5. ASSUME NEW s \in SharedVolumes, Resync(s)
      PROVE  Stutter
  BY <1>5, Unwritten DEF Resync, objectVars, Stutter
<1>. QED BY <1>2, <1>3, <1>4, <1>5 DEF Informers

LEMMA CrashSteps == ASSUME TypeOK, Crash PROVE Stutter
<1>1. /\ \A s \in SharedVolumes : Stored(svs'[s]) = Stored(svs[s])
      /\ \A n \in PVNames : Stored(pvs'[n]) = Stored(pvs[n])
      /\ \A s \in SharedVolumes : Stored(pvcs'[s]) = Stored(pvcs[s])
  BY RelistFacts DEF Crash, Relisted, TypeOK, ClusterTypeOK
<1>. QED BY <1>1 DEF Stutter, lives, volumes, claims

-----------------------------------------------------------------------------
(* Steps of the worker. *)

\* A write that takes no finalizer off and decides nothing about the deletion.
LEMMA SVWritten ==
    ASSUME IInv, pc # "idle", NEW new \in SharedVolume,
           UNCHANGED svs \/ (\E ok \in BOOLEAN : Send(new, ok)), UNCHANGED <<pvs, pvcs>>,
           new.deleting = sv.deleting, sv.fin => new.fin, sv.deleting => new.fin = sv.fin
    PROVE  LifecycleStep /\ Calm
<1>1. TypeOK /\ req \in SharedVolumes /\ sv \in SharedVolume /\ sv # None /\ new # None
  BY BusyFacts, NoneAssumption DEF IInv
<1>2. CASE UNCHANGED svs
  <2>1. Stutter
    BY <1>2, Unwritten DEF Stutter
  <2>. QED BY <2>1, StutterIsCalm DEF LifecycleStep
<1>3. CASE Stored(svs[req]) = sv /\ svs' = Write(svs, req, new)
  <2>1. lives[req] = LifeOf(sv)
    BY <1>1, <1>3 DEF lives
  <2>2. CASE new.fin = sv.fin
    <3>1. lives' = [lives EXCEPT ![req] = lives[req]]
      BY <1>1, <1>3, <2>1, <2>2, LivesWritten DEF LifeOf
    <3>2. Stutter
      BY <3>1, Unwritten DEF Stutter, lives
    <3>. QED BY <3>2, StutterIsCalm DEF LifecycleStep
  <2>3. CASE new.fin # sv.fin
    <3>1. new.fin /\ ~sv.fin /\ ~sv.deleting /\ ~new.deleting
      BY <1>1, <2>3 DEF SharedVolume
    <3>2. lives[req] = "fresh" /\ LifeOf(new) = "guarded"
      BY <1>1, <2>1, <3>1 DEF LifeOf
    <3>3. Lifecycle!Guard(req)
      BY <1>1, <1>3, <3>2, LifeStep DEF Lifecycle!Guard
    <3>4. Calm
      BY <1>1, <1>3, <3>2, LifeCalm
    <3>. QED BY <1>1, <3>3, <3>4 DEF LifecycleStep, Lifecycle!Next
  <2>. QED BY <2>2, <2>3
<1>. QED BY <1>2, <1>3 DEF Send

LEMMA SVSteps == ASSUME IInv, SVStep PROVE LifecycleStep /\ Calm
<1>1. pc # "idle" /\ UNCHANGED <<pvs, pvcs>>
  BY DEF SVStep, MarkDeleting, Unedit, Finalize, MarkPending, MarkFailed, MarkReady
<1>2. sv \in SharedVolume
  BY <1>1, BusyFacts
<1>3. PICK new \in SharedVolume :
        /\ UNCHANGED svs \/ (\E ok \in BOOLEAN : Send(new, ok))
        /\ new.deleting = sv.deleting
        /\ new.fin = sv.fin \/ (Finalize /\ new.fin)
  <2>1. CASE MarkDeleting
    <3>1. /\ Marked("Deleting", FALSE) \in SharedVolume
          /\ Marked("Deleting", FALSE).deleting = sv.deleting
          /\ Marked("Deleting", FALSE).fin = sv.fin
      BY <1>2 DEF Marked, SharedVolume, Phases
    <3>. QED BY <2>1, <3>1 DEF MarkDeleting
  <2>2. CASE Unedit
    <3>. DEFINE spec == SpecOf(Cached(pvs[pvNameForSharedVolume[req]]))
                new == [sv EXCEPT !.spec = spec]
    <3>1. spec \in Specs
      BY <1>1, SpecOfType DEF IInv
    <3>2. UNCHANGED svs \/ (\E ok \in BOOLEAN : Send(new, ok))
      BY <2>2 DEF Unedit
    <3>. HIDE DEF spec
    <3>3. new \in SharedVolume /\ new.deleting = sv.deleting /\ new.fin = sv.fin
      BY <1>2, <3>1 DEF SharedVolume
    <3>. QED BY <3>2, <3>3
  <2>3. CASE Finalize
    <3>1. /\ [sv EXCEPT !.fin = TRUE] \in SharedVolume
          /\ [sv EXCEPT !.fin = TRUE].deleting = sv.deleting
          /\ [sv EXCEPT !.fin = TRUE].fin
      BY <1>2 DEF SharedVolume
    <3>. QED BY <2>3, <3>1 DEF Finalize
  <2>4. CASE MarkPending
    <3>1. /\ Marked("Pending", FALSE) \in SharedVolume
          /\ Marked("Pending", FALSE).deleting = sv.deleting
          /\ Marked("Pending", FALSE).fin = sv.fin
      BY <1>2 DEF Marked, SharedVolume, Phases
    <3>. QED BY <2>4, <3>1 DEF MarkPending
  <2>5. CASE MarkFailed
    <3>1. /\ Marked("Failed", TRUE) \in SharedVolume
          /\ Marked("Failed", TRUE).deleting = sv.deleting
          /\ Marked("Failed", TRUE).fin = sv.fin
      BY <1>2 DEF Marked, SharedVolume, Phases
    <3>. QED BY <2>5, <3>1 DEF MarkFailed
  <2>6. CASE MarkReady
    <3>. DEFINE new == [sv EXCEPT !.phase = "Ready", !.claimRef = TRUE]
    <3>1. new \in SharedVolume /\ new.deleting = sv.deleting /\ new.fin = sv.fin
      BY <1>2 DEF SharedVolume, Phases
    <3>2. UNCHANGED svs \/ (\E ok \in BOOLEAN : Send(new, ok))
      BY <2>6 DEF MarkReady
    <3>. QED BY <3>1, <3>2
  <2>. QED BY <2>1, <2>2, <2>3, <2>4, <2>5, <2>6 DEF SVStep
<1>4. Finalize => ~sv.deleting
  BY <1>1, BusyFacts DEF Finalize, DeletePath
<1>. QED BY <1>1, <1>3, <1>4, SVWritten

\* The finalizer comes off a SharedVolume that is leaving, its PVC and PV out of the way.
LEMMA UnfinalizeSteps == ASSUME IInv, LettingGo, Unfinalize PROVE LifecycleStep
<1>. DEFINE bare == [sv EXCEPT !.fin = FALSE]
            new == Finalized(bare)
<1>1. pc = "unfinalize" /\ UNCHANGED <<pvs, pvcs>>
  BY DEF Unfinalize
<1>2. /\ TypeOK /\ req \in SharedVolumes /\ sv \in SharedVolume /\ sv # None
      /\ sv.fin /\ sv.deleting
  BY <1>1, BusyFacts DEF IInv, DeletePath
<1>3. bare \in SharedVolume /\ ~bare.fin /\ bare.deleting /\ bare # None
  BY <1>2, NoneAssumption DEF SharedVolume
<1>4. PICK ok \in BOOLEAN : Send(new, ok)
  BY DEF Unfinalize
<1>. HIDE DEF bare
<1>5. new \in SharedVolume \cup {None} /\ LifeOf(new) \in {"absent", "released"}
  BY <1>3 DEF Finalized, LifeOf
<1>. HIDE DEF new
<1>6. CASE UNCHANGED svs
  BY <1>1, <1>6, Unwritten DEF LifecycleStep, Stutter
<1>7. CASE Stored(svs[req]) = sv /\ svs' = Write(svs, req, new)
  <2>1. lives[req] = "leaving"
    BY <1>2, <1>7 DEF lives, LifeOf
  <2>2. Lifecycle!Live(req, {"leaving"}, {"absent", "released"})
    BY <1>1, <1>2, <1>5, <1>7, <2>1, LifeStep
  <2>3. ~LAGGING => claims[req] # "live" /\ volumes[pvNameForSharedVolume[req]] # "live"
    BY <1>1 DEF LettingGo
  <2>4. Lifecycle!Release(req)
    BY <2>2, <2>3 DEF Lifecycle!Release
  <2>. QED BY <1>2, <2>4 DEF LifecycleStep, Lifecycle!Next
<1>. QED BY <1>4, <1>6, <1>7 DEF Send

LEMMA MakerHolds == ASSUME IInv, pc \in CreatePath PROVE lives[req] \in Lifecycle!Held
<1>1. req \in SharedVolumes /\ Stored(svs[req]) # None /\ Stored(svs[req]).fin
  BY MakerIsGuarded DEF Guarded, Exists, SVOf
<1>. QED BY <1>1 DEF lives, LifeOf, Lifecycle!Held

LEMMA EnsurePVSteps == ASSUME IInv, EnsurePV PROVE LifecycleStep
<1>. DEFINE n == pvNameForSharedVolume[req]
<1>1. pc # "idle" /\ pc \in CreatePath /\ UNCHANGED <<svs, pvcs>> /\ TypeOK
  BY DEF EnsurePV, CreatePath, IInv
<1>2. PICK o \in Ensure(pvEnsurable, Cached(pvs[n]), Stored(pvs[n])) :
        pvs' = Write(pvs, n, o.server)
  BY DEF EnsurePV
<1>3. req \in SharedVolumes /\ n \in PVNames
  BY <1>1, BusyType, NamesType
<1>4. o.server \in PV \cup {None}
  BY <1>1, EnsurePVOutcome DEF OutcomeOK, PV
<1>5. \/ PresenceOf(o.server) = PresenceOf(Stored(pvs[n]))
      \/ PresenceOf(Stored(pvs[n])) = "none" /\ PresenceOf(o.server) = "live"
  <2>1. pvEnsurable \in Ensurables({"PersistentVolume"}, Nat, VolumeSources, SharedVolumes)
    BY <1>1, EnsurableTypes DEF PVEnsurable
  <2>2. /\ Stored(pvs[n]) \in Resources(VolumeSources, SharedVolumes) \cup {None}
        /\ Cached(pvs[n]) \in Resources(VolumeSources, SharedVolumes) \cup {None}
    BY <1>1, ObjectTypes DEF PV
  <2>3. CompletesTo({"PersistentVolume"}, VolumeSources)
        /\ None \notin Resources(VolumeSources, SharedVolumes)
    BY NoneAssumption DEF CompletesTo, PV
  <2>. QED BY <2>1, <2>2, <2>3, EnsurePresence
<1>. HIDE DEF n
<1>6. /\ volumes' = [volumes EXCEPT ![n] = PresenceOf(o.server)] /\ UNCHANGED <<lives, claims>>
      /\ volumes[n] = PresenceOf(Stored(pvs[n]))
  BY <1>1, <1>2, <1>3, <1>4, VolumesWritten, Unwritten DEF volumes
<1>7. CASE PresenceOf(o.server) = PresenceOf(Stored(pvs[n]))
  BY <1>6, <1>7 DEF LifecycleStep, Stutter, volumes
<1>8. CASE PresenceOf(Stored(pvs[n])) = "none" /\ PresenceOf(o.server) = "live"
  <2>1. Lifecycle!MakeVolume(n)
    BY <1>1, <1>3, <1>6, <1>8, MakerHolds DEF Lifecycle!MakeVolume, n
  <2>. QED BY <1>3, <2>1 DEF LifecycleStep, Lifecycle!Next
<1>. QED BY <1>5, <1>7, <1>8

LEMMA EnsurePVCSteps == ASSUME IInv, EnsurePVC PROVE LifecycleStep
<1>1. pc # "idle" /\ pc \in CreatePath /\ UNCHANGED <<svs, pvs>> /\ TypeOK
  BY DEF EnsurePVC, CreatePath, IInv
<1>2. PICK o \in Ensure(pvcEnsurable, Cached(pvcs[req]), Stored(pvcs[req])) :
        pvcs' = Write(pvcs, req, o.server)
  BY DEF EnsurePVC
<1>3. req \in SharedVolumes
  BY <1>1, BusyType
<1>4. o.server \in PVC \cup {None}
  BY <1>1, EnsurePVCOutcome DEF OutcomeOK, PVC
<1>5. \/ PresenceOf(o.server) = PresenceOf(Stored(pvcs[req]))
      \/ PresenceOf(Stored(pvcs[req])) = "none" /\ PresenceOf(o.server) = "live"
  <2>1. pvcEnsurable \in Ensurables({"PersistentVolumeClaim"}, Nat, PVNames, SharedVolumes)
    BY <1>1, EnsurableTypes DEF PVCEnsurable
  <2>2. /\ Stored(pvcs[req]) \in Resources(PVNames, SharedVolumes) \cup {None}
        /\ Cached(pvcs[req]) \in Resources(PVNames, SharedVolumes) \cup {None}
    BY <1>1, ObjectTypes DEF PVC
  <2>3. CompletesTo({"PersistentVolumeClaim"}, PVNames)
        /\ None \notin Resources(PVNames, SharedVolumes)
    BY NoneAssumption DEF CompletesTo, PVC
  <2>. QED BY <2>1, <2>2, <2>3, EnsurePresence
<1>6. /\ claims' = [claims EXCEPT ![req] = PresenceOf(o.server)] /\ UNCHANGED <<lives, volumes>>
      /\ claims[req] = PresenceOf(Stored(pvcs[req]))
  BY <1>1, <1>2, <1>3, <1>4, ClaimsWritten, Unwritten DEF claims
<1>7. CASE PresenceOf(o.server) = PresenceOf(Stored(pvcs[req]))
  BY <1>6, <1>7 DEF LifecycleStep, Stutter, claims
<1>8. CASE PresenceOf(Stored(pvcs[req])) = "none" /\ PresenceOf(o.server) = "live"
  <2>1. Lifecycle!MakeClaim(req)
    BY <1>1, <1>3, <1>6, <1>8, MakerHolds DEF Lifecycle!MakeClaim
  <2>. QED BY <1>3, <2>1 DEF LifecycleStep, Lifecycle!Next
<1>. QED BY <1>5, <1>7, <1>8

LEMMA DeletePVCSteps ==
    ASSUME IInv, LettingGo, DeletePVC
    PROVE  /\ LifecycleStep
           /\ UNCHANGED <<lives, volumes>>
           /\ pc' = "idle" \/ (pc' = "deletePV" /\ UNCHANGED <<req, sv>>)
           /\ ~LAGGING /\ pc' = "deletePV" => claims'[req] # "live"
<1>1. pc = "deletePVC" /\ pc # "idle" /\ UNCHANGED <<svs, pvs>> /\ TypeOK /\ Informed
  BY DEF DeletePVC, IInv
<1>2. PICK o \in Delete(pvcEnsurable, Cached(pvcs[req]), Stored(pvcs[req])) :
        /\ pvcs' = Write(pvcs, req, o.server)
        /\ IF o.ok THEN pc' = "deletePV" /\ UNCHANGED <<req, sv>> ELSE pc' = "idle"
  BY DEF DeletePVC, GoTo, Return
<1>3. req \in SharedVolumes /\ sv.fin
  BY <1>1, BusyFacts DEF DeletePath
<1>4. o.server \in PVC \cup {None}
  BY <1>1, DeletePVCOutcome DEF OutcomeOK, PVC
<1>5. /\ claims' = [claims EXCEPT ![req] = PresenceOf(o.server)] /\ UNCHANGED <<lives, volumes>>
      /\ claims[req] = PresenceOf(Stored(pvcs[req]))
  BY <1>1, <1>2, <1>3, <1>4, ClaimsWritten, Unwritten DEF claims
<1>6. /\ \/ PresenceOf(o.server) = claims[req]
         \/ claims[req] = "live" /\ PresenceOf(o.server) = "going"
      /\ o.ok /\ Cached(pvcs[req]) = Stored(pvcs[req]) => PresenceOf(o.server) # "live"
  <2>1. Stored(pvcs[req]) \in Resources(PVNames, SharedVolumes) \cup {None}
    BY <1>1, ObjectTypes DEF PVC
  <2>. QED BY <1>5, <2>1, DeletePresence, NoneAssumption DEF PVC
<1>7. ~LAGGING => Cached(pvcs[req]) = Stored(pvcs[req])
  BY <1>1, <1>3 DEF Informed, Current, UpToDate, Cached, Stored, TypeOK, ClusterTypeOK
<1>8. LifecycleStep
  <2>1. CASE PresenceOf(o.server) = claims[req]
    BY <1>5, <2>1 DEF LifecycleStep, Stutter, claims
  <2>2. CASE claims[req] = "live" /\ PresenceOf(o.server) = "going"
    <3>1. ~LAGGING => lives[req] = "leaving"
      BY <1>1, <1>3 DEF LettingGo, DeletePath
    <3>2. Lifecycle!DropClaim(req)
      BY <1>5, <2>2, <3>1 DEF Lifecycle!DropClaim
    <3>. QED BY <1>3, <3>2 DEF LifecycleStep, Lifecycle!Next
  <2>. QED BY <1>6, <2>1, <2>2
<1>9. claims'[req] = PresenceOf(o.server)
  BY <1>3, <1>5 DEF claims
<1>. QED BY <1>2, <1>5, <1>6, <1>7, <1>8, <1>9

LEMMA DeletePVSteps ==
    ASSUME IInv, LettingGo, DeletePV
    PROVE  /\ LifecycleStep
           /\ UNCHANGED <<lives, claims>>
           /\ pc' = "idle" \/ (pc' = "unfinalize" /\ UNCHANGED <<req, sv>>)
           /\ ~LAGGING /\ pc' = "unfinalize" =>
                volumes'[pvNameForSharedVolume[req]] # "live"
<1>. DEFINE n == pvNameForSharedVolume[req]
<1>1. pc = "deletePV" /\ pc # "idle" /\ UNCHANGED <<svs, pvcs>> /\ TypeOK /\ Informed
  BY DEF DeletePV, IInv
<1>2. PICK o \in Delete(pvEnsurable, Cached(pvs[n]), Stored(pvs[n])) :
        /\ pvs' = Write(pvs, n, o.server)
        /\ IF o.ok THEN pc' = "unfinalize" /\ UNCHANGED <<req, sv>> ELSE pc' = "idle"
  BY DEF DeletePV, GoTo, Return
<1>3. req \in SharedVolumes /\ sv.fin /\ n \in PVNames
  BY <1>1, BusyFacts, NamesType DEF DeletePath
<1>4. o.server \in PV \cup {None}
  BY <1>1, DeletePVOutcome DEF OutcomeOK, PV
<1>5. Stored(pvs[n]) \in Resources(VolumeSources, SharedVolumes) \cup {None}
  BY <1>1, ObjectTypes DEF PV
<1>6. PresenceOf(o.server) = PresenceOf(Stored(pvs[n]))
      \/ (PresenceOf(Stored(pvs[n])) = "live" /\ PresenceOf(o.server) = "going")
  BY <1>5, DeletePresence, NoneAssumption DEF PV
<1>7. o.ok /\ Cached(pvs[n]) = Stored(pvs[n]) => PresenceOf(o.server) # "live"
  BY <1>5, DeletePresence, NoneAssumption DEF PV
<1>8. ~LAGGING => Cached(pvs[n]) = Stored(pvs[n])
  BY <1>1, <1>3 DEF Informed, Current, UpToDate, Cached, Stored, TypeOK, ClusterTypeOK
<1>. HIDE DEF n
<1>9. /\ volumes' = [volumes EXCEPT ![n] = PresenceOf(o.server)] /\ UNCHANGED <<lives, claims>>
      /\ volumes[n] = PresenceOf(Stored(pvs[n]))
  BY <1>1, <1>2, <1>3, <1>4, VolumesWritten, Unwritten DEF volumes
<1>10. LifecycleStep
  <2>1. CASE PresenceOf(o.server) = volumes[n]
    BY <1>9, <2>1 DEF LifecycleStep, Stutter, volumes
  <2>2. CASE volumes[n] = "live" /\ PresenceOf(o.server) = "going"
    <3>1. ~LAGGING => lives[req] = "leaving" /\ claims[req] # "live"
      BY <1>1, <1>3 DEF LettingGo, DeletePath
    <3>2. Lifecycle!DropVolume(n)
      BY <1>3, <1>9, <2>2, <3>1 DEF Lifecycle!DropVolume, n
    <3>. QED BY <1>3, <3>2 DEF LifecycleStep, Lifecycle!Next
  <2>. QED BY <1>6, <1>9, <2>1, <2>2
<1>11. volumes'[n] = PresenceOf(o.server)
  BY <1>3, <1>9 DEF volumes
<1>. QED BY <1>2, <1>7, <1>8, <1>9, <1>10, <1>11 DEF n

-----------------------------------------------------------------------------
(* What the worker relies on when it deletes stays true. *)

LEMMA IdleLetsGo == pc' \notin DeletePath => LettingGo'
BY DEF LettingGo, DeletePath

LEMMA CalmLetsGo ==
    ASSUME IInv, LettingGo, Calm, UNCHANGED workerVars
    PROVE  LettingGo'
<1>1. CASE pc \in DeletePath
  <2>1. pc # "idle"
    BY <1>1 DEF DeletePath
  <2>2. req \in SharedVolumes /\ pvNameForSharedVolume[req] \in PVNames
    BY <2>1, BusyFacts, NamesType
  <2>. QED BY <2>2 DEF LettingGo, Calm, workerVars
<1>2. CASE pc \notin DeletePath
  BY <1>2, IdleLetsGo DEF workerVars
<1>. QED BY <1>1, <1>2

LEMMA BeginLetsGo ==
    ASSUME IInv, LettingGo, NEW s \in SharedVolumes, Begin(s)
    PROVE  LifecycleStep /\ LettingGo'
<1>1. pc = "idle" /\ UNCHANGED <<svs, pvs, pvcs>> /\ Informed
  BY DEF Begin, objectVars
<1>2. Stutter
  BY <1>1, Unwritten DEF Stutter
<1>3. CASE UNCHANGED workerVars \/ ~Cached(svs[s]).deleting
  <2>1. pc' \notin DeletePath
    BY <1>1, <1>3 DEF Begin, workerVars, DeletePath
  <2>. QED BY <1>2, <2>1, IdleLetsGo DEF LifecycleStep
<1>4. CASE ~UNCHANGED workerVars /\ Cached(svs[s]).deleting
  <2>1. pc' = "deleting" /\ req' = s /\ sv' = Cached(svs[s]) /\ Cached(svs[s]) # None
    BY <1>4 DEF Begin
  <2>2. ~LAGGING => Cached(svs[s]) = Stored(svs[s])
    BY <1>1 DEF Informed, Current, UpToDate, Cached, Stored, IInv, TypeOK, ClusterTypeOK
  <2>3. ~LAGGING /\ sv'.fin => lives[s] = "leaving"
    BY <1>4, <2>1, <2>2 DEF lives, LifeOf
  <2>4. lives' = lives
    BY <1>2 DEF Stutter
  <2>5. LettingGo'
    BY <2>1, <2>3, <2>4 DEF LettingGo
  <2>. QED BY <1>2, <2>5 DEF LifecycleStep
<1>. QED BY <1>3, <1>4

LEMMA MarkDeletingLetsGo ==
    ASSUME IInv, LettingGo, MarkDeleting, Calm
    PROVE  LettingGo'
<1>1. pc = "deleting" /\ pc # "idle" /\ pc \in DeletePath
  BY DEF MarkDeleting, DeletePath
<1>2. req \in SharedVolumes /\ sv \in SharedVolume
  BY <1>1, BusyFacts
<1>3. Marked("Deleting", FALSE).fin = sv.fin
  BY <1>2 DEF Marked, SharedVolume
<1>4. PICK copy : HandleDelete(copy) /\ copy.fin = sv.fin
  BY <1>3 DEF MarkDeleting
<1>5. CASE ~copy.fin
  <2>1. pc' = "idle"
    BY <1>4, <1>5 DEF HandleDelete, Return
  <2>. QED BY <2>1, IdleLetsGo DEF DeletePath
<1>6. CASE copy.fin
  <2>1. pc' = "deletePVC" /\ req' = req /\ sv.fin
    BY <1>4, <1>6 DEF HandleDelete
  <2>2. ~LAGGING => lives'[req] = "leaving"
    BY <1>1, <1>2, <2>1 DEF LettingGo, Calm
  <2>. QED BY <2>1, <2>2 DEF LettingGo
<1>. QED BY <1>5, <1>6

-----------------------------------------------------------------------------
(* The refinement. *)

JInv == IInv /\ LettingGo

LEMMA RefinementInit == Init => JInv /\ Lifecycle!Init
<1>. SUFFICES ASSUME Init PROVE JInv /\ Lifecycle!Init
  OBVIOUS
<1>1. IInv
  BY IInvInit
<1>2. LettingGo
  BY DEF Init, LettingGo, DeletePath
<1>3. /\ \A s \in SharedVolumes : Stored(svs[s]) = None /\ Stored(pvcs[s]) = None
      /\ \A n \in PVNames : Stored(pvs[n]) = None
  BY DEF Init, ClusterInit, Stored
<1>4. Lifecycle!Init
  BY <1>3 DEF Lifecycle!Init, lives, volumes, claims, LifeOf, PresenceOf
<1>. QED BY <1>1, <1>2, <1>4 DEF JInv

LEMMA RefinementStep == JInv /\ [Next]_vars => JInv' /\ [Lifecycle!Next]_Lifecycle!vars
<1>. SUFFICES ASSUME IInv, LettingGo, [Next]_vars PROVE IInv' /\ LettingGo' /\ LifecycleStep
  BY DEF JInv, LifecycleStep, Stutter, Lifecycle!vars
<1>. TypeOK
  BY DEF IInv
<1>1. IInv'
  BY IInvNext
<1>2. CASE Environment /\ UNCHANGED <<workerVars, mapVars>>
  BY <1>1, <1>2, UserSteps, ReapMeddleSteps, CalmLetsGo DEF Environment
<1>3. CASE Informers /\ UNCHANGED <<workerVars, mapVars>>
  BY <1>1, <1>3, InformerSteps, StutterIsCalm, CalmLetsGo DEF LifecycleStep
<1>4. CASE \E s \in SharedVolumes : Begin(s)
  BY <1>1, <1>4, BeginLetsGo
<1>5. CASE MarkDeleting
  BY <1>1, <1>5, SVSteps, MarkDeletingLetsGo DEF SVStep
<1>6. CASE Unedit \/ Finalize \/ MarkPending \/ MarkFailed \/ MarkReady
  <2>1. pc' \notin DeletePath
    BY <1>6 DEF Unedit, Finalize, MarkPending, MarkFailed, MarkReady, GoTo, Return, AfterUnedit,
                DeletePath
  <2>. QED BY <1>1, <1>6, <2>1, SVSteps, IdleLetsGo DEF SVStep
<1>7. CASE DeletePVC
  <2>1. LettingGo'
    <3>1. CASE pc' = "idle"
      BY <3>1, IdleLetsGo DEF DeletePath
    <3>2. CASE pc' = "deletePV" /\ UNCHANGED <<req, sv>>
      <4>1. pc = "deletePVC" /\ pc \in DeletePath
        BY <1>7 DEF DeletePVC, DeletePath
      <4>. QED BY <1>7, <3>2, <4>1, DeletePVCSteps DEF LettingGo
    <3>. QED BY <1>7, <3>1, <3>2, DeletePVCSteps
  <2>. QED BY <1>1, <1>7, <2>1, DeletePVCSteps
<1>8. CASE DeletePV
  <2>1. LettingGo'
    <3>1. CASE pc' = "idle"
      BY <3>1, IdleLetsGo DEF DeletePath
    <3>2. CASE pc' = "unfinalize" /\ UNCHANGED <<req, sv>>
      <4>1. pc = "deletePV" /\ pc \in DeletePath
        BY <1>8 DEF DeletePV, DeletePath
      <4>. QED BY <1>8, <3>2, <4>1, DeletePVSteps DEF LettingGo
    <3>. QED BY <1>8, <3>1, <3>2, DeletePVSteps
  <2>. QED BY <1>1, <1>8, <2>1, DeletePVSteps
<1>9. CASE Unfinalize
  <2>1. pc' \notin DeletePath
    BY <1>9 DEF Unfinalize, Return, DeletePath
  <2>. QED BY <1>1, <1>9, <2>1, UnfinalizeSteps, IdleLetsGo
<1>10. CASE EnsurePV \/ EnsurePVC
  <2>1. pc' \notin DeletePath
    BY <1>10 DEF EnsurePV, EnsurePVC, GoTo, DeletePath
  <2>. QED BY <1>1, <1>10, <2>1, EnsurePVSteps, EnsurePVCSteps, IdleLetsGo
<1>11. CASE Crash
  <2>1. pc' \notin DeletePath
    BY <1>11 DEF Crash, DeletePath
  <2>. QED BY <1>1, <1>11, <2>1, CrashSteps, IdleLetsGo DEF LifecycleStep
<1>12. CASE UNCHANGED vars
  <2>1. UNCHANGED <<workerVars, svs, pvs, pvcs>>
    BY <1>12 DEF vars, clusterVars, objectVars
  <2>2. Stutter
    BY <2>1, Unwritten DEF Stutter
  <2>. QED BY <1>1, <2>1, <2>2, StutterIsCalm, CalmLetsGo DEF LifecycleStep
<1>. QED BY <1>2, <1>3, <1>4, <1>5, <1>6, <1>7, <1>8, <1>9, <1>10, <1>11, <1>12 DEF Next, Continue

\* Whatever the cluster does, Reconcile makes, deletes and lets go as the lifecycle
\* allows: nothing for a SharedVolume without the finalizer, and, if its caches keep
\* up, the finalizer only when PVC and PV are on their way out (215-250).
THEOREM Refines == Spec => FollowsLifecycle
BY RefinementInit, RefinementStep, PTL DEF Spec, FollowsLifecycle, Lifecycle!Spec

LEMMA SameLifecycle == Lifecycle!Spec => Abstract!Spec
<1>1. Lifecycle!Init => Abstract!Init
  BY DEF Lifecycle!Init, Abstract!Init
<1>2. [Lifecycle!Next]_Lifecycle!vars => [Abstract!Next]_Abstract!vars
  <2>1. ASSUME NEW s \in SharedVolumes
        PROVE  /\ Lifecycle!Appear(s) => Abstract!Appear(s)
               /\ Lifecycle!Guard(s) => Abstract!Guard(s)
               /\ Lifecycle!Leave(s) => Abstract!Leave(s)
               /\ Lifecycle!Release(s) => Abstract!Release(s)
    BY DEF Lifecycle!Appear, Lifecycle!Guard, Lifecycle!Leave, Lifecycle!Release, Lifecycle!Live,
           Abstract!Appear, Abstract!Guard, Abstract!Leave, Abstract!Release, Abstract!Live
  <2>2. ASSUME NEW s \in SharedVolumes
        PROVE  /\ Lifecycle!MakeClaim(s) => Abstract!MakeClaim(s)
               /\ Lifecycle!DropClaim(s) => Abstract!DropClaim(s)
               /\ Lifecycle!ClaimGone(s) => Abstract!ClaimGone(s)
    BY DEF Lifecycle!MakeClaim, Lifecycle!DropClaim, Lifecycle!ClaimGone, Lifecycle!Held,
           Abstract!MakeClaim, Abstract!DropClaim, Abstract!ClaimGone, Abstract!Held
  <2>3. ASSUME NEW n \in PVNames
        PROVE  /\ Lifecycle!MakeVolume(n) => Abstract!MakeVolume(n)
               /\ Lifecycle!DropVolume(n) => Abstract!DropVolume(n)
               /\ Lifecycle!VolumeGone(n) => Abstract!VolumeGone(n)
    BY DEF Lifecycle!MakeVolume, Lifecycle!DropVolume, Lifecycle!VolumeGone, Lifecycle!Held,
           Abstract!MakeVolume, Abstract!DropVolume, Abstract!VolumeGone, Abstract!Held
  <2>4. Lifecycle!Next => Abstract!Next
    BY <2>1, <2>2, <2>3 DEF Lifecycle!Next, Abstract!Next
  <2>. QED BY <2>4 DEF Lifecycle!vars, Abstract!vars
<1>. QED BY <1>1, <1>2, PTL DEF Lifecycle!Spec, Abstract!Spec

\* No PV and no PVC is left behind without anybody to delete it, if the operator's
\* caches keep up (handleDelete 215-250): the lifecycle leaves nothing stray.
THEOREM NoOrphansInformed == ASSUME ~LAGGING PROVE Spec => []NoOrphans
<1>1. Abstract!Spec => []Abstract!NothingStray
  BY Abstract!StraysNever
<1>2. Abstract!NothingStray => NoOrphans
  <2>. SUFFICES ASSUME Abstract!NothingStray PROVE NoOrphans
    OBVIOUS
  <2>1. \A s \in SharedVolumes : lives[s] \in Abstract!Held => Guarded(s)
    BY DEF Abstract!Held, lives, LifeOf, Guarded, Exists, SVOf
  <2>2. ASSUME NEW n \in PVNames, Exists(Stored(pvs[n])), ~Stored(pvs[n]).term
        PROVE  \E s \in SharedVolumes : pvNameForSharedVolume[s] = n /\ Guarded(s)
    <3>1. volumes[n] = "live"
      BY <2>2 DEF volumes, PresenceOf, Exists
    <3>. QED BY <2>1, <3>1 DEF Abstract!NothingStray
  <2>3. ASSUME NEW s \in SharedVolumes, Exists(PVCOf(s)), ~PVCOf(s).term
        PROVE  Guarded(s)
    <3>1. claims[s] = "live"
      BY <2>3 DEF claims, PresenceOf, Exists, PVCOf
    <3>. QED BY <2>1, <3>1 DEF Abstract!NothingStray
  <2>. QED BY <2>2, <2>3 DEF NoOrphans
<1>3. Spec => Lifecycle!Spec
  BY Refines DEF FollowsLifecycle
<1>. QED BY <1>1, <1>2, <1>3, SameLifecycle, PTL

-----------------------------------------------------------------------------
(* Phase Ready is true in an orderly cluster. *)

\* Caches keep up, users are patient, nobody else deletes, no two SharedVolumes share a PV.
OrderlyCluster ==
    /\ ~LAGGING /\ PATIENT /\ "delete" \notin Meddling
    /\ \A s, t \in SharedVolumes : pvNameForSharedVolume[s] = pvNameForSharedVolume[t] => s = t

LEMMA ClusterIsOrderly == OrderlyCluster => Abstract!Orderly
<1>1. pvNameForSharedVolume \in [SharedVolumes -> PVNames]
  BY NamesType DEF pvNameForSharedVolume
<1>. QED BY <1>1 DEF OrderlyCluster, Abstract!Orderly, Abstract!OwnVolumes

\* No step but MarkReady makes a SharedVolume Ready, and none takes a deletion back.
Readiness(s) ==
    Exists(SVOf(s)') /\ SVOf(s)'.phase = "Ready" /\ ~SVOf(s)'.deleting =>
        \/ Exists(SVOf(s)) /\ SVOf(s).phase = "Ready" /\ ~SVOf(s).deleting
        \/ s = req /\ pc = "ready" /\ lives[s] = "guarded"

LEMMA WriteReadiness ==
    ASSUME TypeOK, NEW s \in SharedVolumes, NEW new \in SharedVolume \cup {None},
           svs' = Write(svs, s, new),
           new # None /\ new.phase = "Ready" /\ ~new.deleting =>
                \/ Exists(SVOf(s)) /\ SVOf(s).phase = "Ready" /\ ~SVOf(s).deleting
                \/ s = req /\ pc = "ready" /\ lives[s] = "guarded"
    PROVE  \A t \in SharedVolumes : Readiness(t)
<1>1. svs \in [SharedVolumes -> Versions(SharedVolume)]
  BY DEF TypeOK, ClusterTypeOK
<1>2. /\ \A t \in SharedVolumes \ {s} : svs'[t] = svs[t]
      /\ Stored(svs'[s]) = new
  BY <1>1, WriteFacts
<1>. QED BY <1>2 DEF Readiness, Exists, SVOf

LEMMA SameReadiness ==
    ASSUME \A s \in SharedVolumes : Stored(svs'[s]) = Stored(svs[s])
    PROVE  \A s \in SharedVolumes : Readiness(s)
BY DEF Readiness, SVOf

LEMMA UserReadiness ==
    ASSUME TypeOK, NEW s \in SharedVolumes,
           CreateSV(s) \/ EditSV(s) \/ DeleteSV(s) \/ ReleaseSV(s)
    PROVE  \A t \in SharedVolumes : Readiness(t)
<1>. DEFINE old == Stored(svs[s])
<1>1. old \in SharedVolume \cup {None}
  BY StoredTypes
<1>2. CASE CreateSV(s)
  <2>1. uids' \in Nat
    <3>1. uids' = uids + 1
      BY <1>2 DEF CreateSV
    <3>2. uids \in Nat
      BY DEF TypeOK, ClusterTypeOK
    <3>. QED BY <3>1, <3>2
  <2>2. \A spec \in Specs, held \in ForeignFinalizers :
            [uid |-> uids', spec |-> spec, fin |-> FALSE, held |-> held,
             deleting |-> FALSE, phase |-> "", message |-> FALSE,
             claimRef |-> FALSE] \in SharedVolume
    BY <2>1, ConstantsAssumption DEF SharedVolume, Phases
  <2>3. PICK new \in SharedVolume : new.phase = "" /\ svs' = Write(svs, s, new)
    BY <1>2, <2>2 DEF CreateSV
  <2>. QED BY <2>3, WriteReadiness
<1>3. CASE EditSV(s)
  <2>1. PICK spec \in Specs : svs' = Write(svs, s, [old EXCEPT !.spec = spec])
    BY <1>3 DEF EditSV
  <2>2. old \in SharedVolume /\ old # None
    BY <1>1, <1>3 DEF EditSV
  <2>3. /\ [old EXCEPT !.spec = spec] \in SharedVolume
        /\ [old EXCEPT !.spec = spec].phase = old.phase
        /\ [old EXCEPT !.spec = spec].deleting = old.deleting
    BY <2>2 DEF SharedVolume
  <2>. QED BY <2>1, <2>2, <2>3, WriteReadiness DEF Exists, SVOf
<1>4. CASE DeleteSV(s)
  <2>. DEFINE marked == [old EXCEPT !.deleting = TRUE]
              new == Finalized(marked)
  <2>1. old \in SharedVolume /\ svs' = Write(svs, s, new)
    BY <1>1, <1>4 DEF DeleteSV
  <2>2. marked \in SharedVolume /\ marked.deleting
    BY <2>1 DEF SharedVolume
  <2>. HIDE DEF marked
  <2>3. new \in SharedVolume \cup {None} /\ (new # None => new.deleting)
    BY <2>2 DEF Finalized
  <2>. HIDE DEF new
  <2>. QED BY <2>1, <2>3, WriteReadiness
<1>5. CASE ReleaseSV(s)
  <2>. DEFINE freed == [old EXCEPT !.held = FALSE]
              new == Finalized(freed)
  <2>1. old \in SharedVolume /\ old.deleting /\ svs' = Write(svs, s, new)
    BY <1>1, <1>5 DEF ReleaseSV
  <2>2. freed \in SharedVolume /\ freed.deleting
    BY <2>1 DEF SharedVolume
  <2>. HIDE DEF freed
  <2>3. new \in SharedVolume \cup {None} /\ (new # None => new.deleting)
    BY <2>2 DEF Finalized
  <2>. HIDE DEF new
  <2>. QED BY <2>1, <2>3, WriteReadiness
<1>. QED BY <1>2, <1>3, <1>4, <1>5

LEMMA SentReadiness ==
    ASSUME IInv, pc # "idle", NEW new \in SharedVolume \cup {None},
           UNCHANGED svs \/ (\E ok \in BOOLEAN : Send(new, ok)),
           new # None /\ new.phase = "Ready" /\ ~new.deleting =>
                ~sv.deleting /\ (sv.phase = "Ready" \/ pc = "ready")
    PROVE  \A s \in SharedVolumes : Readiness(s)
<1>1. TypeOK /\ req \in SharedVolumes /\ sv \in SharedVolume /\ sv # None
  BY BusyFacts DEF IInv
<1>2. CASE UNCHANGED svs
  BY <1>2, SameReadiness
<1>3. CASE Stored(svs[req]) = sv /\ svs' = Write(svs, req, new)
  <2>1. pc = "ready" => sv.fin
    BY <1>1, BusyFacts DEF CreatePath
  <2>2. pc = "ready" /\ ~sv.deleting => lives[req] = "guarded"
    BY <1>1, <1>3, <2>1 DEF lives, LifeOf
  <2>. QED BY <1>1, <1>3, <2>2, WriteReadiness DEF Exists, SVOf
<1>. QED BY <1>2, <1>3 DEF Send

LEMMA SVStepReadiness ==
    ASSUME IInv, SVStep \/ Unfinalize
    PROVE  \A s \in SharedVolumes : Readiness(s)
<1>1. pc # "idle"
  BY DEF SVStep, MarkDeleting, Unedit, Finalize, MarkPending, MarkFailed, MarkReady, Unfinalize
<1>2. sv \in SharedVolume
  BY <1>1, BusyFacts
<1>3. CASE MarkDeleting
  <2>1. Marked("Deleting", FALSE) \in SharedVolume /\ Marked("Deleting", FALSE).phase = "Deleting"
    BY <1>2 DEF Marked, SharedVolume, Phases
  <2>. QED BY <1>1, <1>3, <2>1, SentReadiness DEF MarkDeleting
<1>4. CASE Unedit
  <2>. DEFINE spec == SpecOf(Cached(pvs[pvNameForSharedVolume[req]]))
              new == [sv EXCEPT !.spec = spec]
  <2>1. spec \in Specs
    BY <1>1, SpecOfType DEF IInv
  <2>2. UNCHANGED svs \/ (\E ok \in BOOLEAN : Send(new, ok))
    BY <1>4 DEF Unedit
  <2>. HIDE DEF spec
  <2>3. new \in SharedVolume /\ new.deleting = sv.deleting /\ new.phase = sv.phase
    BY <1>2, <2>1 DEF SharedVolume
  <2>. QED BY <1>1, <2>2, <2>3, SentReadiness
<1>5. CASE Finalize
  <2>1. /\ [sv EXCEPT !.fin = TRUE] \in SharedVolume
        /\ [sv EXCEPT !.fin = TRUE].deleting = sv.deleting
        /\ [sv EXCEPT !.fin = TRUE].phase = sv.phase
    BY <1>2 DEF SharedVolume
  <2>. QED BY <1>1, <1>5, <2>1, SentReadiness DEF Finalize
<1>6. CASE MarkPending
  <2>1. Marked("Pending", FALSE) \in SharedVolume /\ Marked("Pending", FALSE).phase = "Pending"
    BY <1>2 DEF Marked, SharedVolume, Phases
  <2>. QED BY <1>1, <1>6, <2>1, SentReadiness DEF MarkPending
<1>7. CASE MarkFailed
  <2>1. Marked("Failed", TRUE) \in SharedVolume /\ Marked("Failed", TRUE).phase = "Failed"
    BY <1>2 DEF Marked, SharedVolume, Phases
  <2>. QED BY <1>1, <1>7, <2>1, SentReadiness DEF MarkFailed
<1>8. CASE MarkReady
  <2>. DEFINE new == [sv EXCEPT !.phase = "Ready", !.claimRef = TRUE]
  <2>1. new \in SharedVolume /\ new.deleting = sv.deleting
    BY <1>2 DEF SharedVolume, Phases
  <2>2. pc = "ready" /\ (UNCHANGED svs \/ (\E ok \in BOOLEAN : Send(new, ok)))
    BY <1>8 DEF MarkReady
  <2>. HIDE DEF new
  <2>. QED BY <1>1, <2>1, <2>2, SentReadiness
<1>9. CASE Unfinalize
  <2>. DEFINE bare == [sv EXCEPT !.fin = FALSE]
              new == Finalized(bare)
  <2>1. sv.deleting
    BY <1>1, <1>9, BusyFacts DEF Unfinalize, DeletePath
  <2>2. bare \in SharedVolume /\ bare.deleting
    BY <1>2, <2>1 DEF SharedVolume
  <2>3. \E ok \in BOOLEAN : Send(new, ok)
    BY <1>9 DEF Unfinalize
  <2>. HIDE DEF bare
  <2>4. new \in SharedVolume \cup {None} /\ (new # None => new.deleting)
    BY <2>2 DEF Finalized
  <2>. HIDE DEF new
  <2>. QED BY <1>1, <2>3, <2>4, SentReadiness
<1>. QED BY <1>3, <1>4, <1>5, <1>6, <1>7, <1>8, <1>9 DEF SVStep

LEMMA AllReadiness == ASSUME IInv, [Next]_vars PROVE \A s \in SharedVolumes : Readiness(s)
<1>1. TypeOK /\ svs \in [SharedVolumes -> Versions(SharedVolume)]
  BY DEF IInv, TypeOK, ClusterTypeOK
<1>2. CASE UNCHANGED svs
  BY <1>2, SameReadiness
<1>3. CASE Environment
  BY <1>1, <1>2, <1>3, UserReadiness DEF Environment, ReapPV, MeddlePV, ReapPVC, MeddlePVC
<1>4. ASSUME NEW s \in SharedVolumes, SyncSV(s)
      PROVE  \A t \in SharedVolumes : Readiness(t)
  <2>1. Stored(Tail(svs[s])) = Stored(svs[s])
    BY <1>1, <1>4, TailFacts DEF SyncSV
  <2>2. \A t \in SharedVolumes : Stored(svs'[t]) = Stored(svs[t])
    BY <1>1, <1>4, <2>1 DEF SyncSV, Deliver
  <2>. QED BY <2>2, SameReadiness
<1>5. CASE Informers
  BY <1>2, <1>4, <1>5 DEF Informers, SyncPVC, SyncPV, Resync, objectVars
<1>6. CASE Crash
  <2>1. \A s \in SharedVolumes : Stored(svs'[s]) = Stored(svs[s])
    BY <1>1, <1>6, RelistFacts DEF Crash, Relisted
  <2>. QED BY <2>1, SameReadiness
<1>7. CASE SVStep \/ Unfinalize
  BY <1>7, SVStepReadiness
<1>8. CASE (\E s \in SharedVolumes : Begin(s)) \/ DeletePVC \/ DeletePV \/ EnsurePV \/ EnsurePVC
  BY <1>2, <1>8 DEF Begin, DeletePVC, DeletePV, EnsurePV, EnsurePVC, objectVars
<1>9. CASE UNCHANGED vars
  BY <1>2, <1>9 DEF vars, clusterVars, objectVars
<1>. QED BY <1>3, <1>5, <1>6, <1>7, <1>8, <1>9 DEF Next, Continue, SVStep

\* What the lifecycle says of a step, in the terms of the controller.
OrderlyStep ==
    \A s \in SharedVolumes :
        /\ lives[s] = "guarded" => lives'[s] \in Lifecycle!Held
        /\ lives[s] \in Lifecycle!Held /\ lives'[s] = "guarded" =>
            /\ lives[s] = "guarded"
            /\ claims[s] = "live" => claims'[s] = "live"
            /\ volumes[pvNameForSharedVolume[s]] = "live" =>
                    volumes'[pvNameForSharedVolume[s]] = "live"

LEMMA OrderlySteps ==
    ASSUME OrderlyCluster, Abstract!TypeOK, [Abstract!Next]_Abstract!vars
    PROVE  OrderlyStep
<1>1. Abstract!Orderly
  BY ClusterIsOrderly
<1>. QED BY <1>1, Abstract!GuardedKeeps DEF OrderlyStep, Lifecycle!Held, Abstract!Held

LEMMA VolumeEnsured ==
    ASSUME IInv, ~LAGGING, EnsurePV
    PROVE  /\ UNCHANGED req
           /\ pc' = "ensurePVC" => volumes'[pvNameForSharedVolume[req]] # "none"
           /\ pc' # "ready"
<1>. DEFINE n == pvNameForSharedVolume[req]
<1>1. pc # "idle" /\ TypeOK /\ Informed
  BY DEF EnsurePV, IInv
<1>2. PICK o \in Ensure(pvEnsurable, Cached(pvs[n]), Stored(pvs[n])) :
        pvs' = Write(pvs, n, o.server) /\ GoTo(IF o.ok THEN "ensurePVC" ELSE "failed")
  BY DEF EnsurePV
<1>3. req \in SharedVolumes /\ n \in PVNames
  BY <1>1, BusyType, NamesType
<1>4. o.server \in PV \cup {None}
  BY <1>1, EnsurePVOutcome DEF OutcomeOK, PV
<1>5. Cached(pvs[n]) = Stored(pvs[n])
  BY <1>1, <1>3 DEF Informed, Current, UpToDate, Cached, Stored, TypeOK, ClusterTypeOK
<1>6. o.ok => PresenceOf(o.server) # "none"
  <2>1. pvEnsurable \in Ensurables({"PersistentVolume"}, Nat, VolumeSources, SharedVolumes)
    BY <1>1, EnsurableTypes DEF PVEnsurable
  <2>2. Stored(pvs[n]) \in Resources(VolumeSources, SharedVolumes) \cup {None}
    BY <1>1, ObjectTypes DEF PV
  <2>3. CompletesTo({"PersistentVolume"}, VolumeSources)
        /\ None \notin Resources(VolumeSources, SharedVolumes)
    BY NoneAssumption DEF CompletesTo, PV
  <2>. QED BY <1>5, <2>1, <2>2, <2>3, EnsurePresence
<1>. HIDE DEF n
<1>7. volumes' = [volumes EXCEPT ![n] = PresenceOf(o.server)]
  BY <1>1, <1>2, <1>3, <1>4, VolumesWritten
<1>8. volumes'[n] = PresenceOf(o.server)
  BY <1>3, <1>7 DEF volumes
<1>. QED BY <1>2, <1>6, <1>8 DEF GoTo, n

LEMMA ClaimEnsured ==
    ASSUME IInv, ~LAGGING, EnsurePVC
    PROVE  /\ UNCHANGED req
           /\ pc' = "ready" => claims'[req] # "none"
           /\ pc' # "ensurePVC"
<1>1. pc # "idle" /\ TypeOK /\ Informed
  BY DEF EnsurePVC, IInv
<1>2. PICK o \in Ensure(pvcEnsurable, Cached(pvcs[req]), Stored(pvcs[req])) :
        pvcs' = Write(pvcs, req, o.server) /\ GoTo(IF o.ok THEN "ready" ELSE "failed")
  BY DEF EnsurePVC
<1>3. req \in SharedVolumes
  BY <1>1, BusyType
<1>4. o.server \in PVC \cup {None}
  BY <1>1, EnsurePVCOutcome DEF OutcomeOK, PVC
<1>5. Cached(pvcs[req]) = Stored(pvcs[req])
  BY <1>1, <1>3 DEF Informed, Current, UpToDate, Cached, Stored, TypeOK, ClusterTypeOK
<1>6. o.ok => PresenceOf(o.server) # "none"
  <2>1. pvcEnsurable \in Ensurables({"PersistentVolumeClaim"}, Nat, PVNames, SharedVolumes)
    BY <1>1, EnsurableTypes DEF PVCEnsurable
  <2>2. Stored(pvcs[req]) \in Resources(PVNames, SharedVolumes) \cup {None}
    BY <1>1, ObjectTypes DEF PVC
  <2>3. CompletesTo({"PersistentVolumeClaim"}, PVNames)
        /\ None \notin Resources(PVNames, SharedVolumes)
    BY NoneAssumption DEF CompletesTo, PVC
  <2>. QED BY <1>5, <2>1, <2>2, <2>3, EnsurePresence
<1>7. claims' = [claims EXCEPT ![req] = PresenceOf(o.server)]
  BY <1>1, <1>2, <1>3, <1>4, ClaimsWritten
<1>8. claims'[req] = PresenceOf(o.server)
  BY <1>3, <1>7 DEF claims
<1>. QED BY <1>2, <1>6, <1>8 DEF GoTo

\* How the worker comes to write Ready: by EnsurePV, EnsurePVC, and standing still.
LEMMA WayToReady ==
    ASSUME [Next]_vars, pc' \in {"ensurePVC", "ready"}
    PROVE  EnsurePV \/ EnsurePVC \/ UNCHANGED <<pc, req>>
<1>1. CASE \E s \in SharedVolumes : Begin(s)
  BY <1>1 DEF Begin, workerVars
<1>2. CASE MarkDeleting \/ DeletePVC \/ DeletePV \/ Unfinalize
  BY <1>2 DEF MarkDeleting, HandleDelete, DeletePVC, DeletePV, Unfinalize, GoTo, Return
<1>3. CASE Unedit \/ Finalize \/ MarkPending \/ MarkFailed \/ MarkReady
  BY <1>3 DEF Unedit, Finalize, MarkPending, MarkFailed, MarkReady, GoTo, Return, AfterUnedit
<1>4. CASE Crash
  BY <1>4 DEF Crash
<1>5. CASE UNCHANGED workerVars \/ UNCHANGED vars
  BY <1>5 DEF workerVars, vars
<1>. QED BY <1>1, <1>2, <1>3, <1>4, <1>5 DEF Next, Continue

LEMMA BackedStep ==
    ASSUME OrderlyCluster, IInv, IInv', BackedSoFar, [Next]_vars, OrderlyStep,
           Abstract!TypeOK', Abstract!NothingWithdrawn'
    PROVE  BackedSoFar'
<1>1. ASSUME NEW s \in SharedVolumes, lives'[s] = "guarded"
      PROVE  /\ claims'[s] # "none" => claims'[s] = "live"
             /\ volumes'[pvNameForSharedVolume[s]] # "none" =>
                    volumes'[pvNameForSharedVolume[s]] = "live"
  BY <1>1, NamesType DEF Abstract!TypeOK, Abstract!NothingWithdrawn, Abstract!Presences
<1>2. ASSUME pc \in {"ensurePV", "ensurePVC", "ready"}
      PROVE  req \in SharedVolumes /\ lives[req] \in Lifecycle!Held
  BY <1>2, BusyFacts, MakerHolds DEF CreatePath
<1>3. ASSUME pc' \in {"ensurePVC", "ready"}, lives'[req'] = "guarded"
      PROVE  /\ volumes'[pvNameForSharedVolume[req']] = "live"
             /\ pc' = "ready" => claims'[req'] = "live"
  <2>1. CASE EnsurePV
    <3>1. pc = "ensurePV" /\ UNCHANGED req /\ pc' # "ready"
          /\ (pc' = "ensurePVC" => volumes'[pvNameForSharedVolume[req]] # "none")
      BY <2>1, VolumeEnsured DEF EnsurePV, OrderlyCluster
    <3>. QED BY <1>1, <1>2, <1>3, <3>1
  <2>2. CASE EnsurePVC
    <3>1. pc = "ensurePVC" /\ UNCHANGED req /\ pc' # "ensurePVC"
          /\ (pc' = "ready" => claims'[req] # "none")
      BY <2>2, ClaimEnsured DEF EnsurePVC, OrderlyCluster
    <3>. QED BY <1>1, <1>2, <1>3, <3>1 DEF BackedSoFar, OrderlyStep
  <2>3. CASE UNCHANGED <<pc, req>>
    BY <1>2, <1>3, <2>3 DEF BackedSoFar, OrderlyStep
  <2>. QED BY <1>3, <2>1, <2>2, <2>3, WayToReady
<1>4. ASSUME NEW s \in SharedVolumes,
             Exists(SVOf(s)') /\ SVOf(s)'.phase = "Ready" /\ ~SVOf(s)'.deleting
      PROVE  /\ lives'[s] = "guarded"
             /\ volumes'[pvNameForSharedVolume[s]] = "live"
             /\ claims'[s] = "live"
  <2>1. /\ lives[s] = "guarded"
        /\ volumes[pvNameForSharedVolume[s]] = "live"
        /\ claims[s] = "live"
    <3>1. Readiness(s)
      BY AllReadiness
    <3>. QED BY <1>4, <3>1 DEF Readiness, BackedSoFar
  <2>2. lives'[s] \in {"fresh", "guarded"}
    BY <1>4 DEF lives, LifeOf, SVOf, Exists
  <2>. QED BY <2>1, <2>2 DEF OrderlyStep, Lifecycle!Held
<1>. QED BY <1>3, <1>4 DEF BackedSoFar

\* In an orderly cluster phase Ready is true: the PV and the PVC are there and stay
\* (Reconcile 195-207; sharedvolume_types.go 33-36).
THEOREM ReadyIsTrue == ASSUME OrderlyCluster PROVE Spec => []ReadyIsBacked
<1>1. Init => BackedSoFar
  BY DEF Init, ClusterInit, BackedSoFar, Stored, Exists, SVOf
<1>2. IInv /\ IInv' /\ BackedSoFar /\ [Next]_vars
        /\ Abstract!TypeOK /\ [Abstract!Next]_Abstract!vars
        /\ Abstract!TypeOK' /\ Abstract!NothingWithdrawn' => BackedSoFar'
  BY OrderlySteps, BackedStep
<1>3. BackedSoFar => ReadyIsBacked
  BY NamesType DEF BackedSoFar, ReadyIsBacked, volumes, claims, PresenceOf, Exists, PVOf, PVCOf
<1>4. Abstract!Spec => [](Abstract!TypeOK /\ Abstract!NothingWithdrawn)
  BY ClusterIsOrderly, Abstract!WithdrawnNever
<1>5. Spec => Abstract!Spec
  BY Refines, SameLifecycle DEF FollowsLifecycle
<1>6. Abstract!Spec => [][Abstract!Next]_Abstract!vars
  BY PTL DEF Abstract!Spec
<1>7. IInv /\ [Next]_vars => IInv'
  BY IInvNext
<1>. QED BY <1>1, <1>2, <1>3, <1>4, <1>5, <1>6, <1>7, IInvInit, PTL DEF Spec
=============================================================================
