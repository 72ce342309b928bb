------------------------ MODULE SharedVolumeProperties ------------------------
(***************************************************************************)
(* What the SharedVolume controller promises.                              *)
(***************************************************************************)
EXTENDS SharedVolumeController

Exists(obj) == obj # None

SVOf(s) == Stored(svs[s])
PVOf(s) == Stored(pvs[pvNameForSharedVolume[s]])
PVCOf(s) == Stored(pvcs[s])

\* The SharedVolume is there and cannot go before the operator lets it.
Guarded(s) == Exists(SVOf(s)) /\ SVOf(s).fin

-----------------------------------------------------------------------------
(* Safety. *)

\* A PV or a PVC comes into being only while a SharedVolume whose resource it is
\* holds the operator's finalizer, however stale the caches are, whatever fails
\* and whenever the operator restarts: nothing is created that no later
\* handleDelete is bound to look for (Reconcile 146-155).
CreatedUnderFinalizer ==
    [][/\ \A n \in PVNames : ~Exists(Stored(pvs[n])) /\ Exists(Stored(pvs[n])') =>
            \E s \in SharedVolumes : pvNameForSharedVolume[s] = n /\ Guarded(s)
       /\ \A s \in SharedVolumes : ~Exists(PVCOf(s)) /\ Exists(PVCOf(s)') => Guarded(s)
      ]_vars

\* A SharedVolume in phase Deleting is being deleted.  Reconcile relies on it
\* (the question in its TODO at line 166): a volume that is not being deleted
\* and had that phase would keep it until both resources are back.
DeletingPhaseIsHonest ==
    \A s \in SharedVolumes :
        Exists(SVOf(s)) /\ SVOf(s).phase = "Deleting" => SVOf(s).deleting

\* Between two Reconciles the maps have entries only for SharedVolumes that still
\* exist in the incarnation the entry was built from: the deferred deletes of
\* handleDelete leave nothing to a later SharedVolume of the same name.
EnsurablesFollowIncarnation ==
    pc = "idle" =>
        \A s \in SharedVolumes : \A map \in {pvBySharedVolume, pvcBySharedVolume} :
            Exists(map[s]) => Exists(SVOf(s)) /\ SVOf(s).uid = map[s].uid

\* With informers that keep up, every PV and PVC that is not already being
\* deleted belongs to a SharedVolume that still holds the finalizer.
NoOrphans ==
    /\ \A n \in PVNames : Exists(Stored(pvs[n])) /\ ~Stored(pvs[n]).term =>
        \E s \in SharedVolumes : pvNameForSharedVolume[s] = n /\ Guarded(s)
    /\ \A s \in SharedVolumes : Exists(PVCOf(s)) /\ ~PVCOf(s).term => Guarded(s)

\* What a user reads in a SharedVolume is what some user wrote there since it was
\* created, when caches keep up, names are reused with patience and no two
\* SharedVolumes have the same PV: uneditSharedVolume never finds the ids of another
\* SharedVolume, or of an earlier one of that name, and reads old and new style alike.
SpecWasAsked ==
    \A s \in SharedVolumes : Exists(SVOf(s)) => SVOf(s).spec \in asked[s]

\* A volume source by which the CSI driver finds these ids; the one the operator
\* writes, or that of an operator before it.
Backs(source, spec) == source \in {Written(spec), OldStyle(spec)}

\* And so does its PV lead to ids given for this incarnation, at any moment: no entry of
\* the maps and no lost reply brings back the volume of an earlier SharedVolume.
VolumeWasAsked ==
    \A s \in SharedVolumes : Exists(SVOf(s)) /\ Exists(PVOf(s)) =>
        \E spec \in asked[s] : Backs(PVOf(s).spec, spec)

\* When caches keep up and names are reused with patience, phase Ready is true: both
\* resources are there and stay (sharedvolume_types.go 33-36).  Ensure must not
\* take a failed Create for a good one, and nobody else may take them away.
ReadyIsBacked ==
    \A s \in SharedVolumes :
        Exists(SVOf(s)) /\ SVOf(s).phase = "Ready" /\ ~SVOf(s).deleting =>
            /\ Exists(PVOf(s)) /\ ~PVOf(s).term
            /\ Exists(PVCOf(s)) /\ ~PVCOf(s).term

\* Nothing is left to do: no request, no event under way.
AtRest == pc = "idle" /\ queue = {} /\ Current

Provisioned(s) ==
    /\ SVOf(s).phase = "Ready" /\ SVOf(s).claimRef
    /\ Exists(PVOf(s)) /\ PVOf(s).care /\ Backs(PVOf(s).spec, SVOf(s).spec)
    /\ Exists(PVCOf(s)) /\ PVCOf(s).care /\ PVCOf(s).spec = pvNameForSharedVolume[s]

\* As far as the operator is concerned.
Right(s) == IF SVOf(s).deleting THEN ~SVOf(s).fin ELSE SVOf(s).fin /\ Provisioned(s)

\* The owner labels name it, so that events of its PV and PVC will reach it.
Reachable(s) == PVOf(s).owner = s /\ PVCOf(s).owner = s

\* Nothing is forgotten: whenever there is nothing left to do, a live SharedVolume
\* is Ready with a PV and a PVC of its own in place, and one being deleted only waits
\* for somebody else's finalizer.  Lost replies, conflicts, stale reads and crashes
\* must all have left a request or an event behind.
RestIsRight ==
    AtRest => \A s \in SharedVolumes : Exists(SVOf(s)) =>
        Right(s) /\ (~SVOf(s).deleting => Reachable(s))

-----------------------------------------------------------------------------
(* Liveness. *)

\* A deletion completes, once nobody else holds the SharedVolume.
DeletionCompletes ==
    \A s \in SharedVolumes :
        Exists(SVOf(s)) /\ SVOf(s).deleting ~> ~Guarded(s)

\* A SharedVolume gets its PV and PVC and reads Ready, unless it is deleted.
Provisions ==
    \A s \in SharedVolumes :
        Exists(SVOf(s)) ~> (~Exists(SVOf(s)) \/ SVOf(s).deleting \/ Provisioned(s))

\* The controller stops writing: no reconcile keeps triggering the next one.
ComesToRest == <>[][UNCHANGED objectVars]_vars

-----------------------------------------------------------------------------
(* What a comment says, and the code does not keep to. *)

\* ensurable.go:166: use the cached version, "because it's not only right, it's
\* complete"; equal: objects "need to not have their we-care-about-them markers
\* changed".  So what an Ensurable remembers always has the label.
RememberedObjectsCare ==
    \A s \in SharedVolumes : \A map \in {pvBySharedVolume, pvcBySharedVolume} :
        Exists(map[s]) /\ Exists(map[s].latestVersion) => map[s].latestVersion.care
=============================================================================
