------------------------- MODULE SharedVolumeRefinement -------------------------
(***************************************************************************)
(* The controller implements SharedVolumeLifecycle.  What the lifecycle    *)
(* promises depends on the cluster: it is informed when caches keep up,    *)
(* patient when users are, and alone when nobody else deletes.             *)
(***************************************************************************)
EXTENDS SharedVolumeInvariant

LifeOf(obj) ==
    IF obj = None THEN "absent"
    ELSE IF obj.deleting THEN (IF obj.fin THEN "leaving" ELSE "released")
    ELSE (IF obj.fin THEN "guarded" ELSE "fresh")

PresenceOf(obj) == IF obj = None THEN "none" ELSE IF obj.term THEN "going" ELSE "live"

lives == [s \in SharedVolumes |-> LifeOf(Stored(svs[s]))]
volumes == [n \in PVNames |-> PresenceOf(Stored(pvs[n]))]
claims == [s \in SharedVolumes |-> PresenceOf(Stored(pvcs[s]))]

Lifecycle == INSTANCE SharedVolumeLifecycle WITH
    Names <- SharedVolumes, VolumeNames <- PVNames, volumeOf <- pvNameForSharedVolume,
    Patient <- PATIENT, Informed <- ~LAGGING, Alone <- "delete" \notin Meddling,
    life <- lives, volume <- volumes, claim <- claims

\* Reconcile keeps every promise of the lifecycle, step by step: the finalizer is on
\* before anything is made, deletions are never taken back, the claim goes before
\* the volume, and the finalizer comes off last (sharedvolume_controller.go 146-155, 215-250).
FollowsLifecycle == Lifecycle!Spec

-----------------------------------------------------------------------------
\* Why the operator may let go, if its caches keep up: while it deletes, the finalizer
\* and the deletion stay; what it has deleted is on its way out or gone, and nobody
\* else makes it anew.
LettingGo ==
    ~LAGGING =>
        /\ pc \in DeletePath /\ sv.fin => lives[req] = "leaving"
        /\ pc \in {"deletePV", "unfinalize"} => claims[req] # "live"
        /\ pc = "unfinalize" => volumes[pvNameForSharedVolume[req]] # "live"

\* Why phase Ready is true, in an orderly cluster: it is written once Ensure has left
\* the PV and then the PVC in place, and nothing is taken from a SharedVolume that
\* nobody deleted.
BackedSoFar ==
    /\ pc \in {"ensurePVC", "ready"} /\ lives[req] = "guarded" =>
            volumes[pvNameForSharedVolume[req]] = "live"
    /\ pc = "ready" /\ lives[req] = "guarded" => claims[req] = "live"
    /\ \A s \in SharedVolumes :
        Exists(SVOf(s)) /\ SVOf(s).phase = "Ready" /\ ~SVOf(s).deleting =>
            /\ lives[s] = "guarded"
            /\ volumes[pvNameForSharedVolume[s]] = "live"
            /\ claims[s] = "live"
=============================================================================
