------------------------ MODULE SharedVolumeInvariant ------------------------
(***************************************************************************)
(* An inductive invariant of the SharedVolume controller, from which       *)
(* CreatedUnderFinalizer, DeletingPhaseIsHonest and                        *)
(* EnsurablesFollowIncarnation follow for every value of the constants.    *)
(* The argument: finalizers are taken off by the worker alone, and only    *)
(* after it has read that the SharedVolume is being deleted; what is read  *)
(* may be old, but never goes back.  So as long as the client still shows  *)
(* a version with the finalizer and no deletion, the API server has that   *)
(* very incarnation with the finalizer.                                    *)
(***************************************************************************)
EXTENDS SharedVolumeProperties

\* A deletion is never taken back, a finalizer not before the deletion is seen,
\* no version has a uid that was not handed out yet, phase Deleting is honest.
HistoryOK(versions, u) ==
    /\ \A i \in 1..Len(versions) : versions[i] # None =>
        /\ versions[i].uid <= u
        /\ versions[i].phase = "Deleting" => versions[i].deleting
    /\ \A i, j \in 1..Len(versions) : i <= j /\ versions[i] # None =>
        /\ versions[i].deleting /\ versions[j] # None /\ versions[j].uid = versions[i].uid
            => versions[j].deleting
        /\ versions[i].fin /\ ~versions[i].deleting =>
            versions[j] # None /\ versions[j].uid = versions[i].uid /\ versions[j].fin

\* What the worker's copy says of every version its watch has not got past.
CopyOK(copy, versions) ==
    IF copy.deleting
    THEN \A i \in 1..Len(versions) :
            versions[i] # None /\ versions[i].uid = copy.uid => versions[i].deleting
    ELSE copy.fin =>
            \A i \in 1..Len(versions) :
                versions[i] # None /\ versions[i].uid = copy.uid /\ versions[i].fin

WorkerOK ==
    pc # "idle" =>
        /\ CopyOK(sv, svs[req])
        /\ sv.uid <= uids
        /\ sv.phase = "Deleting" => sv.deleting
        /\ sv.deleting <=> pc \in DeletePath
        /\ pc \in CreatePath \cup (DeletePath \ {"deleting"}) => sv.fin

\* The entry was built for the incarnation the API server has, with the finalizer.
EntryOK(e, versions) ==
    /\ Stored(versions) # None
    /\ Stored(versions).uid = e.uid
    /\ Stored(versions).fin

MapsOK ==
    \A s \in SharedVolumes :
        /\ pvBySharedVolume[s] # None =>
            \/ EntryOK(pvBySharedVolume[s], svs[s])
            \/ req = s /\ pc = "unfinalize"
        /\ pvcBySharedVolume[s] # None =>
            \/ EntryOK(pvcBySharedVolume[s], svs[s])
            \/ req = s /\ pc \in {"deletePV", "unfinalize"}

IInv ==
    /\ TypeOK
    /\ \A s \in SharedVolumes : HistoryOK(svs[s], uids)
    /\ WorkerOK
    /\ MapsOK

-----------------------------------------------------------------------------
(***************************************************************************)
(* And one from which SpecWasAsked and VolumeWasAsked follow, with caches  *)
(* that keep up, users who have patience and a PV for each SharedVolume.   *)
(* The argument: what the PV of a SharedVolume says was written from an    *)
(* Ensurable built for the same incarnation, and an old incarnation's PV,  *)
(* entry or copy never meets a new one.                                    *)
(***************************************************************************)

\* Each SharedVolume has a PV of its own.
OwnVolumes ==
    \A s, t \in SharedVolumes : pvNameForSharedVolume[s] = pvNameForSharedVolume[t] => s = t

\* Caches keep up, users reuse a name only when its PV and PVC are gone, no two
\* SharedVolumes have the same PV, and nobody makes a PV unreadable.
Careful == ~LAGGING /\ PATIENT /\ OwnVolumes /\ "garble" \notin Meddling

\* What users asked for, as this operator writes it or one before it did.
AskedSources(s) == {Written(spec) : spec \in asked[s]} \cup {OldStyle(spec) : spec \in asked[s]}

VolumeAsked(s) ==
    Exists(SVOf(s)) =>
        /\ SVOf(s).spec \in asked[s]
        /\ PVOf(s) \in Resources(AskedSources(s), SharedVolumes) \cup {None}

EntryAsked(s) ==
    \/ pvBySharedVolume[s] = None
    \/ pvBySharedVolume[s] \in
            Ensurables({"PersistentVolume"}, Nat, AskedSources(s), SharedVolumes)
    \/ req = s /\ pc = "unfinalize"

CopyAsked(s) ==
    req = s /\ pc \notin DeletePath \cup {"idle"} /\ Exists(SVOf(s)) /\ SVOf(s).uid = sv.uid =>
        sv.spec \in asked[s]

AskedInv == \A s \in SharedVolumes : VolumeAsked(s) /\ EntryAsked(s) /\ CopyAsked(s)
=============================================================================
