------------------------- MODULE SharedVolumeCluster -------------------------
(***************************************************************************)
(* The cluster the SharedVolume controller lives in: the API server's      *)
(* SharedVolumes, PersistentVolumes and PersistentVolumeClaims, the        *)
(* operator's informer caches with the watches that fill its work queue,   *)
(* the users, and the Kubernetes controllers that finish deletions.        *)
(* Everything but the wiring of the watches is external to the operator.   *)
(***************************************************************************)
EXTENDS Informer, VolumeHandle

CONSTANTS
    SharedVolumes,          \* SharedVolumes there may be, each with its
    namespaceOf, nameOf,    \*   namespace and name, as sequences of parts
    Specs,                  \* pairs of file system and access point ids
    Garbled,                \* volume sources no ids can be read from
    LAGGING,                \* informers may be behind the API server
    PATIENT,                \* users recreate a name only when its PV and PVC are gone
    ForeignFinalizers,      \* may a SharedVolume carry somebody else's finalizer?
    Meddling,               \* what users do to PVs and PVCs behind the operator's back
    MaxUid, MaxEdits, MaxMeddles, MaxFaults, MaxCrashes   \* bounds

Kinds == {"delete", "unlabel", "disown", "garble", "restyle"}

pvNameForSharedVolume == [s \in SharedVolumes |-> PVName(namespaceOf[s], nameOf[s])]
PVNames == {pvNameForSharedVolume[s] : s \in SharedVolumes}

\* The volume source of a PV: written for some ids now or by an old operator, or not
\* readable.
VolumeSources == {Written(spec) : spec \in Specs} \cup {OldStyle(spec) : spec \in Specs} \cup Garbled

\* No two SharedVolumes have the same PVC.
ASSUME NamesAssumption ==
    \A s, t \in SharedVolumes :
        s # t => namespaceOf[s] # namespaceOf[t] \/ PVCName(nameOf[s]) # PVCName(nameOf[t])

ASSUME IdsAssumption ==
    /\ \A spec \in Specs :
        spec = Ids(spec.FileSystemID, spec.AccessPointID) /\ spec.AccessPointID # ""
    /\ \A source \in Garbled : ~Readable(source)

ASSUME ConstantsAssumption ==
    /\ LAGGING \in BOOLEAN /\ PATIENT \in BOOLEAN
    /\ ForeignFinalizers \subseteq BOOLEAN
    /\ Meddling \subseteq Kinds
    /\ MaxUid \in Nat /\ MaxEdits \in Nat /\ MaxMeddles \in Nat
    /\ MaxFaults \in Nat /\ MaxCrashes \in Nat

VARIABLES
    svs, pvs, pvcs,     \* versions of each object, from the cached to the stored
    queue,              \* the controller's de-duplicating work queue
    uids,               \* ghost: the last uid handed out
    asked,              \* ghost: the specs users gave this incarnation
    spent               \* what is used of the bounds on the environment

objectVars == <<svs, pvs, pvcs>>
ghostVars == <<uids, asked>>
clusterVars == <<objectVars, queue, ghostVars, spent>>

\* fin: the operator's finalizer; held: a foreign one; message: an error text is
\* set; claimRef: Status.ClaimRef names the PVC.
Phases == {"", "Pending", "Ready", "Deleting", "Failed"}

SharedVolume ==
    [uid: Nat, spec: Specs, fin: BOOLEAN, held: BOOLEAN, deleting: BOOLEAN,
     phase: Phases, message: BOOLEAN, claimRef: BOOLEAN]

PV == Resources(VolumeSources, SharedVolumes)
PVC == Resources(PVNames, SharedVolumes)

ASSUME NoneAssumption ==
    /\ None \notin SharedVolumes
    /\ None \notin SharedVolume
    /\ None \notin PV
    /\ None \notin PVC

Budget == [edits: Nat, meddles: Nat, faults: Nat, crashes: Nat]

ClusterTypeOK ==
    /\ svs \in [SharedVolumes -> Versions(SharedVolume)]
    /\ pvs \in [PVNames -> Versions(PV)]
    /\ pvcs \in [SharedVolumes -> Versions(PVC)]
    /\ queue \in SUBSET SharedVolumes
    /\ uids \in Nat
    /\ asked \in [SharedVolumes -> SUBSET Specs]
    /\ spent \in Budget

ClusterInit ==
    /\ svs = [s \in SharedVolumes |-> <<None>>]
    /\ pvs = [n \in PVNames |-> <<None>>]
    /\ pvcs = [s \in SharedVolumes |-> <<None>>]
    /\ queue = {}
    /\ uids = 0
    /\ asked = [s \in SharedVolumes |-> {}]
    /\ spent = [edits |-> 0, meddles |-> 0, faults |-> 0, crashes |-> 0]

-----------------------------------------------------------------------------
(* The bounds on the environment. *)

Edit == spent.edits < MaxEdits /\ spent' = [spent EXCEPT !.edits = @ + 1]
Meddle == spent.meddles < MaxMeddles /\ spent' = [spent EXCEPT !.meddles = @ + 1]
Fault == spent.faults < MaxFaults /\ spent' = [spent EXCEPT !.faults = @ + 1]

-----------------------------------------------------------------------------
(* Users, acting on SharedVolumes. *)

\* An object goes when its deletion was asked for and no finalizer is left.
Finalized(obj) == IF obj.deleting /\ ~obj.fin /\ ~obj.held THEN None ELSE obj

CreateSV(s) ==
    /\ Stored(svs[s]) = None
    /\ uids < MaxUid
    /\ PATIENT => /\ Stored(pvs[pvNameForSharedVolume[s]]) = None
                  /\ Stored(pvcs[s]) = None
    /\ uids' = uids + 1
    /\ \E spec \in Specs, held \in ForeignFinalizers :
        /\ svs' = Write(svs, s,
                    [uid |-> uids', spec |-> spec, fin |-> FALSE, held |-> held,
                     deleting |-> FALSE, phase |-> "", message |-> FALSE,
                     claimRef |-> FALSE])
        /\ asked' = [asked EXCEPT ![s] = {spec}]
    /\ UNCHANGED <<pvs, pvcs, queue, spent>>

EditSV(s) ==
    /\ Stored(svs[s]) # None
    /\ Edit
    /\ \E spec \in Specs \ {Stored(svs[s]).spec} :
        /\ svs' = Write(svs, s, [Stored(svs[s]) EXCEPT !.spec = spec])
        /\ asked' = [asked EXCEPT ![s] = @ \cup {spec}]
    /\ UNCHANGED <<pvs, pvcs, queue, uids>>

DeleteSV(s) ==
    /\ Stored(svs[s]) # None
    /\ ~Stored(svs[s]).deleting
    /\ svs' = Write(svs, s, Finalized([Stored(svs[s]) EXCEPT !.deleting = TRUE]))
    /\ UNCHANGED <<pvs, pvcs, queue, ghostVars, spent>>

\* Whoever holds the other finalizer lets go.
ReleaseSV(s) ==
    /\ Stored(svs[s]) # None
    /\ Stored(svs[s]).deleting /\ Stored(svs[s]).held
    /\ svs' = Write(svs, s, Finalized([Stored(svs[s]) EXCEPT !.held = FALSE]))
    /\ UNCHANGED <<pvs, pvcs, queue, ghostVars, spent>>

-----------------------------------------------------------------------------
(* Kubernetes removes a terminating PV or PVC once nothing uses it, which may
   be never: a pod may hold on to the claim. *)

ReapPV(n) ==
    /\ Stored(pvs[n]) # None
    /\ Stored(pvs[n]).term
    /\ pvs' = Write(pvs, n, None)
    /\ UNCHANGED <<svs, pvcs, queue, ghostVars, spent>>

ReapPVC(s) ==
    /\ Stored(pvcs[s]) # None
    /\ Stored(pvcs[s]).term
    /\ pvcs' = Write(pvcs, s, None)
    /\ UNCHANGED <<svs, pvs, queue, ghostVars, spent>>

-----------------------------------------------------------------------------
(* Users, acting on PVs and PVCs behind the operator's back: deleting them,
   taking the watch label off, taking the owner labels off, or (PVs only)
   putting in its place a PV from which no ids can be read, or one in the style
   of an old operator. *)

Newer(obj) == [obj EXCEPT !.rv = @ + 1]

Meddled(obj, kind) ==
    CASE kind = "delete"  -> {Terminating(obj)}
      [] kind = "unlabel" -> {Newer([obj EXCEPT !.care = FALSE])}
      [] kind = "disown"  -> {Newer([obj EXCEPT !.owner = None])}
      [] kind = "garble"  -> {Newer([obj EXCEPT !.spec = source]) : source \in Garbled}
      [] kind = "restyle" -> {Newer([obj EXCEPT !.spec = OldStyle(spec)]) :
                                spec \in {sp \in Specs : obj.spec = Written(sp)}}

MeddlePV(n) ==
    /\ Stored(pvs[n]) # None
    /\ Meddle
    /\ \E kind \in Meddling : \E obj \in Meddled(Stored(pvs[n]), kind) :
        pvs' = Write(pvs, n, obj)
    /\ UNCHANGED <<svs, pvcs, queue, ghostVars>>

MeddlePVC(s) ==
    /\ Stored(pvcs[s]) # None
    /\ Meddle
    /\ \E kind \in Meddling \ {"garble", "restyle"} : \E obj \in Meddled(Stored(pvcs[s]), kind) :
        pvcs' = Write(pvcs, s, obj)
    /\ UNCHANGED <<svs, pvs, queue, ghostVars>>

-----------------------------------------------------------------------------
(* The operator's informers and the three watches of the controller. *)

\* The SharedVolume an object's owner labels name.
toSharedVolume(obj) == IF obj = None \/ obj.owner = None THEN {} ELSE {obj.owner}

Requests(old, new) ==
    IF passes(old, new) THEN toSharedVolume(old) \cup toSharedVolume(new) ELSE {}

SyncSV(s) ==
    /\ Len(svs[s]) > 1
    /\ svs' = Deliver(svs, s)
    /\ queue' = queue \cup {s}
    /\ UNCHANGED <<pvs, pvcs, ghostVars, spent>>

SyncPV(n) ==
    /\ Len(pvs[n]) > 1
    /\ pvs' = Deliver(pvs, n)
    /\ queue' = queue \cup Requests(pvs[n][1], pvs[n][2])
    /\ UNCHANGED <<svs, pvcs, ghostVars, spent>>

SyncPVC(s) ==
    /\ Len(pvcs[s]) > 1
    /\ pvcs' = Deliver(pvcs, s)
    /\ queue' = queue \cup Requests(pvcs[s][1], pvcs[s][2])
    /\ UNCHANGED <<svs, pvs, ghostVars, spent>>

\* An event that changes nothing: a resync, or a status change of a PV or PVC.
Resync(s) ==
    /\ Cached(svs[s]) # None
    /\ queue' = queue \cup {s}
    /\ UNCHANGED <<objectVars, ghostVars, spent>>

\* All three caches show what the API server holds.
Current == UpToDate(svs) /\ UpToDate(pvs) /\ UpToDate(pvcs)
Informed == LAGGING \/ Current

\* Mutant: SharedVolumes themselves are not watched from the start.
Listed_ResourcesOnly ==
    (UNION {Requests(None, Stored(pvs[n])) : n \in PVNames})
    \cup (UNION {Requests(None, Stored(pvcs[s])) : s \in SharedVolumes})

\* What the first list of each informer puts in the queue when the operator starts.
Listed ==
    {s \in SharedVolumes : Stored(svs[s]) # None}
    \cup (UNION {Requests(None, Stored(pvs[n])) : n \in PVNames})
    \cup (UNION {Requests(None, Stored(pvcs[s])) : s \in SharedVolumes})

Environment ==
    \/ \E s \in SharedVolumes :
        CreateSV(s) \/ EditSV(s) \/ DeleteSV(s) \/ ReleaseSV(s)
    \/ \E n \in PVNames : ReapPV(n) \/ MeddlePV(n)
    \/ \E s \in SharedVolumes : ReapPVC(s) \/ MeddlePVC(s)

Informers ==
    \/ \E s \in SharedVolumes : SyncSV(s) \/ SyncPVC(s) \/ Resync(s)
    \/ \E n \in PVNames : SyncPV(n)
=============================================================================
