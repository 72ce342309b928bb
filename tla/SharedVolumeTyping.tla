-------------------------- MODULE SharedVolumeTyping --------------------------
(***************************************************************************)
(* Type correctness of the SharedVolume controller and its cluster.        *)
(***************************************************************************)
EXTENDS SharedVolumeInvariant, EnsurableProofs, VolumeHandleProofs

LEMMA BudgetType ==
    ASSUME TypeOK, Edit \/ Meddle \/ Fault \/ UNCHANGED spent
    PROVE  spent' \in Budget
<1>. spent \in Budget
  BY DEF TypeOK, ClusterTypeOK
<1>. QED BY DEF Edit, Meddle, Fault, Budget

\* Of the worker, when it is in the middle of a Reconcile.
LEMMA BusyType ==
    ASSUME TypeOK, pc # "idle"
    PROVE  /\ pc \in Steps /\ req \in SharedVolumes /\ sv \in SharedVolume
           /\ req # None /\ sv # None
BY NoneAssumption DEF TypeOK

LEMMA SendType ==
    ASSUME TypeOK, pc # "idle", NEW new \in SharedVolume \cup {None}, NEW ok, Send(new, ok)
    PROVE  svs' \in [SharedVolumes -> Versions(SharedVolume)] /\ spent' \in Budget
<1>1. svs \in [SharedVolumes -> Versions(SharedVolume)] /\ req \in SharedVolumes
  BY BusyType DEF TypeOK, ClusterTypeOK
<1>2. svs' = svs \/ svs' = Write(svs, req, new)
  BY DEF Send
<1>3. Write(svs, req, new) \in [SharedVolumes -> Versions(SharedVolume)]
  BY <1>1, WriteFacts
<1>4. spent' \in Budget
  BY BudgetType DEF Send
<1>. QED BY <1>1, <1>2, <1>3, <1>4

LEMMA ReturnType ==
    ASSUME TypeOK, pc # "idle", NEW requeue, Return(requeue)
    PROVE  pc' = "idle" /\ req' = None /\ sv' = None /\ queue' \in SUBSET SharedVolumes
BY BusyType DEF Return, TypeOK, ClusterTypeOK

LEMMA GoToType ==
    ASSUME TypeOK, pc # "idle", NEW step \in Steps, GoTo(step)
    PROVE  /\ pc' \in Steps /\ req' \in SharedVolumes /\ sv' \in SharedVolume
           /\ queue' \in SUBSET SharedVolumes
BY BusyType DEF GoTo, TypeOK, ClusterTypeOK

LEMMA NamesType == \A s \in SharedVolumes : pvNameForSharedVolume[s] \in PVNames
BY DEF pvNameForSharedVolume, PVNames

LEMMA EnsurableTypes ==
    ASSUME TypeOK, pc # "idle"
    PROVE  /\ pvEnsurable \in PVEnsurable
           /\ pvcEnsurable \in PVCEnsurable
           /\ pvEnsurable.uid = IF pvBySharedVolume[req] = None THEN sv.uid
                                ELSE pvBySharedVolume[req].uid
           /\ pvcEnsurable.uid = IF pvcBySharedVolume[req] = None THEN sv.uid
                                 ELSE pvcBySharedVolume[req].uid
<1>1. req \in SharedVolumes /\ sv \in SharedVolume
  BY BusyType
<1>2. sv.uid \in Nat /\ Written(sv.spec) \in VolumeSources
  BY <1>1 DEF SharedVolume, VolumeSources
<1>3. pvNameForSharedVolume[req] \in PVNames
  BY <1>1, NamesType
<1>4. /\ NewEnsurable("PersistentVolume", sv.uid, Written(sv.spec), req) \in PVEnsurable
      /\ NewEnsurable("PersistentVolume", sv.uid, Written(sv.spec), req).uid = sv.uid
  BY <1>1, <1>2 DEF PVEnsurable, NewEnsurable, Ensurables, Resources, NoVersion
<1>5. /\ NewEnsurable("PersistentVolumeClaim", sv.uid, pvNameForSharedVolume[req], req) \in PVCEnsurable
      /\ NewEnsurable("PersistentVolumeClaim", sv.uid, pvNameForSharedVolume[req], req).uid = sv.uid
  BY <1>1, <1>2, <1>3 DEF PVCEnsurable, NewEnsurable, Ensurables, Resources, NoVersion
<1>6. /\ pvBySharedVolume[req] \in PVEnsurable \cup {None}
      /\ pvcBySharedVolume[req] \in PVCEnsurable \cup {None}
  BY <1>1 DEF TypeOK
<1>. QED BY <1>4, <1>5, <1>6 DEF pvEnsurable, pvcEnsurable

\* The PV and the PVC of the SharedVolume at hand.
LEMMA ObjectTypes ==
    ASSUME TypeOK, pc # "idle"
    PROVE  /\ pvNameForSharedVolume[req] \in PVNames
           /\ Cached(pvs[pvNameForSharedVolume[req]]) \in PV \cup {None}
           /\ Stored(pvs[pvNameForSharedVolume[req]]) \in PV \cup {None}
           /\ Cached(pvcs[req]) \in PVC \cup {None}
           /\ Stored(pvcs[req]) \in PVC \cup {None}
<1>1. req \in SharedVolumes /\ pvNameForSharedVolume[req] \in PVNames
  BY BusyType, NamesType
<1>2. pvs[pvNameForSharedVolume[req]] \in Versions(PV) /\ pvcs[req] \in Versions(PVC)
  BY <1>1 DEF TypeOK, ClusterTypeOK
<1>. QED BY <1>1, <1>2, VersionsFacts

-----------------------------------------------------------------------------
(* Steps of the environment and of the informers. *)

LEMMA FinalizedType ==
    ASSUME NEW obj \in SharedVolume
    PROVE  Finalized(obj) \in SharedVolume \cup {None}
BY DEF Finalized

LEMMA MeddledType ==
    ASSUME NEW S, NEW obj \in Resources(S, SharedVolumes), None \notin Resources(S, SharedVolumes),
           NEW kind \in Kinds, NEW new \in Meddled(obj, kind),
           kind = "garble" => Garbled \subseteq S,
           kind = "restyle" => {OldStyle(spec) : spec \in Specs} \subseteq S
    PROVE  new \in Resources(S, SharedVolumes) \cup {None}
<1>1. CASE kind = "delete"
  BY <1>1, TerminatingType DEF Meddled
<1>. obj.rv + 1 \in Nat
  BY DEF Resources
<1>2. CASE kind = "unlabel"
  <2>1. [obj EXCEPT !.care = FALSE] \in Resources(S, SharedVolumes)
    BY DEF Resources
  <2>2. Newer([obj EXCEPT !.care = FALSE]) \in Resources(S, SharedVolumes)
    BY <2>1 DEF Newer, Resources
  <2>. QED BY <1>2, <2>2 DEF Meddled
<1>3. CASE kind = "disown"
  <2>1. [obj EXCEPT !.owner = None] \in Resources(S, SharedVolumes)
    BY DEF Resources
  <2>2. Newer([obj EXCEPT !.owner = None]) \in Resources(S, SharedVolumes)
    BY <2>1 DEF Newer, Resources
  <2>. QED BY <1>3, <2>2 DEF Meddled
<1>4. ASSUME NEW source \in S
      PROVE  Newer([obj EXCEPT !.spec = source]) \in Resources(S, SharedVolumes)
  <2>1. [obj EXCEPT !.spec = source] \in Resources(S, SharedVolumes)
    BY DEF Resources
  <2>. QED BY <2>1 DEF Newer, Resources
<1>5. CASE kind = "garble"
  <2>1. PICK source \in S : new = Newer([obj EXCEPT !.spec = source])
    BY <1>5 DEF Meddled
  <2>. QED BY <1>4, <2>1
<1>6. CASE kind = "restyle"
  <2>1. PICK source \in S : new = Newer([obj EXCEPT !.spec = source])
    BY <1>6 DEF Meddled
  <2>. QED BY <1>4, <2>1
<1>. QED BY <1>1, <1>2, <1>3, <1>5, <1>6 DEF Kinds

LEMMA RequestsType ==
    ASSUME NEW S, NEW old \in Resources(S, SharedVolumes) \cup {None},
           NEW new \in Resources(S, SharedVolumes) \cup {None}
    PROVE  Requests(old, new) \subseteq SharedVolumes
<1>1. toSharedVolume(old) \subseteq SharedVolumes
  BY DEF toSharedVolume, Resources
<1>2. toSharedVolume(new) \subseteq SharedVolumes
  BY DEF toSharedVolume, Resources
<1>. QED BY <1>1, <1>2 DEF Requests

LEMMA StoredTypes ==
    ASSUME TypeOK
    PROVE  /\ \A s \in SharedVolumes : Stored(svs[s]) \in SharedVolume \cup {None}
           /\ \A n \in PVNames : Stored(pvs[n]) \in PV \cup {None}
           /\ \A s \in SharedVolumes : Stored(pvcs[s]) \in PVC \cup {None}
<1>1. /\ \A s \in SharedVolumes : svs[s] \in Versions(SharedVolume)
      /\ \A n \in PVNames : pvs[n] \in Versions(PV)
      /\ \A s \in SharedVolumes : pvcs[s] \in Versions(PVC)
  BY DEF TypeOK, ClusterTypeOK
<1>. QED BY <1>1, VersionsFacts

\* A step that leaves the worker and the maps alone is typed if the cluster is.
LEMMA EnvironmentFrame ==
    ASSUME TypeOK, UNCHANGED <<workerVars, mapVars>>, ClusterTypeOK'
    PROVE  TypeOK'
BY DEF TypeOK, workerVars, mapVars

LEMMA CreateSVType ==
    ASSUME TypeOK, NEW s \in SharedVolumes, CreateSV(s)
    PROVE  ClusterTypeOK'
<1>1. uids' \in Nat
  <2>1. uids' = uids + 1
    BY DEF CreateSV
  <2>2. uids \in Nat
    BY DEF TypeOK, ClusterTypeOK
  <2>. QED BY <2>1, <2>2
<1>2. PICK spec \in Specs, held \in ForeignFinalizers :
        /\ svs' = Write(svs, s,
                    [uid |-> uids', spec |-> spec, fin |-> FALSE, held |-> held,
                     deleting |-> FALSE, phase |-> "", message |-> FALSE,
                     claimRef |-> FALSE])
        /\ asked' = [asked EXCEPT ![s] = {spec}]
  BY DEF CreateSV
<1>3. [uid |-> uids', spec |-> spec, fin |-> FALSE, held |-> held,
       deleting |-> FALSE, phase |-> "", message |-> FALSE, claimRef |-> FALSE] \in SharedVolume
  BY <1>1, ConstantsAssumption DEF SharedVolume, Phases
<1>4. svs' \in [SharedVolumes -> Versions(SharedVolume)]
  BY <1>2, <1>3, WriteFacts DEF TypeOK, ClusterTypeOK
<1>5. asked' \in [SharedVolumes -> SUBSET Specs]
  BY <1>2 DEF TypeOK, ClusterTypeOK
<1>. QED BY <1>1, <1>4, <1>5 DEF CreateSV, TypeOK, ClusterTypeOK

LEMMA EditSVType ==
    ASSUME TypeOK, NEW s \in SharedVolumes, EditSV(s)
    PROVE  ClusterTypeOK'
<1>1. Stored(svs[s]) \in SharedVolume
  BY StoredTypes DEF EditSV
<1>2. PICK spec \in Specs :
        /\ svs' = Write(svs, s, [Stored(svs[s]) EXCEPT !.spec = spec])
        /\ asked' = [asked EXCEPT ![s] = @ \cup {spec}]
  BY DEF EditSV
<1>3. [Stored(svs[s]) EXCEPT !.spec = spec] \in SharedVolume
  BY <1>1 DEF SharedVolume
<1>4. svs' \in [SharedVolumes -> Versions(SharedVolume)]
  BY <1>2, <1>3, WriteFacts DEF TypeOK, ClusterTypeOK
<1>5. asked' \in [SharedVolumes -> SUBSET Specs]
  BY <1>2 DEF TypeOK, ClusterTypeOK
<1>6. spent' \in Budget
  BY BudgetType DEF EditSV
<1>. QED BY <1>4, <1>5, <1>6 DEF EditSV, TypeOK, ClusterTypeOK

LEMMA DeleteSVType ==
    ASSUME TypeOK, NEW s \in SharedVolumes, DeleteSV(s) \/ ReleaseSV(s)
    PROVE  ClusterTypeOK'
<1>1. Stored(svs[s]) \in SharedVolume
  BY StoredTypes DEF DeleteSV, ReleaseSV
<1>2. /\ [Stored(svs[s]) EXCEPT !.deleting = TRUE] \in SharedVolume
      /\ [Stored(svs[s]) EXCEPT !.held = FALSE] \in SharedVolume
  BY <1>1 DEF SharedVolume
<1>3. PICK new \in SharedVolume \cup {None} : svs' = Write(svs, s, new)
  BY <1>2, FinalizedType DEF DeleteSV, ReleaseSV
<1>4. svs' \in [SharedVolumes -> Versions(SharedVolume)]
  BY <1>3, WriteFacts DEF TypeOK, ClusterTypeOK
<1>. QED BY <1>4 DEF DeleteSV, ReleaseSV, ghostVars, TypeOK, ClusterTypeOK

LEMMA ReapType ==
    ASSUME TypeOK, \/ \E n \in PVNames : ReapPV(n)
                   \/ \E s \in SharedVolumes : ReapPVC(s)
    PROVE  ClusterTypeOK'
<1>1. ASSUME NEW n \in PVNames, ReapPV(n)
      PROVE  ClusterTypeOK'
  <2>1. pvs' \in [PVNames -> Versions(PV)]
    BY <1>1, WriteFacts DEF ReapPV, TypeOK, ClusterTypeOK
  <2>. QED BY <1>1, <2>1 DEF ReapPV, ghostVars, TypeOK, ClusterTypeOK
<1>2. ASSUME NEW s \in SharedVolumes, ReapPVC(s)
      PROVE  ClusterTypeOK'
  <2>1. pvcs' \in [SharedVolumes -> Versions(PVC)]
    BY <1>2, WriteFacts DEF ReapPVC, TypeOK, ClusterTypeOK
  <2>. QED BY <1>2, <2>1 DEF ReapPVC, ghostVars, TypeOK, ClusterTypeOK
<1>. QED BY <1>1, <1>2

LEMMA MeddleType ==
    ASSUME TypeOK, \/ \E n \in PVNames : MeddlePV(n)
                   \/ \E s \in SharedVolumes : MeddlePVC(s)
    PROVE  ClusterTypeOK'
<1>1. ASSUME NEW n \in PVNames, MeddlePV(n)
      PROVE  ClusterTypeOK'
  <2>1. PICK kind \in Kinds : \E obj \in Meddled(Stored(pvs[n]), kind) : pvs' = Write(pvs, n, obj)
    BY <1>1, ConstantsAssumption DEF MeddlePV
  <2>. PICK obj \in Meddled(Stored(pvs[n]), kind) : pvs' = Write(pvs, n, obj)
    BY <2>1
  <2>2. Stored(pvs[n]) \in Resources(VolumeSources, SharedVolumes)
    BY <1>1, StoredTypes DEF MeddlePV, PV
  <2>3. obj \in PV \cup {None}
    BY <2>2, MeddledType, NoneAssumption DEF PV, VolumeSources
  <2>4. pvs' \in [PVNames -> Versions(PV)]
    BY <2>1, <2>3, WriteFacts DEF TypeOK, ClusterTypeOK
  <2>5. spent' \in Budget
    BY <1>1, BudgetType DEF MeddlePV
  <2>. QED BY <1>1, <2>4, <2>5 DEF MeddlePV, ghostVars, TypeOK, ClusterTypeOK
<1>2. ASSUME NEW s \in SharedVolumes, MeddlePVC(s)
      PROVE  ClusterTypeOK'
  <2>1. PICK kind \in Kinds \ {"garble", "restyle"} :
            \E obj \in Meddled(Stored(pvcs[s]), kind) : pvcs' = Write(pvcs, s, obj)
    BY <1>2, ConstantsAssumption DEF MeddlePVC
  <2>. PICK obj \in Meddled(Stored(pvcs[s]), kind) : pvcs' = Write(pvcs, s, obj)
    BY <2>1
  <2>2. Stored(pvcs[s]) \in Resources(PVNames, SharedVolumes)
    BY <1>2, StoredTypes DEF MeddlePVC, PVC
  <2>3. obj \in PVC \cup {None}
    BY <2>2, MeddledType, NoneAssumption DEF PVC
  <2>4. pvcs' \in [SharedVolumes -> Versions(PVC)]
    BY <2>1, <2>3, WriteFacts DEF TypeOK, ClusterTypeOK
  <2>5. spent' \in Budget
    BY <1>2, BudgetType DEF MeddlePVC
  <2>. QED BY <1>2, <2>4, <2>5 DEF MeddlePVC, ghostVars, TypeOK, ClusterTypeOK
<1>. QED BY <1>1, <1>2

LEMMA InformersType ==
    ASSUME TypeOK, Informers
    PROVE  ClusterTypeOK'
<1>1. ASSUME NEW s \in SharedVolumes, SyncSV(s)
      PROVE  ClusterTypeOK'
  <2>1. svs' \in [SharedVolumes -> Versions(SharedVolume)]
    BY <1>1, DeliverType DEF SyncSV, TypeOK, ClusterTypeOK
  <2>. QED BY <1>1, <2>1 DEF SyncSV, ghostVars, TypeOK, ClusterTypeOK
<1>2. ASSUME NEW n \in PVNames, SyncPV(n)
      PROVE  ClusterTypeOK'
  <2>1. /\ pvs' \in [PVNames -> Versions(PV)]
        /\ pvs[n][1] \in PV \cup {None} /\ pvs[n][2] \in PV \cup {None}
    BY <1>2, DeliverType DEF SyncPV, TypeOK, ClusterTypeOK
  <2>2. Requests(pvs[n][1], pvs[n][2]) \subseteq SharedVolumes
    BY <2>1, RequestsType DEF PV
  <2>3. queue' \in SUBSET SharedVolumes
    BY <1>2, <2>2 DEF SyncPV, TypeOK, ClusterTypeOK
  <2>. QED BY <1>2, <2>1, <2>3 DEF SyncPV, ghostVars, TypeOK, ClusterTypeOK
<1>3. ASSUME NEW s \in SharedVolumes, SyncPVC(s)
      PROVE  ClusterTypeOK'
  <2>1. /\ pvcs' \in [SharedVolumes -> Versions(PVC)]
        /\ pvcs[s][1] \in PVC \cup {None} /\ pvcs[s][2] \in PVC \cup {None}
    BY <1>3, DeliverType DEF SyncPVC, TypeOK, ClusterTypeOK
  <2>2. Requests(pvcs[s][1], pvcs[s][2]) \subseteq SharedVolumes
    BY <2>1, RequestsType DEF PVC
  <2>3. queue' \in SUBSET SharedVolumes
    BY <1>3, <2>2 DEF SyncPVC, TypeOK, ClusterTypeOK
  <2>. QED BY <1>3, <2>1, <2>3 DEF SyncPVC, ghostVars, TypeOK, ClusterTypeOK
<1>4. ASSUME NEW s \in SharedVolumes, Resync(s)
      PROVE  ClusterTypeOK'
  BY <1>4 DEF Resync, objectVars, ghostVars, TypeOK, ClusterTypeOK
<1>. QED BY <1>1, <1>2, <1>3, <1>4 DEF Informers

-----------------------------------------------------------------------------
(* Steps of the worker. *)

\* Where a step leaves the worker.
WorkerTypeOK ==
    /\ \/ pc = "idle" /\ req = None /\ sv = None
       \/ pc \in Steps /\ req \in SharedVolumes /\ sv \in SharedVolume
    /\ queue \in SUBSET SharedVolumes

LEMMA ReturnWorkerType ==
    ASSUME TypeOK, pc # "idle", NEW requeue, Return(requeue)
    PROVE  WorkerTypeOK'
BY ReturnType DEF WorkerTypeOK

LEMMA GoToWorkerType ==
    ASSUME TypeOK, pc # "idle", NEW step \in Steps, GoTo(step)
    PROVE  WorkerTypeOK'
BY GoToType DEF WorkerTypeOK

LEMMA BeginType ==
    ASSUME TypeOK, NEW s \in SharedVolumes, Begin(s)
    PROVE  TypeOK'
<1>1. queue' \in SUBSET SharedVolumes
  BY DEF Begin, TypeOK, ClusterTypeOK
<1>0. spent' \in Budget
  BY BudgetType DEF Begin
<1>2. svs[s] \in Versions(SharedVolume)
  BY DEF TypeOK, ClusterTypeOK
<1>3. Cached(svs[s]) # None => Cached(svs[s]) \in SharedVolume
  BY <1>2, VersionsFacts
<1>4. \/ pc' = "idle" /\ req' = None /\ sv' = None
      \/ pc' \in Steps /\ req' \in SharedVolumes /\ sv' \in SharedVolume
  <2>1. CASE UNCHANGED workerVars
    BY <2>1 DEF workerVars, TypeOK
  <2>2. CASE Cached(svs[s]) # None /\ ~UNCHANGED workerVars
    BY <1>3, <2>2 DEF Begin, Steps, DeletePath
  <2>. QED BY <2>1, <2>2 DEF Begin
<1>. QED
  BY <1>0, <1>1, <1>4 DEF Begin, objectVars, ghostVars, mapVars, TypeOK, ClusterTypeOK

LEMMA MarkedType ==
    ASSUME sv \in SharedVolume, NEW phase \in Phases, NEW message \in BOOLEAN
    PROVE  Marked(phase, message) \in SharedVolume
BY DEF Marked, SharedVolume

LEMMA HandleDeleteType ==
    ASSUME TypeOK, pc # "idle", NEW copy \in SharedVolume, HandleDelete(copy)
    PROVE  WorkerTypeOK'
<1>1. CASE copy.fin
  BY <1>1, BusyType DEF HandleDelete, WorkerTypeOK, Steps, DeletePath, TypeOK, ClusterTypeOK
<1>2. CASE ~copy.fin
  BY <1>2, ReturnWorkerType DEF HandleDelete
<1>. QED BY <1>1, <1>2

LEMMA ReadableSources ==
    ASSUME NEW source \in VolumeSources, Readable(source)
    PROVE  Parsed(source) \in Specs
<1>1. PICK spec \in Specs : source \in {Written(spec), OldStyle(spec)}
  BY IdsAssumption DEF VolumeSources
<1>2. spec = Ids(spec.FileSystemID, spec.AccessPointID) /\ spec.AccessPointID # ""
  BY IdsAssumption
<1>3. Parsed(source) = spec
  BY <1>1, <1>2, RoundTrip
<1>. QED BY <1>3

LEMMA SpecOfType ==
    ASSUME TypeOK, pc # "idle"
    PROVE  SpecOf(Cached(pvs[pvNameForSharedVolume[req]])) \in Specs
<1>. DEFINE pv == Cached(pvs[pvNameForSharedVolume[req]])
<1>1. pv \in PV \cup {None} /\ sv \in SharedVolume
  BY ObjectTypes, BusyType
<1>. HIDE DEF pv
<1>2. sv.spec \in Specs /\ (pv # None => pv.spec \in VolumeSources)
  BY <1>1 DEF SharedVolume, PV, Resources
<1>3. SpecOf(pv) \in Specs
  BY <1>2, ReadableSources DEF SpecOf
<1>. QED BY <1>3 DEF pv

\* The actions that write the SharedVolume and nothing else.
SVStep == MarkDeleting \/ Unedit \/ Finalize \/ MarkPending \/ MarkFailed \/ MarkReady

LEMMA SVStepType ==
    ASSUME TypeOK, SVStep
    PROVE  TypeOK'
<1>1. pc # "idle"
  BY DEF SVStep, MarkDeleting, Unedit, Finalize, MarkPending, MarkFailed, MarkReady
<1>2. sv \in SharedVolume /\ req \in SharedVolumes
  BY <1>1, BusyType
<1>. DEFINE Typed == /\ svs' \in [SharedVolumes -> Versions(SharedVolume)]
                     /\ spent' \in Budget
                     /\ WorkerTypeOK'
<1>0. SUFFICES Typed
  <2>1. UNCHANGED <<pvs, pvcs, uids, asked, pvBySharedVolume, pvcBySharedVolume>>
    BY DEF SVStep, MarkDeleting, Unedit, Finalize, MarkPending, MarkFailed, MarkReady,
           ghostVars, mapVars
  <2>. QED BY <2>1 DEF WorkerTypeOK, TypeOK, ClusterTypeOK
<1>3. UNCHANGED <<svs, spent>> =>
        svs' \in [SharedVolumes -> Versions(SharedVolume)] /\ spent' \in Budget
  BY DEF TypeOK, ClusterTypeOK
<1>4. CASE MarkDeleting
  <2>1. Marked("Deleting", FALSE) \in SharedVolume
    BY <1>2, MarkedType DEF Phases
  <2>2. CASE HandleDelete(sv) /\ UNCHANGED <<svs, spent>>
    BY <1>1, <1>2, <1>3, <2>2, HandleDeleteType
  <2>3. ASSUME NEW ok \in BOOLEAN, Send(Marked("Deleting", FALSE), ok),
               HandleDelete(IF ok THEN Marked("Deleting", FALSE) ELSE sv)
        PROVE  Typed
    BY <1>1, <1>2, <2>1, <2>3, SendType, HandleDeleteType
  <2>. QED BY <1>4, <2>2, <2>3 DEF MarkDeleting
<1>5. CASE Unedit
  <2>. DEFINE pv == Cached(pvs[pvNameForSharedVolume[req]])
  <2>1. AfterUnedit \in Steps
    BY DEF AfterUnedit, Steps, CreatePath
  <2>2. CASE GoTo(AfterUnedit) /\ UNCHANGED <<svs, spent>>
    BY <1>1, <1>3, <2>1, <2>2, GoToWorkerType
  <2>3. SpecOf(pv) \in Specs
    BY <1>1, SpecOfType
  <2>4. [sv EXCEPT !.spec = SpecOf(pv)] \in SharedVolume
    BY <1>2, <2>3 DEF SharedVolume
  <2>5. ASSUME NEW ok \in BOOLEAN, Send([sv EXCEPT !.spec = SpecOf(pv)], ok), Return(TRUE)
        PROVE  Typed
    BY <1>1, <2>4, <2>5, SendType, ReturnWorkerType
  <2>6. CASE Fault /\ UNCHANGED svs /\ Return(TRUE)
    BY <1>1, <2>6, BudgetType, ReturnWorkerType DEF TypeOK, ClusterTypeOK
  <2>. QED BY <1>5, <2>2, <2>5, <2>6 DEF Unedit
<1>6. CASE Finalize
  <2>1. [sv EXCEPT !.fin = TRUE] \in SharedVolume
    BY <1>2 DEF SharedVolume
  <2>. QED BY <1>1, <1>6, <2>1, SendType, ReturnWorkerType DEF Finalize
<1>7. CASE MarkPending
  <2>1. Marked("Pending", FALSE) \in SharedVolume
    BY <1>2, MarkedType DEF Phases
  <2>. QED BY <1>1, <1>7, <2>1, SendType, ReturnWorkerType DEF MarkPending
<1>8. CASE MarkFailed
  <2>1. Marked("Failed", TRUE) \in SharedVolume
    BY <1>2, MarkedType DEF Phases
  <2>2. WorkerTypeOK'
    BY <1>1, <1>8, ReturnWorkerType DEF MarkFailed
  <2>. QED BY <1>1, <1>3, <1>8, <2>1, <2>2, SendType DEF MarkFailed
<1>9. CASE MarkReady
  <2>. DEFINE new == [sv EXCEPT !.phase = "Ready", !.claimRef = TRUE]
  <2>1. new \in SharedVolume
    BY <1>2 DEF SharedVolume, Phases
  <2>2. CASE Return(FALSE) /\ UNCHANGED <<svs, spent>>
    BY <1>1, <1>3, <2>2, ReturnWorkerType
  <2>3. ASSUME NEW ok \in BOOLEAN, Send(new, ok), Return(~ok)
        PROVE  Typed
    BY <1>1, <2>1, <2>3, SendType, ReturnWorkerType
  <2>. QED BY <1>9, <2>2, <2>3 DEF MarkReady
<1>. QED BY <1>4, <1>5, <1>6, <1>7, <1>8, <1>9 DEF SVStep

LEMMA ForgetType ==
    ASSUME NEW E, NEW map \in [SharedVolumes -> E \cup {None}]
    PROVE  Forget(map) \in [SharedVolumes -> E \cup {None}]
BY DEF Forget

\* An outcome of an operation on a PV or a PVC, put in its place.
LEMMA PVOutcomeType ==
    ASSUME TypeOK, pc # "idle", NEW o,
           OutcomeOK(o, pvEnsurable, {"PersistentVolume"}, Nat, VolumeSources, SharedVolumes)
    PROVE  /\ Write(pvs, pvNameForSharedVolume[req], o.server) \in [PVNames -> Versions(PV)]
           /\ [pvBySharedVolume EXCEPT ![req] = o.e] \in [SharedVolumes -> PVEnsurable \cup {None}]
<1>1. o.server \in PV \cup {None} /\ o.e \in PVEnsurable
  BY DEF OutcomeOK, PV, PVEnsurable
<1>2. pvNameForSharedVolume[req] \in PVNames
  BY ObjectTypes
<1>3. Write(pvs, pvNameForSharedVolume[req], o.server) \in [PVNames -> Versions(PV)]
  BY <1>1, <1>2, WriteFacts DEF TypeOK, ClusterTypeOK
<1>. QED BY <1>1, <1>3 DEF TypeOK

LEMMA PVCOutcomeType ==
    ASSUME TypeOK, pc # "idle", NEW o,
           OutcomeOK(o, pvcEnsurable, {"PersistentVolumeClaim"}, Nat, PVNames, SharedVolumes)
    PROVE  /\ Write(pvcs, req, o.server) \in [SharedVolumes -> Versions(PVC)]
           /\ [pvcBySharedVolume EXCEPT ![req] = o.e] \in [SharedVolumes -> PVCEnsurable \cup {None}]
<1>1. o.server \in PVC \cup {None} /\ o.e \in PVCEnsurable
  BY DEF OutcomeOK, PVC, PVCEnsurable
<1>2. req \in SharedVolumes
  BY BusyType
<1>3. Write(pvcs, req, o.server) \in [SharedVolumes -> Versions(PVC)]
  BY <1>1, <1>2, WriteFacts DEF TypeOK, ClusterTypeOK
<1>. QED BY <1>1, <1>3 DEF TypeOK

LEMMA DeletePVCOutcome ==
    ASSUME TypeOK, pc # "idle",
           NEW o \in Delete(pvcEnsurable, Cached(pvcs[req]), Stored(pvcs[req]))
    PROVE  /\ OutcomeOK(o, pvcEnsurable, {"PersistentVolumeClaim"}, Nat, PVNames, SharedVolumes)
           /\ Stored(pvcs[req]) = None => o.server = None
<1>1. pvcEnsurable \in Ensurables({"PersistentVolumeClaim"}, Nat, PVNames, SharedVolumes)
  BY EnsurableTypes DEF PVCEnsurable
<1>2. Stored(pvcs[req]) \in Resources(PVNames, SharedVolumes) \cup {None}
  BY ObjectTypes DEF PVC
<1>. QED BY <1>1, <1>2, DeleteType, NoneAssumption DEF PVC

LEMMA DeletePVOutcome ==
    ASSUME TypeOK, pc # "idle",
           NEW o \in Delete(pvEnsurable, Cached(pvs[pvNameForSharedVolume[req]]),
                                         Stored(pvs[pvNameForSharedVolume[req]]))
    PROVE  /\ OutcomeOK(o, pvEnsurable, {"PersistentVolume"}, Nat, VolumeSources, SharedVolumes)
           /\ Stored(pvs[pvNameForSharedVolume[req]]) = None => o.server = None
<1>1. pvEnsurable \in Ensurables({"PersistentVolume"}, Nat, VolumeSources, SharedVolumes)
  BY EnsurableTypes DEF PVEnsurable
<1>2. Stored(pvs[pvNameForSharedVolume[req]])
            \in Resources(VolumeSources, SharedVolumes) \cup {None}
  BY ObjectTypes DEF PV
<1>. QED BY <1>1, <1>2, DeleteType, NoneAssumption DEF PV

LEMMA EnsurePVOutcome ==
    ASSUME TypeOK, pc # "idle",
           NEW o \in Ensure(pvEnsurable, Cached(pvs[pvNameForSharedVolume[req]]),
                            Stored(pvs[pvNameForSharedVolume[req]]))
    PROVE  OutcomeOK(o, pvEnsurable, {"PersistentVolume"}, Nat, VolumeSources, SharedVolumes)
<1>1. pvEnsurable \in Ensurables({"PersistentVolume"}, Nat, VolumeSources, SharedVolumes)
  BY EnsurableTypes DEF PVEnsurable
<1>2. /\ Stored(pvs[pvNameForSharedVolume[req]])
            \in Resources(VolumeSources, SharedVolumes) \cup {None}
      /\ Cached(pvs[pvNameForSharedVolume[req]])
            \in Resources(VolumeSources, SharedVolumes) \cup {None}
  BY ObjectTypes DEF PV
<1>. QED BY <1>1, <1>2, EnsureType, NoneAssumption DEF PV, CompletesTo

LEMMA EnsurePVCOutcome ==
    ASSUME TypeOK, pc # "idle",
           NEW o \in Ensure(pvcEnsurable, Cached(pvcs[req]), Stored(pvcs[req]))
    PROVE  OutcomeOK(o, pvcEnsurable, {"PersistentVolumeClaim"}, Nat, PVNames, SharedVolumes)
<1>1. pvcEnsurable \in Ensurables({"PersistentVolumeClaim"}, Nat, PVNames, SharedVolumes)
  BY EnsurableTypes DEF PVCEnsurable
<1>2. /\ Stored(pvcs[req]) \in Resources(PVNames, SharedVolumes) \cup {None}
      /\ Cached(pvcs[req]) \in Resources(PVNames, SharedVolumes) \cup {None}
  BY ObjectTypes DEF PVC
<1>. QED BY <1>1, <1>2, EnsureType, NoneAssumption DEF PVC, CompletesTo

LEMMA DeletePVCType ==
    ASSUME TypeOK, DeletePVC
    PROVE  TypeOK'
<1>1. pc # "idle"
  BY DEF DeletePVC
<1>2. PICK o \in Delete(pvcEnsurable, Cached(pvcs[req]), Stored(pvcs[req])) :
        /\ IF o.fault THEN Fault ELSE UNCHANGED spent
        /\ pvcs' = Write(pvcs, req, o.server)
        /\ IF o.ok
           THEN /\ GoTo("deletePV")
                /\ pvcBySharedVolume' = [pvcBySharedVolume EXCEPT ![req] = o.e]
           ELSE /\ Return(TRUE)
                /\ pvcBySharedVolume' = Forget(pvcBySharedVolume)
  BY DEF DeletePVC
<1>3. /\ pvcs' \in [SharedVolumes -> Versions(PVC)]
      /\ [pvcBySharedVolume EXCEPT ![req] = o.e] \in [SharedVolumes -> PVCEnsurable \cup {None}]
  BY <1>1, <1>2, DeletePVCOutcome, PVCOutcomeType
<1>0. Forget(pvcBySharedVolume) \in [SharedVolumes -> PVCEnsurable \cup {None}]
  BY ForgetType DEF TypeOK
<1>4. pvcBySharedVolume' \in [SharedVolumes -> PVCEnsurable \cup {None}]
  BY <1>0, <1>2, <1>3
<1>5. WorkerTypeOK'
  BY <1>1, <1>2, GoToWorkerType, ReturnWorkerType DEF Steps, DeletePath
<1>6. spent' \in Budget
  BY <1>2, BudgetType
<1>. QED
  BY <1>3, <1>4, <1>5, <1>6 DEF DeletePVC, ghostVars, WorkerTypeOK, TypeOK, ClusterTypeOK

LEMMA DeletePVType ==
    ASSUME TypeOK, DeletePV
    PROVE  TypeOK'
<1>. DEFINE n == pvNameForSharedVolume[req]
<1>1. pc # "idle"
  BY DEF DeletePV
<1>2. PICK o \in Delete(pvEnsurable, Cached(pvs[n]), Stored(pvs[n])) :
        /\ IF o.fault THEN Fault ELSE UNCHANGED spent
        /\ pvs' = Write(pvs, n, o.server)
        /\ IF o.ok
           THEN /\ GoTo("unfinalize")
                /\ pvBySharedVolume' = [pvBySharedVolume EXCEPT ![req] = o.e]
                /\ UNCHANGED pvcBySharedVolume
           ELSE /\ Return(TRUE)
                /\ pvBySharedVolume' = Forget(pvBySharedVolume)
                /\ pvcBySharedVolume' = Forget(pvcBySharedVolume)
  BY DEF DeletePV
<1>3. /\ pvs' \in [PVNames -> Versions(PV)]
      /\ [pvBySharedVolume EXCEPT ![req] = o.e] \in [SharedVolumes -> PVEnsurable \cup {None}]
  BY <1>1, <1>2, DeletePVOutcome, PVOutcomeType
<1>0. /\ Forget(pvBySharedVolume) \in [SharedVolumes -> PVEnsurable \cup {None}]
      /\ Forget(pvcBySharedVolume) \in [SharedVolumes -> PVCEnsurable \cup {None}]
      /\ pvcBySharedVolume \in [SharedVolumes -> PVCEnsurable \cup {None}]
  BY ForgetType DEF TypeOK
<1>4. /\ pvBySharedVolume' \in [SharedVolumes -> PVEnsurable \cup {None}]
      /\ pvcBySharedVolume' \in [SharedVolumes -> PVCEnsurable \cup {None}]
  BY <1>0, <1>2, <1>3
<1>5. WorkerTypeOK'
  BY <1>1, <1>2, GoToWorkerType, ReturnWorkerType DEF Steps, DeletePath
<1>6. spent' \in Budget
  BY <1>2, BudgetType
<1>. QED
  BY <1>3, <1>4, <1>5, <1>6 DEF DeletePV, ghostVars, WorkerTypeOK, TypeOK, ClusterTypeOK

LEMMA UnfinalizeType ==
    ASSUME TypeOK, Unfinalize
    PROVE  TypeOK'
<1>1. pc # "idle"
  BY DEF Unfinalize
<1>2. PICK ok \in BOOLEAN : Send(Finalized([sv EXCEPT !.fin = FALSE]), ok) /\ Return(~ok)
  BY DEF Unfinalize
<1>3. [sv EXCEPT !.fin = FALSE] \in SharedVolume
  BY <1>1, BusyType DEF SharedVolume
<1>4. svs' \in [SharedVolumes -> Versions(SharedVolume)] /\ spent' \in Budget
  BY <1>1, <1>2, <1>3, FinalizedType, SendType
<1>5. WorkerTypeOK'
  BY <1>1, <1>2, ReturnWorkerType
<1>6. /\ pvBySharedVolume' \in [SharedVolumes -> PVEnsurable \cup {None}]
      /\ pvcBySharedVolume' \in [SharedVolumes -> PVCEnsurable \cup {None}]
  BY ForgetType DEF Unfinalize, TypeOK
<1>. QED
  BY <1>4, <1>5, <1>6 DEF Unfinalize, ghostVars, WorkerTypeOK, TypeOK, ClusterTypeOK

LEMMA EnsurePVType ==
    ASSUME TypeOK, EnsurePV
    PROVE  TypeOK'
<1>. DEFINE n == pvNameForSharedVolume[req]
<1>1. pc # "idle"
  BY DEF EnsurePV
<1>2. PICK o \in Ensure(pvEnsurable, Cached(pvs[n]), Stored(pvs[n])) :
        /\ IF o.fault THEN Fault ELSE UNCHANGED spent
        /\ pvs' = Write(pvs, n, o.server)
        /\ pvBySharedVolume' = [pvBySharedVolume EXCEPT ![req] = o.e]
        /\ pvcBySharedVolume' = [pvcBySharedVolume EXCEPT ![req] = pvcEnsurable]
        /\ GoTo(IF o.ok THEN "ensurePVC" ELSE "failed")
  BY DEF EnsurePV
<1>3. /\ pvs' \in [PVNames -> Versions(PV)]
      /\ pvBySharedVolume' \in [SharedVolumes -> PVEnsurable \cup {None}]
  BY <1>1, <1>2, EnsurePVOutcome, PVOutcomeType
<1>4. pvcBySharedVolume' \in [SharedVolumes -> PVCEnsurable \cup {None}]
  BY <1>1, <1>2, EnsurableTypes DEF TypeOK
<1>5. WorkerTypeOK'
  BY <1>1, <1>2, GoToWorkerType DEF Steps, CreatePath
<1>6. spent' \in Budget
  BY <1>2, BudgetType
<1>. QED
  BY <1>3, <1>4, <1>5, <1>6 DEF EnsurePV, ghostVars, WorkerTypeOK, TypeOK, ClusterTypeOK

LEMMA EnsurePVCType ==
    ASSUME TypeOK, EnsurePVC
    PROVE  TypeOK'
<1>1. pc # "idle"
  BY DEF EnsurePVC
<1>2. PICK o \in Ensure(pvcEnsurable, Cached(pvcs[req]), Stored(pvcs[req])) :
        /\ IF o.fault THEN Fault ELSE UNCHANGED spent
        /\ pvcs' = Write(pvcs, req, o.server)
        /\ pvcBySharedVolume' = [pvcBySharedVolume EXCEPT ![req] = o.e]
        /\ GoTo(IF o.ok THEN "ready" ELSE "failed")
  BY DEF EnsurePVC
<1>3. /\ pvcs' \in [SharedVolumes -> Versions(PVC)]
      /\ pvcBySharedVolume' \in [SharedVolumes -> PVCEnsurable \cup {None}]
  BY <1>1, <1>2, EnsurePVCOutcome, PVCOutcomeType
<1>4. WorkerTypeOK'
  BY <1>1, <1>2, GoToWorkerType DEF Steps, CreatePath
<1>5. spent' \in Budget
  BY <1>2, BudgetType
<1>. QED
  BY <1>3, <1>4, <1>5 DEF EnsurePVC, ghostVars, WorkerTypeOK, TypeOK, ClusterTypeOK

LEMMA ListedType ==
    ASSUME TypeOK
    PROVE  Listed \subseteq SharedVolumes
<1>1. ASSUME NEW n \in PVNames
      PROVE  Requests(None, Stored(pvs[n])) \subseteq SharedVolumes
  BY StoredTypes, RequestsType DEF PV
<1>2. ASSUME NEW s \in SharedVolumes
      PROVE  Requests(None, Stored(pvcs[s])) \subseteq SharedVolumes
  BY StoredTypes, RequestsType DEF PVC
<1>3. ASSUME NEW r \in Listed
      PROVE  r \in SharedVolumes
  <2>1. CASE r \in {s \in SharedVolumes : Stored(svs[s]) # None}
    BY <2>1
  <2>2. ASSUME NEW n \in PVNames, r \in Requests(None, Stored(pvs[n]))
        PROVE  r \in SharedVolumes
    BY <1>1, <2>2
  <2>3. ASSUME NEW s \in SharedVolumes, r \in Requests(None, Stored(pvcs[s]))
        PROVE  r \in SharedVolumes
    BY <1>2, <2>3
  <2>4. CASE r \in UNION {Requests(None, Stored(pvs[n])) : n \in PVNames}
    BY <2>2, <2>4, Zenon
  <2>5. CASE r \in UNION {Requests(None, Stored(pvcs[s])) : s \in SharedVolumes}
    BY <2>3, <2>5, Zenon
  <2>. QED BY <1>3, <2>1, <2>4, <2>5, Zenon DEF Listed
<1>. QED BY <1>3

LEMMA CrashType ==
    ASSUME TypeOK, Crash
    PROVE  TypeOK'
<1>1. /\ svs' \in [SharedVolumes -> Versions(SharedVolume)]
      /\ pvs' \in [PVNames -> Versions(PV)]
      /\ pvcs' \in [SharedVolumes -> Versions(PVC)]
  BY RelistType DEF Crash, TypeOK, ClusterTypeOK
<1>2. queue' \in SUBSET SharedVolumes
  BY ListedType DEF Crash
<1>3. spent' \in Budget
  BY DEF Crash, TypeOK, ClusterTypeOK, Budget
<1>. QED
  BY <1>1, <1>2, <1>3 DEF Crash, ghostVars, NoEnsurables, TypeOK, ClusterTypeOK

-----------------------------------------------------------------------------
LEMMA InitType == Init => TypeOK
<1>. <<None>> \in Versions(SharedVolume) /\ <<None>> \in Versions(PV) /\ <<None>> \in Versions(PVC)
  BY DEF Versions
<1>. QED BY DEF Init, ClusterInit, NoEnsurables, TypeOK, ClusterTypeOK, Budget

LEMMA NextType == TypeOK /\ [Next]_vars => TypeOK'
<1>. SUFFICES ASSUME TypeOK, [Next]_vars PROVE TypeOK'
  OBVIOUS
<1>1. CASE (Environment \/ Informers) /\ UNCHANGED <<workerVars, mapVars>>
  <2>1. CASE Informers
    BY <1>1, <2>1, InformersType, EnvironmentFrame
  <2>2. CASE Environment
    BY <1>1, <2>2, CreateSVType, EditSVType, DeleteSVType, ReapType, MeddleType,
       EnvironmentFrame DEF Environment
  <2>. QED BY <1>1, <2>1, <2>2
<1>2. CASE \E s \in SharedVolumes : Begin(s)
  BY <1>2, BeginType
<1>3. CASE Continue
  BY <1>3, SVStepType, DeletePVCType, DeletePVType, UnfinalizeType, EnsurePVType,
     EnsurePVCType DEF Continue, SVStep
<1>4. CASE Crash
  BY <1>4, CrashType
<1>5. CASE UNCHANGED vars
  BY <1>5 DEF vars, clusterVars, objectVars, ghostVars, workerVars, mapVars, TypeOK, ClusterTypeOK
<1>. QED BY <1>1, <1>2, <1>3, <1>4, <1>5 DEF Next

\* Every variable keeps its type, whatever users, informers, faults and crashes
\* do to the controller.
THEOREM TypeCorrect == Spec => []TypeOK
BY InitType, NextType, PTL DEF Spec
=============================================================================
