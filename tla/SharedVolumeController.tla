------------------------ MODULE SharedVolumeController ------------------------
(***************************************************************************)
(* The SharedVolume controller (pkg/controller/sharedvolume): one worker   *)
(* that takes a name from the queue and runs Reconcile on it.  An action   *)
(* is the part of Reconcile around one request to the API server; between  *)
(* two actions anything else may happen.  The worker keeps                 *)
(*   pc    where it is in Reconcile,                                       *)
(*   req   the SharedVolume it reconciles,                                 *)
(*   sv    its copy of that SharedVolume: the version it read, or the one  *)
(*         its last successful write returned,                             *)
(* and the two process-wide maps of Ensurables.                            *)
(***************************************************************************)
EXTENDS SharedVolumeCluster

VARIABLES pc, req, sv, pvBySharedVolume, pvcBySharedVolume

workerVars == <<pc, req, sv>>
mapVars == <<pvBySharedVolume, pvcBySharedVolume>>
vars == <<clusterVars, workerVars, mapVars>>

DeletePath == {"deleting", "deletePVC", "deletePV", "unfinalize"}
CreatePath == {"ensurePV", "ensurePVC", "failed", "ready"}
Steps == DeletePath \cup CreatePath \cup {"unedit", "finalize", "pending"}

PVEnsurable == Ensurables({"PersistentVolume"}, Nat, VolumeSources, SharedVolumes)
PVCEnsurable == Ensurables({"PersistentVolumeClaim"}, Nat, PVNames, SharedVolumes)

ASSUME NoEnsurableAssumption == None \notin PVEnsurable /\ None \notin PVCEnsurable

TypeOK ==
    /\ ClusterTypeOK
    /\ \/ pc = "idle" /\ req = None /\ sv = None
       \/ pc \in Steps /\ req \in SharedVolumes /\ sv \in SharedVolume
    /\ pvBySharedVolume \in [SharedVolumes -> PVEnsurable \cup {None}]
    /\ pvcBySharedVolume \in [SharedVolumes -> PVCEnsurable \cup {None}]

NoEnsurables == [s \in SharedVolumes |-> None]

Init ==
    /\ ClusterInit
    /\ pc = "idle" /\ req = None /\ sv = None
    /\ pvBySharedVolume = NoEnsurables
    /\ pvcBySharedVolume = NoEnsurables

-----------------------------------------------------------------------------
(* The maps: an entry is built from the SharedVolume at hand the first time
   it is needed, and used as it is from then on. *)

pvEnsurable ==
    IF pvBySharedVolume[req] = None
    THEN NewEnsurable("PersistentVolume", sv.uid, Written(sv.spec), req)
    ELSE pvBySharedVolume[req]

\* Mutant: the claim is given its own name instead of the volume's.
pvcEnsurable_WrongVolume ==
    IF pvcBySharedVolume[req] = None
    THEN NewEnsurable("PersistentVolumeClaim", sv.uid, PVCName(nameOf[req]), req)
    ELSE pvcBySharedVolume[req]

pvcEnsurable ==
    IF pvcBySharedVolume[req] = None
    THEN NewEnsurable("PersistentVolumeClaim", sv.uid, pvNameForSharedVolume[req], req)
    ELSE pvcBySharedVolume[req]

-----------------------------------------------------------------------------
(* Writes of the SharedVolume.  The API server accepts one if the worker's
   copy is still the current version; ok is what the worker is told. *)

\* Mutant: a patch, which the API server takes whatever version it was made from.
Send_Unchecked(new, ok) ==
    /\ ok
    /\ LET old == Stored(svs[req]) IN
        svs' = IF old = None THEN svs
               ELSE Write(svs, req, IF new = None THEN None
                                    ELSE [new EXCEPT !.uid = old.uid, !.deleting = old.deleting])
    /\ UNCHANGED spent

Send(new, ok) ==
    \/ ok /\ Stored(svs[req]) = sv /\ svs' = Write(svs, req, new) /\ UNCHANGED spent
    \/ ~ok /\ Stored(svs[req]) # sv /\ UNCHANGED <<svs, spent>>
    \/ ~ok /\ Fault /\ UNCHANGED svs
    \/ ~ok /\ Fault /\ Stored(svs[req]) = sv /\ svs' = Write(svs, req, new) \* reply lost

GoTo(step) == pc' = step /\ UNCHANGED <<req, sv, queue>>

\* Mutant: errors are swallowed.
Return_NoRequeue(requeue) ==
    pc' = "idle" /\ req' = None /\ sv' = None /\ UNCHANGED queue

\* Reconcile returns, with an error or Requeue (TRUE) or having done its work.
Return(requeue) ==
    /\ pc' = "idle" /\ req' = None /\ sv' = None
    /\ queue' = IF requeue THEN queue \cup {req} ELSE queue

\* The status with which markStatus leaves the SharedVolume.
Marked(phase, message) == [sv EXCEPT !.phase = phase, !.message = message]

-----------------------------------------------------------------------------
Begin(s) ==
    /\ pc = "idle"
    /\ Informed
    /\ s \in queue
    /\ \/ Fault /\ UNCHANGED <<queue, workerVars>>       \* Get failed
       \/ /\ queue' = queue \ {s}
          /\ IF Cached(svs[s]) = None
             THEN UNCHANGED workerVars
             ELSE /\ req' = s /\ sv' = Cached(svs[s])
                  /\ pc' = IF Cached(svs[s]).deleting THEN "deleting" ELSE "unedit"
          /\ UNCHANGED spent
    /\ UNCHANGED <<objectVars, ghostVars, mapVars>>

\* Mutant: the PV first.
HandleDelete_VolumeFirst(copy) ==
    IF copy.fin
    THEN pc' = "deletePV" /\ sv' = copy /\ UNCHANGED <<req, queue>>
    ELSE Return(FALSE)

\* What follows markStatus(Deleting): handleDelete, with or without our finalizer.
HandleDelete(copy) ==
    IF copy.fin
    THEN pc' = "deletePVC" /\ sv' = copy /\ UNCHANGED <<req, queue>>
    ELSE Return(FALSE)

\* A failure to set the status is only logged.
MarkDeleting ==
    /\ pc = "deleting"
    /\ LET new == Marked("Deleting", FALSE) IN
        IF new = sv
        THEN HandleDelete(sv) /\ UNCHANGED <<svs, spent>>
        ELSE \E ok \in BOOLEAN : Send(new, ok) /\ HandleDelete(IF ok THEN new ELSE sv)
    /\ UNCHANGED <<pvs, pvcs, ghostVars, mapVars>>

\* Mutant: the entry stays.
Forget_Kept(map) == map

\* The deferred clean-ups of the maps.
Forget(map) == [map EXCEPT ![req] = None]

DeletePVC ==
    /\ pc = "deletePVC"
    /\ Informed
    /\ \E o \in Delete(pvcEnsurable, Cached(pvcs[req]), Stored(pvcs[req])) :
        /\ IF o.fault THEN Fault ELSE UNCHANGED spent
        /\ pvcs' = Write(pvcs, req, o.server)
        /\ IF o.ok
           THEN /\ GoTo("deletePV")
                /\ pvcBySharedVolume' = [pvcBySharedVolume EXCEPT ![req] = o.e]
           ELSE /\ Return(TRUE)
                /\ pvcBySharedVolume' = Forget(pvcBySharedVolume)
    /\ UNCHANGED <<svs, pvs, ghostVars, pvBySharedVolume>>

DeletePV ==
    /\ pc = "deletePV"
    /\ Informed
    /\ LET n == pvNameForSharedVolume[req] IN
       \E o \in Delete(pvEnsurable, Cached(pvs[n]), Stored(pvs[n])) :
        /\ IF o.fault THEN Fault ELSE UNCHANGED spent
        /\ pvs' = Write(pvs, n, o.server)
        /\ IF o.ok
           THEN /\ GoTo("unfinalize")
                /\ pvBySharedVolume' = [pvBySharedVolume EXCEPT ![req] = o.e]
                /\ UNCHANGED pvcBySharedVolume
           ELSE /\ Return(TRUE)
                /\ pvBySharedVolume' = Forget(pvBySharedVolume)
                /\ pvcBySharedVolume' = Forget(pvcBySharedVolume)
    /\ UNCHANGED <<svs, pvcs, ghostVars>>

Unfinalize ==
    /\ pc = "unfinalize"
    /\ \E ok \in BOOLEAN :
        Send(Finalized([sv EXCEPT !.fin = FALSE]), ok) /\ Return(~ok)
    /\ pvBySharedVolume' = Forget(pvBySharedVolume)
    /\ pvcBySharedVolume' = Forget(pvcBySharedVolume)
    /\ UNCHANGED <<pvs, pvcs, ghostVars>>

-----------------------------------------------------------------------------
\* Mutants: no finalizer is registered; Pending is set again when it is Ready.
AfterUnedit_NoFinalizer == IF sv.phase = "" THEN "pending" ELSE "ensurePV"
AfterUnedit_PendingAgain ==
    IF ~sv.fin THEN "finalize" ELSE IF sv.phase \in {"", "Ready"} THEN "pending" ELSE "ensurePV"

\* Where Reconcile gets to when there was nothing to un-edit.
AfterUnedit ==
    IF ~sv.fin THEN "finalize" ELSE IF sv.phase = "" THEN "pending" ELSE "ensurePV"

\* The spec the SharedVolume should have according to its PV, if there is one
\* and it can be parsed; a PV that cannot is for Ensure to restore.
SpecOf(pv) == IF pv # None /\ Readable(pv.spec) THEN Parsed(pv.spec) ELSE sv.spec

Unedit ==
    /\ pc = "unedit"
    /\ Informed
    /\ LET spec == SpecOf(Cached(pvs[pvNameForSharedVolume[req]])) IN
        \/ Fault /\ UNCHANGED svs /\ Return(TRUE)         \* Get failed
        \/ spec = sv.spec /\ GoTo(AfterUnedit) /\ UNCHANGED <<svs, spent>>
        \/ /\ spec # sv.spec
           /\ \E ok \in BOOLEAN : Send([sv EXCEPT !.spec = spec], ok) /\ Return(TRUE)
    /\ UNCHANGED <<pvs, pvcs, ghostVars, mapVars>>

\* Pushed or failed, the next Reconcile does the rest.
Finalize ==
    /\ pc = "finalize"
    /\ \E ok \in BOOLEAN : Send([sv EXCEPT !.fin = TRUE], ok) /\ Return(TRUE)
    /\ UNCHANGED <<pvs, pvcs, ghostVars, mapVars>>

MarkPending ==
    /\ pc = "pending"
    /\ \E ok \in BOOLEAN : Send(Marked("Pending", FALSE), ok) /\ Return(TRUE)
    /\ UNCHANGED <<pvs, pvcs, ghostVars, mapVars>>

EnsurePV ==
    /\ pc = "ensurePV"
    /\ Informed
    /\ LET n == pvNameForSharedVolume[req] IN
       \E o \in Ensure(pvEnsurable, Cached(pvs[n]), Stored(pvs[n])) :
        /\ IF o.fault THEN Fault ELSE UNCHANGED spent
        /\ pvs' = Write(pvs, n, o.server)
        /\ pvBySharedVolume' = [pvBySharedVolume EXCEPT ![req] = o.e]
        /\ pvcBySharedVolume' = [pvcBySharedVolume EXCEPT ![req] = pvcEnsurable]
        /\ GoTo(IF o.ok THEN "ensurePVC" ELSE "failed")
    /\ UNCHANGED <<svs, pvcs, ghostVars>>

EnsurePVC ==
    /\ pc = "ensurePVC"
    /\ Informed
    /\ \E o \in Ensure(pvcEnsurable, Cached(pvcs[req]), Stored(pvcs[req])) :
        /\ IF o.fault THEN Fault ELSE UNCHANGED spent
        /\ pvcs' = Write(pvcs, req, o.server)
        /\ pvcBySharedVolume' = [pvcBySharedVolume EXCEPT ![req] = o.e]
        /\ GoTo(IF o.ok THEN "ready" ELSE "failed")
    /\ UNCHANGED <<svs, pvs, ghostVars, pvBySharedVolume>>

\* Best effort: the error that led here is returned in any case.
MarkFailed ==
    /\ pc = "failed"
    /\ LET new == Marked("Failed", TRUE) IN
        IF new = sv
        THEN UNCHANGED <<svs, spent>>
        ELSE \E ok \in BOOLEAN : Send(new, ok)
    /\ Return(TRUE)
    /\ UNCHANGED <<pvs, pvcs, ghostVars, mapVars>>

\* The message of an earlier failure stays.
MarkReady ==
    /\ pc = "ready"
    /\ LET new == [sv EXCEPT !.phase = "Ready", !.claimRef = TRUE] IN
        IF new = sv
        THEN Return(FALSE) /\ UNCHANGED <<svs, spent>>
        ELSE \E ok \in BOOLEAN : Send(new, ok) /\ Return(~ok)
    /\ UNCHANGED <<pvs, pvcs, ghostVars, mapVars>>

-----------------------------------------------------------------------------
\* The operator's process dies, at any point, and a new one takes over with
\* empty maps and freshly listed caches.
Crash ==
    /\ spent.crashes < MaxCrashes
    /\ spent' = [spent EXCEPT !.crashes = @ + 1]
    /\ pc' = "idle" /\ req' = None /\ sv' = None
    /\ pvBySharedVolume' = NoEnsurables
    /\ pvcBySharedVolume' = NoEnsurables
    /\ svs' = Relisted(svs) /\ pvs' = Relisted(pvs) /\ pvcs' = Relisted(pvcs)
    /\ queue' = Listed
    /\ UNCHANGED ghostVars

Continue ==
    \/ MarkDeleting \/ DeletePVC \/ DeletePV \/ Unfinalize
    \/ Unedit \/ Finalize \/ MarkPending
    \/ EnsurePV \/ EnsurePVC \/ MarkFailed \/ MarkReady

Next ==
    \/ (Environment \/ Informers) /\ UNCHANGED <<workerVars, mapVars>>
    \/ \E s \in SharedVolumes : Begin(s)
    \/ Continue
    \/ Crash

\* The API server keeps its watches going, the worker keeps running, and the
\* queue is first in, first out.  Users, reaping and crashes owe us nothing.
Fairness ==
    /\ \A s \in SharedVolumes :
        /\ WF_vars(SyncSV(s) /\ UNCHANGED <<workerVars, mapVars>>)
        /\ WF_vars(SyncPVC(s) /\ UNCHANGED <<workerVars, mapVars>>)
        /\ SF_vars(Begin(s))
    /\ \A n \in PVNames : WF_vars(SyncPV(n) /\ UNCHANGED <<workerVars, mapVars>>)
    /\ WF_vars(Continue)

Spec == Init /\ [][Next]_vars
FairSpec == Spec /\ Fairness
=============================================================================
