-------------------------------- MODULE Statics --------------------------------
(***************************************************************************)
(* The resources that run the CSI driver (pkg/controller/statics) and the  *)
(* start of the operator that first makes them (cmd/manager/main.go).      *)
(*                                                                         *)
(* They belong to the CustomResourceDefinition of SharedVolumes, so that   *)
(* Kubernetes' garbage collector takes them when it is deleted; but for    *)
(* the SecurityContextConstraints, which it spares (issue 23) and which    *)
(* the controller deletes itself.  EnsureStatics makes them before any     *)
(* owner is known; each one's first Reconcile sets it.                     *)
(***************************************************************************)
EXTENDS Informer

CONSTANTS
    Statics,                \* which of the five there are
    MaxLag,                 \* how far the cache of a static may be behind when it is acted upon;
                            \* that of the CRD may be anyway
    QUIET,                  \* statics are left alone while the operator starts up
    Meddling,               \* what users do to statics
    MaxUid, MaxMeddles, MaxFaults, MaxCrashes   \* bounds

SCC == "SecurityContextConstraints"

\* Their order in staticResources.
Place == [ServiceAccount |-> 1, SecurityContextConstraints |-> 2, DaemonSet |-> 3,
          CSIDriver |-> 4, StorageClass |-> 5]

Kinds == {"delete", "unlabel", "disown", "change"}

ASSUME StaticsAssumption == Statics \subseteq DOMAIN Place /\ SCC \in Statics

ASSUME BoundsAssumption ==
    /\ QUIET \in BOOLEAN
    /\ Meddling \subseteq Kinds
    /\ MaxLag \in Nat /\ MaxUid \in Nat /\ MaxMeddles \in Nat /\ MaxFaults \in Nat /\ MaxCrashes \in Nat

VARIABLES
    crd,            \* versions of the CRD, from the cached to the stored
    objects,        \* versions of each static
    pc, req, todo,  \* where the operator is; the static it reconciles; those still to bootstrap
    failed,         \* EnsureStatics met an error
    born,           \* uid of the CRD when the controllers started, 0 if there was none
    queue,          \* the controller's work queue
    ensurables,     \* staticResources
    uids, spent     \* the last uid of a CRD; what is used of the bounds

worldVars == <<crd, objects>>
processVars == <<pc, req, todo, failed, born, ensurables>>
vars == <<worldVars, processVars, queue, uids, spent>>

\* What a resource says, as far as its EqualFunc can tell: what is in defs/, the same
\* with the API server's defaults, or something else.
Contents == {"skeleton", "golden", "changed"}

\* An owner is a CRD there is or has been; 0 is the uid of an empty object.
CRDUids == Nat \ {0}

CRD == [uid: CRDUids, deleting: BOOLEAN]
Static == Resources(Contents, CRDUids)
StaticEnsurable == Ensurables(Statics, {0}, Contents, CRDUids)

ASSUME AbsenceAssumption == None \notin CRD \cup Static \cup Nat \cup Statics

TypeOK ==
    /\ crd \in Versions(CRD)
    /\ objects \in [Statics -> Versions(Static)]
    /\ pc \in {"bootstrap", "idle", "ensure", "deleteSCC", "gone"}
    /\ req \in Statics \cup {None} /\ (pc \in {"ensure", "deleteSCC"} <=> req # None)
    /\ todo \in SUBSET Statics /\ failed \in BOOLEAN /\ born \in Nat
    /\ queue \in SUBSET Statics
    /\ ensurables \in [Statics -> StaticEnsurable]
    /\ uids \in Nat
    /\ spent \in [meddles: Nat, faults: Nat, crashes: Nat]

\* The API server completes only the definition of the DaemonSet.
defs == [t \in Statics |-> IF t = "DaemonSet" THEN "skeleton" ELSE "golden"]

\* A new process has no owner for them: "we don't have the CRD at this stage".
staticResources == [t \in Statics |-> NewEnsurable(t, 0, defs[t], None)]

\* Installing the operator puts the CRD in place first.
Init ==
    /\ crd = <<[uid |-> 1, deleting |-> FALSE]>>
    /\ objects = [t \in Statics |-> <<None>>]
    /\ pc = "bootstrap" /\ req = None /\ todo = Statics /\ failed = FALSE /\ born = 0
    /\ queue = {}
    /\ ensurables = staticResources
    /\ uids = 1
    /\ spent = [meddles |-> 0, faults |-> 0, crashes |-> 0]

-----------------------------------------------------------------------------
uidOfCRD == IF Stored(crd) = None THEN 0 ELSE Stored(crd).uid

There == Stored(crd) # None /\ ~Stored(crd).deleting

\* The controllers run, and their informers with them.
Running == pc \in {"idle", "ensure", "deleteSCC"}

\* No static has a finalizer, so deleting one removes it.
Settled(obj) == IF obj # None /\ obj.term THEN None ELSE obj

\* Versions pile up only while somebody watches.
Put(t, obj) ==
    IF Running
    THEN Write(objects, t, Settled(obj))
    ELSE [objects EXCEPT ![t] = <<Settled(obj)>>]

\* Between its Ensure in EnsureStatics and the first list of the informers nothing tells
\* the operator what happens to a static.
Exposed == QUIET => pc # "bootstrap"

Fault == spent.faults < MaxFaults /\ spent' = [spent EXCEPT !.faults = @ + 1]

-----------------------------------------------------------------------------
(* The cluster: administrators, the garbage collector, users. *)

ChangeCRD(new) == crd' = IF Running THEN Append(crd, new) ELSE <<new>>

CreateCRD ==
    /\ Stored(crd) = None
    /\ uids < MaxUid
    /\ uids' = uids + 1
    /\ ChangeCRD([uid |-> uids', deleting |-> FALSE])
    /\ UNCHANGED <<objects, processVars, queue, spent>>

\* It goes once all SharedVolumes have gone.
DeleteCRD ==
    /\ There
    /\ ChangeCRD([Stored(crd) EXCEPT !.deleting = TRUE])
    /\ UNCHANGED <<objects, processVars, queue, uids, spent>>

CRDGone ==
    /\ Stored(crd) # None /\ ~There
    /\ ChangeCRD(None)
    /\ UNCHANGED <<objects, processVars, queue, uids, spent>>

Owned(t) == Stored(objects[t]) # None /\ Stored(objects[t]).owner # None

\* What the garbage collector takes: it belongs to something that is not there.
Collectable(t) ==
    /\ t # SCC
    /\ Owned(t)
    /\ Stored(objects[t]).owner # uidOfCRD

Collect(t) ==
    /\ Exposed
    /\ Collectable(t)
    /\ objects' = Put(t, None)
    /\ UNCHANGED <<crd, processVars, queue, uids, spent>>

\* A change shows if it is compared, and can be made if it is not immutable.
Changeable(t) == "spec" \in EqualFunc[t] /\ t \notin Immutable

Meddled(t, kind) ==
    LET obj == Stored(objects[t])
        made == CASE kind = "delete"  -> [obj EXCEPT !.term = TRUE]
                  [] kind = "unlabel" -> [obj EXCEPT !.care = FALSE]
                  [] kind = "disown"  -> [obj EXCEPT !.owner = None]
                  [] kind = "change"  ->
                        IF Changeable(t) THEN [obj EXCEPT !.spec = "changed"] ELSE obj
    IN  IF made = obj THEN obj ELSE [made EXCEPT !.rv = @ + 1]

Meddle(t) ==
    /\ Exposed
    /\ Stored(objects[t]) # None
    /\ spent.meddles < MaxMeddles
    /\ spent' = [spent EXCEPT !.meddles = @ + 1]
    /\ \E kind \in Meddling : objects' = Put(t, Meddled(t, kind))
    /\ UNCHANGED <<crd, processVars, queue, uids>>

-----------------------------------------------------------------------------
(* Informers.  The CRD is read from a cache, but nothing watches it for requests. *)

SyncCRD ==
    /\ Len(crd) > 1
    /\ crd' = Tail(crd)
    /\ UNCHANGED <<objects, processVars, queue, uids, spent>>

Sync(t) ==
    /\ Len(objects[t]) > 1
    /\ objects' = Deliver(objects, t)
    /\ queue' = IF passes(objects[t][1], objects[t][2]) THEN queue \cup {t} ELSE queue
    /\ UNCHANGED <<crd, processVars, uids, spent>>

Informed == \A t \in Statics : Len(objects[t]) <= MaxLag + 1

-----------------------------------------------------------------------------
(* Start-up. *)

\* A process begins where an operator before it, if any, has gone: it waits for
\* the leader's lock.
Launch ==
    /\ pc' = "bootstrap" /\ req' = None /\ todo' = Statics /\ failed' = FALSE /\ born' = 0
    /\ ensurables' = staticResources
    /\ crd' = <<Stored(crd)>>
    /\ objects' = Relisted(objects)
    /\ queue' = {}

\* Mutant: it stops at the first error and lets the operator go on.
Bootstrap_ErrorDropped(t) ==
    /\ pc = "bootstrap"
    /\ t \in todo /\ \A u \in todo : Place[t] <= Place[u]
    /\ \E o \in Ensure(ensurables[t], Stored(objects[t]), Stored(objects[t])) :
        /\ IF o.fault THEN Fault ELSE UNCHANGED spent
        /\ objects' = Put(t, o.server)
        /\ ensurables' = [ensurables EXCEPT ![t] = o.e]
        /\ todo' = IF o.ok THEN todo \ {t} ELSE {}
    /\ UNCHANGED <<crd, pc, req, failed, born, queue, uids>>

\* EnsureStatics: one after the other, errors or not, with a client that has no cache.
Bootstrap(t) ==
    /\ pc = "bootstrap"
    /\ t \in todo /\ \A u \in todo : Place[t] <= Place[u]
    /\ \E o \in Ensure(ensurables[t], Stored(objects[t]), Stored(objects[t])) :
        /\ IF o.fault THEN Fault ELSE UNCHANGED spent
        /\ objects' = Put(t, o.server)
        /\ ensurables' = [ensurables EXCEPT ![t] = o.e]
        /\ failed' = (failed \/ ~o.ok)
    /\ todo' = todo \ {t}
    /\ UNCHANGED <<crd, pc, req, born, queue, uids>>

\* The first lists of the informers are the first requests.
Start ==
    /\ pc = "bootstrap" /\ todo = {} /\ ~failed
    /\ pc' = "idle"
    /\ queue' = {t \in Statics : DoICare(Stored(objects[t]))}
    /\ born' = uidOfCRD
    /\ UNCHANGED <<worldVars, req, todo, failed, ensurables, uids, spent>>

\* The process ends by itself: some static could not be ensured, or SharedVolumes
\* could not be watched for lack of a CRD.  Kubernetes launches the next.
Exit ==
    /\ \/ pc = "bootstrap" /\ todo = {} /\ failed
       \/ Running /\ born = 0
    /\ Launch
    /\ UNCHANGED <<uids, spent>>

-----------------------------------------------------------------------------
(* Reconcile. *)

\* The CRD, as the cache has it, is there and not being deleted.
Seen == Cached(crd) # None /\ ~Cached(crd).deleting

GoOn(t, step) == pc' = step /\ req' = t /\ queue' = queue \ {t}

\* Mutants: the owner that was set first is kept; a CRD that is not there is no reason
\* to stop, with what was set before or with the empty CRD for an owner.
Reconcile_OwnerKept(t) ==
    /\ pc = "idle"
    /\ t \in queue
    /\ IF ~Seen
       THEN GoOn(t, "deleteSCC") /\ UNCHANGED ensurables
       ELSE /\ GoOn(t, "ensure")
            /\ ensurables' = IF ensurables[t].owner # None THEN ensurables
                             ELSE [ensurables EXCEPT ![t] = SetOwner(@, Cached(crd).uid)]
    /\ UNCHANGED <<worldVars, todo, failed, born, uids, spent>>
Reconcile_NoCRDNeeded(t) ==
    /\ pc = "idle"
    /\ t \in queue
    /\ GoOn(t, "ensure")
    /\ ensurables' = IF Cached(crd) = None THEN ensurables
                     ELSE [ensurables EXCEPT ![t] = SetOwner(@, Cached(crd).uid)]
    /\ UNCHANGED <<worldVars, todo, failed, born, uids, spent>>

Reconcile_EmptyOwner(t) ==
    /\ pc = "idle"
    /\ t \in queue
    /\ IF Cached(crd) # None /\ Cached(crd).deleting
       THEN GoOn(t, "deleteSCC") /\ UNCHANGED ensurables
       ELSE /\ GoOn(t, "ensure")
            /\ ensurables' = [ensurables EXCEPT ![t] =
                   SetOwner(@, IF Cached(crd) = None THEN 0 ELSE Cached(crd).uid)]
    /\ UNCHANGED <<worldVars, todo, failed, born, uids, spent>>

\* The static t, as far as the decision that the CRD in the cache makes.  If it
\* could not be read, there is another try a second later.
Reconcile(t) ==
    /\ pc = "idle"
    /\ t \in queue
    /\ \/ /\ ~Seen
          /\ GoOn(t, "deleteSCC")
          /\ UNCHANGED <<ensurables, spent>>
       \/ /\ Seen
          /\ GoOn(t, "ensure")
          /\ ensurables' = [ensurables EXCEPT ![t] = SetOwner(@, Cached(crd).uid)]
          /\ UNCHANGED spent
       \/ Fault /\ UNCHANGED <<pc, req, queue, ensurables>>
    /\ UNCHANGED <<worldVars, todo, failed, born, uids>>

Done(requeue) ==
    /\ pc' = "idle" /\ req' = None
    /\ queue' = IF requeue THEN queue \cup {req} ELSE queue

EnsureStatic ==
    /\ pc = "ensure"
    /\ Informed
    /\ \E o \in Ensure(ensurables[req], Cached(objects[req]), Stored(objects[req])) :
        /\ IF o.fault THEN Fault ELSE UNCHANGED spent
        /\ objects' = Put(req, o.server)
        /\ ensurables' = [ensurables EXCEPT ![req] = o.e]
        /\ Done(~o.ok)
    /\ UNCHANGED <<crd, todo, failed, born, uids>>

\* Mutant: only while the CRD is still there.
DeleteSCC_WhileTerminating ==
    /\ pc = "deleteSCC"
    /\ Informed
    /\ IF Cached(crd) = None
       THEN UNCHANGED <<objects, ensurables, spent>>
       ELSE \E o \in Delete(ensurables[SCC], Cached(objects[SCC]), Stored(objects[SCC])) :
                /\ IF o.fault THEN Fault ELSE UNCHANGED spent
                /\ objects' = Put(SCC, o.server)
                /\ ensurables' = [ensurables EXCEPT ![SCC] = o.e]
    /\ Done(FALSE)
    /\ UNCHANGED <<crd, todo, failed, born, uids>>

\* The CRD is on its way out: whatever was asked, only the
\* SecurityContextConstraints are seen to, and errors are ignored.
DeleteSCC ==
    /\ pc = "deleteSCC"
    /\ Informed
    /\ \E o \in Delete(ensurables[SCC], Cached(objects[SCC]), Stored(objects[SCC])) :
        /\ IF o.fault THEN Fault ELSE UNCHANGED spent
        /\ objects' = Put(SCC, o.server)
        /\ ensurables' = [ensurables EXCEPT ![SCC] = o.e]
    /\ Done(FALSE)
    /\ UNCHANGED <<crd, todo, failed, born, uids>>

-----------------------------------------------------------------------------
(* The operator comes and goes. *)

\* It crashes, or is installed (again).
Restart ==
    /\ spent.crashes < MaxCrashes
    /\ spent' = [spent EXCEPT !.crashes = @ + 1]
    /\ Launch
    /\ UNCHANGED uids

Uninstall ==
    /\ pc # "gone"
    /\ pc' = "gone" /\ req' = None /\ todo' = {} /\ failed' = FALSE /\ born' = 0
    /\ ensurables' = staticResources
    /\ crd' = <<Stored(crd)>>
    /\ objects' = Relisted(objects)
    /\ queue' = {}
    /\ UNCHANGED <<uids, spent>>

Work ==
    \/ \E t \in Statics : Bootstrap(t)
    \/ Start \/ EnsureStatic \/ DeleteSCC

Next ==
    \/ CreateCRD \/ DeleteCRD \/ CRDGone \/ SyncCRD
    \/ \E t \in Statics : Collect(t) \/ Meddle(t) \/ Sync(t) \/ Reconcile(t)
    \/ Work \/ Exit
    \/ Restart \/ Uninstall

\* The operator runs, its watches deliver, its queue is first in, first out, and
\* garbage is collected.  Administrators and users owe us nothing.
Fairness ==
    /\ WF_vars(Work) /\ WF_vars(Exit) /\ WF_vars(SyncCRD)
    /\ \A t \in Statics : WF_vars(Collect(t)) /\ WF_vars(Sync(t)) /\ SF_vars(Reconcile(t))

Spec == Init /\ [][Next]_vars
FairSpec == Spec /\ Fairness
=============================================================================
