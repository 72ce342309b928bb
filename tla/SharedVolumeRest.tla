--------------------------- MODULE SharedVolumeRest ---------------------------
(***************************************************************************)
(* Why nothing is forgotten: an inductive invariant from which RestIsRight *)
(* follows.  The argument: as long as nothing is announced about a         *)
(* SharedVolume (no request, no event that will become one), nobody but    *)
(* the worker touches what belongs to it, and the worker either works on   *)
(* what is stored, or has left it right.                                   *)
(***************************************************************************)
EXTENDS SharedVolumeInvariant

PVs(s) == pvs[pvNameForSharedVolume[s]]
PVCs(s) == pvcs[s]

\* Users may delete PVs and PVCs and leave PVs in the old style behind; or take the
\* watch label off, if requests are answered and caches keep up (what becomes of an
\* object without label if not: RememberedObjectsCare).
LabelsStay == Meddling \subseteq {"delete", "restyle"}
Prompt == ~LAGGING /\ MaxFaults = 0 /\ Meddling \subseteq {"delete", "unlabel"}

-----------------------------------------------------------------------------
(* Events of PVs and PVCs find their SharedVolume. *)

Sources ==
    {Written(spec) : spec \in Specs}
    \cup (IF "restyle" \in Meddling THEN {OldStyle(spec) : spec \in Specs} ELSE {})

Recognised(obj, s, specs) ==
    obj # None => obj.owner = s /\ obj.spec \in specs /\ (LabelsStay => obj.care)

AllRecognised(versions, s, specs) ==
    \A i \in 1..Len(versions) : Recognised(versions[i], s, specs)

EntryRecognised(e, s, specs) ==
    e # None =>
        /\ e.owner = None
        /\ e.Definition.owner = s /\ e.Definition.spec \in specs
        /\ e.latestVersion # None =>
            Recognised(e.latestVersion, s, specs) /\ e.latestVersion.care

EventsFindOwner(s) ==
    /\ AllRecognised(PVs(s), s, Sources)
    /\ AllRecognised(PVCs(s), s, {pvNameForSharedVolume[s]})
    /\ EntryRecognised(pvBySharedVolume[s], s, Sources)
    /\ EntryRecognised(pvcBySharedVolume[s], s, {pvNameForSharedVolume[s]})

-----------------------------------------------------------------------------
(* A label that is gone is noticed, and can be put back. *)

\* What the operator remembers of an object is not newer than the object and not
\* different in what cannot be changed; the version it remembers has the label.
Remembers(e, obj) ==
    /\ e.latestVersion # None
    /\ obj # None =>
        /\ e.latestVersion.spec = obj.spec
        /\ e.latestVersion.rv <= obj.rv
        /\ e.latestVersion.rv = obj.rv => obj.care

Unused(e) == e.latestVersion = None /\ e.Definition.rv = NoVersion

LabelsNoticed(s) ==
    /\ pvBySharedVolume[s] # None =>
        \/ Remembers(pvBySharedVolume[s], PVOf(s))
        \/ req = s /\ pc = "unfinalize"
    /\ pvcBySharedVolume[s] # None =>
        \/ Remembers(pvcBySharedVolume[s], PVCOf(s))
        \/ req = s /\ pc \in {"deletePV", "unfinalize"}
        \/ req = s /\ pc = "ensurePVC" /\ Unused(pvcBySharedVolume[s])
    /\ req = s /\ pc = "ensurePV" => PVOf(s) = None \/ PVOf(s).spec = Written(sv.spec)

-----------------------------------------------------------------------------
\* A request, or an event that will become one.
Announced(s) ==
    s \in queue \/ Len(svs[s]) > 1 \/ Heard(PVs(s)) \/ Heard(PVCs(s))

\* What the worker has found and done, if nothing was announced since.
Underway(s) ==
    /\ sv = SVOf(s)
    /\ pc \in {"ensurePV", "ensurePVC", "ready"} => PVOf(s) = None \/ Parsed(PVOf(s).spec) = sv.spec
    /\ pc \in {"ensurePVC", "ready"} => DoICare(PVOf(s))
    /\ pc = "ready" => DoICare(PVCOf(s))

NothingForgotten(s) ==
    Exists(SVOf(s)) /\ ~Announced(s) => IF req = s THEN Underway(s) ELSE Right(s)

\* All of it, of one SharedVolume.
Minded(s) == EventsFindOwner(s) /\ (Prompt => LabelsNoticed(s)) /\ NothingForgotten(s)

RestInv == \A s \in SharedVolumes : Minded(s)
=============================================================================
