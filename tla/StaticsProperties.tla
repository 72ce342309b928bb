--------------------------- MODULE StaticsProperties ---------------------------
(***************************************************************************)
(* What the operator promises about the CSI driver's resources.            *)
(***************************************************************************)
EXTENDS Statics

Exists(t) == Stored(objects[t]) # None

\* The CRD has been there since the controllers started.
InPlace == Running /\ There /\ uidOfCRD = born

\* Nothing is left to do, neither for the operator nor for Kubernetes.
AtRest ==
    /\ pc = "idle" /\ queue = {}
    /\ Len(crd) = 1 /\ UpToDate(objects)
    /\ \A t \in Statics : ~Collectable(t)

\* The garbage collector would take it with the CRD, and not before.
WellOwned(t) ==
    IF t = SCC THEN Owned(t) ELSE Owned(t) /\ Stored(objects[t]).owner = uidOfCRD

Golden(t) ==
    Stored(objects[t]).care /\ ("spec" \in EqualFunc[t] => Stored(objects[t]).spec = "golden")

\* No Update met a fault or an old version (what becomes of a static when one did, and
\* it had lost its label: RememberedObjectsCare).
UpdatesWork == spent.faults = 0 /\ MaxLag = 0

\* Nobody takes the label off a static and then the static away: not users, nor one of
\* them and the garbage collector, which lets it be if there was no other CRD before.
LeftAlone == spent.meddles = 0 \/ (spent.meddles = 1 /\ uids = 1)

\* An end that nobody hears of cannot be undone.
EndsAreHeard == UpdatesWork \/ LeftAlone

\* While the CRD is in place, rest means that every static is there and belongs to
\* it, whatever failed at start-up or later, whoever deleted one or took its owner
\* away, and also after a restart, whose bootstrap takes the DaemonSet's owner away;
\* and that it is what defs/ say.
StaticsRestRight ==
    AtRest /\ InPlace => \A t \in Statics :
        /\ EndsAreHeard => WellOwned(t)
        /\ UpdatesWork => Golden(t)

\* Once the controllers run, the operator neither makes a static without an owner
\* nor takes one's owner away: the garbage collector will not miss it (Reconcile
\* 124-126).  Only EnsureStatics does, which cannot know the owner.
OnlyStartDisowns ==
    [][Running /\ spent'.meddles = spent.meddles =>
        \A t \in Statics : (Exists(t) => Owned(t)) /\ Exists(t)' => Owned(t)']_vars

\* With a CRD, an installed operator gets every static made and owned: after a half-done
\* bootstrap, after controllers that started without a CRD, and after a CRD that was
\* replaced before they started.  Not for one that is replaced while they run: Reconcile
\* skips what the garbage collector takes meanwhile (statics_controller.go 103-107,
\* 116-120), and the new CRD causes no request.
Installed ==
    \A t \in Statics :
        There /\ pc # "gone" ~>
            \/ Exists(t) /\ WellOwned(t)
            \/ ~There \/ pc = "gone"
            \/ Running /\ born \notin {0, uidOfCRD}

\* The SecurityContextConstraints go after the CRD, if the operator is still running:
\* the garbage collector leaves them alone, but what it does to the others tells the
\* controller that it is time.  deleteSCC ignores its errors, and what failed before
\* the CRD was gone is made good by then; a request that fails later has no other try.
SCCGoes ==
    \A n \in 0..MaxFaults :
        /\ Running /\ born # 0 /\ Stored(crd) = None /\ spent.faults = n
        /\ \A t \in Statics : Owned(t) /\ Stored(objects[t]).care
        ~> ~Exists(SCC) \/ Stored(crd) # None \/ ~Running \/ spent.faults > n

\* No thrashing over a CRD that is gone: the statics it owned go and stay away, also
\* if a cache still shows it for a while ("Bail out to avoid thrashing").
Demise ==
    <>[](Stored(crd) = None) => <>[](\A t \in Statics \ {SCC} : ~Owned(t))

\* Nor over one that is there: the garbage collector takes what belongs to a CRD that
\* was replaced and the operator makes it again, for the new CRD and only once.
StaticsComeToRest == <>[](Running /\ There) => <>[][UNCHANGED objects]_vars
=============================================================================
