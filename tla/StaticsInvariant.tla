--------------------------- MODULE StaticsInvariant ---------------------------
(***************************************************************************)
(* An inductive invariant of the statics, from which StaticsRestRight      *)
(* follows if statics are left alone while the operator starts up.  The    *)
(* argument: a CRD that is in place has been, unchanged, since the         *)
(* controllers started, with every static made and requested; from then on *)
(* a static is requested, or an event will request it, or it is right.     *)
(***************************************************************************)
EXTENDS StaticsProperties

\* There is no way back for the CRD that was there when the controllers started.
CRDInv ==
    /\ born <= uids
    /\ \A i \in 1..Len(crd) : crd[i] # None => crd[i].uid \in 1..uids
    /\ ~Running \/ InPlace => Len(crd) = 1
    /\ InPlace => pc # "deleteSCC"

-----------------------------------------------------------------------------
(* What can be said of a static and of what the operator remembers of it. *)

Owners == {None} \cup 1..uids

\* Nobody can change what is immutable, nor what is not compared.
ContentsOf(t) == IF Changeable(t) THEN {"golden", "changed"} ELSE {"golden"}

\* Only users take the label off.
Labels == IF spent.meddles = 0 THEN {TRUE} ELSE BOOLEAN

Plain(contents, owners, labels) ==
    [spec: contents, owner: owners, care: labels, rv: Nat, term: {FALSE}]

PlainEnsurables(t, contents, owners, labels) ==
    [ObjType: {t},
     uid: {0},
     Definition: [spec: {defs[t]}, owner: {None}, care: {FALSE}, rv: Nat, term: {FALSE}],
     owner: owners,
     latestVersion: Plain(contents, owners, labels) \cup {None}]

PlainInv ==
    \A t \in Statics :
        /\ objects[t] \in Versions(Plain(ContentsOf(t), Owners, Labels))
        /\ ensurables[t] \in PlainEnsurables(t, ContentsOf(t), Owners, Labels)

-----------------------------------------------------------------------------
\* As defs/ have it, with the label.
AsDefined(obj) == obj # None /\ obj.spec = "golden" /\ obj.care

\* EnsureStatics starts from nothing, and leaves every static made or reports an error.
BootstrapInv ==
    /\ ~Running => UpToDate(objects)
    /\ pc = "bootstrap" => \A t \in Statics :
        IF t \in todo
        THEN ensurables[t] = staticResources[t]
        ELSE \/ failed
             \/ AsDefined(Stored(objects[t])) /\ ensurables[t].latestVersion = Stored(objects[t])

Requested(t) == t \in queue \/ (pc = "ensure" /\ req = t)

HasOwner(obj) == obj # None /\ obj.owner # None

\* An old version that the operator may take for the static does no harm: what came
\* next is heard of.
LossHeard(versions) ==
    ~HasOwner(Stored(versions)) =>
        \A i \in 1..(Len(versions) - 1) :
            HasOwner(versions[i]) => passes(versions[i], versions[i + 1])

\* A static that changed since has another version than the one remembered.
Tracked(t) ==
    LET latest == ensurables[t].latestVersion
        obj    == Stored(objects[t])
    IN  AsDefined(latest) /\ (obj # None => obj = latest \/ latest.rv < obj.rv)

Minded(t) ==
    \/ Requested(t)
    \/ Heard(objects[t])
    \/ HasOwner(Stored(objects[t])) /\ (UpdatesWork => AsDefined(Stored(objects[t])))

InMind(t) ==
    /\ EndsAreHeard => Minded(t)
    /\ UpdatesWork => Tracked(t)
    /\ LeftAlone => LossHeard(objects[t])

MindedInv == InPlace => \A t \in Statics : InMind(t)

RestInv == CRDInv /\ PlainInv /\ BootstrapInv /\ MindedInv
=============================================================================
