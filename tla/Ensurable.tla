------------------------------ MODULE Ensurable ------------------------------
(***************************************************************************)
(* pkg/util/ensurable.go: the helper that makes one resource exist with a  *)
(* given definition, or be gone.  It is pure here: an operation takes the  *)
(* Ensurable, the object its cached Get finds and the object the API       *)
(* server really holds, and yields the set of outcomes the call can have.  *)
(*                                                                         *)
(* A resource is a record                                                  *)
(*   spec   the part the operator decides (what EqualFunc looks at),       *)
(*   owner  whom it says it belongs to, or None: for PVs and PVCs the      *)
(*          SharedVolume of the two owner labels, for statics the uid in   *)
(*          the one OwnerReference,                                        *)
(*   care   the label the watch predicate looks for is there,              *)
(*   rv     its ResourceVersion, counted per object (NoVersion: empty),    *)
(*   term   its deletionTimestamp is set.                                  *)
(* An Ensurable is a record [ObjType, Definition, owner, latestVersion];   *)
(* its EqualFunc goes with its ObjType, and uid is a ghost: the            *)
(* incarnation of the SharedVolume it was built for.                       *)
(*                                                                         *)
(* latestVersion may be the very object Definition points to.  That is not *)
(* kept: Definition is read again only after Delete cleared latestVersion. *)
(* What the two may differ in by then is the version, which a Create makes *)
(* anew.  Only deleteSCC can be followed by an Ensure of what it failed to *)
(* delete, when the CRD has been replaced; the code may then find the      *)
(* versions equal where the model compares.                                *)
(***************************************************************************)
EXTENDS Naturals

CONSTANT None           \* the absence of an object (NotFound, nil)

NoVersion == 0

Resources(specs, owners) ==
    [spec: specs, owner: owners \cup {None}, care: BOOLEAN, rv: Nat, term: BOOLEAN]

\* The fields an EqualFunc compares.  ServiceAccounts and PVs are "always equal".
EqualFunc ==
    [PersistentVolume |-> {}, PersistentVolumeClaim |-> {"spec"},
     ServiceAccount |-> {}, SecurityContextConstraints |-> {"spec"},
     DaemonSet |-> {"spec"}, CSIDriver |-> {"spec"}, StorageClass |-> {"spec"}]

ObjTypes == DOMAIN EqualFunc

\* The API server refuses an Update that changes one of these.
Immutable == {"PersistentVolume", "PersistentVolumeClaim", "CSIDriver", "StorageClass"}

Ensurables(types, uids, specs, owners) ==
    [ObjType: types,
     uid: uids,
     Definition: Resources(specs, owners),
     owner: owners \cup {None},
     latestVersion: Resources(specs, owners) \cup {None}]

NewEnsurable(type, uid, spec, owner) ==
    [ObjType |-> type,
     uid |-> uid,
     Definition |-> [spec |-> spec, owner |-> owner, care |-> FALSE,
                     rv |-> NoVersion, term |-> FALSE],
     owner |-> None,
     latestVersion |-> None]

SetOwner(e, owner) == [e EXCEPT !.owner = owner]

MakeMeCare(obj) == [obj EXCEPT !.care = TRUE]

VersionsEqual(local, server) == server.rv # NoVersion /\ local.rv = server.rv

WithOwner(e, obj) == IF e.owner # None THEN [obj EXCEPT !.owner = e.owner] ELSE obj

\* Mutant: the owner is set on the generated skeleton only.
LatestDefinition_OwnerOfSkeleton(e) ==
    IF e.latestVersion # None THEN e.latestVersion ELSE WithOwner(e, MakeMeCare(e.Definition))

\* What Create and Update send: the object seen last, or else the generated
\* skeleton, with the owner that was set.
LatestDefinition(e) ==
    WithOwner(e, IF e.latestVersion # None THEN e.latestVersion ELSE MakeMeCare(e.Definition))

SameSpec(e, local, server) ==
    \A field \in EqualFunc[e.ObjType] : local[field] = server[field]

\* Mutants: the label, the owner reference or the spec is not looked at.
Equal_CareUnchecked(e, local, server) ==
    VersionsEqual(local, server) \/ SameSpec(e, local, server)
Equal_OwnerUnchecked(e, local, server) ==
    VersionsEqual(local, server) \/ (server.care /\ SameSpec(e, local, server))
Equal_SpecUnchecked(e, local, server) ==
    /\ e.owner # None => server.owner # None
    /\ VersionsEqual(local, server) \/ server.care

\* Any one owner reference will do.
Equal(e, local, server) ==
    /\ e.owner # None => server.owner # None
    /\ \/ VersionsEqual(local, server)
       \/ server.care /\ SameSpec(e, local, server)

\* latestObj.SetResourceVersion writes through the pointer the Ensurable keeps,
\* so the version sticks to its Definition or latestVersion if the call fails.
Stamped(e, rv) ==
    IF e.latestVersion # None
    THEN [e EXCEPT !.latestVersion.rv = rv]
    ELSE [e EXCEPT !.Definition.rv = rv]

Remember(e, obj) == [e EXCEPT !.latestVersion = obj]

(***************************************************************************)
(* Outcomes: the caller sees ok; the server then holds server; the         *)
(* Ensurable is e; fault says that the API or the network misbehaved.      *)
(***************************************************************************)
Outcome(ok, server, e, fault) == [ok |-> ok, server |-> server, e |-> e, fault |-> fault]

\* The API server fills in the defaults that the DaemonSet's definition leaves out.
Completed(e, obj) ==
    IF e.ObjType = "DaemonSet" /\ obj.spec = "skeleton" THEN [obj EXCEPT !.spec = "golden"] ELSE obj

Created(e) == Completed(e, [LatestDefinition(e) EXCEPT !.rv = 1, !.term = FALSE])

\* An Update that changes nothing makes no new version.
Updated(e, found) ==
    LET made == Completed(e, [LatestDefinition(e) EXCEPT !.rv = found.rv, !.term = found.term])
    IN  IF made = found THEN found ELSE [made EXCEPT !.rv = found.rv + 1]

\* Mutant: the error of Create is logged and dropped.
CreateOutcomes_ErrorDropped(e, server) ==
    {Outcome(TRUE, IF server = None THEN Created(e) ELSE server, e, FALSE),
     Outcome(TRUE, server, e, TRUE)}

\* Get found nothing: Create.  The server refuses if the object exists.
CreateOutcomes(e, server) ==
    LET made == Created(e)
        kept == Stamped(e, NoVersion)
    IN  {Outcome(FALSE, server, kept, TRUE)}
        \cup (IF server = None
              THEN {Outcome(TRUE, made, Remember(kept, made), FALSE),
                    Outcome(FALSE, made, kept, TRUE)}        \* reply lost
              ELSE {Outcome(FALSE, server, kept, FALSE)})    \* AlreadyExists

\* Get found something else: Update, accepted only for the version that was
\* found, and not if it changes what is immutable.
UpdateOutcomes(e, found, server) ==
    LET made == Updated(e, found)
        kept == Stamped(e, found.rv)
    IN  {Outcome(FALSE, server, kept, TRUE)}
        \cup (IF server = found /\ (e.ObjType \in Immutable => made.spec = found.spec)
              THEN {Outcome(TRUE, made, Remember(kept, made), FALSE),
                    Outcome(FALSE, made, kept, TRUE)}        \* reply lost
              ELSE {Outcome(FALSE, server, kept, FALSE)})    \* Conflict, NotFound, Invalid

Ensure(e, found, server) ==
    {Outcome(FALSE, server, e, TRUE)}                        \* Get failed
    \cup (IF found = None
          THEN CreateOutcomes(e, server)
          ELSE IF Equal(e, LatestDefinition(e), found)
          THEN {Outcome(TRUE, server, Remember(e, found), FALSE)}
          ELSE UpdateOutcomes(e, found, server))

Terminating(obj) ==
    IF obj = None \/ obj.term THEN obj ELSE [obj EXCEPT !.rv = @ + 1, !.term = TRUE]

\* Mutant: an error of the API server counts as done.
Delete_ErrorDropped(e, found, server) ==
    {Outcome(TRUE, IF found = None THEN server ELSE Terminating(server), Remember(e, None), FALSE),
     Outcome(TRUE, server, Remember(e, None), TRUE)}

\* Mutant: it waits for the object to be gone, which may be never.
Delete_UntilGone(e, found, server) ==
    {Outcome(found = None, IF found = None THEN server ELSE Terminating(server),
             Remember(e, None), FALSE)}

\* DELETE is by name.  It starts the deletion; NotFound, from the cache or from
\* the server, counts as done.
Delete(e, found, server) ==
    LET cleared == Remember(e, None)
    IN  {Outcome(FALSE, server, cleared, TRUE)}              \* Get or Delete failed
        \cup (IF found = None
              THEN {Outcome(TRUE, server, cleared, FALSE)}
              ELSE {Outcome(TRUE, Terminating(server), cleared, FALSE),
                    Outcome(FALSE, Terminating(server), cleared, TRUE)})    \* reply lost
=============================================================================
