# Verification of the AWS EFS operator

TLA+ models of the AWS EFS operator in this repository, the TLC configurations that check
them, and proofs that TLAPS checks.  Paths below are relative to the repository's `src/`.

To check a run: `tlc -workers 2 -config lagging.cfg MCSharedVolume.tla` (the runs of the statics
use `MCStatics.tla`).  To check proofs: `tlapm SharedVolumeRefinementProofs.tla`, and likewise the other
modules that section 4 names.

## 1. The system

The operator is one process with two controllers of one worker each, sharing one informer cache.
`SharedVolume` is a namespaced custom resource: a pair of ids (EFS file system, access
point).  For each one the operator keeps a PersistentVolume `pv-<namespace>-<name>` and a
PersistentVolumeClaim `pvc-<name>`.  It also keeps five fixed resources that run the CSI driver, the statics.

| Component | State | Operations | Correct when |
|---|---|---|---|
| SharedVolume controller (`pkg/controller/sharedvolume`) | two process-wide maps of Ensurables by SharedVolume name; finalizer, spec and status of each SharedVolume, in the cluster | `Reconcile`: `uneditSharedVolume`, `ensureFinalizer`, `markStatus`, `markReady`, `handleDelete` | the PV and PVC exist while the SharedVolume does, carry its ids, and go with it; the status is true |
| Watches and mapping (`add`, `mapper.go`, `util/predicate.go`) | work queue (names, de-duplicated) | one handler per event; label predicate; owner labels to name | every change that needs work leads to a request |
| Ensurable (`util/ensurable.go`) | `Definition`, `owner`, `latestVersion` | `Ensure`, `Delete`, `equal`, `SetOwner` | after success the resource is right, or gone; what is remembered is right |
| SharedVolume API (`apis/awsefs/v1alpha1`) | spec, phase, message, claimRef | deep copies (generated) | the phase means what its comment says |
| Volume handle and naming (`pv_ensurable.go`, `uneditSharedVolume`) | none | ids to and from the PV; names of PV and PVC | reading gives back what was written; names do not collide |
| Statics (`controller/statics`, `util/owner.go`) | five Ensurables; owner reference to the CRD | `EnsureStatics` at start-up; `Reconcile`; `deleteSCC` | the driver's resources stay while the CRD is there, and go with it |
| Start-up (`cmd/manager/main.go`, `controller.go`) | leader lock | straight sequence; exits on any error | the statics exist before the controllers run; one operator at a time |
| Generated definitions, API registration, constants, FIPS import | none | none | |
| Fixtures, mocks, tests; manifests, build and hack scripts | none | none | |

**How they interact.**  The controllers read the informers' cache and write to the API server.  Every
write comes back as a watch event, later, and then as a request in the queue.  The finalizer ties
a SharedVolume's end to `handleDelete`.  The maps tie one Reconcile to the next.  `uneditSharedVolume`
reads the PV to decide what the SharedVolume should say, while `pvEnsurable` uses the
SharedVolume to decide what the PV should say: whichever is older is meant to win.  The statics and the
SharedVolumes share the Ensurable helper and nothing else, so they are two models with common modules.

**What is hard.**  (1) A cache may be behind what the operator itself wrote.  (2) Between any two
requests of one Reconcile users may edit, delete or recreate.  (3) A request may fail, or succeed
with its reply lost.  (4) Errors of status updates are sometimes returned and sometimes only
logged.  (5) The maps are keyed by name and outlive the object they were made from.  (6) A restart
loses maps and queue.  (7) The predicate and the mapper can only see events of objects with
labels, which users can take off.  (8) PVs and PVCs stay "terminating" as long as pods use them.
(9) The statics are made before their owner is known, and the owner may be replaced.  (10) The watches do
not see what happens before the first list.
`PROJECT.json` lists each hazard at its line with the properties that would catch it.

## 2. The modules

| Module | Models | Notes |
|---|---|---|
| `Ensurable` | `util/ensurable.go` | Pure: `Ensure` and `Delete` map an Ensurable, the cached object and the stored object to the set of possible outcomes |
| `Informer` | caches, watches, `util/predicate.go` | Each object is a sequence of versions: the first is the cached one, the last the stored one |
| `VolumeHandle` | ids to and from a PV, names | Pure |
| `SharedVolumeCluster` | the wiring of the watches and the mapper; and, external: API server, users, Kubernetes' deletion of PVs and PVCs | extends the three above |
| `SharedVolumeController` | `Reconcile` of `sharedvolume_controller.go`, `pv_ensurable.go`, `pvc_ensurable.go` | one worker, with `pc`, `req` and its copy `sv` |
| `SharedVolumeProperties` | what the controller promises | safety, action properties, liveness, and the claims of documents that fail |
| `SharedVolumeInvariant` | the inductive invariants `IInv` and `AskedInv` | |
| `SharedVolumeRest` | the inductive invariant `RestInv`: who has in mind what is left to do | |
| `SharedVolumeLifecycle` | the abstract specification: lives of SharedVolumes and presence of their resources | no caches, Reconcile, maps or status |
| `SharedVolumeRefinement` | the refinement mapping; `FollowsLifecycle`; `LettingGo`, `BackedSoFar` | `Lifecycle == INSTANCE SharedVolumeLifecycle WITH ...` |
| `Statics` | `statics.go`, `statics_controller.go`, `owner.go`, the order of `main.go`; external: the CRD, administrators, the garbage collector | extends `Informer` |
| `StaticsProperties` | what the operator promises about the statics | |
| `StaticsInvariant` | the inductive invariant `RestInv` of the statics | |
| `MCSharedVolume`, `MCStatics` | instances for TLC | |
| `*Proofs`, `SharedVolumeTyping`, `SharedVolumeSafety` | proofs | section 4 |

### SharedVolumes

**State and code.**  `svs`, `pvs`, `pvcs` are the three kinds of objects.  A SharedVolume is a record of
`Spec` (`FileSystemID`, `AccessPointID`), our finalizer (`fin`), somebody else's (`held`),
deletionTimestamp, `Status.Phase`, whether `Status.Message` is set and whether `Status.ClaimRef` names
the claim.  A PV or PVC is a record of what its `EqualFunc` and `uneditSharedVolume` look at (`spec`: the volume
source, or the volume name), the owner labels, the watch label (`care`), resourceVersion and deletionTimestamp.
`pvBySharedVolume` and `pvcBySharedVolume` keep their names.  `uid`, `uids` and `asked` are ghosts:
they tell one incarnation of a name from the next and record what users asked for.

**Steps and code.**  An action of the controller is what Reconcile does around one request to the API server:

| Action | Code (`sharedvolume_controller.go` unless named) |
|---|---|
| `Begin` | dequeue, the cached Get and its failure, NotFound, the choice of path (102-131) |
| `Unedit` | `uneditSharedVolume`: cached Get of the PV and its failure, parse, push of the reverted spec (314-432) |
| `Finalize`, `MarkPending` | `ensureFinalizer`; first status (200-213, 157-163) |
| `EnsurePV`, `EnsurePVC` | `Ensure` of `ensurable.go` with its cached Get and its Create or Update; both map entries are made before the first Ensure |
| `MarkFailed`, `MarkReady` | `markStatus(Failed)`, ignored errors; `markReady` |
| `MarkDeleting`, `DeletePVC`, `DeletePV`, `Unfinalize` | `markStatus(Deleting)`, logged errors; `handleDelete` with its deferred deletes of map entries |
| `Crash` | the process restarts: empty maps, fresh list, initial events |

**The lifecycle.**  A SharedVolume is absent, fresh, guarded (the finalizer is on), leaving or released; a PV or PVC is
none, live or going.  The lifecycle says when each may change: resources are made only for a SharedVolume that is held back;
a deletion is never taken back; and, if the operator is informed (its caches keep up), the claim goes before the volume and
the finalizer comes off only when nothing live is left.  The mapping reads all of it off the stored objects, so the queue, the
maps, the caches and the status are hidden, and every step of `Reconcile`, of the informers and of the environment is a step of the lifecycle
or a stutter.  The lifecycle's constants `Patient`, `Informed` and `Alone` are `PATIENT`, `~LAGGING` and "nobody else deletes PVs and
PVCs": what the operator can promise depends on them.

**What is abstracted, and why it is safe to.**
- The Get and the write of one `Ensure` or `Delete` are one action: the Get reads only the cache, and
  the write is checked against the *stored* object, which may be ahead of it.  With `LAGGING` this has the effect of
  a step between them.  With `LAGGING = FALSE` it does not; those runs say "with caches that keep up".
- The SharedVolume's resourceVersion is not a field: a write is accepted if the worker's copy equals the
  stored version.  The two differ only if a SharedVolume changes and changes back to exactly the same value between
  a read and a write.  PVs and PVCs do have a resourceVersion, counted per object and starting again
  when the name is reused, where etcd counts globally.  An Ensurable clears the version it keeps before it
  creates and forgets the object when it deletes, so it holds no version of an earlier object that it could take for the new one's;
  only the two owners of a shared PV name could tell the difference.
- `latestVersion` may point to the very object `Definition` points to.  The model keeps two values.  `Definition` is read again only
  after `Delete` has cleared `latestVersion`, and the two may then differ in what was stamped or filled in since.  A Create makes a new version of its own,
  so for PVs and PVCs, whose entries `handleDelete` drops, nothing comes of it.  After a `deleteSCC` that failed, with the CRD replaced,
  the code may find the versions of its Definition and the object equal where the model compares label and spec; no property asks about that case.
- Status and spec are written separately in the code (`Status().Update` and `Update`); each action
  changes only its own fields, and a conflict is over the whole object, as on the API server.
- A write that changes nothing makes no new version and no event, as on the API server.
- PV and PVC specs are immutable at the API server, so an `Update` that would change one is refused.
- An error text is one bit: rewriting one error text with another is not modelled.
- Rate limits and back-off are scheduling.  A requeue puts the name back in the queue.
- Of a volume source only the volume handle and the mount option `accesspoint=` count.  A handle is the
  sequence of the parts between its colons, and an id is one part: the CRD's schema admits only `fs-` and `fsap-` and
  hexadecimal digits.  A handle with more than two colons is read as the code reads it, but none is in the runs.
- `garble` replaces a PV by one with an unreadable source (no handle, no access point, a single colon), `restyle` by one
  as operators before pull request 17 wrote it.
- Quantities and modes of PVC specs are compared as values.

**Parameters.**  `LAGGING`: caches may be behind when they are read.  `PATIENT`: users recreate a name
only when its PV and PVC are gone.  `ForeignFinalizers`, `Meddling`: what else is in the cluster.
`MaxUid`, `MaxEdits`, `MaxMeddles`, `MaxFaults`, `MaxCrashes` bound creations, edits of SharedVolumes, changes to
PVs and PVCs, failed requests, and restarts.  All bounds are on the environment; no action of the
operator is bounded, so a loop of the operator would show.

### Statics

**State and code.**  `crd` and `objects` are versions of the CRD and of each static; `ensurables` is `staticResources`.  A static's
`spec` is what its `EqualFunc` sees: what is in `defs/` (`skeleton` for the DaemonSet, whose defaults the API server then
fills in), the completed definition (`golden`), or `changed`.  Its `owner` is the uid in the one OwnerReference.  `pc` is where the operator is: in
`EnsureStatics` (`bootstrap`, with `todo` and `failed`), between requests, at one of the two calls that end a Reconcile, or not installed.  `born` is
the CRD that was there when the informers started.

| Action | Code |
|---|---|
| `Bootstrap` | one turn of the loop of `EnsureStatics` (`statics.go:196-209`), with the start-up client, which has no cache |
| `Start`, `Exit` | `main.go:153-181`: the manager starts; or a static could not be ensured, or the kind SharedVolume is not served, and the process exits and is launched again behind the leader lock |
| `Reconcile` | `statics_controller.go:79-126`: the CRD in the cache decides; `SetOwner` |
| `EnsureStatic` | the rest of `Reconcile` (128-133), requeued on error |
| `DeleteSCC` | `deleteSCC` (147-155), its errors ignored |
| `SyncCRD`, `Sync` | the CRD's cache, which no request comes from; the watches of `add` |
| `CreateCRD`, `DeleteCRD`, `CRDGone`, `Collect`, `Meddle`, `Restart`, `Uninstall` | external |

**What is abstracted.**
- A request that names no static is logged and dropped (87-95).  It does not occur here.
- The start-up client reads from the API server, so the Get and the write of one bootstrap step are one action; what happens
  between them would be a conflict, which is a fault here.
- No static has a finalizer: deleting one removes it.  Foreground deletion of the CRD waits for no static, as the
  owner references do not block.
- The garbage collector takes what names an owner that is not there, except the SecurityContextConstraints
  (that is issue 23, from the comment in `statics_controller.go:99-101`).  Nothing without an owner reference is taken.
- If the CRD is missing, the SharedVolume controller's watch cannot start, `mgr.Start` fails and the process exits (`Exit`);
  if the CRD is deleted later, its watch only logs errors.
- `MaxLag` bounds how many versions a static's cache may be behind when it is read.  The cache of the CRD
  may be arbitrarily far behind.  `QUIET` keeps users and the garbage collector away from statics during
  `EnsureStatics`; `unwatched_start` shows what happens otherwise.
- The definitions of the generated `defs` and the discovery of the namespace are constants.

Things that the model makes plain and that are as the code intends, or close: after a restart the bootstrap takes
the owner off the DaemonSet, because the completed spec differs from the generated one and the
definition has no owner yet, until its first Reconcile puts it back (`OnlyStartDisowns` says that only start-up does
this).  And if the operator is uninstalled before the CRD is deleted, as `README.md:182-184` tells
the administrator to do, nobody deletes the SecurityContextConstraints (issue 23).

A CRD that is replaced while the operator runs is not among them: any of the statics can stay away then.  The garbage collector takes those of
the old CRD, their events are handled while the cached CRD is gone or terminating, so `Reconcile` skips them (and deletes the SecurityContextConstraints), and
the new CRD asks for nothing.  `InPlace` in `StaticsRestRight` and the last alternative of `Installed` leave this case out, and nothing else:
a CRD replaced before the controllers start, or missing when they do, is covered.

## 3. The runs

**SharedVolumes.**  One name and two specs unless said otherwise.  Two specs are enough to tell "asked for" from "not
asked for" and each is as good as the other (symmetry of the access points, in the runs without liveness).  One name is enough for these
questions because Reconcile, the maps and the queue treat names independently; where they do not (the
name of the PV), `shared_name` has two.  `MaxUid 2` lets a name be used, deleted and used again while
everything of its first life is still under way.  Deadlock is not checked: the system stops when
the queue is empty and users have spent their bounds, and `RestIsRight` says what must hold then.

**Statics.**  `SecurityContextConstraints`, which the garbage collector spares and `deleteSCC` deletes, and `DaemonSet`, which the API server completes:
the two that differ from the rest.  They only meet in `deleteSCC` and in the order of the bootstrap.  With one static for the
garbage collector to take, `deleteSCC` is called once after the CRD has gone, or more often while it terminates.  The proofs are for any of the five.

| Run | Instance | Shows | Distinct states |
|---|---|---|---|
| `lagging` | old caches, two incarnations, a fault, a restart | `TypeOK`, `IInv`; `CreatedUnderFinalizer`: nothing is created that no later `handleDelete` has to look for; `DeletingPhaseIsHonest`: the answer to the TODO at line 166; `EnsurablesFollowIncarnation`: the maps are clean between Reconciles; `RestIsRight`: no lost wake-up | 730 000 |
| `informed` | caches that keep up, patient users, two incarnations, an edit, a PV in the old style, 2 faults, a restart | `FollowsLifecycle` with its informed guarantees; `NoOrphans`, `SpecWasAsked`, `VolumeWasAsked`, `ReadyIsBacked`, `RestIsRight` | 270 000 |
| `progress` | old caches, an edit, a fault, fairness | `DeletionCompletes`, `Provisions`, `ComesToRest` | 200 000 |
| `healing` | 3 deletions or removed labels, a restart, fairness | `RestIsRight`, `Provisions`: what users break is repaired from the watch alone, never from a resync | 390 000 |
| `meddling` | one spec, any change to a PV or PVC, a foreign finalizer, two incarnations, a restart, fairness | `DeletionCompletes` | 345 000 |
| `statics` | caches of the statics that keep up (that of the CRD need not), one CRD that may go, a fault, a restart, one change by a user | `TypeOK`, `OnlyStartDisowns`, `StaticsRestRight` with both halves: there and owned; and, as long as no request has failed, golden | 440 000 |
| `statics_replaced` | the same caches, a CRD deleted and created anew, a fault, uninstallation, fairness | `Installed`, `Demise`, `SCCGoes`, `StaticsComeToRest`, `StaticsRestRight` | 116 000 |

**Why some runs have caches that keep up.**  `NoOrphans`, `SpecWasAsked`, `VolumeWasAsked` and `ReadyIsBacked` are false with old
caches or impatient users; that is what the runs below show.  `informed` shows that nothing *else*
breaks them.  In `healing` removed labels are not combined with faults, old caches or PVs of the old style (whose
Update is refused), because of `failed_update`; `disown` and `garble` are not there because the operator does not undo them
(see the end of this section).

`SCCGoes` counts faults from the moment the CRD is gone: `deleteSCC` ignores its errors, so a call that failed before is made good
by the one that follows the collection of the other static, and one that fails then is not.

What `failed_update` shows happens to statics too, and `EndsAreHeard` in `StaticsRestRight` leaves it out: where an Update may fail or meet an old version,
at most one change by a user is allowed for, and none if a CRD was there before this one.  With both, a static can be lost: a user takes the label
off; an Update that would put it back fails and leaves the version stamped on the remembered object; the retry takes the unlabelled static for right,
with the uid of an earlier CRD as its owner; the garbage collector takes it, and the predicate passes no event.  For the same reason `Golden` is asked
only where Updates work (`UpdatesWork`: no fault so far, caches that keep up): in `statics` a failed Update of a changed DaemonSet does leave it changed at rest.
No run has caches of statics that are behind (`MaxLag` above 0): for the safety properties the theorems hold for any lag; `Installed`, `Demise`, `SCCGoes` and
`StaticsComeToRest` are checked with caches that keep up only.

**Fairness.**  Weak fairness of event delivery for each object: a
watch delivers, or is restarted and lists.  Weak fairness of the worker's next step: a goroutine runs, and its
requests end with an answer or an error.  Strong fairness of taking each name from the queue (`Begin(s)`, `Reconcile(t)`): the work queue is
first in, first out, so a name that is queued again and again is taken.  For the statics also: Kubernetes launches
an operator that exited, and collects garbage.  No fairness for users, administrators, for Kubernetes
reaping PVs and PVCs (pods may use them for ever), for restarts or for the 10-hour resync: no property leans
on these.  Faults are bounded, so "eventually" means once the API server answers.

### Where documents and code differ

Each of these runs is expected to end in a violation of its one property.  Each drops one assumption that a passing run makes.

| Run | Property | What happens |
|---|---|---|
| `stale_cache_orphan` (caches may be old) | `NoOrphans` | The PV or PVC is created, the SharedVolume deleted, and `Delete` (`ensurable.go:129`) finds nothing in a cache that has not caught up.  The finalizer goes; the resource stays |
| `reused_name` (users are not patient) | `SpecWasAsked` | The name is reused with other ids while the old PV terminates: `uneditSharedVolume` sets the new SharedVolume to the old ids |
| `failed_update` (an Update of an unlabelled object fails) | `RememberedObjectsCare` | `Ensure` stamps the server's resourceVersion on the object it keeps, `Update` fails, and the retry takes the two for equal and remembers the object without its watch label |
| `shared_name` (two names join to one; users are patient) | `SpecWasAsked` | `a-b/c` and `a/b-c` have the same PV name; the second is set to the first one's ids |
| `unwatched_start` (no quiet at start-up) | `StaticsRestRight` | A static deleted after its Ensure in `EnsureStatics` and before the informers' first list is not made again |

A conflict is a failed update too, so `failed_update` needs no fault if the caches are old.

For each of them a theorem of section 4 says that the promise is kept with the assumption: `NoOrphansInformed`;
`NothingIsInherited` (`reused_name`, `shared_name`); `RememberedCare`; and `StaticsComeRight` (`unwatched_start`).

Other differences that were seen while modelling and have no run:
- A PV or PVC that loses its owner labels never gets them back: `equal` does not look at them, so the object is accepted as it is and its
  events reach nobody any more (`DESIGN.md:104` wants it overwritten).  `NothingIsForgotten` assumes that nobody does this.
- A PV whose ids cannot be read is never restored: `uneditSharedVolume` leaves it to `Ensure` (comments at `sharedvolume_controller.go:325-328`
  and 361), but a PV's `EqualFunc` is `AlwaysEqual`, and its source could not be updated anyway.  The SharedVolume stays Ready.
  The same theorem assumes that nobody does this either.
- A running operator does not replace the statics that went with a CRD that was replaced (section 2), where `DESIGN.md:91-92` wants them replaced wholesale.
- `markReady` (276-299) leaves the error message of an earlier failure next to phase Ready (`DESIGN.md:50` wants it empty).
- Step 4 of uninstalling leaves the SecurityContextConstraints (`README.md:184`).

That a SharedVolume goes while its PV and PVC are still terminating is documented (`TESTING.md`) and
is not counted as a difference; `NoOrphans` speaks of resources whose deletion nobody asked for.

## 4. The proofs

The theorems hold for any set of names, specs and PV names, any map of names to PV names (collisions
included), caches of any age, every kind of meddling and all bounds, except where a row names what it assumes of the cluster.

*Assumptions.*  `ConstantsAssumption`, `BoundsAssumption`, `StaticsAssumption` (the constants have their types), `IdsAssumption` (specs are pairs of ids, the
access point not empty; garbled sources are unreadable), `NamesAssumption` (namespace and PVC name tell SharedVolumes apart), `NoneAssumption`,
`NoEnsurableAssumption` and `AbsenceAssumption` (`None` is not an object, a name or an Ensurable).  TLC evaluates them in every run.

| Theorem (module) | States |
|---|---|
| `TypeCorrect` (`SharedVolumeTyping`) | `Spec => []TypeOK` |
| `Inductive` (`SharedVolumeSafety`) | `Spec => []IInv` |
| `DeletingHonest`, `EnsurablesFollow`, `Guarding` (`SharedVolumeSafety`) | `Spec => []DeletingPhaseIsHonest`, `[]EnsurablesFollowIncarnation`, `CreatedUnderFinalizer` |
| `Refines` (`SharedVolumeRefinementProofs`) | `Spec => FollowsLifecycle` |
| `StraysNever` (`SharedVolumeLifecycleProofs`) | in the lifecycle, `Informed` gives `[]NothingStray` |
| `NoOrphansInformed` (`SharedVolumeRefinementProofs`) | `~LAGGING` gives `Spec => []NoOrphans` |
| `WithdrawnNever` (`SharedVolumeLifecycleProofs`) | in the lifecycle, `Orderly` gives `[]NothingWithdrawn` |
| `ReadyIsTrue` (`SharedVolumeRefinementProofs`) | `OrderlyCluster` gives `Spec => []ReadyIsBacked` |
| `NothingIsForgotten` (`SharedVolumeRestProofs`) | `OwnVolumes` and `LabelsStay \/ Prompt` give `Spec => []RestIsRight` |
| `RememberedCare` (`SharedVolumeRestProofs`) | `OwnVolumes` and `LabelsStay \/ Prompt` give `Spec => []RememberedObjectsCare` |
| `NothingIsInherited`, `VolumesWereAsked` (`SharedVolumeSafety`) | `Careful` gives `Spec => []SpecWasAsked`, `Spec => []VolumeWasAsked` |
| `RoundTrip` (`VolumeHandleProofs`) | what is written in either style is read back, for all ids |
| `StaticsTypeCorrect`, `RunningNeverDisowns` (`StaticsProofs`) | `Spec => []TypeOK`, `Spec => OnlyStartDisowns` |
| `StaticsComeRight` (`StaticsProofs`) | `QUIET` gives `Spec => []StaticsRestRight`, whose own conditions are `InPlace`, `EndsAreHeard` and `UpdatesWork` |

*The invariant of the controller.*  None of the three properties of `SharedVolumeSafety` is inductive: they speak of the stored SharedVolume
only, while the worker acts on a copy that came from the cache.  `IInv` says what old versions tell about newer
ones.  `HistoryOK`: along the versions of an object a deletion is never taken back, and a version that has the
finalizer and is not being deleted is followed only by versions of the same uid that have it too.
`CopyOK`: the worker's copy stands in the same relation to every version its watch has not got past.  So
a worker on the create path, whose copy has the finalizer and no deletion, knows that the stored object has the finalizer *now*,
however old its copy is.  That gives `Guarding`.  It is inductive because only two kinds of
writes come from the worker: those that keep the finalizer, and `Unfinalize`, which happens only after a version
with the deletion was read.  `MapsOK` ties each map entry to the stored incarnation, with the
exception of the steps of `handleDelete` that are about to drop it.  `EnsurableProofs` and the start of
`SharedVolumeSafety` prove what appending to, dropping from and relisting a sequence of versions keeps; `SharedVolumeTyping` and `SharedVolumeSafety` have one lemma per action.

*The refinement.*  `IInv` gives that resources are made only under the finalizer.  What it does not give is that nothing live is left when
the finalizer comes off.  `LettingGo` adds it, for caches that keep up: while the worker deletes, its SharedVolume is leaving
(the worker's copy has the finalizer and is current enough: the finalizer comes off by its hand alone); past the claim, the claim is
not live; past the volume, the volume is not live, because nobody but this one worker makes either.  `JInv` is `IInv /\ LettingGo`.  One
lemma per kind of action shows that it preserves `LettingGo` and maps to a step of the lifecycle or a stutter.  `NoOrphans` then needs no
invariant of the controller: it is `NothingStray`, an inductive invariant of the lifecycle itself, read through the mapping.

*Phase Ready.*  `OrderlyCluster` says that caches keep up, users are patient, nobody else deletes PVs and PVCs, and no two
SharedVolumes share a PV; the constants of the run `informed` satisfy it.  The lifecycle then keeps
what it has given: nothing of a SharedVolume that nobody deleted is on its way out (`NothingWithdrawn`), so what is live stays so
until somebody deletes the SharedVolume (`GuardedKeeps`).  The controller adds `BackedSoFar`: past `EnsurePV` the PV is there, past
`EnsurePVC` the PVC too, because a good answer of `Ensure` from a current cache means that the object exists; and only `MarkReady`,
which comes after both, makes a SharedVolume Ready (`Readiness`).

*Nothing is forgotten.*  What `RestIsRight` needs of the state between two rests is `NothingForgotten`, of each SharedVolume: if nothing about it
is announced (no request in the queue, no event on its way that the predicate and the mapper turn into one), then either the worker has it in hand
and what it found is still so (`Underway`: its copy is the stored SharedVolume, the steps behind it have left their mark), or it is right.  A lost
reply, a conflict or an old read makes no exception: each of them comes with a requeue or with an event that is still to come.  That an
event of a PV or PVC finds its SharedVolume is `EventsFindOwner`: owner labels and spec of every version, and of what the maps hold, are the
operator's own; at rest they name it (`Reachable`).  If users may take the watch label off, `Ensure` must also notice and be able to put it back; `LabelsNoticed` says that the
remembered version is not newer than the object, equal to it only if the object has the label, and agrees with it in
what is immutable.  The assumptions: no two SharedVolumes share a PV (`OwnVolumes`); and users leave the labels alone (`LabelsStay`, as in the runs
`lagging` and `informed`, with caches of any age and any faults) or requests are answered and caches keep up (`Prompt`, as in `healing`).
`failed_update` and `shared_name` show what happens otherwise.  `RememberedCare` is one part of `RestInv`.

*No ids but those asked for.*  `AskedInv` ties four copies of the ids together: what the SharedVolume says, what its PV says, what the
PV's Ensurable would write, and what the worker read, each in what users asked for since this incarnation was created.  `Careful` is what makes
that inductive: caches that keep up (a worker's copy with the stored uid is one of this incarnation), patient users (an old PV never meets a
new incarnation), a PV of its own for each SharedVolume (`OwnVolumes`), and nobody making a PV unreadable.  A PV in the old style is allowed: what is read from
it is what was written (`RoundTrip`).  The run `informed` satisfies all of it; `reused_name` drops only the patience and
`shared_name` only `OwnVolumes`.  Ids that a user gave in an edit count as asked, in this incarnation.

*The statics.*  `StaticsInv` adds to the types that the Ensurable of the static at hand has an owner, from `SetOwner` in `Reconcile` on:
so what `EnsureStatic` creates or updates has one.  `DeleteSCC` only removes.

`RestInv` of `StaticsInvariant` has four parts.  `CRDInv`: a CRD that is in place is the one that was there when the controllers started, its cache holds
nothing else, and no `deleteSCC` is under way; a deleted or replaced CRD never comes back (uids grow).  `PlainInv`: what a static or an Ensurable can say
at all: contents that users can neither change nor hide are the golden ones, an owner is some CRD there has been, and a label is missing only if a user meddled.
`BootstrapInv`: each turn of `EnsureStatics` leaves the static as defined and remembered, or an error that ends the process; this is where `QUIET` is
needed.  `MindedInv`: with the CRD in place each static is requested, or will be by an event, or has an owner (and is as defined, if Updates work).
`Tracked` (an object that changed has another version than the remembered one) is why `Ensure` notices; `LossHeard` (on the way from a version with an owner to
one without there is an event that passes) is why an `Ensure` that looks at an old version and finds it good does no harm.

*Model-checked only.*  All liveness: neither fairness nor ENABLED is within the prover's reach.  Every safety and action property that a passing run
checks is a theorem, under the assumptions its row names.

## 5. Not modelled

- Loading the definitions and discovering the namespace (`statics.go:60-93, 137-184`): they give constants or panic before anything runs.
- Flags, schemes, metrics (`main.go`): set-up calls.  A failure is an exit.
- Two operators at once: `leader.Become` is leader-for-life, so the old process is gone first.
- Whether a SharedVolume that always fails delays its neighbours: a matter of rate limits and back-off, which are not modelled.
- Generated code, constants, manifests, tests: no behaviour of their own.
- The phase Deleting of a SharedVolume that only a foreign finalizer holds: if writing that status fails, nothing
  retries it.  It is informational, and `RestIsRight` does not ask for it.
- What a Conflict on a static between the Get and the Update of `EnsureStatics` comes from: it is a fault.
