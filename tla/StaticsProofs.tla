----------------------------- MODULE StaticsProofs -----------------------------
(***************************************************************************)
(* Of the statics: type correctness, that a running operator disowns none  *)
(* of them, and that they are right at rest.                               *)
(***************************************************************************)
EXTENDS StaticsInvariant, EnsurableProofs

LEMMA Distinct ==
    /\ None \notin CRD /\ None \notin Static /\ None \notin CRDUids
    /\ \A t \in Statics : t # None
BY AbsenceAssumption DEF CRDUids

\* What is used of the bounds.
Budget == [meddles: Nat, faults: Nat, crashes: Nat]

LEMMA FaultType ==
    ASSUME TypeOK, Fault \/ UNCHANGED spent
    PROVE  spent' \in Budget /\ spent'.meddles = spent.meddles
BY DEF TypeOK, Fault, Budget

LEMMA NewEnsurablesType == staticResources \in [Statics -> StaticEnsurable]
<1>. SUFFICES ASSUME NEW t \in Statics
              PROVE  NewEnsurable(t, 0, defs[t], None) \in StaticEnsurable
  BY DEF staticResources
<1>1. defs[t] \in Contents
  BY DEF defs, Contents
<1>2. [spec |-> defs[t], owner |-> None, care |-> FALSE, rv |-> NoVersion, term |-> FALSE]
        \in Resources(Contents, CRDUids)
  BY <1>1 DEF Resources, NoVersion
<1>. QED BY <1>2 DEF NewEnsurable, StaticEnsurable, Ensurables

-----------------------------------------------------------------------------
(* Writes. *)

LEMMA SettledType ==
    ASSUME NEW obj \in Static \cup {None}
    PROVE  Settled(obj) \in Static \cup {None}
BY DEF Settled

LEMMA PutType ==
    ASSUME TypeOK, NEW t \in Statics, NEW obj \in Static \cup {None}
    PROVE  /\ Put(t, obj) \in [Statics -> Versions(Static)]
           /\ Stored(Put(t, obj)[t]) = Settled(obj)
           /\ \A u \in Statics \ {t} : Put(t, obj)[u] = objects[u]
<1>1. Settled(obj) \in Static \cup {None}
  BY SettledType
<1>2. objects \in [Statics -> Versions(Static)]
  BY DEF TypeOK
<1>3. CASE Running
  BY <1>1, <1>2, <1>3, WriteFacts DEF Put
<1>4. CASE ~Running
  <2>. DEFINE made == Settled(obj)
  <2>. HIDE DEF made
  <2>1. <<made>> \in Versions(Static) /\ Stored(<<made>>) = made
    BY <1>1 DEF Versions, Stored, made
  <2>2. Put(t, obj) = [objects EXCEPT ![t] = <<made>>]
    BY <1>4 DEF Put, made
  <2>. QED BY <1>2, <2>1, <2>2 DEF made
<1>. QED BY <1>3, <1>4

LEMMA StoredType ==
    ASSUME TypeOK, NEW t \in Statics
    PROVE  /\ objects[t] \in Versions(Static)
           /\ Stored(objects[t]) \in Static \cup {None}
           /\ Cached(objects[t]) \in Static \cup {None}
BY VersionsFacts DEF TypeOK

LEMMA EnsurableType ==
    ASSUME TypeOK, NEW t \in Statics
    PROVE  ensurables[t] \in Ensurables(Statics, {0}, Contents, CRDUids)
BY DEF TypeOK, StaticEnsurable

LEMMA EnsureOutcome ==
    ASSUME TypeOK, NEW t \in Statics, NEW found \in Static \cup {None},
           NEW o \in Ensure(ensurables[t], found, Stored(objects[t]))
    PROVE  o.server \in Static \cup {None} /\ o.e \in StaticEnsurable
<1>1. CompletesTo(Statics, Contents)
  BY DEF CompletesTo, Contents
<1>2. OutcomeOK(o, ensurables[t], Statics, {0}, Contents, CRDUids)
  BY <1>1, StoredType, EnsurableType, EnsureType, Distinct DEF Static
<1>. QED BY <1>2 DEF OutcomeOK, Static, StaticEnsurable

LEMMA DeleteOutcome ==
    ASSUME TypeOK, NEW t \in Statics, NEW found \in Static \cup {None},
           NEW o \in Delete(ensurables[t], found, Stored(objects[t]))
    PROVE  o.server \in Static \cup {None} /\ o.e \in StaticEnsurable
<1>1. OutcomeOK(o, ensurables[t], Statics, {0}, Contents, CRDUids)
  BY StoredType, EnsurableType, DeleteType, Distinct DEF Static
<1>. QED BY <1>1 DEF OutcomeOK, Static, StaticEnsurable

LEMMA MeddledType ==
    ASSUME NEW t \in Statics, NEW kind \in Kinds, NEW obj \in Static, obj = Stored(objects[t])
    PROVE  Meddled(t, kind) \in Static
<1>. DEFINE made == CASE kind = "delete"  -> [obj EXCEPT !.term = TRUE]
                      [] kind = "unlabel" -> [obj EXCEPT !.care = FALSE]
                      [] kind = "disown"  -> [obj EXCEPT !.owner = None]
                      [] kind = "change"  ->
                            IF Changeable(t) THEN [obj EXCEPT !.spec = "changed"] ELSE obj
<1>1. made \in Static
  <2>1. /\ [obj EXCEPT !.term = TRUE] \in Static
        /\ [obj EXCEPT !.care = FALSE] \in Static
        /\ [obj EXCEPT !.owner = None] \in Static
        /\ [obj EXCEPT !.spec = "changed"] \in Static
    BY DEF Static, Resources, Contents
  <2>2. CASE kind = "delete"
    BY <2>1, <2>2
  <2>3. CASE kind = "unlabel"
    BY <2>1, <2>3
  <2>4. CASE kind = "disown"
    BY <2>1, <2>4
  <2>5. CASE kind = "change"
    BY <2>1, <2>5
  <2>. QED BY <2>2, <2>3, <2>4, <2>5 DEF Kinds
<1>2. Meddled(t, kind) = IF made = obj THEN obj ELSE [made EXCEPT !.rv = made.rv + 1]
  BY DEF Meddled
<1>. HIDE DEF made
<1>3. [made EXCEPT !.rv = made.rv + 1] \in Static
  BY <1>1 DEF Static, Resources
<1>. QED BY <1>2, <1>3

-----------------------------------------------------------------------------
(* Type correctness. *)

ProcessTypeOK ==
    /\ pc \in {"bootstrap", "idle", "ensure", "deleteSCC", "gone"}
    /\ req \in Statics \cup {None} /\ (pc \in {"ensure", "deleteSCC"} <=> req # None)
    /\ todo \in SUBSET Statics /\ failed \in BOOLEAN /\ born \in Nat
    /\ ensurables \in [Statics -> StaticEnsurable]

LEMMA TypeParts ==
    TypeOK <=> /\ crd \in Versions(CRD)
               /\ objects \in [Statics -> Versions(Static)]
               /\ ProcessTypeOK
               /\ queue \in SUBSET Statics
               /\ uids \in Nat
               /\ spent \in Budget
BY DEF TypeOK, ProcessTypeOK, Budget

LEMMA TypePartsNext ==
    TypeOK' <=> /\ crd' \in Versions(CRD)
                /\ objects' \in [Statics -> Versions(Static)]
                /\ ProcessTypeOK'
                /\ queue' \in SUBSET Statics
                /\ uids' \in Nat
                /\ spent' \in Budget
BY DEF TypeOK, ProcessTypeOK, Budget

LEMMA FrameType == ASSUME ProcessTypeOK, UNCHANGED processVars PROVE ProcessTypeOK'
BY DEF ProcessTypeOK, processVars

LEMMA CRDType ==
    ASSUME TypeOK
    PROVE  /\ Stored(crd) \in CRD \cup {None} /\ Cached(crd) \in CRD \cup {None}
           /\ <<Stored(crd)>> \in Versions(CRD)
           /\ uidOfCRD \in Nat
           /\ \A new \in CRD \cup {None} : ChangeCRD(new) => crd' \in Versions(CRD)
<1>1. Stored(crd) \in CRD \cup {None} /\ Cached(crd) \in CRD \cup {None}
  BY VersionsFacts DEF TypeOK
<1>2. <<Stored(crd)>> \in Versions(CRD)
  BY RelistFacts DEF TypeOK
<1>3. uidOfCRD \in Nat
  BY <1>1 DEF uidOfCRD, CRD, CRDUids
<1>4. ASSUME NEW new \in CRD \cup {None}, ChangeCRD(new)
      PROVE  crd' \in Versions(CRD)
  <2>1. Append(crd, new) \in Versions(CRD)
    BY AppendFacts DEF TypeOK
  <2>2. <<new>> \in Versions(CRD)
    BY DEF Versions
  <2>. QED BY <1>4, <2>1, <2>2 DEF ChangeCRD
<1>. QED BY <1>1, <1>2, <1>3, <1>4

LEMMA AdministratorsType ==
    ASSUME TypeOK, CreateCRD \/ DeleteCRD \/ CRDGone \/ SyncCRD
    PROVE  TypeOK'
<1>1. crd' \in Versions(CRD) /\ uids' \in Nat
  <2>1. CASE CreateCRD
    <3>1. uids' \in Nat /\ uids' \in CRDUids
      BY <2>1 DEF CreateCRD, TypeOK, CRDUids
    <3>2. [uid |-> uids', deleting |-> FALSE] \in CRD
      BY <3>1 DEF CRD
    <3>. QED BY <2>1, <3>1, <3>2, CRDType DEF CreateCRD
  <2>2. CASE DeleteCRD
    <3>1. [Stored(crd) EXCEPT !.deleting = TRUE] \in CRD
      BY <2>2, CRDType DEF DeleteCRD, There, CRD
    <3>. QED BY <2>2, <3>1, CRDType DEF DeleteCRD, TypeOK
  <2>3. CASE CRDGone
    BY <2>3, CRDType DEF CRDGone, TypeOK
  <2>4. CASE SyncCRD
    BY <2>4, TailFacts DEF SyncCRD, TypeOK
  <2>. QED BY <2>1, <2>2, <2>3, <2>4
<1>2. UNCHANGED <<objects, processVars, queue, spent>>
  BY DEF CreateCRD, DeleteCRD, CRDGone, SyncCRD
<1>. QED BY <1>1, <1>2, FrameType, TypeParts, TypePartsNext DEF Budget

LEMMA CollectType ==
    ASSUME TypeOK, NEW t \in Statics, Collect(t)
    PROVE  TypeOK'
<1>1. objects' \in [Statics -> Versions(Static)]
  BY PutType DEF Collect
<1>. QED BY <1>1, FrameType, TypeParts, TypePartsNext DEF Collect, Budget

LEMMA MeddleType ==
    ASSUME TypeOK, NEW t \in Statics, Meddle(t)
    PROVE  TypeOK' /\ spent'.meddles # spent.meddles
<1>1. PICK kind \in Meddling : objects' = Put(t, Meddled(t, kind))
  BY DEF Meddle
<1>2. Meddled(t, kind) \in Static
  <2>1. kind \in Kinds
    BY BoundsAssumption
  <2>2. Stored(objects[t]) \in Static
    BY StoredType DEF Meddle
  <2>. QED BY <2>1, <2>2, MeddledType
<1>3. objects' \in [Statics -> Versions(Static)]
  BY <1>1, <1>2, PutType
<1>4. spent' \in Budget /\ spent'.meddles # spent.meddles
  BY DEF Meddle, TypeOK, Budget
<1>. QED BY <1>3, <1>4, FrameType, TypeParts, TypePartsNext DEF Meddle

LEMMA SyncType ==
    ASSUME TypeOK, NEW t \in Statics, Sync(t)
    PROVE  TypeOK'
<1>1. objects' \in [Statics -> Versions(Static)]
  BY DeliverType DEF Sync, TypeOK
<1>2. queue' \in SUBSET Statics
  BY DEF Sync, TypeOK
<1>. QED BY <1>1, <1>2, FrameType, TypeParts, TypePartsNext DEF Sync, Budget

LEMMA BootstrapType ==
    ASSUME TypeOK, NEW t \in Statics, Bootstrap(t)
    PROVE  TypeOK'
<1>1. PICK o \in Ensure(ensurables[t], Stored(objects[t]), Stored(objects[t])) :
        /\ IF o.fault THEN Fault ELSE UNCHANGED spent
        /\ objects' = Put(t, o.server)
        /\ ensurables' = [ensurables EXCEPT ![t] = o.e]
        /\ failed' = (failed \/ ~o.ok)
  BY DEF Bootstrap
<1>2. o.server \in Static \cup {None} /\ o.e \in StaticEnsurable
  BY StoredType, EnsureOutcome
<1>3. objects' \in [Statics -> Versions(Static)]
  BY <1>1, <1>2, PutType
<1>4. ensurables' \in [Statics -> StaticEnsurable]
  BY <1>1, <1>2 DEF TypeOK
<1>5. spent' \in Budget
  BY <1>1, FaultType
<1>6. todo' \in SUBSET Statics /\ failed' \in BOOLEAN
  BY <1>1 DEF Bootstrap, TypeOK
<1>7. ProcessTypeOK'
  BY <1>4, <1>6 DEF Bootstrap, TypeOK, ProcessTypeOK
<1>. QED BY <1>3, <1>5, <1>7, TypeParts, TypePartsNext DEF Bootstrap

LEMMA StartType ==
    ASSUME TypeOK, Start
    PROVE  TypeOK'
<1>1. ProcessTypeOK'
  BY CRDType DEF Start, TypeOK, ProcessTypeOK
<1>2. queue' \in SUBSET Statics
  BY DEF Start
<1>. QED BY <1>1, <1>2, TypeParts, TypePartsNext DEF Start, worldVars, Budget

LEMMA LaunchType ==
    ASSUME TypeOK, Exit \/ Restart \/ Uninstall
    PROVE  TypeOK' /\ objects' = Relisted(objects)
<1>1. objects' = Relisted(objects) /\ objects' \in [Statics -> Versions(Static)]
  BY RelistType DEF Exit, Restart, Uninstall, Launch, TypeOK
<1>2. crd' \in Versions(CRD)
  BY CRDType DEF Exit, Restart, Uninstall, Launch
<1>3. ProcessTypeOK'
  <2>1. /\ pc' \in {"bootstrap", "gone"} /\ req' = None
        /\ todo' \in SUBSET Statics /\ failed' = FALSE /\ born' = 0
        /\ ensurables' = staticResources
    BY DEF Exit, Restart, Uninstall, Launch
  <2>. QED BY <2>1, NewEnsurablesType DEF ProcessTypeOK
<1>4. queue' \in SUBSET Statics /\ uids' \in Nat
  BY DEF Exit, Restart, Uninstall, Launch, TypeOK
<1>5. spent' \in Budget
  BY DEF Exit, Restart, Uninstall, TypeOK, Budget
<1>. QED BY <1>1, <1>2, <1>3, <1>4, <1>5, TypeParts, TypePartsNext

LEMMA ReconcileType ==
    ASSUME TypeOK, NEW t \in Statics, Reconcile(t)
    PROVE  /\ TypeOK'
           /\ objects' = objects
           /\ pc' = "ensure" =>
                /\ req' = t
                /\ ensurables'[t].owner \in CRDUids
<1>. DEFINE owned == SetOwner(ensurables[t], Cached(crd).uid)
<1>1. Seen => owned \in StaticEnsurable /\ owned.owner \in CRDUids
  BY CRDType, EnsurableType DEF Seen, SetOwner, CRD, StaticEnsurable, Ensurables
<1>2. CASE ~Seen /\ GoOn(t, "deleteSCC") /\ UNCHANGED <<ensurables, spent>>
  <2>1. ProcessTypeOK'
    BY <1>2, Distinct DEF Reconcile, GoOn, TypeOK, ProcessTypeOK
  <2>2. queue' \in SUBSET Statics
    BY <1>2 DEF GoOn, TypeOK
  <2>. QED BY <1>2, <2>1, <2>2, TypeParts, TypePartsNext DEF Reconcile, GoOn, worldVars, Budget
<1>3. CASE Seen /\ GoOn(t, "ensure") /\ ensurables' = [ensurables EXCEPT ![t] = owned]
           /\ UNCHANGED spent
  <2>. HIDE DEF owned
  <2>1. ensurables' \in [Statics -> StaticEnsurable] /\ ensurables'[t].owner \in CRDUids
    BY <1>1, <1>3 DEF TypeOK
  <2>2. ProcessTypeOK'
    BY <1>3, <2>1, Distinct DEF Reconcile, GoOn, TypeOK, ProcessTypeOK
  <2>3. queue' \in SUBSET Statics
    BY <1>3 DEF GoOn, TypeOK
  <2>. QED BY <1>3, <2>1, <2>2, <2>3, TypeParts, TypePartsNext DEF Reconcile, GoOn, worldVars, Budget
<1>4. CASE Fault /\ UNCHANGED <<pc, req, queue, ensurables>>
  <2>1. spent' \in Budget
    BY <1>4, FaultType
  <2>2. ProcessTypeOK' /\ pc' # "ensure"
    BY <1>4 DEF Reconcile, TypeOK, ProcessTypeOK
  <2>. QED BY <1>4, <2>1, <2>2, TypeParts, TypePartsNext DEF Reconcile, worldVars
<1>. QED BY <1>2, <1>3, <1>4 DEF Reconcile

LEMMA DoneType ==
    ASSUME TypeOK, req # None, NEW requeue, Done(requeue),
           ensurables' \in [Statics -> StaticEnsurable], UNCHANGED <<todo, failed, born>>
    PROVE  ProcessTypeOK' /\ queue' \in SUBSET Statics
BY DEF Done, TypeOK, ProcessTypeOK

LEMMA EnsureStaticType ==
    ASSUME TypeOK, EnsureStatic, pc = "ensure" => ensurables[req].owner # None
    PROVE  /\ TypeOK'
           /\ pc' = "idle"
           /\ \A t \in Statics : Stored(objects[t]') = None \/ Stored(objects[t]').owner # None
                                 \/ Stored(objects[t]') = Stored(objects[t])
<1>1. req \in Statics /\ req # None /\ ensurables[req].owner # None
  BY DEF EnsureStatic, TypeOK
<1>2. PICK o \in Ensure(ensurables[req], Cached(objects[req]), Stored(objects[req])) :
        /\ IF o.fault THEN Fault ELSE UNCHANGED spent
        /\ objects' = Put(req, o.server)
        /\ ensurables' = [ensurables EXCEPT ![req] = o.e]
        /\ Done(~o.ok)
  BY DEF EnsureStatic
<1>3. o.server \in Static \cup {None} /\ o.e \in StaticEnsurable
  BY <1>1, StoredType, EnsureOutcome
<1>4. /\ objects' \in [Statics -> Versions(Static)]
      /\ Stored(objects'[req]) = Settled(o.server)
      /\ \A t \in Statics \ {req} : objects'[t] = objects[t]
  BY <1>1, <1>2, <1>3, PutType
<1>5. ensurables' \in [Statics -> StaticEnsurable]
  BY <1>2, <1>3 DEF TypeOK
<1>6. spent' \in Budget
  BY <1>2, FaultType
<1>7. ProcessTypeOK' /\ queue' \in SUBSET Statics
  BY <1>1, <1>2, <1>5, DoneType DEF EnsureStatic
<1>8. TypeOK'
  BY <1>4, <1>6, <1>7, TypeParts, TypePartsNext DEF EnsureStatic
<1>9. o.server = Stored(objects[req]) \/ o.server.owner # None
  <2>1. CompletesTo(Statics, Contents)
    BY DEF CompletesTo, Contents
  <2>. QED BY <1>1, <2>1, StoredType, EnsurableType, EnsureOwns, Distinct DEF Static
<1>10. \A t \in Statics : Stored(objects[t]') = None \/ Stored(objects[t]').owner # None
                          \/ Stored(objects[t]') = Stored(objects[t])
  BY <1>4, <1>9 DEF Settled
<1>. QED BY <1>2, <1>8, <1>10 DEF Done

LEMMA DeleteSCCType ==
    ASSUME TypeOK, DeleteSCC
    PROVE  /\ TypeOK'
           /\ pc' = "idle"
           /\ \A t \in Statics : Stored(objects[t]') = None
                                 \/ Stored(objects[t]') = Stored(objects[t])
<1>1. SCC \in Statics
  BY StaticsAssumption
<1>2. PICK o \in Delete(ensurables[SCC], Cached(objects[SCC]), Stored(objects[SCC])) :
        /\ IF o.fault THEN Fault ELSE UNCHANGED spent
        /\ objects' = Put(SCC, o.server)
        /\ ensurables' = [ensurables EXCEPT ![SCC] = o.e]
  BY DEF DeleteSCC
<1>3. o.server \in Static \cup {None} /\ o.e \in StaticEnsurable
  BY <1>1, StoredType, DeleteOutcome
<1>4. /\ objects' \in [Statics -> Versions(Static)]
      /\ Stored(objects'[SCC]) = Settled(o.server)
      /\ \A t \in Statics \ {SCC} : objects'[t] = objects[t]
  BY <1>1, <1>2, <1>3, PutType
<1>5. ensurables' \in [Statics -> StaticEnsurable]
  BY <1>2, <1>3 DEF TypeOK
<1>6. spent' \in Budget
  BY <1>2, FaultType
<1>7. ProcessTypeOK' /\ queue' \in SUBSET Statics
  BY <1>5, DoneType DEF DeleteSCC, TypeOK
<1>8. TypeOK'
  BY <1>4, <1>6, <1>7, TypeParts, TypePartsNext DEF DeleteSCC
<1>9. Settled(o.server) \in {None, Stored(objects[SCC])}
  <2>1. o.server \in {Stored(objects[SCC]), Terminating(Stored(objects[SCC]))}
    BY <1>2 DEF Delete, Outcome
  <2>2. Settled(Terminating(Stored(objects[SCC]))) = None
    <3>1. Stored(objects[SCC]) \in Static \cup {None}
      BY <1>1, StoredType
    <3>2. CASE Stored(objects[SCC]) = None
      BY <3>2 DEF Terminating, Settled
    <3>3. CASE Stored(objects[SCC]) # None
      <4>1. Terminating(Stored(objects[SCC])).term
        BY <3>1, <3>3 DEF Terminating, Static, Resources
      <4>. QED BY <4>1 DEF Settled
    <3>. QED BY <3>2, <3>3
  <2>. QED BY <2>1, <2>2 DEF Settled
<1>. QED BY <1>4, <1>8, <1>9 DEF DeleteSCC, Done

-----------------------------------------------------------------------------
(* The invariant: whoever gets as far as Ensure has set the owner. *)

OwnerSet == pc = "ensure" => ensurables[req].owner # None

StaticsInv == TypeOK /\ OwnerSet

Keeps == \A t \in Statics : Stored(objects[t]') = None \/ Stored(objects[t]').owner # None
                            \/ Stored(objects[t]') = Stored(objects[t])

LEMMA StaticsInit == Init => StaticsInv
<1>. SUFFICES ASSUME Init PROVE StaticsInv
  OBVIOUS
<1>1. crd \in Versions(CRD)
  BY DEF Init, Versions, CRD, CRDUids
<1>2. objects \in [Statics -> Versions(Static)]
  BY DEF Init, Versions
<1>3. ProcessTypeOK
  BY NewEnsurablesType DEF Init, ProcessTypeOK
<1>4. TypeOK
  BY <1>1, <1>2, <1>3, TypeParts DEF Init, Budget
<1>. QED BY <1>4 DEF Init, StaticsInv, OwnerSet

LEMMA StaticsStep ==
    StaticsInv /\ [Next]_vars =>
        /\ StaticsInv'
        /\ Running /\ spent'.meddles = spent.meddles => Keeps
<1>. SUFFICES ASSUME TypeOK, OwnerSet, [Next]_vars
              PROVE  /\ TypeOK' /\ OwnerSet'
                     /\ Running /\ spent'.meddles = spent.meddles => Keeps
  BY DEF StaticsInv
<1>1. CASE CreateCRD \/ DeleteCRD \/ CRDGone \/ SyncCRD
  <2>1. TypeOK'
    BY <1>1, AdministratorsType
  <2>. QED BY <1>1, <2>1 DEF CreateCRD, DeleteCRD, CRDGone, SyncCRD, processVars, OwnerSet, Keeps
<1>2. ASSUME NEW t \in Statics, Collect(t)
      PROVE  TypeOK' /\ OwnerSet' /\ Keeps
  <2>1. TypeOK'
    BY <1>2, CollectType
  <2>2. /\ Stored(objects'[t]) = Settled(None)
        /\ \A u \in Statics \ {t} : objects'[u] = objects[u]
    BY <1>2, PutType DEF Collect
  <2>. QED BY <1>2, <2>1, <2>2 DEF Collect, processVars, OwnerSet, Keeps, Settled
<1>3. ASSUME NEW t \in Statics, Meddle(t)
      PROVE  TypeOK' /\ OwnerSet' /\ spent'.meddles # spent.meddles
  BY <1>3, MeddleType DEF Meddle, processVars, OwnerSet
<1>4. ASSUME NEW t \in Statics, Sync(t)
      PROVE  TypeOK' /\ OwnerSet' /\ Keeps
  <2>1. TypeOK'
    BY <1>4, SyncType
  <2>2. Stored(Tail(objects[t])) = Stored(objects[t])
    BY <1>4, StoredType, TailFacts DEF Sync
  <2>3. \A u \in Statics : Stored(objects'[u]) = Stored(objects[u])
    BY <1>4, <2>2 DEF Sync, Deliver, TypeOK
  <2>. QED BY <1>4, <2>1, <2>3 DEF Sync, processVars, OwnerSet, Keeps
<1>5. ASSUME NEW t \in Statics, Bootstrap(t)
      PROVE  TypeOK' /\ OwnerSet' /\ ~Running
  BY <1>5, BootstrapType DEF Bootstrap, OwnerSet, Running
<1>6. CASE Start
  BY <1>6, StartType DEF Start, OwnerSet, Running
<1>7. CASE Exit \/ Restart \/ Uninstall
  <2>1. TypeOK' /\ objects' = Relisted(objects)
    BY <1>7, LaunchType
  <2>2. ASSUME NEW t \in Statics
        PROVE  Stored(objects'[t]) = Stored(objects[t])
    <3>1. objects'[t] = <<Stored(objects[t])>>
      BY <2>1 DEF Relisted, TypeOK
    <3>2. objects[t] \in Versions(Static)
      BY StoredType
    <3>. QED BY <3>1, <3>2, RelistFacts
  <2>3. pc' # "ensure"
    BY <1>7 DEF Exit, Restart, Uninstall, Launch
  <2>. QED BY <2>1, <2>2, <2>3 DEF OwnerSet, Keeps
<1>8. ASSUME NEW t \in Statics, Reconcile(t)
      PROVE  TypeOK' /\ OwnerSet' /\ Keeps
  BY <1>8, ReconcileType, Distinct DEF OwnerSet, Keeps
<1>9. CASE EnsureStatic
  BY <1>9, EnsureStaticType DEF OwnerSet, Keeps
<1>10. CASE DeleteSCC
  BY <1>10, DeleteSCCType DEF OwnerSet, Keeps
<1>11. CASE UNCHANGED vars
  <2>1. UNCHANGED <<crd, objects, processVars, queue, uids, spent>>
    BY <1>11 DEF vars, worldVars
  <2>2. TypeOK'
    BY <2>1, FrameType, TypeParts, TypePartsNext DEF Budget
  <2>. QED BY <2>1, <2>2 DEF processVars, OwnerSet, Keeps
<1>. QED
  BY <1>1, <1>2, <1>3, <1>4, <1>5, <1>6, <1>7, <1>8, <1>9, <1>10, <1>11 DEF Next, Work

\* Every variable keeps its type, whatever administrators, users, the garbage collector,
\* faults and crashes do to the operator.
THEOREM StaticsTypeCorrect == Spec => []TypeOK
BY StaticsInit, StaticsStep, PTL DEF Spec, StaticsInv

\* EnsureStatics apart, the operator neither makes a static without an owner nor takes
\* one's owner away, for any set of statics and any lag of any cache (Reconcile 124-126).
THEOREM RunningNeverDisowns == Spec => OnlyStartDisowns
<1>. DEFINE A == Running /\ spent'.meddles = spent.meddles =>
                    \A t \in Statics : (Exists(t) => Owned(t)) /\ Exists(t)' => Owned(t)'
<1>1. StaticsInv /\ [Next]_vars => A
  <2>. SUFFICES ASSUME StaticsInv, [Next]_vars, Running, spent'.meddles = spent.meddles,
                       NEW t \in Statics, Exists(t) => Owned(t), Exists(t)'
                PROVE  Owned(t)'
    OBVIOUS
  <2>. QED BY StaticsStep DEF Keeps, Exists, Owned
<1>2. StaticsInv /\ [Next]_vars => [A]_vars
  BY <1>1
<1>. QED BY <1>2, StaticsInit, StaticsStep, PTL DEF Spec, OnlyStartDisowns

-----------------------------------------------------------------------------
(* The CRD that was there when the controllers started. *)

LEMMA CRDChanged ==
    ASSUME crd \in Versions(CRD), NEW new \in CRD \cup {None}, ChangeCRD(new)
    PROVE  /\ Stored(crd') = new
           /\ ~Running => Len(crd') = 1
           /\ \A i \in 1..Len(crd') : crd'[i] = new \/ \E j \in 1..Len(crd) : crd'[i] = crd[j]
<1>1. CASE Running
  <2>1. crd' = Append(crd, new)
    BY <1>1 DEF ChangeCRD
  <2>2. /\ Len(crd') = Len(crd) + 1 /\ Len(crd) \in Nat
        /\ \A i \in 1..Len(crd) : crd'[i] = crd[i]
        /\ crd'[Len(crd) + 1] = new /\ Stored(crd') = new
    BY <2>1, AppendFacts, VersionsFacts
  <2>3. \A i \in 1..Len(crd') : i \in 1..Len(crd) \/ i = Len(crd) + 1
    BY <2>2
  <2>. QED BY <1>1, <2>2, <2>3
<1>2. CASE ~Running
  <2>1. crd' = <<new>>
    BY <1>2 DEF ChangeCRD
  <2>2. Len(crd') = 1 /\ crd'[1] = new
    BY <2>1
  <2>3. \A i \in 1..1 : i = 1
    OBVIOUS
  <2>. QED BY <2>2, <2>3 DEF Stored
<1>. QED BY <1>1, <1>2

LEMMA CRDEnds ==
    ASSUME TypeOK, CRDInv
    PROVE  /\ 1 \in 1..Len(crd) /\ Len(crd) \in 1..Len(crd)
           /\ Stored(crd) # None => Stored(crd).uid \in 1..uids
           /\ uidOfCRD \in 0..uids
<1>1. Len(crd) \in Nat /\ Len(crd) >= 1
  BY VersionsFacts DEF TypeOK
<1>2. 1 \in 1..Len(crd) /\ Len(crd) \in 1..Len(crd)
  BY <1>1
<1>3. Stored(crd) # None => Stored(crd).uid \in 1..uids
  BY <1>2 DEF CRDInv, Stored
<1>4. uids \in Nat
  BY DEF TypeOK
<1>. QED BY <1>2, <1>3, <1>4 DEF uidOfCRD

\* The CRD is in place only if it was, or the controllers start.
CRDKept == InPlace' => Start \/ (InPlace /\ UNCHANGED <<crd, born, uids>>)

LEMMA AdministratorsKeepCRD ==
    ASSUME TypeOK, CRDInv, CreateCRD \/ DeleteCRD \/ CRDGone \/ SyncCRD
    PROVE  CRDInv' /\ ~InPlace'
<1>1. /\ UNCHANGED processVars /\ pc' = pc /\ born' = born /\ Running' = Running
      /\ crd \in Versions(CRD) /\ uids \in Nat /\ born \in Nat /\ born <= uids
  BY DEF CreateCRD, DeleteCRD, CRDGone, SyncCRD, processVars, Running, TypeOK, CRDInv
<1>2. CASE SyncCRD
  <2>1. Len(crd) > 1 /\ crd' = Tail(crd) /\ uids' = uids
    BY <1>2 DEF SyncCRD
  <2>2. Stored(crd') = Stored(crd) /\ \A i \in 1..Len(crd') : i + 1 \in 1..Len(crd) /\ crd'[i] = crd[i + 1]
    BY <1>1, <2>1, TailFacts
  <2>3. Running /\ ~InPlace
    BY <2>1 DEF CRDInv
  <2>4. ~InPlace'
    BY <1>1, <2>2, <2>3 DEF InPlace, There, uidOfCRD
  <2>. QED BY <1>1, <2>1, <2>2, <2>3, <2>4 DEF CRDInv
<1>3. ASSUME NEW new \in CRD \cup {None}, ChangeCRD(new), uids' \in Nat, uids' >= uids,
             new # None => new.uid \in 1..uids' /\ (new.deleting \/ new.uid > uids)
      PROVE  CRDInv' /\ ~InPlace'
  <2>1. /\ Stored(crd') = new
        /\ ~Running => Len(crd') = 1
        /\ \A i \in 1..Len(crd') : crd'[i] = new \/ \E j \in 1..Len(crd) : crd'[i] = crd[j]
    BY <1>1, <1>3, CRDChanged
  <2>2. \A j \in 1..Len(crd) : crd[j] # None => crd[j].uid \in 1..uids'
    BY <1>1, <1>3 DEF CRDInv
  <2>3. ~InPlace'
    <3>1. ASSUME new # None, ~new.deleting
          PROVE  new.uid # born
      BY <1>1, <1>3, <3>1
    <3>. QED BY <1>1, <2>1, <3>1 DEF InPlace, There, uidOfCRD
  <2>4. \A i \in 1..Len(crd') : crd'[i] # None => crd'[i].uid \in 1..uids'
    BY <1>3, <2>1, <2>2
  <2>. QED BY <1>1, <1>3, <2>1, <2>3, <2>4 DEF CRDInv
<1>4. CASE CreateCRD
  <2>1. uids' = uids + 1 /\ ChangeCRD([uid |-> uids', deleting |-> FALSE])
    BY <1>4 DEF CreateCRD
  <2>2. uids' \in Nat /\ uids' >= uids /\ uids' \in 1..uids' /\ uids' > uids
    BY <1>1, <2>1
  <2>3. [uid |-> uids', deleting |-> FALSE] \in CRD
    BY <1>1, <2>1 DEF CRD, CRDUids
  <2>. QED BY <1>3, <2>1, <2>2, <2>3
<1>5. CASE DeleteCRD
  <2>. DEFINE new == [Stored(crd) EXCEPT !.deleting = TRUE]
  <2>1. Stored(crd) \in CRD /\ uids' = uids /\ ChangeCRD(new)
    BY <1>5, CRDType DEF DeleteCRD, There
  <2>2. new \in CRD /\ new.deleting /\ new.uid = Stored(crd).uid
    BY <2>1 DEF CRD
  <2>3. Stored(crd).uid \in 1..uids
    BY <2>1, CRDEnds, Distinct
  <2>. HIDE DEF new
  <2>. QED BY <1>1, <1>3, <2>1, <2>2, <2>3
<1>6. CASE CRDGone
  BY <1>1, <1>3, <1>6 DEF CRDGone
<1>. QED BY <1>2, <1>4, <1>5, <1>6

LEMMA CRDStep ==
    ASSUME TypeOK, CRDInv, [Next]_vars
    PROVE  CRDInv' /\ CRDKept
<1>1. CASE CreateCRD \/ DeleteCRD \/ CRDGone \/ SyncCRD
  BY <1>1, AdministratorsKeepCRD DEF CRDKept
<1>2. ASSUME UNCHANGED <<crd, born, uids>>, Running' = Running,
             pc' = "deleteSCC" => pc = "deleteSCC" \/ ~InPlace
      PROVE  CRDInv' /\ CRDKept
  BY <1>2 DEF CRDInv, CRDKept, InPlace, There, uidOfCRD
<1>3. CASE \E t \in Statics : Collect(t) \/ Meddle(t) \/ Sync(t) \/ Bootstrap(t)
  BY <1>2, <1>3 DEF Collect, Meddle, Sync, Bootstrap, processVars, Running
<1>4. ASSUME NEW t \in Statics, Reconcile(t)
      PROVE  CRDInv' /\ CRDKept
  <2>1. UNCHANGED <<crd, born, uids>> /\ Running /\ Running'
    BY <1>4 DEF Reconcile, GoOn, worldVars, Running
  <2>2. pc' = "deleteSCC" => ~Seen
    BY <1>4 DEF Reconcile, GoOn
  <2>3. InPlace => Seen
    BY DEF CRDInv, InPlace, There, Seen, Cached, Stored
  <2>. QED BY <1>2, <2>1, <2>2, <2>3
<1>5. CASE EnsureStatic \/ DeleteSCC
  BY <1>2, <1>5 DEF EnsureStatic, DeleteSCC, Done, Running
<1>6. CASE Start
  <2>1. crd' = crd /\ uids' = uids /\ born' = uidOfCRD /\ pc' = "idle" /\ ~Running
    BY <1>6 DEF Start, worldVars, Running
  <2>2. Len(crd) = 1 /\ uidOfCRD <= uids
    <3>1. uids \in Nat
      BY DEF TypeOK
    <3>. QED BY <2>1, <3>1, CRDEnds DEF CRDInv
  <2>. QED BY <1>6, <2>1, <2>2 DEF CRDInv, CRDKept
<1>7. CASE Exit \/ Restart \/ Uninstall
  <2>1. crd' = <<Stored(crd)>> /\ uids' = uids /\ born' = 0 /\ ~Running' /\ uids \in Nat
    BY <1>7 DEF Exit, Restart, Uninstall, Launch, Running, TypeOK
  <2>2. Len(crd') = 1 /\ crd'[1] = Stored(crd)
    BY <2>1
  <2>3. \A i \in 1..1 : i = 1
    OBVIOUS
  <2>. QED BY <2>1, <2>2, <2>3, CRDEnds DEF CRDInv, CRDKept, InPlace
<1>8. CASE UNCHANGED vars
  BY <1>2, <1>8 DEF vars, worldVars, processVars, Running
<1>. QED BY <1>1, <1>3, <1>4, <1>5, <1>6, <1>7, <1>8 DEF Next, Work

-----------------------------------------------------------------------------
(* What statics say, and what is remembered of them. *)

LEMMA PlainWidens ==
    ASSUME NEW t, NEW contents, NEW owners, NEW labels,
           NEW allOwners, NEW allLabels, owners \subseteq allOwners, labels \subseteq allLabels
    PROVE  /\ Versions(Plain(contents, owners, labels))
                \subseteq Versions(Plain(contents, allOwners, allLabels))
           /\ PlainEnsurables(t, contents, owners, labels)
                \subseteq PlainEnsurables(t, contents, allOwners, allLabels)
<1>. DEFINE few == Plain(contents, owners, labels)
            all == Plain(contents, allOwners, allLabels)
<1>1. few \subseteq all
  BY DEF Plain
<1>2. PlainEnsurables(t, contents, owners, labels)
            \subseteq PlainEnsurables(t, contents, allOwners, allLabels)
  BY <1>1 DEF PlainEnsurables
<1>. HIDE DEF few, all
<1>3. Seq(few \cup {None}) \subseteq Seq(all \cup {None})
  BY <1>1
<1>4. Versions(few) \subseteq Versions(all)
  BY <1>3 DEF Versions
<1>. QED BY <1>2, <1>4 DEF few, all

\* As uids are handed out and users meddle, less can be said.
LEMMA PlainGrows ==
    ASSUME TypeOK, PlainInv, NEW t \in Statics,
           uids' \in Nat, uids' >= uids, spent'.meddles = 0 => spent.meddles = 0
    PROVE  /\ objects[t] \in Versions(Plain(ContentsOf(t), Owners', Labels'))
           /\ ensurables[t] \in PlainEnsurables(t, ContentsOf(t), Owners', Labels')
<1>1. uids \in Nat
  BY DEF TypeOK
<1>2. Owners \subseteq Owners'
  BY <1>1 DEF Owners
<1>3. Labels \subseteq Labels'
  BY DEF Labels
<1>. QED BY <1>2, <1>3, PlainWidens DEF PlainInv

LEMMA PlainPut ==
    ASSUME TypeOK, NEW t \in Statics, NEW S, objects[t] \in Versions(S),
           NEW obj, Settled(obj) \in S \cup {None}
    PROVE  /\ Put(t, obj)[t] \in Versions(S)
           /\ Stored(Put(t, obj)[t]) = Settled(obj)
           /\ ~Running => Len(Put(t, obj)[t]) = 1
           /\ Running =>
                /\ Heard(objects[t]) => Heard(Put(t, obj)[t])
                /\ \/ Settled(obj) = Stored(objects[t]) /\ Put(t, obj) = objects
                   \/ /\ Put(t, obj)[t] = Append(objects[t], Settled(obj))
                      /\ passes(Stored(objects[t]), Settled(obj)) => Heard(Put(t, obj)[t])
           /\ \A u \in Statics \ {t} : Put(t, obj)[u] = objects[u]
<1>. DEFINE made == Settled(obj)
<1>0. made \in S \cup {None}
  OBVIOUS
<1>. HIDE DEF made
<1>1. objects \in [Statics -> Versions(Static)]
  BY DEF TypeOK
<1>2. CASE Running
  <2>1. Put(t, obj) = IF made = Stored(objects[t]) THEN objects
                      ELSE [objects EXCEPT ![t] = Append(objects[t], made)]
    BY <1>2 DEF Put, Write, made
  <2>2. /\ Append(objects[t], made) \in Versions(S)
        /\ Stored(Append(objects[t], made)) = made
        /\ Heard(objects[t]) => Heard(Append(objects[t], made))
        /\ passes(Stored(objects[t]), made) => Heard(Append(objects[t], made))
    BY <1>0, AppendFacts, HeardAppend
  <2>3. CASE made = Stored(objects[t])
    BY <1>2, <2>1, <2>3 DEF made
  <2>4. CASE made # Stored(objects[t])
    <3>1. Put(t, obj)[t] = Append(objects[t], made)
      BY <1>1, <2>1, <2>4
    <3>2. \A u \in Statics \ {t} : Put(t, obj)[u] = objects[u]
      BY <1>1, <2>1, <2>4
    <3>. QED BY <1>2, <2>2, <3>1, <3>2 DEF made
  <2>. QED BY <2>3, <2>4
<1>3. CASE ~Running
  <2>1. Put(t, obj) = [objects EXCEPT ![t] = <<made>>]
    BY <1>3 DEF Put, made
  <2>2. <<made>> \in Versions(S) /\ Stored(<<made>>) = made /\ Len(<<made>>) = 1
    BY <1>0 DEF Versions, Stored
  <2>. QED BY <1>1, <1>3, <2>1, <2>2 DEF made
<1>. QED BY <1>2, <1>3

\* What Create and Update make.
LEMMA PlainMade ==
    ASSUME NEW t \in Statics, NEW contents, NEW owners, NEW labels,
           "golden" \in contents, "skeleton" \notin contents, TRUE \in labels, labels \subseteq BOOLEAN,
           None \in owners, None \notin Plain(contents, owners, labels),
           NEW e \in PlainEnsurables(t, contents, owners, labels)
    PROVE  /\ Created(e) \in Plain(contents, owners, labels)
           /\ \A found : found.rv \in Nat /\ found.term = FALSE =>
                Updated(e, found) \in Plain(contents, owners, labels)
<1>. DEFINE latest == LatestDefinition(e)
            all == Plain(contents \cup {defs[t]}, owners, labels)
            good == Plain(contents, owners, labels)
<1>1. latest \in all
  <2>. DEFINE def == IF e.latestVersion # None THEN e.latestVersion ELSE MakeMeCare(e.Definition)
  <2>1. def \in all
    <3>1. CASE e.latestVersion # None
      BY <3>1 DEF PlainEnsurables, Plain
    <3>2. CASE e.latestVersion = None
      BY <3>2 DEF PlainEnsurables, Plain, MakeMeCare
    <3>. QED BY <3>1, <3>2
  <2>2. latest = IF e.owner # None THEN [def EXCEPT !.owner = e.owner] ELSE def
    BY DEF LatestDefinition, WithOwner
  <2>3. e.owner \in owners
    BY DEF PlainEnsurables
  <2>. HIDE DEF def, latest
  <2>. QED BY <2>1, <2>2, <2>3 DEF Plain
<1>2. ASSUME NEW obj \in all PROVE Completed(e, obj) \in good
  <2>1. e.ObjType = t
    BY DEF PlainEnsurables
  <2>2. CASE t = "DaemonSet" /\ obj.spec = "skeleton"
    <3>1. Completed(e, obj) = [obj EXCEPT !.spec = "golden"]
      BY <2>1, <2>2 DEF Completed
    <3>. QED BY <3>1 DEF Plain
  <2>3. CASE ~(t = "DaemonSet" /\ obj.spec = "skeleton")
    <3>1. obj.spec \in contents
      BY <2>3 DEF Plain, defs
    <3>2. Completed(e, obj) = obj
      BY <2>1, <2>3 DEF Completed
    <3>. QED BY <3>1, <3>2 DEF Plain
  <2>. QED BY <2>2, <2>3
<1>. HIDE DEF latest
<1>3. Created(e) \in good
  <2>1. [latest EXCEPT !.rv = 1, !.term = FALSE] \in all
    BY <1>1 DEF Plain
  <2>. QED BY <1>2, <2>1 DEF Created, latest
<1>4. ASSUME NEW found, found.rv \in Nat, found.term = FALSE
      PROVE  Updated(e, found) \in good
  <2>. DEFINE made == Completed(e, [latest EXCEPT !.rv = found.rv, !.term = found.term])
  <2>1. [latest EXCEPT !.rv = found.rv, !.term = found.term] \in all
    BY <1>1, <1>4 DEF Plain
  <2>2. made \in good
    BY <1>2, <2>1
  <2>3. Updated(e, found) = IF made = found THEN found ELSE [made EXCEPT !.rv = found.rv + 1]
    BY DEF Updated, latest
  <2>4. found.rv + 1 \in Nat
    BY <1>4
  <2>. HIDE DEF made
  <2>5. [made EXCEPT !.rv = found.rv + 1] \in good
    BY <2>2, <2>4 DEF Plain
  <2>. QED BY <2>2, <2>3, <2>5
<1>. QED BY <1>3, <1>4

LEMMA StampedPlain ==
    ASSUME NEW t, NEW contents, NEW owners, NEW labels, None \notin Plain(contents, owners, labels),
           NEW e \in PlainEnsurables(t, contents, owners, labels), NEW rv \in Nat
    PROVE  Stamped(e, rv) \in PlainEnsurables(t, contents, owners, labels)
<1>. DEFINE good == Plain(contents, owners, labels)
<1>1. CASE e.latestVersion # None
  <2>1. e.latestVersion \in good
    BY <1>1 DEF PlainEnsurables
  <2>2. [e.latestVersion EXCEPT !.rv = rv] \in good
    BY <2>1 DEF Plain
  <2>3. Stamped(e, rv) = [e EXCEPT !.latestVersion = [e.latestVersion EXCEPT !.rv = rv]]
    BY <1>1 DEF Stamped, PlainEnsurables
  <2>. QED BY <2>2, <2>3 DEF PlainEnsurables
<1>2. CASE e.latestVersion = None
  <2>1. Stamped(e, rv) = [e EXCEPT !.Definition = [e.Definition EXCEPT !.rv = rv]]
    BY <1>2 DEF Stamped, PlainEnsurables
  <2>2. [e.Definition EXCEPT !.rv = rv]
          \in [spec: {defs[t]}, owner: {None}, care: {FALSE}, rv: Nat, term: {FALSE}]
    BY DEF PlainEnsurables
  <2>. QED BY <2>1, <2>2 DEF PlainEnsurables
<1>. QED BY <1>1, <1>2

\* What Ensure leaves behind.
LEMMA EnsurePlain ==
    ASSUME NEW t \in Statics, NEW contents, NEW owners, NEW labels,
           "golden" \in contents, "skeleton" \notin contents, TRUE \in labels, labels \subseteq BOOLEAN,
           None \in owners, None \notin Plain(contents, owners, labels),
           NEW e \in PlainEnsurables(t, contents, owners, labels),
           NEW found \in Plain(contents, owners, labels) \cup {None},
           NEW server \in Plain(contents, owners, labels) \cup {None},
           NEW o \in Ensure(e, found, server)
    PROVE  /\ o.server \in Plain(contents, owners, labels) \cup {None}
           /\ o.e \in PlainEnsurables(t, contents, owners, labels)
<1>. DEFINE good == Plain(contents, owners, labels)
            entries == PlainEnsurables(t, contents, owners, labels)
<1>1. ASSUME NEW rv \in Nat PROVE Stamped(e, rv) \in entries
  BY StampedPlain
<1>2. ASSUME NEW f \in entries, NEW obj \in good \cup {None} PROVE Remember(f, obj) \in entries
  BY DEF Remember, PlainEnsurables
<1>3. found # None => found \in good /\ found.rv \in Nat /\ found.term = FALSE
  BY DEF Plain
<1>4. CASE o = Outcome(FALSE, server, e, TRUE)
  BY <1>4 DEF Outcome
<1>5. CASE EndOfCheck(o, e, found, server)
  <2>1. Remember(e, found) \in entries
    BY <1>2
  <2>. HIDE DEF good, entries
  <2>. QED BY <1>5, <2>1 DEF EndOfCheck, Outcome, good, entries
<1>6. CASE EndOfSend(o, e, found, server)
  <2>1. PICK rv \in {NoVersion} \cup (IF found = None THEN {} ELSE {found.rv}),
             made \in {Created(e)} \cup (IF found = None THEN {} ELSE {Updated(e, found)}) :
            \/ o = Outcome(FALSE, server, Stamped(e, rv), FALSE)
            \/ o = Outcome(FALSE, server, Stamped(e, rv), TRUE)
            \/ o = Outcome(FALSE, made, Stamped(e, rv), TRUE)
            \/ o = Outcome(TRUE, made, Remember(Stamped(e, rv), made), FALSE)
    BY <1>6 DEF EndOfSend
  <2>2. rv \in Nat
    BY <1>3 DEF NoVersion
  <2>3. made \in good
    <3>1. Created(e) \in good
      BY PlainMade
    <3>2. CASE found # None /\ made = Updated(e, found)
      BY <1>3, <3>2, PlainMade
    <3>. HIDE DEF good
    <3>. QED BY <2>1, <3>1, <3>2
  <2>4. Stamped(e, rv) \in entries /\ Remember(Stamped(e, rv), made) \in entries
    BY <1>1, <1>2, <2>2, <2>3
  <2>. HIDE DEF good, entries
  <2>. QED BY <2>1, <2>3, <2>4 DEF Outcome, good, entries
<1>. QED BY <1>4, <1>5, <1>6, EnsureEnds


LEMMA PlainIsStatic ==
    ASSUME TypeOK, NEW t \in Statics
    PROVE  /\ "golden" \in ContentsOf(t) /\ "skeleton" \notin ContentsOf(t)
           /\ TRUE \in Labels /\ Labels \subseteq BOOLEAN /\ None \in Owners
           /\ Plain(ContentsOf(t), Owners, Labels) \subseteq Static
           /\ None \notin Plain(ContentsOf(t), Owners, Labels)
<1>1. "golden" \in ContentsOf(t) /\ "skeleton" \notin ContentsOf(t) /\ ContentsOf(t) \subseteq Contents
  BY DEF ContentsOf, Contents
<1>2. TRUE \in Labels /\ Labels \subseteq BOOLEAN
  BY DEF Labels
<1>3. None \in Owners /\ Owners \subseteq CRDUids \cup {None}
  BY DEF Owners, TypeOK, CRDUids
<1>4. Plain(ContentsOf(t), Owners, Labels) \subseteq Static
  BY <1>1, <1>2, <1>3 DEF Plain, Static, Resources
<1>. QED BY <1>1, <1>2, <1>3, <1>4, Distinct

LEMMA PlainEnds ==
    ASSUME PlainInv, NEW t \in Statics
    PROVE  /\ Stored(objects[t]) \in Plain(ContentsOf(t), Owners, Labels) \cup {None}
           /\ Cached(objects[t]) \in Plain(ContentsOf(t), Owners, Labels) \cup {None}
           /\ \A i \in 1..Len(objects[t]) :
                objects[t][i] \in Plain(ContentsOf(t), Owners, Labels) \cup {None}
<1>1. objects[t] \in Versions(Plain(ContentsOf(t), Owners, Labels))
  BY DEF PlainInv
<1>. QED BY <1>1, VersionsFacts

LEMMA PlainSettled ==
    ASSUME NEW contents, NEW owners, NEW labels,
           NEW obj \in Plain(contents, owners, labels) \cup {None}
    PROVE  Settled(obj) = obj
BY DEF Plain, Settled

LEMMA MeddledPlain ==
    ASSUME NEW t \in Statics, NEW kind \in Kinds, NEW obj, obj = Stored(objects[t]), obj # None,
           NEW owners, None \in owners, NEW labels, obj \in Plain(ContentsOf(t), owners, labels),
           labels \subseteq BOOLEAN
    PROVE  Settled(Meddled(t, kind)) \in Plain(ContentsOf(t), owners, BOOLEAN) \cup {None}
<1>. DEFINE made == CASE kind = "delete"  -> [obj EXCEPT !.term = TRUE]
                      [] kind = "unlabel" -> [obj EXCEPT !.care = FALSE]
                      [] kind = "disown"  -> [obj EXCEPT !.owner = None]
                      [] kind = "change"  ->
                            IF Changeable(t) THEN [obj EXCEPT !.spec = "changed"] ELSE obj
            all == [spec: ContentsOf(t), owner: owners, care: BOOLEAN, rv: Nat, term: BOOLEAN]
<1>1. made \in all
  <2>1. obj \in all
    BY DEF Plain
  <2>2. /\ [obj EXCEPT !.term = TRUE] \in all
        /\ [obj EXCEPT !.care = FALSE] \in all
        /\ [obj EXCEPT !.owner = None] \in all
    BY <2>1
  <2>3. Changeable(t) => [obj EXCEPT !.spec = "changed"] \in all
    BY <2>1 DEF ContentsOf
  <2>. QED BY <2>1, <2>2, <2>3 DEF Kinds
<1>2. Meddled(t, kind) = IF made = obj THEN obj ELSE [made EXCEPT !.rv = made.rv + 1]
  BY DEF Meddled
<1>. HIDE DEF made
<1>3. Meddled(t, kind) \in all
  <2>1. obj \in all
    BY DEF Plain
  <2>2. made.rv + 1 \in Nat
    BY <1>1
  <2>3. [made EXCEPT !.rv = made.rv + 1] \in all
    BY <1>1, <2>2
  <2>. QED BY <1>2, <2>1, <2>3
<1>. QED BY <1>3 DEF Settled, Plain

-----------------------------------------------------------------------------
(* PlainInv. *)

\* It is kept where nothing is written, and where what is written is plain.
LEMMA PlainFrom ==
    ASSUME TypeOK, PlainInv, uids' \in Nat, uids' >= uids, spent'.meddles = 0 => spent.meddles = 0,
           \A t \in Statics :
                \/ objects'[t] = objects[t]
                \/ objects'[t] \in Versions(Plain(ContentsOf(t), Owners', Labels')),
           \A t \in Statics :
                \/ ensurables'[t] = ensurables[t]
                \/ ensurables'[t] \in PlainEnsurables(t, ContentsOf(t), Owners', Labels')
    PROVE  PlainInv'
<1>. SUFFICES ASSUME NEW t \in Statics
              PROVE  /\ objects'[t] \in Versions(Plain(ContentsOf(t), Owners', Labels'))
                     /\ ensurables'[t] \in PlainEnsurables(t, ContentsOf(t), Owners', Labels')
  BY DEF PlainInv
<1>. QED BY PlainGrows

LEMMA EnsureKeepsPlain ==
    ASSUME TypeOK, PlainInv, NEW t \in Statics,
           NEW found \in {Cached(objects[t]), Stored(objects[t])},
           NEW o \in Ensure(ensurables[t], found, Stored(objects[t])),
           objects' = Put(t, o.server), ensurables' = [ensurables EXCEPT ![t] = o.e],
           uids' = uids, spent'.meddles = spent.meddles
    PROVE  PlainInv' /\ Settled(o.server) = o.server
<1>. DEFINE good == Plain(ContentsOf(t), Owners, Labels)
            entries == PlainEnsurables(t, ContentsOf(t), Owners, Labels)
<1>1. Stored(objects[t]) \in good \cup {None} /\ found \in good \cup {None} /\ ensurables[t] \in entries
  BY PlainEnds DEF PlainInv
<1>2. o.server \in good \cup {None} /\ o.e \in entries
  BY <1>1, PlainIsStatic, EnsurePlain
<1>3. Settled(o.server) = o.server
  BY <1>2, PlainSettled
<1>4. Owners' = Owners /\ Labels' = Labels
  BY DEF Owners, Labels
<1>5. /\ objects'[t] \in Versions(good)
      /\ \A u \in Statics \ {t} : objects'[u] = objects[u]
  <2>1. objects[t] \in Versions(good)
    BY DEF PlainInv
  <2>. HIDE DEF good
  <2>. QED BY <1>2, <1>3, <2>1, PlainPut
<1>6. ensurables'[t] = o.e /\ \A u \in Statics \ {t} : ensurables'[u] = ensurables[u]
  BY DEF TypeOK
<1>7. uids' \in Nat /\ uids' >= uids
  BY DEF TypeOK
<1>. HIDE DEF good, entries
<1>8. PlainInv'
  BY <1>2, <1>4, <1>5, <1>6, <1>7, PlainFrom DEF good, entries
<1>. QED BY <1>3, <1>8

LEMMA UsersKeepPlain ==
    ASSUME TypeOK, PlainInv, NEW t \in Statics, Collect(t) \/ Meddle(t) \/ Sync(t)
    PROVE  PlainInv'
<1>1. /\ objects[t] \in Versions(Plain(ContentsOf(t), Owners, Labels))
      /\ objects \in [Statics -> Versions(Static)]
      /\ uids \in Nat
  BY DEF PlainInv, TypeOK
<1>2. CASE Collect(t)
  <2>1. Settled(None) = None /\ objects' = Put(t, None)
    BY <1>2 DEF Collect, Settled
  <2>2. /\ objects'[t] \in Versions(Plain(ContentsOf(t), Owners, Labels))
        /\ \A u \in Statics \ {t} : objects'[u] = objects[u]
    BY <1>1, <2>1, PlainPut
  <2>3. Owners' = Owners /\ Labels' = Labels /\ ensurables' = ensurables
        /\ uids' = uids /\ spent' = spent
    BY <1>2 DEF Collect, processVars, Owners, Labels
  <2>. QED BY <1>1, <2>2, <2>3, PlainFrom
<1>3. CASE Meddle(t)
  <2>1. PICK kind \in Meddling : objects' = Put(t, Meddled(t, kind))
    BY <1>3 DEF Meddle
  <2>2. kind \in Kinds
    BY BoundsAssumption
  <2>3. /\ uids' = uids /\ ensurables' = ensurables
        /\ spent'.meddles # 0 /\ Owners' = Owners /\ Labels' = BOOLEAN
    <3>1. spent'.meddles = spent.meddles + 1 /\ spent.meddles \in Nat
      BY <1>3 DEF Meddle, TypeOK
    <3>. QED BY <1>3, <3>1 DEF Meddle, processVars, Owners, Labels
  <2>4. objects[t] \in Versions(Plain(ContentsOf(t), Owners', Labels'))
    BY <1>1, <2>3, PlainGrows
  <2>5. Settled(Meddled(t, kind)) \in Plain(ContentsOf(t), Owners', Labels') \cup {None}
    <3>1. Stored(objects[t]) # None
      BY <1>3 DEF Meddle
    <3>2. Stored(objects[t]) \in Plain(ContentsOf(t), Owners, Labels)
      BY <3>1, PlainEnds
    <3>. QED BY <2>2, <2>3, <3>1, <3>2, MeddledPlain, PlainIsStatic
  <2>6. /\ objects'[t] \in Versions(Plain(ContentsOf(t), Owners', Labels'))
        /\ \A u \in Statics \ {t} : objects'[u] = objects[u]
    BY <2>1, <2>4, <2>5, PlainPut
  <2>. QED BY <1>1, <2>3, <2>6, PlainFrom
<1>4. CASE Sync(t)
  <2>1. /\ objects'[t] = Tail(objects[t]) /\ Len(objects[t]) > 1
        /\ \A u \in Statics \ {t} : objects'[u] = objects[u]
    BY <1>1, <1>4 DEF Sync, Deliver
  <2>2. objects'[t] \in Versions(Plain(ContentsOf(t), Owners, Labels))
    BY <1>1, <2>1, TailFacts
  <2>3. Owners' = Owners /\ Labels' = Labels /\ ensurables' = ensurables
        /\ uids' = uids /\ spent' = spent
    BY <1>4 DEF Sync, processVars, Owners, Labels
  <2>4. \A u \in Statics : \/ objects'[u] = objects[u]
                            \/ objects'[u] \in Versions(Plain(ContentsOf(u), Owners', Labels'))
    BY <2>1, <2>2, <2>3
  <2>. QED BY <1>1, <2>3, <2>4, PlainFrom
<1>. QED BY <1>2, <1>3, <1>4

LEMMA WorkKeepsPlain ==
    ASSUME TypeOK, PlainInv, EnsureStatic \/ \E t \in Statics : Bootstrap(t)
    PROVE  PlainInv'
<1>1. CASE EnsureStatic
  <2>1. req \in Statics
    BY <1>1 DEF EnsureStatic, TypeOK
  <2>2. PICK o \in Ensure(ensurables[req], Cached(objects[req]), Stored(objects[req])) :
            /\ IF o.fault THEN Fault ELSE UNCHANGED spent
            /\ objects' = Put(req, o.server)
            /\ ensurables' = [ensurables EXCEPT ![req] = o.e]
    BY <1>1 DEF EnsureStatic
  <2>3. spent'.meddles = spent.meddles /\ uids' = uids
    BY <1>1, <2>2, FaultType DEF EnsureStatic
  <2>. QED BY <2>1, <2>2, <2>3, EnsureKeepsPlain
<1>2. ASSUME NEW t \in Statics, Bootstrap(t)
      PROVE  PlainInv'
  <2>1. PICK o \in Ensure(ensurables[t], Stored(objects[t]), Stored(objects[t])) :
            /\ IF o.fault THEN Fault ELSE UNCHANGED spent
            /\ objects' = Put(t, o.server)
            /\ ensurables' = [ensurables EXCEPT ![t] = o.e]
    BY <1>2 DEF Bootstrap
  <2>2. spent'.meddles = spent.meddles /\ uids' = uids
    BY <1>2, <2>1, FaultType DEF Bootstrap
  <2>. QED BY <2>1, <2>2, EnsureKeepsPlain
<1>. QED BY <1>1, <1>2

LEMMA DeleteSCCKeepsPlain ==
    ASSUME TypeOK, PlainInv, DeleteSCC
    PROVE  PlainInv'
<1>. DEFINE good == Plain(ContentsOf(SCC), Owners, Labels)
<1>1. SCC \in Statics
  BY StaticsAssumption
<1>2. PICK o \in Delete(ensurables[SCC], Cached(objects[SCC]), Stored(objects[SCC])) :
        /\ IF o.fault THEN Fault ELSE UNCHANGED spent
        /\ objects' = Put(SCC, o.server)
        /\ ensurables' = [ensurables EXCEPT ![SCC] = o.e]
  BY DEF DeleteSCC
<1>3. spent'.meddles = spent.meddles /\ uids' = uids /\ Owners' = Owners /\ Labels' = Labels /\ uids \in Nat
  BY <1>2, FaultType DEF DeleteSCC, Owners, Labels, TypeOK
<1>4. /\ o.server \in {Stored(objects[SCC]), Terminating(Stored(objects[SCC]))}
      /\ o.e = Remember(ensurables[SCC], None)
  BY <1>2 DEF Delete, Outcome
<1>5. Stored(objects[SCC]) \in good \cup {None}
  BY <1>1, PlainEnds
<1>6. Settled(o.server) \in good \cup {None}
  <2>1. Settled(Terminating(Stored(objects[SCC]))) = None
    <3>1. CASE Stored(objects[SCC]) = None
      BY <3>1 DEF Terminating, Settled
    <3>2. CASE Stored(objects[SCC]) # None
      <4>1. Terminating(Stored(objects[SCC])).term
        BY <1>5, <3>2 DEF Terminating, Plain
      <4>. QED BY <4>1 DEF Settled
    <3>. QED BY <3>1, <3>2
  <2>2. Settled(Stored(objects[SCC])) = Stored(objects[SCC])
    BY <1>5, PlainSettled
  <2>. QED BY <1>4, <1>5, <2>1, <2>2
<1>7. objects[SCC] \in Versions(good)
  BY <1>1 DEF PlainInv
<1>8. o.e \in PlainEnsurables(SCC, ContentsOf(SCC), Owners, Labels)
  <2>1. ensurables[SCC] \in PlainEnsurables(SCC, ContentsOf(SCC), Owners, Labels)
    BY <1>1 DEF PlainInv
  <2>. QED BY <1>4, <2>1 DEF Remember, PlainEnsurables
<1>. HIDE DEF good
<1>9. /\ objects'[SCC] \in Versions(good)
      /\ \A u \in Statics \ {SCC} : objects'[u] = objects[u]
  BY <1>1, <1>2, <1>6, <1>7, PlainPut
<1>10. ensurables'[SCC] = o.e /\ \A u \in Statics \ {SCC} : ensurables'[u] = ensurables[u]
  BY <1>1, <1>2 DEF TypeOK
<1>. QED BY <1>3, <1>8, <1>9, <1>10, PlainFrom DEF good

LEMMA ReconcileKeepsPlain ==
    ASSUME TypeOK, CRDInv, PlainInv, NEW t \in Statics, Reconcile(t)
    PROVE  PlainInv'
<1>1. UNCHANGED <<objects, uids>> /\ spent'.meddles = spent.meddles /\ uids \in Nat
      /\ Owners' = Owners /\ Labels' = Labels
  BY FaultType DEF Reconcile, worldVars, Owners, Labels, TypeOK
<1>2. CASE UNCHANGED ensurables
  BY <1>1, <1>2, PlainFrom
<1>3. CASE Seen /\ ensurables' = [ensurables EXCEPT ![t] = SetOwner(ensurables[t], Cached(crd).uid)]
  <2>. DEFINE e == SetOwner(ensurables[t], Cached(crd).uid)
  <2>1. Cached(crd).uid \in Owners
    BY <1>3, CRDEnds DEF CRDInv, Seen, Cached, Owners
  <2>2. e \in PlainEnsurables(t, ContentsOf(t), Owners, Labels)
    <3>1. ensurables[t] \in PlainEnsurables(t, ContentsOf(t), Owners, Labels)
      BY DEF PlainInv
    <3>. QED BY <2>1, <3>1 DEF PlainEnsurables, SetOwner
  <2>. HIDE DEF e
  <2>3. ensurables'[t] = e /\ \A u \in Statics \ {t} : ensurables'[u] = ensurables[u]
    BY <1>3 DEF TypeOK, e
  <2>. QED BY <1>1, <2>2, <2>3, PlainFrom
<1>. QED BY <1>2, <1>3 DEF Reconcile

LEMMA NewIsPlain ==
    ASSUME NEW t \in Statics
    PROVE  staticResources[t] \in PlainEnsurables(t, ContentsOf(t), Owners, Labels)
BY DEF staticResources, NewEnsurable, PlainEnsurables, NoVersion, Owners

LEMMA LaunchKeepsPlain ==
    ASSUME TypeOK, PlainInv, Exit \/ Restart \/ Uninstall
    PROVE  PlainInv'
<1>1. /\ objects' = Relisted(objects) /\ ensurables' = staticResources /\ uids' = uids /\ uids \in Nat
      /\ Owners' = Owners /\ Labels' = Labels /\ spent'.meddles = spent.meddles
  BY DEF Exit, Restart, Uninstall, Launch, Owners, Labels, TypeOK
<1>2. ASSUME NEW t \in Statics
      PROVE  objects'[t] \in Versions(Plain(ContentsOf(t), Owners, Labels))
  <2>1. objects'[t] = <<Stored(objects[t])>>
    BY <1>1 DEF Relisted, TypeOK
  <2>2. objects[t] \in Versions(Plain(ContentsOf(t), Owners, Labels))
    BY DEF PlainInv
  <2>. QED BY <2>1, <2>2, RelistFacts
<1>. QED BY <1>1, <1>2, NewIsPlain, PlainFrom

LEMMA PlainStep ==
    ASSUME TypeOK, CRDInv, PlainInv, [Next]_vars
    PROVE  PlainInv'
<1>1. CASE CreateCRD \/ DeleteCRD \/ CRDGone \/ SyncCRD
  <2>1. UNCHANGED <<objects, ensurables, spent>> /\ uids' \in Nat /\ uids' >= uids
    BY <1>1 DEF CreateCRD, DeleteCRD, CRDGone, SyncCRD, processVars, TypeOK
  <2>. QED BY <2>1, PlainFrom
<1>2. CASE Start \/ UNCHANGED vars
  <2>1. UNCHANGED <<objects, ensurables, spent, uids>> /\ uids \in Nat
    BY <1>2 DEF Start, vars, worldVars, processVars, TypeOK
  <2>. QED BY <2>1, PlainFrom
<1>. QED BY <1>1, <1>2, UsersKeepPlain, WorkKeepsPlain, DeleteSCCKeepsPlain, ReconcileKeepsPlain,
            LaunchKeepsPlain DEF Next, Work

-----------------------------------------------------------------------------
(* What Ensure makes of a static whose definition it has not lost. *)

LEMMA EnsureDefines ==
    ASSUME TypeOK, NEW t \in Statics,
           NEW e \in PlainEnsurables(t, ContentsOf(t), Owners, Labels),
           NEW found \in Plain(ContentsOf(t), Owners, Labels) \cup {None},
           e.latestVersion = None => e.Definition.rv = NoVersion,
           e.latestVersion # None =>
                /\ AsDefined(e.latestVersion)
                /\ found # None => found = e.latestVersion \/ e.latestVersion.rv < found.rv,
           NEW o \in Ensure(e, found, found), o.ok \/ ~o.fault
    PROVE  o.ok /\ AsDefined(o.server) /\ o.e.latestVersion = o.server
<1>. DEFINE golden == Plain({"golden"}, Owners, {TRUE})
<1>1. /\ "golden" \in {"golden"} /\ "skeleton" \notin {"golden"} /\ TRUE \in {TRUE}
      /\ {TRUE} \subseteq BOOLEAN /\ None \in Owners
  BY PlainIsStatic
<1>2. golden \subseteq Plain(ContentsOf(t), Owners, Labels)
  BY PlainIsStatic DEF Plain
<1>3. None \notin golden
  BY <1>2, PlainIsStatic
<1>4. e \in PlainEnsurables(t, {"golden"}, Owners, {TRUE})
  BY DEF PlainEnsurables, Plain, AsDefined
<1>5. found # None => found.rv \in Nat /\ found.term = FALSE /\ found.spec \in ContentsOf(t)
  BY DEF Plain
<1>6. \A obj \in golden : AsDefined(obj)
  BY <1>3 DEF Plain, AsDefined
<1>7. Created(e) \in golden /\ (found # None => Updated(e, found) \in golden)
  <2>. DEFINE contents == {"golden"}
              labels == {TRUE}
  <2>1. /\ "golden" \in contents /\ "skeleton" \notin contents /\ TRUE \in labels
        /\ labels \subseteq BOOLEAN /\ None \in Owners /\ None \notin Plain(contents, Owners, labels)
        /\ e \in PlainEnsurables(t, contents, Owners, labels)
    BY <1>1, <1>3, <1>4
  <2>. HIDE DEF contents, labels
  <2>2. /\ Created(e) \in Plain(contents, Owners, labels)
        /\ \A obj : obj.rv \in Nat /\ obj.term = FALSE =>
                Updated(e, obj) \in Plain(contents, Owners, labels)
    BY <2>1, PlainMade
  <2>. QED BY <1>5, <2>2 DEF contents, labels
<1>8. e.ObjType = t /\ DOMAIN e = {"ObjType", "uid", "Definition", "owner", "latestVersion"}
  BY DEF PlainEnsurables
<1>9. CASE o = Outcome(FALSE, found, e, TRUE)
  BY <1>9 DEF Outcome
<1>10. CASE EndOfSend(o, e, found, found)
  <2>1. PICK rv \in {NoVersion} \cup (IF found = None THEN {} ELSE {found.rv}),
             made \in {Created(e)} \cup (IF found = None THEN {} ELSE {Updated(e, found)}) :
            \/ /\ o = Outcome(FALSE, found, Stamped(e, rv), FALSE)
               /\ found # found \/ (found # None /\ e.ObjType \in Immutable /\ made.spec # found.spec)
            \/ o = Outcome(FALSE, found, Stamped(e, rv), TRUE)
            \/ o = Outcome(FALSE, made, Stamped(e, rv), TRUE)
            \/ o = Outcome(TRUE, made, Remember(Stamped(e, rv), made), FALSE)
    BY <1>10 DEF EndOfSend
  <2>2. made \in golden
    <3>. HIDE DEF golden
    <3>. QED BY <1>7
  <2>3. made.spec = "golden"
    BY <2>2 DEF Plain
  <2>4. found # None /\ e.ObjType \in Immutable => made.spec = found.spec
    BY <1>5, <1>8, <2>3 DEF ContentsOf, Changeable
  <2>5. o = Outcome(TRUE, made, Remember(Stamped(e, rv), made), FALSE)
    BY <2>1, <2>4 DEF Outcome
  <2>6. Stamped(e, rv) \in PlainEnsurables(t, {"golden"}, Owners, {TRUE})
    BY <1>3, <1>4, <1>5, StampedPlain DEF NoVersion
  <2>7. Remember(Stamped(e, rv), made).latestVersion = made
    BY <2>6 DEF Remember, PlainEnsurables
  <2>. QED BY <1>6, <2>2, <2>5, <2>7 DEF Outcome
<1>11. CASE EndOfCheck(o, e, found, found)
  <2>. DEFINE local == LatestDefinition(e)
  <2>1. /\ found # None /\ Equal(e, local, found)
        /\ o = Outcome(TRUE, found, Remember(e, found), FALSE)
    BY <1>11 DEF EndOfCheck
  <2>2. Remember(e, found).latestVersion = found
    BY <1>8 DEF Remember
  <2>3. /\ e.latestVersion # None => local.rv = e.latestVersion.rv /\ local.spec = e.latestVersion.spec
        /\ e.latestVersion = None => local.rv = e.Definition.rv /\ local.spec = defs[t]
    BY <1>4 DEF LatestDefinition, WithOwner, MakeMeCare, PlainEnsurables, Plain
  <2>4. AsDefined(found)
    <3>1. CASE VersionsEqual(local, found)
      <4>1. local.rv = found.rv /\ found.rv # NoVersion
        BY <3>1 DEF VersionsEqual
      <4>2. e.latestVersion # None /\ ~(e.latestVersion.rv < found.rv)
        BY <1>5, <2>1, <2>3, <4>1 DEF NoVersion
      <4>. QED BY <2>1, <4>2
    <3>2. CASE found.care /\ SameSpec(e, local, found)
      <4>1. "spec" \in EqualFunc[t] => local.spec = found.spec
        BY <1>8, <3>2 DEF SameSpec
      <4>2. local.spec \in {"golden", "skeleton"}
        BY <2>3 DEF AsDefined, defs
      <4>3. found.spec = "golden"
        BY <1>5, <2>1, <4>1, <4>2 DEF ContentsOf, Changeable
      <4>. QED BY <2>1, <3>2, <4>3 DEF AsDefined
    <3>. QED BY <2>1, <3>1, <3>2 DEF Equal
  <2>. QED BY <2>1, <2>2, <2>4 DEF Outcome
<1>. QED BY <1>9, <1>10, <1>11, EnsureEnds

-----------------------------------------------------------------------------
(* BootstrapInv. *)

LEMMA UsersKeepBootstrap ==
    ASSUME QUIET, TypeOK, PlainInv, BootstrapInv, NEW t \in Statics, Collect(t) \/ Meddle(t) \/ Sync(t)
    PROVE  BootstrapInv'
<1>1. pc' = pc /\ Running' = Running
  BY DEF Collect, Meddle, Sync, processVars, Running
<1>2. CASE Running
  BY <1>1, <1>2 DEF BootstrapInv, Running
<1>3. CASE ~Running
  <2>1. UpToDate(objects)
    BY <1>3 DEF BootstrapInv
  <2>2. ~Sync(t)
    <3>1. Len(objects[t]) = 1
      BY <2>1 DEF UpToDate, TypeOK
    <3>. QED BY <3>1 DEF Sync
  <2>3. pc # "bootstrap"
    BY <2>2 DEF Collect, Meddle, Exposed
  <2>4. UpToDate(objects')
    <3>1. PICK obj : objects' = Put(t, obj)
      BY <2>2 DEF Collect, Meddle
    <3>2. objects' = [objects EXCEPT ![t] = <<Settled(obj)>>]
      BY <1>3, <3>1 DEF Put
    <3>3. DOMAIN objects = Statics /\ DOMAIN objects' = Statics
      BY <3>2 DEF TypeOK
    <3>4. \A u \in Statics : objects'[u] = IF u = t THEN <<Settled(obj)>> ELSE objects[u]
      BY <3>2, <3>3
    <3>5. Len(<<Settled(obj)>>) = 1
      OBVIOUS
    <3>. QED BY <2>1, <3>3, <3>4, <3>5 DEF UpToDate
  <2>. QED BY <1>1, <2>3, <2>4 DEF BootstrapInv
<1>. QED BY <1>2, <1>3

LEMMA BootstrapKeepsBootstrap ==
    ASSUME TypeOK, PlainInv, BootstrapInv, NEW t \in Statics, Bootstrap(t)
    PROVE  BootstrapInv'
<1>1. PICK o \in Ensure(ensurables[t], Stored(objects[t]), Stored(objects[t])) :
        /\ IF o.fault THEN Fault ELSE UNCHANGED spent
        /\ objects' = Put(t, o.server)
        /\ ensurables' = [ensurables EXCEPT ![t] = o.e]
        /\ failed' = (failed \/ ~o.ok)
  BY DEF Bootstrap
<1>2. pc = "bootstrap" /\ pc' = pc /\ ~Running /\ ~Running' /\ t \in todo /\ todo' = todo \ {t}
  BY DEF Bootstrap, Running
<1>3. Settled(o.server) = o.server
  <2>1. spent'.meddles = spent.meddles /\ uids' = uids
    BY <1>1, FaultType DEF Bootstrap
  <2>. QED BY <1>1, <2>1, EnsureKeepsPlain
<1>4. objects' = [objects EXCEPT ![t] = <<o.server>>] /\ objects \in [Statics -> Versions(Static)]
  BY <1>1, <1>2, <1>3 DEF Put, TypeOK
<1>5. /\ objects'[t] = <<o.server>> /\ Stored(objects'[t]) = o.server
      /\ Len(objects'[t]) = 1
      /\ \A u \in Statics \ {t} : objects'[u] = objects[u]
      /\ DOMAIN objects = Statics /\ DOMAIN objects' = Statics
  BY <1>4 DEF Stored
<1>6. UpToDate(objects')
  BY <1>2, <1>5 DEF UpToDate, BootstrapInv
<1>7. ensurables'[t] = o.e /\ \A u \in Statics \ {t} : ensurables'[u] = ensurables[u]
  BY <1>1 DEF TypeOK
<1>8. o.ok => AsDefined(o.server) /\ o.e.latestVersion = o.server
  <2>1. ensurables[t] = staticResources[t]
    BY <1>2 DEF BootstrapInv
  <2>2. ensurables[t].latestVersion = None /\ ensurables[t].Definition.rv = NoVersion
    BY <2>1 DEF staticResources, NewEnsurable
  <2>3. /\ ensurables[t] \in PlainEnsurables(t, ContentsOf(t), Owners, Labels)
        /\ Stored(objects[t]) \in Plain(ContentsOf(t), Owners, Labels) \cup {None}
    BY PlainEnds DEF PlainInv
  <2>. QED BY <2>2, <2>3, EnsureDefines
<1>9. ASSUME NEW u \in Statics
      PROVE  IF u \in todo'
             THEN ensurables'[u] = staticResources[u]
             ELSE \/ failed'
                  \/ AsDefined(Stored(objects'[u])) /\ ensurables'[u].latestVersion = Stored(objects'[u])
  <2>1. CASE u = t
    BY <1>1, <1>2, <1>5, <1>7, <1>8, <2>1
  <2>2. CASE u # t
    BY <1>1, <1>2, <1>5, <1>7, <2>2 DEF BootstrapInv
  <2>. QED BY <2>1, <2>2
<1>. QED BY <1>6, <1>9 DEF BootstrapInv

LEMMA BootstrapStep ==
    ASSUME QUIET, TypeOK, PlainInv, BootstrapInv, [Next]_vars
    PROVE  BootstrapInv'
<1>1. CASE CreateCRD \/ DeleteCRD \/ CRDGone \/ SyncCRD \/ UNCHANGED vars
  <2>1. UNCHANGED <<objects, pc, todo, failed, ensurables>>
    BY <1>1 DEF CreateCRD, DeleteCRD, CRDGone, SyncCRD, processVars, vars, worldVars
  <2>. QED BY <2>1 DEF BootstrapInv, Running
<1>2. CASE EnsureStatic \/ DeleteSCC \/ Start \/ \E t \in Statics : Reconcile(t)
  BY <1>2 DEF EnsureStatic, DeleteSCC, Done, Start, Reconcile, GoOn, BootstrapInv, Running
<1>3. CASE Exit \/ Restart \/ Uninstall
  <2>1. /\ objects' = Relisted(objects) /\ ensurables' = staticResources
        /\ pc' = "bootstrap" => todo' = Statics
    BY <1>3 DEF Exit, Restart, Uninstall, Launch
  <2>2. UpToDate(objects')
    <3>1. DOMAIN objects' = Statics /\ \A t \in Statics : objects'[t] = <<Stored(objects[t])>>
      BY <2>1 DEF Relisted, TypeOK
    <3>2. \A t \in Statics : Len(<<Stored(objects[t])>>) = 1
      OBVIOUS
    <3>. QED BY <3>1, <3>2 DEF UpToDate
  <2>. QED BY <2>1, <2>2 DEF BootstrapInv
<1>. QED BY <1>1, <1>2, <1>3, UsersKeepBootstrap, BootstrapKeepsBootstrap DEF Next, Work

-----------------------------------------------------------------------------
(* MindedInv: what others do. *)

LEMMA InMindFrame ==
    ASSUME NEW u \in Statics, InMind(u), objects'[u] = objects[u],
           ensurables'[u].latestVersion = ensurables[u].latestVersion,
           Requested(u) => Requested(u)', UpdatesWork' => UpdatesWork, LeftAlone' => LeftAlone
    PROVE  InMind(u)'
<1>1. EndsAreHeard' => Minded(u)'
  BY DEF InMind, Minded, EndsAreHeard
<1>2. UpdatesWork' => Tracked(u)'
  BY DEF InMind, Tracked
<1>3. LeftAlone' => LossHeard(objects[u])'
  BY DEF InMind
<1>. QED BY <1>1, <1>2, <1>3 DEF InMind

\* An end is heard of as long as nobody has taken the label off.
LEMMA LabelsHeard ==
    ASSUME TypeOK, PlainInv, NEW t \in Statics, spent.meddles = 0,
           NEW obj \in Static \cup {None}
    PROVE  /\ Stored(objects[t]) # None => passes(Stored(objects[t]), obj)
           /\ LossHeard(Append(objects[t], obj))
<1>. DEFINE v == objects[t]
            w == Append(v, obj)
            m == Len(v)
<1>1. \A i \in 1..m : v[i] # None => v[i].care
  BY PlainEnds DEF Labels, Plain
<1>2. /\ v \in Versions(Static) /\ m \in Nat /\ m >= 1
      /\ Len(w) = m + 1 /\ \A i \in 1..m : w[i] = v[i]
  <2>1. v \in Versions(Static)
    BY StoredType
  <2>. HIDE DEF v
  <2>2. m \in Nat /\ m >= 1
    BY <2>1, VersionsFacts
  <2>3. Len(w) = m + 1 /\ \A i \in 1..m : w[i] = v[i]
    BY <2>1, AppendFacts
  <2>. QED BY <2>1, <2>2, <2>3
<1>3. Stored(v) = v[m] /\ m \in 1..m
  BY <1>2 DEF Stored
<1>4. Stored(v) # None => passes(Stored(v), obj)
  BY <1>1, <1>3 DEF passes, DoICare
<1>5. ASSUME NEW i \in 1..(Len(w) - 1), HasOwner(w[i])
      PROVE  passes(w[i], w[i + 1])
  <2>1. i \in 1..m
    BY <1>2
  <2>2. w[i] = v[i] /\ v[i] # None
    BY <1>2, <1>5, <2>1 DEF HasOwner
  <2>. QED BY <1>1, <2>1, <2>2 DEF passes, DoICare
<1>. QED BY <1>4, <1>5 DEF LossHeard

LEMMA OthersMind ==
    ASSUME TypeOK, PlainInv, NEW t \in Statics, InMind(t), Running, Stored(objects[t]) # None,
           NEW obj, Settled(obj) \in Static \cup {None}, objects' = Put(t, obj),
           ensurables' = ensurables, Requested(t)' = Requested(t),
           UpdatesWork' => UpdatesWork, LeftAlone' => spent.meddles = 0,
           \/ Settled(obj) \in {None, Stored(objects[t])}
           \/ Settled(obj).rv > Stored(objects[t]).rv
    PROVE  InMind(t)'
<1>. DEFINE new == Settled(obj)
            old == Stored(objects[t])
<1>1. objects[t] \in Versions(Static) /\ old \in Static /\ old.rv \in Nat
  BY StoredType DEF Static, Resources
<1>2. LeftAlone' => LeftAlone
  BY DEF LeftAlone
<1>. HIDE DEF new
<1>3. /\ Stored(objects'[t]) = new
      /\ Heard(objects[t]) => Heard(objects'[t])
      /\ \/ new = old /\ objects' = objects
         \/ objects'[t] = Append(objects[t], new) /\ (passes(old, new) => Heard(objects'[t]))
  <2>1. new \in Static \cup {None} /\ Settled(obj) = new
    BY DEF new
  <2>. QED BY <1>1, <2>1, PlainPut
<1>4. CASE new = old /\ objects' = objects
  BY <1>2, <1>4, InMindFrame
<1>5. CASE objects'[t] = Append(objects[t], new) /\ (passes(old, new) => Heard(objects'[t]))
  <2>1. LeftAlone' => passes(old, new) /\ LossHeard(objects'[t])
    <3>1. new \in Static \cup {None}
      BY DEF new
    <3>. QED BY <1>5, <3>1, LabelsHeard
  <2>2. UpdatesWork' => Minded(t)'
    <3>. SUFFICES ASSUME UpdatesWork', ~Requested(t), ~Heard(objects[t])
                  PROVE  Heard(objects'[t])
      BY <1>3 DEF Minded
    <3>1. AsDefined(old)
      BY DEF InMind, EndsAreHeard, Minded
    <3>. QED BY <1>5, <3>1 DEF AsDefined, passes, DoICare
  <2>3. LeftAlone' => Minded(t)'
    BY <1>5, <2>1 DEF Minded
  <2>4. UpdatesWork' => Tracked(t)'
    <3>. SUFFICES ASSUME UpdatesWork'
                  PROVE  Tracked(t)'
      OBVIOUS
    <3>1. /\ AsDefined(ensurables[t].latestVersion)
          /\ old = ensurables[t].latestVersion \/ ensurables[t].latestVersion.rv < old.rv
      BY DEF InMind, Tracked
    <3>2. ensurables[t].latestVersion.rv \in Nat
      BY <3>1 DEF PlainInv, PlainEnsurables, Plain, AsDefined
    <3>3. new # None =>
            new = ensurables[t].latestVersion \/ ensurables[t].latestVersion.rv < new.rv
      <4>1. new # None => new = old \/ (new.rv > old.rv /\ new.rv \in Nat)
        BY DEF new, Static, Resources
      <4>. QED BY <1>1, <3>1, <3>2, <4>1
    <3>. QED BY <1>3, <3>1, <3>3 DEF Tracked, AsDefined
  <2>. QED BY <2>1, <2>2, <2>3, <2>4 DEF InMind, EndsAreHeard
<1>. QED BY <1>3, <1>4, <1>5


LEMMA MeddledVersion ==
    ASSUME NEW t \in Statics, NEW kind \in Kinds, NEW obj \in Static, obj = Stored(objects[t])
    PROVE  \/ Settled(Meddled(t, kind)) \in {None, obj}
           \/ Settled(Meddled(t, kind)).rv > obj.rv
<1>. DEFINE made == CASE kind = "delete"  -> [obj EXCEPT !.term = TRUE]
                      [] kind = "unlabel" -> [obj EXCEPT !.care = FALSE]
                      [] kind = "disown"  -> [obj EXCEPT !.owner = None]
                      [] kind = "change"  ->
                            IF Changeable(t) THEN [obj EXCEPT !.spec = "changed"] ELSE obj
            all == [spec: Contents, owner: CRDUids \cup {None}, care: BOOLEAN, rv: {obj.rv}, term: BOOLEAN]
<1>1. made \in all
  <2>1. obj \in all
    BY DEF Static, Resources
  <2>2. /\ [obj EXCEPT !.term = TRUE] \in all
        /\ [obj EXCEPT !.care = FALSE] \in all
        /\ [obj EXCEPT !.owner = None] \in all
        /\ [obj EXCEPT !.spec = "changed"] \in all
    BY <2>1 DEF Contents
  <2>. QED BY <2>1, <2>2 DEF Kinds
<1>2. Meddled(t, kind) = IF made = obj THEN obj ELSE [made EXCEPT !.rv = made.rv + 1]
  BY DEF Meddled
<1>. HIDE DEF made
<1>3. obj.rv \in Nat
  BY DEF Static, Resources
<1>4. [made EXCEPT !.rv = made.rv + 1].rv = obj.rv + 1
  BY <1>1
<1>. QED BY <1>2, <1>3, <1>4 DEF Settled

LEMMA UsersMind ==
    ASSUME TypeOK, CRDInv, PlainInv, MindedInv, InPlace, NEW t \in Statics, Collect(t) \/ Meddle(t)
    PROVE  \A u \in Statics : InMind(u)'
<1>1. Running /\ There /\ \A u \in Statics : InMind(u)
  BY DEF MindedInv, InPlace
<1>2. /\ UNCHANGED <<pc, req, queue, ensurables, uids>> /\ Stored(objects[t]) # None
      /\ spent' = spent \/ spent' = [spent EXCEPT !.meddles = spent.meddles + 1]
      /\ spent \in Budget
  BY DEF Collect, Meddle, Collectable, Owned, processVars, TypeOK, Budget
<1>3. spent'.faults = spent.faults /\ spent.meddles \in Nat /\ spent'.meddles \in Nat
      /\ (spent'.meddles = spent.meddles \/ spent'.meddles = spent.meddles + 1)
  BY <1>2 DEF Budget
<1>4. (UpdatesWork' => UpdatesWork) /\ (LeftAlone' => LeftAlone)
  BY <1>2, <1>3 DEF UpdatesWork, LeftAlone
<1>5. Stored(objects[t]) \in Static /\ objects[t] \in Versions(Static)
  BY <1>2, StoredType
<1>6. PICK obj : /\ objects' = Put(t, obj)
                 /\ Settled(obj) \in Static \cup {None}
                 /\ \/ Settled(obj) \in {None, Stored(objects[t])}
                    \/ Settled(obj).rv > Stored(objects[t]).rv
  <2>1. CASE Collect(t)
    <3>1. objects' = Put(t, None) /\ Settled(None) = None
      BY <2>1 DEF Collect, Settled
    <3>. QED BY <3>1
  <2>2. CASE Meddle(t)
    <3>1. PICK kind \in Meddling : objects' = Put(t, Meddled(t, kind))
      BY <2>2 DEF Meddle
    <3>2. kind \in Kinds
      BY BoundsAssumption
    <3>3. Settled(Meddled(t, kind)) \in Static \cup {None}
      BY <1>5, <3>2, MeddledType, SettledType
    <3>4. \/ Settled(Meddled(t, kind)) \in {None, Stored(objects[t])}
          \/ Settled(Meddled(t, kind)).rv > Stored(objects[t]).rv
      BY <1>5, <3>2, MeddledVersion
    <3>. QED BY <3>1, <3>3, <3>4
  <2>. QED BY <2>1, <2>2
<1>7. LeftAlone' => spent.meddles = 0
  <2>1. CASE Meddle(t)
    <3>1. spent'.meddles = spent.meddles + 1
      BY <1>2, <2>1 DEF Meddle, Budget
    <3>. QED BY <1>3, <3>1 DEF LeftAlone
  <2>2. CASE Collect(t)
    <3>1. Stored(objects[t]).owner \in 1..uids
      BY <2>2, PlainEnds, <1>2 DEF Collect, Collectable, Owned, Owners, Plain
    <3>2. uidOfCRD \in 1..uids
      BY <1>1, CRDEnds DEF There, uidOfCRD
    <3>3. uids # 1
      BY <2>2, <3>1, <3>2 DEF Collect, Collectable
    <3>4. spent' = spent
      BY <2>2 DEF Collect
    <3>. QED BY <1>2, <3>3, <3>4 DEF LeftAlone
  <2>. QED BY <2>1, <2>2
<1>8. \A u \in Statics : Requested(u)' = Requested(u)
  BY <1>2 DEF Requested
<1>9. InMind(t)'
  BY <1>1, <1>2, <1>4, <1>6, <1>7, <1>8, OthersMind
<1>10. \A u \in Statics \ {t} : objects'[u] = objects[u]
  BY <1>5, <1>6, PlainPut
<1>. QED BY <1>1, <1>2, <1>4, <1>8, <1>9, <1>10, InMindFrame

LEMMA SyncMinds ==
    ASSUME TypeOK, PlainInv, MindedInv, InPlace, NEW t \in Statics, Sync(t)
    PROVE  \A u \in Statics : InMind(u)'
<1>. DEFINE v == objects[t]
<1>1. /\ UNCHANGED <<pc, req, ensurables, uids, spent>> /\ queue \subseteq queue'
      /\ Len(v) > 1 /\ objects'[t] = Tail(v)
      /\ \A u \in Statics \ {t} : objects'[u] = objects[u]
      /\ passes(v[1], v[2]) => t \in queue'
  BY DEF Sync, Deliver, processVars, TypeOK
<1>2. \A u \in Statics : InMind(u) /\ (Requested(u) => Requested(u)')
  BY <1>1 DEF MindedInv, Requested
<1>3. (UpdatesWork' <=> UpdatesWork) /\ (LeftAlone' <=> LeftAlone)
  BY <1>1 DEF UpdatesWork, LeftAlone
<1>4. v \in Versions(Static)
  BY StoredType
<1>5. /\ Stored(Tail(v)) = Stored(v) /\ Len(Tail(v)) = Len(v) - 1 /\ Len(v) \in Nat
      /\ \A i \in 1..Len(Tail(v)) : Tail(v)[i] = v[i + 1]
      /\ Heard(v) => passes(v[1], v[2]) \/ Heard(Tail(v))
  <2>. HIDE DEF v
  <2>1. Stored(Tail(v)) = Stored(v) /\ Len(Tail(v)) = Len(v) - 1
        /\ \A i \in 1..Len(Tail(v)) : Tail(v)[i] = v[i + 1]
    BY <1>1, <1>4, TailFacts
  <2>2. Len(v) \in Nat
    BY <1>4, VersionsFacts
  <2>3. Heard(v) => passes(v[1], v[2]) \/ Heard(Tail(v))
    BY <1>1, <1>4, HeardTail
  <2>. QED BY <2>1, <2>2, <2>3
<1>6. EndsAreHeard' => Minded(t)'
  <2>. SUFFICES ASSUME EndsAreHeard PROVE Minded(t)'
    BY <1>3 DEF EndsAreHeard
  <2>1. t \in queue' => Requested(t)'
    BY DEF Requested
  <2>2. CASE Requested(t)
    BY <1>2, <2>2 DEF Minded
  <2>3. CASE Heard(v)
    BY <1>1, <1>5, <2>1, <2>3 DEF Minded
  <2>4. CASE HasOwner(Stored(v)) /\ (UpdatesWork => AsDefined(Stored(v)))
    BY <1>1, <1>3, <1>5, <2>4 DEF Minded
  <2>. QED BY <1>2, <2>2, <2>3, <2>4 DEF InMind, Minded
<1>7. UpdatesWork' => Tracked(t)'
  BY <1>1, <1>2, <1>3, <1>5 DEF InMind, Tracked
<1>8. LeftAlone' => LossHeard(objects'[t])
  <2>. SUFFICES ASSUME LeftAlone', ~HasOwner(Stored(Tail(v))),
                       NEW i \in 1..(Len(Tail(v)) - 1), HasOwner(Tail(v)[i])
                PROVE  passes(Tail(v)[i], Tail(v)[i + 1])
    BY <1>1 DEF LossHeard
  <2>1. \A j \in 1..(Len(v) - 1) : HasOwner(v[j]) => passes(v[j], v[j + 1])
    BY <1>2, <1>3, <1>5 DEF InMind, LossHeard
  <2>2. /\ i \in 1..Len(Tail(v)) /\ i + 1 \in 1..Len(Tail(v))
        /\ i + 1 \in 1..(Len(v) - 1)
    BY <1>5
  <2>3. Tail(v)[i] = v[i + 1] /\ Tail(v)[i + 1] = v[(i + 1) + 1]
    BY <1>5, <2>2
  <2>. QED BY <2>1, <2>2, <2>3
<1>9. InMind(t)'
  BY <1>6, <1>7, <1>8 DEF InMind
<1>. QED BY <1>1, <1>2, <1>3, <1>9, InMindFrame

LEMMA ReconcileMinds ==
    ASSUME TypeOK, CRDInv, MindedInv, InPlace, NEW t \in Statics, Reconcile(t)
    PROVE  \A u \in Statics : InMind(u)'
<1>1. Seen
  BY DEF CRDInv, InPlace, There, Seen, Cached, Stored
<1>2. UNCHANGED <<objects, uids>> /\ spent'.meddles = spent.meddles /\ spent'.faults >= spent.faults
      /\ spent.faults \in Nat /\ spent'.faults \in Nat
  BY DEF Reconcile, worldVars, Fault, TypeOK
<1>3. (UpdatesWork' => UpdatesWork) /\ (LeftAlone' => LeftAlone)
  BY <1>2 DEF UpdatesWork, LeftAlone
<1>4. ASSUME NEW u \in Statics
      PROVE  ensurables'[u].latestVersion = ensurables[u].latestVersion
  <2>1. CASE UNCHANGED ensurables
    BY <2>1
  <2>2. CASE ensurables' = [ensurables EXCEPT ![t] = SetOwner(ensurables[t], Cached(crd).uid)]
    BY <2>2 DEF SetOwner, TypeOK, StaticEnsurable, Ensurables
  <2>. QED BY <1>1, <2>1, <2>2 DEF Reconcile
<1>5. ASSUME NEW u \in Statics, Requested(u)
      PROVE  Requested(u)'
  <2>1. u \in queue
    BY <1>5 DEF Reconcile, Requested
  <2>. QED BY <1>1, <2>1 DEF Reconcile, GoOn, Requested
<1>. QED BY <1>2, <1>3, <1>4, <1>5, InMindFrame DEF MindedInv

LEMMA StartMinds ==
    ASSUME TypeOK, BootstrapInv, Start
    PROVE  \A u \in Statics : InMind(u)'
<1>. SUFFICES ASSUME NEW t \in Statics PROVE InMind(t)'
  OBVIOUS
<1>1. /\ objects' = objects /\ ensurables' = ensurables
      /\ AsDefined(Stored(objects[t])) /\ ensurables[t].latestVersion = Stored(objects[t])
  BY DEF Start, BootstrapInv, worldVars
<1>2. Requested(t)'
  BY <1>1 DEF Start, Requested, AsDefined, DoICare
<1>3. LossHeard(objects'[t])
  <2>1. Len(objects[t]) = 1
    BY DEF Start, BootstrapInv, Running, UpToDate, TypeOK
  <2>. QED BY <1>1, <2>1 DEF LossHeard
<1>4. Tracked(t)'
  BY <1>1 DEF Tracked, AsDefined
<1>. QED BY <1>2, <1>3, <1>4 DEF InMind, Minded

-----------------------------------------------------------------------------
(* MindedInv: what EnsureStatic does. *)

LEMMA MadeOwned ==
    ASSUME NEW t \in Statics, NEW contents, NEW owners, NEW labels,
           NEW e \in PlainEnsurables(t, contents, owners, labels), e.owner # None
    PROVE  /\ Created(e).owner # None
           /\ \A found : Updated(e, found).owner # None
<1>. DEFINE latest == LatestDefinition(e)
            domain == {"spec", "owner", "care", "rv", "term"}
            Owning(obj) == DOMAIN obj = domain /\ obj.owner = e.owner
<1>1. Owning(latest)
  <2>. DEFINE def == IF e.latestVersion # None THEN e.latestVersion ELSE MakeMeCare(e.Definition)
  <2>1. DOMAIN def = domain
    <3>1. CASE e.latestVersion # None
      BY <3>1 DEF PlainEnsurables, Plain
    <3>2. CASE e.latestVersion = None
      BY <3>2 DEF PlainEnsurables, MakeMeCare
    <3>. QED BY <3>1, <3>2
  <2>2. latest = [def EXCEPT !.owner = e.owner]
    BY DEF LatestDefinition, WithOwner
  <2>. HIDE DEF def, latest
  <2>. QED BY <2>1, <2>2
<1>. HIDE DEF latest
<1>2. ASSUME NEW rv, NEW term
      PROVE  Owning(Completed(e, [latest EXCEPT !.rv = rv, !.term = term]))
  <2>1. Owning([latest EXCEPT !.rv = rv, !.term = term])
    BY <1>1
  <2>2. ASSUME NEW obj, Owning(obj)
        PROVE  Owning(Completed(e, obj))
    BY <2>2 DEF Completed
  <2>. QED BY <2>1, <2>2
<1>3. Created(e).owner # None
  BY <1>2 DEF Created, latest
<1>4. ASSUME NEW found
      PROVE  Updated(e, found).owner # None
  <2>. DEFINE made == Completed(e, [latest EXCEPT !.rv = found.rv, !.term = found.term])
  <2>1. Owning(made)
    BY <1>2
  <2>2. Updated(e, found) = IF made = found THEN found ELSE [made EXCEPT !.rv = found.rv + 1]
    BY DEF Updated, latest
  <2>. HIDE DEF made
  <2>. QED BY <2>1, <2>2
<1>. QED BY <1>3, <1>4

\* How an Ensure ends for one that has an owner.
LEMMA EnsureLeavesOwned ==
    ASSUME TypeOK, NEW t \in Statics,
           NEW e \in PlainEnsurables(t, ContentsOf(t), Owners, Labels), e.owner # None,
           NEW found \in Plain(ContentsOf(t), Owners, Labels) \cup {None},
           NEW server \in Plain(ContentsOf(t), Owners, Labels) \cup {None},
           NEW o \in Ensure(e, found, server)
    PROVE  \/ ~o.ok /\ o.server = server
           \/ HasOwner(o.server)
           \/ o.server = server /\ HasOwner(found)
<1>. DEFINE good == Plain(ContentsOf(t), Owners, Labels)
<1>1. None \notin good
  BY PlainIsStatic
<1>2. found # None => found.rv \in Nat /\ found.term = FALSE
  BY DEF Plain
<1>3. /\ Created(e) \in good
      /\ found # None => Updated(e, found) \in good
  BY <1>2, PlainMade, PlainIsStatic
<1>4. CASE o = Outcome(FALSE, server, e, TRUE)
  BY <1>4 DEF Outcome
<1>5. CASE EndOfCheck(o, e, found, server)
  BY <1>5 DEF EndOfCheck, Equal, Outcome, HasOwner
<1>6. CASE EndOfSend(o, e, found, server)
  <2>1. PICK rv \in {NoVersion} \cup (IF found = None THEN {} ELSE {found.rv}),
             made \in {Created(e)} \cup (IF found = None THEN {} ELSE {Updated(e, found)}) :
            \/ o = Outcome(FALSE, server, Stamped(e, rv), FALSE)
            \/ o = Outcome(FALSE, server, Stamped(e, rv), TRUE)
            \/ o = Outcome(FALSE, made, Stamped(e, rv), TRUE)
            \/ o = Outcome(TRUE, made, Remember(Stamped(e, rv), made), FALSE)
    BY <1>6 DEF EndOfSend
  <2>2. made \in good /\ made.owner # None
    <3>. HIDE DEF good
    <3>. QED BY <1>3, MadeOwned
  <2>3. HasOwner(made)
    BY <1>1, <2>2 DEF HasOwner
  <2>. QED BY <2>1, <2>3 DEF Outcome
<1>. QED BY <1>4, <1>5, <1>6, EnsureEnds

LEMMA EnsureStaticMinds ==
    ASSUME TypeOK, OwnerSet, PlainInv, MindedInv, InPlace, EnsureStatic, NEW t \in Statics, t = req
    PROVE  \A u \in Statics : InMind(u)'
<1>. DEFINE v == objects[t]
            e == ensurables[t]
<1>1. pc = "ensure" /\ e.owner # None /\ Running
  BY DEF EnsureStatic, OwnerSet, InPlace
<1>2. PICK o \in Ensure(e, Cached(v), Stored(v)) :
        /\ IF o.fault THEN Fault ELSE UNCHANGED spent
        /\ objects' = Put(t, o.server)
        /\ ensurables' = [ensurables EXCEPT ![t] = o.e]
        /\ Done(~o.ok)
  BY DEF EnsureStatic
<1>3. /\ spent'.meddles = spent.meddles /\ uids' = uids
      /\ spent.faults \in Nat /\ (o.fault => spent'.faults = spent.faults + 1)
      /\ ~o.fault => spent' = spent
  BY <1>2 DEF EnsureStatic, Fault, TypeOK
<1>4. (UpdatesWork' => UpdatesWork /\ ~o.fault) /\ (LeftAlone' <=> LeftAlone)
  BY <1>3 DEF UpdatesWork, LeftAlone
<1>5. /\ v \in Versions(Static)
      /\ e \in PlainEnsurables(t, ContentsOf(t), Owners, Labels)
      /\ Cached(v) \in Plain(ContentsOf(t), Owners, Labels) \cup {None}
      /\ Stored(v) \in Plain(ContentsOf(t), Owners, Labels) \cup {None}
  BY <1>1, StoredType, PlainEnds DEF PlainInv
<1>6. Settled(o.server) = o.server
  BY <1>1, <1>2, <1>3, EnsureKeepsPlain
<1>7. /\ Stored(objects'[t]) = o.server
      /\ Heard(v) => Heard(objects'[t])
      /\ o.server = Stored(v) => objects' = objects
      /\ \A u \in Statics \ {t} : objects'[u] = objects[u]
  <2>1. o.server \in Static \cup {None}
    BY <1>1, <1>2, StoredType, EnsureOutcome
  <2>2. /\ Stored(objects'[t]) = o.server
        /\ Heard(v) => Heard(objects'[t])
        /\ \A u \in Statics \ {t} : objects'[u] = objects[u]
    BY <1>1, <1>2, <1>5, <1>6, <2>1, PlainPut
  <2>3. o.server = Stored(v) => objects' = objects
    BY <1>1, <1>2, <1>6 DEF Put, Write
  <2>. QED BY <2>2, <2>3
<1>8. /\ ensurables'[t] = o.e
      /\ \A u \in Statics \ {t} : ensurables'[u] = ensurables[u]
  BY <1>1, <1>2 DEF TypeOK
<1>9. (~o.ok => t \in queue') /\ queue \subseteq queue'
  BY <1>2 DEF Done
<1>10. InMind(t)
  BY <1>1 DEF MindedInv
<1>11. \/ ~o.ok /\ o.server = Stored(v)
       \/ HasOwner(o.server)
       \/ o.server = Stored(v) /\ HasOwner(Cached(v))
  BY <1>1, <1>2, <1>5, EnsureLeavesOwned
<1>12. LeftAlone => LossHeard(objects'[t])
  BY <1>7, <1>10, <1>11 DEF InMind, LossHeard
<1>13. ASSUME HasOwner(Cached(v)), ~HasOwner(Stored(v)), LeftAlone
       PROVE  Heard(v)
  <2>1. Len(v) \in Nat /\ Len(v) >= 1
    BY <1>5, VersionsFacts
  <2>2. Len(v) # 1
    BY <1>13 DEF Cached, Stored
  <2>3. 1 \in 1..(Len(v) - 1)
    <3>. HIDE DEF v
    <3>. QED BY <2>1, <2>2
  <2>4. passes(v[1], v[1 + 1])
    BY <1>10, <1>13, <2>3 DEF InMind, LossHeard, Cached
  <2>. QED BY <2>3, <2>4 DEF Heard
<1>14. LeftAlone => \/ Requested(t)' /\ ~o.ok
                    \/ Heard(objects'[t])
                    \/ HasOwner(Stored(objects'[t]))
  BY <1>7, <1>9, <1>11, <1>13 DEF Requested
<1>15. ASSUME UpdatesWork'
       PROVE  HasOwner(o.server) /\ AsDefined(o.server) /\ o.e.latestVersion = o.server
  <2>1. Cached(v) = Stored(v)
    <3>1. Len(v) \in Nat /\ Len(v) >= 1
      BY <1>5, VersionsFacts
    <3>2. MaxLag = 0 /\ Informed
      BY <1>15 DEF UpdatesWork, EnsureStatic
    <3>3. Len(v) <= 0 + 1
      BY <1>1, <3>2 DEF Informed
    <3>4. Len(v) = 1
      <4>1. \A n \in Nat : n >= 1 /\ n <= 0 + 1 => n = 1
        OBVIOUS
      <4>. QED BY <3>1, <3>3, <4>1
    <3>. QED BY <3>4 DEF Cached, Stored
  <2>2. Tracked(t)
    BY <1>4, <1>10, <1>15 DEF InMind
  <2>3. o.ok /\ AsDefined(o.server) /\ o.e.latestVersion = o.server
    <3>1. /\ AsDefined(e.latestVersion)
          /\ Stored(v) # None =>
                Stored(v) = e.latestVersion \/ e.latestVersion.rv < Stored(v).rv
      BY <2>2 DEF Tracked
    <3>2. e.latestVersion # None
      BY <3>1 DEF AsDefined
    <3>3. o \in Ensure(e, Stored(v), Stored(v)) /\ ~o.fault
      BY <1>2, <1>4, <1>15, <2>1
    <3>. HIDE DEF v, e
    <3>. QED BY <1>5, <3>1, <3>2, <3>3, EnsureDefines
  <2>. QED BY <1>11, <2>1, <2>3
<1>16. InMind(t)'
  <2>1. UpdatesWork' => Tracked(t)'
    BY <1>7, <1>8, <1>15 DEF Tracked, AsDefined
  <2>2. UpdatesWork' => Minded(t)'
    BY <1>7, <1>15 DEF Minded, AsDefined
  <2>3. LeftAlone' => Minded(t)'
    BY <1>4, <1>14, <2>2 DEF Minded
  <2>. QED BY <1>4, <1>12, <2>1, <2>2, <2>3 DEF InMind, EndsAreHeard
<1>17. ASSUME NEW u \in Statics \ {t}
       PROVE  InMind(u)'
  <2>1. Requested(u) => Requested(u)'
    BY <1>9, <1>17 DEF Requested
  <2>. QED BY <1>4, <1>7, <1>8, <2>1, InMindFrame DEF MindedInv
<1>. QED BY <1>16, <1>17


LEMMA MindedStep ==
    ASSUME TypeOK, OwnerSet, CRDInv, PlainInv, BootstrapInv, MindedInv, [Next]_vars
    PROVE  MindedInv'
<1>. SUFFICES ASSUME InPlace' PROVE \A u \in Statics : InMind(u)'
  BY DEF MindedInv
<1>1. Start \/ (InPlace /\ UNCHANGED <<crd, born, uids>>)
  BY CRDStep DEF CRDKept
<1>2. Running'
  BY DEF InPlace
<1>3. ~(CreateCRD \/ DeleteCRD \/ CRDGone \/ SyncCRD)
  BY AdministratorsKeepCRD
<1>4. ~(Exit \/ Restart \/ Uninstall \/ \E t \in Statics : Bootstrap(t))
  BY <1>2 DEF Exit, Restart, Uninstall, Launch, Bootstrap, Running
<1>5. CASE Start
  BY <1>5, StartMinds
<1>6. CASE ~Start
  <2>1. InPlace /\ ~DeleteSCC
    BY <1>1, <1>6 DEF CRDInv, DeleteSCC
  <2>2. CASE \E t \in Statics : Collect(t) \/ Meddle(t)
    BY <2>1, <2>2, UsersMind
  <2>3. CASE \E t \in Statics : Sync(t)
    BY <2>1, <2>3, SyncMinds
  <2>4. CASE \E t \in Statics : Reconcile(t)
    BY <2>1, <2>4, ReconcileMinds
  <2>5. CASE EnsureStatic
    <3>1. req \in Statics
      BY <2>5 DEF EnsureStatic, TypeOK
    <3>. QED BY <2>1, <2>5, <3>1, EnsureStaticMinds
  <2>6. CASE UNCHANGED vars
    <3>1. UNCHANGED <<objects, pc, req, queue, ensurables, uids, spent>>
      BY <2>6 DEF vars, worldVars, processVars
    <3>2. \A u \in Statics : InMind(u) /\ (Requested(u) => Requested(u)')
      BY <2>1, <3>1 DEF MindedInv, Requested
    <3>3. (UpdatesWork' => UpdatesWork) /\ (LeftAlone' => LeftAlone)
      BY <3>1 DEF UpdatesWork, LeftAlone
    <3>. QED BY <3>1, <3>2, <3>3, InMindFrame
  <2>. QED BY <1>3, <1>4, <1>6, <2>1, <2>2, <2>3, <2>4, <2>5, <2>6 DEF Next, Work
<1>. QED BY <1>5, <1>6

-----------------------------------------------------------------------------
(* RestInv is inductive, and enough. *)

LEMMA RestInit == Init => RestInv
<1>. SUFFICES ASSUME Init PROVE RestInv
  OBVIOUS
<1>1. ~Running
  BY DEF Init, Running
<1>2. CRDInv
  <2>1. crd = <<[uid |-> 1, deleting |-> FALSE]>> /\ Len(crd) = 1 /\ uids = 1 /\ born = 0
    BY DEF Init
  <2>2. \A i \in 1..Len(crd) : crd[i].uid \in 1..uids
    BY <2>1
  <2>. QED BY <1>1, <2>1, <2>2 DEF CRDInv, InPlace
<1>3. PlainInv
  <2>1. ASSUME NEW t \in Statics
        PROVE  objects[t] \in Versions(Plain(ContentsOf(t), Owners, Labels))
    BY DEF Init, Versions
  <2>. QED BY <2>1, NewIsPlain DEF PlainInv, Init
<1>4. BootstrapInv
  <2>1. UpToDate(objects)
    <3>1. DOMAIN objects = Statics /\ \A t \in Statics : objects[t] = <<None>>
      BY DEF Init
    <3>2. Len(<<None>>) = 1
      OBVIOUS
    <3>. QED BY <3>1, <3>2 DEF UpToDate
  <2>. QED BY <2>1 DEF Init, BootstrapInv
<1>5. MindedInv
  BY <1>1 DEF MindedInv, InPlace
<1>. QED BY <1>2, <1>3, <1>4, <1>5 DEF RestInv

LEMMA RestStep ==
    ASSUME QUIET
    PROVE  StaticsInv /\ RestInv /\ [Next]_vars => RestInv'
<1>. SUFFICES ASSUME StaticsInv, RestInv, [Next]_vars PROVE RestInv'
  OBVIOUS
<1>. QED BY CRDStep, PlainStep, BootstrapStep, MindedStep DEF RestInv, StaticsInv

\* At rest nothing is requested and nothing will be heard, so that what is left of
\* Minded is that the static is right.
LEMMA RestIsEnough ==
    ASSUME TypeOK, RestInv
    PROVE  StaticsRestRight
<1>. SUFFICES ASSUME AtRest, InPlace, NEW t \in Statics
              PROVE  /\ EndsAreHeard => WellOwned(t)
                     /\ UpdatesWork => Golden(t)
  BY DEF StaticsRestRight
<1>1. ~Requested(t)
  BY DEF AtRest, Requested
<1>2. ~Heard(objects[t])
  <2>1. Len(objects[t]) = 1
    BY DEF AtRest, UpToDate, TypeOK
  <2>. QED BY <2>1 DEF Heard
<1>3. EndsAreHeard => /\ HasOwner(Stored(objects[t]))
                      /\ UpdatesWork => AsDefined(Stored(objects[t]))
  BY <1>1, <1>2 DEF RestInv, MindedInv, InMind, Minded
<1>4. EndsAreHeard => WellOwned(t)
  <2>1. ~Collectable(t)
    BY DEF AtRest
  <2>. QED BY <1>3, <2>1 DEF WellOwned, Owned, HasOwner, Collectable
<1>5. UpdatesWork => Golden(t)
  BY <1>3 DEF Golden, AsDefined, EndsAreHeard
<1>. QED BY <1>4, <1>5

\* At rest, with the CRD that was there when the controllers started, and if nobody
\* touches a static between the start of a process and its informers' first lists:
\* every static is there and belongs to that CRD, if EndsAreHeard (requests are answered
\* and caches keep up; or users have changed nothing, or one thing and there was no
\* other CRD before); and it is what defs/ say, if requests are answered and caches keep
\* up (UpdatesWork).  For any set of statics, crashes, deletions of the CRD and, where
\* UpdatesWork, changes by users; where EndsAreHeard alone, also for any lag and faults.
\* EnsureStatics, the predicate of the watches, the requeue after an error and the
\* comparison in Ensure are what it rests on.
THEOREM StaticsComeRight ==
    ASSUME QUIET
    PROVE  Spec => []StaticsRestRight
<1>1. Init => StaticsInv /\ RestInv
  BY StaticsInit, RestInit
<1>2. StaticsInv /\ RestInv /\ [Next]_vars => StaticsInv' /\ RestInv'
  BY StaticsStep, RestStep
<1>3. StaticsInv /\ RestInv => StaticsRestRight
  BY RestIsEnough DEF StaticsInv
<1>. QED BY <1>1, <1>2, <1>3, PTL DEF Spec
=============================================================================
