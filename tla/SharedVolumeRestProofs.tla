------------------------ MODULE SharedVolumeRestProofs ------------------------
(***************************************************************************)
(* Nothing is forgotten: RestInv is inductive, and what follows from it.   *)
(***************************************************************************)
EXTENDS SharedVolumeRest, SharedVolumeSafety

-----------------------------------------------------------------------------
(* Versions of PVs and PVCs keep being recognised. *)

LEMMA RecognisedEnds ==
    ASSUME NEW S, NEW v \in Versions(S), NEW s, NEW specs, AllRecognised(v, s, specs)
    PROVE  Recognised(Cached(v), s, specs) /\ Recognised(Stored(v), s, specs)
<1>1. 1 \in 1..Len(v) /\ Len(v) \in 1..Len(v)
  <2>1. Len(v) \in Nat /\ Len(v) >= 1
    BY VersionsFacts
  <2>. QED BY <2>1
<1>. QED BY <1>1 DEF AllRecognised, Cached, Stored

LEMMA RecognisedWrite ==
    ASSUME NEW K, NEW S, NEW objects \in [K -> Versions(S)],
           NEW key \in K, NEW obj \in S \cup {None},
           NEW s, NEW specs, AllRecognised(objects[key], s, specs), Recognised(obj, s, specs)
    PROVE  AllRecognised(Write(objects, key, obj)[key], s, specs)
<1>1. CASE Write(objects, key, obj) = objects
  BY <1>1
<1>2. CASE Write(objects, key, obj)[key] = Append(objects[key], obj)
  <2>. DEFINE v == objects[key]
  <2>0. v \in Versions(S)
    OBVIOUS
  <2>2. AllRecognised(v, s, specs)
    OBVIOUS
  <2>. HIDE DEF v
  <2>. DEFINE a == Append(v, obj)
  <2>1. /\ Len(v) \in Nat /\ Len(a) = Len(v) + 1
        /\ \A i \in 1..Len(v) : a[i] = v[i]
        /\ a[Len(v) + 1] = obj
    BY <2>0, VersionsFacts, AppendFacts
  <2>. HIDE DEF a
  <2>3. AllRecognised(a, s, specs)
    BY <2>1, <2>2 DEF AllRecognised
  <2>. QED BY <1>2, <2>3 DEF a, v
<1>. QED BY <1>1, <1>2, WriteFacts

LEMMA RecognisedTail ==
    ASSUME NEW S, NEW v \in Versions(S), Len(v) > 1,
           NEW s, NEW specs, AllRecognised(v, s, specs)
    PROVE  AllRecognised(Tail(v), s, specs)
BY TailFacts DEF AllRecognised

LEMMA RecognisedRelist ==
    ASSUME NEW S, NEW v \in Versions(S),
           NEW s, NEW specs, AllRecognised(v, s, specs)
    PROVE  AllRecognised(<<Stored(v)>>, s, specs)
<1>1. Len(<<Stored(v)>>) = 1 /\ <<Stored(v)>>[1] = Stored(v)
  BY RelistFacts
<1>2. \A i \in 1..1 : i = 1
  OBVIOUS
<1>. QED BY <1>1, <1>2, RecognisedEnds DEF AllRecognised

-----------------------------------------------------------------------------
(* What an Ensurable of a PV or PVC makes and remembers. *)

LEMMA LatestFacts ==
    ASSUME NEW T, NEW U, NEW S, NEW e \in Ensurables(T, U, S, SharedVolumes), e # None,
           None \notin Resources(S, SharedVolumes),
           NEW s, NEW specs, EntryRecognised(e, s, specs)
    PROVE  /\ LatestDefinition(e) \in Resources(S, SharedVolumes)
           /\ LatestDefinition(e).owner = s
           /\ LatestDefinition(e).spec \in specs
           /\ LatestDefinition(e).care
           /\ e.latestVersion # None => LatestDefinition(e) = e.latestVersion
           /\ e.latestVersion = None =>
                LatestDefinition(e).rv = e.Definition.rv /\ LatestDefinition(e).spec = e.Definition.spec
<1>1. LatestDefinition(e) \in Resources(S, SharedVolumes)
  BY DefinitionType
<1>2. CASE e.latestVersion # None
  <2>1. LatestDefinition(e) = e.latestVersion
    BY <1>2 DEF EntryRecognised, LatestDefinition, WithOwner
  <2>. QED BY <1>1, <1>2, <2>1 DEF EntryRecognised, Recognised
<1>3. CASE e.latestVersion = None
  <2>1. LatestDefinition(e) = [e.Definition EXCEPT !.care = TRUE]
    BY <1>3 DEF EntryRecognised, LatestDefinition, WithOwner, MakeMeCare
  <2>2. e.Definition \in Resources(S, SharedVolumes)
    BY DEF Ensurables
  <2>3. /\ LatestDefinition(e).owner = e.Definition.owner
        /\ LatestDefinition(e).spec = e.Definition.spec
        /\ LatestDefinition(e).rv = e.Definition.rv
        /\ LatestDefinition(e).care
    BY <2>1, <2>2 DEF Resources
  <2>. QED BY <1>1, <1>3, <2>3 DEF EntryRecognised
<1>. QED BY <1>2, <1>3

\* obj is made from the definition that e would send.
Made(e, obj, S) ==
    /\ obj \in Resources(S, SharedVolumes)
    /\ obj.owner = LatestDefinition(e).owner
    /\ obj.spec = LatestDefinition(e).spec
    /\ obj.care

LEMMA MadeFacts ==
    ASSUME NEW T, NEW U, NEW S, NEW e \in Ensurables(T, U, S, SharedVolumes),
           "DaemonSet" \notin T, LatestDefinition(e) \in Resources(S, SharedVolumes),
           LatestDefinition(e).care
    PROVE  /\ Made(e, Created(e), S)
           /\ \A found \in Resources(S, SharedVolumes) : Made(e, Updated(e, found), S)
<1>. DEFINE latest == LatestDefinition(e)
<1>1. \A obj : Completed(e, obj) = obj
  BY DEF Ensurables, Completed
<1>2. Created(e) = [latest EXCEPT !.rv = 1, !.term = FALSE]
  BY <1>1 DEF Created
<1>3. \A found : Updated(e, found) =
        LET made == [latest EXCEPT !.rv = found.rv, !.term = found.term]
        IN  IF made = found THEN found ELSE [made EXCEPT !.rv = found.rv + 1]
  BY <1>1 DEF Updated
<1>4. latest \in Resources(S, SharedVolumes) /\ latest.care
  OBVIOUS
<1>. HIDE DEF latest
<1>5. Made(e, Created(e), S)
  <2>1. /\ [latest EXCEPT !.rv = 1, !.term = FALSE] \in Resources(S, SharedVolumes)
        /\ [latest EXCEPT !.rv = 1, !.term = FALSE].owner = latest.owner
        /\ [latest EXCEPT !.rv = 1, !.term = FALSE].spec = latest.spec
        /\ [latest EXCEPT !.rv = 1, !.term = FALSE].care = latest.care
    BY <1>4 DEF Resources
  <2>. QED BY <1>2, <1>4, <2>1 DEF Made, latest
<1>6. ASSUME NEW found \in Resources(S, SharedVolumes)
      PROVE  Made(e, Updated(e, found), S)
  <2>. DEFINE made == [latest EXCEPT !.rv = found.rv, !.term = found.term]
  <2>1. /\ made \in Resources(S, SharedVolumes)
        /\ made.owner = latest.owner /\ made.spec = latest.spec /\ made.care
    BY <1>4 DEF Resources
  <2>2. Updated(e, found) = IF made = found THEN found ELSE [made EXCEPT !.rv = found.rv + 1]
    BY <1>3
  <2>3. found.rv + 1 \in Nat
    BY DEF Resources
  <2>. HIDE DEF made
  <2>4. [made EXCEPT !.rv = found.rv + 1] \in Resources(S, SharedVolumes)
        /\ [made EXCEPT !.rv = found.rv + 1].owner = made.owner
        /\ [made EXCEPT !.rv = found.rv + 1].spec = made.spec
        /\ [made EXCEPT !.rv = found.rv + 1].care = made.care
    BY <2>1, <2>3 DEF Resources
  <2>. QED BY <2>1, <2>2, <2>4 DEF Made, latest
<1>. QED BY <1>5, <1>6

LEMMA StampedRecognised ==
    ASSUME NEW T, NEW U, NEW S, NEW e \in Ensurables(T, U, S, SharedVolumes), NEW rv \in Nat,
           None \notin Resources(S, SharedVolumes), e # None,
           NEW s, NEW specs, EntryRecognised(e, s, specs)
    PROVE  EntryRecognised(Stamped(e, rv), s, specs)
<1>1. CASE e.latestVersion # None
  <2>1. e.latestVersion \in Resources(S, SharedVolumes)
    BY <1>1 DEF Ensurables
  <2>. DEFINE v == [e.latestVersion EXCEPT !.rv = rv]
  <2>2. /\ v \in Resources(S, SharedVolumes) /\ v.owner = e.latestVersion.owner
        /\ v.spec = e.latestVersion.spec /\ v.care = e.latestVersion.care
    BY <2>1 DEF Resources
  <2>3. Stamped(e, rv) = [e EXCEPT !.latestVersion = v]
    BY <1>1 DEF Stamped, Ensurables
  <2>. HIDE DEF v
  <2>4. /\ Stamped(e, rv).owner = e.owner /\ Stamped(e, rv).Definition = e.Definition
        /\ Stamped(e, rv).latestVersion = v
    BY <2>3 DEF Ensurables
  <2>. QED BY <1>1, <2>2, <2>4 DEF EntryRecognised, Recognised
<1>2. CASE e.latestVersion = None
  <2>1. e.Definition \in Resources(S, SharedVolumes)
    BY DEF Ensurables
  <2>. DEFINE d == [e.Definition EXCEPT !.rv = rv]
  <2>2. d.owner = e.Definition.owner /\ d.spec = e.Definition.spec
    BY <2>1 DEF Resources
  <2>3. Stamped(e, rv) = [e EXCEPT !.Definition = d]
    BY <1>2 DEF Stamped, Ensurables
  <2>. HIDE DEF d
  <2>4. /\ Stamped(e, rv).owner = e.owner /\ Stamped(e, rv).Definition = d
        /\ Stamped(e, rv).latestVersion = None
    BY <1>2, <2>3 DEF Ensurables
  <2>. QED BY <2>2, <2>4 DEF EntryRecognised
<1>. QED BY <1>1, <1>2

LEMMA RememberRecognised ==
    ASSUME NEW T, NEW U, NEW S, NEW e \in Ensurables(T, U, S, SharedVolumes), e # None,
           NEW s, NEW specs, EntryRecognised(e, s, specs),
           NEW obj, obj # None => Recognised(obj, s, specs) /\ obj.care
    PROVE  /\ EntryRecognised(Remember(e, obj), s, specs)
           /\ Remember(e, obj).latestVersion = obj
<1>1. /\ Remember(e, obj).owner = e.owner /\ Remember(e, obj).Definition = e.Definition
      /\ Remember(e, obj).latestVersion = obj
  BY DEF Remember, Ensurables
<1>. QED BY <1>1 DEF EntryRecognised

\* What Ensure makes has the label and is recognised, and so is what it remembers;
\* when it succeeds on what is stored, that has the label; it does succeed, unless
\* there is a fault, if there is nothing to change in the object that cannot be.
LEMMA EnsureMinds ==
    ASSUME NEW T, NEW U, NEW S, NEW e \in Ensurables(T, U, S, SharedVolumes),
           None \notin Ensurables(T, U, S, SharedVolumes),
           "DaemonSet" \notin T, None \notin Resources(S, SharedVolumes),
           NEW found \in Resources(S, SharedVolumes) \cup {None},
           NEW server \in Resources(S, SharedVolumes) \cup {None},
           NEW s, NEW specs, EntryRecognised(e, s, specs),
           Recognised(found, s, specs), Recognised(server, s, specs),
           found # None /\ VersionsEqual(LatestDefinition(e), found) => found.care,
           NEW o \in Ensure(e, found, server)
    PROVE  /\ Recognised(o.server, s, specs)
           /\ EntryRecognised(o.e, s, specs)
           /\ o.server # server => DoICare(o.server)
           /\ o.ok /\ found = server =>
                DoICare(o.server) /\ o.e.latestVersion = o.server
           /\ found = server /\ ~o.fault /\ (found # None => LatestDefinition(e).spec = found.spec) =>
                o.ok
<1>1. /\ LatestDefinition(e) \in Resources(S, SharedVolumes)
      /\ LatestDefinition(e).owner = s /\ LatestDefinition(e).spec \in specs
      /\ LatestDefinition(e).care
  BY LatestFacts
<1>2. CASE o = Outcome(FALSE, server, e, TRUE)
  BY <1>2 DEF Outcome
<1>3. CASE found # None /\ Equal(e, LatestDefinition(e), found)
            /\ o = Outcome(TRUE, server, Remember(e, found), FALSE)
  <2>1. found.care
    BY <1>3 DEF Equal
  <2>2. /\ EntryRecognised(Remember(e, found), s, specs)
        /\ Remember(e, found).latestVersion = found
    BY <2>1, RememberRecognised
  <2>. QED BY <1>3, <2>1, <2>2 DEF Outcome, DoICare
<1>4. ASSUME NEW rv \in {NoVersion} \cup (IF found = None THEN {} ELSE {found.rv}),
             NEW made \in {Created(e)} \cup (IF found = None THEN {} ELSE {Updated(e, found)}),
                \/ /\ o = Outcome(FALSE, server, Stamped(e, rv), FALSE)
                   /\ found # server \/ (found # None /\ made.spec # found.spec)
                \/ o = Outcome(FALSE, server, Stamped(e, rv), TRUE)
                \/ o = Outcome(FALSE, made, Stamped(e, rv), TRUE)
                \/ o = Outcome(TRUE, made, Remember(Stamped(e, rv), made), FALSE)
      PROVE  /\ Recognised(o.server, s, specs)
             /\ EntryRecognised(o.e, s, specs)
             /\ o.server # server => DoICare(o.server)
             /\ o.ok => DoICare(o.server) /\ o.e.latestVersion = o.server
             /\ found = server /\ ~o.fault /\ (found # None => LatestDefinition(e).spec = found.spec) =>
                  o.ok
  <2>1. rv \in Nat
    BY DEF NoVersion, Resources
  <2>2. Made(e, made, S)
    BY <1>1, MadeFacts
  <2>3. Recognised(made, s, specs) /\ made.care /\ made # None /\ made.spec = LatestDefinition(e).spec
    BY <1>1, <2>2 DEF Made, Recognised
  <2>4. EntryRecognised(Stamped(e, rv), s, specs)
    BY <2>1, StampedRecognised
  <2>5. Stamped(e, rv) \in Ensurables(T, U, S, SharedVolumes)
    BY <2>1, StampedType
  <2>6. Stamped(e, rv) # None
    BY <2>5
  <2>7. /\ EntryRecognised(Remember(Stamped(e, rv), made), s, specs)
        /\ Remember(Stamped(e, rv), made).latestVersion = made
    BY <2>3, <2>4, <2>5, <2>6, RememberRecognised
  <2>8. CASE o = Outcome(TRUE, made, Remember(Stamped(e, rv), made), FALSE)
    BY <2>3, <2>7, <2>8 DEF Outcome, DoICare
  <2>9. CASE /\ o = Outcome(FALSE, server, Stamped(e, rv), FALSE)
             /\ found # server \/ (found # None /\ made.spec # found.spec)
    BY <2>3, <2>4, <2>9 DEF Outcome
  <2>10. CASE o \in {Outcome(FALSE, server, Stamped(e, rv), TRUE),
                     Outcome(FALSE, made, Stamped(e, rv), TRUE)}
    BY <2>3, <2>4, <2>10 DEF Outcome, DoICare
  <2>. QED BY <1>4, <2>8, <2>9, <2>10
<1>5. CASE EndOfCheck(o, e, found, server)
  BY <1>3, <1>5 DEF EndOfCheck
<1>6. CASE EndOfSend(o, e, found, server)
  BY <1>4, <1>6 DEF EndOfSend
<1>. QED BY <1>2, <1>5, <1>6, EnsureEnds

-----------------------------------------------------------------------------
(* What concerns one SharedVolume, and who touches it. *)

LEMMA Belongings ==
    ASSUME TypeOK, NEW s \in SharedVolumes
    PROVE  /\ pvNameForSharedVolume[s] \in PVNames
           /\ svs \in [SharedVolumes -> Versions(SharedVolume)]
           /\ pvs \in [PVNames -> Versions(PV)]
           /\ pvcs \in [SharedVolumes -> Versions(PVC)]
           /\ svs[s] \in Versions(SharedVolume)
           /\ PVs(s) \in Versions(PV)
           /\ PVCs(s) \in Versions(PVC)
           /\ SVOf(s) \in SharedVolume \cup {None}
           /\ PVOf(s) = Stored(PVs(s)) /\ PVOf(s) \in PV \cup {None}
           /\ PVCOf(s) = Stored(PVCs(s)) /\ PVCOf(s) \in PVC \cup {None}
           /\ pvBySharedVolume[s] \in PVEnsurable \cup {None}
           /\ pvcBySharedVolume[s] \in PVCEnsurable \cup {None}
           /\ s # None
<1>1. /\ svs \in [SharedVolumes -> Versions(SharedVolume)]
      /\ pvs \in [PVNames -> Versions(PV)]
      /\ pvcs \in [SharedVolumes -> Versions(PVC)]
      /\ pvBySharedVolume[s] \in PVEnsurable \cup {None}
      /\ pvcBySharedVolume[s] \in PVCEnsurable \cup {None}
  BY DEF TypeOK, ClusterTypeOK
<1>2. pvNameForSharedVolume[s] \in PVNames /\ s # None
  BY NamesType, NoneAssumption
<1>. QED BY <1>1, <1>2, StoredTypes DEF SVOf, PVOf, PVCOf, PVs, PVCs

\* Nothing that matters to s changes, or it is announced.
LEMMA Frame ==
    ASSUME NEW s \in SharedVolumes, Minded(s), EventsFindOwner(s)',
           Announced(s) => Announced(s)',
           SVOf(s)' = SVOf(s), PVOf(s)' = PVOf(s), PVCOf(s)' = PVCOf(s),
           pvBySharedVolume'[s] = pvBySharedVolume[s],
           pvcBySharedVolume'[s] = pvcBySharedVolume[s],
           IF req = s THEN UNCHANGED workerVars ELSE req' # s
    PROVE  Minded(s)'
<1>1. Prompt => LabelsNoticed(s)'
  <2>. SUFFICES ASSUME LabelsNoticed(s) PROVE LabelsNoticed(s)'
    BY DEF Minded
  <2>1. CASE req = s
    BY <2>1 DEF LabelsNoticed, Remembers, Unused, workerVars
  <2>2. CASE req # s
    BY <2>2 DEF LabelsNoticed, Remembers, Unused
  <2>. QED BY <2>1, <2>2
<1>2. NothingForgotten(s)'
  <2>. SUFFICES ASSUME Exists(SVOf(s)), ~Announced(s) PROVE NothingForgotten(s)'
    BY DEF NothingForgotten, Exists
  <2>1. CASE req = s
    <3>1. Underway(s)
      BY <2>1 DEF Minded, NothingForgotten
    <3>2. Underway(s)'
      BY <2>1, <3>1 DEF Underway, workerVars
    <3>. QED BY <2>1, <3>2 DEF NothingForgotten, workerVars
  <2>2. CASE req # s
    <3>1. Right(s)
      BY <2>2 DEF Minded, NothingForgotten
    <3>2. Right(s)'
      BY <3>1 DEF Right, Provisioned, Exists
    <3>. QED BY <2>2, <3>2 DEF NothingForgotten
  <2>. QED BY <2>1, <2>2
<1>. QED BY <1>1, <1>2 DEF Minded

\* A step that has nothing to do with s.
LEMMA Apart ==
    ASSUME NEW s \in SharedVolumes, Minded(s),
           svs'[s] = svs[s], PVs(s)' = PVs(s), PVCs(s)' = PVCs(s),
           pvBySharedVolume'[s] = pvBySharedVolume[s],
           pvcBySharedVolume'[s] = pvcBySharedVolume[s],
           s \in queue => s \in queue',
           IF req = s THEN UNCHANGED workerVars ELSE req' # s
    PROVE  Minded(s)'
<1>1. EventsFindOwner(s)'
  BY DEF Minded, EventsFindOwner
<1>2. Announced(s) => Announced(s)'
  BY DEF Announced
<1>3. SVOf(s)' = SVOf(s) /\ PVOf(s)' = PVOf(s) /\ PVCOf(s)' = PVCOf(s)
  BY DEF SVOf, PVOf, PVCOf, PVs, PVCs
<1>. QED BY <1>1, <1>2, <1>3, Frame

LEMMA AppendLen ==
    ASSUME NEW S, NEW v \in Versions(S), NEW obj
    PROVE  Len(Append(v, obj)) > 1
<1>1. v \in Seq(S \cup {None} \cup {obj}) /\ Len(v) \in Nat /\ Len(v) >= 1
  <2>1. v \in Seq(S \cup {None}) /\ Len(v) \in Nat /\ Len(v) >= 1
    BY VersionsFacts
  <2>2. S \cup {None} \subseteq S \cup {None} \cup {obj}
    OBVIOUS
  <2>3. v \in Seq(S \cup {None} \cup {obj})
    BY <2>1, <2>2, SeqMonotonic
  <2>. QED BY <2>1, <2>3
<1>2. Len(Append(v, obj)) = Len(v) + 1
  BY <1>1
<1>. QED BY <1>1, <1>2

\* A write of a SharedVolume is announced.
LEMMA WriteAnnounced ==
    ASSUME TypeOK, NEW s \in SharedVolumes, NEW new, svs' = Write(svs, s, new),
           new # SVOf(s)
    PROVE  Announced(s)'
<1>1. svs'[s] = Append(svs[s], new) /\ svs[s] \in Versions(SharedVolume)
  BY DEF SVOf, Write, TypeOK, ClusterTypeOK
<1>. QED BY <1>1, AppendLen DEF Announced

LEMMA UserActsOnSV ==
    ASSUME TypeOK, RestInv, NEW t \in SharedVolumes,
           CreateSV(t) \/ EditSV(t) \/ DeleteSV(t) \/ ReleaseSV(t),
           UNCHANGED <<workerVars, mapVars>>, NEW s \in SharedVolumes
    PROVE  Minded(s)'
<1>1. PICK new : svs' = Write(svs, t, new)
  BY DEF CreateSV, EditSV, DeleteSV, ReleaseSV
<1>2. /\ UNCHANGED <<pvs, pvcs, queue, pvBySharedVolume, pvcBySharedVolume, workerVars>>
      /\ UNCHANGED <<PVs(s), PVCs(s)>> /\ req' = req
  BY DEF CreateSV, EditSV, DeleteSV, ReleaseSV, ghostVars, mapVars, workerVars, PVs, PVCs
<1>3. Minded(s)
  BY DEF RestInv
<1>4. CASE svs'[s] = svs[s]
  BY <1>2, <1>3, <1>4, Apart
<1>5. CASE svs'[s] # svs[s]
  <2>1. t = s /\ new # SVOf(s)
    BY <1>1, <1>5 DEF Write, SVOf, TypeOK, ClusterTypeOK
  <2>2. Announced(s)'
    BY <1>1, <2>1, WriteAnnounced
  <2>3. EventsFindOwner(s)' /\ (Prompt => LabelsNoticed(s)')
    BY <1>2, <1>3 DEF Minded, EventsFindOwner, LabelsNoticed, Remembers, Unused, PVOf, PVCOf, workerVars
  <2>. QED BY <2>2, <2>3 DEF Minded, NothingForgotten
<1>. QED BY <1>4, <1>5

LEMMA MeddledMinds ==
    ASSUME NEW S, NEW old \in Resources(S, SharedVolumes), None \notin Resources(S, SharedVolumes),
           NEW s, NEW specs, Recognised(old, s, specs), LabelsStay \/ Prompt,
           NEW kind \in Meddling, NEW new \in Meddled(old, kind),
           kind = "restyle" => {OldStyle(spec) : spec \in Specs} \subseteq S \cap specs
    PROVE  /\ new \in Resources(S, SharedVolumes)
           /\ Recognised(new, s, specs)
           /\ new = old \/ new.rv > old.rv
           /\ Prompt => new.spec = old.spec
<1>1. old # None /\ old.rv \in Nat /\ old.rv + 1 \in Nat /\ old.rv + 1 > old.rv
  BY DEF Resources
<1>2. CASE kind = "delete"
  <2>1. CASE old.term
    BY <1>1, <1>2, <2>1 DEF Meddled, Terminating
  <2>2. CASE ~old.term
    <3>1. new = [old EXCEPT !.rv = old.rv + 1, !.term = TRUE]
      BY <1>1, <1>2, <2>2 DEF Meddled, Terminating
    <3>2. /\ new \in Resources(S, SharedVolumes) /\ new.rv = old.rv + 1
          /\ new.owner = old.owner /\ new.spec = old.spec /\ new.care = old.care
      BY <1>1, <3>1 DEF Resources
    <3>. QED BY <1>1, <3>2 DEF Recognised
  <2>. QED BY <2>1, <2>2
<1>3. CASE kind = "unlabel"
  <2>. DEFINE bare == [old EXCEPT !.care = FALSE]
  <2>1. /\ bare \in Resources(S, SharedVolumes)
        /\ bare.owner = old.owner /\ bare.spec = old.spec /\ bare.rv = old.rv
    BY DEF Resources
  <2>2. new = Newer(bare)
    BY <1>3 DEF Meddled
  <2>. HIDE DEF bare
  <2>3. /\ new \in Resources(S, SharedVolumes) /\ new.rv = old.rv + 1
        /\ new.owner = old.owner /\ new.spec = old.spec
    BY <1>1, <2>1, <2>2 DEF Newer, Resources
  <2>4. ~LabelsStay
    BY <1>3 DEF LabelsStay
  <2>. QED BY <1>1, <2>3, <2>4 DEF Recognised
<1>4. CASE kind = "restyle"
  <2>1. PICK spec \in Specs : new = Newer([old EXCEPT !.spec = OldStyle(spec)])
    BY <1>4 DEF Meddled
  <2>. DEFINE source == OldStyle(spec)
  <2>2. source \in S /\ source \in specs
    BY <1>4
  <2>. HIDE DEF source
  <2>. DEFINE other == [old EXCEPT !.spec = source]
  <2>3. /\ other \in Resources(S, SharedVolumes)
        /\ other.owner = old.owner /\ other.spec = source /\ other.care = old.care /\ other.rv = old.rv
    BY <2>2 DEF Resources
  <2>4. new = Newer(other)
    BY <2>1 DEF source
  <2>. HIDE DEF other
  <2>5. /\ new \in Resources(S, SharedVolumes) /\ new.rv = old.rv + 1
        /\ new.owner = old.owner /\ new.spec = source /\ new.care = old.care
    BY <1>1, <2>3, <2>4 DEF Newer, Resources
  <2>6. ~Prompt
    BY <1>4 DEF Prompt
  <2>. QED BY <1>1, <2>2, <2>5, <2>6 DEF Recognised
<1>. QED BY <1>2, <1>3, <1>4 DEF LabelsStay, Prompt

\* A PV that goes, or is touched by a user: it is announced, or had no label.
LEMMA PVMoved ==
    ASSUME TypeOK, NEW s \in SharedVolumes, Minded(s), LabelsStay \/ Prompt,
           NEW new \in PV \cup {None}, Recognised(new, s, Sources), PVOf(s) # None,
           pvs' = Write(pvs, pvNameForSharedVolume[s], new),
           new # None => new = PVOf(s) \/ new.rv > PVOf(s).rv,
           new # None /\ Prompt => new.spec = PVOf(s).spec,
           UNCHANGED <<svs, pvcs, queue, workerVars, mapVars>>
    PROVE  Minded(s)'
<1>. DEFINE n == pvNameForSharedVolume[s]
            old == PVOf(s)
<1>1. /\ n \in PVNames /\ pvs \in [PVNames -> Versions(PV)]
      /\ old = Stored(pvs[n]) /\ old \in PV /\ PVs(s) = pvs[n] /\ PVs(s)' = pvs'[n]
  BY Belongings DEF PVs
<1>2. PVOf(s)' = new
  BY <1>1, WriteFacts DEF PVOf
<1>3. /\ UNCHANGED <<pvBySharedVolume, pvcBySharedVolume, pc, req, sv>>
      /\ PVCs(s)' = PVCs(s) /\ PVCOf(s)' = PVCOf(s) /\ SVOf(s)' = SVOf(s)
  BY DEF mapVars, workerVars, PVCs, PVCOf, SVOf
<1>4. EventsFindOwner(s)'
  <2>1. AllRecognised(pvs[n], s, Sources)
    BY <1>1 DEF Minded, EventsFindOwner
  <2>2. AllRecognised(pvs'[n], s, Sources)
    BY <1>1, <2>1, RecognisedWrite
  <2>. QED BY <1>1, <1>3, <2>2 DEF Minded, EventsFindOwner
<1>5. ASSUME Prompt PROVE LabelsNoticed(s)'
  <2>1. LabelsNoticed(s)
    BY <1>5 DEF Minded
  <2>2. \A e \in PVEnsurable : Remembers(e, old) => Remembers(e, new)
    <3>1. ASSUME NEW e \in PVEnsurable, Remembers(e, old), new # None
          PROVE  Remembers(e, new)
      <4>1. e.latestVersion # None /\ e.latestVersion.rv \in Nat /\ old.rv \in Nat /\ new.rv \in Nat
        BY <1>1, <3>1 DEF Remembers, PVEnsurable, Ensurables, Resources, PV
      <4>. QED BY <1>5, <3>1, <4>1 DEF Remembers
    <3>. QED BY <3>1 DEF Remembers
  <2>3. pvBySharedVolume[s] \in PVEnsurable \cup {None}
    BY Belongings
  <2>. HIDE DEF old
  <2>4. req = s /\ pc = "ensurePV" => new = None \/ new.spec = Written(sv.spec)
    BY <1>5, <2>1 DEF LabelsNoticed, old
  <2>. QED BY <1>2, <1>3, <2>1, <2>2, <2>3, <2>4 DEF LabelsNoticed, old
<1>6. CASE pvs' = pvs
  <2>1. UNCHANGED <<PVs(s), svs[s], queue>>
    BY <1>6 DEF PVs
  <2>. QED BY <1>3, <1>6, <2>1, Apart
<1>7. CASE pvs' # pvs
  <2>1. /\ Heard(PVs(s)) => Heard(PVs(s))'
        /\ passes(old, new) => Heard(PVs(s))'
    BY <1>1, <1>7, WriteHeard
  <2>2. SUFFICES ASSUME Exists(SVOf(s)), ~Announced(s)'
                 PROVE  IF req = s THEN Underway(s)' ELSE Right(s)'
    BY <1>3, <1>4, <1>5 DEF Minded, NothingForgotten
  <2>3. ~Announced(s) /\ ~passes(old, new)
    BY <1>3, <2>1, <2>2 DEF Announced
  <2>4. ~DoICare(old)
    BY <2>3 DEF passes
  <2>5. CASE req = s
    <3>1. Underway(s)
      BY <2>2, <2>3, <2>5 DEF Minded, NothingForgotten
    <3>2. pc \notin {"ensurePVC", "ready"}
      BY <2>4, <3>1 DEF Underway
    <3>3. new = None \/ new.spec = old.spec
      <4>1. Recognised(old, s, Sources)
        BY <1>1, RecognisedEnds DEF Minded, EventsFindOwner
      <4>2. ~LabelsStay
        BY <1>1, <2>4, <4>1 DEF Recognised, DoICare
      <4>. QED BY <4>2
    <3>. QED BY <1>2, <1>3, <2>5, <3>1, <3>2, <3>3 DEF Underway
  <2>6. CASE req # s
    <3>1. Right(s)
      BY <2>2, <2>3, <2>6 DEF Minded, NothingForgotten
    <3>2. SVOf(s).deleting
      BY <2>4, <3>1 DEF Right, Provisioned, DoICare, Exists
    <3>. QED BY <1>3, <2>6, <3>1, <3>2 DEF Right
  <2>. QED BY <2>5, <2>6
<1>. QED BY <1>6, <1>7

\* And a PVC.
LEMMA PVCMoved ==
    ASSUME TypeOK, NEW s \in SharedVolumes, Minded(s),
           NEW new \in PVC \cup {None}, Recognised(new, s, {pvNameForSharedVolume[s]}),
           PVCOf(s) # None, pvcs' = Write(pvcs, s, new),
           new # None => new = PVCOf(s) \/ new.rv > PVCOf(s).rv,
           new # None /\ Prompt => new.spec = PVCOf(s).spec,
           UNCHANGED <<svs, pvs, queue, workerVars, mapVars>>
    PROVE  Minded(s)'
<1>. DEFINE old == PVCOf(s)
<1>1. /\ pvcs \in [SharedVolumes -> Versions(PVC)]
      /\ old = Stored(pvcs[s]) /\ old \in PVC /\ PVCs(s) = pvcs[s] /\ PVCs(s)' = pvcs'[s]
  BY Belongings DEF PVCs
<1>2. PVCOf(s)' = new
  BY <1>1, WriteFacts DEF PVCOf
<1>3. /\ UNCHANGED <<pvBySharedVolume, pvcBySharedVolume, pc, req, sv>>
      /\ PVs(s)' = PVs(s) /\ PVOf(s)' = PVOf(s) /\ SVOf(s)' = SVOf(s)
  BY DEF mapVars, workerVars, PVs, PVOf, SVOf
<1>4. EventsFindOwner(s)'
  <2>1. AllRecognised(pvcs[s], s, {pvNameForSharedVolume[s]})
    BY <1>1 DEF Minded, EventsFindOwner
  <2>2. AllRecognised(pvcs'[s], s, {pvNameForSharedVolume[s]})
    BY <1>1, <2>1, RecognisedWrite
  <2>. QED BY <1>1, <1>3, <2>2 DEF Minded, EventsFindOwner
<1>5. ASSUME Prompt PROVE LabelsNoticed(s)'
  <2>1. LabelsNoticed(s)
    BY <1>5 DEF Minded
  <2>2. \A e \in PVCEnsurable : Remembers(e, old) => Remembers(e, new)
    <3>1. ASSUME NEW e \in PVCEnsurable, Remembers(e, old), new # None
          PROVE  Remembers(e, new)
      <4>1. e.latestVersion # None /\ e.latestVersion.rv \in Nat /\ old.rv \in Nat /\ new.rv \in Nat
        BY <1>1, <3>1 DEF Remembers, PVCEnsurable, Ensurables, Resources, PVC
      <4>. QED BY <1>5, <3>1, <4>1 DEF Remembers
    <3>. QED BY <3>1 DEF Remembers
  <2>3. pvcBySharedVolume[s] \in PVCEnsurable \cup {None}
    BY Belongings
  <2>. HIDE DEF old
  <2>. QED BY <1>2, <1>3, <2>1, <2>2, <2>3 DEF LabelsNoticed, old
<1>6. CASE pvcs' = pvcs
  <2>1. UNCHANGED <<PVCs(s), svs[s], queue>>
    BY <1>6 DEF PVCs
  <2>. QED BY <1>3, <1>6, <2>1, Apart
<1>7. CASE pvcs' # pvcs
  <2>1. /\ Heard(PVCs(s)) => Heard(PVCs(s))'
        /\ passes(old, new) => Heard(PVCs(s))'
    BY <1>1, <1>7, WriteHeard
  <2>2. SUFFICES ASSUME Exists(SVOf(s)), ~Announced(s)'
                 PROVE  IF req = s THEN Underway(s)' ELSE Right(s)'
    BY <1>3, <1>4, <1>5 DEF Minded, NothingForgotten
  <2>3. ~Announced(s) /\ ~passes(old, new)
    BY <1>3, <2>1, <2>2 DEF Announced
  <2>4. ~DoICare(old)
    BY <2>3 DEF passes
  <2>5. CASE req = s
    <3>1. Underway(s)
      BY <2>2, <2>3, <2>5 DEF Minded, NothingForgotten
    <3>2. pc # "ready"
      BY <2>4, <3>1 DEF Underway
    <3>. QED BY <1>3, <2>5, <3>1, <3>2 DEF Underway
  <2>6. CASE req # s
    <3>1. Right(s)
      BY <2>2, <2>3, <2>6 DEF Minded, NothingForgotten
    <3>2. SVOf(s).deleting
      BY <2>4, <3>1 DEF Right, Provisioned, DoICare, Exists
    <3>. QED BY <1>3, <2>6, <3>1, <3>2 DEF Right
  <2>. QED BY <2>5, <2>6
<1>. QED BY <1>6, <1>7

LEMMA OthersActOnPV ==
    ASSUME TypeOK, RestInv, LabelsStay \/ Prompt,
           NEW n \in PVNames, ReapPV(n) \/ MeddlePV(n),
           UNCHANGED <<workerVars, mapVars>>, NEW s \in SharedVolumes
    PROVE  Minded(s)'
<1>. DEFINE old == Stored(pvs[n])
<1>1. /\ UNCHANGED <<svs, pvcs, queue, pvBySharedVolume, pvcBySharedVolume, workerVars>> /\ req' = req
      /\ UNCHANGED <<svs[s], PVCs(s)>>
  BY DEF ReapPV, MeddlePV, ghostVars, mapVars, workerVars, PVCs
<1>2. Minded(s)
  BY DEF RestInv
<1>3. old \in PV
  BY StoredTypes DEF ReapPV, MeddlePV
<1>4. CASE pvNameForSharedVolume[s] # n
  <2>1. pvs'[pvNameForSharedVolume[s]] = pvs[pvNameForSharedVolume[s]]
    BY <1>4, Belongings DEF ReapPV, MeddlePV, Write
  <2>2. PVs(s)' = PVs(s)
    BY <2>1 DEF PVs
  <2>. QED BY <1>1, <1>2, <2>2, Apart
<1>5. CASE pvNameForSharedVolume[s] = n
  <2>1. PVOf(s) = old /\ PVOf(s) # None
    BY <1>5 DEF PVOf, ReapPV, MeddlePV
  <2>2. CASE ReapPV(n)
    <3>1. pvs' = Write(pvs, pvNameForSharedVolume[s], None) /\ Recognised(None, s, Sources)
      BY <1>5, <2>2 DEF ReapPV, Recognised
    <3>. QED BY <1>1, <1>2, <2>1, <3>1, PVMoved
  <2>3. CASE MeddlePV(n)
    <3>1. PICK kind \in Meddling : \E obj \in Meddled(old, kind) : pvs' = Write(pvs, n, obj)
      BY <2>3 DEF MeddlePV
    <3>2. PICK obj \in Meddled(old, kind) : pvs' = Write(pvs, n, obj)
      BY <3>1
    <3>3. Recognised(old, s, Sources)
      BY <1>2, <2>1, Belongings, RecognisedEnds DEF Minded, EventsFindOwner
    <3>4. kind = "restyle" => {OldStyle(spec) : spec \in Specs} \subseteq VolumeSources \cap Sources
      BY DEF VolumeSources, Sources
    <3>5. old \in Resources(VolumeSources, SharedVolumes)
          /\ None \notin Resources(VolumeSources, SharedVolumes)
      BY <1>3, NoneAssumption DEF PV
    <3>. HIDE DEF old
    <3>6. /\ obj \in PV /\ Recognised(obj, s, Sources)
          /\ obj = old \/ obj.rv > old.rv
          /\ Prompt => obj.spec = old.spec
      BY <3>3, <3>4, <3>5, MeddledMinds DEF PV
    <3>. QED BY <1>1, <1>2, <1>5, <2>1, <3>2, <3>6, PVMoved
  <2>. QED BY <2>2, <2>3
<1>. QED BY <1>4, <1>5

LEMMA OthersActOnPVC ==
    ASSUME TypeOK, RestInv, LabelsStay \/ Prompt,
           NEW t \in SharedVolumes, ReapPVC(t) \/ MeddlePVC(t),
           UNCHANGED <<workerVars, mapVars>>, NEW s \in SharedVolumes
    PROVE  Minded(s)'
<1>. DEFINE old == Stored(pvcs[t])
            specs == {pvNameForSharedVolume[s]}
<1>1. /\ UNCHANGED <<svs, pvs, queue, pvBySharedVolume, pvcBySharedVolume, workerVars>> /\ req' = req
      /\ UNCHANGED <<svs[s], PVs(s)>>
  BY DEF ReapPVC, MeddlePVC, ghostVars, mapVars, workerVars, PVs
<1>2. Minded(s)
  BY DEF RestInv
<1>3. old \in PVC
  BY StoredTypes DEF ReapPVC, MeddlePVC
<1>4. CASE s # t
  <2>1. PVCs(s)' = PVCs(s)
    BY <1>4, Belongings DEF ReapPVC, MeddlePVC, Write, PVCs
  <2>. QED BY <1>1, <1>2, <2>1, Apart
<1>5. CASE s = t
  <2>1. PVCOf(s) = old /\ PVCOf(s) # None
    BY <1>5 DEF PVCOf, ReapPVC, MeddlePVC
  <2>2. CASE ReapPVC(t)
    <3>1. pvcs' = Write(pvcs, s, None) /\ Recognised(None, s, specs)
      BY <1>5, <2>2 DEF ReapPVC, Recognised
    <3>. QED BY <1>1, <1>2, <2>1, <3>1, PVCMoved
  <2>3. CASE MeddlePVC(t)
    <3>1. PICK kind \in Meddling \ {"garble", "restyle"} :
            \E obj \in Meddled(old, kind) : pvcs' = Write(pvcs, s, obj)
      BY <1>5, <2>3 DEF MeddlePVC
    <3>2. PICK obj \in Meddled(old, kind) : pvcs' = Write(pvcs, s, obj)
      BY <3>1
    <3>3. Recognised(old, s, specs)
      BY <1>2, <2>1, Belongings, RecognisedEnds DEF Minded, EventsFindOwner
    <3>4. old \in Resources(PVNames, SharedVolumes) /\ None \notin Resources(PVNames, SharedVolumes)
      BY <1>3, NoneAssumption DEF PVC
    <3>5. kind # "restyle"
      BY <3>1
    <3>. HIDE DEF old
    <3>6. /\ obj \in PVC /\ Recognised(obj, s, specs)
          /\ obj = old \/ obj.rv > old.rv
          /\ Prompt => obj.spec = old.spec
      BY <3>3, <3>4, <3>5, MeddledMinds DEF PVC
    <3>. QED BY <1>1, <1>2, <2>1, <3>2, <3>6, PVCMoved
  <2>. QED BY <2>2, <2>3
<1>. QED BY <1>4, <1>5

-----------------------------------------------------------------------------
(* The informers and the operator's start. *)

\* An event that passes puts in the queue the SharedVolume the object belongs to.
LEMMA PassesToOwner ==
    ASSUME NEW s \in SharedVolumes, NEW specs, NEW old, NEW new, passes(old, new),
           Recognised(old, s, specs), Recognised(new, s, specs)
    PROVE  s \in Requests(old, new)
BY NoneAssumption DEF passes, DoICare, Recognised, Requests, toSharedVolume

LEMMA FirstTwo ==
    ASSUME NEW S, NEW v \in Versions(S), Len(v) > 1,
           NEW s, NEW specs, AllRecognised(v, s, specs)
    PROVE  Recognised(v[1], s, specs) /\ Recognised(v[2], s, specs)
<1>1. 1 \in 1..Len(v) /\ 2 \in 1..Len(v)
  <2>1. Len(v) \in Nat
    BY VersionsFacts
  <2>. QED BY <2>1
<1>. QED BY <1>1 DEF AllRecognised

LEMMA InformersMind ==
    ASSUME TypeOK, RestInv, Informers,
           UNCHANGED <<workerVars, mapVars>>, NEW s \in SharedVolumes
    PROVE  Minded(s)'
<1>1. Minded(s)
  BY DEF RestInv
<1>2. UNCHANGED <<pvBySharedVolume, pvcBySharedVolume, workerVars>> /\ req' = req
  BY DEF mapVars, workerVars
<1>3. ASSUME NEW t \in SharedVolumes, SyncSV(t)
      PROVE  Minded(s)'
  <2>1. /\ UNCHANGED <<PVs(s), PVCs(s), PVOf(s), PVCOf(s)>> /\ queue' = queue \cup {t}
        /\ Len(svs[t]) > 1 /\ svs' = [svs EXCEPT ![t] = Tail(svs[t])]
        /\ svs \in [SharedVolumes -> Versions(SharedVolume)]
    BY <1>3, Belongings DEF SyncSV, Deliver, PVs, PVCs, PVOf, PVCOf
  <2>2. CASE s # t
    BY <1>1, <1>2, <2>1, <2>2, Apart
  <2>3. CASE s = t
    <3>1. Announced(s)'
      BY <2>1, <2>3 DEF Announced
    <3>2. SVOf(s)' = SVOf(s)
      <4>1. svs'[s] = Tail(svs[s]) /\ svs[s] \in Versions(SharedVolume) /\ Len(svs[s]) > 1
        BY <2>1, <2>3
      <4>2. Stored(svs'[s]) = Stored(svs[s])
        BY <4>1, TailFacts
      <4>. QED BY <4>2 DEF SVOf
    <3>3. EventsFindOwner(s)'
      BY <1>1, <1>2, <2>1 DEF Minded, EventsFindOwner
    <3>. QED BY <1>1, <1>2, <2>1, <3>1, <3>2, <3>3, Frame
  <2>. QED BY <2>2, <2>3
<1>4. ASSUME NEW t \in SharedVolumes, SyncPVC(t)
      PROVE  Minded(s)'
  <2>. DEFINE v == pvcs[t]
              specs == {pvNameForSharedVolume[s]}
  <2>1. /\ UNCHANGED <<svs, svs[s], PVs(s), SVOf(s), PVOf(s)>>
        /\ queue' = queue \cup Requests(v[1], v[2])
        /\ Len(v) > 1 /\ pvcs' = [pvcs EXCEPT ![t] = Tail(v)]
        /\ pvcs \in [SharedVolumes -> Versions(PVC)]
    BY <1>4, Belongings DEF SyncPVC, Deliver, PVs, SVOf, PVOf
  <2>2. CASE s # t
    <3>1. UNCHANGED PVCs(s) /\ (s \in queue => s \in queue')
      BY <2>1, <2>2 DEF PVCs
    <3>. QED BY <1>1, <1>2, <2>1, <3>1, Apart
  <2>3. CASE s = t
    <3>1. v \in Versions(PVC) /\ PVCs(s) = v /\ PVCs(s)' = Tail(v)
      BY <2>1, <2>3 DEF PVCs
    <3>2. AllRecognised(v, s, specs)
      BY <1>1, <3>1 DEF Minded, EventsFindOwner
    <3>3. PVCOf(s) = Stored(v) /\ PVCOf(s)' = Stored(Tail(v))
      BY <2>1, <2>3 DEF PVCOf
    <3>. HIDE DEF v
    <3>4. AllRecognised(Tail(v), s, specs) /\ PVCOf(s)' = PVCOf(s)
      BY <2>1, <3>1, <3>2, <3>3, RecognisedTail, TailFacts
    <3>5. Heard(PVCs(s)) => s \in queue' \/ Heard(PVCs(s))'
      BY <2>1, <3>1, <3>2, HeardTail, FirstTwo, PassesToOwner
    <3>6. Announced(s) => Announced(s)'
      BY <2>1, <3>5 DEF Announced
    <3>7. EventsFindOwner(s)'
      BY <1>1, <1>2, <2>1, <3>1, <3>4 DEF Minded, EventsFindOwner
    <3>. QED BY <1>1, <1>2, <2>1, <3>4, <3>6, <3>7, Frame
  <2>. QED BY <2>2, <2>3
<1>5. ASSUME NEW n \in PVNames, SyncPV(n)
      PROVE  Minded(s)'
  <2>. DEFINE v == pvs[n]
  <2>1. /\ UNCHANGED <<svs, svs[s], PVCs(s), SVOf(s), PVCOf(s)>>
        /\ queue' = queue \cup Requests(v[1], v[2])
        /\ Len(v) > 1 /\ pvs' = [pvs EXCEPT ![n] = Tail(v)]
        /\ pvs \in [PVNames -> Versions(PV)]
    BY <1>5, Belongings DEF SyncPV, Deliver, PVCs, SVOf, PVCOf
  <2>2. CASE pvNameForSharedVolume[s] # n
    <3>1. pvs'[pvNameForSharedVolume[s]] = pvs[pvNameForSharedVolume[s]]
      BY <2>1, <2>2, Belongings
    <3>2. UNCHANGED PVs(s) /\ (s \in queue => s \in queue')
      BY <2>1, <3>1 DEF PVs
    <3>. QED BY <1>1, <1>2, <2>1, <3>2, Apart
  <2>3. CASE pvNameForSharedVolume[s] = n
    <3>1. v \in Versions(PV) /\ PVs(s) = v /\ PVs(s)' = Tail(v)
      BY <2>1, <2>3 DEF PVs
    <3>2. AllRecognised(v, s, Sources)
      BY <1>1, <3>1 DEF Minded, EventsFindOwner
    <3>3. PVOf(s) = Stored(v) /\ PVOf(s)' = Stored(Tail(v))
      BY <2>1, <2>3 DEF PVOf
    <3>. HIDE DEF v
    <3>4. AllRecognised(Tail(v), s, Sources) /\ PVOf(s)' = PVOf(s)
      BY <2>1, <3>1, <3>2, <3>3, RecognisedTail, TailFacts
    <3>5. Heard(PVs(s)) => s \in queue' \/ Heard(PVs(s))'
      BY <2>1, <3>1, <3>2, HeardTail, FirstTwo, PassesToOwner
    <3>6. Announced(s) => Announced(s)'
      BY <2>1, <3>5 DEF Announced
    <3>7. EventsFindOwner(s)'
      BY <1>1, <1>2, <2>1, <3>1, <3>4 DEF Minded, EventsFindOwner
    <3>. QED BY <1>1, <1>2, <2>1, <3>4, <3>6, <3>7, Frame
  <2>. QED BY <2>2, <2>3
<1>6. ASSUME NEW t \in SharedVolumes, Resync(t)
      PROVE  Minded(s)'
  <2>1. UNCHANGED <<svs[s], PVs(s), PVCs(s)>> /\ queue' = queue \cup {t}
    BY <1>6 DEF Resync, objectVars, PVs, PVCs
  <2>. QED BY <1>1, <1>2, <2>1, Apart
<1>. QED BY <1>3, <1>4, <1>5, <1>6 DEF Informers

\* A new operator lists every SharedVolume.
LEMMA CrashMinds ==
    ASSUME TypeOK, RestInv, Crash, NEW s \in SharedVolumes
    PROVE  Minded(s)'
<1>. DEFINE n == pvNameForSharedVolume[s]
<1>0. Minded(s) /\ n \in PVNames /\ s # None
  BY Belongings DEF RestInv
<1>1. /\ svs'[s] = <<Stored(svs[s])>> /\ PVs(s)' = <<Stored(PVs(s))>>
      /\ PVCs(s)' = <<Stored(PVCs(s))>>
      /\ pvBySharedVolume'[s] = None /\ pvcBySharedVolume'[s] = None /\ req' = None
      /\ queue' = Listed
  BY <1>0, Belongings DEF Crash, Relisted, NoEnsurables, PVs, PVCs
<1>2. EventsFindOwner(s)'
  <2>1. AllRecognised(<<Stored(PVs(s))>>, s, Sources)
    BY <1>0, Belongings, RecognisedRelist DEF Minded, EventsFindOwner
  <2>2. AllRecognised(<<Stored(PVCs(s))>>, s, {n})
    BY <1>0, Belongings, RecognisedRelist DEF Minded, EventsFindOwner
  <2>. QED BY <1>1, <2>1, <2>2 DEF EventsFindOwner, EntryRecognised
<1>3. LabelsNoticed(s)'
  BY <1>0, <1>1 DEF LabelsNoticed
<1>4. Exists(SVOf(s)') => Announced(s)'
  <2>1. SVOf(s)' = SVOf(s)
    <3>1. Stored(svs'[s]) = Stored(svs[s])
      BY <1>1, Belongings, RelistFacts
    <3>. QED BY <3>1 DEF SVOf
  <2>2. SVOf(s) # None => s \in Listed
    BY DEF SVOf, Listed
  <2>. QED BY <1>1, <2>1, <2>2 DEF Announced, Exists
<1>. QED BY <1>2, <1>3, <1>4 DEF Minded, NothingForgotten, Exists

-----------------------------------------------------------------------------
(* The worker, on another SharedVolume. *)

LEMMA WorkerApart ==
    ASSUME TypeOK, RestInv, OwnVolumes, Continue, NEW s \in SharedVolumes, s # req
    PROVE  Minded(s)'
<1>0. pc # "idle" /\ req \in SharedVolumes
  <2>1. pc # "idle"
    BY DEF Continue, MarkDeleting, DeletePVC, DeletePV, Unfinalize, Unedit, Finalize,
           MarkPending, EnsurePV, EnsurePVC, MarkFailed, MarkReady
  <2>. QED BY <2>1, BusyType
<1>1. svs'[s] = svs[s]
  <2>1. CASE UNCHANGED svs
    BY <2>1
  <2>2. ASSUME NEW new, NEW ok, Send(new, ok)
        PROVE  svs'[s] = svs[s]
    BY <1>0, <2>2 DEF Send, Write, TypeOK, ClusterTypeOK
  <2>. QED BY <2>1, <2>2 DEF Continue, MarkDeleting, DeletePVC, DeletePV, Unfinalize, Unedit,
           Finalize, MarkPending, EnsurePV, EnsurePVC, MarkFailed, MarkReady
<1>2. PVs(s)' = PVs(s)
  <2>1. CASE UNCHANGED pvs
    BY <2>1 DEF PVs
  <2>2. ASSUME NEW new, pvs' = Write(pvs, pvNameForSharedVolume[req], new)
        PROVE  PVs(s)' = PVs(s)
    <3>1. pvNameForSharedVolume[s] # pvNameForSharedVolume[req]
      BY <1>0 DEF OwnVolumes
    <3>2. pvs'[pvNameForSharedVolume[s]] = pvs[pvNameForSharedVolume[s]]
      BY <2>2, <3>1, Belongings DEF Write
    <3>. QED BY <3>2 DEF PVs
  <2>. QED BY <2>1, <2>2 DEF Continue, MarkDeleting, DeletePVC, DeletePV, Unfinalize, Unedit,
           Finalize, MarkPending, EnsurePV, EnsurePVC, MarkFailed, MarkReady
<1>3. PVCs(s)' = PVCs(s)
  <2>1. CASE UNCHANGED pvcs
    BY <2>1 DEF PVCs
  <2>2. ASSUME NEW new, pvcs' = Write(pvcs, req, new)
        PROVE  PVCs(s)' = PVCs(s)
    BY <1>0, <2>2, Belongings DEF Write, PVCs
  <2>. QED BY <2>1, <2>2 DEF Continue, MarkDeleting, DeletePVC, DeletePV, Unfinalize, Unedit,
           Finalize, MarkPending, EnsurePV, EnsurePVC, MarkFailed, MarkReady
<1>4. pvBySharedVolume'[s] = pvBySharedVolume[s] /\ pvcBySharedVolume'[s] = pvcBySharedVolume[s]
  BY <1>0 DEF Continue, MarkDeleting, DeletePVC, DeletePV, Unfinalize, Unedit, Finalize,
           MarkPending, EnsurePV, EnsurePVC, MarkFailed, MarkReady, mapVars, Forget, TypeOK
<1>5. req' \in {req, None} /\ (s \in queue => s \in queue')
  BY DEF Continue, MarkDeleting, HandleDelete, DeletePVC, DeletePV, Unfinalize, Unedit, Finalize,
         MarkPending, EnsurePV, EnsurePVC, MarkFailed, MarkReady, GoTo, Return
<1>6. req' # s
  BY <1>5, Belongings
<1>. QED BY <1>1, <1>2, <1>3, <1>4, <1>5, <1>6, Apart DEF RestInv

-----------------------------------------------------------------------------
(* The worker, on this one. *)

\* Nothing announced, or with caches that keep up: what is read is what is stored.
LEMMA ReadsStored ==
    ASSUME TypeOK, NEW s \in SharedVolumes, EventsFindOwner(s), Informed,
           Prompt \/ (LabelsStay /\ ~Announced(s))
    PROVE  Cached(PVs(s)) = PVOf(s) /\ Cached(PVCs(s)) = PVCOf(s)
<1>1. /\ PVs(s) \in Versions(PV) /\ PVCs(s) \in Versions(PVC)
      /\ PVOf(s) = Stored(PVs(s)) /\ PVCOf(s) = Stored(PVCs(s))
  BY Belongings
<1>2. CASE Prompt
  <2>1. Current
    BY <1>2 DEF Prompt, Informed
  <2>2. Len(PVs(s)) = 1 /\ Len(PVCs(s)) = 1
    BY <2>1, Belongings DEF Current, UpToDate, PVs, PVCs
  <2>. QED BY <1>1, <2>2 DEF Cached, Stored
<1>3. CASE LabelsStay /\ ~Announced(s)
  <2>1. ~Heard(PVs(s)) /\ ~Heard(PVCs(s))
    BY <1>3 DEF Announced
  <2>2. /\ \A i \in 1..Len(PVs(s)) : PVs(s)[i] # None => PVs(s)[i].care
        /\ \A i \in 1..Len(PVCs(s)) : PVCs(s)[i] # None => PVCs(s)[i].care
    BY <1>3 DEF EventsFindOwner, AllRecognised, Recognised
  <2>. QED BY <1>1, <2>1, <2>2, NothingHeard
<1>. QED BY <1>2, <1>3

\* With no faults.
LEMMA NoFault == TypeOK /\ Prompt => ~Fault
<1>. SUFFICES ASSUME TypeOK, Prompt PROVE ~Fault
  OBVIOUS
<1>1. spent.faults \in Nat /\ MaxFaults = 0
  BY DEF TypeOK, ClusterTypeOK, Budget, Prompt
<1>. QED BY <1>1 DEF Fault

\* A write that is accepted and changes something is announced.
LEMMA SentAnnounced ==
    ASSUME TypeOK, NEW s \in SharedVolumes, req = s, NEW new, NEW ok, Send(new, ok)
    PROVE  /\ ok /\ new # sv => Announced(s)'
           /\ svs' = svs \/ Announced(s)'
<1>1. svs' = Write(svs, s, new) => svs' = svs \/ Announced(s)'
  BY WriteAnnounced DEF Write, SVOf
<1>. QED BY <1>1, WriteAnnounced DEF Send, SVOf

\* The ids in the source of a PV that has its label.
LEMMA SourceFacts ==
    ASSUME NEW source \in Sources
    PROVE  /\ \E spec \in Specs : source \in {Written(spec), OldStyle(spec)}
           /\ Readable(source)
           /\ Prompt => source = Written(Parsed(source))
           /\ Backs(source, Parsed(source))
<1>1. PICK spec \in Specs : \/ source = Written(spec)
                            \/ source = OldStyle(spec) /\ "restyle" \in Meddling
  BY DEF Sources
<1>2. spec = Ids(spec.FileSystemID, spec.AccessPointID) /\ spec.AccessPointID # ""
  BY IdsAssumption
<1>3. Readable(source) /\ Parsed(source) = spec
  BY <1>1, <1>2, RoundTrip
<1>4. Prompt => "restyle" \notin Meddling
  BY DEF Prompt
<1>. QED BY <1>1, <1>3, <1>4 DEF Backs

LEMMA BeginMinds ==
    ASSUME TypeOK, RestInv, NEW t \in SharedVolumes, Begin(t), NEW s \in SharedVolumes
    PROVE  Minded(s)'
<1>1. /\ pc = "idle" /\ req = None /\ s # None /\ req # s
      /\ UNCHANGED <<svs[s], PVs(s), PVCs(s), SVOf(s), PVOf(s), PVCOf(s),
                     pvBySharedVolume, pvcBySharedVolume>>
  BY Belongings DEF Begin, objectVars, mapVars, PVs, PVCs, SVOf, PVOf, PVCOf, TypeOK, Steps,
     DeletePath, CreatePath
<1>2. Minded(s)
  BY DEF RestInv
<1>3. CASE s # t
  <2>1. (s \in queue => s \in queue') /\ req' \in {None, t}
    BY <1>1, <1>3 DEF Begin, workerVars
  <2>. QED BY <1>1, <1>2, <1>3, <2>1, Apart
<1>4. CASE s = t
  <2>1. EventsFindOwner(s)'
    BY <1>1, <1>2 DEF Minded, EventsFindOwner
  <2>2. ASSUME Prompt PROVE LabelsNoticed(s)'
    <3>1. pc' # "ensurePV"
      BY <1>1 DEF Begin, workerVars
    <3>. QED BY <1>1, <1>2, <2>2, <3>1 DEF Minded, LabelsNoticed, Remembers
  <2>3. ASSUME Exists(SVOf(s)), ~Announced(s)'
        PROVE  IF req' = s THEN Underway(s)' ELSE Right(s)'
    <3>1. s \notin queue' /\ Len(svs[s]) = 1
      <4>1. Len(svs[s]) \in Nat /\ Len(svs[s]) >= 1
        BY Belongings, VersionsFacts
      <4>2. s \notin queue'
        BY <1>1, <2>3 DEF Announced
      <4>3. ~(Len(svs[s]) > 1)
        BY <1>1, <2>3 DEF Announced
      <4>. DEFINE k == Len(svs[s])
      <4>4. k \in Nat /\ k >= 1 /\ ~(k > 1)
        BY <4>1, <4>3
      <4>. HIDE DEF k
      <4>5. k = 1
        BY <4>4
      <4>. QED BY <4>2, <4>5 DEF k
    <3>2. Cached(svs[s]) = SVOf(s)
      BY <3>1 DEF Cached, SVOf, Stored
    <3>3. req' = s /\ sv' = SVOf(s) /\ pc' \in {"deleting", "unedit"}
      BY <1>4, <2>3, <3>1, <3>2 DEF Begin, Exists
    <3>. QED BY <1>1, <3>3 DEF Underway
  <2>. QED BY <1>1, <2>1, <2>2, <2>3 DEF Minded, NothingForgotten, Exists
<1>. QED BY <1>3, <1>4

\* When the SharedVolume was not written, and the worker does not come back to it.
LEMMA StillUnderway ==
    ASSUME TypeOK, NEW s \in SharedVolumes, NothingForgotten(s), req = s,
           s \in queue => s \in queue', svs' = svs \/ Announced(s)',
           Heard(PVs(s)) => Heard(PVs(s))', Heard(PVCs(s)) => Heard(PVCs(s))',
           Exists(SVOf(s))', ~Announced(s)'
    PROVE  Underway(s) /\ ~Announced(s) /\ svs' = svs /\ SVOf(s)' = SVOf(s) /\ s \notin queue'
<1>1. svs' = svs /\ SVOf(s)' = SVOf(s)
  BY DEF SVOf
<1>2. ~Announced(s) /\ s \notin queue'
  BY <1>1 DEF Announced
<1>. QED BY <1>1, <1>2 DEF NothingForgotten, Exists

LEMMA SVStepMinds ==
    ASSUME IInv, LabelsStay \/ Prompt, NEW s \in SharedVolumes, Minded(s), SVStep, req = s
    PROVE  Minded(s)'
<1>1. /\ UNCHANGED <<pvBySharedVolume, pvcBySharedVolume>>
      /\ UNCHANGED <<PVs(s), PVCs(s), PVOf(s), PVCOf(s)>>
      /\ pc \in {"deleting", "unedit", "finalize", "pending", "failed", "ready"}
      /\ TypeOK
  BY DEF SVStep, MarkDeleting, Unedit, Finalize, MarkPending, MarkFailed, MarkReady, mapVars,
     PVs, PVCs, PVOf, PVCOf, IInv
<1>2. /\ sv \in SharedVolume /\ (sv.deleting <=> pc \in DeletePath)
      /\ pc \in CreatePath => sv.fin
  BY <1>1, BusyFacts
<1>3. EventsFindOwner(s)'
  BY <1>1 DEF Minded, EventsFindOwner
<1>. DEFINE n == pvNameForSharedVolume[s]
\* What the PV at hand says, when the worker goes on to it.
<1>4. ASSUME Unedit, GoTo(AfterUnedit), SpecOf(Cached(pvs[n])) = sv.spec,
             Prompt \/ (LabelsStay /\ ~Announced(s)), PVOf(s) # None
      PROVE  Parsed(PVOf(s).spec) = sv.spec /\ (Prompt => PVOf(s).spec = Written(sv.spec))
  <2>1. Cached(pvs[n]) = PVOf(s)
    BY <1>1, <1>4, ReadsStored DEF Unedit, Minded, PVs
  <2>2. PVOf(s).spec \in Sources
    <3>1. Recognised(PVOf(s), s, Sources)
      BY <1>1, Belongings, RecognisedEnds DEF Minded, EventsFindOwner
    <3>. QED BY <1>4, <3>1 DEF Recognised
  <2>. QED BY <1>4, <2>1, <2>2, SourceFacts DEF SpecOf
<1>5. Unedit => \/ /\ GoTo(AfterUnedit) /\ SpecOf(Cached(pvs[n])) = sv.spec
                   /\ UNCHANGED svs
                \/ Return(TRUE) /\ (UNCHANGED svs \/ \E new, ok : Send(new, ok))
  BY DEF Unedit
<1>6. pc' = "ensurePV" => Unedit /\ GoTo(AfterUnedit) /\ SpecOf(Cached(pvs[n])) = sv.spec
  BY <1>5 DEF SVStep, MarkDeleting, HandleDelete, Finalize, MarkPending, MarkFailed, MarkReady, Return
<1>7. ASSUME Prompt PROVE LabelsNoticed(s)'
  <2>1. /\ pvBySharedVolume[s] # None => Remembers(pvBySharedVolume[s], PVOf(s))
        /\ pvcBySharedVolume[s] # None => Remembers(pvcBySharedVolume[s], PVCOf(s))
    BY <1>1, <1>7 DEF Minded, LabelsNoticed
  <2>2. pc' = "ensurePV" => sv' = sv
    BY <1>6 DEF GoTo
  <2>. QED BY <1>1, <1>4, <1>6, <1>7, <2>1, <2>2 DEF LabelsNoticed, Remembers
<1>8. ASSUME Exists(SVOf(s))', ~Announced(s)'
      PROVE  IF req' = s THEN Underway(s)' ELSE Right(s)'
  <2>1. svs' = svs \/ Announced(s)'
    BY <1>1, SentAnnounced DEF SVStep, MarkDeleting, Unedit, Finalize, MarkPending, MarkFailed, MarkReady
  <2>2. s \in queue => s \in queue'
    BY DEF SVStep, MarkDeleting, HandleDelete, Unedit, Finalize, MarkPending, MarkFailed, MarkReady,
       GoTo, Return
  <2>3. Underway(s) /\ ~Announced(s) /\ SVOf(s)' = SVOf(s) /\ SVOf(s) = sv /\ s \notin queue'
    BY <1>1, <1>8, <2>1, <2>2, StillUnderway DEF Minded, Underway
  <2>4. ~Return(TRUE)
    BY <2>3 DEF Return
  <2>5. CASE MarkDeleting
    <3>1. HandleDelete(sv)
      BY <1>1, <1>8, <2>5, SentAnnounced DEF MarkDeleting
    <3>2. sv.deleting
      BY <1>2, <2>5 DEF MarkDeleting, DeletePath
    <3>3. CASE sv.fin
      BY <1>1, <2>3, <3>1, <3>3 DEF HandleDelete, Underway
    <3>4. CASE ~sv.fin
      <4>1. req' = None /\ Right(s)'
        BY <2>3, <3>1, <3>2, <3>4 DEF HandleDelete, Return, Right
      <4>. QED BY <1>1, <4>1, Belongings
    <3>. QED BY <3>3, <3>4
  <2>6. CASE Unedit
    <3>1. GoTo(AfterUnedit) /\ SpecOf(Cached(pvs[n])) = sv.spec
      BY <1>5, <2>4, <2>6
    <3>2. pc' \in {"finalize", "pending", "ensurePV"} /\ sv' = sv /\ req' = req
      BY <3>1 DEF GoTo, AfterUnedit
    <3>3. PVOf(s) # None => Parsed(PVOf(s).spec) = sv.spec
      BY <1>4, <2>3, <2>6, <3>1
    <3>. QED BY <1>1, <2>3, <3>2, <3>3 DEF Underway
  <2>7. CASE Finalize \/ MarkPending \/ MarkFailed
    BY <2>4, <2>7 DEF Finalize, MarkPending, MarkFailed
  <2>8. CASE MarkReady
    <3>. DEFINE new == [sv EXCEPT !.phase = "Ready", !.claimRef = TRUE]
    <3>1. new = sv /\ Return(FALSE)
      <4>1. ASSUME NEW ok \in BOOLEAN, new # sv, Send(new, ok), Return(~ok)
            PROVE  FALSE
        <5>1. ok
          BY <2>4, <4>1
        <5>. QED BY <1>1, <1>8, <4>1, <5>1, SentAnnounced
      <4>. QED BY <2>8, <4>1 DEF MarkReady
    <3>2. sv.phase = "Ready" /\ sv.claimRef
      BY <1>2, <3>1 DEF SharedVolume
    <3>3. ~sv.deleting /\ sv.fin /\ pc = "ready"
      BY <1>2, <2>8 DEF MarkReady, DeletePath, CreatePath
    <3>4. /\ PVOf(s) # None /\ PVOf(s).care /\ Parsed(PVOf(s).spec) = sv.spec
          /\ PVCOf(s) # None /\ PVCOf(s).care
      BY <2>3, <3>3 DEF Underway, DoICare
    <3>5. /\ Recognised(PVOf(s), s, Sources)
          /\ Recognised(PVCOf(s), s, {n})
      BY <1>1, Belongings, RecognisedEnds DEF Minded, EventsFindOwner
    <3>6. Backs(PVOf(s).spec, sv.spec)
      BY <3>4, <3>5, SourceFacts DEF Recognised
    <3>7. PVCOf(s).spec = n
      BY <3>4, <3>5 DEF Recognised
    <3>8. Right(s)
      BY <2>3, <3>2, <3>3, <3>4, <3>6, <3>7 DEF Right, Provisioned, Exists
    <3>9. Right(s)'
      BY <1>1, <2>3, <3>8 DEF Right, Provisioned, Exists
    <3>10. req' = None
      BY <3>1 DEF Return
    <3>. QED BY <1>1, <3>9, <3>10, Belongings
  <2>. QED BY <2>5, <2>6, <2>7, <2>8 DEF SVStep
<1>. QED BY <1>3, <1>7, <1>8 DEF Minded, NothingForgotten

\* What an Ensurable that is used for the first time, or found in its map, says.
LEMMA EnsurablesRecognised ==
    ASSUME TypeOK, NEW s \in SharedVolumes, req = s, pc # "idle", EventsFindOwner(s)
    PROVE  /\ pvEnsurable \in PVEnsurable /\ pvcEnsurable \in PVCEnsurable
           /\ pvEnsurable # None /\ pvcEnsurable # None
           /\ EntryRecognised(pvEnsurable, s, Sources)
           /\ EntryRecognised(pvcEnsurable, s, {pvNameForSharedVolume[s]})
           /\ \/ pvBySharedVolume[s] # None /\ pvEnsurable = pvBySharedVolume[s]
              \/ Unused(pvEnsurable) /\ pvEnsurable.Definition.spec = Written(sv.spec)
           /\ \/ pvcBySharedVolume[s] # None /\ pvcEnsurable = pvcBySharedVolume[s]
              \/ pvcBySharedVolume[s] = None /\ Unused(pvcEnsurable)
<1>1. pvEnsurable \in PVEnsurable /\ pvcEnsurable \in PVCEnsurable
      /\ pvEnsurable # None /\ pvcEnsurable # None
  BY EnsurableTypes, NoEnsurableAssumption
<1>2. Written(sv.spec) \in Sources
  BY BusyType DEF Sources, SharedVolume
<1>3. /\ EntryRecognised(pvEnsurable, s, Sources)
      /\ \/ pvBySharedVolume[s] # None /\ pvEnsurable = pvBySharedVolume[s]
         \/ Unused(pvEnsurable) /\ pvEnsurable.Definition.spec = Written(sv.spec)
  <2>1. CASE pvBySharedVolume[s] = None
    <3>1. pvEnsurable = NewEnsurable("PersistentVolume", sv.uid, Written(sv.spec), s)
      BY <2>1 DEF pvEnsurable
    <3>2. /\ pvEnsurable.owner = None /\ pvEnsurable.latestVersion = None
          /\ pvEnsurable.Definition.owner = s /\ pvEnsurable.Definition.spec = Written(sv.spec)
          /\ pvEnsurable.Definition.rv = NoVersion
      BY <3>1 DEF NewEnsurable
    <3>. QED BY <1>2, <3>2 DEF EntryRecognised, Unused
  <2>2. CASE pvBySharedVolume[s] # None
    BY <2>2 DEF EventsFindOwner, pvEnsurable
  <2>. QED BY <2>1, <2>2
<1>4. /\ EntryRecognised(pvcEnsurable, s, {pvNameForSharedVolume[s]})
      /\ \/ pvcBySharedVolume[s] # None /\ pvcEnsurable = pvcBySharedVolume[s]
         \/ pvcBySharedVolume[s] = None /\ Unused(pvcEnsurable)
  <2>1. CASE pvcBySharedVolume[s] = None
    <3>1. pvcEnsurable = NewEnsurable("PersistentVolumeClaim", sv.uid, pvNameForSharedVolume[s], s)
      BY <2>1 DEF pvcEnsurable
    <3>2. /\ pvcEnsurable.owner = None /\ pvcEnsurable.latestVersion = None
          /\ pvcEnsurable.Definition.owner = s
          /\ pvcEnsurable.Definition.spec = pvNameForSharedVolume[s]
          /\ pvcEnsurable.Definition.rv = NoVersion
      BY <3>1 DEF NewEnsurable
    <3>. QED BY <2>1, <3>2 DEF EntryRecognised, Unused
  <2>2. CASE pvcBySharedVolume[s] # None
    BY <2>2 DEF EventsFindOwner, pvcEnsurable
  <2>. QED BY <2>1, <2>2
<1>. QED BY <1>1, <1>3, <1>4

\* An object whose version is the one that would be sent has its label.
LEMMA CareNoticed ==
    ASSUME NEW T, NEW U, NEW S, NEW e \in Ensurables(T, U, S, SharedVolumes), e # None,
           None \notin Resources(S, SharedVolumes),
           NEW s, NEW specs, EntryRecognised(e, s, specs),
           NEW found, found # None, Recognised(found, s, specs),
           LabelsStay \/ Remembers(e, found) \/ Unused(e),
           VersionsEqual(LatestDefinition(e), found)
    PROVE  found.care
<1>1. /\ e.latestVersion # None => LatestDefinition(e) = e.latestVersion
      /\ e.latestVersion = None => LatestDefinition(e).rv = e.Definition.rv
  BY LatestFacts
<1>2. LatestDefinition(e).rv = found.rv /\ found.rv # NoVersion
  BY DEF VersionsEqual
<1>3. CASE LabelsStay
  BY <1>3 DEF Recognised
<1>4. CASE Remembers(e, found)
  BY <1>1, <1>2, <1>4 DEF Remembers
<1>5. CASE Unused(e)
  BY <1>1, <1>2, <1>5 DEF Unused
<1>. QED BY <1>3, <1>4, <1>5

\* What Ensure does to the PV of the SharedVolume at hand.
LEMMA EnsurePVEnds ==
    ASSUME TypeOK, LabelsStay \/ Prompt, NEW s \in SharedVolumes, Minded(s), req = s,
           pc = "ensurePV", Informed,
           NEW o \in Ensure(pvEnsurable, Cached(PVs(s)), PVOf(s))
    PROVE  /\ o.server \in PV \cup {None} /\ Recognised(o.server, s, Sources)
           /\ EntryRecognised(o.e, s, Sources)
           /\ o.server # PVOf(s) => DoICare(o.server)
           /\ Prompt \/ ~Announced(s) =>
                (o.ok => DoICare(o.server) /\ o.e.latestVersion = o.server)
           /\ Prompt /\ ~o.fault => o.ok
<1>. DEFINE e == pvEnsurable
            found == Cached(PVs(s))
            server == PVOf(s)
<1>1. EventsFindOwner(s) /\ pc # "idle"
  BY DEF Minded
<1>2. /\ e \in PVEnsurable /\ e # None /\ EntryRecognised(e, s, Sources)
      /\ \/ pvBySharedVolume[s] # None /\ e = pvBySharedVolume[s]
         \/ Unused(e) /\ e.Definition.spec = Written(sv.spec)
  BY <1>1, EnsurablesRecognised
<1>3. /\ found \in PV \cup {None} /\ server \in PV \cup {None}
      /\ Recognised(found, s, Sources) /\ Recognised(server, s, Sources)
  <2>1. PVs(s) \in Versions(PV) /\ server = Stored(PVs(s))
    BY Belongings
  <2>2. AllRecognised(PVs(s), s, Sources)
    BY <1>1 DEF EventsFindOwner
  <2>3. found \in PV \cup {None} /\ Stored(PVs(s)) \in PV \cup {None}
    BY <2>1, VersionsFacts
  <2>4. Recognised(found, s, Sources) /\ Recognised(Stored(PVs(s)), s, Sources)
    BY <2>1, <2>2, RecognisedEnds
  <2>. QED BY <2>1, <2>3, <2>4
<1>4. Prompt \/ ~Announced(s) => found = server
  BY <1>1, ReadsStored
<1>5. Prompt => Remembers(e, found) \/ Unused(e)
  BY <1>2, <1>4 DEF Minded, LabelsNoticed
<1>6. /\ e \in Ensurables({"PersistentVolume"}, Nat, VolumeSources, SharedVolumes)
      /\ None \notin Ensurables({"PersistentVolume"}, Nat, VolumeSources, SharedVolumes)
      /\ None \notin Resources(VolumeSources, SharedVolumes)
      /\ found \in Resources(VolumeSources, SharedVolumes) \cup {None}
      /\ server \in Resources(VolumeSources, SharedVolumes) \cup {None}
  BY <1>2, <1>3, NoneAssumption, NoEnsurableAssumption DEF PVEnsurable, PV
<1>7. Prompt => (found # None => LatestDefinition(e).spec = found.spec)
  <2>. SUFFICES ASSUME Prompt, found # None PROVE LatestDefinition(e).spec = found.spec
    OBVIOUS
  <2>1. /\ e.latestVersion # None => LatestDefinition(e) = e.latestVersion
        /\ e.latestVersion = None => LatestDefinition(e).spec = e.Definition.spec
    BY <1>2, <1>6, LatestFacts
  <2>2. CASE e = pvBySharedVolume[s] /\ pvBySharedVolume[s] # None
    <3>1. Remembers(e, found)
      BY <1>4, <2>2 DEF Minded, LabelsNoticed
    <3>. QED BY <2>1, <3>1 DEF Remembers
  <2>3. CASE Unused(e) /\ e.Definition.spec = Written(sv.spec)
    <3>1. found.spec = Written(sv.spec)
      BY <1>4 DEF Minded, LabelsNoticed
    <3>. QED BY <2>1, <2>3, <3>1 DEF Unused
  <2>. QED BY <1>2, <2>2, <2>3
<1>8. OutcomeOK(o, e, {"PersistentVolume"}, Nat, VolumeSources, SharedVolumes)
  BY <1>1, EnsurePVOutcome DEF PVs, PVOf
<1>. HIDE DEF e, found, server
<1>9. o \in Ensure(e, found, server)
  BY DEF e, found, server
<1>10. found # None /\ VersionsEqual(LatestDefinition(e), found) => found.care
  BY <1>2, <1>3, <1>5, <1>6, CareNoticed
<1>11. "DaemonSet" \notin {"PersistentVolume"}
  OBVIOUS
<1>12. /\ Recognised(o.server, s, Sources)
       /\ EntryRecognised(o.e, s, Sources)
       /\ o.server # server => DoICare(o.server)
       /\ o.ok /\ found = server =>
            DoICare(o.server) /\ o.e.latestVersion = o.server
       /\ found = server /\ ~o.fault /\ (found # None => LatestDefinition(e).spec = found.spec) =>
            o.ok
  BY <1>2, <1>3, <1>6, <1>9, <1>10, <1>11, EnsureMinds
<1>13. o.server \in PV \cup {None}
  BY <1>8 DEF OutcomeOK, PV
<1>. QED BY <1>4, <1>7, <1>12, <1>13 DEF server

\* And to its PVC.
LEMMA EnsurePVCEnds ==
    ASSUME TypeOK, LabelsStay \/ Prompt, NEW s \in SharedVolumes, Minded(s), req = s,
           pc = "ensurePVC", Informed,
           NEW o \in Ensure(pvcEnsurable, Cached(PVCs(s)), PVCOf(s))
    PROVE  /\ o.server \in PVC \cup {None}
           /\ Recognised(o.server, s, {pvNameForSharedVolume[s]})
           /\ EntryRecognised(o.e, s, {pvNameForSharedVolume[s]})
           /\ o.server # PVCOf(s) => DoICare(o.server)
           /\ Prompt \/ ~Announced(s) =>
                (o.ok => DoICare(o.server) /\ o.e.latestVersion = o.server)
           /\ Prompt /\ ~o.fault => o.ok
<1>. DEFINE e == pvcEnsurable
            found == Cached(PVCs(s))
            server == PVCOf(s)
            specs == {pvNameForSharedVolume[s]}
<1>1. EventsFindOwner(s) /\ pc # "idle"
  BY DEF Minded
<1>2. /\ e \in PVCEnsurable /\ e # None /\ EntryRecognised(e, s, specs)
      /\ \/ pvcBySharedVolume[s] # None /\ e = pvcBySharedVolume[s]
         \/ pvcBySharedVolume[s] = None /\ Unused(e)
  BY <1>1, EnsurablesRecognised
<1>3. /\ found \in PVC \cup {None} /\ server \in PVC \cup {None}
      /\ Recognised(found, s, specs) /\ Recognised(server, s, specs)
  <2>1. PVCs(s) \in Versions(PVC) /\ server = Stored(PVCs(s))
    BY Belongings
  <2>2. AllRecognised(PVCs(s), s, specs)
    BY <1>1 DEF EventsFindOwner
  <2>3. found \in PVC \cup {None} /\ Stored(PVCs(s)) \in PVC \cup {None}
    BY <2>1, VersionsFacts
  <2>4. Recognised(found, s, specs) /\ Recognised(Stored(PVCs(s)), s, specs)
    BY <2>1, <2>2, RecognisedEnds
  <2>. QED BY <2>1, <2>3, <2>4
<1>4. Prompt \/ ~Announced(s) => found = server
  BY <1>1, ReadsStored
<1>5. Prompt => Remembers(e, found) \/ Unused(e)
  BY <1>2, <1>4 DEF Minded, LabelsNoticed
<1>6. /\ e \in Ensurables({"PersistentVolumeClaim"}, Nat, PVNames, SharedVolumes)
      /\ None \notin Ensurables({"PersistentVolumeClaim"}, Nat, PVNames, SharedVolumes)
      /\ None \notin Resources(PVNames, SharedVolumes)
      /\ found \in Resources(PVNames, SharedVolumes) \cup {None}
      /\ server \in Resources(PVNames, SharedVolumes) \cup {None}
  BY <1>2, <1>3, NoneAssumption, NoEnsurableAssumption DEF PVCEnsurable, PVC
<1>7. found # None => LatestDefinition(e).spec = found.spec
  <2>1. LatestDefinition(e).spec \in specs
    BY <1>2, <1>6, LatestFacts
  <2>2. found # None => found.spec \in specs
    BY <1>3 DEF Recognised
  <2>. QED BY <2>1, <2>2
<1>8. OutcomeOK(o, e, {"PersistentVolumeClaim"}, Nat, PVNames, SharedVolumes)
  BY <1>1, EnsurePVCOutcome DEF PVCs, PVCOf
<1>. HIDE DEF e, found, server, specs
<1>9. o \in Ensure(e, found, server)
  BY DEF e, found, server
<1>10. found # None /\ VersionsEqual(LatestDefinition(e), found) => found.care
  BY <1>2, <1>3, <1>5, <1>6, CareNoticed
<1>11. "DaemonSet" \notin {"PersistentVolumeClaim"}
  OBVIOUS
<1>12. /\ Recognised(o.server, s, specs)
       /\ EntryRecognised(o.e, s, specs)
       /\ o.server # server => DoICare(o.server)
       /\ o.ok /\ found = server =>
            DoICare(o.server) /\ o.e.latestVersion = o.server
       /\ found = server /\ ~o.fault /\ (found # None => LatestDefinition(e).spec = found.spec) =>
            o.ok
  BY <1>2, <1>3, <1>6, <1>9, <1>10, <1>11, EnsureMinds
<1>13. o.server \in PVC \cup {None}
  BY <1>8 DEF OutcomeOK, PVC
<1>. QED BY <1>4, <1>7, <1>12, <1>13 DEF server, specs

LEMMA EnsurePVMinds ==
    ASSUME IInv, LabelsStay \/ Prompt, NEW s \in SharedVolumes, Minded(s), EnsurePV, req = s
    PROVE  Minded(s)'
<1>. DEFINE n == pvNameForSharedVolume[s]
<1>1. /\ pc = "ensurePV" /\ Informed /\ TypeOK /\ EventsFindOwner(s)
      /\ UNCHANGED <<svs, SVOf(s), PVCs(s), PVCOf(s)>>
  BY DEF EnsurePV, IInv, Minded, SVOf, PVCs, PVCOf
<1>2. PICK o \in Ensure(pvEnsurable, Cached(PVs(s)), PVOf(s)) :
        /\ IF o.fault THEN Fault ELSE UNCHANGED spent
        /\ pvs' = Write(pvs, n, o.server)
        /\ pvBySharedVolume' = [pvBySharedVolume EXCEPT ![req] = o.e]
        /\ pvcBySharedVolume' = [pvcBySharedVolume EXCEPT ![req] = pvcEnsurable]
        /\ GoTo(IF o.ok THEN "ensurePVC" ELSE "failed")
  BY DEF EnsurePV, PVs, PVOf
<1>3. /\ o.server \in PV \cup {None} /\ Recognised(o.server, s, Sources)
      /\ EntryRecognised(o.e, s, Sources)
      /\ o.server # PVOf(s) => DoICare(o.server)
      /\ Prompt \/ ~Announced(s) =>
           (o.ok => DoICare(o.server) /\ o.e.latestVersion = o.server)
      /\ Prompt /\ ~o.fault => o.ok
  BY <1>1, EnsurePVEnds
<1>4. /\ pvBySharedVolume'[s] = o.e /\ pvcBySharedVolume'[s] = pvcEnsurable
      /\ pc' = (IF o.ok THEN "ensurePVC" ELSE "failed")
      /\ UNCHANGED <<req, sv, queue>>
  BY <1>1, <1>2 DEF GoTo, TypeOK
<1>5. /\ EntryRecognised(pvcEnsurable, s, {n})
      /\ \/ pvcBySharedVolume[s] # None /\ pvcEnsurable = pvcBySharedVolume[s]
         \/ pvcBySharedVolume[s] = None /\ Unused(pvcEnsurable)
  BY <1>1, EnsurablesRecognised
<1>6. /\ n \in PVNames /\ pvs \in [PVNames -> Versions(PV)]
      /\ PVOf(s) = Stored(pvs[n]) /\ PVs(s) = pvs[n] /\ PVs(s)' = pvs'[n]
  BY <1>1, Belongings DEF PVs
<1>7. PVOf(s)' = o.server
  BY <1>2, <1>3, <1>6, WriteFacts DEF PVOf
<1>8. EventsFindOwner(s)'
  <2>1. AllRecognised(pvs[n], s, Sources)
    BY <1>1, <1>6 DEF EventsFindOwner
  <2>2. AllRecognised(pvs'[n], s, Sources)
    BY <1>2, <1>3, <1>6, <2>1, RecognisedWrite
  <2>. QED BY <1>1, <1>3, <1>4, <1>5, <1>6, <2>2 DEF EventsFindOwner
<1>9. ASSUME Prompt PROVE LabelsNoticed(s)'
  <2>1. o.ok
    BY <1>1, <1>2, <1>3, <1>9, NoFault
  <2>2. Remembers(o.e, o.server)
    <3>1. DoICare(o.server) /\ o.e.latestVersion = o.server
      BY <1>3, <1>9, <2>1
    <3>2. o.server # None /\ o.server.care /\ o.server.rv \in Nat
      BY <1>3, <3>1 DEF DoICare, PV, Resources
    <3>. QED BY <3>1, <3>2 DEF Remembers
  <2>3. \/ Remembers(pvcEnsurable, PVCOf(s)) \/ Unused(pvcEnsurable)
    BY <1>1, <1>5, <1>9 DEF Minded, LabelsNoticed
  <2>. QED BY <1>1, <1>4, <1>7, <2>1, <2>2, <2>3 DEF LabelsNoticed, Remembers
<1>10. /\ Heard(PVs(s)) => Heard(PVs(s))'
       /\ \/ o.server = PVOf(s)
          \/ DoICare(o.server) => Heard(PVs(s))'
  BY <1>2, <1>3, <1>6, WriteHeard DEF passes
<1>11. ASSUME Exists(SVOf(s))', ~Announced(s)' PROVE Underway(s)'
  <2>1. Underway(s) /\ ~Announced(s)
    BY <1>1, <1>4, <1>10, <1>11, StillUnderway DEF Minded
  <2>2. o.server = PVOf(s)
    BY <1>3, <1>10, <1>11 DEF Announced
  <2>3. o.ok => DoICare(o.server)
    BY <1>3, <2>1
  <2>4. PVOf(s) = None \/ Parsed(PVOf(s).spec) = sv.spec
    BY <1>1, <2>1 DEF Underway
  <2>5. sv' = SVOf(s)'
    BY <1>1, <1>4, <2>1 DEF Underway
  <2>6. pc' = "failed" \/ (pc' = "ensurePVC" /\ DoICare(o.server))
    BY <1>4, <2>3
  <2>. QED BY <1>4, <1>7, <2>2, <2>4, <2>5, <2>6 DEF Underway
<1>. QED BY <1>4, <1>8, <1>9, <1>11 DEF Minded, NothingForgotten

LEMMA EnsurePVCMinds ==
    ASSUME IInv, LabelsStay \/ Prompt, NEW s \in SharedVolumes, Minded(s), EnsurePVC, req = s
    PROVE  Minded(s)'
<1>. DEFINE n == pvNameForSharedVolume[s]
<1>1. /\ pc = "ensurePVC" /\ Informed /\ TypeOK /\ EventsFindOwner(s)
      /\ UNCHANGED <<svs, SVOf(s), PVs(s), PVOf(s), pvBySharedVolume>>
  BY DEF EnsurePVC, IInv, Minded, SVOf, PVs, PVOf
<1>2. PICK o \in Ensure(pvcEnsurable, Cached(PVCs(s)), PVCOf(s)) :
        /\ IF o.fault THEN Fault ELSE UNCHANGED spent
        /\ pvcs' = Write(pvcs, s, o.server)
        /\ pvcBySharedVolume' = [pvcBySharedVolume EXCEPT ![req] = o.e]
        /\ GoTo(IF o.ok THEN "ready" ELSE "failed")
  BY DEF EnsurePVC, PVCs, PVCOf
<1>3. /\ o.server \in PVC \cup {None} /\ Recognised(o.server, s, {n})
      /\ EntryRecognised(o.e, s, {n})
      /\ o.server # PVCOf(s) => DoICare(o.server)
      /\ Prompt \/ ~Announced(s) =>
           (o.ok => DoICare(o.server) /\ o.e.latestVersion = o.server)
      /\ Prompt /\ ~o.fault => o.ok
  BY <1>1, EnsurePVCEnds
<1>4. /\ pvcBySharedVolume'[s] = o.e
      /\ pc' = (IF o.ok THEN "ready" ELSE "failed")
      /\ UNCHANGED <<req, sv, queue>>
  BY <1>1, <1>2 DEF GoTo, TypeOK
<1>5. /\ pvcs \in [SharedVolumes -> Versions(PVC)]
      /\ PVCOf(s) = Stored(pvcs[s]) /\ PVCs(s) = pvcs[s] /\ PVCs(s)' = pvcs'[s]
  BY <1>1, Belongings DEF PVCs
<1>6. PVCOf(s)' = o.server
  BY <1>2, <1>3, <1>5, WriteFacts DEF PVCOf
<1>7. EventsFindOwner(s)'
  <2>1. AllRecognised(pvcs[s], s, {n})
    BY <1>1, <1>5 DEF EventsFindOwner
  <2>2. AllRecognised(pvcs'[s], s, {n})
    BY <1>2, <1>3, <1>5, <2>1, RecognisedWrite
  <2>. QED BY <1>1, <1>3, <1>4, <1>5, <2>2 DEF EventsFindOwner
<1>8. ASSUME Prompt PROVE LabelsNoticed(s)'
  <2>1. o.ok
    BY <1>1, <1>2, <1>3, <1>8, NoFault
  <2>2. Remembers(o.e, o.server)
    <3>1. DoICare(o.server) /\ o.e.latestVersion = o.server
      BY <1>3, <1>8, <2>1
    <3>2. o.server # None /\ o.server.care /\ o.server.rv \in Nat
      BY <1>3, <3>1 DEF DoICare, PVC, Resources
    <3>. QED BY <3>1, <3>2 DEF Remembers
  <2>3. pvBySharedVolume[s] # None => Remembers(pvBySharedVolume[s], PVOf(s))
    BY <1>1, <1>8 DEF Minded, LabelsNoticed
  <2>. QED BY <1>1, <1>4, <1>6, <2>1, <2>2, <2>3 DEF LabelsNoticed, Remembers
<1>9. /\ Heard(PVCs(s)) => Heard(PVCs(s))'
      /\ \/ o.server = PVCOf(s)
         \/ DoICare(o.server) => Heard(PVCs(s))'
  BY <1>2, <1>3, <1>5, WriteHeard DEF passes
<1>10. ASSUME Exists(SVOf(s))', ~Announced(s)' PROVE Underway(s)'
  <2>1. Underway(s) /\ ~Announced(s)
    BY <1>1, <1>4, <1>9, <1>10, StillUnderway DEF Minded
  <2>2. o.ok => DoICare(o.server)
    BY <1>3, <2>1
  <2>3. /\ PVOf(s) = None \/ Parsed(PVOf(s).spec) = sv.spec
        /\ DoICare(PVOf(s))
    BY <1>1, <2>1 DEF Underway
  <2>4. sv' = SVOf(s)'
    BY <1>1, <1>4, <2>1 DEF Underway
  <2>5. pc' = "failed" \/ (pc' = "ready" /\ DoICare(o.server))
    BY <1>4, <2>2
  <2>. QED BY <1>1, <1>4, <1>6, <2>3, <2>4, <2>5 DEF Underway
<1>. QED BY <1>4, <1>7, <1>8, <1>10 DEF Minded, NothingForgotten

\* What Delete leaves.
LEMMA DeleteEnds ==
    ASSUME NEW T, NEW U, NEW S, NEW e \in Ensurables(T, U, S, SharedVolumes), e # None,
           None \notin Resources(S, SharedVolumes),
           NEW found, NEW server \in Resources(S, SharedVolumes) \cup {None},
           NEW s, NEW specs, EntryRecognised(e, s, specs), Recognised(server, s, specs),
           NEW o \in Delete(e, found, server)
    PROVE  /\ o.server \in Resources(S, SharedVolumes) \cup {None}
           /\ Recognised(o.server, s, specs)
           /\ EntryRecognised(o.e, s, specs)
<1>1. o.server \in {server, Terminating(server)} /\ o.e = Remember(e, None)
  BY DEF Delete, Outcome
<1>2. EntryRecognised(o.e, s, specs)
  BY <1>1, RememberRecognised
<1>3. /\ Terminating(server) \in Resources(S, SharedVolumes) \cup {None}
      /\ Recognised(Terminating(server), s, specs)
  <2>1. CASE server = None \/ server.term
    BY <2>1 DEF Terminating
  <2>2. CASE server # None /\ ~server.term
    <3>1. Terminating(server) = [server EXCEPT !.rv = server.rv + 1, !.term = TRUE]
      BY <2>2 DEF Terminating
    <3>2. server \in Resources(S, SharedVolumes) /\ server.rv + 1 \in Nat
      BY <2>2 DEF Resources
    <3>3. /\ Terminating(server) \in Resources(S, SharedVolumes)
          /\ Terminating(server).owner = server.owner
          /\ Terminating(server).spec = server.spec
          /\ Terminating(server).care = server.care
      BY <3>1, <3>2 DEF Resources
    <3>. QED BY <2>2, <3>3 DEF Recognised
  <2>. QED BY <2>1, <2>2
<1>. QED BY <1>1, <1>2, <1>3

LEMMA DeletePVCMinds ==
    ASSUME IInv, NEW s \in SharedVolumes, Minded(s), DeletePVC, req = s
    PROVE  Minded(s)'
<1>. DEFINE n == pvNameForSharedVolume[s]
<1>1. /\ pc = "deletePVC" /\ TypeOK /\ EventsFindOwner(s)
      /\ UNCHANGED <<svs, SVOf(s), PVs(s), PVOf(s), pvBySharedVolume>>
  BY DEF DeletePVC, IInv, Minded, SVOf, PVs, PVOf
<1>2. PICK o \in Delete(pvcEnsurable, Cached(PVCs(s)), PVCOf(s)) :
        /\ pvcs' = Write(pvcs, s, o.server)
        /\ IF o.ok
           THEN /\ GoTo("deletePV")
                /\ pvcBySharedVolume' = [pvcBySharedVolume EXCEPT ![req] = o.e]
           ELSE /\ Return(TRUE)
                /\ pvcBySharedVolume' = Forget(pvcBySharedVolume)
  BY DEF DeletePVC, PVCs, PVCOf
<1>3. /\ pvcs \in [SharedVolumes -> Versions(PVC)]
      /\ PVCOf(s) = Stored(pvcs[s]) /\ PVCOf(s) \in PVC \cup {None}
      /\ PVCs(s) = pvcs[s] /\ PVCs(s)' = pvcs'[s]
  BY <1>1, Belongings DEF PVCs
<1>4. /\ o.server \in PVC \cup {None} /\ Recognised(o.server, s, {n})
      /\ EntryRecognised(o.e, s, {n})
  <2>1. /\ pvcEnsurable \in PVCEnsurable /\ pvcEnsurable # None
        /\ EntryRecognised(pvcEnsurable, s, {n})
    BY <1>1, EnsurablesRecognised
  <2>2. Recognised(PVCOf(s), s, {n})
    BY <1>1, Belongings, RecognisedEnds DEF EventsFindOwner
  <2>. QED BY <1>3, <2>1, <2>2, DeleteEnds, NoneAssumption DEF PVC, PVCEnsurable
<1>5. /\ pvcBySharedVolume'[s] = (IF o.ok THEN o.e ELSE None)
      /\ o.ok => pc' = "deletePV" /\ UNCHANGED <<req, sv, queue>>
      /\ ~o.ok => pc' = "idle" /\ s \in queue'
  BY <1>1, <1>2 DEF GoTo, Return, Forget, TypeOK
<1>6. EventsFindOwner(s)'
  <2>1. AllRecognised(pvcs[s], s, {n})
    BY <1>1, <1>3 DEF EventsFindOwner
  <2>2. AllRecognised(pvcs'[s], s, {n})
    BY <1>2, <1>3, <1>4, <2>1, RecognisedWrite
  <2>3. EntryRecognised(pvcBySharedVolume'[s], s, {n})
    BY <1>4, <1>5 DEF EntryRecognised
  <2>. QED BY <1>1, <1>3, <2>2, <2>3 DEF EventsFindOwner
<1>7. ASSUME Prompt PROVE LabelsNoticed(s)'
  <2>1. pvBySharedVolume[s] # None => Remembers(pvBySharedVolume[s], PVOf(s))
    BY <1>1, <1>7 DEF Minded, LabelsNoticed
  <2>. QED BY <1>1, <1>5, <2>1 DEF LabelsNoticed, Remembers
<1>8. Heard(PVCs(s)) => Heard(PVCs(s))'
  BY <1>2, <1>3, <1>4, WriteHeard
<1>9. ASSUME Exists(SVOf(s))', ~Announced(s)' PROVE req' = s /\ Underway(s)'
  <2>1. o.ok
    BY <1>5, <1>9 DEF Announced
  <2>2. Underway(s)
    BY <1>1, <1>5, <1>8, <1>9, <2>1, StillUnderway DEF Minded
  <2>. QED BY <1>1, <1>5, <2>1, <2>2 DEF Underway
<1>. QED BY <1>6, <1>7, <1>9 DEF Minded, NothingForgotten

LEMMA DeletePVMinds ==
    ASSUME IInv, NEW s \in SharedVolumes, Minded(s), DeletePV, req = s
    PROVE  Minded(s)'
<1>. DEFINE n == pvNameForSharedVolume[s]
<1>1. /\ pc = "deletePV" /\ TypeOK /\ EventsFindOwner(s)
      /\ UNCHANGED <<svs, SVOf(s), PVCs(s), PVCOf(s)>>
  BY DEF DeletePV, IInv, Minded, SVOf, PVCs, PVCOf
<1>2. PICK o \in Delete(pvEnsurable, Cached(PVs(s)), PVOf(s)) :
        /\ pvs' = Write(pvs, n, o.server)
        /\ IF o.ok
           THEN /\ GoTo("unfinalize")
                /\ pvBySharedVolume' = [pvBySharedVolume EXCEPT ![req] = o.e]
                /\ UNCHANGED pvcBySharedVolume
           ELSE /\ Return(TRUE)
                /\ pvBySharedVolume' = Forget(pvBySharedVolume)
                /\ pvcBySharedVolume' = Forget(pvcBySharedVolume)
  BY DEF DeletePV, PVs, PVOf
<1>3. /\ n \in PVNames /\ pvs \in [PVNames -> Versions(PV)]
      /\ PVOf(s) = Stored(pvs[n]) /\ PVOf(s) \in PV \cup {None}
      /\ PVs(s) = pvs[n] /\ PVs(s)' = pvs'[n]
  BY <1>1, Belongings DEF PVs
<1>4. /\ o.server \in PV \cup {None} /\ Recognised(o.server, s, Sources)
      /\ EntryRecognised(o.e, s, Sources)
  <2>1. /\ pvEnsurable \in PVEnsurable /\ pvEnsurable # None
        /\ EntryRecognised(pvEnsurable, s, Sources)
    BY <1>1, EnsurablesRecognised
  <2>2. Recognised(PVOf(s), s, Sources)
    BY <1>1, Belongings, RecognisedEnds DEF EventsFindOwner
  <2>. QED BY <1>3, <2>1, <2>2, DeleteEnds, NoneAssumption DEF PV, PVEnsurable
<1>5. /\ pvBySharedVolume'[s] = (IF o.ok THEN o.e ELSE None)
      /\ pvcBySharedVolume'[s] = (IF o.ok THEN pvcBySharedVolume[s] ELSE None)
      /\ o.ok => pc' = "unfinalize" /\ UNCHANGED <<req, sv, queue>>
      /\ ~o.ok => pc' = "idle" /\ s \in queue'
  BY <1>1, <1>2 DEF GoTo, Return, Forget, TypeOK
<1>6. EventsFindOwner(s)'
  <2>1. AllRecognised(pvs[n], s, Sources)
    BY <1>1, <1>3 DEF EventsFindOwner
  <2>2. AllRecognised(pvs'[n], s, Sources)
    BY <1>2, <1>3, <1>4, <2>1, RecognisedWrite
  <2>3. EntryRecognised(pvBySharedVolume'[s], s, Sources)
    BY <1>4, <1>5 DEF EntryRecognised
  <2>4. EntryRecognised(pvcBySharedVolume'[s], s, {n})
    BY <1>1, <1>5 DEF EventsFindOwner, EntryRecognised
  <2>. QED BY <1>1, <1>3, <2>2, <2>3, <2>4 DEF EventsFindOwner
<1>7. LabelsNoticed(s)'
  BY <1>5 DEF LabelsNoticed
<1>8. Heard(PVs(s)) => Heard(PVs(s))'
  BY <1>2, <1>3, <1>4, WriteHeard
<1>9. ASSUME Exists(SVOf(s))', ~Announced(s)' PROVE req' = s /\ Underway(s)'
  <2>1. o.ok
    BY <1>5, <1>9 DEF Announced
  <2>2. Underway(s)
    BY <1>1, <1>5, <1>8, <1>9, <2>1, StillUnderway DEF Minded
  <2>. QED BY <1>1, <1>5, <2>1, <2>2 DEF Underway
<1>. QED BY <1>6, <1>7, <1>9 DEF Minded, NothingForgotten

\* Taking the finalizer off is announced; or it failed, and is tried again.
LEMMA UnfinalizeMinds ==
    ASSUME IInv, NEW s \in SharedVolumes, Minded(s), Unfinalize, req = s
    PROVE  Minded(s)'
<1>1. /\ pc = "unfinalize" /\ TypeOK /\ UNCHANGED <<PVs(s), PVCs(s)>>
      /\ pvBySharedVolume'[s] = None /\ pvcBySharedVolume'[s] = None
  BY DEF Unfinalize, Forget, IInv, TypeOK, PVs, PVCs
<1>2. sv \in SharedVolume /\ sv.fin /\ sv # None
  BY <1>1, BusyFacts DEF DeletePath
<1>3. PICK ok \in BOOLEAN : Send(Finalized([sv EXCEPT !.fin = FALSE]), ok) /\ Return(~ok)
  BY DEF Unfinalize
<1>4. Finalized([sv EXCEPT !.fin = FALSE]) # sv
  <2>. DEFINE bare == [sv EXCEPT !.fin = FALSE]
  <2>1. bare.fin = FALSE
    BY <1>2 DEF SharedVolume
  <2>2. bare # sv
    BY <1>2, <2>1
  <2>. HIDE DEF bare
  <2>. QED BY <1>2, <2>2 DEF Finalized, bare
<1>5. Announced(s)'
  <2>1. CASE ok
    BY <1>1, <1>3, <1>4, <2>1, SentAnnounced
  <2>2. CASE ~ok
    BY <1>3, <2>2 DEF Return, Announced
  <2>. QED BY <2>1, <2>2
<1>6. EventsFindOwner(s)'
  BY <1>1 DEF Minded, EventsFindOwner, EntryRecognised
<1>7. LabelsNoticed(s)'
  BY <1>1, <1>3 DEF LabelsNoticed, Return
<1>. QED BY <1>5, <1>6, <1>7 DEF Minded, NothingForgotten

-----------------------------------------------------------------------------
LEMMA RestInvInit == Init => RestInv
<1>. SUFFICES ASSUME Init, NEW s \in SharedVolumes PROVE Minded(s)
  BY DEF RestInv
<1>1. /\ svs[s] = <<None>> /\ PVs(s) = <<None>> /\ PVCs(s) = <<None>>
      /\ pvBySharedVolume[s] = None /\ pvcBySharedVolume[s] = None
      /\ req = None /\ s # None
  BY NamesType, NoneAssumption DEF Init, ClusterInit, NoEnsurables, PVs, PVCs
<1>2. EventsFindOwner(s)
  BY <1>1 DEF EventsFindOwner, AllRecognised, Recognised, EntryRecognised
<1>3. LabelsNoticed(s)
  BY <1>1 DEF LabelsNoticed
<1>4. SVOf(s) = None
  BY <1>1 DEF SVOf, Stored
<1>. QED BY <1>2, <1>3, <1>4 DEF Minded, NothingForgotten, Exists

LEMMA RestInvNext ==
    ASSUME OwnVolumes, LabelsStay \/ Prompt
    PROVE  IInv /\ RestInv /\ [Next]_vars => RestInv'
<1>. SUFFICES ASSUME IInv, RestInv, [Next]_vars, NEW s \in SharedVolumes
              PROVE  Minded(s)'
  BY DEF RestInv
<1>1. TypeOK /\ Minded(s) /\ s # None
  BY NoneAssumption DEF IInv, RestInv
<1>2. CASE (Environment \/ Informers) /\ UNCHANGED <<workerVars, mapVars>>
  BY <1>1, <1>2, UserActsOnSV, OthersActOnPV, OthersActOnPVC, InformersMind DEF Environment
<1>3. CASE \E t \in SharedVolumes : Begin(t)
  BY <1>1, <1>3, BeginMinds
<1>4. CASE Continue
  <2>1. CASE s = req
    BY <1>1, <1>4, <2>1, SVStepMinds, DeletePVCMinds, DeletePVMinds, UnfinalizeMinds,
       EnsurePVMinds, EnsurePVCMinds DEF Continue, SVStep
  <2>2. CASE s # req
    BY <1>1, <1>4, <2>2, WorkerApart
  <2>. QED BY <2>1, <2>2
<1>5. CASE Crash
  BY <1>1, <1>5, CrashMinds
<1>6. CASE UNCHANGED vars
  <2>1. /\ UNCHANGED <<svs[s], PVs(s), PVCs(s), pvBySharedVolume[s], pvcBySharedVolume[s]>>
        /\ UNCHANGED <<queue, workerVars>> /\ req' = req
    BY <1>6 DEF vars, clusterVars, objectVars, mapVars, workerVars, PVs, PVCs
  <2>. QED BY <1>1, <2>1, Apart
<1>. QED BY <1>2, <1>3, <1>4, <1>5, <1>6 DEF Next

\* With nothing announced and the worker idle, each SharedVolume is right.
LEMMA RestFromInv == IInv /\ RestInv => RestIsRight
<1>. SUFFICES ASSUME IInv, RestInv, AtRest, NEW s \in SharedVolumes, Exists(SVOf(s))
              PROVE  Right(s) /\ (~SVOf(s).deleting => Reachable(s))
  BY DEF RestIsRight
<1>1. TypeOK /\ NothingForgotten(s)
  BY DEF IInv, RestInv, Minded
<1>2. req # s
  BY <1>1, NoneAssumption DEF AtRest, TypeOK, Steps, DeletePath, CreatePath
<1>3. Len(svs[s]) = 1 /\ Len(PVs(s)) = 1 /\ Len(PVCs(s)) = 1
  BY <1>1, Belongings DEF AtRest, Current, UpToDate, PVs, PVCs
<1>4. ~Heard(PVs(s)) /\ ~Heard(PVCs(s)) /\ ~(Len(svs[s]) > 1)
  <2>1. \A v : Len(v) = 1 => ~Heard(v)
    BY DEF Heard
  <2>. QED BY <1>3, <2>1
<1>5. ~Announced(s)
  BY <1>4 DEF Announced, AtRest
<1>6. Right(s)
  BY <1>1, <1>2, <1>5 DEF NothingForgotten
<1>7. Recognised(PVOf(s), s, Sources) /\ Recognised(PVCOf(s), s, {pvNameForSharedVolume[s]})
  <2>1. /\ PVs(s) \in Versions(PV) /\ PVOf(s) = Stored(PVs(s))
        /\ PVCs(s) \in Versions(PVC) /\ PVCOf(s) = Stored(PVCs(s))
    BY <1>1, Belongings
  <2>2. AllRecognised(PVs(s), s, Sources) /\ AllRecognised(PVCs(s), s, {pvNameForSharedVolume[s]})
    BY DEF RestInv, Minded, EventsFindOwner
  <2>. QED BY <2>1, <2>2, RecognisedEnds
<1>. QED BY <1>6, <1>7 DEF Right, Provisioned, Reachable, Recognised, Exists

LEMMA RestAlways ==
    ASSUME OwnVolumes, LabelsStay \/ Prompt
    PROVE  Spec => [](IInv /\ RestInv)
<1>1. Init => IInv /\ RestInv
  BY IInvInit, RestInvInit
<1>2. IInv /\ RestInv /\ [Next]_vars => IInv' /\ RestInv'
  BY IInvNext, RestInvNext
<1>. QED BY <1>1, <1>2, PTL DEF Spec

\* Whenever nothing is left to do, each SharedVolume is provisioned, with a PV and a PVC
\* whose labels name it, or on its way out with the finalizer off: with caches of any age,
\* faults and crashes, users who delete PVs and PVCs and old-style PVs; or, if caches keep
\* up and requests are answered, also when users take the watch label off.  No two
\* SharedVolumes may share a PV, and nobody takes owner labels off or garbles a PV,
\* which the operator does not undo.
THEOREM NothingIsForgotten ==
    ASSUME OwnVolumes, LabelsStay \/ Prompt
    PROVE  Spec => []RestIsRight
<1>1. IInv /\ RestInv => RestIsRight
  BY RestFromInv
<1>. QED BY <1>1, RestAlways, PTL

\* What an Ensurable remembers has the watch label (ensurable.go 166), unless a label is
\* taken off and a request then fails or a cache is old: failed_update has such a fault.
THEOREM RememberedCare ==
    ASSUME OwnVolumes, LabelsStay \/ Prompt
    PROVE  Spec => []RememberedObjectsCare
<1>1. RestInv => RememberedObjectsCare
  <2>. SUFFICES ASSUME RestInv, NEW s \in SharedVolumes
                PROVE  \A map \in {pvBySharedVolume, pvcBySharedVolume} :
                          Exists(map[s]) /\ Exists(map[s].latestVersion) => map[s].latestVersion.care
    BY DEF RememberedObjectsCare
  <2>1. /\ EntryRecognised(pvBySharedVolume[s], s, Sources)
        /\ EntryRecognised(pvcBySharedVolume[s], s, {pvNameForSharedVolume[s]})
    BY DEF RestInv, Minded, EventsFindOwner
  <2>2. ASSUME NEW e, NEW specs, EntryRecognised(e, s, specs), Exists(e), Exists(e.latestVersion)
        PROVE  e.latestVersion.care
    BY <2>2 DEF EntryRecognised, Exists
  <2>. QED BY <2>1, <2>2
<1>. QED BY <1>1, RestAlways, PTL
=============================================================================
