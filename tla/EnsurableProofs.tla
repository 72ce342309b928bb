--------------------------- MODULE EnsurableProofs ---------------------------
(***************************************************************************)
(* What the operations of an Ensurable return, for every Ensurable and     *)
(* every object found and stored; what is done to versions of objects; and *)
(* which of it becomes a request.                                          *)
(***************************************************************************)
EXTENDS Informer, SequenceTheorems, TLAPS

LEMMA DefinitionType ==
    ASSUME NEW T, NEW U, NEW S, NEW O, NEW e \in Ensurables(T, U, S, O),
           None \notin Resources(S, O)
    PROVE  LatestDefinition(e) \in Resources(S, O)
<1>. DEFINE def == IF e.latestVersion # None THEN e.latestVersion ELSE MakeMeCare(e.Definition)
<1>1. def \in Resources(S, O)
  <2>1. CASE e.latestVersion # None
    BY <2>1 DEF Ensurables
  <2>2. CASE e.latestVersion = None
    <3>1. e.Definition \in Resources(S, O)
      BY DEF Ensurables
    <3>2. MakeMeCare(e.Definition) \in Resources(S, O)
      BY <3>1 DEF MakeMeCare, Resources
    <3>. QED BY <2>2, <3>2
  <2>. QED BY <2>1, <2>2
<1>2. e.owner \in O \cup {None}
  BY DEF Ensurables
<1>3. LatestDefinition(e) = WithOwner(e, def)
  BY DEF LatestDefinition
<1>. HIDE DEF def
<1>4. WithOwner(e, def) \in Resources(S, O)
  BY <1>1, <1>2 DEF WithOwner, Resources
<1>. QED BY <1>3, <1>4

\* The defaults that the API server fills in belong to DaemonSets.
CompletesTo(T, S) == "DaemonSet" \in T => "golden" \in S

LEMMA CompletedType ==
    ASSUME NEW T, NEW U, NEW S, NEW O, NEW e \in Ensurables(T, U, S, O),
           CompletesTo(T, S), NEW obj \in Resources(S, O)
    PROVE  Completed(e, obj) \in Resources(S, O)
<1>1. e.ObjType \in T
  BY DEF Ensurables
<1>2. "golden" \in S => [obj EXCEPT !.spec = "golden"] \in Resources(S, O)
  BY DEF Resources
<1>. QED BY <1>1, <1>2 DEF Completed, CompletesTo

LEMMA StampedType ==
    ASSUME NEW T, NEW U, NEW S, NEW O, NEW e \in Ensurables(T, U, S, O), NEW rv \in Nat,
           None \notin Resources(S, O)
    PROVE  Stamped(e, rv) \in Ensurables(T, U, S, O) /\ Stamped(e, rv).uid = e.uid
<1>1. CASE e.latestVersion # None
  <2>1. e.latestVersion \in Resources(S, O)
    BY <1>1 DEF Ensurables
  <2>2. [e.latestVersion EXCEPT !.rv = rv] \in Resources(S, O)
    BY <2>1 DEF Resources
  <2>3. Stamped(e, rv) = [e EXCEPT !.latestVersion = [e.latestVersion EXCEPT !.rv = rv]]
    BY <1>1 DEF Stamped, Ensurables
  <2>. QED BY <2>2, <2>3 DEF Ensurables
<1>2. CASE e.latestVersion = None
  <2>1. e.Definition \in Resources(S, O)
    BY DEF Ensurables
  <2>2. [e.Definition EXCEPT !.rv = rv] \in Resources(S, O)
    BY <2>1 DEF Resources
  <2>3. Stamped(e, rv) = [e EXCEPT !.Definition = [e.Definition EXCEPT !.rv = rv]]
    BY <1>2 DEF Stamped, Ensurables
  <2>. QED BY <2>2, <2>3 DEF Ensurables
<1>. QED BY <1>1, <1>2

LEMMA RememberType ==
    ASSUME NEW T, NEW U, NEW S, NEW O, NEW e \in Ensurables(T, U, S, O),
           NEW obj \in Resources(S, O) \cup {None}
    PROVE  Remember(e, obj) \in Ensurables(T, U, S, O) /\ Remember(e, obj).uid = e.uid
BY DEF Remember, Ensurables

\* Records stay resources when a version and a deletion mark are set.
LEMMA MarkType ==
    ASSUME NEW S, NEW O, NEW obj \in Resources(S, O), NEW rv \in Nat, NEW term \in BOOLEAN
    PROVE  [obj EXCEPT !.rv = rv, !.term = term] \in Resources(S, O)
BY DEF Resources

LEMMA TerminatingType ==
    ASSUME NEW S, NEW O, NEW obj \in Resources(S, O) \cup {None},
           None \notin Resources(S, O)
    PROVE  /\ Terminating(obj) \in Resources(S, O) \cup {None}
           /\ obj = None => Terminating(obj) = None
<1>1. CASE obj = None
  BY <1>1 DEF Terminating
<1>2. CASE obj # None
  <2>1. obj.rv + 1 \in Nat
    BY <1>2 DEF Resources
  <2>2. [obj EXCEPT !.rv = obj.rv + 1, !.term = TRUE] \in Resources(S, O)
    BY <1>2, <2>1, MarkType
  <2>. QED BY <1>2, <2>2 DEF Terminating
<1>. QED BY <1>1, <1>2

\* What may be relied on in an outcome of an operation on e.
OutcomeOK(o, e, T, U, S, O) ==
    /\ o.ok \in BOOLEAN
    /\ o.fault \in BOOLEAN
    /\ o.server \in Resources(S, O) \cup {None}
    /\ o.e \in Ensurables(T, U, S, O)
    /\ o.e.uid = e.uid

LEMMA OutcomeIsOK ==
    ASSUME NEW T, NEW U, NEW S, NEW O, NEW e \in Ensurables(T, U, S, O),
           NEW ok \in BOOLEAN, NEW fault \in BOOLEAN,
           NEW server \in Resources(S, O) \cup {None},
           NEW f \in Ensurables(T, U, S, O), f.uid = e.uid
    PROVE  OutcomeOK(Outcome(ok, server, f, fault), e, T, U, S, O)
BY DEF OutcomeOK, Outcome

LEMMA CreateType ==
    ASSUME NEW T, NEW U, NEW S, NEW O, NEW e \in Ensurables(T, U, S, O),
           NEW server \in Resources(S, O) \cup {None},
           None \notin Resources(S, O), CompletesTo(T, S),
           NEW o \in CreateOutcomes(e, server)
    PROVE  OutcomeOK(o, e, T, U, S, O)
<1>. DEFINE made == Created(e)
            kept == Stamped(e, NoVersion)
<1>1. made \in Resources(S, O)
  <2>1. LatestDefinition(e) \in Resources(S, O)
    BY DefinitionType
  <2>2. [LatestDefinition(e) EXCEPT !.rv = 1, !.term = FALSE] \in Resources(S, O)
    BY <2>1, MarkType
  <2>. QED BY <2>2, CompletedType DEF Created
<1>2. kept \in Ensurables(T, U, S, O) /\ kept.uid = e.uid
  BY StampedType DEF NoVersion
<1>3. Remember(kept, made) \in Ensurables(T, U, S, O) /\ Remember(kept, made).uid = e.uid
  BY <1>1, <1>2, RememberType
<1>4. \/ o = Outcome(FALSE, server, kept, TRUE)
      \/ o = Outcome(TRUE, made, Remember(kept, made), FALSE)
      \/ o = Outcome(FALSE, made, kept, TRUE)
      \/ o = Outcome(FALSE, server, kept, FALSE)
  BY DEF CreateOutcomes
<1>. HIDE DEF made, kept
<1>. QED BY <1>1, <1>2, <1>3, <1>4, OutcomeIsOK

LEMMA UpdateType ==
    ASSUME NEW T, NEW U, NEW S, NEW O, NEW e \in Ensurables(T, U, S, O),
           NEW found \in Resources(S, O),
           NEW server \in Resources(S, O) \cup {None},
           None \notin Resources(S, O), CompletesTo(T, S),
           NEW o \in UpdateOutcomes(e, found, server)
    PROVE  OutcomeOK(o, e, T, U, S, O) /\ (server = None => o.server = None)
<1>. DEFINE made == Updated(e, found)
            kept == Stamped(e, found.rv)
<1>1. made \in Resources(S, O)
  <2>. DEFINE sent == [LatestDefinition(e) EXCEPT !.rv = found.rv, !.term = found.term]
              stored == Completed(e, sent)
  <2>1. LatestDefinition(e) \in Resources(S, O)
    BY DefinitionType
  <2>2. found.rv \in Nat /\ found.rv + 1 \in Nat /\ found.term \in BOOLEAN
    BY DEF Resources
  <2>3. sent \in Resources(S, O)
    BY <2>1, <2>2, MarkType
  <2>4. stored \in Resources(S, O)
    <3>. HIDE DEF sent
    <3>. QED BY <2>3, CompletedType
  <2>5. Updated(e, found) = IF stored = found THEN found ELSE [stored EXCEPT !.rv = found.rv + 1]
    BY DEF Updated
  <2>. HIDE DEF stored
  <2>6. [stored EXCEPT !.rv = found.rv + 1] \in Resources(S, O)
    BY <2>2, <2>4 DEF Resources
  <2>. QED BY <2>5, <2>6
<1>2. kept \in Ensurables(T, U, S, O) /\ kept.uid = e.uid
  <2>1. found.rv \in Nat
    BY DEF Resources
  <2>. QED BY <2>1, StampedType
<1>3. Remember(kept, made) \in Ensurables(T, U, S, O) /\ Remember(kept, made).uid = e.uid
  <2>. HIDE DEF made, kept
  <2>. QED BY <1>1, <1>2, RememberType
<1>4. \/ o = Outcome(FALSE, server, kept, TRUE)
      \/ server = found /\ o = Outcome(TRUE, made, Remember(kept, made), FALSE)
      \/ server = found /\ o = Outcome(FALSE, made, kept, TRUE)
      \/ o = Outcome(FALSE, server, kept, FALSE)
  BY DEF UpdateOutcomes
<1>5. server = None => o.server = None
  BY <1>4 DEF Outcome
<1>. HIDE DEF made, kept
<1>6. OutcomeOK(o, e, T, U, S, O)
  BY <1>1, <1>2, <1>3, <1>4, OutcomeIsOK
<1>. QED BY <1>5, <1>6

LEMMA DeleteType ==
    ASSUME NEW T, NEW U, NEW S, NEW O, NEW e \in Ensurables(T, U, S, O),
           NEW found, NEW server \in Resources(S, O) \cup {None},
           None \notin Resources(S, O),
           NEW o \in Delete(e, found, server)
    PROVE  OutcomeOK(o, e, T, U, S, O) /\ (server = None => o.server = None)
<1>. DEFINE cleared == Remember(e, None)
<1>1. cleared \in Ensurables(T, U, S, O) /\ cleared.uid = e.uid
  BY RememberType
<1>2. /\ Terminating(server) \in Resources(S, O) \cup {None}
      /\ server = None => Terminating(server) = None
  BY TerminatingType
<1>3. \/ o = Outcome(TRUE, server, cleared, FALSE)
      \/ o = Outcome(TRUE, Terminating(server), cleared, FALSE)
      \/ o = Outcome(FALSE, server, cleared, TRUE)
      \/ o = Outcome(FALSE, Terminating(server), cleared, TRUE)
  BY DEF Delete
<1>4. server = None => o.server = None
  BY <1>2, <1>3 DEF Outcome
<1>. HIDE DEF cleared
<1>5. OutcomeOK(o, e, T, U, S, O)
  BY <1>1, <1>2, <1>3, OutcomeIsOK
<1>. QED BY <1>4, <1>5

LEMMA EnsureType ==
    ASSUME NEW T, NEW U, NEW S, NEW O, NEW e \in Ensurables(T, U, S, O),
           NEW found \in Resources(S, O) \cup {None},
           NEW server \in Resources(S, O) \cup {None},
           None \notin Resources(S, O), CompletesTo(T, S),
           NEW o \in Ensure(e, found, server)
    PROVE  OutcomeOK(o, e, T, U, S, O)
<1>1. CASE o = Outcome(FALSE, server, e, TRUE)
  BY <1>1, OutcomeIsOK
<1>2. CASE found = None /\ o \in CreateOutcomes(e, server)
  BY <1>2, CreateType
<1>3. CASE found # None /\ o = Outcome(TRUE, server, Remember(e, found), FALSE)
  <2>1. found \in Resources(S, O)
    BY <1>3
  <2>2. Remember(e, found) \in Ensurables(T, U, S, O) /\ Remember(e, found).uid = e.uid
    BY <2>1, RememberType
  <2>. QED BY <1>3, <2>2, OutcomeIsOK
<1>4. CASE found # None /\ o \in UpdateOutcomes(e, found, server)
  BY <1>4, UpdateType
<1>. QED BY <1>1, <1>2, <1>3, <1>4 DEF Ensure

\* Ensure neither takes an owner away nor makes an object without one, if it has one.
LEMMA EnsureOwns ==
    ASSUME NEW e, NEW found, NEW server, NEW o \in Ensure(e, found, server),
           e.owner # None, NEW T, NEW U, NEW S, NEW O, e \in Ensurables(T, U, S, O),
           None \notin Resources(S, O), found \in Resources(S, O) \cup {None},
           CompletesTo(T, S)
    PROVE  o.server = server \/ o.server.owner # None
<1>. DEFINE latest == LatestDefinition(e)
<1>1. latest \in Resources(S, O)
  BY DefinitionType
<1>2. latest.owner = e.owner
  <2>. DEFINE def == IF e.latestVersion # None THEN e.latestVersion ELSE MakeMeCare(e.Definition)
  <2>1. latest = [def EXCEPT !.owner = e.owner]
    BY DEF LatestDefinition, WithOwner
  <2>2. def \in Resources(S, O)
    BY DEF Ensurables, MakeMeCare, Resources
  <2>. HIDE DEF def, latest
  <2>. QED BY <2>1, <2>2 DEF Resources
<1>. HIDE DEF latest
<1>3. Created(e).owner = e.owner
  <2>. DEFINE sent == [latest EXCEPT !.rv = 1, !.term = FALSE]
  <2>1. sent.owner = e.owner /\ [sent EXCEPT !.spec = "golden"].owner = e.owner
    BY <1>1, <1>2 DEF Resources
  <2>2. Created(e) = Completed(e, sent)
    BY DEF Created, latest
  <2>. HIDE DEF sent
  <2>. QED BY <2>1, <2>2 DEF Completed
<1>4. found # None => Updated(e, found) = found \/ Updated(e, found).owner = e.owner
  <2>. DEFINE sent == [latest EXCEPT !.rv = found.rv, !.term = found.term]
              made == Completed(e, sent)
  <2>1. sent.owner = e.owner /\ [sent EXCEPT !.spec = "golden"].owner = e.owner
    BY <1>1, <1>2 DEF Resources
  <2>. SUFFICES ASSUME found # None PROVE Updated(e, found) = found \/ Updated(e, found).owner = e.owner
    OBVIOUS
  <2>2. sent \in Resources(S, O)
    BY <1>1 DEF Resources
  <2>3. made \in Resources(S, O)
    <3>. HIDE DEF sent
    <3>. QED BY <2>2, CompletedType
  <2>4. made.owner = e.owner
    <3>. HIDE DEF sent
    <3>. QED BY <2>1 DEF Completed
  <2>5. Updated(e, found) = IF made = found THEN found ELSE [made EXCEPT !.rv = found.rv + 1]
    BY DEF Updated, latest
  <2>. HIDE DEF made
  <2>. QED BY <2>3, <2>4, <2>5 DEF Resources
<1>5. CASE o.server = server
  BY <1>5
<1>6. CASE found = None /\ o.server = Created(e)
  BY <1>3, <1>6
<1>7. CASE found # None /\ server = found /\ o.server = Updated(e, found)
  BY <1>4, <1>7
<1>8. o.server = server \/ (found = None /\ o.server = Created(e))
        \/ (found # None /\ server = found /\ o.server = Updated(e, found))
  <2>1. ASSUME found = None, o \in CreateOutcomes(e, server)
        PROVE  o.server \in {server, Created(e)}
    BY <2>1 DEF CreateOutcomes, Outcome
  <2>2. ASSUME found # None, o \in UpdateOutcomes(e, found, server)
        PROVE  o.server = server \/ (server = found /\ o.server = Updated(e, found))
    BY <2>2 DEF UpdateOutcomes, Outcome
  <2>3. \/ o = Outcome(FALSE, server, e, TRUE)
        \/ o = Outcome(TRUE, server, Remember(e, found), FALSE)
        \/ found = None /\ o \in CreateOutcomes(e, server)
        \/ found # None /\ o \in UpdateOutcomes(e, found, server)
    BY DEF Ensure
  <2>4. \/ o = Outcome(FALSE, server, e, TRUE)
        \/ o = Outcome(TRUE, server, Remember(e, found), FALSE)
        => o.server = server
    BY DEF Outcome
  <2>. QED BY <2>1, <2>2, <2>3, <2>4
<1>. QED BY <1>5, <1>6, <1>7, <1>8

\* How an Ensure ends that sends something, and one that does not.
EndOfSend(o, e, found, server) ==
    \E rv \in {NoVersion} \cup (IF found = None THEN {} ELSE {found.rv}),
       made \in {Created(e)} \cup (IF found = None THEN {} ELSE {Updated(e, found)}) :
        \/ /\ o = Outcome(FALSE, server, Stamped(e, rv), FALSE)
           /\ found # server \/ (found # None /\ e.ObjType \in Immutable /\ made.spec # found.spec)
        \/ o = Outcome(FALSE, server, Stamped(e, rv), TRUE)
        \/ o = Outcome(FALSE, made, Stamped(e, rv), TRUE)
        \/ o = Outcome(TRUE, made, Remember(Stamped(e, rv), made), FALSE)

EndOfCheck(o, e, found, server) ==
    /\ found # None /\ Equal(e, LatestDefinition(e), found)
    /\ o = Outcome(TRUE, server, Remember(e, found), FALSE)

LEMMA EnsureEnds ==
    ASSUME NEW e, NEW found, NEW server, NEW o \in Ensure(e, found, server)
    PROVE  \/ o = Outcome(FALSE, server, e, TRUE)
           \/ EndOfCheck(o, e, found, server)
           \/ EndOfSend(o, e, found, server)
<1>1. CASE o = Outcome(FALSE, server, e, TRUE)
  BY <1>1
<1>2. CASE found = None /\ o \in CreateOutcomes(e, server)
  <2>. DEFINE made == Created(e)
              kept == Stamped(e, NoVersion)
  <2>1. \/ o = Outcome(FALSE, server, kept, TRUE)
        \/ o = Outcome(TRUE, made, Remember(kept, made), FALSE)
        \/ o = Outcome(FALSE, made, kept, TRUE)
        \/ o = Outcome(FALSE, server, kept, FALSE) /\ server # None
    BY <1>2 DEF CreateOutcomes
  <2>2. made \in {Created(e)} /\ NoVersion \in {NoVersion}
    OBVIOUS
  <2>. QED BY <1>2, <2>1, <2>2 DEF EndOfSend
<1>3. CASE found # None /\ Equal(e, LatestDefinition(e), found)
            /\ o = Outcome(TRUE, server, Remember(e, found), FALSE)
  BY <1>3 DEF EndOfCheck
<1>4. CASE found # None /\ o \in UpdateOutcomes(e, found, server)
  <2>. DEFINE made == Updated(e, found)
              kept == Stamped(e, found.rv)
  <2>1. \/ o = Outcome(FALSE, server, kept, TRUE)
        \/ o = Outcome(TRUE, made, Remember(kept, made), FALSE)
        \/ o = Outcome(FALSE, made, kept, TRUE)
        \/ /\ o = Outcome(FALSE, server, kept, FALSE)
           /\ server # found \/ (e.ObjType \in Immutable /\ made.spec # found.spec)
    BY <1>4 DEF UpdateOutcomes
  <2>. QED BY <1>4, <2>1 DEF EndOfSend
<1>. QED BY <1>1, <1>2, <1>3, <1>4 DEF Ensure

-----------------------------------------------------------------------------
(* Versions of an object. *)

LEMMA VersionsFacts ==
    ASSUME NEW S, NEW v \in Versions(S)
    PROVE  /\ v \in Seq(S \cup {None}) /\ Len(v) \in Nat /\ Len(v) >= 1
           /\ \A i \in 1..Len(v) : v[i] \in S \cup {None}
           /\ Stored(v) \in S \cup {None}
           /\ Cached(v) \in S \cup {None}
BY DEF Versions, Stored, Cached

LEMMA AppendFacts ==
    ASSUME NEW S, NEW v \in Versions(S), NEW obj \in S \cup {None}
    PROVE  /\ Append(v, obj) \in Versions(S)
           /\ Len(Append(v, obj)) = Len(v) + 1
           /\ \A i \in 1..Len(v) : Append(v, obj)[i] = v[i]
           /\ Append(v, obj)[Len(v) + 1] = obj
           /\ Stored(Append(v, obj)) = obj
<1>1. v \in Seq(S \cup {None}) /\ Len(v) \in Nat
  BY VersionsFacts
<1>2. Append(v, obj) \in Seq(S \cup {None}) /\ Len(Append(v, obj)) = Len(v) + 1
  BY <1>1
<1>3. (\A i \in 1..Len(v) : Append(v, obj)[i] = v[i]) /\ Append(v, obj)[Len(v) + 1] = obj
  BY <1>1
<1>4. Append(v, obj) # <<>>
  BY <1>1, <1>2
<1>. QED BY <1>1, <1>2, <1>3, <1>4 DEF Versions, Stored

LEMMA TailFacts ==
    ASSUME NEW S, NEW v \in Versions(S), Len(v) > 1
    PROVE  /\ Tail(v) \in Versions(S)
           /\ Len(Tail(v)) = Len(v) - 1
           /\ \A i \in 1..Len(Tail(v)) : i + 1 \in 1..Len(v) /\ Tail(v)[i] = v[i + 1]
           /\ Stored(Tail(v)) = Stored(v)
<1>. v \in Seq(S \cup {None}) /\ v # <<>> /\ Len(v) \in Nat
  BY VersionsFacts DEF Versions
<1>1. Tail(v) \in Seq(S \cup {None}) /\ Len(Tail(v)) = Len(v) - 1
  BY HeadTailProperties
<1>2. \A i \in 1..Len(Tail(v)) : i + 1 \in 1..Len(v) /\ Tail(v)[i] = v[i + 1]
  BY <1>1, HeadTailProperties
<1>3. Tail(v) # <<>>
  <2>1. Len(<<>>) = 0
    OBVIOUS
  <2>2. Len(Tail(v)) # 0
    BY <1>1
  <2>. QED BY <2>1, <2>2
<1>4. Tail(v)[Len(Tail(v))] = v[Len(v)]
  <2>1. Len(Tail(v)) \in 1..Len(Tail(v)) /\ Len(Tail(v)) + 1 = Len(v)
    BY <1>1
  <2>. QED BY <1>2, <2>1
<1>5. Stored(Tail(v)) = Stored(v)
  BY <1>4 DEF Stored
<1>. QED BY <1>1, <1>2, <1>3, <1>5 DEF Versions

LEMMA RelistFacts ==
    ASSUME NEW S, NEW v \in Versions(S)
    PROVE  /\ <<Stored(v)>> \in Versions(S)
           /\ Len(<<Stored(v)>>) = 1
           /\ <<Stored(v)>>[1] = Stored(v)
           /\ Stored(<<Stored(v)>>) = Stored(v)
<1>. DEFINE obj == Stored(v)
<1>1. obj \in S \cup {None}
  BY VersionsFacts
<1>. HIDE DEF obj
<1>2. <<obj>> \in Seq(S \cup {None}) /\ Len(<<obj>>) = 1 /\ <<obj>>[1] = obj
  BY <1>1
<1>3. <<obj>> # <<>>
  OBVIOUS
<1>4. <<obj>> \in Versions(S) /\ Stored(<<obj>>) = obj
  BY <1>2, <1>3 DEF Versions, Stored
<1>. QED BY <1>2, <1>4 DEF obj

\* A write to one object leaves the others alone and makes obj the stored version.
LEMMA WriteFacts ==
    ASSUME NEW K, NEW S, NEW objects \in [K -> Versions(S)],
           NEW key \in K, NEW obj \in S \cup {None}
    PROVE  /\ Write(objects, key, obj) \in [K -> Versions(S)]
           /\ \A k \in K \ {key} : Write(objects, key, obj)[k] = objects[k]
           /\ Stored(Write(objects, key, obj)[key]) = obj
           /\ \/ obj = Stored(objects[key]) /\ Write(objects, key, obj) = objects
              \/ Write(objects, key, obj)[key] = Append(objects[key], obj)
<1>1. CASE obj = Stored(objects[key])
  BY <1>1 DEF Write
<1>2. CASE obj # Stored(objects[key])
  <2>1. Write(objects, key, obj) = [objects EXCEPT ![key] = Append(objects[key], obj)]
    BY <1>2 DEF Write
  <2>2. objects[key] \in Versions(S)
    OBVIOUS
  <2>3. Append(objects[key], obj) \in Versions(S) /\ Stored(Append(objects[key], obj)) = obj
    BY <2>2, AppendFacts
  <2>. QED BY <2>1, <2>3
<1>. QED BY <1>1, <1>2

\* Deliver, on all objects of a kind.
LEMMA DeliverType ==
    ASSUME NEW K, NEW S, NEW objects \in [K -> Versions(S)], NEW key \in K,
           Len(objects[key]) > 1
    PROVE  /\ Deliver(objects, key) \in [K -> Versions(S)]
           /\ objects[key][1] \in S \cup {None} /\ objects[key][2] \in S \cup {None}
<1>1. objects[key] \in Versions(S)
  OBVIOUS
<1>2. Tail(objects[key]) \in Versions(S)
  BY <1>1, TailFacts
<1>3. 1 \in 1..Len(objects[key]) /\ 2 \in 1..Len(objects[key])
  <2>1. Len(objects[key]) \in Nat
    BY <1>1, VersionsFacts
  <2>. QED BY <2>1
<1>. QED BY <1>1, <1>2, <1>3, VersionsFacts DEF Deliver

LEMMA RelistType ==
    ASSUME NEW K, NEW S, NEW objects \in [K -> Versions(S)]
    PROVE  Relisted(objects) \in [K -> Versions(S)]
<1>1. DOMAIN objects = K /\ \A key \in K : objects[key] \in Versions(S)
  OBVIOUS
<1>2. \A key \in K : <<Stored(objects[key])>> \in Versions(S)
  BY <1>1, RelistFacts
<1>. QED BY <1>1, <1>2 DEF Relisted

-----------------------------------------------------------------------------
(* What is heard of the versions of an object. *)

LEMMA HeardAppend ==
    ASSUME NEW S, NEW v \in Versions(S), NEW obj \in S \cup {None}
    PROVE  /\ Heard(v) => Heard(Append(v, obj))
           /\ passes(Stored(v), obj) => Heard(Append(v, obj))
<1>. DEFINE a == Append(v, obj)
            m == Len(v)
<1>1. /\ m \in Nat /\ m >= 1 /\ Len(a) = m + 1
      /\ \A i \in 1..m : a[i] = v[i]
      /\ a[m + 1] = obj
  BY VersionsFacts, AppendFacts
<1>2. Stored(v) = v[m]
  BY DEF Stored
<1>. HIDE DEF a, m
<1>3. passes(Stored(v), obj) => Heard(a)
  <2>1. m \in 1..(Len(a) - 1) /\ m \in 1..m
    BY <1>1
  <2>. QED BY <1>1, <1>2, <2>1 DEF Heard
<1>4. Heard(v) => Heard(a)
  <2>1. \A i \in 1..(m - 1) : i \in 1..m /\ i + 1 \in 1..m /\ i \in 1..(Len(a) - 1)
    BY <1>1
  <2>. QED BY <1>1, <2>1 DEF Heard, m
<1>. QED BY <1>3, <1>4 DEF a

LEMMA HeardTail ==
    ASSUME NEW S, NEW v \in Versions(S), Len(v) > 1, Heard(v)
    PROVE  passes(v[1], v[2]) \/ Heard(Tail(v))
<1>. DEFINE t == Tail(v)
            m == Len(v)
<1>1. /\ m \in Nat /\ Len(t) = m - 1
      /\ \A i \in 1..Len(t) : t[i] = v[i + 1]
  BY VersionsFacts, TailFacts
<1>2. PICK i \in 1..(m - 1) : passes(v[i], v[i + 1])
  BY DEF Heard
<1>. HIDE DEF t, m
<1>3. CASE i = 1
  BY <1>2, <1>3
<1>4. CASE i # 1
  <2>1. i - 1 \in 1..(Len(t) - 1) /\ i - 1 \in 1..Len(t) /\ i \in 1..Len(t) /\ (i - 1) + 1 = i
    BY <1>1, <1>2, <1>4
  <2>2. t[i - 1] = v[i] /\ t[i] = v[i + 1]
    BY <1>1, <2>1
  <2>3. passes(t[i - 1], t[(i - 1) + 1])
    BY <1>2, <2>1, <2>2
  <2>. QED BY <2>1, <2>3 DEF Heard, t
<1>. QED BY <1>3, <1>4

\* If every version has the label and nothing is heard, the cache is up to date.
LEMMA NothingHeard ==
    ASSUME NEW S, NEW v \in Versions(S), ~Heard(v),
           \A i \in 1..Len(v) : v[i] # None => v[i].care
    PROVE  Cached(v) = Stored(v)
<1>. DEFINE m == Len(v)
<1>1. m \in Nat /\ m >= 1 /\ Cached(v) = v[1] /\ Stored(v) = v[m]
  BY VersionsFacts DEF Cached, Stored
<1>4. (\A i \in 1..(m - 1) : ~passes(v[i], v[i + 1])) /\ \A i \in 1..m : v[i] # None => v[i].care
  BY DEF Heard
<1>. HIDE DEF m
<1>2. CASE m = 1
  BY <1>1, <1>2
<1>3. CASE m # 1
  <2>1. 1 \in 1..(m - 1) /\ m - 1 \in 1..(m - 1) /\ (m - 1) + 1 = m /\ 1 \in 1..m /\ m \in 1..m
    BY <1>1, <1>3
  <2>2. ~passes(v[1], v[1 + 1]) /\ ~passes(v[m - 1], v[(m - 1) + 1])
    BY <1>4, <2>1
  <2>3. ~DoICare(v[1]) /\ ~DoICare(v[m])
    BY <2>1, <2>2 DEF passes
  <2>4. v[1] = None /\ v[m] = None
    BY <1>4, <2>1, <2>3 DEF DoICare
  <2>. QED BY <1>1, <2>4
<1>. QED BY <1>2, <1>3

\* What a write leaves in the place of an object.
LEMMA WriteHeard ==
    ASSUME NEW K, NEW S, NEW objects \in [K -> Versions(S)],
           NEW key \in K, NEW obj \in S \cup {None}
    PROVE  /\ Heard(objects[key]) => Heard(Write(objects, key, obj)[key])
           /\ Len(objects[key]) > 1 => Len(Write(objects, key, obj)[key]) > 1
           /\ \/ obj = Stored(objects[key]) /\ Write(objects, key, obj) = objects
              \/ /\ Len(Write(objects, key, obj)[key]) > 1
                 /\ passes(Stored(objects[key]), obj) => Heard(Write(objects, key, obj)[key])
<1>1. objects[key] \in Versions(S)
  OBVIOUS
<1>2. CASE obj = Stored(objects[key]) /\ Write(objects, key, obj) = objects
  BY <1>2
<1>3. CASE Write(objects, key, obj)[key] = Append(objects[key], obj)
  <2>1. Len(Append(objects[key], obj)) > 1 /\ Len(objects[key]) \in Nat
    <3>1. Len(Append(objects[key], obj)) = Len(objects[key]) + 1
          /\ Len(objects[key]) \in Nat /\ Len(objects[key]) >= 1
      BY <1>1, AppendFacts, VersionsFacts
    <3>. QED BY <3>1
  <2>. QED BY <1>1, <1>3, <2>1, HeardAppend
<1>. QED BY <1>2, <1>3, WriteFacts
=============================================================================
