------------------------------- MODULE Informer -------------------------------
(***************************************************************************)
(* How the operator sees the cluster: its client reads from the informers' *)
(* caches, which follow the API server at their own pace, and each event   *)
(* goes through the predicate of the watch (pkg/util/predicate.go).        *)
(***************************************************************************)
EXTENDS Ensurable, Sequences

(***************************************************************************)
(* Of every object the model keeps the versions the operator's watch has   *)
(* not got past: the first is the one its client reads, the last the one   *)
(* the API server holds.  A write appends, an event drops the first.       *)
(***************************************************************************)
Cached(versions) == versions[1]
Stored(versions) == versions[Len(versions)]

Write(objects, key, obj) ==
    IF obj = Stored(objects[key])
    THEN objects
    ELSE [objects EXCEPT ![key] = Append(@, obj)]

Deliver(objects, key) == [objects EXCEPT ![key] = Tail(@)]

Relisted(objects) == [key \in DOMAIN objects |-> <<Stored(objects[key])>>]

Versions(objects) == Seq(objects \cup {None}) \ {<<>>}

UpToDate(objects) == \A key \in DOMAIN objects : Len(objects[key]) = 1

-----------------------------------------------------------------------------
DoICare(obj) == obj # None /\ obj.care

\* Mutant: only the new object is looked at.
passes_NewOnly(old, new) == DoICare(new)

\* The predicate passes an event if the old or the new object carries the label.
passes(old, new) == DoICare(old) \/ DoICare(new)

\* One of the events to come passes.
Heard(versions) == \E i \in 1..(Len(versions) - 1) : passes(versions[i], versions[i + 1])
=============================================================================
