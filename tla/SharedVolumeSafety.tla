-------------------------- MODULE SharedVolumeSafety --------------------------
(***************************************************************************)
(* IInv is inductive, and what follows from it.                            *)
(***************************************************************************)
EXTENDS SharedVolumeTyping

-----------------------------------------------------------------------------
(* Histories: what a write may do without breaking what earlier versions
   promised.  u and w are the last uid before and after the write. *)

KeepsPromises(old, new, u, w) ==
    /\ new # None => new.uid <= w /\ (new.phase = "Deleting" => new.deleting)
    /\ old # None /\ new # None => new.uid = old.uid /\ (old.deleting => new.deleting)
    /\ old = None /\ new # None => new.uid > u
    /\ old # None /\ old.fin => new # None /\ new.fin

\* A new version joins a history if it honours each earlier version.
LEMMA HistoryJoined ==
    ASSUME NEW v \in Versions(SharedVolume), NEW u \in Nat, NEW w \in Nat, u <= w,
           HistoryOK(v, u), NEW new \in SharedVolume \cup {None},
           new # None => new.uid <= w /\ (new.phase = "Deleting" => new.deleting),
           \A i \in 1..Len(v) : v[i] # None =>
                /\ v[i].deleting /\ new # None /\ new.uid = v[i].uid => new.deleting
                /\ v[i].fin /\ ~v[i].deleting =>
                        new # None /\ new.uid = v[i].uid /\ new.fin
    PROVE  HistoryOK(Append(v, new), w)
<1>. DEFINE a == Append(v, new)
            m == Len(v)
<1>1. /\ m \in Nat /\ m >= 1 /\ Len(a) = m + 1
      /\ \A i \in 1..m : a[i] = v[i]
      /\ a[m + 1] = new
  <2>1. /\ Len(a) = Len(v) + 1
        /\ \A i \in 1..Len(v) : a[i] = v[i]
        /\ a[Len(v) + 1] = new
    BY AppendFacts
  <2>2. Len(v) \in Nat /\ Len(v) >= 1
    BY VersionsFacts
  <2>. HIDE DEF a
  <2>. QED BY <2>1, <2>2
<1>2. \A i \in 1..m : v[i] \in SharedVolume \cup {None}
  BY VersionsFacts
<1>3. \A i \in 1..m : v[i] # None =>
        /\ v[i].deleting /\ new # None /\ new.uid = v[i].uid => new.deleting
        /\ v[i].fin /\ ~v[i].deleting =>
                new # None /\ new.uid = v[i].uid /\ new.fin
  OBVIOUS
<1>. HIDE DEF a, m
<1>4. ASSUME NEW i \in 1..Len(a), a[i] # None
      PROVE  a[i].uid <= w /\ (a[i].phase = "Deleting" => a[i].deleting)
  <2>1. CASE i \in 1..m
    <3>1. v[i] # None /\ v[i] \in SharedVolume
      BY <1>1, <1>2, <1>4, <2>1
    <3>2. v[i].uid <= u /\ (v[i].phase = "Deleting" => v[i].deleting) /\ v[i].uid \in Nat
      BY <2>1, <3>1 DEF HistoryOK, SharedVolume, m
    <3>. QED BY <1>1, <2>1, <3>2
  <2>2. CASE i = m + 1
    BY <1>1, <1>4, <2>2
  <2>. QED BY <1>1, <2>1, <2>2
<1>5. ASSUME NEW i \in 1..Len(a), NEW j \in 1..Len(a), i <= j, a[i] # None
      PROVE  /\ a[i].deleting /\ a[j] # None /\ a[j].uid = a[i].uid => a[j].deleting
             /\ a[i].fin /\ ~a[i].deleting =>
                    a[j] # None /\ a[j].uid = a[i].uid /\ a[j].fin
  <2>1. CASE i \in 1..m /\ j \in 1..m
    BY <1>1, <1>5, <2>1 DEF HistoryOK, m
  <2>2. CASE i \in 1..m /\ j = m + 1
    BY <1>1, <1>3, <1>5, <2>2
  <2>3. CASE i = m + 1 /\ j = m + 1
    BY <1>5, <2>3
  <2>. QED BY <1>1, <1>5, <2>1, <2>2, <2>3
<1>. QED BY <1>4, <1>5 DEF HistoryOK, a

LEMMA HistoryAppend ==
    ASSUME NEW v \in Versions(SharedVolume), NEW u \in Nat, NEW w \in Nat, u <= w,
           HistoryOK(v, u), NEW new \in SharedVolume \cup {None},
           KeepsPromises(Stored(v), new, u, w)
    PROVE  HistoryOK(Append(v, new), w)
<1>. DEFINE m == Len(v)
            old == Stored(v)
<1>1. m \in Nat /\ m \in 1..m /\ old = v[m] /\ \A i \in 1..m : i <= m
  <2>1. Len(v) \in Nat /\ Len(v) >= 1
    BY VersionsFacts
  <2>. QED BY <2>1 DEF Stored
<1>2. \A i \in 1..m : v[i] \in SharedVolume \cup {None}
  BY VersionsFacts
<1>3. KeepsPromises(old, new, u, w)
  OBVIOUS
<1>. HIDE DEF m, old
<1>4. ASSUME NEW i \in 1..m, v[i] # None
      PROVE  /\ v[i].deleting /\ new # None /\ new.uid = v[i].uid => new.deleting
             /\ v[i].fin /\ ~v[i].deleting =>
                    new # None /\ new.uid = v[i].uid /\ new.fin
  <2>1. /\ v[i].uid <= u /\ v[i].uid \in Nat
        /\ v[i].deleting /\ old # None /\ old.uid = v[i].uid => old.deleting
        /\ v[i].fin /\ ~v[i].deleting =>
                old # None /\ old.uid = v[i].uid /\ old.fin
    BY <1>1, <1>2, <1>4 DEF HistoryOK, SharedVolume, m
  <2>2. new # None => new.uid \in Nat
    BY DEF SharedVolume
  <2>3. CASE old = None
    BY <1>3, <2>1, <2>2, <2>3 DEF KeepsPromises
  <2>4. CASE old # None
    BY <1>3, <2>1, <2>2, <2>4 DEF KeepsPromises
  <2>. QED BY <2>3, <2>4
<1>5. new # None => new.uid <= w /\ (new.phase = "Deleting" => new.deleting)
  BY <1>3 DEF KeepsPromises
<1>. QED BY <1>4, <1>5, HistoryJoined DEF m

LEMMA CopyAppend ==
    ASSUME NEW v \in Versions(SharedVolume), NEW u \in Nat, NEW w \in Nat,
           NEW new \in SharedVolume \cup {None},
           KeepsPromises(Stored(v), new, u, w),
           NEW copy \in SharedVolume, copy.uid <= u, CopyOK(copy, v)
    PROVE  CopyOK(copy, Append(v, new))
<1>. DEFINE a == Append(v, new)
            m == Len(v)
            old == Stored(v)
<1>1. /\ m \in Nat /\ m >= 1 /\ Len(a) = m + 1
      /\ \A i \in 1..m : a[i] = v[i]
      /\ a[m + 1] = new
      /\ old = v[m] /\ m \in 1..m
  <2>1. /\ Len(a) = Len(v) + 1
        /\ \A i \in 1..Len(v) : a[i] = v[i]
        /\ a[Len(v) + 1] = new
    BY AppendFacts
  <2>2. Len(v) \in Nat /\ Len(v) >= 1
    BY VersionsFacts
  <2>3. old = v[Len(v)]
    BY DEF Stored
  <2>. HIDE DEF a, old
  <2>. QED BY <2>1, <2>2, <2>3
<1>2. /\ copy.uid \in Nat /\ new # None => new.uid \in Nat
      /\ copy.deleting \in BOOLEAN /\ copy.fin \in BOOLEAN
  BY DEF SharedVolume
<1>3. copy.uid \in Nat
  BY DEF SharedVolume
<1>4. KeepsPromises(old, new, u, w)
  OBVIOUS
<1>. HIDE DEF a, m, old
<1>5. CASE copy.deleting
  <2>1. \A i \in 1..m : v[i] # None /\ v[i].uid = copy.uid => v[i].deleting
    BY <1>5 DEF CopyOK, m
  <2>2. new # None /\ new.uid = copy.uid => new.deleting
    BY <1>1, <1>2, <1>3, <1>4, <2>1 DEF KeepsPromises
  <2>3. \A i \in 1..Len(a) : a[i] # None /\ a[i].uid = copy.uid => a[i].deleting
    BY <1>1, <2>1, <2>2
  <2>. QED BY <1>5, <2>3 DEF CopyOK, a
<1>6. CASE ~copy.deleting /\ copy.fin
  <2>1. \A i \in 1..m : v[i] # None /\ v[i].uid = copy.uid /\ v[i].fin
    BY <1>6 DEF CopyOK, m
  <2>2. new # None /\ new.uid = copy.uid /\ new.fin
    BY <1>1, <1>4, <2>1 DEF KeepsPromises
  <2>3. \A i \in 1..Len(a) : a[i] # None /\ a[i].uid = copy.uid /\ a[i].fin
    BY <1>1, <2>1, <2>2
  <2>. QED BY <1>6, <2>3 DEF CopyOK, a
<1>7. CASE ~copy.deleting /\ ~copy.fin
  BY <1>7 DEF CopyOK
<1>. QED BY <1>5, <1>6, <1>7

LEMMA HistoryTail ==
    ASSUME NEW v \in Versions(SharedVolume), NEW u, HistoryOK(v, u), Len(v) > 1
    PROVE  /\ HistoryOK(Tail(v), u)
           /\ \A copy : CopyOK(copy, v) => CopyOK(copy, Tail(v))
<1>. DEFINE t == Tail(v)
<1>1. /\ Len(v) \in Nat /\ Len(t) = Len(v) - 1
      /\ \A i \in 1..Len(t) : i + 1 \in 1..Len(v) /\ t[i] = v[i + 1]
  BY VersionsFacts, TailFacts
<1>. HIDE DEF t
<1>2. \A i, j \in 1..Len(t) : i <= j => i + 1 <= j + 1
  BY <1>1
<1>3. HistoryOK(t, u)
  <2>1. ASSUME NEW i \in 1..Len(t), t[i] # None
        PROVE  t[i].uid <= u /\ (t[i].phase = "Deleting" => t[i].deleting)
    BY <1>1, <2>1 DEF HistoryOK
  <2>2. ASSUME NEW i \in 1..Len(t), NEW j \in 1..Len(t), i <= j, t[i] # None
        PROVE  /\ t[i].deleting /\ t[j] # None /\ t[j].uid = t[i].uid => t[j].deleting
               /\ t[i].fin /\ ~t[i].deleting =>
                      t[j] # None /\ t[j].uid = t[i].uid /\ t[j].fin
    BY <1>1, <1>2, <2>2 DEF HistoryOK
  <2>. QED BY <2>1, <2>2 DEF HistoryOK
<1>4. \A copy : CopyOK(copy, v) => CopyOK(copy, t)
  BY <1>1 DEF CopyOK
<1>. QED BY <1>3, <1>4 DEF t

LEMMA HistoryRelist ==
    ASSUME NEW v \in Versions(SharedVolume), NEW u, HistoryOK(v, u)
    PROVE  HistoryOK(<<Stored(v)>>, u)
<1>. DEFINE r == <<Stored(v)>>
            m == Len(v)
<1>1. Len(r) = 1 /\ r[1] = v[m] /\ m \in 1..Len(v) /\ m <= m
  <2>1. Len(r) = 1 /\ r[1] = Stored(v)
    BY RelistFacts
  <2>2. m \in Nat /\ m >= 1
    BY VersionsFacts
  <2>. QED BY <2>1, <2>2 DEF Stored
<1>2. \A i \in 1..Len(r) : i = 1
  BY <1>1
<1>. HIDE DEF r, m
<1>3. /\ v[m] # None => v[m].uid <= u /\ (v[m].phase = "Deleting" => v[m].deleting)
  BY <1>1 DEF HistoryOK
<1>. QED
  BY <1>1, <1>2, <1>3 DEF HistoryOK, r

-----------------------------------------------------------------------------
(* Writes of a SharedVolume that keep the promises of its older versions. *)

LEMMA HistoryGrows ==
    ASSUME NEW v \in Versions(SharedVolume), NEW u \in Nat, NEW w \in Nat, u <= w,
           HistoryOK(v, u)
    PROVE  HistoryOK(v, w)
<1>1. \A i \in 1..Len(v) : v[i] # None => v[i].uid \in Nat
  <2>1. \A i \in 1..Len(v) : v[i] \in SharedVolume \cup {None}
    BY VersionsFacts
  <2>. QED BY <2>1 DEF SharedVolume
<1>2. \A i \in 1..Len(v) : v[i] # None => v[i].uid <= w
  BY <1>1 DEF HistoryOK
<1>. QED BY <1>2 DEF HistoryOK

Histories == \A s \in SharedVolumes : HistoryOK(svs[s], uids)

\* What is true of every SharedVolume after a step that keeps promises.
PromisesKept ==
    /\ Histories'
    /\ \A s \in SharedVolumes, copy \in SharedVolume :
        copy.uid <= uids /\ CopyOK(copy, svs[s]) => CopyOK(copy, svs'[s])
    /\ \A s \in SharedVolumes : \A e :
        EntryOK(e, svs[s]) => EntryOK(e, svs'[s])

LEMMA UnchangedKeeps ==
    ASSUME IInv, UNCHANGED <<svs, uids>>
    PROVE  PromisesKept
BY DEF IInv, PromisesKept, Histories

LEMMA WriteKeeps ==
    ASSUME IInv, NEW s \in SharedVolumes, NEW new \in SharedVolume \cup {None},
           svs' = Write(svs, s, new), uids' \in Nat, uids <= uids',
           KeepsPromises(Stored(svs[s]), new, uids, uids')
    PROVE  PromisesKept
<1>1. /\ svs \in [SharedVolumes -> Versions(SharedVolume)]
      /\ uids \in Nat
      /\ Histories
  BY DEF IInv, TypeOK, ClusterTypeOK, Histories
<1>2. /\ \A t \in SharedVolumes \ {s} : svs'[t] = svs[t]
      /\ Stored(svs'[s]) = new
      /\ \/ new = Stored(svs[s]) /\ svs' = svs
         \/ svs'[s] = Append(svs[s], new)
  BY <1>1, WriteFacts
<1>3. \A t \in SharedVolumes : HistoryOK(svs[t], uids')
  BY <1>1, HistoryGrows DEF Histories
<1>4. svs[s] \in Versions(SharedVolume) /\ HistoryOK(svs[s], uids)
  BY <1>1 DEF Histories
<1>5. HistoryOK(svs'[s], uids')
  <2>1. HistoryOK(Append(svs[s], new), uids')
    BY <1>1, <1>4, HistoryAppend
  <2>. QED BY <1>2, <1>3, <2>1
<1>6. Histories'
  BY <1>2, <1>3, <1>5 DEF Histories
<1>7. ASSUME NEW t \in SharedVolumes, NEW copy \in SharedVolume,
             copy.uid <= uids, CopyOK(copy, svs[t])
      PROVE  CopyOK(copy, svs'[t])
  <2>1. CASE t = s
    <3>1. CopyOK(copy, Append(svs[s], new))
      BY <1>1, <1>4, <1>7, <2>1, CopyAppend
    <3>. QED BY <1>2, <1>7, <2>1, <3>1
  <2>2. CASE t # s
    BY <1>2, <1>7, <2>2
  <2>. QED BY <2>1, <2>2
<1>8. ASSUME NEW t \in SharedVolumes, NEW e, EntryOK(e, svs[t])
      PROVE  EntryOK(e, svs'[t])
  <2>1. CASE t = s
    <3>1. /\ Stored(svs[s]) # None /\ Stored(svs[s]).uid = e.uid /\ Stored(svs[s]).fin
      BY <1>8, <2>1 DEF EntryOK
    <3>2. new # None /\ new.fin /\ new.uid = e.uid
      BY <3>1 DEF KeepsPromises
    <3>. QED BY <1>2, <2>1, <3>2 DEF EntryOK
  <2>2. CASE t # s
    BY <1>2, <1>8, <2>2
  <2>. QED BY <2>1, <2>2
<1>. QED BY <1>6, <1>7, <1>8 DEF PromisesKept

\* Such a step of anybody but the worker keeps the invariant.
LEMMA FrameKeeps ==
    ASSUME IInv, TypeOK', PromisesKept, uids <= uids', UNCHANGED <<workerVars, mapVars>>
    PROVE  IInv'
<1>1. WorkerOK'
  <2>. SUFFICES ASSUME pc # "idle" PROVE WorkerOK'
    BY DEF WorkerOK, workerVars
  <2>1. WorkerOK /\ sv \in SharedVolume /\ req \in SharedVolumes /\ uids \in Nat /\ uids' \in Nat
    BY BusyType DEF IInv, TypeOK, ClusterTypeOK
  <2>2. sv.uid \in Nat /\ sv.uid <= uids /\ CopyOK(sv, svs[req])
    BY <2>1 DEF WorkerOK, SharedVolume
  <2>3. sv.uid <= uids'
    BY <2>1, <2>2
  <2>4. CopyOK(sv, svs'[req])
    BY <2>1, <2>2 DEF PromisesKept
  <2>. QED BY <2>1, <2>3, <2>4 DEF WorkerOK, workerVars
<1>2. MapsOK'
  <2>1. MapsOK
    BY DEF IInv
  <2>2. pvBySharedVolume' = pvBySharedVolume /\ pvcBySharedVolume' = pvcBySharedVolume
        /\ req' = req /\ pc' = pc
    BY DEF mapVars, workerVars
  <2>. QED BY <2>1, <2>2 DEF MapsOK, PromisesKept
<1>. QED BY <1>1, <1>2 DEF IInv, PromisesKept, Histories

-----------------------------------------------------------------------------
(* The environment and the informers. *)

LEMMA CreateSVKeeps ==
    ASSUME IInv, NEW s \in SharedVolumes, CreateSV(s)
    PROVE  PromisesKept /\ uids <= uids'
<1>1. uids \in Nat /\ uids' = uids + 1 /\ Stored(svs[s]) = None
  BY DEF IInv, TypeOK, ClusterTypeOK, CreateSV
<1>2. PICK new \in SharedVolume :
        new.uid = uids' /\ new.phase = "" /\ svs' = Write(svs, s, new)
  <2>1. \A spec \in Specs, held \in ForeignFinalizers :
            [uid |-> uids', spec |-> spec, fin |-> FALSE, held |-> held,
             deleting |-> FALSE, phase |-> "", message |-> FALSE,
             claimRef |-> FALSE] \in SharedVolume
    BY <1>1, ConstantsAssumption DEF SharedVolume, Phases
  <2>. QED BY <2>1 DEF CreateSV
<1>3. uids' \in Nat /\ uids' > uids
  BY <1>1
<1>4. KeepsPromises(Stored(svs[s]), new, uids, uids')
  <2>1. new.uid = uids' /\ new.phase = ""
    BY <1>2
  <2>2. new.uid > uids
    BY <1>3, <2>1
  <2>3. new.uid <= uids'
    <3>1. uids' \in Nat
      BY <1>3
    <3>2. uids' <= uids'
      BY <3>1
    <3>. QED BY <2>1, <3>2
  <2>4. new.phase # "Deleting"
    BY <2>1
  <2>. QED BY <1>1, <2>2, <2>3, <2>4 DEF KeepsPromises
<1>5. uids <= uids'
  BY <1>1
<1>. QED BY <1>2, <1>3, <1>4, <1>5, WriteKeeps

\* A version of a SharedVolume and one that follows it by an edit, a deletion or
\* the end of another finalizer.
LEMMA UserWrites ==
    ASSUME IInv, NEW s \in SharedVolumes, NEW old \in SharedVolume, old = Stored(svs[s]),
           NEW new \in SharedVolume,
           new.uid = old.uid, new.fin = old.fin, new.phase = old.phase,
           old.deleting => new.deleting,
           NEW left, left = new \/ left = Finalized(new),
           svs' = Write(svs, s, left), UNCHANGED uids
    PROVE  PromisesKept /\ uids <= uids'
<1>1. uids \in Nat /\ uids' \in Nat /\ uids <= uids'
  BY DEF IInv, TypeOK, ClusterTypeOK
<1>2. left \in SharedVolume \cup {None}
  BY FinalizedType
<1>3. old.uid <= uids /\ (old.phase = "Deleting" => old.deleting)
  <2>1. svs[s] \in Versions(SharedVolume) /\ HistoryOK(svs[s], uids)
    BY DEF IInv, TypeOK, ClusterTypeOK
  <2>2. Len(svs[s]) \in 1..Len(svs[s]) /\ old = svs[s][Len(svs[s])]
    <3>1. Len(svs[s]) \in Nat /\ Len(svs[s]) >= 1
      BY <2>1, VersionsFacts
    <3>. QED BY <3>1 DEF Stored
  <2>3. old # None
    BY NoneAssumption
  <2>. QED BY <2>1, <2>2, <2>3 DEF HistoryOK
<1>4. old # None /\ new # None
  BY NoneAssumption
<1>5. left = new \/ (left = None /\ ~new.fin)
  BY DEF Finalized
<1>6. KeepsPromises(old, left, uids, uids')
  BY <1>1, <1>3, <1>4, <1>5 DEF KeepsPromises
<1>. QED BY <1>1, <1>2, <1>6, WriteKeeps

LEMMA UsersKeep ==
    ASSUME IInv, NEW s \in SharedVolumes, EditSV(s) \/ DeleteSV(s) \/ ReleaseSV(s)
    PROVE  PromisesKept /\ uids <= uids'
<1>1. Stored(svs[s]) \in SharedVolume
  BY StoredTypes DEF IInv, EditSV, DeleteSV, ReleaseSV
<1>. DEFINE old == Stored(svs[s])
<1>2. UNCHANGED uids
  BY DEF EditSV, DeleteSV, ReleaseSV, ghostVars
<1>3. CASE EditSV(s)
  <2>1. PICK spec \in Specs : svs' = Write(svs, s, [old EXCEPT !.spec = spec])
    BY <1>3 DEF EditSV
  <2>. HIDE DEF old
  <2>2. /\ [old EXCEPT !.spec = spec] \in SharedVolume
        /\ [old EXCEPT !.spec = spec].uid = old.uid
        /\ [old EXCEPT !.spec = spec].fin = old.fin
        /\ [old EXCEPT !.spec = spec].phase = old.phase
        /\ [old EXCEPT !.spec = spec].deleting = old.deleting
    BY <1>1 DEF SharedVolume, old
  <2>. QED BY <1>1, <1>2, <2>1, <2>2, UserWrites DEF old
<1>4. CASE DeleteSV(s)
  <2>1. svs' = Write(svs, s, Finalized([old EXCEPT !.deleting = TRUE]))
    BY <1>4 DEF DeleteSV
  <2>. HIDE DEF old
  <2>2. /\ [old EXCEPT !.deleting = TRUE] \in SharedVolume
        /\ [old EXCEPT !.deleting = TRUE].uid = old.uid
        /\ [old EXCEPT !.deleting = TRUE].fin = old.fin
        /\ [old EXCEPT !.deleting = TRUE].phase = old.phase
        /\ [old EXCEPT !.deleting = TRUE].deleting
    BY <1>1 DEF SharedVolume, old
  <2>. QED BY <1>1, <1>2, <2>1, <2>2, UserWrites DEF old
<1>5. CASE ReleaseSV(s)
  <2>1. svs' = Write(svs, s, Finalized([old EXCEPT !.held = FALSE]))
    BY <1>5 DEF ReleaseSV
  <2>. HIDE DEF old
  <2>2. /\ [old EXCEPT !.held = FALSE] \in SharedVolume
        /\ [old EXCEPT !.held = FALSE].uid = old.uid
        /\ [old EXCEPT !.held = FALSE].fin = old.fin
        /\ [old EXCEPT !.held = FALSE].phase = old.phase
        /\ [old EXCEPT !.held = FALSE].deleting = old.deleting
    BY <1>1 DEF SharedVolume, old
  <2>. QED BY <1>1, <1>2, <2>1, <2>2, UserWrites DEF old
<1>. QED BY <1>3, <1>4, <1>5

LEMMA SyncKeeps ==
    ASSUME IInv, NEW s \in SharedVolumes, SyncSV(s)
    PROVE  PromisesKept /\ uids <= uids'
<1>1. /\ svs \in [SharedVolumes -> Versions(SharedVolume)]
      /\ Histories /\ uids \in Nat /\ uids' = uids
      /\ Len(svs[s]) > 1 /\ svs' = [svs EXCEPT ![s] = Tail(svs[s])]
  BY DEF IInv, Histories, TypeOK, ClusterTypeOK, SyncSV, Deliver, ghostVars
<1>2. svs[s] \in Versions(SharedVolume) /\ HistoryOK(svs[s], uids)
  BY <1>1 DEF Histories
<1>3. /\ HistoryOK(Tail(svs[s]), uids)
      /\ \A copy : CopyOK(copy, svs[s]) => CopyOK(copy, Tail(svs[s]))
      /\ Stored(Tail(svs[s])) = Stored(svs[s])
  BY <1>1, <1>2, HistoryTail, TailFacts
<1>4. svs'[s] = Tail(svs[s]) /\ \A t \in SharedVolumes \ {s} : svs'[t] = svs[t]
  BY <1>1
<1>5. Histories'
  BY <1>1, <1>3, <1>4 DEF Histories
<1>6. ASSUME NEW t \in SharedVolumes
      PROVE  /\ \A copy : CopyOK(copy, svs[t]) => CopyOK(copy, svs'[t])
             /\ \A e : EntryOK(e, svs[t]) => EntryOK(e, svs'[t])
  BY <1>3, <1>4 DEF EntryOK
<1>. QED BY <1>1, <1>5, <1>6 DEF PromisesKept

LEMMA OthersKeep ==
    ASSUME IInv, Environment \/ Informers
    PROVE  PromisesKept /\ uids <= uids'
<1>1. uids \in Nat
  BY DEF IInv, TypeOK, ClusterTypeOK
<1>2. CASE UNCHANGED <<svs, uids>>
  BY <1>1, <1>2, UnchangedKeeps
<1>3. CASE Environment
  <2>1. \A n \in PVNames : ReapPV(n) \/ MeddlePV(n) => UNCHANGED <<svs, uids>>
    BY DEF ReapPV, MeddlePV, ghostVars
  <2>2. \A s \in SharedVolumes : ReapPVC(s) \/ MeddlePVC(s) => UNCHANGED <<svs, uids>>
    BY DEF ReapPVC, MeddlePVC, ghostVars
  <2>. QED BY <1>2, <1>3, <2>1, <2>2, CreateSVKeeps, UsersKeep DEF Environment
<1>4. CASE Informers
  <2>1. \A n \in PVNames : SyncPV(n) => UNCHANGED <<svs, uids>>
    BY DEF SyncPV, ghostVars
  <2>2. \A s \in SharedVolumes : SyncPVC(s) \/ Resync(s) => UNCHANGED <<svs, uids>>
    BY DEF SyncPVC, Resync, objectVars, ghostVars
  <2>. QED BY <1>2, <1>4, <2>1, <2>2, SyncKeeps DEF Informers
<1>. QED BY <1>3, <1>4

-----------------------------------------------------------------------------
(* The worker. *)

\* What the worker knows in the middle of a Reconcile.
LEMMA BusyFacts ==
    ASSUME IInv, pc # "idle"
    PROVE  /\ req \in SharedVolumes /\ sv \in SharedVolume /\ sv # None
           /\ sv.uid \in Nat /\ uids \in Nat /\ sv.uid <= uids
           /\ CopyOK(sv, svs[req])
           /\ sv.phase = "Deleting" => sv.deleting
           /\ sv.deleting <=> pc \in DeletePath
           /\ pc \in CreatePath \cup (DeletePath \ {"deleting"}) => sv.fin
BY BusyType DEF IInv, WorkerOK, TypeOK, ClusterTypeOK, SharedVolume

LEMMA SendKeeps ==
    ASSUME IInv, pc # "idle", NEW new \in SharedVolume \cup {None}, NEW ok, Send(new, ok),
           KeepsPromises(sv, new, uids, uids), UNCHANGED uids
    PROVE  PromisesKept
<1>1. CASE UNCHANGED svs
  BY <1>1, UnchangedKeeps
<1>2. CASE Stored(svs[req]) = sv /\ svs' = Write(svs, req, new)
  <2>1. uids' \in Nat /\ uids <= uids' /\ req \in SharedVolumes
    BY BusyFacts
  <2>. QED BY <1>2, <2>1, WriteKeeps
<1>. QED BY <1>1, <1>2 DEF Send

\* When the maps keep their entries, and neither has one that is excused.
LEMMA MapsKeep ==
    ASSUME IInv, PromisesKept, UNCHANGED mapVars, pc \notin {"deletePV", "unfinalize"}
    PROVE  MapsOK'
<1>1. MapsOK
  BY DEF IInv
<1>. QED BY <1>1 DEF MapsOK, PromisesKept, mapVars

LEMMA ReturnKeeps ==
    ASSUME PromisesKept, TypeOK', MapsOK', pc' = "idle"
    PROVE  IInv'
BY DEF IInv, WorkerOK, PromisesKept, Histories

\* A step on to the next request.
LEMMA GoToKeeps ==
    ASSUME IInv, TypeOK', MapsOK', pc # "idle", NEW step, GoTo(step),
           UNCHANGED <<svs, uids>>,
           sv.deleting <=> step \in DeletePath,
           step \in CreatePath \cup (DeletePath \ {"deleting"}) => sv.fin
    PROVE  IInv'
<1>1. Histories'
  BY UnchangedKeeps DEF PromisesKept
<1>2. WorkerOK'
  BY BusyFacts DEF GoTo, WorkerOK
<1>. QED BY <1>1, <1>2 DEF IInv, Histories

LEMMA BeginKeeps ==
    ASSUME IInv, TypeOK', NEW s \in SharedVolumes, Begin(s)
    PROVE  IInv'
<1>1. PromisesKept /\ UNCHANGED <<svs, uids>>
  BY UnchangedKeeps DEF Begin, objectVars, ghostVars
<1>2. MapsOK'
  BY <1>1, MapsKeep DEF Begin
<1>3. CASE UNCHANGED workerVars
  <2>1. pc' = "idle"
    BY <1>3 DEF Begin, workerVars
  <2>. QED BY <1>1, <1>2, <2>1, ReturnKeeps
<1>4. CASE Cached(svs[s]) # None /\ ~UNCHANGED workerVars
  <2>. DEFINE v == svs[s]
              copy == svs[s][1]
  <2>1. v \in Versions(SharedVolume) /\ HistoryOK(v, uids)
    BY DEF IInv, TypeOK, ClusterTypeOK
  <2>2. 1 \in 1..Len(v) /\ \A i \in 1..Len(v) : 1 <= i
    <3>1. Len(v) \in Nat /\ Len(v) >= 1
      BY <2>1, VersionsFacts
    <3>. QED BY <3>1
  <2>3. copy \in SharedVolume
    BY <1>4, <2>1, VersionsFacts DEF Cached
  <2>4. /\ sv' = copy /\ req' = s
        /\ pc' = IF copy.deleting THEN "deleting" ELSE "unedit"
    BY <1>4 DEF Begin, Cached
  <2>5. /\ copy # None
        /\ copy.uid <= uids
        /\ copy.phase = "Deleting" => copy.deleting
    BY <1>4, <2>1, <2>2 DEF HistoryOK, Cached
  <2>6. CopyOK(copy, v)
    BY <2>1, <2>2, <2>5 DEF HistoryOK, CopyOK
  <2>. HIDE DEF v, copy
  <2>7. svs'[s] = v
    BY <1>1 DEF v
  <2>8. WorkerOK'
    <3>1. copy.deleting \in BOOLEAN
      BY <2>3 DEF SharedVolume
    <3>2. CopyOK(sv', svs'[req'])
      BY <2>4, <2>6, <2>7
    <3>3. sv'.uid <= uids'
      BY <1>1, <2>4, <2>5
    <3>. QED BY <2>4, <2>5, <3>1, <3>2, <3>3 DEF WorkerOK, DeletePath, CreatePath
  <2>. QED BY <1>1, <1>2, <2>8 DEF IInv, PromisesKept, Histories
<1>. QED BY <1>3, <1>4 DEF Begin

\* The status Deleting is only set on a SharedVolume that is being deleted.
LEMMA MarkDeletingKeeps ==
    ASSUME IInv, TypeOK', MarkDeleting
    PROVE  IInv'
<1>. DEFINE new == Marked("Deleting", FALSE)
<1>1. pc = "deleting" /\ UNCHANGED <<uids, mapVars>>
  BY DEF MarkDeleting, ghostVars
<1>2. sv \in SharedVolume /\ sv # None /\ sv.deleting
  BY <1>1, BusyFacts DEF DeletePath
<1>3. /\ new \in SharedVolume /\ new.uid = sv.uid /\ new.deleting = sv.deleting
      /\ new.fin = sv.fin
  BY <1>2 DEF Marked, SharedVolume, Phases
<1>4. PICK copy \in {sv, new} :
        /\ HandleDelete(copy)
        /\ UNCHANGED svs \/ (\E ok \in BOOLEAN : Send(new, ok))
  BY DEF MarkDeleting
<1>5. KeepsPromises(sv, new, uids, uids)
  <2>1. new.uid <= uids
    BY <1>1, <1>3, BusyFacts
  <2>. HIDE DEF new
  <2>. QED BY <1>2, <1>3, <2>1, NoneAssumption DEF KeepsPromises
<1>6. PromisesKept
  <2>. HIDE DEF new
  <2>. QED BY <1>1, <1>3, <1>4, <1>5, UnchangedKeeps, SendKeeps
<1>7. MapsOK'
  BY <1>1, <1>6, MapsKeep
<1>8. CASE ~copy.fin
  BY <1>4, <1>6, <1>7, <1>8, ReturnKeeps DEF HandleDelete, Return
<1>9. CASE copy.fin
  <2>1. pc' = "deletePVC" /\ sv' = copy /\ req' = req
    BY <1>4, <1>9 DEF HandleDelete
  <2>2. /\ copy.uid = sv.uid /\ copy.deleting
    BY <1>2, <1>3, <1>4
  <2>3. CopyOK(sv, svs'[req]) /\ sv.uid <= uids
    BY <1>1, <1>6, BusyFacts DEF PromisesKept
  <2>4. CopyOK(copy, svs'[req])
    BY <1>2, <2>2, <2>3 DEF CopyOK
  <2>5. WorkerOK'
    <3>1. CopyOK(sv', svs'[req'])
      BY <2>1, <2>4
    <3>2. sv'.uid <= uids'
      BY <1>1, <2>1, <2>2, <2>3
    <3>. QED BY <1>9, <2>1, <2>2, <3>1, <3>2 DEF WorkerOK, DeletePath, CreatePath
  <2>. QED BY <1>6, <1>7, <2>5 DEF IInv, PromisesKept, Histories
<1>. QED BY <1>8, <1>9

\* The other writes that do not take the finalizer off.
LEMMA SVStepKeeps ==
    ASSUME IInv, TypeOK', Unedit \/ Finalize \/ MarkPending \/ MarkFailed \/ MarkReady
    PROVE  IInv'
<1>1. /\ pc \in {"unedit", "finalize", "pending", "failed", "ready"}
      /\ UNCHANGED <<uids, mapVars>>
  BY DEF Unedit, Finalize, MarkPending, MarkFailed, MarkReady, ghostVars
<1>2. pc # "idle" /\ pc \notin DeletePath
  BY <1>1 DEF DeletePath
<1>3. sv \in SharedVolume /\ sv # None /\ sv.uid <= uids /\ ~sv.deleting
  BY <1>2, BusyFacts
<1>4. CASE Unedit /\ GoTo(AfterUnedit) /\ UNCHANGED svs
  <2>1. PromisesKept
    BY <1>1, <1>4, UnchangedKeeps
  <2>2. MapsOK'
    BY <1>1, <2>1, MapsKeep
  <2>3. /\ AfterUnedit \notin DeletePath
        /\ AfterUnedit \in CreatePath => sv.fin
        /\ AfterUnedit \notin DeletePath \ {"deleting"}
    BY DEF AfterUnedit, DeletePath, CreatePath
  <2>. QED BY <1>1, <1>2, <1>3, <1>4, <2>2, <2>3, GoToKeeps
<1>5. CASE pc' = "idle" /\ UNCHANGED svs
  BY <1>1, <1>5, UnchangedKeeps, MapsKeep, ReturnKeeps
<1>6. ASSUME NEW new \in SharedVolume, NEW ok, Send(new, ok), pc' = "idle",
             new.uid = sv.uid, sv.fin => new.fin, new.deleting = sv.deleting,
             new.phase = sv.phase \/ new.phase # "Deleting"
      PROVE  IInv'
  <2>1. sv.phase = "Deleting" => sv.deleting
    BY <1>2, BusyFacts
  <2>2. KeepsPromises(sv, new, uids, uids)
    BY <1>3, <1>6, <2>1, NoneAssumption DEF KeepsPromises
  <2>3. PromisesKept
    BY <1>1, <1>2, <1>6, <2>2, SendKeeps
  <2>. QED BY <1>1, <1>6, <2>3, MapsKeep, ReturnKeeps
<1>7. ASSUME NEW new, new \in SharedVolume, NEW ok, Send(new, ok), pc' = "idle",
             \/ \E spec \in Specs : new = [sv EXCEPT !.spec = spec]
             \/ new = [sv EXCEPT !.fin = TRUE]
             \/ new = Marked("Pending", FALSE)
             \/ new = Marked("Failed", TRUE)
             \/ new = [sv EXCEPT !.phase = "Ready", !.claimRef = TRUE]
      PROVE  IInv'
  <2>1. /\ new.uid = sv.uid /\ new.deleting = sv.deleting
        /\ sv.fin => new.fin
        /\ new.phase = sv.phase \/ new.phase # "Deleting"
    BY <1>3, <1>7 DEF Marked, SharedVolume
  <2>. QED BY <1>6, <1>7, <2>1
<1>8. CASE Unedit
  <2>. DEFINE spec == SpecOf(Cached(pvs[pvNameForSharedVolume[req]]))
              new == [sv EXCEPT !.spec = spec]
  <2>1. spec \in Specs
    BY <1>2, SpecOfType DEF IInv
  <2>2. new \in SharedVolume
    BY <1>3, <2>1 DEF SharedVolume
  <2>3. \/ GoTo(AfterUnedit) /\ UNCHANGED svs
        \/ pc' = "idle" /\ UNCHANGED svs
        \/ \E ok \in BOOLEAN : Send(new, ok) /\ pc' = "idle"
    BY <1>8 DEF Unedit, Return
  <2>. HIDE DEF spec
  <2>. QED BY <1>4, <1>5, <1>7, <1>8, <2>1, <2>2, <2>3
<1>9. CASE Finalize
  <2>1. [sv EXCEPT !.fin = TRUE] \in SharedVolume
    BY <1>3 DEF SharedVolume
  <2>. QED BY <1>7, <1>9, <2>1 DEF Finalize, Return
<1>10. CASE MarkPending
  <2>1. Marked("Pending", FALSE) \in SharedVolume
    BY <1>3, MarkedType DEF Phases
  <2>. QED BY <1>7, <1>10, <2>1 DEF MarkPending, Return
<1>11. CASE MarkFailed
  <2>1. Marked("Failed", TRUE) \in SharedVolume
    BY <1>3, MarkedType DEF Phases
  <2>2. pc' = "idle" /\ (UNCHANGED svs \/ \E ok \in BOOLEAN : Send(Marked("Failed", TRUE), ok))
    BY <1>11 DEF MarkFailed, Return
  <2>. QED BY <1>5, <1>7, <2>1, <2>2
<1>12. CASE MarkReady
  <2>. DEFINE new == [sv EXCEPT !.phase = "Ready", !.claimRef = TRUE]
  <2>1. new \in SharedVolume
    BY <1>3 DEF SharedVolume, Phases
  <2>2. pc' = "idle" /\ (UNCHANGED svs \/ \E ok \in BOOLEAN : Send(new, ok))
    BY <1>12 DEF MarkReady, Return
  <2>. QED BY <1>5, <1>7, <2>1, <2>2
<1>. QED BY <1>8, <1>9, <1>10, <1>11, <1>12

\* Taking the finalizer off breaks no promise, since no version the operator has
\* still to see shows the finalizer without the deletion.
LEMMA UnfinalizedHistory ==
    ASSUME NEW v \in Versions(SharedVolume), NEW u \in Nat, HistoryOK(v, u),
           NEW copy \in SharedVolume, copy = Stored(v), copy.deleting, CopyOK(copy, v),
           NEW new \in SharedVolume \cup {None},
           new # None => new.uid = copy.uid /\ new.deleting
    PROVE  HistoryOK(Append(v, new), u)
<1>. DEFINE m == Len(v)
<1>1. m \in Nat /\ m \in 1..m /\ \A i \in 1..m : i <= m
  <2>1. Len(v) \in Nat /\ Len(v) >= 1
    BY VersionsFacts
  <2>. QED BY <2>1
<1>2. copy = v[m] /\ copy # None /\ copy.uid \in Nat
  BY NoneAssumption DEF Stored, SharedVolume
<1>. HIDE DEF m
<1>3. copy.uid <= u
  BY <1>1, <1>2 DEF HistoryOK, m
<1>4. ASSUME NEW i \in 1..m, v[i] # None
      PROVE  ~(v[i].fin /\ ~v[i].deleting)
  <2>1. v[i].fin /\ ~v[i].deleting => v[i].uid = copy.uid
    BY <1>1, <1>2, <1>4 DEF HistoryOK, m
  <2>. QED BY <1>4, <2>1 DEF CopyOK, m
<1>. QED BY <1>3, <1>4, HistoryJoined DEF m

LEMMA UnfinalizeKeeps ==
    ASSUME IInv, TypeOK', Unfinalize
    PROVE  IInv'
<1>. DEFINE new == Finalized([sv EXCEPT !.fin = FALSE])
<1>1. pc = "unfinalize" /\ UNCHANGED uids
  BY DEF Unfinalize, ghostVars
<1>2. /\ req \in SharedVolumes /\ sv \in SharedVolume /\ uids \in Nat
      /\ sv.deleting /\ CopyOK(sv, svs[req])
  BY <1>1, BusyFacts DEF DeletePath
<1>3. /\ new \in SharedVolume \cup {None}
      /\ new # None => new.uid = sv.uid /\ new.deleting
  <2>. DEFINE bare == [sv EXCEPT !.fin = FALSE]
  <2>1. bare \in SharedVolume /\ bare.uid = sv.uid /\ bare.deleting = sv.deleting
    BY <1>2 DEF SharedVolume
  <2>. HIDE DEF bare
  <2>. QED BY <1>2, <2>1 DEF Finalized, bare
<1>. HIDE DEF new
<1>4. PICK ok \in BOOLEAN : Send(new, ok) /\ Return(~ok)
  BY DEF Unfinalize, new
<1>5. svs \in [SharedVolumes -> Versions(SharedVolume)]
  BY DEF IInv, TypeOK, ClusterTypeOK
<1>6. UNCHANGED svs \/ (Stored(svs[req]) = sv /\ svs' = Write(svs, req, new))
  BY <1>4 DEF Send
<1>7. \A s \in SharedVolumes \ {req} : svs'[s] = svs[s]
  BY <1>2, <1>3, <1>5, <1>6, WriteFacts
<1>8. HistoryOK(svs'[req], uids)
  <2>1. HistoryOK(svs[req], uids)
    BY <1>2 DEF IInv
  <2>2. CASE Stored(svs[req]) = sv /\ svs' = Write(svs, req, new)
    <3>1. HistoryOK(Append(svs[req], new), uids)
      BY <1>2, <1>3, <1>5, <2>1, <2>2, UnfinalizedHistory
    <3>2. svs' = svs \/ svs'[req] = Append(svs[req], new)
      BY <1>2, <1>3, <1>5, <2>2, WriteFacts
    <3>. QED BY <2>1, <3>1, <3>2
  <2>. QED BY <1>6, <2>1, <2>2
<1>9. Histories'
  BY <1>1, <1>7, <1>8 DEF Histories, IInv
<1>10. MapsOK'
  <2>1. /\ pvBySharedVolume'[req] = None /\ pvcBySharedVolume'[req] = None
        /\ \A s \in SharedVolumes \ {req} :
            /\ pvBySharedVolume'[s] = pvBySharedVolume[s]
            /\ pvcBySharedVolume'[s] = pvcBySharedVolume[s]
    BY <1>2 DEF Unfinalize, Forget, IInv, TypeOK
  <2>. QED BY <1>7, <2>1 DEF IInv, MapsOK
<1>11. WorkerOK'
  BY <1>4 DEF Return, WorkerOK
<1>. QED BY <1>9, <1>10, <1>11 DEF IInv, Histories

\* An entry made now, on the way to create, is for the incarnation that is there.
LEMMA EntryMade ==
    ASSUME IInv, pc \in CreatePath
    PROVE  EntryOK(pvEnsurable, svs[req]) /\ EntryOK(pvcEnsurable, svs[req])
<1>1. /\ pc # "idle" /\ pc \notin DeletePath
      /\ pc \notin {"deletePV", "unfinalize"}
  BY DEF CreatePath, DeletePath
<1>2. /\ req \in SharedVolumes /\ ~sv.deleting /\ sv.fin /\ CopyOK(sv, svs[req])
  BY <1>1, BusyFacts
<1>3. svs[req] \in Versions(SharedVolume)
  BY <1>2 DEF IInv, TypeOK, ClusterTypeOK
<1>4. /\ Stored(svs[req]) # None /\ Stored(svs[req]).uid = sv.uid /\ Stored(svs[req]).fin
  <2>1. Len(svs[req]) \in Nat /\ Len(svs[req]) >= 1
    BY <1>3, VersionsFacts
  <2>2. Len(svs[req]) \in 1..Len(svs[req])
    BY <2>1
  <2>. QED BY <1>2, <2>2 DEF CopyOK, Stored
<1>5. /\ pvBySharedVolume[req] # None => EntryOK(pvBySharedVolume[req], svs[req])
      /\ pvcBySharedVolume[req] # None => EntryOK(pvcBySharedVolume[req], svs[req])
  BY <1>1, <1>2 DEF IInv, MapsOK
<1>6. /\ pvEnsurable.uid = IF pvBySharedVolume[req] = None THEN sv.uid
                                ELSE pvBySharedVolume[req].uid
      /\ pvcEnsurable.uid = IF pvcBySharedVolume[req] = None THEN sv.uid
                                 ELSE pvcBySharedVolume[req].uid
  BY <1>1, EnsurableTypes DEF IInv
<1>. QED BY <1>4, <1>5, <1>6 DEF EntryOK

LEMMA EnsurePVKeeps ==
    ASSUME IInv, TypeOK', EnsurePV
    PROVE  IInv'
<1>. DEFINE n == pvNameForSharedVolume[req]
<1>1. pc = "ensurePV" /\ UNCHANGED <<svs, uids>>
  BY DEF EnsurePV, ghostVars
<1>2. pc \in CreatePath /\ pc # "idle" /\ pc \notin DeletePath
  BY <1>1 DEF CreatePath, DeletePath
<1>3. req \in SharedVolumes /\ ~sv.deleting /\ sv.fin
  BY <1>2, BusyFacts
<1>4. PICK o \in Ensure(pvEnsurable, Cached(pvs[n]), Stored(pvs[n])) :
        /\ pvBySharedVolume' = [pvBySharedVolume EXCEPT ![req] = o.e]
        /\ pvcBySharedVolume' = [pvcBySharedVolume EXCEPT ![req] = pvcEnsurable]
        /\ GoTo(IF o.ok THEN "ensurePVC" ELSE "failed")
  BY DEF EnsurePV
<1>5. EntryOK(o.e, svs[req])
  <2>1. o.e.uid = pvEnsurable.uid
    BY <1>2, EnsurePVOutcome DEF IInv, OutcomeOK
  <2>. QED BY <1>2, <2>1, EntryMade DEF EntryOK
<1>6. EntryOK(pvcEnsurable, svs[req])
  BY <1>2, EntryMade
<1>7. MapsOK'
  <2>1. /\ pvBySharedVolume'[req] = o.e
        /\ pvcBySharedVolume'[req] = pvcEnsurable
        /\ \A s \in SharedVolumes \ {req} :
            /\ pvBySharedVolume'[s] = pvBySharedVolume[s]
            /\ pvcBySharedVolume'[s] = pvcBySharedVolume[s]
    BY <1>3, <1>4 DEF IInv, TypeOK
  <2>. QED BY <1>1, <1>5, <1>6, <2>1 DEF IInv, MapsOK
<1>. QED BY <1>1, <1>2, <1>3, <1>4, <1>7, GoToKeeps DEF CreatePath, DeletePath

LEMMA EnsurePVCKeeps ==
    ASSUME IInv, TypeOK', EnsurePVC
    PROVE  IInv'
<1>1. pc = "ensurePVC" /\ UNCHANGED <<svs, uids, pvBySharedVolume>>
  BY DEF EnsurePVC, ghostVars
<1>2. pc \in CreatePath /\ pc # "idle" /\ pc \notin DeletePath
  BY <1>1 DEF CreatePath, DeletePath
<1>3. req \in SharedVolumes /\ ~sv.deleting /\ sv.fin
  BY <1>2, BusyFacts
<1>4. PICK o \in Ensure(pvcEnsurable, Cached(pvcs[req]), Stored(pvcs[req])) :
        /\ pvcBySharedVolume' = [pvcBySharedVolume EXCEPT ![req] = o.e]
        /\ GoTo(IF o.ok THEN "ready" ELSE "failed")
  BY DEF EnsurePVC
<1>5. EntryOK(o.e, svs[req])
  <2>1. o.e.uid = pvcEnsurable.uid
    BY <1>2, EnsurePVCOutcome DEF IInv, OutcomeOK
  <2>. QED BY <1>2, <2>1, EntryMade DEF EntryOK
<1>6. MapsOK'
  <2>1. /\ pvcBySharedVolume'[req] = o.e
        /\ \A s \in SharedVolumes \ {req} : pvcBySharedVolume'[s] = pvcBySharedVolume[s]
    BY <1>3, <1>4 DEF IInv, TypeOK
  <2>. QED BY <1>1, <1>5, <2>1 DEF IInv, MapsOK
<1>. QED BY <1>1, <1>2, <1>3, <1>4, <1>6, GoToKeeps DEF CreatePath, DeletePath

LEMMA DeletePVCKeeps ==
    ASSUME IInv, TypeOK', DeletePVC
    PROVE  IInv'
<1>1. pc = "deletePVC" /\ UNCHANGED <<svs, uids, pvBySharedVolume>>
  BY DEF DeletePVC, ghostVars
<1>2. req \in SharedVolumes /\ sv.deleting /\ sv.fin
  BY <1>1, BusyFacts DEF DeletePath
<1>3. PICK o :
        IF o.ok
        THEN /\ GoTo("deletePV")
             /\ pvcBySharedVolume' = [pvcBySharedVolume EXCEPT ![req] = o.e]
        ELSE /\ Return(TRUE)
             /\ pvcBySharedVolume' = Forget(pvcBySharedVolume)
  BY DEF DeletePVC
<1>4. \A s \in SharedVolumes \ {req} : pvcBySharedVolume'[s] = pvcBySharedVolume[s]
  BY <1>2, <1>3 DEF IInv, TypeOK, Forget
<1>5. CASE o.ok
  <2>1. GoTo("deletePV")
    BY <1>3, <1>5
  <2>2. MapsOK'
    BY <1>1, <1>4, <2>1 DEF IInv, MapsOK, GoTo
  <2>. QED BY <1>1, <1>2, <2>1, <2>2, GoToKeeps DEF DeletePath
<1>6. CASE ~o.ok
  <2>1. pc' = "idle" /\ pvcBySharedVolume'[req] = None
    BY <1>2, <1>3, <1>6 DEF Return, Forget, IInv, TypeOK
  <2>2. MapsOK'
    BY <1>1, <1>4, <2>1 DEF IInv, MapsOK
  <2>. QED BY <1>1, <2>1, <2>2, UnchangedKeeps, ReturnKeeps
<1>. QED BY <1>5, <1>6

LEMMA DeletePVKeeps ==
    ASSUME IInv, TypeOK', DeletePV
    PROVE  IInv'
<1>1. pc = "deletePV" /\ UNCHANGED <<svs, uids>>
  BY DEF DeletePV, ghostVars
<1>2. req \in SharedVolumes /\ sv.deleting /\ sv.fin
  BY <1>1, BusyFacts DEF DeletePath
<1>3. PICK o :
        IF o.ok
        THEN /\ GoTo("unfinalize")
             /\ pvBySharedVolume' = [pvBySharedVolume EXCEPT ![req] = o.e]
             /\ UNCHANGED pvcBySharedVolume
        ELSE /\ Return(TRUE)
             /\ pvBySharedVolume' = Forget(pvBySharedVolume)
             /\ pvcBySharedVolume' = Forget(pvcBySharedVolume)
  BY DEF DeletePV
<1>4. \A s \in SharedVolumes \ {req} :
        /\ pvBySharedVolume'[s] = pvBySharedVolume[s]
        /\ pvcBySharedVolume'[s] = pvcBySharedVolume[s]
  BY <1>2, <1>3 DEF IInv, TypeOK, Forget
<1>5. CASE o.ok
  <2>1. GoTo("unfinalize")
    BY <1>3, <1>5
  <2>2. MapsOK'
    BY <1>1, <1>4, <2>1 DEF IInv, MapsOK, GoTo
  <2>. QED BY <1>1, <1>2, <2>1, <2>2, GoToKeeps DEF DeletePath
<1>6. CASE ~o.ok
  <2>1. pc' = "idle" /\ pvBySharedVolume'[req] = None /\ pvcBySharedVolume'[req] = None
    BY <1>2, <1>3, <1>6 DEF Return, Forget, IInv, TypeOK
  <2>2. MapsOK'
    BY <1>1, <1>4, <2>1 DEF IInv, MapsOK
  <2>. QED BY <1>1, <2>1, <2>2, UnchangedKeeps, ReturnKeeps
<1>. QED BY <1>5, <1>6

LEMMA CrashKeeps ==
    ASSUME IInv, TypeOK', Crash
    PROVE  IInv'
<1>1. /\ svs' = [s \in SharedVolumes |-> <<Stored(svs[s])>>]
      /\ uids' = uids /\ pc' = "idle"
      /\ pvBySharedVolume' = NoEnsurables /\ pvcBySharedVolume' = NoEnsurables
  BY DEF Crash, Relisted, ghostVars, IInv, TypeOK, ClusterTypeOK
<1>2. \A s \in SharedVolumes : svs[s] \in Versions(SharedVolume) /\ HistoryOK(svs[s], uids)
  BY DEF IInv, TypeOK, ClusterTypeOK
<1>3. \A s \in SharedVolumes : HistoryOK(svs'[s], uids')
  BY <1>1, <1>2, HistoryRelist
<1>4. MapsOK'
  BY <1>1 DEF MapsOK, NoEnsurables
<1>. QED BY <1>1, <1>3, <1>4 DEF IInv, WorkerOK

-----------------------------------------------------------------------------
LEMMA IInvInit == Init => IInv
<1>. SUFFICES ASSUME Init PROVE IInv
  OBVIOUS
<1>1. TypeOK /\ pc = "idle"
  BY InitType DEF Init
<1>2. \A s \in SharedVolumes : HistoryOK(svs[s], uids)
  BY DEF Init, ClusterInit, HistoryOK
<1>3. MapsOK
  BY DEF Init, NoEnsurables, MapsOK
<1>. QED BY <1>1, <1>2, <1>3 DEF IInv, WorkerOK

LEMMA IInvNext == IInv /\ [Next]_vars => IInv'
<1>. SUFFICES ASSUME IInv, [Next]_vars PROVE IInv'
  OBVIOUS
<1>1. TypeOK'
  BY NextType DEF IInv
<1>2. CASE (Environment \/ Informers) /\ UNCHANGED <<workerVars, mapVars>>
  BY <1>1, <1>2, OthersKeep, FrameKeeps
<1>3. CASE \E s \in SharedVolumes : Begin(s)
  BY <1>1, <1>3, BeginKeeps
<1>4. CASE Continue
  BY <1>1, <1>4, MarkDeletingKeeps, DeletePVCKeeps, DeletePVKeeps, UnfinalizeKeeps,
     SVStepKeeps, EnsurePVKeeps, EnsurePVCKeeps DEF Continue
<1>5. CASE Crash
  BY <1>1, <1>5, CrashKeeps
<1>6. CASE UNCHANGED vars
  <2>1. UNCHANGED <<svs, uids, workerVars, mapVars>>
    BY <1>6 DEF vars, clusterVars, objectVars, ghostVars
  <2>2. uids \in Nat /\ uids <= uids'
    BY <2>1 DEF IInv, TypeOK, ClusterTypeOK
  <2>. QED BY <1>1, <2>1, <2>2, UnchangedKeeps, FrameKeeps
<1>. QED BY <1>2, <1>3, <1>4, <1>5, <1>6 DEF Next

\* The histories, the worker's copy and the maps agree, in every reachable state.
THEOREM Inductive == Spec => []IInv
BY IInvInit, IInvNext, PTL DEF Spec

-----------------------------------------------------------------------------
(* What IInv implies. *)

\* A SharedVolume in phase Deleting is being deleted: whatever the worker writes
\* was computed from a copy that already was (markStatus in handleDelete).
THEOREM DeletingHonest == Spec => []DeletingPhaseIsHonest
<1>1. IInv => DeletingPhaseIsHonest
  <2>. SUFFICES ASSUME IInv, NEW s \in SharedVolumes,
                       Stored(svs[s]) # None, Stored(svs[s]).phase = "Deleting"
                PROVE  Stored(svs[s]).deleting
    BY DEF DeletingPhaseIsHonest, Exists, SVOf
  <2>1. svs[s] \in Versions(SharedVolume) /\ HistoryOK(svs[s], uids)
    BY DEF IInv, TypeOK, ClusterTypeOK
  <2>2. Len(svs[s]) \in Nat /\ Len(svs[s]) >= 1
    BY <2>1, VersionsFacts
  <2>3. Len(svs[s]) \in 1..Len(svs[s])
    BY <2>2
  <2>. QED BY <2>1, <2>3 DEF HistoryOK, Stored
<1>. QED BY Inductive, <1>1, PTL

\* Between two Reconciles an entry of the maps is for the incarnation of the
\* SharedVolume that the API server has (the deferred deletes of handleDelete).
THEOREM EnsurablesFollow == Spec => []EnsurablesFollowIncarnation
<1>1. IInv => EnsurablesFollowIncarnation
  BY DEF IInv, MapsOK, EntryOK, EnsurablesFollowIncarnation, Exists, SVOf
<1>. QED BY Inductive, <1>1, PTL

\* Who makes a PV or PVC: the create path, for a SharedVolume that is Guarded.
LEMMA MakerIsGuarded ==
    ASSUME IInv, pc \in CreatePath
    PROVE  req \in SharedVolumes /\ Guarded(req)
<1>1. pc # "idle"
  BY DEF CreatePath
<1>. QED BY <1>1, BusyFacts, EntryMade DEF EntryOK, Guarded, Exists, SVOf

LEMMA PVMade ==
    ASSUME IInv, Next, NEW n \in PVNames, Stored(pvs[n]) = None, Stored(pvs'[n]) # None
    PROVE  EnsurePV /\ n = pvNameForSharedVolume[req]
<1>1. TypeOK /\ pvs \in [PVNames -> Versions(PV)] /\ pvs[n] \in Versions(PV)
  BY DEF IInv, TypeOK, ClusterTypeOK
<1>2. pvs' # pvs
  OBVIOUS
<1>3. ~(Environment \/ Informers)
  <2>1. ASSUME NEW m \in PVNames, ReapPV(m)
        PROVE  FALSE
    BY <1>1, <2>1, WriteFacts DEF ReapPV
  <2>2. ASSUME NEW m \in PVNames, MeddlePV(m)
        PROVE  FALSE
    <3>1. m # n
      BY <2>2 DEF MeddlePV
    <3>2. PICK obj : pvs' = Write(pvs, m, obj)
      BY <2>2 DEF MeddlePV
    <3>3. pvs'[n] = pvs[n]
      BY <1>1, <3>1, <3>2 DEF Write
    <3>. QED BY <3>3
  <2>3. ASSUME NEW m \in PVNames, SyncPV(m)
        PROVE  FALSE
    <3>1. Stored(pvs'[n]) = Stored(pvs[n])
      <4>1. CASE m = n
        BY <1>1, <2>3, <4>1, TailFacts DEF SyncPV, Deliver
      <4>2. CASE m # n
        BY <1>1, <2>3, <4>2 DEF SyncPV, Deliver
      <4>. QED BY <4>1, <4>2
    <3>. QED BY <3>1
  <2>4. \A s \in SharedVolumes :
            CreateSV(s) \/ EditSV(s) \/ DeleteSV(s) \/ ReleaseSV(s) \/ ReapPVC(s) \/ MeddlePVC(s)
                \/ SyncSV(s) \/ SyncPVC(s) \/ Resync(s) => pvs' = pvs
    BY DEF CreateSV, EditSV, DeleteSV, ReleaseSV, ReapPVC, MeddlePVC, SyncSV, SyncPVC,
           Resync, objectVars
  <2>. QED BY <1>2, <2>1, <2>2, <2>3, <2>4 DEF Environment, Informers
<1>4. ~Crash
  BY <1>1, RelistFacts DEF Crash, Relisted
<1>5. ~DeletePV
  <2>. SUFFICES ASSUME DeletePV PROVE FALSE
    OBVIOUS
  <2>. DEFINE m == pvNameForSharedVolume[req]
  <2>1. pc # "idle"
    BY DEF DeletePV
  <2>2. PICK o \in Delete(pvEnsurable, Cached(pvs[m]), Stored(pvs[m])) :
            pvs' = Write(pvs, m, o.server)
    BY DEF DeletePV
  <2>3. m \in PVNames
    BY <1>1, <2>1, ObjectTypes
  <2>4. /\ Stored(pvs[m]) = None => o.server = None
        /\ o.server \in PV \cup {None}
    BY <1>1, <2>1, DeletePVOutcome DEF OutcomeOK, PV
  <2>5. CASE m = n
    BY <1>1, <2>2, <2>4, <2>5, WriteFacts
  <2>6. CASE m # n
    BY <1>1, <2>2, <2>6 DEF Write
  <2>. QED BY <2>5, <2>6
<1>6. EnsurePV
  <2>1. ~\E s \in SharedVolumes : Begin(s)
    BY <1>2 DEF Begin, objectVars
  <2>2. ~(MarkDeleting \/ DeletePVC \/ Unfinalize \/ Unedit \/ Finalize \/ MarkPending
            \/ EnsurePVC \/ MarkFailed \/ MarkReady)
    BY <1>2 DEF MarkDeleting, DeletePVC, Unfinalize, Unedit, Finalize, MarkPending,
                EnsurePVC, MarkFailed, MarkReady
  <2>. QED BY <1>3, <1>4, <1>5, <2>1, <2>2 DEF Next, Continue
<1>7. n = pvNameForSharedVolume[req]
  <2>. DEFINE m == pvNameForSharedVolume[req]
  <2>1. PICK o : pvs' = Write(pvs, m, o.server)
    BY <1>6 DEF EnsurePV
  <2>2. m # n => pvs'[n] = pvs[n]
    BY <1>1, <2>1 DEF Write
  <2>. QED BY <2>2
<1>. QED BY <1>6, <1>7

LEMMA PVCMade ==
    ASSUME IInv, Next, NEW s \in SharedVolumes,
           Stored(pvcs[s]) = None, Stored(pvcs'[s]) # None
    PROVE  EnsurePVC /\ s = req
<1>1. TypeOK /\ pvcs \in [SharedVolumes -> Versions(PVC)] /\ pvcs[s] \in Versions(PVC)
  BY DEF IInv, TypeOK, ClusterTypeOK
<1>2. pvcs' # pvcs
  OBVIOUS
<1>3. ~(Environment \/ Informers)
  <2>1. ASSUME NEW t \in SharedVolumes, ReapPVC(t)
        PROVE  FALSE
    BY <1>1, <2>1, WriteFacts DEF ReapPVC
  <2>2. ASSUME NEW t \in SharedVolumes, MeddlePVC(t)
        PROVE  FALSE
    <3>1. t # s
      BY <2>2 DEF MeddlePVC
    <3>2. PICK obj : pvcs' = Write(pvcs, t, obj)
      BY <2>2 DEF MeddlePVC
    <3>3. pvcs'[s] = pvcs[s]
      BY <1>1, <3>1, <3>2 DEF Write
    <3>. QED BY <3>3
  <2>3. ASSUME NEW t \in SharedVolumes, SyncPVC(t)
        PROVE  FALSE
    <3>1. Stored(pvcs'[s]) = Stored(pvcs[s])
      <4>1. CASE t = s
        BY <1>1, <2>3, <4>1, TailFacts DEF SyncPVC, Deliver
      <4>2. CASE t # s
        BY <1>1, <2>3, <4>2 DEF SyncPVC, Deliver
      <4>. QED BY <4>1, <4>2
    <3>. QED BY <3>1
  <2>4. \A n \in PVNames : ReapPV(n) \/ MeddlePV(n) \/ SyncPV(n) => pvcs' = pvcs
    BY DEF ReapPV, MeddlePV, SyncPV
  <2>5. \A t \in SharedVolumes :
            CreateSV(t) \/ EditSV(t) \/ DeleteSV(t) \/ ReleaseSV(t) \/ SyncSV(t) \/ Resync(t)
                => pvcs' = pvcs
    BY DEF CreateSV, EditSV, DeleteSV, ReleaseSV, SyncSV, Resync, objectVars
  <2>. QED BY <1>2, <2>1, <2>2, <2>3, <2>4, <2>5 DEF Environment, Informers
<1>4. ~Crash
  BY <1>1, RelistFacts DEF Crash, Relisted
<1>5. ~DeletePVC
  <2>. SUFFICES ASSUME DeletePVC PROVE FALSE
    OBVIOUS
  <2>1. pc # "idle"
    BY DEF DeletePVC
  <2>2. PICK o \in Delete(pvcEnsurable, Cached(pvcs[req]), Stored(pvcs[req])) :
            pvcs' = Write(pvcs, req, o.server)
    BY DEF DeletePVC
  <2>3. req \in SharedVolumes
    BY <1>1, <2>1, BusyType
  <2>4. /\ Stored(pvcs[req]) = None => o.server = None
        /\ o.server \in PVC \cup {None}
    BY <1>1, <2>1, DeletePVCOutcome DEF OutcomeOK, PVC
  <2>5. CASE req = s
    BY <1>1, <2>2, <2>4, <2>5, WriteFacts
  <2>6. CASE req # s
    BY <1>1, <2>2, <2>6 DEF Write
  <2>. QED BY <2>5, <2>6
<1>6. EnsurePVC
  <2>1. ~\E t \in SharedVolumes : Begin(t)
    BY <1>2 DEF Begin, objectVars
  <2>2. ~(MarkDeleting \/ DeletePV \/ Unfinalize \/ Unedit \/ Finalize \/ MarkPending
            \/ EnsurePV \/ MarkFailed \/ MarkReady)
    BY <1>2 DEF MarkDeleting, DeletePV, Unfinalize, Unedit, Finalize, MarkPending,
                EnsurePV, MarkFailed, MarkReady
  <2>. QED BY <1>3, <1>4, <1>5, <2>1, <2>2 DEF Next, Continue
<1>7. s = req
  <2>1. PICK o : pvcs' = Write(pvcs, req, o.server)
    BY <1>6 DEF EnsurePVC
  <2>2. req # s => pvcs'[s] = pvcs[s]
    BY <1>1, <2>1 DEF Write
  <2>. QED BY <2>2
<1>. QED BY <1>6, <1>7

\* No PV and no PVC comes into being unless a SharedVolume it belongs to holds the
\* finalizer (Reconcile 146-155), with caches of any age, faults and crashes.
THEOREM Guarding == Spec => CreatedUnderFinalizer
<1>. DEFINE Step ==
        /\ \A n \in PVNames : ~Exists(Stored(pvs[n])) /\ Exists(Stored(pvs[n])') =>
                \E s \in SharedVolumes : pvNameForSharedVolume[s] = n /\ Guarded(s)
        /\ \A s \in SharedVolumes : ~Exists(PVCOf(s)) /\ Exists(PVCOf(s)') => Guarded(s)
<1>1. IInv /\ [Next]_vars => [Step]_vars
  <2>. SUFFICES ASSUME IInv, Next PROVE Step
    OBVIOUS
  <2>1. ASSUME NEW n \in PVNames, ~Exists(Stored(pvs[n])), Exists(Stored(pvs[n])')
        PROVE  \E s \in SharedVolumes : pvNameForSharedVolume[s] = n /\ Guarded(s)
    <3>1. EnsurePV /\ n = pvNameForSharedVolume[req]
      BY <2>1, PVMade DEF Exists, Stored
    <3>2. pc \in CreatePath
      BY <3>1 DEF EnsurePV, CreatePath
    <3>. QED BY <3>1, <3>2, MakerIsGuarded
  <2>2. ASSUME NEW s \in SharedVolumes, ~Exists(PVCOf(s)), Exists(PVCOf(s)')
        PROVE  Guarded(s)
    <3>1. EnsurePVC /\ s = req
      BY <2>2, PVCMade DEF Exists, PVCOf, Stored
    <3>2. pc \in CreatePath
      BY <3>1 DEF EnsurePVC, CreatePath
    <3>. QED BY <3>1, <3>2, MakerIsGuarded
  <2>. QED BY <2>1, <2>2
<1>. QED BY Inductive, <1>1, PTL DEF Spec, CreatedUnderFinalizer

-----------------------------------------------------------------------------
(* What users asked for. *)

\* A step that leaves the SharedVolume, its PV and its entry as they should be.
LEMMA AskedFrame ==
    ASSUME NEW s \in SharedVolumes, VolumeAsked(s), EntryAsked(s), CopyAsked(s),
           asked'[s] = asked[s], pvBySharedVolume'[s] = pvBySharedVolume[s],
           Exists(SVOf(s)') =>
               Exists(SVOf(s)) /\ SVOf(s)'.uid = SVOf(s).uid /\ SVOf(s)'.spec \in asked[s],
           Exists(SVOf(s)) => PVOf(s)' \in Resources(AskedSources(s), SharedVolumes) \cup {None},
           \/ UNCHANGED workerVars
           \/ req # s /\ req' # s
           \/ req = s /\ pc # "unfinalize" /\ pc' \in DeletePath \cup {"idle"}
           \/ req = s /\ pc \notin DeletePath \cup {"idle"} /\ UNCHANGED <<req, sv>>
    PROVE  VolumeAsked(s)' /\ EntryAsked(s)' /\ CopyAsked(s)'
<1>1. AskedSources(s)' = AskedSources(s)
  BY DEF AskedSources
<1>2. VolumeAsked(s)'
  BY <1>1 DEF VolumeAsked, Exists
<1>3. EntryAsked(s)'
  BY <1>1 DEF EntryAsked, workerVars, DeletePath
<1>4. CopyAsked(s)'
  BY DEF CopyAsked, workerVars, Exists
<1>. QED BY <1>2, <1>3, <1>4

\* What users asked for only grows, as long as the SharedVolume is there.
LEMMA AskedGrows ==
    ASSUME NEW s \in SharedVolumes, asked[s] \subseteq asked'[s]
    PROVE  /\ Resources(AskedSources(s), SharedVolumes)
                \subseteq Resources(AskedSources(s)', SharedVolumes)
           /\ Ensurables({"PersistentVolume"}, Nat, AskedSources(s), SharedVolumes)
                \subseteq Ensurables({"PersistentVolume"}, Nat, AskedSources(s)', SharedVolumes)
<1>. DEFINE before == AskedSources(s)
            after == AskedSources(s)'
<1>1. before \subseteq after
  BY DEF AskedSources
<1>. HIDE DEF before, after
<1>2. Resources(before, SharedVolumes) \subseteq Resources(after, SharedVolumes)
  BY <1>1 DEF Resources
<1>3. Ensurables({"PersistentVolume"}, Nat, before, SharedVolumes)
            \subseteq Ensurables({"PersistentVolume"}, Nat, after, SharedVolumes)
  BY <1>2 DEF Ensurables
<1>. QED BY <1>2, <1>3 DEF before, after

LEMMA AskedSourcesFacts ==
    ASSUME TypeOK, NEW s \in SharedVolumes
    PROVE  /\ AskedSources(s) \subseteq VolumeSources
           /\ None \notin Resources(AskedSources(s), SharedVolumes)
           /\ \A source \in AskedSources(s) : Parsed(source) \in asked[s]
           /\ \A spec \in Specs : Parsed(Written(spec)) = spec
<1>1. asked[s] \subseteq Specs
  BY DEF TypeOK, ClusterTypeOK
<1>2. AskedSources(s) \subseteq VolumeSources
  BY <1>1 DEF AskedSources, VolumeSources
<1>3. Resources(AskedSources(s), SharedVolumes) \subseteq PV
  BY <1>2 DEF Resources, PV
<1>4. \A spec \in Specs : Parsed(Written(spec)) = spec /\ Parsed(OldStyle(spec)) = spec
  <2>1. ASSUME NEW spec \in Specs PROVE Parsed(Written(spec)) = spec /\ Parsed(OldStyle(spec)) = spec
    <3>1. spec = Ids(spec.FileSystemID, spec.AccessPointID) /\ spec.AccessPointID # ""
      BY IdsAssumption
    <3>. QED BY <3>1, RoundTrip
  <2>. QED BY <2>1
<1>5. \A source \in AskedSources(s) : Parsed(source) \in asked[s]
  BY <1>1, <1>4 DEF AskedSources
<1>. QED BY <1>2, <1>3, <1>4, <1>5, NoneAssumption

\* Nothing of an earlier incarnation is left when a name is used again.
LEMMA CreateSVAsked ==
    ASSUME IInv, PATIENT, NEW s \in SharedVolumes, CreateSV(s), UNCHANGED <<workerVars, mapVars>>
    PROVE  VolumeAsked(s)' /\ EntryAsked(s)' /\ CopyAsked(s)'
<1>1. /\ svs \in [SharedVolumes -> Versions(SharedVolume)] /\ uids \in Nat
      /\ asked \in [SharedVolumes -> SUBSET Specs]
  BY DEF IInv, TypeOK, ClusterTypeOK
<1>2. PICK spec \in Specs, held \in ForeignFinalizers :
        /\ svs' = Write(svs, s,
                    [uid |-> uids', spec |-> spec, fin |-> FALSE, held |-> held,
                     deleting |-> FALSE, phase |-> "", message |-> FALSE,
                     claimRef |-> FALSE])
        /\ asked' = [asked EXCEPT ![s] = {spec}]
  BY DEF CreateSV
<1>. DEFINE new == [uid |-> uids', spec |-> spec, fin |-> FALSE, held |-> held,
                    deleting |-> FALSE, phase |-> "", message |-> FALSE, claimRef |-> FALSE]
<1>3. uids' = uids + 1 /\ uids' \in Nat
  <2>1. uids' = uids + 1
    BY DEF CreateSV
  <2>. QED BY <1>1, <2>1
<1>4. new \in SharedVolume /\ new.uid = uids' /\ new.spec = spec
  BY <1>3, ConstantsAssumption DEF SharedVolume, Phases
<1>. HIDE DEF new
<1>5. SVOf(s)' = new
  <2>1. svs' = Write(svs, s, new)
    BY <1>2 DEF new
  <2>2. Stored(svs'[s]) = new
    BY <1>1, <1>4, <2>1, WriteFacts
  <2>. QED BY <2>2 DEF SVOf
<1>6. PVOf(s)' = None /\ asked'[s] = {spec} /\ Stored(svs[s]) = None
  BY <1>1, <1>2 DEF CreateSV, PVOf
<1>7. VolumeAsked(s)'
  BY <1>4, <1>5, <1>6 DEF VolumeAsked
<1>8. EntryAsked(s)'
  <2>1. pvBySharedVolume[s] = None \/ (req = s /\ pc = "unfinalize")
    BY <1>6 DEF IInv, MapsOK, EntryOK
  <2>. QED BY <2>1 DEF EntryAsked, mapVars, workerVars
<1>9. CopyAsked(s)'
  <2>1. pc # "idle" => sv.uid \in Nat /\ sv.uid <= uids
    BY BusyFacts
  <2>2. pc # "idle" => sv.uid # uids'
    BY <1>1, <1>3, <2>1
  <2>. QED BY <1>4, <1>5, <2>2 DEF CopyAsked, workerVars
<1>. QED BY <1>7, <1>8, <1>9

LEMMA EditSVAsked ==
    ASSUME IInv, NEW s \in SharedVolumes, EditSV(s), UNCHANGED <<workerVars, mapVars>>,
           VolumeAsked(s), EntryAsked(s), CopyAsked(s)
    PROVE  VolumeAsked(s)' /\ EntryAsked(s)' /\ CopyAsked(s)'
<1>1. /\ svs \in [SharedVolumes -> Versions(SharedVolume)]
      /\ asked \in [SharedVolumes -> SUBSET Specs]
  BY DEF IInv, TypeOK, ClusterTypeOK
<1>2. SVOf(s) \in SharedVolume /\ Exists(SVOf(s))
  BY StoredTypes DEF IInv, EditSV, SVOf, Exists
<1>3. PICK spec \in Specs :
        /\ svs' = Write(svs, s, [SVOf(s) EXCEPT !.spec = spec])
        /\ asked' = [asked EXCEPT ![s] = @ \cup {spec}]
  BY DEF EditSV, SVOf
<1>. DEFINE new == [SVOf(s) EXCEPT !.spec = spec]
<1>4. new \in SharedVolume /\ new.uid = SVOf(s).uid /\ new.spec = spec
  BY <1>2 DEF SharedVolume
<1>. HIDE DEF new
<1>5. SVOf(s)' = new
  <2>1. svs' = Write(svs, s, new)
    BY <1>3 DEF new
  <2>2. Stored(svs'[s]) = new
    BY <1>1, <1>4, <2>1, WriteFacts
  <2>. QED BY <2>2 DEF SVOf
<1>6. asked'[s] = asked[s] \cup {spec}
  BY <1>1, <1>3
<1>7. PVOf(s)' = PVOf(s)
  BY DEF EditSV, PVOf
<1>8. VolumeAsked(s)'
  BY <1>2, <1>4, <1>5, <1>6, <1>7, AskedGrows DEF VolumeAsked
<1>9. EntryAsked(s)'
  BY <1>6, AskedGrows DEF EntryAsked, mapVars, workerVars
<1>10. CopyAsked(s)'
  BY <1>2, <1>4, <1>5, <1>6 DEF CopyAsked, workerVars
<1>. QED BY <1>8, <1>9, <1>10

\* A deletion, and the end of a foreign finalizer.
LEMMA UserKeepsSpec ==
    ASSUME IInv, NEW s \in SharedVolumes, DeleteSV(s) \/ ReleaseSV(s)
    PROVE  Exists(SVOf(s)') =>
               Exists(SVOf(s)) /\ SVOf(s)'.uid = SVOf(s).uid /\ SVOf(s)'.spec = SVOf(s).spec
<1>1. svs \in [SharedVolumes -> Versions(SharedVolume)]
  BY DEF IInv, TypeOK, ClusterTypeOK
<1>2. SVOf(s) \in SharedVolume /\ Exists(SVOf(s))
  BY StoredTypes DEF IInv, DeleteSV, ReleaseSV, SVOf, Exists
<1>3. PICK new : /\ new = [SVOf(s) EXCEPT !.deleting = TRUE] \/ new = [SVOf(s) EXCEPT !.held = FALSE]
                 /\ svs' = Write(svs, s, Finalized(new))
  BY DEF DeleteSV, ReleaseSV, SVOf
<1>4. new \in SharedVolume /\ new.uid = SVOf(s).uid /\ new.spec = SVOf(s).spec
  BY <1>2, <1>3 DEF SharedVolume
<1>5. Finalized(new) \in {new, None}
  BY DEF Finalized
<1>6. Stored(svs'[s]) = Finalized(new)
  BY <1>1, <1>3, <1>4, <1>5, WriteFacts
<1>. QED BY <1>2, <1>4, <1>5, <1>6 DEF SVOf, Exists

\* A PV in the style of an older operator says what it said.
LEMMA RestyledAsked ==
    ASSUME TypeOK, NEW s \in SharedVolumes, NEW obj \in Resources(AskedSources(s), SharedVolumes),
           NEW new \in Meddled(obj, "restyle")
    PROVE  new \in Resources(AskedSources(s), SharedVolumes)
<1>1. PICK spec \in Specs : /\ obj.spec = Written(spec)
                            /\ new = Newer([obj EXCEPT !.spec = OldStyle(spec)])
  BY DEF Meddled
<1>2. obj.spec \in AskedSources(s)
  BY DEF Resources
<1>3. spec \in asked[s]
  BY <1>1, <1>2, AskedSourcesFacts
<1>. DEFINE source == OldStyle(spec)
<1>4. source \in AskedSources(s)
  BY <1>3 DEF AskedSources
<1>5. new = Newer([obj EXCEPT !.spec = source])
  BY <1>1
<1>. DEFINE S == AskedSources(s)
            restyled == [obj EXCEPT !.spec = source]
<1>. HIDE DEF source, S
<1>6. restyled \in Resources(S, SharedVolumes)
  BY <1>4 DEF Resources, S
<1>7. restyled.rv + 1 \in Nat
  BY <1>6 DEF Resources
<1>. HIDE DEF restyled
<1>8. Newer(restyled) \in Resources(S, SharedVolumes)
  BY <1>6, <1>7 DEF Newer, Resources
<1>. QED BY <1>5, <1>8 DEF S, restyled

\* What users do to a PV, and its end.
LEMMA OthersKeepSource ==
    ASSUME TypeOK, Careful, NEW s \in SharedVolumes, NEW n \in PVNames, ReapPV(n) \/ MeddlePV(n),
           PVOf(s) \in Resources(AskedSources(s), SharedVolumes) \cup {None}
    PROVE  PVOf(s)' \in Resources(AskedSources(s), SharedVolumes) \cup {None}
<1>1. /\ pvs \in [PVNames -> Versions(PV)] /\ pvNameForSharedVolume[s] \in PVNames
      /\ None \notin Resources(AskedSources(s), SharedVolumes)
      /\ AskedSources(s) \subseteq VolumeSources
  BY NamesType, AskedSourcesFacts DEF TypeOK, ClusterTypeOK
<1>2. CASE pvNameForSharedVolume[s] # n
  <2>1. pvs'[pvNameForSharedVolume[s]] = pvs[pvNameForSharedVolume[s]]
    BY <1>1, <1>2 DEF ReapPV, MeddlePV, Write
  <2>. QED BY <2>1 DEF PVOf
<1>3. CASE pvNameForSharedVolume[s] = n
  <2>1. CASE ReapPV(n)
    BY <1>1, <1>3, <2>1, WriteFacts DEF ReapPV, PVOf
  <2>2. CASE MeddlePV(n)
    <3>0. PICK kind \in Meddling : \E obj \in Meddled(PVOf(s), kind) : pvs' = Write(pvs, n, obj)
      BY <1>3, <2>2 DEF MeddlePV, PVOf
    <3>1. PICK obj \in Meddled(PVOf(s), kind) : pvs' = Write(pvs, n, obj)
      BY <3>0
    <3>2. kind \in Kinds /\ kind # "garble"
      BY ConstantsAssumption DEF Careful, Kinds
    <3>3. PVOf(s) \in Resources(AskedSources(s), SharedVolumes)
      BY <1>3, <2>2 DEF MeddlePV, PVOf
    <3>4. obj \in Resources(AskedSources(s), SharedVolumes) \cup {None}
      <4>1. CASE kind # "restyle"
        BY <1>1, <3>1, <3>2, <3>3, <4>1, MeddledType
      <4>2. CASE kind = "restyle"
        BY <3>1, <3>3, <4>2, RestyledAsked
      <4>. QED BY <4>1, <4>2
    <3>5. Resources(AskedSources(s), SharedVolumes) \subseteq PV
      BY <1>1 DEF Resources, PV
    <3>6. Stored(pvs'[n]) = obj
      BY <1>1, <1>3, <3>1, <3>4, <3>5, WriteFacts
    <3>. QED BY <1>3, <3>4, <3>6 DEF PVOf
  <2>. QED BY <2>1, <2>2
<1>. QED BY <1>2, <1>3

LEMMA OthersAsked ==
    ASSUME IInv, Careful, AskedInv, Environment \/ Informers, UNCHANGED <<workerVars, mapVars>>,
           NEW s \in SharedVolumes
    PROVE  VolumeAsked(s)' /\ EntryAsked(s)' /\ CopyAsked(s)'
<1>1. /\ svs \in [SharedVolumes -> Versions(SharedVolume)]
      /\ pvs \in [PVNames -> Versions(PV)]
      /\ asked \in [SharedVolumes -> SUBSET Specs]
      /\ pvNameForSharedVolume[s] \in PVNames
  BY NamesType DEF IInv, TypeOK, ClusterTypeOK
<1>2. VolumeAsked(s) /\ EntryAsked(s) /\ CopyAsked(s) /\ pvBySharedVolume' = pvBySharedVolume
  BY DEF AskedInv, mapVars
<1>3. ASSUME asked'[s] = asked[s],
             Exists(SVOf(s)') => /\ Exists(SVOf(s)) /\ SVOf(s)'.uid = SVOf(s).uid
                                 /\ SVOf(s)'.spec = SVOf(s).spec,
             \/ PVOf(s)' = PVOf(s)
             \/ PVOf(s) \in Resources(AskedSources(s), SharedVolumes) \cup {None} =>
                    PVOf(s)' \in Resources(AskedSources(s), SharedVolumes) \cup {None}
      PROVE  VolumeAsked(s)' /\ EntryAsked(s)' /\ CopyAsked(s)'
  BY <1>2, <1>3, AskedFrame DEF VolumeAsked
<1>4. ASSUME NEW t \in SharedVolumes, CreateSV(t) \/ EditSV(t) \/ DeleteSV(t) \/ ReleaseSV(t)
      PROVE  VolumeAsked(s)' /\ EntryAsked(s)' /\ CopyAsked(s)'
  <2>1. PVOf(s)' = PVOf(s)
    BY <1>4 DEF CreateSV, EditSV, DeleteSV, ReleaseSV, PVOf
  <2>2. CASE s # t
    <3>1. SVOf(s)' = SVOf(s) /\ asked'[s] = asked[s]
      BY <1>1, <1>4, <2>2 DEF CreateSV, EditSV, DeleteSV, ReleaseSV, Write, SVOf, ghostVars
    <3>. QED BY <1>3, <2>1, <3>1
  <2>3. CASE s = t /\ (CreateSV(s) \/ EditSV(s))
    BY <1>2, <2>3, CreateSVAsked, EditSVAsked DEF Careful
  <2>4. CASE s = t /\ (DeleteSV(s) \/ ReleaseSV(s))
    <3>1. asked'[s] = asked[s]
      BY <2>4 DEF DeleteSV, ReleaseSV, ghostVars
    <3>. QED BY <1>3, <2>1, <2>4, <3>1, UserKeepsSpec
  <2>. QED BY <1>4, <2>2, <2>3, <2>4
<1>5. ASSUME NEW n \in PVNames, ReapPV(n) \/ MeddlePV(n)
      PROVE  VolumeAsked(s)' /\ EntryAsked(s)' /\ CopyAsked(s)'
  <2>1. SVOf(s)' = SVOf(s) /\ asked'[s] = asked[s]
    BY <1>5 DEF ReapPV, MeddlePV, SVOf, ghostVars
  <2>. QED BY <1>3, <1>5, <2>1, OthersKeepSource DEF IInv
<1>6. ASSUME NEW t \in SharedVolumes,
             ReapPVC(t) \/ MeddlePVC(t) \/ SyncPVC(t) \/ Resync(t)
      PROVE  VolumeAsked(s)' /\ EntryAsked(s)' /\ CopyAsked(s)'
  <2>1. SVOf(s)' = SVOf(s) /\ PVOf(s)' = PVOf(s) /\ asked'[s] = asked[s]
    BY <1>6 DEF ReapPVC, MeddlePVC, SyncPVC, Resync, SVOf, PVOf, ghostVars, objectVars
  <2>. QED BY <1>3, <2>1
<1>7. ASSUME NEW t \in SharedVolumes, SyncSV(t)
      PROVE  VolumeAsked(s)' /\ EntryAsked(s)' /\ CopyAsked(s)'
  <2>1. SVOf(s)' = SVOf(s)
    <3>1. Len(svs[t]) > 1 /\ svs' = [svs EXCEPT ![t] = Tail(svs[t])] /\ svs[t] \in Versions(SharedVolume)
      BY <1>1, <1>7 DEF SyncSV, Deliver
    <3>2. Stored(Tail(svs[t])) = Stored(svs[t])
      BY <3>1, TailFacts
    <3>. QED BY <1>1, <3>1, <3>2 DEF SVOf
  <2>2. PVOf(s)' = PVOf(s) /\ asked'[s] = asked[s]
    BY <1>7 DEF SyncSV, PVOf, ghostVars
  <2>. QED BY <1>3, <2>1, <2>2
<1>8. ASSUME NEW n \in PVNames, SyncPV(n)
      PROVE  VolumeAsked(s)' /\ EntryAsked(s)' /\ CopyAsked(s)'
  <2>1. PVOf(s)' = PVOf(s)
    <3>1. Len(pvs[n]) > 1 /\ pvs' = [pvs EXCEPT ![n] = Tail(pvs[n])] /\ pvs[n] \in Versions(PV)
      BY <1>1, <1>8 DEF SyncPV, Deliver
    <3>2. Stored(Tail(pvs[n])) = Stored(pvs[n])
      BY <3>1, TailFacts
    <3>. QED BY <1>1, <3>1, <3>2 DEF PVOf
  <2>2. SVOf(s)' = SVOf(s) /\ asked'[s] = asked[s]
    BY <1>8 DEF SyncPV, SVOf, ghostVars
  <2>. QED BY <1>3, <2>1, <2>2
<1>. QED BY <1>4, <1>5, <1>6, <1>7, <1>8 DEF Environment, Informers

\* With caches that keep up, the worker reads what is stored.
LEMMA ReadsNow ==
    ASSUME TypeOK, ~LAGGING, Informed, NEW s \in SharedVolumes
    PROVE  /\ Cached(svs[s]) = SVOf(s)
           /\ Cached(pvs[pvNameForSharedVolume[s]]) = PVOf(s)
<1>1. Len(svs[s]) = 1 /\ Len(pvs[pvNameForSharedVolume[s]]) = 1
  BY NamesType DEF Informed, Current, UpToDate, TypeOK, ClusterTypeOK
<1>. QED BY <1>1 DEF Cached, Stored, SVOf, PVOf

LEMMA BeginAsked ==
    ASSUME IInv, Careful, AskedInv, NEW t \in SharedVolumes, Begin(t), NEW s \in SharedVolumes
    PROVE  VolumeAsked(s)' /\ EntryAsked(s)' /\ CopyAsked(s)'
<1>1. /\ pc = "idle" /\ req = None /\ s # None /\ Informed
      /\ SVOf(s)' = SVOf(s) /\ PVOf(s)' = PVOf(s)
      /\ asked' = asked /\ pvBySharedVolume' = pvBySharedVolume
  BY NoneAssumption DEF Begin, objectVars, ghostVars, mapVars, SVOf, PVOf, IInv, TypeOK, Steps,
     DeletePath, CreatePath
<1>2. VolumeAsked(s) /\ EntryAsked(s) /\ CopyAsked(s)
  BY DEF AskedInv
<1>3. CASE req' # s
  BY <1>1, <1>2, <1>3, AskedFrame DEF VolumeAsked
<1>4. CASE req' = s
  <2>1. AskedSources(s)' = AskedSources(s)
    BY <1>1 DEF AskedSources
  <2>2. VolumeAsked(s)' /\ EntryAsked(s)'
    BY <1>1, <1>2, <2>1 DEF VolumeAsked, EntryAsked
  <2>3. s = t /\ sv' = SVOf(s)
    BY <1>1, <1>4, ReadsNow DEF Begin, workerVars, Careful, IInv
  <2>4. CopyAsked(s)'
    BY <1>1, <1>2, <2>3 DEF VolumeAsked, CopyAsked
  <2>. QED BY <2>2, <2>4
<1>. QED BY <1>3, <1>4

\* The worker writes the SharedVolume it has: its uid, and what was asked for.
LEMMA SentAsked ==
    ASSUME IInv, NEW s \in SharedVolumes, req = s, pc # "idle", VolumeAsked(s),
           NEW new \in SharedVolume \cup {None}, NEW ok, Send(new, ok),
           new # None /\ SVOf(s) = sv => new.uid = sv.uid /\ new.spec \in asked[s]
    PROVE  Exists(SVOf(s)') =>
               Exists(SVOf(s)) /\ SVOf(s)'.uid = SVOf(s).uid /\ SVOf(s)'.spec \in asked[s]
<1>1. svs \in [SharedVolumes -> Versions(SharedVolume)] /\ sv # None
  BY BusyFacts DEF IInv, TypeOK, ClusterTypeOK
<1>2. CASE UNCHANGED svs
  BY <1>2 DEF VolumeAsked, SVOf, Exists
<1>3. CASE SVOf(s) = sv /\ svs' = Write(svs, s, new)
  <2>1. Stored(svs'[s]) = new
    BY <1>1, <1>3, WriteFacts
  <2>. QED BY <1>1, <1>3, <2>1 DEF SVOf, Exists
<1>. QED BY <1>2, <1>3 DEF Send, SVOf

LEMMA SVStepAsked ==
    ASSUME IInv, Careful, NEW s \in SharedVolumes, req = s, SVStep,
           VolumeAsked(s), EntryAsked(s), CopyAsked(s)
    PROVE  VolumeAsked(s)' /\ EntryAsked(s)' /\ CopyAsked(s)'
<1>1. /\ pvs' = pvs /\ PVOf(s)' = PVOf(s) /\ asked' = asked
      /\ pvBySharedVolume' = pvBySharedVolume
      /\ pc \notin {"idle", "unfinalize"}
  BY DEF SVStep, MarkDeleting, Unedit, Finalize, MarkPending, MarkFailed, MarkReady, ghostVars,
         mapVars, PVOf
<1>2. sv \in SharedVolume /\ TypeOK
  BY <1>1, BusyFacts DEF IInv
<1>3. \/ pc' \in DeletePath \cup {"idle"}
      \/ pc \notin DeletePath \cup {"idle"} /\ UNCHANGED <<req, sv>>
  BY DEF SVStep, MarkDeleting, HandleDelete, Unedit, Finalize, MarkPending, MarkFailed, MarkReady,
         GoTo, Return, DeletePath
<1>4. SVOf(s) = sv => sv.spec \in asked[s]
  BY <1>2, NoneAssumption DEF VolumeAsked, Exists
\* Whatever it sets, it leaves the spec alone.
<1>5. ASSUME NEW new \in SharedVolume, new.uid = sv.uid, new.spec = sv.spec,
             NEW ok, Send(new, ok)
      PROVE  Exists(SVOf(s)') =>
                 Exists(SVOf(s)) /\ SVOf(s)'.uid = SVOf(s).uid /\ SVOf(s)'.spec \in asked[s]
  BY <1>1, <1>4, <1>5, SentAsked
<1>6. CASE UNCHANGED svs
  BY <1>1, <1>3, <1>6, AskedFrame DEF VolumeAsked, SVOf, Exists
<1>7. ASSUME ~UNCHANGED svs
      PROVE  Exists(SVOf(s)') =>
                 Exists(SVOf(s)) /\ SVOf(s)'.uid = SVOf(s).uid /\ SVOf(s)'.spec \in asked[s]
  <2>1. \A phase \in Phases, message \in BOOLEAN :
            /\ Marked(phase, message) \in SharedVolume
            /\ Marked(phase, message).uid = sv.uid /\ Marked(phase, message).spec = sv.spec
    BY <1>2 DEF Marked, SharedVolume
  <2>2. CASE MarkDeleting \/ MarkPending \/ MarkFailed
    <3>1. PICK phase \in Phases, message \in BOOLEAN, ok \in BOOLEAN : Send(Marked(phase, message), ok)
      BY <1>7, <2>2 DEF MarkDeleting, MarkPending, MarkFailed, Phases
    <3>. DEFINE new == Marked(phase, message)
    <3>2. new \in SharedVolume /\ new.uid = sv.uid /\ new.spec = sv.spec
      BY <2>1
    <3>. HIDE DEF new
    <3>3. Send(new, ok)
      BY <3>1 DEF new
    <3>. QED BY <1>5, <3>2, <3>3
  <2>3. CASE Finalize
    <3>. DEFINE new == [sv EXCEPT !.fin = TRUE]
    <3>1. new \in SharedVolume /\ new.uid = sv.uid /\ new.spec = sv.spec
      BY <1>2 DEF SharedVolume
    <3>2. \E ok : Send(new, ok)
      BY <2>3 DEF Finalize
    <3>. HIDE DEF new
    <3>. QED BY <1>5, <3>1, <3>2
  <2>4. CASE MarkReady
    <3>. DEFINE new == [sv EXCEPT !.phase = "Ready", !.claimRef = TRUE]
    <3>1. new \in SharedVolume /\ new.uid = sv.uid /\ new.spec = sv.spec
      BY <1>2 DEF SharedVolume, Phases
    <3>2. \E ok : Send(new, ok)
      BY <1>7, <2>4 DEF MarkReady
    <3>. HIDE DEF new
    <3>. QED BY <1>5, <3>1, <3>2
  <2>5. CASE Unedit
    <3>. DEFINE spec == SpecOf(PVOf(s))
                new == [sv EXCEPT !.spec = spec]
    <3>1. Cached(pvs[pvNameForSharedVolume[s]]) = PVOf(s)
      BY <1>2, <2>5, ReadsNow DEF Unedit, Careful
    <3>2. PICK ok : Send(new, ok)
      BY <1>7, <2>5, <3>1 DEF Unedit
    <3>3. spec \in Specs
      BY <1>2, <2>5, <3>1, SpecOfType DEF Unedit
    <3>4. SVOf(s) = sv => spec \in asked[s]
      <4>. SUFFICES ASSUME SVOf(s) = sv PROVE spec \in asked[s]
        OBVIOUS
      <4>1. PVOf(s) # None => PVOf(s).spec \in AskedSources(s)
        BY <1>2, NoneAssumption DEF VolumeAsked, Exists, Resources
      <4>. QED BY <1>2, <1>4, <4>1, AskedSourcesFacts DEF SpecOf
    <3>. HIDE DEF spec
    <3>5. new \in SharedVolume /\ new.uid = sv.uid /\ new.spec = spec
      BY <1>2, <3>3 DEF SharedVolume
    <3>. HIDE DEF new
    <3>. QED BY <1>1, <3>2, <3>4, <3>5, SentAsked
  <2>. QED BY <2>2, <2>3, <2>4, <2>5 DEF SVStep
<1>. QED BY <1>1, <1>3, <1>6, <1>7, AskedFrame DEF VolumeAsked

LEMMA UnfinalizeAsked ==
    ASSUME IInv, NEW s \in SharedVolumes, req = s, Unfinalize,
           VolumeAsked(s), EntryAsked(s), CopyAsked(s)
    PROVE  VolumeAsked(s)' /\ EntryAsked(s)' /\ CopyAsked(s)'
<1>1. /\ pc = "unfinalize" /\ PVOf(s)' = PVOf(s) /\ asked' = asked
      /\ pvBySharedVolume'[s] = None /\ pc' = "idle"
  BY DEF Unfinalize, Return, Forget, ghostVars, PVOf, IInv, TypeOK
<1>2. sv \in SharedVolume
  BY <1>1, BusyFacts
<1>. DEFINE bare == [sv EXCEPT !.fin = FALSE]
<1>3. bare \in SharedVolume /\ bare.uid = sv.uid /\ bare.spec = sv.spec
  BY <1>2 DEF SharedVolume
<1>. HIDE DEF bare
<1>4. Finalized(bare) \in {bare, None}
  BY DEF Finalized
<1>5. \E ok : Send(Finalized(bare), ok)
  BY DEF Unfinalize, bare
<1>6. SVOf(s) = sv => sv.spec \in asked[s]
  BY <1>2, NoneAssumption DEF VolumeAsked, Exists
<1>7. Exists(SVOf(s)') =>
          Exists(SVOf(s)) /\ SVOf(s)'.uid = SVOf(s).uid /\ SVOf(s)'.spec \in asked[s]
  BY <1>1, <1>3, <1>4, <1>5, <1>6, SentAsked
<1>8. AskedSources(s)' = AskedSources(s)
  BY <1>1 DEF AskedSources
<1>. QED BY <1>1, <1>7, <1>8 DEF VolumeAsked, EntryAsked, CopyAsked, Exists

LEMMA DeletePVAsked ==
    ASSUME IInv, NEW s \in SharedVolumes, req = s, DeletePV,
           VolumeAsked(s), EntryAsked(s), CopyAsked(s)
    PROVE  VolumeAsked(s)' /\ EntryAsked(s)' /\ CopyAsked(s)'
<1>. DEFINE n == pvNameForSharedVolume[s]
            W == AskedSources(s)
<1>1. /\ pc = "deletePV" /\ SVOf(s)' = SVOf(s) /\ asked' = asked /\ AskedSources(s)' = W
      /\ n \in PVNames /\ pvs \in [PVNames -> Versions(PV)] /\ TypeOK
  BY NamesType DEF DeletePV, ghostVars, AskedSources, SVOf, IInv, TypeOK, ClusterTypeOK
<1>2. PICK o \in Delete(pvEnsurable, Cached(pvs[n]), PVOf(s)) :
        /\ pvs' = Write(pvs, n, o.server)
        /\ \/ pc' = "unfinalize" /\ req' = req
           \/ pc' = "idle" /\ pvBySharedVolume' = Forget(pvBySharedVolume)
  BY DEF DeletePV, PVOf, GoTo, Return
<1>3. pc' = "idle" => pvBySharedVolume'[s] = None
  BY <1>1, <1>2 DEF Forget, TypeOK
<1>4. o.server \in {PVOf(s), Terminating(PVOf(s))} /\ o.server \in PV \cup {None}
  <2>1. o.server \in {PVOf(s), Terminating(PVOf(s))}
    BY DEF Delete, Outcome
  <2>2. OutcomeOK(o, pvEnsurable, {"PersistentVolume"}, Nat, VolumeSources, SharedVolumes)
    BY <1>1, DeletePVOutcome DEF PVOf
  <2>. QED BY <2>1, <2>2 DEF OutcomeOK, PV
<1>5. PVOf(s)' = o.server
  BY <1>1, <1>2, <1>4, WriteFacts DEF PVOf
<1>6. PVOf(s) \in Resources(W, SharedVolumes) \cup {None} =>
          PVOf(s)' \in Resources(W, SharedVolumes) \cup {None}
  BY <1>1, <1>4, <1>5, AskedSourcesFacts, TerminatingType
<1>7. VolumeAsked(s)'
  BY <1>1, <1>6 DEF VolumeAsked, Exists
<1>8. EntryAsked(s)' /\ CopyAsked(s)'
  BY <1>2, <1>3 DEF EntryAsked, CopyAsked, DeletePath
<1>. QED BY <1>7, <1>8


LEMMA PVCStepAsked ==
    ASSUME NEW s \in SharedVolumes, req = s, DeletePVC \/ EnsurePVC,
           VolumeAsked(s), EntryAsked(s), CopyAsked(s)
    PROVE  VolumeAsked(s)' /\ EntryAsked(s)' /\ CopyAsked(s)'
<1>1. /\ SVOf(s)' = SVOf(s) /\ PVOf(s)' = PVOf(s) /\ asked' = asked
      /\ pvBySharedVolume' = pvBySharedVolume
  BY DEF DeletePVC, EnsurePVC, ghostVars, SVOf, PVOf
<1>2. \/ pc # "unfinalize" /\ pc' \in DeletePath \cup {"idle"}
      \/ pc \notin DeletePath \cup {"idle"} /\ UNCHANGED <<req, sv>>
  <2>1. CASE DeletePVC
    BY <2>1 DEF DeletePVC, GoTo, Return, DeletePath
  <2>2. CASE EnsurePVC
    BY <2>2 DEF EnsurePVC, GoTo, DeletePath
  <2>. QED BY <2>1, <2>2
<1>. QED BY <1>1, <1>2, AskedFrame DEF VolumeAsked

\* The entry is for the incarnation that is there, so it says what was asked for.
LEMMA EntryIsAsked ==
    ASSUME IInv, NEW s \in SharedVolumes, req = s, pc = "ensurePV",
           EntryAsked(s), CopyAsked(s)
    PROVE  pvEnsurable \in Ensurables({"PersistentVolume"}, Nat, AskedSources(s), SharedVolumes)
<1>1. CASE pvBySharedVolume[s] # None
  BY <1>1 DEF EntryAsked, pvEnsurable
<1>2. CASE pvBySharedVolume[s] = None
  <2>1. pc \in CreatePath /\ pc \notin DeletePath \cup {"idle"} /\ sv \in SharedVolume
    BY BusyFacts DEF CreatePath, DeletePath
  <2>2. pvEnsurable = NewEnsurable("PersistentVolume", sv.uid, Written(sv.spec), s)
    BY <1>2 DEF pvEnsurable
  <2>3. Exists(SVOf(s)) /\ SVOf(s).uid = sv.uid
    <3>1. EntryOK(pvEnsurable, svs[s])
      BY <2>1, EntryMade
    <3>2. pvEnsurable.uid = sv.uid
      BY <2>2 DEF NewEnsurable
    <3>. QED BY <3>1, <3>2 DEF EntryOK, SVOf, Exists
  <2>4. Written(sv.spec) \in AskedSources(s) /\ sv.uid \in Nat
    BY <2>1, <2>3 DEF CopyAsked, AskedSources, SharedVolume
  <2>. DEFINE source == Written(sv.spec)
  <2>. HIDE DEF source
  <2>. QED BY <2>2, <2>4 DEF source, NewEnsurable, Ensurables, Resources, NoVersion
<1>. QED BY <1>1, <1>2

LEMMA EnsurePVAsked ==
    ASSUME IInv, Careful, NEW s \in SharedVolumes, req = s, EnsurePV,
           VolumeAsked(s), EntryAsked(s), CopyAsked(s)
    PROVE  VolumeAsked(s)' /\ EntryAsked(s)' /\ CopyAsked(s)'
<1>. DEFINE n == pvNameForSharedVolume[s]
            W == AskedSources(s)
<1>1. /\ pc = "ensurePV" /\ Informed /\ SVOf(s)' = SVOf(s) /\ asked' = asked
      /\ n \in PVNames /\ pvs \in [PVNames -> Versions(PV)] /\ TypeOK
  BY NamesType DEF EnsurePV, ghostVars, SVOf, IInv, TypeOK, ClusterTypeOK
<1>2. AskedSources(s)' = W
  BY <1>1 DEF AskedSources
<1>3. PICK o \in Ensure(pvEnsurable, Cached(pvs[n]), PVOf(s)) :
        /\ pvs' = Write(pvs, n, o.server)
        /\ pvBySharedVolume' = [pvBySharedVolume EXCEPT ![req] = o.e]
        /\ UNCHANGED <<req, sv>>
  BY DEF EnsurePV, PVOf, GoTo
<1>4. Cached(pvs[n]) = PVOf(s)
  BY <1>1, ReadsNow DEF Careful
<1>5. pvEnsurable \in Ensurables({"PersistentVolume"}, Nat, W, SharedVolumes)
  BY <1>1, EntryIsAsked
<1>6. pc # "idle" /\ pc \in CreatePath /\ pc \notin DeletePath \cup {"idle"}
  BY <1>1 DEF CreatePath, DeletePath
<1>7. Exists(SVOf(s))
  BY <1>6, MakerIsGuarded DEF Guarded
<1>8. PVOf(s) \in Resources(W, SharedVolumes) \cup {None}
  BY <1>7 DEF VolumeAsked
<1>9. None \notin Resources(W, SharedVolumes) /\ W \subseteq VolumeSources
  BY <1>1, AskedSourcesFacts
<1>10. OutcomeOK(o, pvEnsurable, {"PersistentVolume"}, Nat, W, SharedVolumes)
  <2>. HIDE DEF W
  <2>1. o \in Ensure(pvEnsurable, PVOf(s), PVOf(s))
    BY <1>3, <1>4
  <2>2. CompletesTo({"PersistentVolume"}, W)
    BY DEF CompletesTo
  <2>. QED BY <1>5, <1>8, <1>9, <2>1, <2>2, EnsureType
<1>11. o.server \in Resources(W, SharedVolumes) \cup {None} /\ o.server \in PV \cup {None}
  <2>. HIDE DEF W
  <2>. QED BY <1>9, <1>10 DEF OutcomeOK, Resources, PV
<1>12. PVOf(s)' = o.server
  BY <1>1, <1>3, <1>11, WriteFacts DEF PVOf
<1>13. VolumeAsked(s)'
  BY <1>1, <1>2, <1>11, <1>12 DEF VolumeAsked, Exists
<1>14. EntryAsked(s)'
  <2>1. pvBySharedVolume'[s] = o.e
    BY <1>1, <1>3 DEF TypeOK
  <2>. QED BY <1>2, <1>10, <2>1 DEF EntryAsked, OutcomeOK
<1>15. CopyAsked(s)'
  BY <1>1, <1>3, <1>6 DEF CopyAsked, Exists
<1>. QED BY <1>13, <1>14, <1>15

\* What the worker does for one SharedVolume leaves the others alone.
LEMMA WorkerAskedApart ==
    ASSUME IInv, Careful, Continue, NEW s \in SharedVolumes, req # s,
           VolumeAsked(s), EntryAsked(s), CopyAsked(s)
    PROVE  VolumeAsked(s)' /\ EntryAsked(s)' /\ CopyAsked(s)'
<1>. DEFINE n == pvNameForSharedVolume[req]
<1>1. pc # "idle" /\ TypeOK
  BY DEF Continue, MarkDeleting, DeletePVC, DeletePV, Unfinalize, Unedit, Finalize, MarkPending,
         EnsurePV, EnsurePVC, MarkFailed, MarkReady, IInv
<1>2. /\ req \in SharedVolumes /\ pvNameForSharedVolume[s] # n
      /\ s # None /\ n \in PVNames /\ pvNameForSharedVolume[s] \in PVNames
  BY <1>1, BusyFacts, NamesType, NoneAssumption DEF Careful, OwnVolumes
<1>3. svs'[s] = svs[s]
  <2>1. \A new, ok : Send(new, ok) => svs'[s] = svs[s]
    BY <1>1, <1>2 DEF Send, Write, TypeOK, ClusterTypeOK
  <2>. QED BY <2>1 DEF Continue, MarkDeleting, DeletePVC, DeletePV, Unfinalize, Unedit, Finalize,
              MarkPending, EnsurePV, EnsurePVC, MarkFailed, MarkReady
<1>4. pvs'[pvNameForSharedVolume[s]] = pvs[pvNameForSharedVolume[s]]
  <2>1. CASE UNCHANGED pvs
    BY <2>1
  <2>2. ASSUME NEW obj, pvs' = Write(pvs, n, obj)
        PROVE  pvs'[pvNameForSharedVolume[s]] = pvs[pvNameForSharedVolume[s]]
    BY <1>1, <1>2, <2>2 DEF Write, TypeOK, ClusterTypeOK
  <2>. QED BY <2>1, <2>2 DEF Continue, MarkDeleting, DeletePVC, DeletePV, Unfinalize, Unedit,
           Finalize, MarkPending, EnsurePV, EnsurePVC, MarkFailed, MarkReady
<1>5. pvBySharedVolume'[s] = pvBySharedVolume[s]
  <2>1. CASE UNCHANGED pvBySharedVolume
    BY <2>1
  <2>2. ASSUME NEW e, pvBySharedVolume' = [pvBySharedVolume EXCEPT ![req] = e]
        PROVE  pvBySharedVolume'[s] = pvBySharedVolume[s]
    BY <1>1, <1>2, <2>2 DEF TypeOK
  <2>. QED BY <2>1, <2>2 DEF Continue, MarkDeleting, DeletePVC, DeletePV, Unfinalize, Unedit,
           Finalize, MarkPending, EnsurePV, EnsurePVC, MarkFailed, MarkReady, mapVars, Forget
<1>6. asked' = asked
  BY DEF Continue, MarkDeleting, DeletePVC, DeletePV, Unfinalize, Unedit, Finalize,
     MarkPending, EnsurePV, EnsurePVC, MarkFailed, MarkReady, ghostVars
<1>7. req' # s
  BY <1>2 DEF Continue, MarkDeleting, HandleDelete, DeletePVC, DeletePV, Unfinalize, Unedit,
     Finalize, MarkPending, EnsurePV, EnsurePVC, MarkFailed, MarkReady, GoTo, Return
<1>8. SVOf(s)' = SVOf(s) /\ PVOf(s)' = PVOf(s)
  BY <1>3, <1>4 DEF SVOf, PVOf
<1>. QED BY <1>5, <1>6, <1>7, <1>8, AskedFrame DEF VolumeAsked

LEMMA CrashAsked ==
    ASSUME IInv, Crash, NEW s \in SharedVolumes, VolumeAsked(s)
    PROVE  VolumeAsked(s)' /\ EntryAsked(s)' /\ CopyAsked(s)'
<1>1. /\ svs \in [SharedVolumes -> Versions(SharedVolume)] /\ svs[s] \in Versions(SharedVolume)
      /\ pvs \in [PVNames -> Versions(PV)] /\ pvNameForSharedVolume[s] \in PVNames
      /\ pvs[pvNameForSharedVolume[s]] \in Versions(PV)
  BY NamesType DEF IInv, TypeOK, ClusterTypeOK
<1>2. SVOf(s)' = SVOf(s)
  BY <1>1, RelistFacts DEF Crash, Relisted, SVOf
<1>3. PVOf(s)' = PVOf(s)
  BY <1>1, RelistFacts DEF Crash, Relisted, PVOf
<1>4. AskedSources(s)' = AskedSources(s) /\ asked' = asked
  BY DEF Crash, ghostVars, AskedSources
<1>5. pc' = "idle" /\ pvBySharedVolume'[s] = None
  BY DEF Crash, NoEnsurables
<1>. QED BY <1>2, <1>3, <1>4, <1>5 DEF VolumeAsked, EntryAsked, CopyAsked, Exists

LEMMA AskedInit == Init => AskedInv
<1>. SUFFICES ASSUME Init, NEW s \in SharedVolumes
              PROVE  VolumeAsked(s) /\ EntryAsked(s) /\ CopyAsked(s)
  BY DEF AskedInv
<1>1. SVOf(s) = None
  BY DEF Init, ClusterInit, SVOf, Stored
<1>. QED BY <1>1 DEF Init, NoEnsurables, VolumeAsked, EntryAsked, CopyAsked, Exists

LEMMA AskedNext ==
    ASSUME Careful
    PROVE  IInv /\ AskedInv /\ [Next]_vars => AskedInv'
<1>. SUFFICES ASSUME IInv, AskedInv, [Next]_vars, NEW s \in SharedVolumes
              PROVE  VolumeAsked(s)' /\ EntryAsked(s)' /\ CopyAsked(s)'
  BY DEF AskedInv
<1>1. VolumeAsked(s) /\ EntryAsked(s) /\ CopyAsked(s)
  BY DEF AskedInv
<1>2. CASE (Environment \/ Informers) /\ UNCHANGED <<workerVars, mapVars>>
  BY <1>2, OthersAsked
<1>3. CASE \E t \in SharedVolumes : Begin(t)
  BY <1>3, BeginAsked
<1>4. CASE Continue
  <2>1. CASE req # s
    BY <1>1, <1>4, <2>1, WorkerAskedApart
  <2>2. CASE req = s
    BY <1>1, <1>4, <2>2, SVStepAsked, DeletePVAsked, UnfinalizeAsked, EnsurePVAsked, PVCStepAsked
       DEF Continue, SVStep
  <2>. QED BY <2>1, <2>2
<1>5. CASE Crash
  BY <1>1, <1>5, CrashAsked
<1>6. CASE UNCHANGED vars
  <2>1. /\ SVOf(s)' = SVOf(s) /\ PVOf(s)' = PVOf(s) /\ asked' = asked
        /\ pvBySharedVolume' = pvBySharedVolume /\ UNCHANGED workerVars
    BY <1>6 DEF vars, clusterVars, objectVars, ghostVars, mapVars, SVOf, PVOf
  <2>. QED BY <1>1, <2>1, AskedFrame DEF VolumeAsked
<1>. QED BY <1>2, <1>3, <1>4, <1>5, <1>6 DEF Next

LEMMA AskedAlways == ASSUME Careful PROVE Spec => [](IInv /\ AskedInv)
<1>1. Init => IInv /\ AskedInv
  BY IInvInit, AskedInit
<1>2. IInv /\ AskedInv /\ [Next]_vars => IInv' /\ AskedInv'
  BY IInvNext, AskedNext
<1>. QED BY <1>1, <1>2, PTL DEF Spec

\* With caches that keep up, users who wait before they use a name again, a PV of its
\* own for each SharedVolume and no PV made unreadable: what a SharedVolume says was
\* given to it in this incarnation, through un-edits of either style of PV, stale
\* Ensurables, lost replies, conflicts and restarts.
THEOREM NothingIsInherited ==
    ASSUME Careful
    PROVE  Spec => []SpecWasAsked
<1>1. AskedInv => SpecWasAsked
  BY DEF AskedInv, VolumeAsked, SpecWasAsked
<1>. QED BY <1>1, AskedAlways, PTL

\* Under the same conditions the PV of a SharedVolume leads, at any moment, to ids that
\* were given to it in this incarnation.
THEOREM VolumesWereAsked ==
    ASSUME Careful
    PROVE  Spec => []VolumeWasAsked
<1>1. AskedInv => VolumeWasAsked
  <2>. SUFFICES ASSUME AskedInv, NEW s \in SharedVolumes, Exists(SVOf(s)), Exists(PVOf(s))
                PROVE  \E spec \in asked[s] : Backs(PVOf(s).spec, spec)
    BY DEF VolumeWasAsked
  <2>1. PVOf(s).spec \in AskedSources(s)
    BY DEF AskedInv, VolumeAsked, Exists, Resources
  <2>. QED BY <2>1 DEF AskedSources, Backs
<1>. QED BY <1>1, AskedAlways, PTL
=============================================================================
