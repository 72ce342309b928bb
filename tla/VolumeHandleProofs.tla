-------------------------- MODULE VolumeHandleProofs --------------------------
(***************************************************************************)
(* Reading the ids back from a PV gives what was written into it, in       *)
(* either style and for all ids the CRD admits.                            *)
(***************************************************************************)
EXTENDS VolumeHandle, TLAPS

LEMMA WrittenAccessPoint ==
    ASSUME NEW fs, NEW ap
    PROVE  /\ AccessPoint(Written(Ids(fs, ap))) = ap
           /\ Written(Ids(fs, ap)).VolumeHandle[1] = fs
<1>. DEFINE handle == <<fs, "", ap>>
<1>1. /\ Written(Ids(fs, ap)).VolumeHandle = handle
  BY DEF Written, Ids, Source
<1>2. Len(handle) = 3 /\ handle[1] = fs /\ handle[3] = ap
  OBVIOUS
<1>. HIDE DEF handle
<1>3. AccessPoint(Written(Ids(fs, ap))) = handle[3]
  BY <1>1, <1>2 DEF AccessPoint
<1>. QED BY <1>1, <1>2, <1>3

LEMMA OldStyleAccessPoint ==
    ASSUME NEW fs, NEW ap
    PROVE  /\ AccessPoint(OldStyle(Ids(fs, ap))) = ap
           /\ OldStyle(Ids(fs, ap)).VolumeHandle[1] = fs
<1>. DEFINE handle == <<fs>>
<1>1. OldStyle(Ids(fs, ap)).VolumeHandle = handle /\ OldStyle(Ids(fs, ap)).accesspoint = ap
  BY DEF OldStyle, Ids, Source
<1>2. Len(handle) = 1 /\ handle[1] = fs
  OBVIOUS
<1>. HIDE DEF handle
<1>3. AccessPoint(OldStyle(Ids(fs, ap))) = ap
  BY <1>1, <1>2 DEF AccessPoint
<1>. QED BY <1>1, <1>2, <1>3

\* uneditSharedVolume reads from a PV the ids that pvDefinition, of this operator
\* or of one before pull request 17, wrote into it: an operator that is upgraded
\* reverts no SharedVolume.
THEOREM RoundTrip ==
    ASSUME NEW fs, NEW ap, ap # ""
    PROVE  \A source \in {Written(Ids(fs, ap)), OldStyle(Ids(fs, ap))} :
                Readable(source) /\ Parsed(source) = Ids(fs, ap)
<1>1. Readable(Written(Ids(fs, ap))) /\ Parsed(Written(Ids(fs, ap))) = Ids(fs, ap)
  <2>1. AccessPoint(Written(Ids(fs, ap))) = ap /\ Written(Ids(fs, ap)).VolumeHandle[1] = fs
    BY WrittenAccessPoint
  <2>. QED BY <2>1 DEF Readable, Parsed
<1>2. Readable(OldStyle(Ids(fs, ap))) /\ Parsed(OldStyle(Ids(fs, ap))) = Ids(fs, ap)
  <2>1. AccessPoint(OldStyle(Ids(fs, ap))) = ap /\ OldStyle(Ids(fs, ap)).VolumeHandle[1] = fs
    BY OldStyleAccessPoint
  <2>. QED BY <2>1 DEF Readable, Parsed
<1>. QED BY <1>1, <1>2
=============================================================================
