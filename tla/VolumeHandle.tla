----------------------------- MODULE VolumeHandle -----------------------------
(***************************************************************************)
(* How the two ids of a SharedVolume are written into its PV and read      *)
(* back, and how the PV is named.                                          *)
(*                                                                         *)
(* A volume handle is the sequence of the parts between its colons (<<>>   *)
(* is the empty handle); of the mount options only the value of            *)
(* accesspoint= matters.  An id is one part and not empty: the schema of   *)
(* the CRD wants fs-... and fsap-... in hexadecimal.  A Kubernetes name    *)
(* is the sequence of the parts between its hyphens.                       *)
(***************************************************************************)
EXTENDS Naturals, Sequences

Ids(FileSystemID, AccessPointID) ==
    [FileSystemID |-> FileSystemID, AccessPointID |-> AccessPointID]

Source(VolumeHandle, accesspoint) ==
    [VolumeHandle |-> VolumeHandle, accesspoint |-> accesspoint]

\* Mutant: a single colon.
Written_OneColon(spec) == Source(<<spec.FileSystemID, spec.AccessPointID>>, "")

\* "%s::%s".
Written(spec) == Source(<<spec.FileSystemID, "", spec.AccessPointID>>, "")

\* What operators before pull request 17 wrote.
OldStyle(spec) == Source(<<spec.FileSystemID>>, spec.AccessPointID)

\* Mutant: the last part of the handle, whatever the style.
AccessPoint_LastPart(source) ==
    LET handle == source.VolumeHandle
    IN  IF handle = <<>> THEN "" ELSE handle[Len(handle)]

\* From the mount options if there is no colon; otherwise all that follows the
\* second one.
AccessPoint(source) ==
    LET handle == source.VolumeHandle
    IN  CASE Len(handle) = 1 -> source.accesspoint
          [] Len(handle) \in {0, 2} -> ""
          [] Len(handle) = 3 -> handle[3]
          [] Len(handle) > 3 -> SubSeq(handle, 3, Len(handle))

\* uneditSharedVolume does not panic.
Readable(source) == AccessPoint(source) # ""

Parsed(source) == Ids(source.VolumeHandle[1], AccessPoint(source))

\* "pv-%s-%s" and "pvc-%s".
PVName(namespace, name) == <<"pv">> \o namespace \o name
PVCName(name) == <<"pvc">> \o name
=============================================================================
