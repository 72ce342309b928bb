--------------------------- MODULE MCSharedVolume ---------------------------
(* Model values for checking the SharedVolume controller with TLC. *)
EXTENDS SharedVolumeRefinement, SharedVolumeRest, TLC

CONSTANTS s1, s2, fs1, fs2, ap1, ap2, a, b, c

\* default/a, and two whose PVs have the same name: a/b-c and a-b/c.
OneNamespace == s1 :> <<a>>
OneName == s1 :> <<a>>
TwoNamespaces == s1 :> <<a>> @@ s2 :> <<a, b>>
TwoNames == s1 :> <<b, c>> @@ s2 :> <<c>>

OneSpec == {Ids(fs1, ap1)}
TwoAccessPoints == {Ids(fs1, ap1), Ids(fs1, ap2)}
TwoFileSystems == {Ids(fs1, ap1), Ids(fs2, ap2)}

\* No handle, a file system without access point, and a single colon.
Unreadable == {Source(<<>>, ""), Source(<<fs1>>, ""), Source(<<fs1, ap1>>, "")}

\* With TwoAccessPoints, nothing tells one from the other.
Interchangeable == Permutations({ap1, ap2})
=============================================================================
