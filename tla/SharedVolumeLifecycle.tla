------------------------- MODULE SharedVolumeLifecycle -------------------------
(***************************************************************************)
(* What the operator promises about a SharedVolume and its resources, with *)
(* nothing of how: no caches, no Reconcile, no maps, no status.            *)
(*                                                                         *)
(* life of a SharedVolume:                                                 *)
(*   absent    there is none of that name,                                 *)
(*   fresh     the operator has not put its finalizer on it,               *)
(*   guarded   it has, and nobody asked for its deletion,                  *)
(*   leaving   somebody did, and the operator holds it back,               *)
(*   released  the operator has let go, somebody else has not.             *)
(* A PV or a PVC is none, live, or going (its deletion was asked for).     *)
(***************************************************************************)
CONSTANTS
    Names, VolumeNames, volumeOf,   \* SharedVolumes, PVs, the PV of each SharedVolume
    Patient,    \* users reuse a name only when nothing is left of its last life
    Informed,   \* the operator knows what it created
    Alone       \* nobody else deletes PVs and PVCs

VARIABLES life, volume, claim
vars == <<life, volume, claim>>

Lives == {"absent", "fresh", "guarded", "leaving", "released"}
Presences == {"none", "live", "going"}
Held == {"guarded", "leaving"}      \* by the operator's finalizer

TypeOK ==
    /\ life \in [Names -> Lives]
    /\ volume \in [VolumeNames -> Presences]
    /\ claim \in [Names -> Presences]

Init ==
    /\ life = [s \in Names |-> "absent"]
    /\ volume = [n \in VolumeNames |-> "none"]
    /\ claim = [s \in Names |-> "none"]

Live(s, from, to) ==
    /\ life[s] \in from
    /\ \E next \in to : life' = [life EXCEPT ![s] = next]
    /\ UNCHANGED <<volume, claim>>

Appear(s) ==
    /\ Patient => claim[s] = "none" /\ volume[volumeOf[s]] = "none"
    /\ Live(s, {"absent"}, {"fresh"})

Guard(s) == Live(s, {"fresh"}, {"guarded"})

\* A deletion is asked for, or completed by somebody else letting go.
Leave(s) ==
    \/ Live(s, {"fresh"}, {"absent", "released"})
    \/ Live(s, {"guarded"}, {"leaving"})
    \/ Live(s, {"released"}, {"absent"})

\* The operator lets go, and leaves nothing behind that nobody asked to delete.
Release(s) ==
    /\ Informed => claim[s] # "live" /\ volume[volumeOf[s]] # "live"
    /\ Live(s, {"leaving"}, {"absent", "released"})

\* A resource is made only for a SharedVolume that is held back until it is gone.
MakeVolume(n) ==
    /\ volume[n] = "none"
    /\ \E s \in Names : volumeOf[s] = n /\ life[s] \in Held
    /\ volume' = [volume EXCEPT ![n] = "live"]
    /\ UNCHANGED <<life, claim>>

MakeClaim(s) ==
    /\ claim[s] = "none"
    /\ life[s] \in Held
    /\ claim' = [claim EXCEPT ![s] = "live"]
    /\ UNCHANGED <<life, volume>>

\* The operator deletes for a SharedVolume that is leaving, its claim first.
DropClaim(s) ==
    /\ claim[s] = "live"
    /\ Informed /\ Alone => life[s] = "leaving"
    /\ claim' = [claim EXCEPT ![s] = "going"]
    /\ UNCHANGED <<life, volume>>

DropVolume(n) ==
    /\ volume[n] = "live"
    /\ Informed /\ Alone =>
        \E s \in Names : volumeOf[s] = n /\ life[s] = "leaving" /\ claim[s] # "live"
    /\ volume' = [volume EXCEPT ![n] = "going"]
    /\ UNCHANGED <<life, claim>>

VolumeGone(n) ==
    /\ volume[n] = "going"
    /\ volume' = [volume EXCEPT ![n] = "none"]
    /\ UNCHANGED <<life, claim>>

ClaimGone(s) ==
    /\ claim[s] = "going"
    /\ claim' = [claim EXCEPT ![s] = "none"]
    /\ UNCHANGED <<life, volume>>

Next ==
    \/ \E s \in Names :
        \/ Appear(s) \/ Guard(s) \/ Leave(s) \/ Release(s)
        \/ MakeClaim(s) \/ DropClaim(s) \/ ClaimGone(s)
    \/ \E n \in VolumeNames : MakeVolume(n) \/ DropVolume(n) \/ VolumeGone(n)

Spec == Init /\ [][Next]_vars

-----------------------------------------------------------------------------
\* What is there and not on its way out belongs to a SharedVolume that the operator
\* still holds back, if the operator is informed.
NothingStray ==
    /\ \A n \in VolumeNames : volume[n] = "live" =>
            \E s \in Names : volumeOf[s] = n /\ life[s] \in Held
    /\ \A s \in Names : claim[s] = "live" => life[s] \in Held

\* What belongs to a SharedVolume that nobody deleted is not on its way out, if users
\* are patient and nobody else deletes.
NothingWithdrawn ==
    \A s \in Names : life[s] \in {"fresh", "guarded"} =>
        claim[s] # "going" /\ volume[volumeOf[s]] # "going"
=============================================================================
