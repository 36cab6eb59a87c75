------------------------------ MODULE TwoSlots ------------------------------
(***************************************************************************)
(* What the selection of a cached CDM promises (widevine/cache/mod.rs): a  *)
(* selected version and the one it displaced, changed together or not at   *)
(* all, by an advance to another version or by an exchange of the two.     *)
(***************************************************************************)
CONSTANTS Version, None

VARIABLES current, previous

slots == <<current, previous>>

Init == current = None /\ previous = None

\* A version is selected; what was selected is the one to go back to.
Advance(v) == v # current /\ current' = v /\ previous' = current

\* The two change places.
Exchange == previous # None /\ current' = previous /\ previous' = current

Next == Exchange \/ \E v \in Version : Advance(v)

Spec == Init /\ [][Next]_slots
=============================================================================
