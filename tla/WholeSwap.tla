----------------------------- MODULE WholeSwap -----------------------------
(***************************************************************************)
(* What the publication transaction promises whoever looks at the name     *)
(* WidevineCdm: of silvervine's steps it sees only the exchange of one     *)
(* whole component for another.  A publisher prepares a component out of   *)
(* sight; it may put a finished one into the slot and holds what was there; *)
(* it may put that back, once, and gives up what it holds.                 *)
(***************************************************************************)
CONSTANTS
    Publisher,      \* processes that publish
    External,       \* everybody else
    Component,      \* what the slot may hold
    Finished,       \* the components a publisher may show
    Empty           \* nothing

VARIABLES
    slot,           \* what the name shows
    hand,           \* what each publisher holds
    displaced,      \* whether that is what its publication displaced
    by              \* who has determined what the slot shows

vars == <<slot, hand, displaced, by>>

Init ==
    /\ slot \in Component \cup {Empty}
    /\ hand = [p \in Publisher |-> Empty]
    /\ displaced = [p \in Publisher |-> FALSE]
    /\ by = External

\* Work on a component in hand, or giving up whatever is in hand.
Prepare(p) ==
    /\ ~displaced[p]
    /\ \E c \in Component \cup {Empty} : hand' = [hand EXCEPT ![p] = c]
    /\ UNCHANGED <<slot, displaced, by>>

GiveUp(p) ==
    /\ hand' = [hand EXCEPT ![p] = Empty]
    /\ displaced' = [displaced EXCEPT ![p] = FALSE]
    /\ by' \in {by} \cup (IF by = p THEN {External} ELSE {})
    /\ UNCHANGED slot

\* The two ways a publisher changes what the slot shows.
Exchange(p) ==
    /\ slot' = hand[p]
    /\ hand' = [hand EXCEPT ![p] = slot]
    /\ displaced' = [displaced EXCEPT ![p] = ~@]
    /\ by' = p

Publish(p) == ~displaced[p] /\ hand[p] \in Finished /\ Exchange(p)

TakeBack(p) == displaced[p] /\ Exchange(p)

ExternalChange ==
    /\ slot' \in Component \cup {Empty}
    /\ by' = External
    /\ UNCHANGED <<hand, displaced>>

Next ==
    \/ \E p \in Publisher : Prepare(p) \/ GiveUp(p) \/ Publish(p) \/ TakeBack(p)
    \/ ExternalChange

Spec == Init /\ [][Next]_vars
=============================================================================
