----------------------- MODULE PublicationRefinement -----------------------
(***************************************************************************)
(* The publication transaction implements WholeSwap: the slot is the       *)
(* directory the name WidevineCdm resolves to, a publisher's hand its      *)
(* staged directory.                                                       *)
(***************************************************************************)
EXTENDS Publication

\* What a directory entry shows.
Shows(d) == IF d = Absent THEN Absent ELSE dir[d]

\* From the exchange until it is undone p holds what the exchange displaced.
HoldsDisplaced ==
    {"displaced", "verify", "close", "rbcheck", "rbrename", "rbmove"}

Slot == INSTANCE WholeSwap WITH
    Publisher <- Patcher,
    Component <- Contents,
    Finished <- {c \in Contents : Sealed(c)},
    Empty <- Absent,
    slot <- Shows(live),
    hand <- [p \in Patcher |-> Shows(staged[p])],
    displaced <- [p \in Patcher |-> pc[p] \in HoldsDisplaced],
    by <- toucher

\* Every step of the transaction, its rollback, a kill or somebody else's change
\* is a step of WholeSwap or invisible to it, under the lock or without it
\* (linux.rs:262-334).
SwapsWhole == Slot!Spec
=============================================================================
