--------------------------- MODULE MCPublication ---------------------------
(* One run looks at the transaction in three scopes: one patcher among        *)
(* external changes, two patchers and the lock, and elevated children that    *)
(* outlive their parents.                                                     *)
EXTENDS PublicationRefinement, TLC

CONSTANTS p1, p2, i1, i2, i3, i4, v1, v2

VARIABLE scope

Patchers == {p1, p2}
Inodes == {i1, i2, i3, i4}
Payloads == {v1, v2}
Symmetric == Permutations(Patchers) \cup Permutations(Inodes)

Busy == {p \in Patcher : pc[p] # "idle"}
Bytes == {cand[p] : p \in Busy} \cup UNION {{dir[i].bytes, dir[i].marker} : i \in InUse \ {Absent}}
Small == Cardinality(InUse \ {Absent}) <= 3 /\ Bytes \cap Payload \subseteq {v1}

\* The bounds of each scope.
Within ==
    /\ scope \in Patcher => /\ Busy \subseteq {scope}
                            /\ asRoot[scope] => moves <= 1
    /\ scope = "lock" => Small /\ moves <= 1
    /\ scope = "orphans" => /\ Small
                            /\ moves = 0
                            /\ Cardinality({p \in Patcher : asRoot[p]}) <= 1
    /\ scope # "orphans" => \A p \in Patcher : ~orphan[p]

MCInit == Init /\ scope \in Patcher \cup {"lock", "orphans"} /\ Within
MCNext == Next /\ UNCHANGED scope /\ Within'
MCSpec == MCInit /\ [][MCNext]_<<vars, scope>>

\* What no guard and no property will read again is the same for TLC: the
\* contents of directories that are neither live nor in a patcher's hands, and
\* what an idle patcher installed last.
InHand == ({live} \cup {staged[p] : p \in Patcher}) \ {Absent}
View == <<scope, lock, pc, asRoot, orphan, auth, pub, staged, live, kept, moves, found, toucher,
          [p \in Patcher |-> IF pc[p] = "idle" THEN <<>> ELSE <<cand[p], replace[p]>>],
          [i \in InHand |-> <<dir[i], maker[i], i \in edited>>],
          [p \in Patcher |-> vetted[p] \cap InUse]>>

\* While no parent of an elevated child dies, what a patcher removes is a
\* directory it built itself or one it classified, in that very incarnation, as
\* its to replace: not one that came in by a race, and not one that got the inode
\* number of a removed one (TargetAuthorization, mod.rs:264-298;
\* close_authorized_staging).
RemovesOnlyVetted == [][scope = "orphans" \/ OnlyVetted]_<<vars, scope>>
=============================================================================
