------------------------- MODULE PublicationProofs -------------------------
(***************************************************************************)
(* Theorems of the publication transaction, for any number of patchers,    *)
(* directories and payloads and without a bound that matters.              *)
(***************************************************************************)
EXTENDS MCPublication, TLAPS

(***************************************************************************)
(* The inductive invariant.                                                *)
(***************************************************************************)

\* What is known of p's hand where the code relies on it.
Hand ==
    \A p \in Patcher :
        /\ pc[p] \in Staging => staged[p] \in Inode
        /\ pc[p] \in {"exchange", "noreplace"} \cup Published => pub[p] \in Inode
        /\ pc[p] = "rbclose" => staged[p] = pub[p]

\* From the exchange until it is undone p holds what it found.
HoldsFound ==
    \A p \in Patcher :
        pc[p] \in {"displaced", "verify", "close", "rbcheck", "rbrename", "rbmove"}
            => staged[p] = found[p]

\* No directory has two names.
Apart ==
    \A p \in Patcher : staged[p] # Absent =>
        /\ staged[p] # live
        /\ \A q \in Patcher \ {p} : staged[q] # staged[p]

\* Built by silvervine, left alone by the others, and yet unfinished.
Unfinished(i) == maker[i] \in Patcher /\ i \notin edited /\ ~Sealed(dir[i])

\* Only before it is sealed can a directory in somebody's hand be unfinished:
\* from then on it may be exchanged into place.
HandSealed ==
    \A p \in Patcher :
        pc[p] \in {"validate", "exchange",
        "noreplace"} \cup Published /\ staged[p] # Absent
            => ~Unfinished(staged[p])

TInv == TypeOK /\ Hand /\ HoldsFound

SInv == Apart /\ HandSealed /\ LiveSealed

(***************************************************************************)
(* Types, and what each patcher holds.                                     *)
(***************************************************************************)

\* Nobody is at work initially.
LEMMA TInvInit == Init => TInv
    BY ConstantsAssumption DEF Init, TInv, TypeOK, Hand, HoldsFound, Entry, Contents,
       Steps,
       Staging, Published

\* An exchange of the live directory and the staged one keeps the types of both.
LEMMA SwapType ==
    ASSUME NEW p \in Patcher, TypeOK, Swap(p)
    PROVE  /\ live' \in Entry /\ staged' \in [Patcher -> Entry]
           /\ toucher' \in Patcher \cup {External}
BY DEF TypeOK, Swap

LEMMA GotoType ==
    ASSUME NEW p \in Patcher, NEW s \in Steps, TypeOK, Goto(p, s)
    PROVE  pc' \in [Patcher -> Steps]
BY DEF TypeOK, Goto

LEMMA PublishType ==
    ASSUME NEW p \in Patcher, TypeOK, Publish(p)
    PROVE  /\ live' \in Entry /\ staged' \in [Patcher -> Entry]
           /\ toucher' \in Patcher \cup {External}
           /\ found' \in [Patcher -> Entry] /\ pc' \in [Patcher -> Steps]
<1>1. pc' \in [Patcher -> Steps]
    BY GotoType DEF Publish, Steps
<1>2. found' \in [Patcher -> Entry]
    BY DEF Publish, TypeOK
<1> QED BY <1>1, <1>2, SwapType DEF Publish

LEMMA FailType ==
    ASSUME NEW p \in Patcher, TypeOK, FailUnpublished(p)
    PROVE  pc' \in [Patcher -> Steps] /\ staged' \in [Patcher -> Entry]
<1>1. pc' \in [Patcher -> Steps]
    BY GotoType DEF FailUnpublished, Steps
<1> QED BY <1>1 DEF FailUnpublished, TypeOK, Entry

LEMMA KeepAndFailType ==
    ASSUME NEW p \in Patcher, TypeOK, KeepAndFail(p)
    PROVE  /\ pc' \in [Patcher -> Steps] /\ staged' \in [Patcher -> Entry]
           /\ kept' \subseteq Inode
<1>1. pc' \in [Patcher -> Steps]
    BY GotoType DEF KeepAndFail, Steps
<1> QED BY <1>1 DEF KeepAndFail, TypeOK, Entry

\* One step per action.
LEMMA TypeStep == TypeOK /\ Hand /\ [Next]_vars => TypeOK'
<1> SUFFICES ASSUME TypeOK, Hand, [Next]_vars PROVE TypeOK'
    OBVIOUS
<1> USE ConstantsAssumption DEF TypeOK, Hand, Entry, Contents, Steps, Goto, local,
files, history,
        Authorizing, Staging, Published, Working, Ended
<1>1. ASSUME NEW p \in Patcher, Resolve(p) PROVE TypeOK'
    BY <1>1 DEF Resolve
<1>2. ASSUME NEW p \in Patcher, Acquire(p) PROVE TypeOK'
    BY <1>2 DEF Acquire
<1>3. ASSUME NEW p \in Patcher, Capture(p) PROVE TypeOK'
    BY <1>3 DEF Capture
<1>4. ASSUME NEW p \in Patcher, Classify(p) PROVE TypeOK'
    <2>1. CASE Replaceable(p, live)
        <3>1. vetted' \in [Patcher -> SUBSET Inode]
            BY <1>4, <2>1 DEF Classify
        <3>2. pc' \in [Patcher -> Steps]
            BY <1>4, <2>1 DEF Classify
        <3> QED BY <1>4, <3>1, <3>2 DEF Classify
    <2>2. CASE ~Replaceable(p, live)
        BY <1>4, <2>2 DEF Classify
    <2> QED BY <2>1, <2>2
<1>5. ASSUME NEW p \in Patcher, Revalidate(p) PROVE TypeOK'
    BY <1>5 DEF Revalidate
<1>6. ASSUME NEW p \in Patcher, Proceed(p) PROVE TypeOK'
    BY <1>6 DEF Proceed
<1>7. ASSUME NEW p \in Patcher, Escalate(p) PROVE TypeOK'
    BY <1>7 DEF Escalate
<1>8. ASSUME NEW p \in Patcher, AuthorizingFails(p) PROVE TypeOK'
    BY <1>8 DEF AuthorizingFails
<1>9. ASSUME NEW p \in Patcher, Stage(p) PROVE TypeOK'
    BY <1>9 DEF Stage, Create, Fresh, InUse, Present
<1>10. ASSUME NEW p \in Patcher, Copy(p) PROVE TypeOK'
    BY <1>10 DEF Copy
<1>11. ASSUME NEW p \in Patcher, Seal(p) PROVE TypeOK'
    <2>1. CASE dir[staged[p]].bytes = cand[p]
        BY <1>11, <2>1 DEF Seal, FailUnpublished
    <2>2. CASE ~(dir[staged[p]].bytes = cand[p])
        <3>1. FailUnpublished(p)
            BY <1>11, <2>2 DEF Seal
        <3> HIDE DEF Goto
        <3> QED BY <1>11, <2>2, <3>1, FailType DEF Seal
    <2> QED BY <2>1, <2>2
<1>12. ASSUME NEW p \in Patcher, Validate(p) PROVE TypeOK'
    <2>1. CASE live = auth[p]
        BY <1>12, <2>1 DEF Validate
    <2>2. CASE ~(live = auth[p])
        <3>1. FailUnpublished(p)
            BY <1>12, <2>2 DEF Validate
        <3> HIDE DEF Goto
        <3> QED BY <1>12, <2>2, <3>1, FailType DEF Validate
    <2> QED BY <2>1, <2>2
<1>13. ASSUME NEW p \in Patcher, StagingFails(p) PROVE TypeOK'
    <2> HIDE DEF Goto
    <2> QED BY <1>13, FailType DEF StagingFails
<1>14. ASSUME NEW p \in Patcher, Exchange(p) PROVE TypeOK'
    <2>1. CASE live # Absent
        <3>1. Publish(p)
            BY <1>14, <2>1 DEF Exchange
        <3> HIDE DEF Goto
        <3> QED BY <1>14, <3>1, PublishType DEF Exchange
    <2>2. CASE ~(live # Absent)
        BY <1>14, <2>2 DEF Exchange
    <2> QED BY <2>1, <2>2
<1>15. ASSUME NEW p \in Patcher, NoReplace(p) PROVE TypeOK'
    <2>1. CASE live = Absent
        <3>1. Publish(p)
            BY <1>15, <2>1 DEF NoReplace
        <3> HIDE DEF Goto
        <3> QED BY <1>15, <3>1, PublishType DEF NoReplace
    <2>2. CASE ~(live = Absent)
        <3>1. FailUnpublished(p)
            BY <1>15, <2>2 DEF NoReplace
        <3> HIDE DEF Goto
        <3> QED BY <1>15, <2>2, <3>1, FailType DEF NoReplace
    <2> QED BY <2>1, <2>2
<1>16. ASSUME NEW p \in Patcher, Displaced(p) PROVE TypeOK'
    BY <1>16 DEF Displaced
<1>17. ASSUME NEW p \in Patcher, Verify(p) PROVE TypeOK'
    BY <1>17 DEF Verify
<1>18. ASSUME NEW p \in Patcher, Close(p) PROVE TypeOK'
    <2>1. kept \cup ({staged[p]} \ {Absent}) \subseteq Inode
        OBVIOUS
    <2>2. CASE staged[p] = auth[p]
        <3>1. kept' \subseteq Inode
            BY <1>18, <2>1, <2>2 DEF Close
        <3>2. pc' \in [Patcher -> Steps] /\ staged' \in [Patcher -> Entry]
            BY SMTT(20), <1>18, <2>2 DEF Close
        <3> QED BY <1>18, <3>1, <3>2 DEF Close
    <2>3. CASE staged[p] # auth[p]
        <3>1. KeepAndFail(p)
            BY <1>18, <2>3 DEF Close
        <3> HIDE DEF Goto
        <3> QED BY <1>18, <2>3, <3>1, KeepAndFailType DEF Close
    <2> QED BY <2>2, <2>3
<1>19. ASSUME NEW p \in Patcher, Confirm(p) PROVE TypeOK'
    BY <1>19 DEF Confirm
<1>20. ASSUME NEW p \in Patcher, RollbackCheck(p) PROVE TypeOK'
    <2>1. CASE live = pub[p] /\ (staged[p] # Absent => staged[p] = auth[p])
        BY <1>20, <2>1 DEF RollbackCheck, KeepAndFail
    <2>2. CASE ~(live = pub[p] /\ (staged[p] # Absent => staged[p] = auth[p]))
        <3>1. kept \cup ({staged[p]} \ {Absent}) \subseteq Inode
            OBVIOUS
        <3>2. KeepAndFail(p)
            BY <1>20, <2>2 DEF RollbackCheck
        <3> QED BY <1>20, <3>1, <3>2 DEF RollbackCheck, KeepAndFail
    <2> QED BY <2>1, <2>2
<1>21. ASSUME NEW p \in Patcher, RollbackRename(p) PROVE TypeOK'
    <2>1. CASE live # Absent /\ staged[p] # Absent
        <3>1. Swap(p) /\ Goto(p, "rbverify")
            BY <1>21, <2>1 DEF RollbackRename
        <3>2. pc' \in [Patcher -> Steps]
            BY <3>1, GotoType
        <3> HIDE DEF Goto
        <3> QED BY <1>21, <3>1, <3>2, SwapType DEF RollbackRename
    <2>2. CASE ~(live # Absent /\ staged[p] # Absent)
        BY <1>21, <2>2 DEF RollbackRename
    <2> QED BY <2>1, <2>2
<1>22. ASSUME NEW p \in Patcher, RollbackMove(p) PROVE TypeOK'
    <2>1. CASE (live = Absent) # (staged[p] = Absent)
        <3>1. Swap(p) /\ Goto(p, "rbverify") /\ kept' = kept
            BY <1>22, <2>1 DEF RollbackMove
        <3>2. pc' \in [Patcher -> Steps]
            BY <3>1, GotoType
        <3> HIDE DEF Goto
        <3> QED BY <1>22, <3>1, <3>2, SwapType DEF RollbackMove
    <2>2. CASE ~((live = Absent) # (staged[p] = Absent))
        <3>1. KeepAndFail(p) /\ UNCHANGED <<live, toucher>>
            BY <1>22, <2>2 DEF RollbackMove
        <3> HIDE DEF Goto
        <3> QED BY <1>22, <3>1, KeepAndFailType DEF RollbackMove
    <2> QED BY <2>1, <2>2
<1>23. ASSUME NEW p \in Patcher, RollbackVerify(p) PROVE TypeOK'
    BY SMTT(20), <1>23 DEF RollbackVerify, KeepAndFail
<1>24. ASSUME NEW p \in Patcher, RollbackClose(p) PROVE TypeOK'
    BY <1>24 DEF RollbackClose
<1>25. ASSUME NEW p \in Patcher, RollbackFails(p) PROVE TypeOK'
    BY <1>25 DEF RollbackFails, KeepAndFail
<1>26. ASSUME NEW p \in Patcher, Finish(p) PROVE TypeOK'
    BY <1>26 DEF Finish, Reset
<1>27. ASSUME NEW p \in Patcher, Killed(p) PROVE TypeOK'
    BY <1>27 DEF Killed, Reset
<1>28. ASSUME NEW p \in Patcher, ChildKilled(p) PROVE TypeOK'
    BY <1>28 DEF ChildKilled, KeepAndFail
<1>29. ASSUME NEW p \in Patcher, ParentKilled(p) PROVE TypeOK'
    BY <1>29 DEF ParentKilled
<1>30. ASSUME ExternalInstall PROVE TypeOK'
    BY <1>30 DEF ExternalInstall, ExternalChange, Create, Fresh
<1>31. ASSUME ExternalRemove PROVE TypeOK'
    BY <1>31 DEF ExternalRemove, ExternalChange, Create, Fresh
<1>32. ASSUME ExternalEdit PROVE TypeOK'
    BY <1>32 DEF ExternalEdit, ExternalChange, Create, Fresh
<1>33. ASSUME UNCHANGED vars PROVE TypeOK'
    BY <1>33 DEF vars
<1> QED
    BY <1>1, <1>2, <1>3, <1>4, <1>5, <1>6, <1>7, <1>8, <1>9, <1>10, <1>11, <1>12,
       <1>13, <1>14, <1>15, <1>16, <1>17, <1>18, <1>19, <1>20, <1>21, <1>22, <1>23,
       <1>24, <1>25, <1>26, <1>27, <1>28, <1>29, <1>30, <1>31, <1>32, <1>33
       DEF Next, PatcherStep, Transaction, Kill, ExternalStep

\* What a patcher holds and what it has found are there when it needs them.
LEMMA HandStep == TypeOK /\ Hand /\ HoldsFound /\ [Next]_vars => Hand' /\ HoldsFound'
<1> SUFFICES ASSUME TypeOK, Hand, HoldsFound, [Next]_vars PROVE Hand' /\ HoldsFound'
    OBVIOUS
<1> /\ pc \in [Patcher -> Steps] /\ pub \in [Patcher -> Entry]
    /\ staged \in [Patcher -> Entry] /\ found \in [Patcher -> Entry] /\ live \in Entry
    /\ auth \in [Patcher -> Entry]
    BY DEF TypeOK
<1> USE ConstantsAssumption DEF Hand, HoldsFound, Entry, Goto, local, files, history,
        Authorizing, Staging, Published, Working, Ended
<1>1. ASSUME NEW p \in Patcher, Resolve(p) PROVE Hand' /\ HoldsFound'
    BY <1>1 DEF Resolve
<1>2. ASSUME NEW p \in Patcher, Acquire(p) PROVE Hand' /\ HoldsFound'
    BY <1>2 DEF Acquire
<1>3. ASSUME NEW p \in Patcher, Capture(p) PROVE Hand' /\ HoldsFound'
    BY <1>3 DEF Capture
<1>4. ASSUME NEW p \in Patcher, Classify(p) PROVE Hand' /\ HoldsFound'
    BY <1>4 DEF Classify
<1>5. ASSUME NEW p \in Patcher, Revalidate(p) PROVE Hand' /\ HoldsFound'
    BY <1>5 DEF Revalidate
<1>6. ASSUME NEW p \in Patcher, Proceed(p) PROVE Hand' /\ HoldsFound'
    BY <1>6 DEF Proceed
<1>7. ASSUME NEW p \in Patcher, Escalate(p) PROVE Hand' /\ HoldsFound'
    BY <1>7 DEF Escalate
<1>8. ASSUME NEW p \in Patcher, AuthorizingFails(p) PROVE Hand' /\ HoldsFound'
    BY <1>8 DEF AuthorizingFails
<1>9. ASSUME NEW p \in Patcher, Stage(p) PROVE Hand' /\ HoldsFound'
    BY <1>9 DEF Stage, Create, Fresh, InUse, Present
<1>10. ASSUME NEW p \in Patcher, Copy(p) PROVE Hand' /\ HoldsFound'
    BY <1>10 DEF Copy
<1>11. ASSUME NEW p \in Patcher, Seal(p) PROVE Hand' /\ HoldsFound'
    <2>1. CASE dir[staged[p]].bytes = cand[p]
        BY <1>11, <2>1 DEF Seal, FailUnpublished
    <2>2. CASE ~(dir[staged[p]].bytes = cand[p])
        BY <1>11, <2>2 DEF Seal, FailUnpublished
    <2> QED BY <2>1, <2>2
<1>12. ASSUME NEW p \in Patcher, Validate(p) PROVE Hand' /\ HoldsFound'
    BY <1>12 DEF Validate, FailUnpublished
<1>13. ASSUME NEW p \in Patcher, StagingFails(p) PROVE Hand' /\ HoldsFound'
    BY <1>13 DEF StagingFails, FailUnpublished
<1>14. ASSUME NEW p \in Patcher, Exchange(p) PROVE Hand' /\ HoldsFound'
    <2>1. CASE live # Absent
        BY <1>14, <2>1 DEF Exchange, Publish, Swap
    <2>2. CASE ~(live # Absent)
        BY <1>14, <2>2 DEF Exchange, Publish, Swap
    <2> QED BY <2>1, <2>2
<1>15. ASSUME NEW p \in Patcher, NoReplace(p) PROVE Hand' /\ HoldsFound'
    <2>1. CASE live = Absent
        BY <1>15, <2>1 DEF NoReplace, Publish, Swap, FailUnpublished
    <2>2. CASE ~(live = Absent)
        BY <1>15, <2>2 DEF NoReplace, Publish, Swap, FailUnpublished
    <2> QED BY <2>1, <2>2
<1>16. ASSUME NEW p \in Patcher, Displaced(p) PROVE Hand' /\ HoldsFound'
    BY <1>16 DEF Displaced
<1>17. ASSUME NEW p \in Patcher, Verify(p) PROVE Hand' /\ HoldsFound'
    BY <1>17 DEF Verify
<1>18. ASSUME NEW p \in Patcher, Close(p) PROVE Hand' /\ HoldsFound'
    BY <1>18 DEF Close, KeepAndFail
<1>19. ASSUME NEW p \in Patcher, Confirm(p) PROVE Hand' /\ HoldsFound'
    BY <1>19 DEF Confirm
<1>20. ASSUME NEW p \in Patcher, RollbackCheck(p) PROVE Hand' /\ HoldsFound'
    <2>1. CASE live = pub[p] /\ (staged[p] # Absent => staged[p] = auth[p])
        BY <1>20, <2>1 DEF RollbackCheck, KeepAndFail
    <2>2. CASE ~(live = pub[p] /\ (staged[p] # Absent => staged[p] = auth[p]))
        BY <1>20, <2>2 DEF RollbackCheck, KeepAndFail
    <2> QED BY <2>1, <2>2
<1>21. ASSUME NEW p \in Patcher, RollbackRename(p) PROVE Hand' /\ HoldsFound'
    <2>1. CASE live # Absent /\ staged[p] # Absent
        BY <1>21, <2>1 DEF RollbackRename, Swap
    <2>2. CASE ~(live # Absent /\ staged[p] # Absent)
        BY <1>21, <2>2 DEF RollbackRename, Swap
    <2> QED BY <2>1, <2>2
<1>22. ASSUME NEW p \in Patcher, RollbackMove(p) PROVE Hand' /\ HoldsFound'
    <2>1. CASE (live = Absent) # (staged[p] = Absent)
        BY <1>22, <2>1 DEF RollbackMove, Swap, KeepAndFail
    <2>2. CASE ~((live = Absent) # (staged[p] = Absent))
        BY <1>22, <2>2 DEF RollbackMove, Swap, KeepAndFail
    <2> QED BY <2>1, <2>2
<1>23. ASSUME NEW p \in Patcher, RollbackVerify(p) PROVE Hand' /\ HoldsFound'
    BY <1>23 DEF RollbackVerify, KeepAndFail
<1>24. ASSUME NEW p \in Patcher, RollbackClose(p) PROVE Hand' /\ HoldsFound'
    BY <1>24 DEF RollbackClose
<1>25. ASSUME NEW p \in Patcher, RollbackFails(p) PROVE Hand' /\ HoldsFound'
    BY <1>25 DEF RollbackFails, KeepAndFail
<1>26. ASSUME NEW p \in Patcher, Finish(p) PROVE Hand' /\ HoldsFound'
    BY <1>26 DEF Finish, Reset
<1>27. ASSUME NEW p \in Patcher, Killed(p) PROVE Hand' /\ HoldsFound'
    BY <1>27 DEF Killed, Reset
<1>28. ASSUME NEW p \in Patcher, ChildKilled(p) PROVE Hand' /\ HoldsFound'
    BY <1>28 DEF ChildKilled, KeepAndFail
<1>29. ASSUME NEW p \in Patcher, ParentKilled(p) PROVE Hand' /\ HoldsFound'
    BY <1>29 DEF ParentKilled
<1>30. ASSUME ExternalInstall PROVE Hand' /\ HoldsFound'
    BY <1>30 DEF ExternalInstall, ExternalChange, Create, Fresh
<1>31. ASSUME ExternalRemove PROVE Hand' /\ HoldsFound'
    BY <1>31 DEF ExternalRemove, ExternalChange, Create, Fresh
<1>32. ASSUME ExternalEdit PROVE Hand' /\ HoldsFound'
    BY <1>32 DEF ExternalEdit, ExternalChange, Create, Fresh
<1>33. ASSUME UNCHANGED vars PROVE Hand' /\ HoldsFound'
    BY <1>33 DEF vars
<1> QED
    BY <1>1, <1>2, <1>3, <1>4, <1>5, <1>6, <1>7, <1>8, <1>9, <1>10, <1>11, <1>12,
       <1>13, <1>14, <1>15, <1>16, <1>17, <1>18, <1>19, <1>20, <1>21, <1>22, <1>23,
       <1>24, <1>25, <1>26, <1>27, <1>28, <1>29, <1>30, <1>31, <1>32, <1>33
       DEF Next, PatcherStep, Transaction, Kill, ExternalStep

\* The typing invariant is inductive.
LEMMA TInvStep == TInv /\ [Next]_vars => TInv'
    BY TypeStep, HandStep DEF TInv

\* Every variable of the transaction stays in its type (Publication!TypeOK).
THEOREM TypeCorrect == Spec => []TypeOK
<1>1. Init => TInv
    BY TInvInit
<1>2. TInv /\ [Next]_vars => TInv'
    BY TInvStep
<1>3. TInv => TypeOK
    BY DEF TInv
<1> QED
    BY <1>1, <1>2, <1>3, PTL DEF Spec

(***************************************************************************)
(* What the browser finds is complete.                                     *)
(***************************************************************************)

\* Initially no directory is silvervine's.
LEMMA SInvInit == Init => SInv
    BY ConstantsAssumption DEF Init, SInv, Apart, HandSealed, LiveSealed, Unfinished,
       Entry,
       Staging, Published

\* Only a sealed directory becomes live, and nobody unseals it but from outside.
LEMMA SInvStep == TInv /\ TInv' /\ SInv /\ [Next]_vars => SInv'
<1> SUFFICES ASSUME TInv, TInv', SInv, [Next]_vars PROVE SInv'
    OBVIOUS
<1> USE ConstantsAssumption DEF TInv, TypeOK, Hand, SInv, Apart, HandSealed,
LiveSealed, Unfinished, Sealed,
       Entry, Contents, Goto, local, files, history, Authorizing, Staging, Published,
       Working, Ended
<1>1. ASSUME NEW p \in Patcher, Resolve(p) PROVE SInv'
    BY SMTT(30), <1>1 DEF Resolve
<1>2. ASSUME NEW p \in Patcher, Acquire(p) PROVE SInv'
    BY SMTT(30), <1>2 DEF Acquire
<1>3. ASSUME NEW p \in Patcher, Capture(p) PROVE SInv'
    BY SMTT(30), <1>3 DEF Capture
<1>4. ASSUME NEW p \in Patcher, Classify(p) PROVE SInv'
    BY SMTT(30), <1>4 DEF Classify
<1>5. ASSUME NEW p \in Patcher, Revalidate(p) PROVE SInv'
    BY SMTT(30), <1>5 DEF Revalidate
<1>6. ASSUME NEW p \in Patcher, Proceed(p) PROVE SInv'
    BY SMTT(30), <1>6 DEF Proceed
<1>7. ASSUME NEW p \in Patcher, Escalate(p) PROVE SInv'
    BY SMTT(30), <1>7 DEF Escalate
<1>8. ASSUME NEW p \in Patcher, AuthorizingFails(p) PROVE SInv'
    BY SMTT(30), <1>8 DEF AuthorizingFails
<1>9. ASSUME NEW p \in Patcher, Stage(p) PROVE SInv'
    BY SMTT(30), <1>9 DEF Stage, Create, Fresh, InUse, Present
<1>10. ASSUME NEW p \in Patcher, Copy(p) PROVE SInv'
    BY SMTT(30), <1>10 DEF Copy
<1>11. ASSUME NEW p \in Patcher, Seal(p) PROVE SInv'
    <2>1. CASE dir[staged[p]].bytes = cand[p]
        BY SMTT(60), <1>11, <2>1 DEF Seal, FailUnpublished
    <2>2. CASE ~(dir[staged[p]].bytes = cand[p])
        BY SMTT(60), <1>11, <2>2 DEF Seal, FailUnpublished
    <2> QED BY <2>1, <2>2
<1>12. ASSUME NEW p \in Patcher, Validate(p) PROVE SInv'
    BY SMTT(30), <1>12 DEF Validate, FailUnpublished
<1>13. ASSUME NEW p \in Patcher, StagingFails(p) PROVE SInv'
    BY SMTT(30), <1>13 DEF StagingFails, FailUnpublished
<1>14. ASSUME NEW p \in Patcher, Exchange(p) PROVE SInv'
    <2>1. CASE live # Absent
        <3>1. pc[p] \in {"exchange", "noreplace"} /\ pc' = [pc EXCEPT ![p] = "displaced"]
            BY <1>14, <2>1 DEF Exchange, Publish
        <3>2. /\ live' = staged[p] /\ staged' = [staged EXCEPT ![p] = live]
              /\ dir' = dir /\ maker' = maker /\ edited' = edited
            BY <1>14, <2>1 DEF Exchange, Publish, Swap
        <3>3. Apart'
            BY <3>2
        <3>4. HandSealed' /\ LiveSealed'
            BY <3>1, <3>2
        <3> QED BY <3>3, <3>4
    <2>2. CASE ~(live # Absent)
        BY SMTT(60), <1>14, <2>2 DEF Exchange
    <2> QED BY <2>1, <2>2
<1>15. ASSUME NEW p \in Patcher, NoReplace(p) PROVE SInv'
    <2>1. CASE live = Absent
        <3>1. pc[p] \in {"exchange", "noreplace"} /\ pc' = [pc EXCEPT ![p] = "displaced"]
            BY <1>15, <2>1 DEF NoReplace, Publish
        <3>2. /\ live' = staged[p] /\ staged' = [staged EXCEPT ![p] = live]
              /\ dir' = dir /\ maker' = maker /\ edited' = edited
            BY <1>15, <2>1 DEF NoReplace, Publish, Swap
        <3>3. Apart'
            BY <3>2
        <3>4. HandSealed' /\ LiveSealed'
            BY <3>1, <3>2
        <3> QED BY <3>3, <3>4
    <2>2. CASE ~(live = Absent)
        BY SMTT(60), <1>15, <2>2 DEF NoReplace, FailUnpublished
    <2> QED BY <2>1, <2>2
<1>16. ASSUME NEW p \in Patcher, Displaced(p) PROVE SInv'
    BY SMTT(30), <1>16 DEF Displaced
<1>17. ASSUME NEW p \in Patcher, Verify(p) PROVE SInv'
    BY SMTT(30), <1>17 DEF Verify
<1>18. ASSUME NEW p \in Patcher, Close(p) PROVE SInv'
    <2>1. live' = live /\ dir' = dir /\ maker' = maker /\ edited' = edited
        BY <1>18 DEF Close
    <2>2. staged' = [staged EXCEPT ![p] = Absent]
        BY <1>18 DEF Close, KeepAndFail
    <2>3. \A q \in Patcher \ {p} : pc'[q] = pc[q] /\ staged'[q] = staged[q]
        BY <1>18, <2>2 DEF Close, KeepAndFail
    <2>4. Apart'
        BY <2>1, <2>2, <2>3
    <2>5. HandSealed'
        BY <2>1, <2>2, <2>3
    <2>6. LiveSealed'
        BY <2>1
    <2> QED BY <2>4, <2>5, <2>6
<1>19. ASSUME NEW p \in Patcher, Confirm(p) PROVE SInv'
    BY SMTT(30), <1>19 DEF Confirm
<1>20. ASSUME NEW p \in Patcher, RollbackCheck(p) PROVE SInv'
    <2>1. live' = live /\ dir' = dir /\ maker' = maker /\ edited' = edited
        BY <1>20 DEF RollbackCheck
    <2>2. staged' = staged \/ staged' = [staged EXCEPT ![p] = Absent]
        BY <1>20 DEF RollbackCheck, KeepAndFail
    <2>3. pc[p] = "rbcheck" /\ pc' \in {[pc EXCEPT ![p] = "rbrename"], [pc EXCEPT ![p] = "failed"]}
        BY <1>20 DEF RollbackCheck, KeepAndFail
    <2>4. Apart'
        BY <2>1, <2>2
    <2>5. HandSealed'
        BY <2>1, <2>2, <2>3
    <2>6. LiveSealed'
        BY <2>1
    <2> QED BY <2>4, <2>5, <2>6
<1>21. ASSUME NEW p \in Patcher, RollbackRename(p) PROVE SInv'
    <2>1. CASE live # Absent /\ staged[p] # Absent
        <3>1. Apart'
            BY <1>21, <2>1 DEF RollbackRename, Swap
        <3>2. HandSealed'
            BY <1>21, <2>1 DEF RollbackRename, Swap
        <3>3. LiveSealed'
            BY <1>21, <2>1 DEF RollbackRename, Swap
        <3> QED BY <3>1, <3>2, <3>3
    <2>2. CASE ~(live # Absent /\ staged[p] # Absent)
        BY SMTT(60), <1>21, <2>2 DEF RollbackRename, Swap
    <2> QED BY <2>1, <2>2
<1>22. ASSUME NEW p \in Patcher, RollbackMove(p) PROVE SInv'
    <2>1. CASE (live = Absent) # (staged[p] = Absent)
        BY SMTT(60), <1>22, <2>1 DEF RollbackMove, Swap, KeepAndFail
    <2>2. CASE ~((live = Absent) # (staged[p] = Absent))
        BY SMTT(60), <1>22, <2>2 DEF RollbackMove, Swap, KeepAndFail
    <2> QED BY <2>1, <2>2
<1>23. ASSUME NEW p \in Patcher, RollbackVerify(p) PROVE SInv'
    BY SMTT(30), <1>23 DEF RollbackVerify, KeepAndFail
<1>24. ASSUME NEW p \in Patcher, RollbackClose(p) PROVE SInv'
    BY SMTT(30), <1>24 DEF RollbackClose
<1>25. ASSUME NEW p \in Patcher, RollbackFails(p) PROVE SInv'
    BY SMTT(30), <1>25 DEF RollbackFails, KeepAndFail
<1>26. ASSUME NEW p \in Patcher, Finish(p) PROVE SInv'
    BY SMTT(30), <1>26 DEF Finish, Reset
<1>27. ASSUME NEW p \in Patcher, Killed(p) PROVE SInv'
    BY SMTT(30), <1>27 DEF Killed, Reset
<1>28. ASSUME NEW p \in Patcher, ChildKilled(p) PROVE SInv'
    BY SMTT(30), <1>28 DEF ChildKilled, KeepAndFail
<1>29. ASSUME NEW p \in Patcher, ParentKilled(p) PROVE SInv'
    BY SMTT(30), <1>29 DEF ParentKilled
<1>30. ASSUME ExternalInstall PROVE SInv'
    BY SMTT(30), <1>30 DEF ExternalInstall, ExternalChange, Create, Fresh, InUse,
       Present
<1>31. ASSUME ExternalRemove PROVE SInv'
    BY SMTT(30), <1>31 DEF ExternalRemove, ExternalChange, Create, Fresh, InUse,
       Present
<1>32. ASSUME ExternalEdit PROVE SInv'
    BY SMTT(30), <1>32 DEF ExternalEdit, ExternalChange, Create, Fresh, InUse, Present
<1>33. ASSUME UNCHANGED vars PROVE SInv'
    BY <1>33 DEF vars
<1> QED
    BY <1>1, <1>2, <1>3, <1>4, <1>5, <1>6, <1>7, <1>8, <1>9, <1>10, <1>11, <1>12,
       <1>13, <1>14, <1>15, <1>16, <1>17, <1>18, <1>19, <1>20, <1>21, <1>22, <1>23,
       <1>24, <1>25, <1>26, <1>27, <1>28, <1>29, <1>30, <1>31, <1>32, <1>33
       DEF Next, PatcherStep, Transaction, Kill, ExternalStep

\* The directory the browser finds is complete and sealed if silvervine built it
\* and nobody else has written into it (Publication!LiveSealed): for any number
\* of concurrent runs, with or without the lock, wherever they fail or die.
THEOREM LiveAlwaysSealed == Spec => []LiveSealed
<1>1. Init => TInv /\ SInv
    BY TInvInit, SInvInit
<1>2. TInv /\ SInv /\ [Next]_vars => (TInv /\ SInv)'
    BY TInvStep, SInvStep
<1>3. TInv /\ SInv => LiveSealed
    BY DEF SInv
<1> QED
    BY <1>1, <1>2, <1>3, PTL DEF Spec

(***************************************************************************)
(* The exchange never uncovers the place.                                  *)
(***************************************************************************)

\* A step of one process moves no other.
LEMMA OthersStand ==
    ASSUME TypeOK, NEW p \in Patcher, NEW q \in Patcher, q # p,
           PatcherStep(q) \/ Kill(q)
    PROVE  pc'[p] = pc[p]
<1> pc \in [Patcher -> Steps]
    BY DEF TypeOK
<1> USE DEF Goto, FailUnpublished, KeepAndFail, Reset, Publish
<1>1. CASE Resolve(q) \/ Acquire(q) \/ Finish(q)
    BY <1>1 DEF Resolve, Acquire, Finish
<1>2. CASE Capture(q) \/ Classify(q) \/ Revalidate(q) \/ Proceed(q) \/ Escalate(q)
           \/ AuthorizingFails(q)
    BY <1>2 DEF Capture, Classify, Revalidate, Proceed, Escalate, AuthorizingFails
<1>3. CASE Stage(q) \/ Copy(q) \/ Seal(q) \/ Validate(q) \/ StagingFails(q)
    BY <1>3 DEF Stage, Copy, Seal, Validate, StagingFails
<1>4. CASE \/ Exchange(q) \/ NoReplace(q) \/ Displaced(q)
          \/ Verify(q) \/ Close(q) \/ Confirm(q)
    BY <1>4 DEF Exchange, NoReplace, Displaced, Verify, Close, Confirm
<1>5. CASE RollbackCheck(q) \/ RollbackRename(q) \/ RollbackMove(q)
           \/ RollbackVerify(q) \/ RollbackClose(q) \/ RollbackFails(q)
    BY <1>5 DEF RollbackCheck, RollbackRename, RollbackMove, RollbackVerify,
                RollbackClose, RollbackFails
<1>6. CASE Kill(q)
    BY <1>6 DEF Kill, Killed, ChildKilled, ParentKilled
<1> QED
    BY <1>1, <1>2, <1>3, <1>4, <1>5, <1>6 DEF PatcherStep, Transaction

\* Four actions of a patcher change what is live.
LEMMA LiveMovers ==
    ASSUME NEW p \in Patcher, PatcherStep(p) \/ Kill(p), live' # live
    PROVE  Exchange(p) \/ NoReplace(p) \/ RollbackRename(p) \/ RollbackMove(p)
<1> USE DEF files
<1>1. ~(Resolve(p) \/ Acquire(p) \/ Finish(p))
    BY DEF Resolve, Acquire, Finish
<1>2. ~(Capture(p) \/ Classify(p) \/ Revalidate(p) \/ Proceed(p) \/ Escalate(p)
        \/ AuthorizingFails(p))
    BY DEF Capture, Classify, Revalidate, Proceed, Escalate, AuthorizingFails
<1>3. ~(Stage(p) \/ Copy(p) \/ Seal(p) \/ Validate(p) \/ StagingFails(p))
    BY DEF Stage, Copy, Seal, Validate, StagingFails
<1>4. ~(Displaced(p) \/ Verify(p) \/ Close(p) \/ Confirm(p))
    BY DEF Displaced, Verify, Close, Confirm
<1>5. ~(RollbackCheck(p) \/ RollbackVerify(p) \/ RollbackClose(p) \/ RollbackFails(p))
    BY DEF RollbackCheck, RollbackVerify, RollbackClose, RollbackFails
<1>6. ~Kill(p)
    BY DEF Kill, Killed, ChildKilled, ParentKilled
<1> QED
    BY <1>1, <1>2, <1>3, <1>4, <1>5, <1>6 DEF PatcherStep, Transaction

\* Only moving back what was moved to an empty place empties it again.
LEMMA NoGapStep ==
    ASSUME TInv, [Next]_vars, NEW p \in Patcher,
           pc'[p] # pc[p], live # Absent, live' = Absent
    PROVE  found'[p] = Absent
<1>1. PatcherStep(p) \/ Kill(p)
    <2>1. ~(UNCHANGED vars)
        BY DEF vars
    <2>2. ~ExternalStep
        BY DEF ExternalStep, ExternalInstall, ExternalRemove, ExternalEdit,
           ExternalChange
    <2> QED
        BY <2>1, <2>2, OthersStand DEF Next, TInv
<1>2. Exchange(p) \/ NoReplace(p) \/ RollbackRename(p) \/ RollbackMove(p)
    BY <1>1, LiveMovers
<1>3. CASE Exchange(p) \/ NoReplace(p)
    <2>1. staged[p] # Absent
        BY <1>3, ConstantsAssumption DEF Exchange, NoReplace, TInv, Hand, Staging
    <2> QED
        BY <1>3, <2>1 DEF Exchange, NoReplace, Publish, Swap
<1>4. CASE RollbackRename(p)
    BY <1>4 DEF RollbackRename, Swap
<1>5. CASE RollbackMove(p)
    <2>1. staged[p] = Absent /\ found' = found
        BY <1>5 DEF RollbackMove, Swap
    <2>2. staged[p] = found[p]
        BY <1>5 DEF RollbackMove, TInv, HoldsFound
    <2> QED
        BY <2>1, <2>2
<1> QED
    BY <1>2, <1>3, <1>4, <1>5

\* A patcher that published over an installed component leaves the browser with
\* one at every step, whatever fails (Publication!UpdateLeavesNoGap).
THEOREM UpdatesLeaveNoGap == Spec => UpdateLeavesNoGap
<1>1. Init => TInv
    BY TInvInit
<1>2. TInv /\ [Next]_vars => TInv'
    BY TInvStep
<1>3. TInv /\ [Next]_vars =>
        [\A p \in Patcher :
           (pc'[p] # pc[p] /\ live # Absent /\ live' = Absent) => found'[p] = Absent]_vars
    BY NoGapStep
<1> QED
    BY <1>1, <1>2, <1>3, PTL DEF Spec, UpdateLeavesNoGap

(***************************************************************************)
(* The lock.                                                               *)
(***************************************************************************)

\* A run holds the lock from Acquire to its end, unless its parent is killed.
LockInv ==
    \A p \in Patcher : pc[p] \in Working \cup Ended => lock = p \/ orphan[p]

\* Initially nobody works and the lock is free.
LEMMA LockInvInit == Init => LockInv
    BY DEF Init, LockInv, Authorizing, Staging, Published, Working, Ended

\* Whoever gets to work has the lock, and keeps it until it is done.
LEMMA LockInvStep == TypeOK /\ LockInv /\ [Next]_vars => LockInv'
<1> SUFFICES ASSUME TypeOK, LockInv, [Next]_vars PROVE LockInv'
    OBVIOUS
<1> /\ pc \in [Patcher -> Steps] /\ lock \in Patcher \cup {Free}
    /\ orphan \in [Patcher -> BOOLEAN] /\ asRoot \in [Patcher -> BOOLEAN]
    BY DEF TypeOK
<1> USE ConstantsAssumption DEF LockInv, Authorizing, Staging, Published, Working,
Ended,
        Goto, FailUnpublished, KeepAndFail, Publish, local
<1>1. ASSUME NEW p \in Patcher, Resolve(p) \/ Acquire(p) PROVE LockInv'
    BY <1>1 DEF Resolve, Acquire
<1>2. ASSUME NEW p \in Patcher, Transaction(p)
      PROVE  /\ UNCHANGED <<lock, orphan>>
             /\ pc[p] \in Working \cup Ended
             /\ \E s \in Steps : pc' = [pc EXCEPT ![p] = s]
    <2> USE DEF Steps
    <2>1. CASE Capture(p) \/ Classify(p) \/ Revalidate(p) \/ Proceed(p) \/ Escalate(p)
               \/ AuthorizingFails(p)
        BY <2>1 DEF Capture, Classify, Revalidate, Proceed, Escalate, AuthorizingFails
    <2>2. CASE Stage(p) \/ Copy(p) \/ Seal(p) \/ Validate(p) \/ StagingFails(p)
        BY <2>2 DEF Stage, Copy, Seal, Validate, StagingFails
    <2>3. CASE Exchange(p) \/ NoReplace(p) \/ Displaced(p)
        BY <2>3 DEF Exchange, NoReplace, Displaced
    <2>4. CASE Verify(p) \/ Close(p) \/ Confirm(p)
        BY <2>4 DEF Verify, Close, Confirm
    <2>5. CASE RollbackCheck(p) \/ RollbackRename(p) \/ RollbackMove(p)
        BY <2>5 DEF RollbackCheck, RollbackRename, RollbackMove
    <2>6. CASE RollbackVerify(p) \/ RollbackClose(p) \/ RollbackFails(p)
        BY <2>6 DEF RollbackVerify, RollbackClose, RollbackFails
    <2> QED
        BY <1>2, <2>1, <2>2, <2>3, <2>4, <2>5, <2>6 DEF Transaction
<1>3. ASSUME NEW p \in Patcher, Transaction(p) PROVE LockInv'
    BY <1>2, <1>3
<1>4. ASSUME NEW p \in Patcher, Finish(p) \/ Killed(p) PROVE LockInv'
    BY <1>4 DEF Finish, Killed, Reset
<1>5. ASSUME NEW p \in Patcher, ChildKilled(p) \/ ParentKilled(p) PROVE LockInv'
    BY <1>5 DEF ChildKilled, ParentKilled
<1>6. ASSUME ExternalStep PROVE LockInv'
    BY <1>6 DEF ExternalStep, ExternalInstall, ExternalRemove, ExternalEdit,
       ExternalChange
<1>7. ASSUME UNCHANGED vars PROVE LockInv'
    BY <1>7 DEF vars
<1> QED
    BY <1>1, <1>3, <1>4, <1>5, <1>6, <1>7 DEF Next, PatcherStep, Kill

\* The lock of a live parent covers the elevated child, which takes none: two
\* transactions never overlap unless one of them has lost its parent
\* (Publication!OneTransaction).
THEOREM LockCovers == Spec => []OneTransaction
<1>1. Init => TInv /\ LockInv
    BY TInvInit, LockInvInit
<1>2. TInv /\ LockInv /\ [Next]_vars => (TInv /\ LockInv)'
    BY TInvStep, LockInvStep DEF TInv
<1>3. LockInv => OneTransaction
    BY DEF LockInv, OneTransaction
<1> QED
    BY <1>1, <1>2, <1>3, PTL DEF Spec

-----------------------------------------------------------------------------
(***************************************************************************)
(* The transaction implements WholeSwap, a failed run leaves what it found *)
(* or a complete component, and a successful one has installed its         *)
(* candidate.                                                              *)
(***************************************************************************)

\* Before a directory is staged, and after the run has let go of it.
Empty == {"idle", "lock", "childdone", "success", "failed"} \cup Authorizing

\* What p holds is the directory it works on, ready to be shown from the validation on.
Ready(p) ==
    /\ pc[p] \in Empty => staged[p] = Absent
    /\ pc[p] \in {"validate", "exchange", "noreplace"} =>
         staged[p] \in Inode /\ Holds(staged[p], cand[p])
    /\ pc[p] \in {"exchange", "noreplace"} => pub[p] = staged[p]

\* What is live while p was the last to determine it.
OwnChange(p) ==
    toucher = p =>
        /\ pc[p] \in Published \cup Ended
        /\ pc[p] \in {"displaced", "verify", "close", "rbcheck", "rbrename", "rbmove",
                      "childdone", "success"} => live = pub[p] /\ Holds(live, cand[p])
        /\ pc[p] \in {"rbverify", "rbclose"} => live = found[p]
        /\ pc[p] = "failed" => live = found[p] \/ (live # Absent /\ Sealed(dir[live]))

EndInv == \A p \in Patcher : Ready(p) /\ OwnChange(p)

Inv == TInv /\ SInv /\ EndInv

-----------------------------------------------------------------------------
(***************************************************************************)
(* What a step leaves alone.                                               *)
(***************************************************************************)

\* A patcher writes into the directory it holds, or into one that did not exist; only
\* its own exchange changes what is live.
Frame(p) ==
    /\ \A q \in Patcher \ {p} :
          /\ pc'[q] = pc[q] /\ staged'[q] = staged[q] /\ pub'[q] = pub[q]
          /\ cand'[q] = cand[q] /\ found'[q] = found[q]
    /\ \A i \in Inode : dir'[i] = dir[i] \/ i = staged[p] \/ i \in Fresh
    /\ toucher' \in {toucher, p, External}
    /\ live' # live => toucher' = p

LEMMA StepFrame ==
  ASSUME TypeOK, Hand, NEW p \in Patcher, PatcherStep(p) \/ Kill(p) PROVE Frame(p)
<1> /\ pc \in [Patcher -> Steps] /\ staged \in [Patcher -> Entry] /\ pub \in [Patcher -> Entry]
    /\ cand \in [Patcher -> Payload] /\ found \in [Patcher -> Entry] /\ dir \in [Inode -> Contents]
  BY DEF TypeOK
<1> USE DEF Frame, Goto, local, files, history, FailUnpublished, KeepAndFail, Reset
<1>1. CASE Resolve(p) \/ Acquire(p) \/ Finish(p)
  BY <1>1 DEF Resolve, Acquire, Finish
<1>2. CASE Capture(p) \/ Classify(p) \/ Revalidate(p)
  BY <1>2 DEF Capture, Classify, Revalidate
<1>3. CASE Proceed(p) \/ Escalate(p) \/ AuthorizingFails(p)
  BY <1>3 DEF Proceed, Escalate, AuthorizingFails
<1>4. CASE Stage(p)
  BY <1>4 DEF Stage, Create, Fresh
<1>5. CASE Copy(p)
  BY <1>5 DEF Copy
<1>6. CASE Seal(p)
  BY <1>6 DEF Seal
<1>7. CASE Validate(p) \/ StagingFails(p)
  BY <1>7 DEF Validate, StagingFails
<1>8. CASE Exchange(p) \/ NoReplace(p)
  BY <1>8 DEF Exchange, NoReplace, Publish, Swap
<1>9. CASE Displaced(p) \/ Verify(p) \/ Close(p) \/ Confirm(p)
  BY <1>9 DEF Displaced, Verify, Close, Confirm
<1>10. CASE RollbackCheck(p) \/ RollbackVerify(p) \/ RollbackClose(p) \/ RollbackFails(p)
  BY <1>10 DEF RollbackCheck, RollbackVerify, RollbackClose, RollbackFails
<1>11. CASE RollbackRename(p) \/ RollbackMove(p)
  BY <1>11 DEF RollbackRename, RollbackMove, Swap
<1>12. CASE Kill(p)
  BY <1>12 DEF Kill, Killed, ChildKilled, ParentKilled
<1> QED
  BY <1>1, <1>2, <1>3, <1>4, <1>5, <1>6, <1>7, <1>8, <1>9, <1>10, <1>11, <1>12
     DEF PatcherStep, Transaction

\* Everybody else writes into the live directory, or into one that did not exist.
LEMMA ExternalFrame ==
  ASSUME TypeOK, ExternalStep
  PROVE /\ UNCHANGED <<pc, staged, pub, cand, found>> /\ toucher' = External
        /\ \A i \in Inode : dir'[i] = dir[i] \/ i = live \/ i \in Fresh
        /\ live' \in Entry
<1> dir \in [Inode -> Contents] /\ live \in Entry
  BY DEF TypeOK
<1> USE DEF ExternalChange, local
<1>1. CASE ExternalInstall
  BY <1>1 DEF ExternalInstall, Create, Fresh, Entry
<1>2. CASE ExternalRemove
  BY <1>2 DEF ExternalRemove, Entry
<1>3. CASE ExternalEdit
  BY <1>3 DEF ExternalEdit
<1> QED
  BY <1>1, <1>2, <1>3 DEF ExternalStep

\* Directories in use are not fresh, and those in two hands are two.
LEMMA InHands ==
  ASSUME TypeOK, Apart, NEW p \in Patcher
  PROVE /\ live \notin Fresh /\ staged[p] \notin Fresh
        /\ live = staged[p] => live = Absent
        /\ \A q \in Patcher \ {p} : staged[q] = staged[p] => staged[p] = Absent
        /\ Absent \notin Inode
<1>1. Absent \notin Inode /\ staged[p] \in Entry /\ live \in Entry
  BY ConstantsAssumption DEF TypeOK
<1> QED
  BY <1>1 DEF Fresh, InUse, Present, Apart

-----------------------------------------------------------------------------
(***************************************************************************)
(* The invariant.                                                          *)
(***************************************************************************)

LEMMA EndInit == Init => EndInv
  BY ConstantsAssumption DEF Init, EndInv, Ready, OwnChange, Empty, Authorizing, Staging,
     Published, Ended

\* A step leaves the others what they rely on.
LEMMA OthersKeep ==
  ASSUME TypeOK, TypeOK', Hand, Apart, EndInv, NEW q \in Patcher,
         UNCHANGED <<pc[q], staged[q], pub[q], cand[q], found[q]>>,
         staged[q] # Absent => dir'[staged[q]] = dir[staged[q]],
         toucher' = q => toucher = q /\ live' = live /\ (live # Absent => dir'[live] = dir[live])
  PROVE (Ready(q) /\ OwnChange(q))'
<1>1. Ready(q) /\ OwnChange(q) /\ staged[q] \in Entry /\ Absent \notin Inode
  BY ConstantsAssumption DEF EndInv, TypeOK
<1>2. Ready(q)'
  BY <1>1 DEF Ready, Holds
<1>3. OwnChange(q)'
  BY <1>1 DEF OwnChange, Holds, Sealed
<1> QED
  BY <1>2, <1>3

LEMMA EndStep == Inv /\ TInv' /\ SInv' /\ [Next]_vars => EndInv'
<1> SUFFICES ASSUME Inv, TInv', SInv', [Next]_vars PROVE EndInv'
  OBVIOUS
<1> /\ TypeOK /\ TypeOK' /\ Hand /\ HoldsFound /\ Apart /\ EndInv
  BY DEF Inv, TInv, SInv
<1> /\ pc \in [Patcher -> Steps] /\ staged \in [Patcher -> Entry] /\ pub \in [Patcher -> Entry]
    /\ cand \in [Patcher -> Payload] /\ found \in [Patcher -> Entry] /\ dir \in [Inode -> Contents]
    /\ live \in Entry /\ toucher \in Patcher \cup {External} /\ External \notin Patcher
    /\ Absent \notin Inode
  BY ConstantsAssumption DEF TypeOK
<1>1. ASSUME NEW p \in Patcher, PatcherStep(p) \/ Kill(p), NEW q \in Patcher, q # p
      PROVE (Ready(q) /\ OwnChange(q))'
  <2>1. Frame(p)
    BY <1>1, StepFrame
  <2>2. staged[q] # Absent => dir'[staged[q]] = dir[staged[q]]
    BY <1>1, <2>1, InHands DEF Frame, Entry
  <2>3. toucher' = q => toucher = q /\ live' = live
    BY <1>1, <2>1 DEF Frame
  <2>4. live # Absent => dir'[live] = dir[live]
    BY <1>1, <2>1, InHands DEF Frame, Entry
  <2> QED
    BY <1>1, <2>1, <2>2, <2>3, <2>4, OthersKeep DEF Frame
<1>2. ASSUME ExternalStep, NEW q \in Patcher PROVE (Ready(q) /\ OwnChange(q))'
  <2>1. staged[q] # Absent => dir'[staged[q]] = dir[staged[q]]
    BY <1>2, ExternalFrame, InHands DEF Entry
  <2> QED
    BY <1>2, <2>1, ExternalFrame, OthersKeep
<1>3. CASE UNCHANGED vars
  BY <1>3 DEF vars, local, files, history, EndInv, Ready, OwnChange, Holds, Sealed
<1>4. ASSUME NEW p \in Patcher, PatcherStep(p) \/ Kill(p) PROVE (Ready(p) /\ OwnChange(p))'
  <2> Ready(p) /\ OwnChange(p)
    BY DEF EndInv
  <2> pc[p] = "exchange" => staged[p] # live
    BY DEF Apart, Ready
  <2> USE DEF Ready, OwnChange, Empty, Goto, local, files, history, Authorizing, Staging,
              Published, Working, Ended
  <2>1. CASE Resolve(p)
    BY <2>1 DEF Resolve
  <2>2. CASE Acquire(p)
    BY <2>2 DEF Acquire
  <2>3. CASE Finish(p)
    BY <2>3 DEF Finish, Reset
  <2>4. CASE Capture(p)
    BY <2>4 DEF Capture
  <2>5. CASE Classify(p)
    BY <2>5 DEF Classify
  <2>6. CASE Revalidate(p)
    BY <2>6 DEF Revalidate
  <2>7. CASE Proceed(p)
    BY <2>7 DEF Proceed
  <2>8. CASE Escalate(p)
    BY <2>8 DEF Escalate
  <2>9. CASE AuthorizingFails(p)
    BY <2>9 DEF AuthorizingFails
  <2>10. CASE Stage(p)
    BY <2>10 DEF Stage, Create
  <2>11. CASE Copy(p)
    BY <2>11 DEF Copy
  <2>12. CASE Seal(p)
    <3>1. CASE dir[staged[p]].bytes = cand[p]
      <4>1. staged[p] \in Inode /\ dir[staged[p]] \in Contents /\ cand[p] \in Payload
        BY <2>12 DEF Seal, Hand
      <4>2. /\ dir' = [dir EXCEPT ![staged[p]].marker = cand[p]]
            /\ pc' = [pc EXCEPT ![p] = "validate"] /\ UNCHANGED <<staged, cand, toucher>>
        BY <2>12, <3>1 DEF Seal
      <4>3. dir'[staged[p]] = [bytes |-> cand[p], marker |-> cand[p]]
        BY <3>1, <4>1, <4>2 DEF Contents
      <4>4. pc[p] = "seal" /\ toucher # p
        BY <2>12 DEF Seal
      <4> QED
        BY <4>1, <4>2, <4>3, <4>4 DEF Holds
    <3>2. CASE dir[staged[p]].bytes # cand[p]
      BY <2>12, <3>2 DEF Seal, FailUnpublished
    <3> QED
      BY <3>1, <3>2
  <2>13. CASE Validate(p)
    BY <2>13 DEF Validate, FailUnpublished, Holds
  <2>14. CASE StagingFails(p)
    BY <2>14 DEF StagingFails, FailUnpublished
  <2>15. CASE Exchange(p)
    BY <2>15 DEF Exchange, Publish, Swap, Holds
  <2>16. CASE NoReplace(p)
    BY <2>16 DEF NoReplace, Publish, Swap, FailUnpublished, Holds
  <2>17. CASE Displaced(p)
    BY <2>17 DEF Displaced, Holds
  <2>18. CASE Verify(p)
    BY <2>18 DEF Verify, Holds
  <2>19. CASE Close(p)
    BY <2>19 DEF Close, KeepAndFail, Holds, Sealed
  <2>20. CASE Confirm(p)
    BY <2>20 DEF Confirm, Holds, Sealed
  <2>21. CASE RollbackCheck(p)
    BY <2>21 DEF RollbackCheck, KeepAndFail, Holds, Sealed
  <2>22. CASE RollbackRename(p)
    BY <2>22 DEF RollbackRename, Swap, Holds, HoldsFound
  <2>23. CASE RollbackMove(p)
    BY <2>23 DEF RollbackMove, Swap, KeepAndFail, Holds, Sealed, HoldsFound
  <2>24. CASE RollbackVerify(p)
    BY <2>24 DEF RollbackVerify, KeepAndFail
  <2>25. CASE RollbackClose(p)
    BY <2>25 DEF RollbackClose
  <2>26. CASE RollbackFails(p)
    BY <2>26 DEF RollbackFails, KeepAndFail, Holds, Sealed
  <2>27. CASE Killed(p)
    BY <2>27 DEF Killed, Reset
  <2>28. CASE ChildKilled(p)
    BY <2>28 DEF ChildKilled, KeepAndFail, Holds, Sealed
  <2>29. CASE ParentKilled(p)
    BY <2>29 DEF ParentKilled, Holds, Sealed
  <2> QED
    BY <1>4, <2>1, <2>2, <2>3, <2>4, <2>5, <2>6, <2>7, <2>8, <2>9, <2>10, <2>11, <2>12, <2>13, <2>14, <2>15, <2>16, <2>17, <2>18, <2>19, <2>20, <2>21, <2>22, <2>23, <2>24, <2>25, <2>26, <2>27, <2>28, <2>29
       DEF PatcherStep, Transaction, Kill
<1> QED
  BY <1>1, <1>2, <1>3, <1>4 DEF Next, EndInv

LEMMA Invariance == Spec => []Inv
<1>1. Init => Inv
  BY TInvInit, SInvInit, EndInit DEF Inv
<1>2. Inv /\ [Next]_vars => Inv'
  BY TInvStep, SInvStep, EndStep DEF Inv
<1> QED
  BY <1>1, <1>2, PTL DEF Spec

\* A failed run that was the last to touch the target leaves what it published over or a
\* sealed component (Publication!ErrorLeavesLiveWhole), wherever it failed and whoever
\* else was at work, orphans included.
THEOREM ErrorsLeaveLiveWhole == Spec => []ErrorLeavesLiveWhole
<1>1. Inv => ErrorLeavesLiveWhole
  BY DEF Inv, EndInv, OwnChange, ErrorLeavesLiveWhole
<1> QED
  BY <1>1, Invariance, PTL

\* What a run that reports success installed is live, under the directory it staged,
\* unless somebody has touched the target since (Publication!SuccessIsLive).
THEOREM SuccessInstalled == Spec => []SuccessIsLive
<1>1. Inv => SuccessIsLive
  BY DEF Inv, EndInv, OwnChange, SuccessIsLive
<1> QED
  BY <1>1, Invariance, PTL

-----------------------------------------------------------------------------
(***************************************************************************)
(* The refinement.                                                         *)
(***************************************************************************)

Displacing(p) == pc[p] \in HoldsDisplaced

\* What the others hold does not change, and what they see only when the name does or
\* when somebody else writes into it.
LEMMA Invisible ==
  ASSUME Inv, NEW p \in Patcher, PatcherStep(p) \/ Kill(p)
  PROVE /\ \A q \in Patcher \ {p} : /\ Shows(staged[q])' = Shows(staged[q])
                                    /\ Displacing(q)' = Displacing(q)
        /\ live' = live => Shows(live)' = Shows(live)
<1>1. Frame(p)
  BY StepFrame DEF Inv, TInv
<1>2. TypeOK /\ Apart /\ staged \in [Patcher -> Entry] /\ live \in Entry
  BY DEF Inv, TInv, SInv, TypeOK
<1>3. \A q \in Patcher \ {p} : Shows(staged[q])' = Shows(staged[q])
  BY <1>1, <1>2, InHands DEF Frame, Shows, Entry
<1>4. \A q \in Patcher \ {p} : Displacing(q)' = Displacing(q)
  BY <1>1 DEF Frame, Displacing
<1>5. live' = live => Shows(live)' = Shows(live)
  BY <1>1, <1>2, InHands DEF Frame, Shows, Entry
<1> QED
  BY <1>3, <1>4, <1>5

\* The same of the hands of WholeSwap.
HandsOf == [p \in Patcher |-> Shows(staged[p])]
DisplacedOf == [p \in Patcher |-> pc[p] \in HoldsDisplaced]

LEMMA HandsMove ==
  ASSUME Inv, NEW p \in Patcher, PatcherStep(p) \/ Kill(p)
  PROVE /\ HandsOf' = [HandsOf EXCEPT ![p] = Shows(staged[p])']
        /\ Displacing(p)' = Displacing(p) => DisplacedOf' = DisplacedOf
        /\ ~Displacing(p)' => DisplacedOf' = [DisplacedOf EXCEPT ![p] = FALSE]
        /\ Displacing(p)' = ~Displacing(p) => DisplacedOf' = [DisplacedOf EXCEPT ![p] = ~@]
        /\ DisplacedOf[p] = Displacing(p)
<1>1. /\ \A q \in Patcher \ {p} : Shows(staged[q])' = Shows(staged[q])
      /\ \A q \in Patcher \ {p} : Displacing(q)' = Displacing(q)
  BY Invisible
<1>2. HandsOf' = [HandsOf EXCEPT ![p] = Shows(staged[p])']
  BY <1>1 DEF HandsOf
<1>3. DisplacedOf = [q \in Patcher |-> Displacing(q)]
  BY DEF DisplacedOf, Displacing
<1>4. DisplacedOf' = [q \in Patcher |-> Displacing(q)']
  BY DEF DisplacedOf, Displacing
<1>5. ASSUME Displacing(p)' = Displacing(p) PROVE DisplacedOf' = DisplacedOf
  <2>1. \A q \in Patcher : Displacing(q)' = Displacing(q)
    BY <1>1, <1>5
  <2> QED
    BY <1>3, <1>4, <2>1, Zenon
<1>6. ASSUME ~Displacing(p)' PROVE DisplacedOf' = [DisplacedOf EXCEPT ![p] = FALSE]
  <2>1. Displacing(p)' = FALSE
    BY <1>6 DEF Displacing
  <2> QED
    BY <1>1, <1>3, <1>4, <2>1, Zenon
<1>7. ASSUME Displacing(p)' = ~Displacing(p) PROVE DisplacedOf' = [DisplacedOf EXCEPT ![p] = ~@]
  BY <1>1, <1>3, <1>4, <1>7, Zenon
<1>8. DisplacedOf[p] = Displacing(p)
  BY <1>3, Zenon
<1> QED
  BY <1>2, <1>5, <1>6, <1>7, <1>8

LEMMA RefinementInit == Init => Slot!Init
<1> SUFFICES ASSUME Init PROVE Slot!Init
  OBVIOUS
<1>1. Shows(live) \in Contents \cup {Absent}
  <2>1. PICK c \in Contents : dir = [i \in Inode |-> c]
    BY DEF Init
  <2> QED
    BY <2>1 DEF Init, Shows, Entry
<1>2. [p \in Patcher |-> Shows(staged[p])] = [p \in Patcher |-> Absent]
  BY DEF Init, Shows
<1>3. [p \in Patcher |-> pc[p] \in HoldsDisplaced] = [p \in Patcher |-> FALSE]
  <2>1. \A p \in Patcher : (pc[p] \in HoldsDisplaced) = FALSE
    BY DEF Init, HoldsDisplaced
  <2> QED
    BY <2>1, Zenon
<1>4. toucher = External
  BY DEF Init
<1> QED
  BY <1>1, <1>2, <1>3, <1>4 DEF Slot!Init

LEMMA RefinementStep == Inv /\ Inv' /\ [Next]_vars => [Slot!Next]_(Slot!vars)
<1> SUFFICES ASSUME Inv, Inv', [Next]_vars PROVE Slot!Next \/ UNCHANGED Slot!vars
  BY DEF Slot!vars
<1> /\ TypeOK /\ TypeOK' /\ Hand /\ HoldsFound /\ Apart /\ EndInv
  BY DEF Inv, TInv, SInv
<1>1. ASSUME NEW p \in Patcher, PatcherStep(p) \/ Kill(p), UNCHANGED <<live, toucher>>,
             ~Displacing(p), ~Displacing(p)'
      PROVE Slot!Prepare(p)
  <2>1. Shows(staged[p])' \in Contents \cup {Absent}
    BY DEF TypeOK, Shows, Entry
  <2>2. Displacing(p)' = Displacing(p)
    BY <1>1 DEF Displacing
  <2>3. HandsOf' = [HandsOf EXCEPT ![p] = Shows(staged[p])'] /\ UNCHANGED DisplacedOf
    BY <1>1, <2>2, HandsMove
  <2>4. ~DisplacedOf[p] /\ UNCHANGED Shows(live)
    BY <1>1, HandsMove, Invisible
  <2> QED
    BY <1>1, <2>1, <2>3, <2>4 DEF Slot!Prepare, HandsOf, DisplacedOf
<1>2. ASSUME NEW p \in Patcher, PatcherStep(p) \/ Kill(p), UNCHANGED <<live, dir, toucher>>,
             staged'[p] = staged[p], Displacing(p)' = Displacing(p)
      PROVE UNCHANGED Slot!vars
  <2>1. Shows(staged[p])' = Shows(staged[p])
    BY <1>2 DEF Shows
  <2>2. HandsOf' = [HandsOf EXCEPT ![p] = Shows(staged[p])'] /\ UNCHANGED DisplacedOf
    BY <1>2, HandsMove
  <2>3. HandsOf' = HandsOf
    BY <2>1, <2>2 DEF HandsOf
  <2>4. UNCHANGED Shows(live)
    BY <1>2, Invisible
  <2> QED
    BY <1>2, <2>2, <2>3, <2>4 DEF Slot!vars, HandsOf, DisplacedOf
<1>3. ASSUME NEW p \in Patcher, PatcherStep(p) \/ Kill(p), UNCHANGED live, staged'[p] = Absent,
             ~Displacing(p)', toucher' \in {toucher} \cup (IF toucher = p THEN {External} ELSE {})
      PROVE Slot!GiveUp(p)
  <2>1. Shows(staged[p])' = Absent
    BY <1>3 DEF Shows
  <2>2. /\ HandsOf' = [HandsOf EXCEPT ![p] = Absent] /\ UNCHANGED Shows(live)
        /\ DisplacedOf' = [DisplacedOf EXCEPT ![p] = FALSE]
    BY <1>3, <2>1, HandsMove, Invisible
  <2> QED
    BY <1>3, <2>2 DEF Slot!GiveUp, HandsOf, DisplacedOf
<1>4. ASSUME NEW p \in Patcher, PatcherStep(p) \/ Kill(p), Swap(p), UNCHANGED dir,
             Displacing(p)' = ~Displacing(p)
      PROVE Slot!Exchange(p)
  <2>1. Shows(staged[p])' = Shows(live) /\ Shows(live)' = Shows(staged[p])
    BY <1>4 DEF Swap, Shows, TypeOK
  <2>2. /\ HandsOf' = [HandsOf EXCEPT ![p] = Shows(live)]
        /\ DisplacedOf' = [DisplacedOf EXCEPT ![p] = ~@]
    BY <1>4, <2>1, HandsMove
  <2>3. HandsOf[p] = Shows(staged[p]) /\ toucher' = p
    BY <1>4 DEF HandsOf, Swap
  <2> QED
    BY <2>1, <2>2, <2>3 DEF Slot!Exchange, HandsOf, DisplacedOf
<1>5. CASE ExternalStep
  <2>1. /\ UNCHANGED <<pc, staged>> /\ toucher' = External
        /\ \A i \in Inode : dir'[i] = dir[i] \/ i = live \/ i \in Fresh
    BY <1>5, ExternalFrame
  <2>2. \A q \in Patcher : Shows(staged[q])' = Shows(staged[q])
    BY <2>1, InHands DEF Shows, TypeOK, Entry
  <2>3. Shows(live)' \in Contents \cup {Absent}
    BY DEF TypeOK, Shows, Entry
  <2>4. UNCHANGED HandsOf /\ UNCHANGED DisplacedOf
    BY <2>1, <2>2 DEF HandsOf, DisplacedOf, HoldsDisplaced
  <2> QED
    BY <2>1, <2>3, <2>4 DEF Slot!Next, Slot!ExternalChange, HandsOf, DisplacedOf
<1>6. CASE UNCHANGED vars
  BY <1>6 DEF vars, local, files, history, Slot!vars, Shows
<1>7. ASSUME NEW p \in Patcher, PatcherStep(p) \/ Kill(p)
      PROVE Slot!Next \/ UNCHANGED Slot!vars
  <2> /\ pc \in [Patcher -> Steps] /\ staged \in [Patcher -> Entry] /\ Ready(p)
    BY DEF TypeOK, EndInv
  <2> USE DEF Goto, local, files, history, Displacing, HoldsDisplaced
  <2>1. ASSUME Slot!Prepare(p) \/ Slot!GiveUp(p) \/ Slot!Publish(p) \/ Slot!TakeBack(p)
        PROVE Slot!Next
    BY <2>1 DEF Slot!Next
  <2>2. CASE \/ Resolve(p) \/ Acquire(p) \/ Capture(p) \/ Classify(p) \/ Revalidate(p)
             \/ Proceed(p) \/ Escalate(p) \/ AuthorizingFails(p) \/ Stage(p) \/ Copy(p)
    <3>1. UNCHANGED <<live, toucher>> /\ ~Displacing(p) /\ ~Displacing(p)'
      BY <2>2 DEF Resolve, Acquire, Capture, Classify, Revalidate, Proceed, Escalate,
         AuthorizingFails, Authorizing, Stage, Copy
    <3> QED
      BY <1>1, <1>7, <2>1, <3>1
  <2>3. CASE Seal(p) \/ Validate(p) \/ StagingFails(p) \/ Confirm(p) \/ RollbackClose(p)
    <3>1. UNCHANGED <<live, toucher>> /\ ~Displacing(p) /\ ~Displacing(p)'
      BY <2>3 DEF Seal, Validate, StagingFails, Staging, FailUnpublished, Confirm, RollbackClose
    <3> QED
      BY <1>1, <1>7, <2>1, <3>1
  <2>4. CASE RollbackVerify(p)
    <3>1. UNCHANGED <<live, toucher>> /\ ~Displacing(p) /\ ~Displacing(p)'
      BY <2>4 DEF RollbackVerify, KeepAndFail
    <3> QED
      BY <1>1, <1>7, <2>1, <3>1
  <2>5. CASE Displaced(p) \/ Verify(p) \/ ParentKilled(p)
    <3>1. UNCHANGED <<live, dir, toucher>> /\ staged'[p] = staged[p] /\ Displacing(p)' = Displacing(p)
      BY <2>5 DEF Displaced, Verify, ParentKilled
    <3> QED
      BY <1>2, <1>7, <3>1
  <2>6. CASE Close(p) \/ RollbackFails(p) \/ ChildKilled(p)
    <3>1. UNCHANGED <<live, toucher>> /\ staged'[p] = Absent /\ ~Displacing(p)'
      BY <2>6 DEF Close, RollbackFails, ChildKilled, KeepAndFail
    <3> QED
      BY <1>3, <1>7, <2>1, <3>1
  <2>7. CASE Finish(p) \/ Killed(p)
    <3>1. UNCHANGED live /\ staged'[p] = Absent /\ ~Displacing(p)'
      BY <2>7 DEF Finish, Killed, Reset, Ready, Empty
    <3>2. toucher' \in {toucher} \cup (IF toucher = p THEN {External} ELSE {})
      BY <2>7 DEF Finish, Killed, Reset
    <3> QED
      BY <1>3, <1>7, <2>1, <3>1, <3>2
  <2>8. CASE RollbackCheck(p)
    <3>1. CASE UNCHANGED <<staged, kept>> /\ Goto(p, "rbrename")
      <4>1. UNCHANGED <<live, dir, toucher>> /\ staged'[p] = staged[p]
            /\ Displacing(p)' = Displacing(p)
        BY <2>8, <3>1 DEF RollbackCheck
      <4> QED
        BY <1>2, <1>7, <4>1
    <3>2. CASE KeepAndFail(p)
      <4>1. UNCHANGED <<live, toucher>> /\ staged'[p] = Absent /\ ~Displacing(p)'
        BY <2>8, <3>2 DEF RollbackCheck, KeepAndFail
      <4> QED
        BY <1>3, <1>7, <2>1, <4>1
    <3> QED
      BY <2>8, <3>1, <3>2 DEF RollbackCheck
  <2>9. CASE Exchange(p) \/ NoReplace(p)
    <3>1. CASE Publish(p)
      <4>1. Swap(p) /\ UNCHANGED dir /\ Displacing(p)' /\ ~Displacing(p)
        BY <2>9, <3>1 DEF Exchange, NoReplace, Publish
      <4>2. Slot!Exchange(p) /\ ~DisplacedOf[p]
        BY <1>4, <1>7, <4>1, HandsMove
      <4>3. HandsOf[p] = dir[staged[p]] /\ dir[staged[p]] \in Contents /\ Sealed(dir[staged[p]])
        BY <2>9, ConstantsAssumption DEF Exchange, NoReplace, Ready, Holds, HandsOf, Shows,
           Sealed, TypeOK
      <4>4. Slot!Publish(p)
        BY <4>2, <4>3 DEF Slot!Publish, HandsOf, DisplacedOf
      <4> QED
        BY <2>1, <4>4
    <3>2. CASE UNCHANGED <<live, toucher>> /\ (Goto(p, "noreplace") \/ FailUnpublished(p))
      <4>1. ~Displacing(p) /\ ~Displacing(p)'
        BY <2>9, <3>2 DEF Exchange, NoReplace, FailUnpublished
      <4> QED
        BY <1>1, <1>7, <2>1, <3>2, <4>1
    <3> QED
      BY <2>9, <3>1, <3>2 DEF Exchange, NoReplace
  <2>10. CASE RollbackRename(p) \/ RollbackMove(p)
    <3>1. CASE Swap(p) /\ Goto(p, "rbverify")
      <4>a. UNCHANGED dir /\ (pc[p] = "rbrename" \/ pc[p] = "rbmove")
        BY <2>10 DEF RollbackRename, RollbackMove
      <4>b. pc'[p] = "rbverify"
        <5>1. pc \in [Patcher -> Steps]
          BY DEF TypeOK
        <5>2. pc' = [pc EXCEPT ![p] = "rbverify"]
          BY <3>1
        <5> QED
          BY <1>7, <5>1, <5>2
      <4>1. Swap(p) /\ UNCHANGED dir /\ ~Displacing(p)' /\ Displacing(p)
        BY <3>1, <4>a, <4>b
      <4>c. Displacing(p)' = ~Displacing(p)
        BY <4>1 DEF Displacing
      <4>d. Slot!Exchange(p)
        BY <1>4, <1>7, <4>1, <4>c
      <4>e. DisplacedOf[p] = Displacing(p)
        BY <1>7, HandsMove
      <4>2. Slot!Exchange(p) /\ DisplacedOf[p]
        BY <4>1, <4>d, <4>e
      <4>3. Slot!TakeBack(p)
        BY <4>2 DEF Slot!TakeBack, DisplacedOf
      <4> QED
        BY <2>1, <4>3
    <3>2. CASE UNCHANGED <<live, staged, toucher>> /\ Goto(p, "rbmove") /\ RollbackRename(p)
      <4>1. UNCHANGED dir /\ Displacing(p)' = Displacing(p) /\ staged'[p] = staged[p]
        BY <3>2 DEF RollbackRename
      <4> QED
        BY <1>2, <1>7, <3>2, <4>1
    <3>3. CASE UNCHANGED <<live, toucher>> /\ KeepAndFail(p)
      <4>1. staged'[p] = Absent /\ pc'[p] = "failed"
        BY <3>3 DEF KeepAndFail
      <4>2. ~Displacing(p)'
        BY <4>1
      <4> QED
        BY <1>3, <1>7, <2>1, <3>3, <4>1, <4>2
    <3> QED
      BY <2>10, <3>1, <3>2, <3>3 DEF RollbackRename, RollbackMove
  <2> QED
    BY <1>7, <2>2, <2>3, <2>4, <2>5, <2>6, <2>7, <2>8, <2>9, <2>10
       DEF PatcherStep, Transaction, Kill
<1> QED
  BY <1>5, <1>6, <1>7 DEF Next

\* The publication transaction implements WholeSwap: whoever looks at the name WidevineCdm
\* sees whole components change places and nothing else, under the lock or without it.
THEOREM ImplementsWholeSwap == Spec => SwapsWhole
  BY RefinementInit, RefinementStep, Invariance, PTL DEF Spec, SwapsWhole, Slot!Spec

-----------------------------------------------------------------------------
(***************************************************************************)
(* What is removed was built by the remover or vetted.                     *)
(***************************************************************************)

NoOrphan == \A p \in Patcher : ~orphan[p]

\* The directory p works on is its own, and from the second look on the one it
\* is to replace is the one it classified: a directory that has lost the name
\* does not get it back while a handle keeps its inode number from others.
Vetted(p) ==
    /\ pc[p] \in Staging => maker[staged[p]] = p
    /\ pc[p] \in {"exchange", "noreplace"} \cup Published => maker[pub[p]] = p
    /\ pc[p] = "revalidate" /\ live = auth[p] => auth[p] \in vetted[p] \cup {Absent}
    /\ pc[p] \in {"preflight", "stage"} \cup Staging \cup Published =>
         auth[p] \in vetted[p] \cup {Absent}

VetInv == \A p \in Patcher : Vetted(p)

LEMMA VetInit == Init => VetInv
  BY DEF Init, VetInv, Vetted, Staging, Published

\* Who is at a transaction under a living parent is alone at it.
LEMMA Alone ==
  ASSUME TypeOK, LockInv, NoOrphan, NEW p \in Patcher, Transaction(p),
         NEW q \in Patcher, q # p
  PROVE  pc[q] \notin Working
<1>1. pc[p] \in Working \cup Ended
  <2> USE DEF Authorizing, Staging, Published, Working, Ended
  <2>1. CASE Capture(p) \/ Classify(p) \/ Revalidate(p) \/ Proceed(p) \/ Escalate(p)
             \/ AuthorizingFails(p)
    BY <2>1 DEF Capture, Classify, Revalidate, Proceed, Escalate, AuthorizingFails
  <2>2. CASE Stage(p) \/ Copy(p) \/ Seal(p) \/ Validate(p) \/ StagingFails(p)
    BY <2>2 DEF Stage, Copy, Seal, Validate, StagingFails
  <2>3. CASE Exchange(p) \/ NoReplace(p) \/ Displaced(p) \/ Verify(p) \/ Close(p) \/ Confirm(p)
    BY <2>3 DEF Exchange, NoReplace, Displaced, Verify, Close, Confirm
  <2>4. CASE RollbackCheck(p) \/ RollbackRename(p) \/ RollbackMove(p)
             \/ RollbackVerify(p) \/ RollbackClose(p) \/ RollbackFails(p)
    BY <2>4 DEF RollbackCheck, RollbackRename, RollbackMove, RollbackVerify, RollbackClose,
       RollbackFails
  <2> QED
    BY <2>1, <2>2, <2>3, <2>4 DEF Transaction
<1> QED
  BY <1>1 DEF LockInv, NoOrphan

\* A step of p keeps what p relies on.
LEMMA OwnVetted ==
  ASSUME Inv, NEW p \in Patcher, Vetted(p), PatcherStep(p) \/ Kill(p)
  PROVE  Vetted(p)'
<1> /\ pc \in [Patcher -> Steps] /\ staged \in [Patcher -> Entry] /\ auth \in [Patcher -> Entry]
    /\ pub \in [Patcher -> Entry] /\ maker \in [Inode -> Patcher \cup {External}]
    /\ vetted \in [Patcher -> SUBSET Inode] /\ Absent \notin Inode /\ live \in Entry
  BY ConstantsAssumption DEF Inv, TInv, TypeOK
<1> Ready(p) /\ (pc[p] \in Staging => staged[p] \in Inode)
    /\ (pc[p] \in {"exchange", "noreplace"} \cup Published => pub[p] \in Inode)
  BY DEF Inv, TInv, EndInv, Hand
<1> USE DEF Vetted, Goto, local, files, history, Authorizing, Staging, Published, Working, Ended
<1>1. CASE Resolve(p) \/ Acquire(p) \/ Finish(p)
  BY <1>1 DEF Resolve, Acquire, Finish, Reset
<1>2. CASE Capture(p) \/ Revalidate(p)
  BY <1>2 DEF Capture, Revalidate
<1>3. CASE Classify(p)
  BY <1>3 DEF Classify, Entry
<1>4. CASE Proceed(p) \/ Escalate(p) \/ AuthorizingFails(p)
  BY <1>4 DEF Proceed, Escalate, AuthorizingFails
<1>5. CASE Stage(p)
  <2>1. auth[p] \notin Fresh
    BY DEF Fresh, InUse
  <2> QED
    BY <1>5, <2>1 DEF Stage, Create, Fresh
<1>6. CASE Copy(p)
  BY <1>6 DEF Copy
<1>7. CASE Seal(p)
  BY <1>7 DEF Seal, FailUnpublished
<1>8. CASE Validate(p) \/ StagingFails(p)
  BY <1>8 DEF Validate, StagingFails, FailUnpublished
<1>9. CASE Exchange(p) \/ NoReplace(p)
  BY <1>9 DEF Exchange, NoReplace, Publish, Swap, FailUnpublished, Ready
<1>10. CASE Displaced(p) \/ Verify(p) \/ Close(p) \/ Confirm(p)
  BY <1>10 DEF Displaced, Verify, Close, Confirm, KeepAndFail
<1>11. CASE RollbackCheck(p) \/ RollbackVerify(p) \/ RollbackClose(p) \/ RollbackFails(p)
  BY <1>11 DEF RollbackCheck, RollbackVerify, RollbackClose, RollbackFails, KeepAndFail
<1>12. CASE RollbackRename(p) \/ RollbackMove(p)
  BY <1>12 DEF RollbackRename, RollbackMove, Swap, KeepAndFail
<1>13. CASE Kill(p)
  BY <1>13 DEF Kill, Killed, ChildKilled, ParentKilled, Reset, KeepAndFail
<1> QED
  BY <1>1, <1>2, <1>3, <1>4, <1>5, <1>6, <1>7, <1>8, <1>9, <1>10, <1>11, <1>12, <1>13
     DEF PatcherStep, Transaction

LEMMA VetStep == Inv /\ LockInv /\ NoOrphan /\ VetInv /\ [Next]_vars => VetInv'
<1> SUFFICES ASSUME Inv, LockInv, NoOrphan, VetInv, [Next]_vars, NEW q \in Patcher
             PROVE  Vetted(q)'
  BY DEF VetInv
<1> /\ TypeOK /\ Hand /\ Vetted(q) /\ Absent \notin Inode
  BY ConstantsAssumption DEF Inv, TInv, VetInv
<1> /\ pc \in [Patcher -> Steps] /\ staged \in [Patcher -> Entry] /\ auth \in [Patcher -> Entry]
    /\ pub \in [Patcher -> Entry] /\ maker \in [Inode -> Patcher \cup {External}]
    /\ vetted \in [Patcher -> SUBSET Inode] /\ live \in Entry
  BY DEF TypeOK
<1>1. CASE PatcherStep(q) \/ Kill(q)
  BY <1>1, OwnVetted DEF Inv
<1>2. ASSUME NEW p \in Patcher, p # q, Transaction(p) PROVE Vetted(q)'
  <2>1. pc[q] \notin Working
    BY <1>2, Alone
  <2>2. pc'[q] = pc[q]
    BY <1>2, StepFrame DEF PatcherStep, Frame
  <2> QED
    BY <2>1, <2>2 DEF Vetted, Authorizing, Staging, Published, Working
<1>3. ASSUME NEW p \in Patcher, p # q, Resolve(p) \/ Acquire(p) \/ Finish(p) \/ Kill(p)
      PROVE Vetted(q)'
  BY <1>3 DEF Vetted, Resolve, Acquire, Finish, Kill, Killed, ChildKilled, ParentKilled,
     KeepAndFail, Reset, Goto, local, files, history
<1>4. CASE ExternalStep
  <2>1. staged[q] \notin Fresh /\ auth[q] \notin Fresh /\ pub[q] \notin Fresh
    BY DEF Fresh, InUse, Present
  <2>2. UNCHANGED <<pc, staged, pub, auth>>
    BY <1>4 DEF ExternalStep, ExternalInstall, ExternalRemove, ExternalEdit, ExternalChange
  <2>3. CASE ExternalInstall
    <3>1. PICK i \in Fresh, c \in Contents : live' = i /\ Create(i, External, c)
      BY <2>3 DEF ExternalInstall
    <3>2. vetted'[q] = vetted[q] \ {i}
      BY <3>1 DEF Create
    <3>3. \A j \in Inode \ {i} : maker'[j] = maker[j]
      BY <3>1 DEF Create
    <3>4. live' # auth'[q]
      BY <2>1, <2>2, <3>1
    <3>5. pc[q] \in Staging => staged[q] \in Inode
      BY DEF Hand
    <3>6. pc[q] \in {"exchange", "noreplace"} \cup Published => pub[q] \in Inode
      BY DEF Hand
    <3> QED
      BY <2>1, <2>2, <3>1, <3>2, <3>3, <3>4, <3>5, <3>6 DEF Vetted
  <2>4. CASE ExternalRemove \/ ExternalEdit
    BY <2>2, <2>4 DEF ExternalRemove, ExternalEdit, ExternalChange, Vetted
  <2> QED
    BY <1>4, <2>3, <2>4 DEF ExternalStep
<1>5. CASE UNCHANGED vars
  BY <1>5 DEF vars, local, files, history, Vetted
<1> QED
  BY <1>1, <1>2, <1>3, <1>4, <1>5 DEF Next, PatcherStep

\* The directories a step of p removes: its own before it is published or when it
\* has been taken back, and what it displaced if that is what it was to replace.
LEMMA Removal ==
  ASSUME Inv, NEW p \in Patcher, PatcherStep(p) \/ Kill(p),
         NEW i \in Present \ Present'
  PROVE  /\ i = staged[p]
         /\ \/ pc[p] \in Staging \cup {"rbclose"}
            \/ pc[p] = "close" /\ staged[p] = auth[p]
<1> TypeOK /\ Hand /\ Ready(p)
  BY DEF Inv, TInv, EndInv
<1> /\ pc \in [Patcher -> Steps] /\ staged \in [Patcher -> Entry]
  BY DEF TypeOK
<1> DEFINE Gone == i \in {live, staged[p]} \cup kept /\ i \notin {live', staged'[p]} \cup kept'
           Due == /\ i = staged[p]
                  /\ \/ pc[p] \in Staging \cup {"rbclose"}
                     \/ pc[p] = "close" /\ staged[p] = auth[p]
<1>1. Gone
  <2>1. \A q \in Patcher \ {p} : staged'[q] = staged[q]
    BY StepFrame DEF Frame
  <2> QED
    BY <2>1 DEF Present
<1>2. i # Absent
  BY DEF Present
<1> USE <1>1, <1>2 DEF Goto, local, files, history
<1>3. CASE Resolve(p) \/ Acquire(p) \/ Finish(p)
  BY <1>3 DEF Resolve, Acquire, Finish, Reset
<1>4. CASE Capture(p) \/ Classify(p) \/ Revalidate(p) \/ Proceed(p) \/ Escalate(p)
           \/ AuthorizingFails(p)
  BY <1>4 DEF Capture, Classify, Revalidate, Proceed, Escalate, AuthorizingFails
<1>5. CASE Stage(p)
  BY <1>5 DEF Stage, Create, Ready, Empty, Authorizing
<1>6. CASE Copy(p) \/ Seal(p) \/ Validate(p) \/ StagingFails(p)
  BY <1>6 DEF Copy, Seal, Validate, StagingFails, FailUnpublished, Staging
<1>7. CASE Exchange(p) \/ NoReplace(p)
  BY <1>7 DEF Exchange, NoReplace, Publish, Swap, FailUnpublished, Staging
<1>8. CASE Displaced(p) \/ Verify(p) \/ Close(p) \/ Confirm(p)
  BY <1>8 DEF Displaced, Verify, Close, Confirm, KeepAndFail
<1>9. CASE RollbackCheck(p) \/ RollbackVerify(p) \/ RollbackClose(p) \/ RollbackFails(p)
  BY <1>9 DEF RollbackCheck, RollbackVerify, RollbackClose, RollbackFails, KeepAndFail
<1>10. CASE RollbackRename(p) \/ RollbackMove(p)
  BY <1>10 DEF RollbackRename, RollbackMove, Swap, KeepAndFail
<1>11. CASE Kill(p)
  BY <1>11 DEF Kill, Killed, ChildKilled, ParentKilled, Reset, KeepAndFail
<1> QED
  BY <1>3, <1>4, <1>5, <1>6, <1>7, <1>8, <1>9, <1>10, <1>11 DEF PatcherStep, Transaction

LEMMA VettedStep == Inv /\ VetInv /\ [Next]_vars => OnlyVetted
<1> SUFFICES ASSUME Inv, VetInv, [Next]_vars, NEW p \in Patcher, pc'[p] # pc[p],
                    NEW i \in Present \ Present'
             PROVE  maker[i] = p \/ i \in vetted[p]
  BY DEF OnlyVetted
<1> TypeOK /\ Hand
  BY DEF Inv, TInv
<1>1. PatcherStep(p) \/ Kill(p)
  <2>1. CASE ExternalStep
    BY <2>1, ExternalFrame
  <2>2. ASSUME NEW q \in Patcher, q # p, PatcherStep(q) \/ Kill(q) PROVE FALSE
    BY <2>2, StepFrame DEF Frame
  <2>3. CASE UNCHANGED vars
    BY <2>3 DEF vars
  <2> QED
    BY <2>1, <2>2, <2>3 DEF Next
<1>2. i # Absent
  BY DEF Present
<1>3. pc[p] = "rbclose" => staged[p] = pub[p]
  BY DEF Hand
<1> QED
  BY <1>1, <1>2, <1>3, Removal DEF VetInv, Vetted, Published

\* While no parent of an elevated child dies, what a run removes is what it built or
\* vetted, in that very incarnation (MCPublication!RemovesOnlyVetted), for any number
\* of patchers and directories and within whatever bounds a scope sets.
THEOREM RemovesWhatItVetted == MCSpec => RemovesOnlyVetted
<1> DEFINE Sole == scope # "orphans" => NoOrphan /\ LockInv /\ VetInv
<1>1. MCInit => Inv /\ Sole
  <2>1. Init => Inv
    BY TInvInit, SInvInit, EndInit DEF Inv
  <2>2. MCInit => Init /\ (scope # "orphans" => NoOrphan)
    BY DEF MCInit, Within, NoOrphan
  <2> QED
    BY <2>1, <2>2, LockInvInit, VetInit
<1>2. Inv /\ Sole /\ [MCNext]_<<vars, scope>> => (Inv /\ Sole)'
  <2> SUFFICES ASSUME Inv, Sole, [MCNext]_<<vars, scope>> PROVE (Inv /\ Sole)'
    OBVIOUS
  <2>1. [Next]_vars /\ scope' = scope
    BY DEF MCNext
  <2>2. Inv'
    BY <2>1, TInvStep, SInvStep, EndStep DEF Inv
  <2>3. scope # "orphans" => NoOrphan'
    BY DEF MCNext, Within, NoOrphan, vars, local
  <2>4. scope # "orphans" => LockInv' /\ VetInv'
    BY <2>1, LockInvStep, VetStep DEF Inv, TInv
  <2> QED
    BY <2>1, <2>2, <2>3, <2>4
<1>3. Inv /\ Sole /\ [MCNext]_<<vars, scope>> => [scope = "orphans" \/ OnlyVetted]_<<vars, scope>>
  BY VettedStep DEF MCNext
<1> QED
  BY <1>1, <1>2, <1>3, PTL DEF MCSpec, RemovesOnlyVetted
===========================================================================
