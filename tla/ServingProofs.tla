---------------------------- MODULE ServingProofs ---------------------------
(***************************************************************************)
(* What TLAPS proves about what serves the user: the self-update, scripts, *)
(* downloads, the probe, the tray and the control panel, each by an        *)
(* inductive invariant of its own, for every number of runs, children,     *)
(* hosts, clients, browsers, failures and others' changes; and that their  *)
(* steps, with those of the registrations, are whole.                      *)
(***************************************************************************)
EXTENDS InstallationProofs, SequenceTheorems

-----------------------------------------------------------------------------
(* The self-update.                                                         *)

\* The bounds are numbers.
LEMMA UpdaterNumbers == Releases \in Nat /\ Updates \in Nat /\ UpdateFaults \in Nat
BY ServingAssumption

\* Every step of an update keeps the types.
LEMMA UpdaterTypes ==
    ASSUME Updater!TypeOK, Updater!Next
    PROVE  Updater!TypeOK'
<1> USE UpdaterNumbers DEF Updater!Run, Updater!Versions, Updater!Nobody, Updater!perrun,
   Updater!Working, Updater!TypeOK
<1>1. ASSUME Updater!ManualBegin PROVE Updater!TypeOK'
    BY <1>1 DEF Updater!ManualBegin, Updater!Goto
<1>2. ASSUME Updater!AutoBegin PROVE Updater!TypeOK'
    BY <1>2 DEF Updater!AutoBegin, Updater!Goto
<1>3. ASSUME Updater!Patch PROVE Updater!TypeOK'
    BY <1>3 DEF Updater!Patch
<1>4. ASSUME Updater!Release PROVE Updater!TypeOK'
    BY <1>4 DEF Updater!Release
<1>5. ASSUME NEW r \in Updater!Run, Updater!Prepare(r) PROVE Updater!TypeOK'
    BY <1>5 DEF Updater!Prepare, Updater!Goto, Updater!Fault, Updater!NoFault, Updater!End,
       Updater!Place
<1>6. ASSUME NEW r \in Updater!Run, Updater!SidecarKeeps(r) PROVE Updater!TypeOK'
    BY <1>6 DEF Updater!SidecarKeeps, Updater!Goto, Updater!Fault, Updater!NoFault
<1>7. ASSUME NEW r \in Updater!Run, Updater!SidecarWrites(r) PROVE Updater!TypeOK'
    BY <1>7 DEF Updater!SidecarWrites, Updater!Goto
<1>8. ASSUME NEW r \in Updater!Run, Updater!SidecarRecords(r) PROVE Updater!TypeOK'
    BY <1>8 DEF Updater!SidecarRecords, Updater!Goto
<1>9. ASSUME NEW r \in Updater!Run, Updater!SidecarElsewhere(r) PROVE Updater!TypeOK'
    BY <1>9 DEF Updater!SidecarElsewhere, Updater!Goto, Updater!Fault
<1>10. ASSUME NEW r \in Updater!Run, Updater!SidecarFails(r) PROVE Updater!TypeOK'
    BY <1>10 DEF Updater!SidecarFails, Updater!Goto, Updater!Fault
<1>11. ASSUME NEW r \in Updater!Run, Updater!Finish(r) PROVE Updater!TypeOK'
    <2>1. x5' \subseteq x5 \cup {x9[r]} \* what is kept
        BY <1>11, Zenon DEF Updater!Finish, Updater!Goto
    <2>2. x9[r] \in Updater!Versions
        BY <1>11
    <2>3. x5' \subseteq Updater!Versions
        BY <2>1, <2>2
    <2> QED BY <1>11, <2>3 DEF Updater!Finish, Updater!Goto
<1>12. ASSUME NEW r \in Updater!Run, Updater!RestoreExe(r) PROVE Updater!TypeOK'
    <2>1. x5' \subseteq x5 \cup {x9[r]} \* what is kept
        BY <1>12, Zenon DEF Updater!RestoreExe, Updater!Goto,
                       Updater!Fault, Updater!NoFault, Updater!End
    <2>2. x9[r] \in Updater!Versions
        BY <1>12
    <2>3. x5' \subseteq Updater!Versions
        BY <2>1, <2>2
    <2> QED BY <1>12, <2>3 DEF Updater!RestoreExe, Updater!Goto,
                       Updater!Fault, Updater!NoFault, Updater!End
<1>13. ASSUME NEW r \in Updater!Run, Updater!RestoreReceipt(r) PROVE Updater!TypeOK'
    BY <1>13 DEF Updater!RestoreReceipt, Updater!Goto, Updater!Fault, Updater!NoFault,
       Updater!End
<1>14. ASSUME NEW r \in Updater!Run, Updater!RestartDaemon(r) PROVE Updater!TypeOK'
    BY <1>14 DEF Updater!RestartDaemon, Updater!Goto, Updater!Fault, Updater!NoFault,
       Updater!End
<1>15. ASSUME NEW r \in Updater!Run, Updater!Return(r) PROVE Updater!TypeOK'
    BY <1>15 DEF Updater!Return, Updater!End, Updater!Goto
<1>16. ASSUME NEW r \in Updater!Run, Updater!Kill(r) PROVE Updater!TypeOK'
    <2>1. x5' \subseteq x5 \cup {x9[r]} \* what is kept
        BY <1>16, Zenon DEF Updater!Kill, Updater!Goto, Updater!Fault, Updater!End
    <2>2. x9[r] \in Updater!Versions
        BY <1>16
    <2>3. x5' \subseteq Updater!Versions
        BY <2>1, <2>2
    <2> QED BY <1>16, <2>3 DEF Updater!Kill, Updater!Goto, Updater!Fault, Updater!End
<1> QED BY <1>1, <1>2, <1>3, <1>4, <1>5, <1>6, <1>7, <1>8, <1>9, <1>10, <1>11, <1>12, <1>13,
   <1>14, <1>15, <1>16 DEF Updater!Next, Updater!Step

\* A run takes and releases the old executable where it should.
LEMMA UpdaterBacked ==
    ASSUME Updater!TypeOK, Updater!Backed, Updater!Released, Updater!Next
    PROVE  Updater!Backed'
<1> USE DEF Updater!Run, Updater!Versions, Updater!Nobody, Updater!perrun, Updater!Working,
   Updater!TypeOK, Updater!Backed, Updater!Released
<1>1. ASSUME Updater!ManualBegin PROVE Updater!Backed'
    BY <1>1 DEF Updater!ManualBegin, Updater!Goto
<1>2. ASSUME Updater!AutoBegin PROVE Updater!Backed'
    BY <1>2 DEF Updater!AutoBegin, Updater!Goto
<1>3. ASSUME Updater!Patch PROVE Updater!Backed'
    BY <1>3 DEF Updater!Patch
<1>4. ASSUME Updater!Release PROVE Updater!Backed'
    BY <1>4 DEF Updater!Release
<1>5. ASSUME NEW r \in Updater!Run, Updater!Prepare(r) PROVE Updater!Backed'
    BY <1>5 DEF Updater!Prepare, Updater!Goto, Updater!Fault, Updater!NoFault, Updater!End,
       Updater!Place
<1>6. ASSUME NEW r \in Updater!Run, Updater!SidecarKeeps(r) PROVE Updater!Backed'
    BY <1>6 DEF Updater!SidecarKeeps, Updater!Goto, Updater!Fault, Updater!NoFault
<1>7. ASSUME NEW r \in Updater!Run, Updater!SidecarWrites(r) PROVE Updater!Backed'
    BY <1>7 DEF Updater!SidecarWrites, Updater!Goto
<1>8. ASSUME NEW r \in Updater!Run, Updater!SidecarRecords(r) PROVE Updater!Backed'
    BY <1>8 DEF Updater!SidecarRecords, Updater!Goto
<1>9. ASSUME NEW r \in Updater!Run, Updater!SidecarElsewhere(r) PROVE Updater!Backed'
    BY <1>9 DEF Updater!SidecarElsewhere, Updater!Goto, Updater!Fault
<1>10. ASSUME NEW r \in Updater!Run, Updater!SidecarFails(r) PROVE Updater!Backed'
    BY <1>10 DEF Updater!SidecarFails, Updater!Goto, Updater!Fault
<1>11. ASSUME NEW r \in Updater!Run, Updater!Finish(r) PROVE Updater!Backed'
    BY <1>11 DEF Updater!Finish, Updater!Goto
<1>12. ASSUME NEW r \in Updater!Run, Updater!RestoreExe(r) PROVE Updater!Backed'
    BY <1>12 DEF Updater!RestoreExe, Updater!Goto, Updater!Fault, Updater!NoFault,
       Updater!End
<1>13. ASSUME NEW r \in Updater!Run, Updater!RestoreReceipt(r) PROVE Updater!Backed'
    BY <1>13 DEF Updater!RestoreReceipt, Updater!Goto, Updater!Fault, Updater!NoFault,
       Updater!End
<1>14. ASSUME NEW r \in Updater!Run, Updater!RestartDaemon(r) PROVE Updater!Backed'
    BY <1>14 DEF Updater!RestartDaemon, Updater!Goto, Updater!Fault, Updater!NoFault,
       Updater!End
<1>15. ASSUME NEW r \in Updater!Run, Updater!Return(r) PROVE Updater!Backed'
    BY <1>15 DEF Updater!Return, Updater!End, Updater!Goto
<1>16. ASSUME NEW r \in Updater!Run, Updater!Kill(r) PROVE Updater!Backed'
    BY <1>16 DEF Updater!Kill, Updater!Fault, Updater!End, Updater!Goto
<1> QED BY <1>1, <1>2, <1>3, <1>4, <1>5, <1>6, <1>7, <1>8, <1>9, <1>10, <1>11, <1>12, <1>13,
   <1>14, <1>15, <1>16 DEF Updater!Next, Updater!Step

\* Nothing newer than the latest release is put anywhere.
LEMMA UpdaterReleased ==
    ASSUME Updater!TypeOK, Updater!Backed, Updater!Released, Updater!Next
    PROVE  Updater!Released'
<1> USE UpdaterNumbers DEF Updater!Run, Updater!Versions, Updater!Nobody, Updater!perrun,
   Updater!Working, Updater!TypeOK, Updater!Released, Updater!Backed
<1>1. ASSUME Updater!ManualBegin PROVE Updater!Released'
    BY <1>1 DEF Updater!ManualBegin, Updater!Goto
<1>2. ASSUME Updater!AutoBegin PROVE Updater!Released'
    BY <1>2 DEF Updater!AutoBegin, Updater!Goto
<1>3. ASSUME Updater!Patch PROVE Updater!Released'
    BY <1>3 DEF Updater!Patch
<1>4. ASSUME Updater!Release PROVE Updater!Released'
    BY <1>4 DEF Updater!Release
<1>5. ASSUME NEW r \in Updater!Run, Updater!Prepare(r) PROVE Updater!Released'
    BY <1>5 DEF Updater!Prepare, Updater!Goto, Updater!Fault, Updater!NoFault, Updater!End,
       Updater!Place
<1>6. ASSUME NEW r \in Updater!Run, Updater!SidecarKeeps(r) PROVE Updater!Released'
    BY <1>6 DEF Updater!SidecarKeeps, Updater!Goto, Updater!Fault, Updater!NoFault
<1>7. ASSUME NEW r \in Updater!Run, Updater!SidecarWrites(r) PROVE Updater!Released'
    BY <1>7 DEF Updater!SidecarWrites, Updater!Goto
<1>8. ASSUME NEW r \in Updater!Run, Updater!SidecarRecords(r) PROVE Updater!Released'
    BY <1>8 DEF Updater!SidecarRecords, Updater!Goto
<1>9. ASSUME NEW r \in Updater!Run, Updater!SidecarElsewhere(r) PROVE Updater!Released'
    BY <1>9 DEF Updater!SidecarElsewhere, Updater!Goto, Updater!Fault
<1>10. ASSUME NEW r \in Updater!Run, Updater!SidecarFails(r) PROVE Updater!Released'
    BY <1>10 DEF Updater!SidecarFails, Updater!Goto, Updater!Fault
<1>11. ASSUME NEW r \in Updater!Run, Updater!Finish(r) PROVE Updater!Released'
    BY <1>11 DEF Updater!Finish, Updater!Goto
<1>12. ASSUME NEW r \in Updater!Run, Updater!RestoreExe(r) PROVE Updater!Released'
    BY <1>12 DEF Updater!RestoreExe, Updater!Goto, Updater!Fault, Updater!NoFault,
       Updater!End
<1>13. ASSUME NEW r \in Updater!Run, Updater!RestoreReceipt(r) PROVE Updater!Released'
    BY <1>13 DEF Updater!RestoreReceipt, Updater!Goto, Updater!Fault, Updater!NoFault,
       Updater!End
<1>14. ASSUME NEW r \in Updater!Run, Updater!RestartDaemon(r) PROVE Updater!Released'
    BY <1>14 DEF Updater!RestartDaemon, Updater!Goto, Updater!Fault, Updater!NoFault,
       Updater!End
<1>15. ASSUME NEW r \in Updater!Run, Updater!Return(r) PROVE Updater!Released'
    BY <1>15 DEF Updater!Return, Updater!End, Updater!Goto
<1>16. ASSUME NEW r \in Updater!Run, Updater!Kill(r) PROVE Updater!Released'
    BY <1>16 DEF Updater!Kill, Updater!Fault, Updater!End, Updater!Goto
<1> QED BY <1>1, <1>2, <1>3, <1>4, <1>5, <1>6, <1>7, <1>8, <1>9, <1>10, <1>11, <1>12, <1>13,
   <1>14, <1>15, <1>16 DEF Updater!Next, Updater!Step

\* Two runs at work are seen to overlap.
LEMMA UpdaterSeen ==
    ASSUME Updater!TypeOK, Updater!Seen, Updater!Next
    PROVE  Updater!Seen'
<1> USE DEF Updater!Run, Updater!Versions, Updater!Nobody, Updater!perrun, Updater!Working,
   Updater!TypeOK, Updater!Seen
<1>1. ASSUME Updater!ManualBegin PROVE Updater!Seen'
    BY <1>1 DEF Updater!ManualBegin, Updater!Goto
<1>2. ASSUME Updater!AutoBegin PROVE Updater!Seen'
    BY <1>2 DEF Updater!AutoBegin, Updater!Goto
<1>3. ASSUME Updater!Patch PROVE Updater!Seen'
    BY <1>3 DEF Updater!Patch
<1>4. ASSUME Updater!Release PROVE Updater!Seen'
    BY <1>4 DEF Updater!Release
<1>5. ASSUME NEW r \in Updater!Run, Updater!Prepare(r) PROVE Updater!Seen'
    BY <1>5 DEF Updater!Prepare, Updater!Goto, Updater!Fault, Updater!NoFault, Updater!End,
       Updater!Place
<1>6. ASSUME NEW r \in Updater!Run, Updater!SidecarKeeps(r) PROVE Updater!Seen'
    BY <1>6 DEF Updater!SidecarKeeps, Updater!Goto, Updater!Fault, Updater!NoFault
<1>7. ASSUME NEW r \in Updater!Run, Updater!SidecarWrites(r) PROVE Updater!Seen'
    BY <1>7 DEF Updater!SidecarWrites, Updater!Goto
<1>8. ASSUME NEW r \in Updater!Run, Updater!SidecarRecords(r) PROVE Updater!Seen'
    BY <1>8 DEF Updater!SidecarRecords, Updater!Goto
<1>9. ASSUME NEW r \in Updater!Run, Updater!SidecarElsewhere(r) PROVE Updater!Seen'
    BY <1>9 DEF Updater!SidecarElsewhere, Updater!Goto, Updater!Fault
<1>10. ASSUME NEW r \in Updater!Run, Updater!SidecarFails(r) PROVE Updater!Seen'
    BY <1>10 DEF Updater!SidecarFails, Updater!Goto, Updater!Fault
<1>11. ASSUME NEW r \in Updater!Run, Updater!Finish(r) PROVE Updater!Seen'
    BY <1>11 DEF Updater!Finish, Updater!Goto
<1>12. ASSUME NEW r \in Updater!Run, Updater!RestoreExe(r) PROVE Updater!Seen'
    BY <1>12 DEF Updater!RestoreExe, Updater!Goto, Updater!Fault, Updater!NoFault,
       Updater!End
<1>13. ASSUME NEW r \in Updater!Run, Updater!RestoreReceipt(r) PROVE Updater!Seen'
    BY <1>13 DEF Updater!RestoreReceipt, Updater!Goto, Updater!Fault, Updater!NoFault,
       Updater!End
<1>14. ASSUME NEW r \in Updater!Run, Updater!RestartDaemon(r) PROVE Updater!Seen'
    BY <1>14 DEF Updater!RestartDaemon, Updater!Goto, Updater!Fault, Updater!NoFault,
       Updater!End
<1>15. ASSUME NEW r \in Updater!Run, Updater!Return(r) PROVE Updater!Seen'
    BY <1>15 DEF Updater!Return, Updater!End, Updater!Goto
<1>16. ASSUME NEW r \in Updater!Run, Updater!Kill(r) PROVE Updater!Seen'
    BY <1>16 DEF Updater!Kill, Updater!Fault, Updater!End, Updater!Goto
<1> QED BY <1>1, <1>2, <1>3, <1>4, <1>5, <1>6, <1>7, <1>8, <1>9, <1>10, <1>11, <1>12, <1>13,
   <1>14, <1>15, <1>16 DEF Updater!Next, Updater!Step

\* A run that is alone on Windows does what it knows of the place.
LEMMA UpdaterAlone ==
    ASSUME Updater!TypeOK, Updater!Backed, Updater!Released, Updater!Seen,
       Updater!AloneRight, Updater!Next
    PROVE  Updater!AloneRight'
<1> USE DEF Updater!Run, Updater!Versions, Updater!Nobody, Updater!perrun, Updater!Working,
   Updater!TypeOK, Updater!Backed, Updater!Released, Updater!Seen, Updater!AloneRight,
   Updater!Alone
<1>1. ASSUME Updater!ManualBegin PROVE Updater!AloneRight'
    BY <1>1 DEF Updater!ManualBegin, Updater!Goto
<1>2. ASSUME Updater!AutoBegin PROVE Updater!AloneRight'
    BY <1>2 DEF Updater!AutoBegin, Updater!Goto
<1>3. ASSUME Updater!Patch PROVE Updater!AloneRight'
    BY <1>3 DEF Updater!Patch
<1>4. ASSUME Updater!Release PROVE Updater!AloneRight'
    BY <1>4 DEF Updater!Release
<1>5. ASSUME NEW r \in Updater!Run, Updater!Prepare(r) PROVE Updater!AloneRight'
    BY <1>5 DEF Updater!Prepare, Updater!Goto, Updater!Fault, Updater!NoFault, Updater!End,
       Updater!Place
<1>6. ASSUME NEW r \in Updater!Run, Updater!SidecarKeeps(r) PROVE Updater!AloneRight'
    BY <1>6 DEF Updater!SidecarKeeps, Updater!Goto, Updater!Fault, Updater!NoFault
<1>7. ASSUME NEW r \in Updater!Run, Updater!SidecarWrites(r) PROVE Updater!AloneRight'
    BY <1>7 DEF Updater!SidecarWrites, Updater!Goto
<1>8. ASSUME NEW r \in Updater!Run, Updater!SidecarRecords(r) PROVE Updater!AloneRight'
    BY <1>8 DEF Updater!SidecarRecords, Updater!Goto
<1>9. ASSUME NEW r \in Updater!Run, Updater!SidecarElsewhere(r) PROVE Updater!AloneRight'
    BY <1>9 DEF Updater!SidecarElsewhere, Updater!Goto, Updater!Fault
<1>10. ASSUME NEW r \in Updater!Run, Updater!SidecarFails(r) PROVE Updater!AloneRight'
    BY <1>10 DEF Updater!SidecarFails, Updater!Goto, Updater!Fault
<1>11. ASSUME NEW r \in Updater!Run, Updater!Finish(r) PROVE Updater!AloneRight'
    BY <1>11 DEF Updater!Finish, Updater!Goto
<1>12. ASSUME NEW r \in Updater!Run, Updater!RestoreExe(r) PROVE Updater!AloneRight'
    BY <1>12 DEF Updater!RestoreExe, Updater!Goto, Updater!Fault, Updater!NoFault,
       Updater!End
<1>13. ASSUME NEW r \in Updater!Run, Updater!RestoreReceipt(r) PROVE Updater!AloneRight'
    BY <1>13 DEF Updater!RestoreReceipt, Updater!Goto, Updater!Fault, Updater!NoFault,
       Updater!End
<1>14. ASSUME NEW r \in Updater!Run, Updater!RestartDaemon(r) PROVE Updater!AloneRight'
    BY <1>14 DEF Updater!RestartDaemon, Updater!Goto, Updater!Fault, Updater!NoFault,
       Updater!End
<1>15. ASSUME NEW r \in Updater!Run, Updater!Return(r) PROVE Updater!AloneRight'
    BY <1>15 DEF Updater!Return, Updater!End, Updater!Goto
<1>16. ASSUME NEW r \in Updater!Run, Updater!Kill(r) PROVE Updater!AloneRight'
    BY <1>16 DEF Updater!Kill, Updater!Fault, Updater!End, Updater!Goto
<1> QED BY <1>1, <1>2, <1>3, <1>4, <1>5, <1>6, <1>7, <1>8, <1>9, <1>10, <1>11, <1>12, <1>13,
   <1>14, <1>15, <1>16 DEF Updater!Next, Updater!Step

\* The receipt gets ahead of the executable only by an error that is told.
LEMMA UpdaterNotAhead ==
    ASSUME Updater!TypeOK, Updater!Backed, Updater!Released, Updater!Seen,
       Updater!AloneRight, Updater!NotAhead, Updater!AllOrNothing, Updater!Next
    PROVE  Updater!NotAhead'
<1> USE DEF Updater!Run, Updater!Versions, Updater!Nobody, Updater!perrun, Updater!Working,
   Updater!TypeOK, Updater!Backed, Updater!Released, Updater!Seen, Updater!AloneRight,
   Updater!Alone, Updater!NotAhead, Updater!AllOrNothing, Updater!Place
<1>1. ASSUME Updater!ManualBegin PROVE Updater!NotAhead'
    BY <1>1 DEF Updater!ManualBegin, Updater!Goto
<1>2. ASSUME Updater!AutoBegin PROVE Updater!NotAhead'
    BY <1>2 DEF Updater!AutoBegin, Updater!Goto
<1>3. ASSUME Updater!Patch PROVE Updater!NotAhead'
    BY <1>3 DEF Updater!Patch
<1>4. ASSUME Updater!Release PROVE Updater!NotAhead'
    BY <1>4 DEF Updater!Release
<1>5. ASSUME NEW r \in Updater!Run, Updater!Prepare(r) PROVE Updater!NotAhead'
    BY <1>5 DEF Updater!Prepare, Updater!Goto, Updater!Fault, Updater!NoFault, Updater!End,
       Updater!Place
<1>6. ASSUME NEW r \in Updater!Run, Updater!SidecarKeeps(r) PROVE Updater!NotAhead'
    BY <1>6 DEF Updater!SidecarKeeps, Updater!Goto, Updater!Fault, Updater!NoFault
<1>7. ASSUME NEW r \in Updater!Run, Updater!SidecarWrites(r) PROVE Updater!NotAhead'
    BY <1>7 DEF Updater!SidecarWrites, Updater!Goto
<1>8. ASSUME NEW r \in Updater!Run, Updater!SidecarRecords(r) PROVE Updater!NotAhead'
    BY <1>8 DEF Updater!SidecarRecords, Updater!Goto
<1>9. ASSUME NEW r \in Updater!Run, Updater!SidecarElsewhere(r) PROVE Updater!NotAhead'
    BY <1>9 DEF Updater!SidecarElsewhere, Updater!Goto, Updater!Fault
<1>10. ASSUME NEW r \in Updater!Run, Updater!SidecarFails(r) PROVE Updater!NotAhead'
    BY <1>10 DEF Updater!SidecarFails, Updater!Goto, Updater!Fault
<1>11. ASSUME NEW r \in Updater!Run, Updater!Finish(r) PROVE Updater!NotAhead'
    BY <1>11 DEF Updater!Finish, Updater!Goto
<1>12. ASSUME NEW r \in Updater!Run, Updater!RestoreExe(r) PROVE Updater!NotAhead'
    BY <1>12 DEF Updater!RestoreExe, Updater!Goto, Updater!Fault, Updater!NoFault,
       Updater!End
<1>13. ASSUME NEW r \in Updater!Run, Updater!RestoreReceipt(r) PROVE Updater!NotAhead'
    BY <1>13 DEF Updater!RestoreReceipt, Updater!Goto, Updater!Fault, Updater!NoFault,
       Updater!End
<1>14. ASSUME NEW r \in Updater!Run, Updater!RestartDaemon(r) PROVE Updater!NotAhead'
    BY <1>14 DEF Updater!RestartDaemon, Updater!Goto, Updater!Fault, Updater!NoFault,
       Updater!End
<1>15. ASSUME NEW r \in Updater!Run, Updater!Return(r) PROVE Updater!NotAhead'
    BY <1>15 DEF Updater!Return, Updater!End, Updater!Goto
<1>16. ASSUME NEW r \in Updater!Run, Updater!Kill(r) PROVE Updater!NotAhead'
    BY <1>16 DEF Updater!Kill, Updater!Fault, Updater!End, Updater!Goto
<1> QED BY <1>1, <1>2, <1>3, <1>4, <1>5, <1>6, <1>7, <1>8, <1>9, <1>10, <1>11, <1>12, <1>13,
   <1>14, <1>15, <1>16 DEF Updater!Next, Updater!Step

\* The old executable is let go once the new one is seen.
LEMMA UpdaterKeeps ==
    ASSUME Updater!TypeOK, Updater!Backed, Updater!Released, Updater!ExecutableSomewhere,
       Updater!Next
    PROVE  Updater!ExecutableSomewhere'
<1> USE DEF Updater!Run, Updater!Versions, Updater!Nobody, Updater!perrun, Updater!Working,
   Updater!TypeOK, Updater!Backed, Updater!Released, Updater!ExecutableSomewhere
<1>1. ASSUME Updater!ManualBegin PROVE Updater!ExecutableSomewhere'
    BY <1>1 DEF Updater!ManualBegin, Updater!Goto
<1>2. ASSUME Updater!AutoBegin PROVE Updater!ExecutableSomewhere'
    BY <1>2 DEF Updater!AutoBegin, Updater!Goto
<1>3. ASSUME Updater!Patch PROVE Updater!ExecutableSomewhere'
    BY <1>3 DEF Updater!Patch
<1>4. ASSUME Updater!Release PROVE Updater!ExecutableSomewhere'
    BY <1>4 DEF Updater!Release
<1>5. ASSUME NEW r \in Updater!Run, Updater!Prepare(r) PROVE Updater!ExecutableSomewhere'
    BY <1>5 DEF Updater!Prepare, Updater!Goto, Updater!Fault, Updater!NoFault, Updater!End,
       Updater!Place
<1>6. ASSUME NEW r \in Updater!Run, Updater!SidecarKeeps(r) PROVE Updater!ExecutableSomewhere'
    BY <1>6 DEF Updater!SidecarKeeps, Updater!Goto, Updater!Fault, Updater!NoFault
<1>7. ASSUME NEW r \in Updater!Run, Updater!SidecarWrites(r) PROVE Updater!ExecutableSomewhere'
    BY <1>7 DEF Updater!SidecarWrites, Updater!Goto
<1>8. ASSUME NEW r \in Updater!Run, Updater!SidecarRecords(r) PROVE Updater!ExecutableSomewhere'
    BY <1>8 DEF Updater!SidecarRecords, Updater!Goto
<1>9. ASSUME NEW r \in Updater!Run, Updater!SidecarElsewhere(r) PROVE Updater!ExecutableSomewhere'
    BY <1>9 DEF Updater!SidecarElsewhere, Updater!Goto, Updater!Fault
<1>10. ASSUME NEW r \in Updater!Run, Updater!SidecarFails(r) PROVE Updater!ExecutableSomewhere'
    BY <1>10 DEF Updater!SidecarFails, Updater!Goto, Updater!Fault
<1>11. ASSUME NEW r \in Updater!Run, Updater!Finish(r) PROVE Updater!ExecutableSomewhere'
    BY <1>11 DEF Updater!Finish, Updater!Goto
<1>12. ASSUME NEW r \in Updater!Run, Updater!RestoreExe(r) PROVE Updater!ExecutableSomewhere'
    BY <1>12 DEF Updater!RestoreExe, Updater!Goto, Updater!Fault, Updater!NoFault,
       Updater!End
<1>13. ASSUME NEW r \in Updater!Run, Updater!RestoreReceipt(r) PROVE Updater!ExecutableSomewhere'
    BY <1>13 DEF Updater!RestoreReceipt, Updater!Goto, Updater!Fault, Updater!NoFault,
       Updater!End
<1>14. ASSUME NEW r \in Updater!Run, Updater!RestartDaemon(r) PROVE Updater!ExecutableSomewhere'
    BY <1>14 DEF Updater!RestartDaemon, Updater!Goto, Updater!Fault, Updater!NoFault,
       Updater!End
<1>15. ASSUME NEW r \in Updater!Run, Updater!Return(r) PROVE Updater!ExecutableSomewhere'
    BY <1>15 DEF Updater!Return, Updater!End, Updater!Goto
<1>16. ASSUME NEW r \in Updater!Run, Updater!Kill(r) PROVE Updater!ExecutableSomewhere'
    BY <1>16 DEF Updater!Kill, Updater!Fault, Updater!End, Updater!Goto
<1> QED BY <1>1, <1>2, <1>3, <1>4, <1>5, <1>6, <1>7, <1>8, <1>9, <1>10, <1>11, <1>12, <1>13,
   <1>14, <1>15, <1>16 DEF Updater!Next, Updater!Step

\* A run alone ends with both files as they were, or both new.
LEMMA UpdaterWhole ==
    ASSUME Updater!TypeOK, Updater!Backed, Updater!Released, Updater!Seen,
       Updater!AloneRight, Updater!AllOrNothing, Updater!Next
    PROVE  Updater!AllOrNothing'
<1> USE DEF Updater!Run, Updater!Versions, Updater!Nobody, Updater!perrun, Updater!Working,
   Updater!TypeOK, Updater!Backed, Updater!Released, Updater!Seen, Updater!AloneRight,
   Updater!Alone, Updater!AllOrNothing, Updater!Place
<1>1. ASSUME Updater!ManualBegin PROVE Updater!AllOrNothing'
    BY <1>1 DEF Updater!ManualBegin, Updater!Goto
<1>2. ASSUME Updater!AutoBegin PROVE Updater!AllOrNothing'
    BY <1>2 DEF Updater!AutoBegin, Updater!Goto
<1>3. ASSUME Updater!Patch PROVE Updater!AllOrNothing'
    BY <1>3 DEF Updater!Patch
<1>4. ASSUME Updater!Release PROVE Updater!AllOrNothing'
    BY <1>4 DEF Updater!Release
<1>5. ASSUME NEW r \in Updater!Run, Updater!Prepare(r) PROVE Updater!AllOrNothing'
    BY <1>5 DEF Updater!Prepare, Updater!Goto, Updater!Fault, Updater!NoFault, Updater!End,
       Updater!Place
<1>6. ASSUME NEW r \in Updater!Run, Updater!SidecarKeeps(r) PROVE Updater!AllOrNothing'
    BY <1>6 DEF Updater!SidecarKeeps, Updater!Goto, Updater!Fault, Updater!NoFault
<1>7. ASSUME NEW r \in Updater!Run, Updater!SidecarWrites(r) PROVE Updater!AllOrNothing'
    BY <1>7 DEF Updater!SidecarWrites, Updater!Goto
<1>8. ASSUME NEW r \in Updater!Run, Updater!SidecarRecords(r) PROVE Updater!AllOrNothing'
    BY <1>8 DEF Updater!SidecarRecords, Updater!Goto
<1>9. ASSUME NEW r \in Updater!Run, Updater!SidecarElsewhere(r) PROVE Updater!AllOrNothing'
    BY <1>9 DEF Updater!SidecarElsewhere, Updater!Goto, Updater!Fault
<1>10. ASSUME NEW r \in Updater!Run, Updater!SidecarFails(r) PROVE Updater!AllOrNothing'
    BY <1>10 DEF Updater!SidecarFails, Updater!Goto, Updater!Fault
<1>11. ASSUME NEW r \in Updater!Run, Updater!Finish(r) PROVE Updater!AllOrNothing'
    BY <1>11 DEF Updater!Finish, Updater!Goto
<1>12. ASSUME NEW r \in Updater!Run, Updater!RestoreExe(r) PROVE Updater!AllOrNothing'
    BY <1>12 DEF Updater!RestoreExe, Updater!Goto, Updater!Fault, Updater!NoFault,
       Updater!End
<1>13. ASSUME NEW r \in Updater!Run, Updater!RestoreReceipt(r) PROVE Updater!AllOrNothing'
    BY <1>13 DEF Updater!RestoreReceipt, Updater!Goto, Updater!Fault, Updater!NoFault,
       Updater!End
<1>14. ASSUME NEW r \in Updater!Run, Updater!RestartDaemon(r) PROVE Updater!AllOrNothing'
    BY <1>14 DEF Updater!RestartDaemon, Updater!Goto, Updater!Fault, Updater!NoFault,
       Updater!End
<1>15. ASSUME NEW r \in Updater!Run, Updater!Return(r) PROVE Updater!AllOrNothing'
    BY <1>15 DEF Updater!Return, Updater!End, Updater!Goto
<1>16. ASSUME NEW r \in Updater!Run, Updater!Kill(r) PROVE Updater!AllOrNothing'
    BY <1>16 DEF Updater!Kill, Updater!Fault, Updater!End, Updater!Goto
<1> QED BY <1>1, <1>2, <1>3, <1>4, <1>5, <1>6, <1>7, <1>8, <1>9, <1>10, <1>11, <1>12, <1>13,
   <1>14, <1>15, <1>16 DEF Updater!Next, Updater!Step

\* Nothing is being updated initially.
LEMMA UpdaterInit == ASSUME Updater!Init PROVE Updater!IInv
<1> USE UpdaterNumbers DEF Updater!Init, Updater!TypeOK, Updater!Run, Updater!Versions, Updater!Nobody,
           Updater!Working
<1>1. Updater!TypeOK
    <2>1. Releases >= 1 /\ {0, 1} \subseteq 0..Releases /\ x4 \in 0..Releases
        OBVIOUS
    <2>2. x10 \in [{"cli", "auto"} -> (0..Releases) \X (0..Releases)]
        BY <2>1
    <2>3. /\ x1 \in BOOLEAN /\ x2 \in Updater!Versions /\ x3 \in Updater!Versions
          /\ x4 \in Updater!Versions /\ x5 \subseteq Updater!Versions /\ x6 \in Updater!Versions
          /\ x9 \in [Updater!Run -> Updater!Versions]
        BY <2>1
    <2>4. x12 \in 0..Updates /\ x13 \in 0..UpdateFaults
        OBVIOUS
    <2>5. x14 \in BOOLEAN /\ x15 \in BOOLEAN /\ x16 \in BOOLEAN
        BY Zenon
    <2> QED BY <2>2, <2>3, <2>4, <2>5
<1>2. Updater!Backed /\ Updater!Released /\ Updater!Seen
    BY DEF Updater!Backed, Updater!Released, Updater!Seen
<1>3. Updater!AloneRight /\ Updater!NotAhead
    BY DEF Updater!AloneRight, Updater!Alone, Updater!NotAhead
<1>4. Updater!ExecutableSomewhere /\ Updater!AllOrNothing
    BY DEF Updater!ExecutableSomewhere, Updater!AllOrNothing
<1> QED BY <1>1, <1>2, <1>3, <1>4 DEF Updater!IInv

LEMMA UpdaterStep == ASSUME Updater!IInv, Updater!Next PROVE Updater!IInv'
BY UpdaterTypes, UpdaterBacked, UpdaterReleased, UpdaterSeen, UpdaterAlone, UpdaterNotAhead,
   UpdaterKeeps, UpdaterWhole DEF Updater!IInv

\* With nobody at work, what is known of a run that is over is enough.
LEMMA UpdaterSettled == Updater!IInv => Updater!ReceiptNotAhead
BY DEF Updater!IInv, Updater!TypeOK, Updater!NotAhead, Updater!ReceiptNotAhead,
       Updater!Idle, Updater!Working, Updater!Run, Updater!Versions

UpdateInv == sys = "update" => Updater!IInv

\* However often it runs, fails, is killed or is overlapped by another run, a self-update
\* leaves the executable in its place or where a rollback finds it, and the receipt no
\* further than the executable.
THEOREM UpdateIsSafe == ServingSpec => []UpdateSafe
<1>1. ServingInit => UpdateInv
    BY UpdaterInit DEF ServingInit, UpdateInv
<1>2. ASSUME UpdateInv, [ServingNext]_<<sys, vars, xs>> PROVE UpdateInv'
    <2>1. CASE UNCHANGED <<sys, vars, xs>>
        BY <1>2, <2>1 DEF UpdateInv, xs, Updater!IInv, Updater!TypeOK, Updater!Backed,
           Updater!Released, Updater!Seen, Updater!AloneRight, Updater!Alone, Updater!NotAhead,
           Updater!ExecutableSomewhere, Updater!AllOrNothing, Updater!Place, Updater!Working
    <2>2. CASE ServingNext
        BY <1>2, <2>2, UpdaterStep DEF UpdateInv, ServingNext
    <2> QED BY <1>2, <2>1, <2>2
<1>3. UpdateInv => UpdateSafe
    BY UpdaterSettled DEF UpdateInv, UpdateSafe, Updater!IInv
<1> QED BY <1>1, <1>2, <1>3, PTL DEF ServingSpec

-----------------------------------------------------------------------------
(* A script.                                                                *)

\* The bounds are numbers, and the script is not one of its children.
LEMMA HookNumbers ==
    /\ PipeSize \in Nat /\ Retained \in Nat /\ Written \in Nat /\ Attempts \in Nat \ {0}
    /\ "script" \notin Children
BY ServingAssumption

\* Every step of a script, its readers and its caller keeps the types.
LEMMA HookCallerTypes ==
    ASSUME Hook!TypeOK, Hook!Unstarted, Hook!Next
    PROVE  Hook!CallerTypeOK'
<1> USE HookNumbers DEF Hook!Proc, Hook!Script, Hook!Stream, Hook!look, Hook!family,
   Hook!streams, Hook!Alive, Hook!TypeOK, Hook!CallerTypeOK, Hook!FamilyTypeOK,
   Hook!Unstarted
<1>1. ASSUME Hook!Resolve PROVE Hook!CallerTypeOK'
    BY <1>1 DEF Hook!Resolve, Hook!Named, Hook!Return
<1>2. ASSUME Hook!CheckExecutable PROVE Hook!CallerTypeOK'
    BY <1>2 DEF Hook!CheckExecutable, Hook!Return
<1>3. ASSUME Hook!Spawn PROVE Hook!CallerTypeOK'
    BY <1>3 DEF Hook!Spawn, Hook!Return
<1>4. ASSUME Hook!TryWait PROVE Hook!CallerTypeOK'
    BY <1>4 DEF Hook!TryWait
<1>5. ASSUME Hook!Deadline PROVE Hook!CallerTypeOK'
    BY <1>5 DEF Hook!Deadline
<1>6. ASSUME Hook!Kill PROVE Hook!CallerTypeOK'
    <2>1. x15' \in BOOLEAN /\ x18' \in BOOLEAN
        BY <1>6 DEF Hook!Kill, Hook!Return
    <2>2. x14' \in {"none", "zero", "failed", "signal"}
        BY <1>6 DEF Hook!Kill, Hook!Return
    <2>3. /\ x5' \in {"wait", "done"} /\ x16' \in {x16, "error"}
          /\ UNCHANGED <<x1, x2, x3, x4, x6, x17>>
        BY <1>6 DEF Hook!Kill, Hook!Return
    <2> QED BY <2>1, <2>2, <2>3
<1>7. ASSUME Hook!Wait PROVE Hook!CallerTypeOK'
    BY <1>7 DEF Hook!Wait
<1>8. ASSUME Hook!Join PROVE Hook!CallerTypeOK'
    BY <1>8 DEF Hook!Join, Hook!Return
<1>9. ASSUME Hook!Tick PROVE Hook!CallerTypeOK'
    BY <1>9 DEF Hook!Tick
<1>10. ASSUME Hook!WriterCloses PROVE Hook!CallerTypeOK'
    <2>1. x3' \in BOOLEAN
        BY <1>10 DEF Hook!WriterCloses
    <2> QED BY <1>10, <2>1 DEF Hook!WriterCloses
<1>11. ASSUME Hook!Reuse PROVE Hook!CallerTypeOK'
    BY <1>11 DEF Hook!Reuse
<1>12. ASSUME NEW s \in Hook!Stream, Hook!Read(s) PROVE Hook!CallerTypeOK'
    BY <1>12 DEF Hook!Read, Hook!AtMost, Hook!Holders
<1>13. ASSUME NEW s \in Hook!Stream, NEW p \in Hook!Proc, Hook!Write(p, s) PROVE Hook!CallerTypeOK'
    BY <1>13 DEF Hook!Write, Hook!Holders
<1>14. ASSUME NEW s \in Hook!Stream, NEW p \in Hook!Proc, Hook!Close(p, s) PROVE Hook!CallerTypeOK'
    BY <1>14 DEF Hook!Close, Hook!Holders
<1>15. ASSUME NEW c \in Children, Hook!LeaveGroup(c) PROVE Hook!CallerTypeOK'
    BY <1>15 DEF Hook!LeaveGroup
<1>16. ASSUME NEW c \in Children, NEW p \in Hook!Proc, Hook!Fork(p, c) PROVE Hook!CallerTypeOK'
    BY <1>16 DEF Hook!Fork
<1>17. ASSUME NEW p \in Hook!Proc, Hook!Exit(p) PROVE Hook!CallerTypeOK'
    BY <1>17 DEF Hook!Exit
<1> QED BY <1>1, <1>2, <1>3, <1>4, <1>5, <1>6, <1>7, <1>8, <1>9, <1>10, <1>11, <1>12, <1>13,
   <1>14, <1>15, <1>16, <1>17 DEF Hook!Next, Hook!Caller

\* The same of the processes and the streams.
LEMMA HookFamilyTypes ==
    ASSUME Hook!TypeOK, Hook!Next
    PROVE  Hook!FamilyTypeOK'
<1> USE HookNumbers DEF Hook!Proc, Hook!Script, Hook!Stream, Hook!look, Hook!family,
   Hook!streams, Hook!Alive, Hook!TypeOK, Hook!CallerTypeOK, Hook!FamilyTypeOK
<1>1. ASSUME Hook!Resolve PROVE Hook!FamilyTypeOK'
    BY <1>1 DEF Hook!Resolve, Hook!Named, Hook!Return
<1>2. ASSUME Hook!CheckExecutable PROVE Hook!FamilyTypeOK'
    BY <1>2 DEF Hook!CheckExecutable, Hook!Return
<1>3. ASSUME Hook!Spawn PROVE Hook!FamilyTypeOK'
    <2>1. x7' \in [Hook!Proc -> {"none", "run", "zombie", "gone"}]
        BY <1>3 DEF Hook!Spawn, Hook!Return
    <2>2. x8' \subseteq Hook!Proc
        BY <1>3 DEF Hook!Spawn, Hook!Return
    <2>3. x9' \in [Hook!Proc -> SUBSET Hook!Stream]
        BY <1>3 DEF Hook!Spawn, Hook!Return
    <2> QED BY <1>3, <2>1, <2>2, <2>3 DEF Hook!Spawn
<1>4. ASSUME Hook!TryWait PROVE Hook!FamilyTypeOK'
    BY <1>4 DEF Hook!TryWait
<1>5. ASSUME Hook!Deadline PROVE Hook!FamilyTypeOK'
    BY <1>5 DEF Hook!Deadline
<1>6. ASSUME Hook!Kill PROVE Hook!FamilyTypeOK'
    BY <1>6 DEF Hook!Kill, Hook!Return
<1>7. ASSUME Hook!Wait PROVE Hook!FamilyTypeOK'
    BY <1>7 DEF Hook!Wait
<1>8. ASSUME Hook!Join PROVE Hook!FamilyTypeOK'
    BY <1>8 DEF Hook!Join, Hook!Return
<1>9. ASSUME Hook!Tick PROVE Hook!FamilyTypeOK'
    BY <1>9 DEF Hook!Tick
<1>10. ASSUME Hook!WriterCloses PROVE Hook!FamilyTypeOK'
    BY <1>10 DEF Hook!WriterCloses
<1>11. ASSUME Hook!Reuse PROVE Hook!FamilyTypeOK'
    BY <1>11 DEF Hook!Reuse
<1>12. ASSUME NEW s \in Hook!Stream, Hook!Read(s) PROVE Hook!FamilyTypeOK'
    <2>1. x11' \in [Hook!Stream -> 0..PipeSize]
        BY <1>12 DEF Hook!Read
    <2>2. x12' \in [Hook!Stream -> 0..Retained]
        BY <1>12 DEF Hook!Read, Hook!AtMost
    <2>3. x13' \in [Hook!Stream -> BOOLEAN]
        <3>1. x13' = x13 \/ x13' = [x13 EXCEPT ![s] = TRUE]
            BY <1>12 DEF Hook!Read
        <3> QED BY <3>1
    <2> QED BY <1>12, <2>1, <2>2, <2>3 DEF Hook!Read
<1>13. ASSUME NEW s \in Hook!Stream, NEW p \in Hook!Proc, Hook!Write(p, s) PROVE Hook!FamilyTypeOK'
    BY <1>13 DEF Hook!Write, Hook!Holders
<1>14. ASSUME NEW s \in Hook!Stream, NEW p \in Hook!Proc, Hook!Close(p, s) PROVE Hook!FamilyTypeOK'
    BY <1>14 DEF Hook!Close, Hook!Holders
<1>15. ASSUME NEW c \in Children, Hook!LeaveGroup(c) PROVE Hook!FamilyTypeOK'
    BY <1>15 DEF Hook!LeaveGroup
<1>16. ASSUME NEW c \in Children, NEW p \in Hook!Proc, Hook!Fork(p, c) PROVE Hook!FamilyTypeOK'
    BY <1>16 DEF Hook!Fork
<1>17. ASSUME NEW p \in Hook!Proc, Hook!Exit(p) PROVE Hook!FamilyTypeOK'
    BY <1>17 DEF Hook!Exit
<1> QED BY <1>1, <1>2, <1>3, <1>4, <1>5, <1>6, <1>7, <1>8, <1>9, <1>10, <1>11, <1>12, <1>13,
   <1>14, <1>15, <1>16, <1>17 DEF Hook!Next, Hook!Caller

\* Nothing happens before the script is started.
LEMMA HookUnstarted ==
    ASSUME Hook!TypeOK, Hook!Unstarted, Hook!Next
    PROVE  Hook!Unstarted'
<1> USE HookNumbers DEF Hook!Proc, Hook!Script, Hook!Stream, Hook!look, Hook!family,
   Hook!streams, Hook!Alive, Hook!TypeOK, Hook!CallerTypeOK, Hook!FamilyTypeOK,
   Hook!Unstarted
<1>1. ASSUME Hook!Resolve PROVE Hook!Unstarted'
    BY <1>1 DEF Hook!Resolve, Hook!Named, Hook!Return
<1>2. ASSUME Hook!CheckExecutable PROVE Hook!Unstarted'
    BY <1>2 DEF Hook!CheckExecutable, Hook!Return
<1>3. ASSUME Hook!Spawn PROVE Hook!Unstarted'
    BY <1>3 DEF Hook!Spawn, Hook!Return
<1>4. ASSUME Hook!TryWait PROVE Hook!Unstarted'
    BY <1>4 DEF Hook!TryWait
<1>5. ASSUME Hook!Deadline PROVE Hook!Unstarted'
    BY <1>5 DEF Hook!Deadline
<1>6. ASSUME Hook!Kill PROVE Hook!Unstarted'
    BY <1>6 DEF Hook!Kill, Hook!Return
<1>7. ASSUME Hook!Wait PROVE Hook!Unstarted'
    BY <1>7 DEF Hook!Wait
<1>8. ASSUME Hook!Join PROVE Hook!Unstarted'
    BY <1>8 DEF Hook!Join, Hook!Return
<1>9. ASSUME Hook!Tick PROVE Hook!Unstarted'
    BY <1>9 DEF Hook!Tick
<1>10. ASSUME Hook!WriterCloses PROVE Hook!Unstarted'
    BY <1>10 DEF Hook!WriterCloses
<1>11. ASSUME Hook!Reuse PROVE Hook!Unstarted'
    BY <1>11 DEF Hook!Reuse
<1>12. ASSUME NEW s \in Hook!Stream, Hook!Read(s) PROVE Hook!Unstarted'
    BY <1>12 DEF Hook!Read, Hook!AtMost, Hook!Holders
<1>13. ASSUME NEW s \in Hook!Stream, NEW p \in Hook!Proc, Hook!Write(p, s) PROVE Hook!Unstarted'
    BY <1>13 DEF Hook!Write, Hook!Holders
<1>14. ASSUME NEW s \in Hook!Stream, NEW p \in Hook!Proc, Hook!Close(p, s) PROVE Hook!Unstarted'
    BY <1>14 DEF Hook!Close, Hook!Holders
<1>15. ASSUME NEW c \in Children, Hook!LeaveGroup(c) PROVE Hook!Unstarted'
    BY <1>15 DEF Hook!LeaveGroup
<1>16. ASSUME NEW c \in Children, NEW p \in Hook!Proc, Hook!Fork(p, c) PROVE Hook!Unstarted'
    BY <1>16 DEF Hook!Fork
<1>17. ASSUME NEW p \in Hook!Proc, Hook!Exit(p) PROVE Hook!Unstarted'
    BY <1>17 DEF Hook!Exit
<1> QED BY <1>1, <1>2, <1>3, <1>4, <1>5, <1>6, <1>7, <1>8, <1>9, <1>10, <1>11, <1>12, <1>13,
   <1>14, <1>15, <1>16, <1>17 DEF Hook!Next, Hook!Caller

\* A process ID is free only after the caller has waited.
LEMMA HookIdKept ==
    ASSUME Hook!TypeOK, Hook!Unstarted, Hook!IdKept, Hook!Next
    PROVE  Hook!IdKept'
<1> USE HookNumbers DEF Hook!Proc, Hook!Script, Hook!Stream, Hook!look, Hook!family,
   Hook!streams, Hook!Alive, Hook!TypeOK, Hook!CallerTypeOK, Hook!FamilyTypeOK,
   Hook!Unstarted, Hook!IdKept
<1>1. ASSUME Hook!Resolve PROVE Hook!IdKept'
    BY <1>1 DEF Hook!Resolve, Hook!Named, Hook!Return
<1>2. ASSUME Hook!CheckExecutable PROVE Hook!IdKept'
    BY <1>2 DEF Hook!CheckExecutable, Hook!Return
<1>3. ASSUME Hook!Spawn PROVE Hook!IdKept'
    BY <1>3 DEF Hook!Spawn, Hook!Return
<1>4. ASSUME Hook!TryWait PROVE Hook!IdKept'
    BY <1>4 DEF Hook!TryWait
<1>5. ASSUME Hook!Deadline PROVE Hook!IdKept'
    BY <1>5 DEF Hook!Deadline
<1>6. ASSUME Hook!Kill PROVE Hook!IdKept'
    BY <1>6 DEF Hook!Kill, Hook!Return
<1>7. ASSUME Hook!Wait PROVE Hook!IdKept'
    BY <1>7 DEF Hook!Wait
<1>8. ASSUME Hook!Join PROVE Hook!IdKept'
    BY <1>8 DEF Hook!Join, Hook!Return
<1>9. ASSUME Hook!Tick PROVE Hook!IdKept'
    BY <1>9 DEF Hook!Tick
<1>10. ASSUME Hook!WriterCloses PROVE Hook!IdKept'
    BY <1>10 DEF Hook!WriterCloses
<1>11. ASSUME Hook!Reuse PROVE Hook!IdKept'
    BY <1>11 DEF Hook!Reuse
<1>12. ASSUME NEW s \in Hook!Stream, Hook!Read(s) PROVE Hook!IdKept'
    BY <1>12 DEF Hook!Read, Hook!AtMost, Hook!Holders
<1>13. ASSUME NEW s \in Hook!Stream, NEW p \in Hook!Proc, Hook!Write(p, s) PROVE Hook!IdKept'
    BY <1>13 DEF Hook!Write, Hook!Holders
<1>14. ASSUME NEW s \in Hook!Stream, NEW p \in Hook!Proc, Hook!Close(p, s) PROVE Hook!IdKept'
    BY <1>14 DEF Hook!Close, Hook!Holders
<1>15. ASSUME NEW c \in Children, Hook!LeaveGroup(c) PROVE Hook!IdKept'
    BY <1>15 DEF Hook!LeaveGroup
<1>16. ASSUME NEW c \in Children, NEW p \in Hook!Proc, Hook!Fork(p, c) PROVE Hook!IdKept'
    BY <1>16 DEF Hook!Fork
<1>17. ASSUME NEW p \in Hook!Proc, Hook!Exit(p) PROVE Hook!IdKept'
    BY <1>17 DEF Hook!Exit
<1> QED BY <1>1, <1>2, <1>3, <1>4, <1>5, <1>6, <1>7, <1>8, <1>9, <1>10, <1>11, <1>12, <1>13,
   <1>14, <1>15, <1>16, <1>17 DEF Hook!Next, Hook!Caller

\* A group that was killed stays dead.
LEMMA HookGroupKept ==
    ASSUME Hook!TypeOK, Hook!Unstarted, Hook!GroupKept, Hook!Next
    PROVE  Hook!GroupKept'
<1> USE HookNumbers DEF Hook!Proc, Hook!Script, Hook!Stream, Hook!look, Hook!family,
   Hook!streams, Hook!Alive, Hook!TypeOK, Hook!CallerTypeOK, Hook!FamilyTypeOK,
   Hook!Unstarted, Hook!GroupKept
<1>1. ASSUME Hook!Resolve PROVE Hook!GroupKept'
    BY <1>1 DEF Hook!Resolve, Hook!Named, Hook!Return
<1>2. ASSUME Hook!CheckExecutable PROVE Hook!GroupKept'
    BY <1>2 DEF Hook!CheckExecutable, Hook!Return
<1>3. ASSUME Hook!Spawn PROVE Hook!GroupKept'
    BY <1>3 DEF Hook!Spawn, Hook!Return
<1>4. ASSUME Hook!TryWait PROVE Hook!GroupKept'
    BY <1>4 DEF Hook!TryWait
<1>5. ASSUME Hook!Deadline PROVE Hook!GroupKept'
    BY <1>5 DEF Hook!Deadline
<1>6. ASSUME Hook!Kill PROVE Hook!GroupKept'
    BY <1>6 DEF Hook!Kill, Hook!Return
<1>7. ASSUME Hook!Wait PROVE Hook!GroupKept'
    BY <1>7 DEF Hook!Wait
<1>8. ASSUME Hook!Join PROVE Hook!GroupKept'
    BY <1>8 DEF Hook!Join, Hook!Return
<1>9. ASSUME Hook!Tick PROVE Hook!GroupKept'
    BY <1>9 DEF Hook!Tick
<1>10. ASSUME Hook!WriterCloses PROVE Hook!GroupKept'
    BY <1>10 DEF Hook!WriterCloses
<1>11. ASSUME Hook!Reuse PROVE Hook!GroupKept'
    BY <1>11 DEF Hook!Reuse
<1>12. ASSUME NEW s \in Hook!Stream, Hook!Read(s) PROVE Hook!GroupKept'
    BY <1>12 DEF Hook!Read, Hook!AtMost, Hook!Holders
<1>13. ASSUME NEW s \in Hook!Stream, NEW p \in Hook!Proc, Hook!Write(p, s) PROVE Hook!GroupKept'
    BY <1>13 DEF Hook!Write, Hook!Holders
<1>14. ASSUME NEW s \in Hook!Stream, NEW p \in Hook!Proc, Hook!Close(p, s) PROVE Hook!GroupKept'
    BY <1>14 DEF Hook!Close, Hook!Holders
<1>15. ASSUME NEW c \in Children, Hook!LeaveGroup(c) PROVE Hook!GroupKept'
    BY <1>15 DEF Hook!LeaveGroup
<1>16. ASSUME NEW c \in Children, NEW p \in Hook!Proc, Hook!Fork(p, c) PROVE Hook!GroupKept'
    BY <1>16 DEF Hook!Fork
<1>17. ASSUME NEW p \in Hook!Proc, Hook!Exit(p) PROVE Hook!GroupKept'
    BY <1>17 DEF Hook!Exit
<1> QED BY <1>1, <1>2, <1>3, <1>4, <1>5, <1>6, <1>7, <1>8, <1>9, <1>10, <1>11, <1>12, <1>13,
   <1>14, <1>15, <1>16, <1>17 DEF Hook!Next, Hook!Caller

\* A reader retains the start of what was written.
LEMMA HookDrained ==
    ASSUME Hook!TypeOK, Hook!Unstarted, Hook!Drained, Hook!Next
    PROVE  Hook!Drained'
<1> USE HookNumbers DEF Hook!Proc, Hook!Script, Hook!Stream, Hook!look, Hook!family,
   Hook!streams, Hook!Alive, Hook!TypeOK, Hook!CallerTypeOK, Hook!FamilyTypeOK,
   Hook!Unstarted, Hook!Drained, Hook!Holders, Hook!AtMost
<1>1. ASSUME Hook!Resolve PROVE Hook!Drained'
    BY <1>1 DEF Hook!Resolve, Hook!Named, Hook!Return
<1>2. ASSUME Hook!CheckExecutable PROVE Hook!Drained'
    BY <1>2 DEF Hook!CheckExecutable, Hook!Return
<1>3. ASSUME Hook!Spawn PROVE Hook!Drained'
    BY <1>3 DEF Hook!Spawn, Hook!Return
<1>4. ASSUME Hook!TryWait PROVE Hook!Drained'
    BY <1>4 DEF Hook!TryWait
<1>5. ASSUME Hook!Deadline PROVE Hook!Drained'
    BY <1>5 DEF Hook!Deadline
<1>6. ASSUME Hook!Kill PROVE Hook!Drained'
    BY <1>6 DEF Hook!Kill, Hook!Return
<1>7. ASSUME Hook!Wait PROVE Hook!Drained'
    BY <1>7 DEF Hook!Wait
<1>8. ASSUME Hook!Join PROVE Hook!Drained'
    BY <1>8 DEF Hook!Join, Hook!Return
<1>9. ASSUME Hook!Tick PROVE Hook!Drained'
    BY <1>9 DEF Hook!Tick
<1>10. ASSUME Hook!WriterCloses PROVE Hook!Drained'
    BY <1>10 DEF Hook!WriterCloses
<1>11. ASSUME Hook!Reuse PROVE Hook!Drained'
    BY <1>11 DEF Hook!Reuse
<1>12. ASSUME NEW s \in Hook!Stream, Hook!Read(s) PROVE Hook!Drained'
    BY <1>12 DEF Hook!Read, Hook!AtMost, Hook!Holders
<1>13. ASSUME NEW s \in Hook!Stream, NEW p \in Hook!Proc, Hook!Write(p, s) PROVE Hook!Drained'
    BY <1>13 DEF Hook!Write, Hook!Holders
<1>14. ASSUME NEW s \in Hook!Stream, NEW p \in Hook!Proc, Hook!Close(p, s) PROVE Hook!Drained'
    BY <1>14 DEF Hook!Close, Hook!Holders
<1>15. ASSUME NEW c \in Children, Hook!LeaveGroup(c) PROVE Hook!Drained'
    BY <1>15 DEF Hook!LeaveGroup
<1>16. ASSUME NEW c \in Children, NEW p \in Hook!Proc, Hook!Fork(p, c) PROVE Hook!Drained'
    BY <1>16 DEF Hook!Fork
<1>17. ASSUME NEW p \in Hook!Proc, Hook!Exit(p) PROVE Hook!Drained'
    BY <1>17 DEF Hook!Exit
<1> QED BY <1>1, <1>2, <1>3, <1>4, <1>5, <1>6, <1>7, <1>8, <1>9, <1>10, <1>11, <1>12, <1>13,
   <1>14, <1>15, <1>16, <1>17 DEF Hook!Next, Hook!Caller

\* The caller says what happened.
LEMMA HookSaid ==
    ASSUME Hook!TypeOK, Hook!GroupKept, Hook!Said, Hook!Next
    PROVE  Hook!Said'
<1> USE HookNumbers DEF Hook!Proc, Hook!Script, Hook!Stream, Hook!look, Hook!family,
   Hook!streams, Hook!Alive, Hook!TypeOK, Hook!CallerTypeOK, Hook!FamilyTypeOK,
   Hook!GroupKept, Hook!Said
<1>1. ASSUME Hook!Resolve PROVE Hook!Said'
    BY <1>1 DEF Hook!Resolve, Hook!Named, Hook!Return
<1>2. ASSUME Hook!CheckExecutable PROVE Hook!Said'
    BY <1>2 DEF Hook!CheckExecutable, Hook!Return
<1>3. ASSUME Hook!Spawn PROVE Hook!Said'
    BY <1>3 DEF Hook!Spawn, Hook!Return
<1>4. ASSUME Hook!TryWait PROVE Hook!Said'
    BY <1>4 DEF Hook!TryWait
<1>5. ASSUME Hook!Deadline PROVE Hook!Said'
    BY <1>5 DEF Hook!Deadline
<1>6. ASSUME Hook!Kill PROVE Hook!Said'
    BY <1>6 DEF Hook!Kill, Hook!Return
<1>7. ASSUME Hook!Wait PROVE Hook!Said'
    BY <1>7 DEF Hook!Wait
<1>8. ASSUME Hook!Join PROVE Hook!Said'
    BY <1>8 DEF Hook!Join, Hook!Return
<1>9. ASSUME Hook!Tick PROVE Hook!Said'
    BY <1>9 DEF Hook!Tick
<1>10. ASSUME Hook!WriterCloses PROVE Hook!Said'
    BY <1>10 DEF Hook!WriterCloses
<1>11. ASSUME Hook!Reuse PROVE Hook!Said'
    BY <1>11 DEF Hook!Reuse
<1>12. ASSUME NEW s \in Hook!Stream, Hook!Read(s) PROVE Hook!Said'
    BY <1>12 DEF Hook!Read, Hook!AtMost, Hook!Holders
<1>13. ASSUME NEW s \in Hook!Stream, NEW p \in Hook!Proc, Hook!Write(p, s) PROVE Hook!Said'
    BY <1>13 DEF Hook!Write, Hook!Holders
<1>14. ASSUME NEW s \in Hook!Stream, NEW p \in Hook!Proc, Hook!Close(p, s) PROVE Hook!Said'
    BY <1>14 DEF Hook!Close, Hook!Holders
<1>15. ASSUME NEW c \in Children, Hook!LeaveGroup(c) PROVE Hook!Said'
    BY <1>15 DEF Hook!LeaveGroup
<1>16. ASSUME NEW c \in Children, NEW p \in Hook!Proc, Hook!Fork(p, c) PROVE Hook!Said'
    BY <1>16 DEF Hook!Fork
<1>17. ASSUME NEW p \in Hook!Proc, Hook!Exit(p) PROVE Hook!Said'
    BY <1>17 DEF Hook!Exit
<1> QED BY <1>1, <1>2, <1>3, <1>4, <1>5, <1>6, <1>7, <1>8, <1>9, <1>10, <1>11, <1>12, <1>13,
   <1>14, <1>15, <1>16, <1>17 DEF Hook!Next, Hook!Caller

\* The kill comes while the script still has its ID.
LEMMA HookKillsItsOwn ==
    ASSUME Hook!TypeOK, Hook!IdKept, Hook!NoStrangerKilled, Hook!Next
    PROVE  Hook!NoStrangerKilled'
<1> USE HookNumbers DEF Hook!Proc, Hook!Script, Hook!Stream, Hook!look, Hook!family,
   Hook!streams, Hook!Alive, Hook!TypeOK, Hook!CallerTypeOK, Hook!FamilyTypeOK, Hook!IdKept,
   Hook!NoStrangerKilled
<1>1. ASSUME Hook!Resolve PROVE Hook!NoStrangerKilled'
    BY <1>1 DEF Hook!Resolve, Hook!Named, Hook!Return
<1>2. ASSUME Hook!CheckExecutable PROVE Hook!NoStrangerKilled'
    BY <1>2 DEF Hook!CheckExecutable, Hook!Return
<1>3. ASSUME Hook!Spawn PROVE Hook!NoStrangerKilled'
    BY <1>3 DEF Hook!Spawn, Hook!Return
<1>4. ASSUME Hook!TryWait PROVE Hook!NoStrangerKilled'
    BY <1>4 DEF Hook!TryWait
<1>5. ASSUME Hook!Deadline PROVE Hook!NoStrangerKilled'
    BY <1>5 DEF Hook!Deadline
<1>6. ASSUME Hook!Kill PROVE Hook!NoStrangerKilled'
    BY <1>6 DEF Hook!Kill, Hook!Return
<1>7. ASSUME Hook!Wait PROVE Hook!NoStrangerKilled'
    BY <1>7 DEF Hook!Wait
<1>8. ASSUME Hook!Join PROVE Hook!NoStrangerKilled'
    BY <1>8 DEF Hook!Join, Hook!Return
<1>9. ASSUME Hook!Tick PROVE Hook!NoStrangerKilled'
    BY <1>9 DEF Hook!Tick
<1>10. ASSUME Hook!WriterCloses PROVE Hook!NoStrangerKilled'
    BY <1>10 DEF Hook!WriterCloses
<1>11. ASSUME Hook!Reuse PROVE Hook!NoStrangerKilled'
    BY <1>11 DEF Hook!Reuse
<1>12. ASSUME NEW s \in Hook!Stream, Hook!Read(s) PROVE Hook!NoStrangerKilled'
    BY <1>12 DEF Hook!Read, Hook!AtMost, Hook!Holders
<1>13. ASSUME NEW s \in Hook!Stream, NEW p \in Hook!Proc, Hook!Write(p, s) PROVE Hook!NoStrangerKilled'
    BY <1>13 DEF Hook!Write, Hook!Holders
<1>14. ASSUME NEW s \in Hook!Stream, NEW p \in Hook!Proc, Hook!Close(p, s) PROVE Hook!NoStrangerKilled'
    BY <1>14 DEF Hook!Close, Hook!Holders
<1>15. ASSUME NEW c \in Children, Hook!LeaveGroup(c) PROVE Hook!NoStrangerKilled'
    BY <1>15 DEF Hook!LeaveGroup
<1>16. ASSUME NEW c \in Children, NEW p \in Hook!Proc, Hook!Fork(p, c) PROVE Hook!NoStrangerKilled'
    BY <1>16 DEF Hook!Fork
<1>17. ASSUME NEW p \in Hook!Proc, Hook!Exit(p) PROVE Hook!NoStrangerKilled'
    BY <1>17 DEF Hook!Exit
<1> QED BY <1>1, <1>2, <1>3, <1>4, <1>5, <1>6, <1>7, <1>8, <1>9, <1>10, <1>11, <1>12, <1>13,
   <1>14, <1>15, <1>16, <1>17 DEF Hook!Next, Hook!Caller

\* Nothing is started initially.
LEMMA HookInit == ASSUME Hook!Init PROVE Hook!IInv
<1> USE HookNumbers DEF Hook!Init, Hook!Proc, Hook!Script, Hook!Stream
<1>1. Hook!CallerTypeOK
    <2>1. /\ x1 \in BOOLEAN /\ x3 \in BOOLEAN /\ x6 \in BOOLEAN /\ x15 \in BOOLEAN
          /\ x17 \in BOOLEAN /\ x18 \in BOOLEAN
        BY Zenon
    <2> QED BY <2>1 DEF Hook!CallerTypeOK
<1>2. Hook!TypeOK
    BY <1>1 DEF Hook!TypeOK, Hook!FamilyTypeOK
<1>3. Hook!Unstarted /\ Hook!IdKept /\ Hook!GroupKept
    BY DEF Hook!Unstarted, Hook!IdKept, Hook!GroupKept
<1>4. Hook!Drained
    BY DEF Hook!Drained, Hook!AtMost
<1>5. Hook!Said /\ Hook!NoStrangerKilled
    BY DEF Hook!Said, Hook!NoStrangerKilled
<1> QED BY <1>2, <1>3, <1>4, <1>5 DEF Hook!IInv

LEMMA HookStep == ASSUME Hook!IInv, Hook!Next PROVE Hook!IInv'
BY HookCallerTypes, HookFamilyTypes, HookUnstarted, HookIdKept, HookGroupKept, HookDrained, HookSaid, HookKillsItsOwn
   DEF Hook!IInv, Hook!TypeOK

\* What the readers and the caller know is what a patch relies on.
LEMMA HookSound == Hook!IInv => Hook!UsedIsWhole /\ Hook!GroupGone
<1> SUFFICES ASSUME Hook!IInv PROVE Hook!UsedIsWhole /\ Hook!GroupGone
    OBVIOUS
<1>1. Hook!GroupGone
    BY DEF Hook!IInv, Hook!GroupKept, Hook!Said, Hook!GroupGone
<1>2. ASSUME x16 = "ran", NEW s \in Hook!Stream PROVE x12[s] = Hook!AtMost(x10[s], Retained)
    BY <1>2, HookNumbers DEF Hook!IInv, Hook!TypeOK, Hook!FamilyTypeOK, Hook!Drained, Hook!Said, Hook!Stream
<1>3. Hook!UsedIsWhole
    BY <1>2 DEF Hook!IInv, Hook!Said, Hook!UsedIsWhole, Hook!Accepts
<1> QED BY <1>1, <1>3

HookInv == sys = "hook" => Hook!IInv

\* A script's output is used whole or not at all; its time limit ends its group, and
\* nobody else, however many processes it starts and whatever they do
\* (platform/process.rs, hooks.rs).
THEOREM ScriptIsSafe == ServingSpec => []ScriptSafe
<1>1. ServingInit => HookInv
    BY HookInit DEF ServingInit, HookInv
<1>2. ASSUME HookInv, [ServingNext]_<<sys, vars, xs>> PROVE HookInv'
    <2>1. CASE UNCHANGED <<sys, vars, xs>>
        BY <1>2, <2>1 DEF HookInv, xs, Hook!IInv, Hook!TypeOK, Hook!CallerTypeOK,
           Hook!FamilyTypeOK, Hook!Unstarted, Hook!IdKept,
           Hook!GroupKept, Hook!Drained, Hook!Said, Hook!NoStrangerKilled, Hook!Holders, Hook!Alive
    <2>2. CASE ServingNext
        BY <1>2, <2>2, HookStep DEF HookInv, ServingNext
    <2> QED BY <1>2, <2>1, <2>2
<1>3. HookInv => ScriptSafe
    BY HookSound DEF HookInv, ScriptSafe, Hook!IInv
<1> QED BY <1>1, <1>2, <1>3, PTL DEF ServingSpec

-----------------------------------------------------------------------------
(* A download.                                                              *)

\* Of a platform a manifest says one of three different things; its keys are finitely
\* many, and the URLs of an entry a sequence.
LEMMA DownloadFacts ==
    /\ AliasLimit \in Nat \ {0} /\ RedirectLimit \in Nat /\ Downloads \in Nat \ {0}
    /\ ThisPlatform \in PlatformKeys
    /\ Cardinality(PlatformKeys) \in Nat /\ Cardinality(PlatformKeys) <= AliasLimit
    /\ Archive # None /\ Garbage # Archive /\ Garbage # None
    /\ Archive \notin PlatformKeys /\ None \notin PlatformKeys
    /\ UrlChain \in Seq({"cdn", "foreign"}) /\ Len(UrlChain) \in Nat \ {0}
BY ServingAssumption, FS_CardinalityType, EmptySeq

\* The instance counts as this module does.
LEMMA DownloadCardinality == Download!Cardinality(PlatformKeys) = Cardinality(PlatformKeys)
BY DEF Download!Cardinality, Cardinality, Download!IsFiniteSet, IsFiniteSet

\* A trail is a sequence of keys.
LEMMA DownloadTrails ==
    ASSUME NEW trail \in Download!Trails
    PROVE  Len(trail) \in 1..Cardinality(PlatformKeys) /\ trail \in [1..Len(trail) -> PlatformKeys]
<1>0. PICK f \in {[1..n -> PlatformKeys] : n \in 1..Cardinality(PlatformKeys)} : trail \in f
    BY DownloadCardinality DEF Download!Trails
<1>1. PICK n \in 1..Cardinality(PlatformKeys) : trail \in [1..n -> PlatformKeys]
    BY <1>0
<1>2. Len(trail) = n
    BY <1>1, DownloadFacts
<1> QED BY <1>1, <1>2

\* Every step of a download keeps the types.
LEMMA DownloadTypes ==
    ASSUME Download!TypeOK, Download!SourceRight, Download!OnTrail, Download!Next
    PROVE  Download!TypeOK'
<1> USE DownloadFacts DEF Download!Official, Download!Origin, Download!TypeOK,
   Download!SourceRight, Download!OnTrail, Download!Platforms, Download!Bytes,
   Download!Verdict
<1>1. ASSUME Download!Ask PROVE Download!TypeOK'
    BY <1>1 DEF Download!Ask, Download!NextSource, Download!Goto, Download!Ends,
       Download!Network, Download!Disk, Download!Allowed
<1>2. ASSUME Download!Refuse PROVE Download!TypeOK'
    BY <1>2 DEF Download!Refuse, Download!NextSource, Download!Goto, Download!Ends,
       Download!Network, Download!Disk, Download!Allowed
<1>3. ASSUME Download!Resolve PROVE Download!TypeOK'
    BY <1>3 DEF Download!Resolve, Download!Network, Download!Disk, Download!Goto,
       Download!Ends
<1>4. ASSUME NEW o \in Download!Origin, Download!Redirect(o) PROVE Download!TypeOK'
    BY <1>4 DEF Download!Redirect, Download!NextSource, Download!Goto, Download!Ends,
       Download!Network, Download!Disk, Download!Allowed, Download!Follows
<1>5. ASSUME NEW p \in Download!Platforms, Download!Answer(p) PROVE Download!TypeOK'
    BY <1>5 DEF Download!Answer, Download!Network, Download!Disk, Download!Goto,
       Download!Ends
<1>6. ASSUME Download!Kept PROVE Download!TypeOK'
    BY <1>6 DEF Download!Kept, Download!Network, Download!Disk, Download!Goto, Download!Ends
<1>7. ASSUME Download!Pass PROVE Download!TypeOK'
    BY <1>7 DEF Download!Pass, Download!NextUrl, Download!Goto, Download!Ends,
       Download!Network
<1>8. ASSUME Download!Get PROVE Download!TypeOK'
    BY <1>8 DEF Download!Get, Download!Network, Download!Disk, Download!Goto, Download!Ends
<1>9. ASSUME Download!Unreachable PROVE Download!TypeOK'
    BY <1>9 DEF Download!Unreachable, Download!NextUrl, Download!Goto, Download!Ends,
       Download!Network
<1>10. ASSUME Download!Verify PROVE Download!TypeOK'
    BY <1>10 DEF Download!Verify, Download!Network, Download!Disk, Download!Goto,
       Download!Ends
<1>11. ASSUME Download!Persist PROVE Download!TypeOK'
    BY <1>11 DEF Download!Persist, Download!Network, Download!Disk, Download!Goto,
       Download!Ends
<1>12. ASSUME NEW w \in {"mismatch", "io"}, Download!Abort(w) PROVE Download!TypeOK'
    BY <1>12 DEF Download!Abort, Download!Network, Download!Disk, Download!Goto,
       Download!Ends
<1>13. ASSUME NEW b \in {Archive, Garbage}, Download!Body(b) PROVE Download!TypeOK'
    BY <1>13 DEF Download!Body, Download!Network, Download!Disk, Download!Goto,
       Download!Ends
<1>14. ASSUME Download!Killed PROVE Download!TypeOK'
    BY <1>14 DEF Download!Killed, Download!Network, Download!Disk, Download!Goto,
       Download!Ends
<1>15. ASSUME Download!Again PROVE Download!TypeOK'
    BY <1>15 DEF Download!Again, Download!Network, Download!Disk, Download!Goto,
       Download!Ends
<1>16. ASSUME NEW b \in Download!Bytes, Download!Tamper(b) PROVE Download!TypeOK'
    BY <1>16 DEF Download!Tamper, Download!Network
<1> QED BY <1>1, <1>2, <1>3, <1>4, <1>5, <1>6, <1>7, <1>8, <1>9, <1>10, <1>11, <1>12, <1>13,
   <1>14, <1>15, <1>16 DEF Download!Next, Download!Fetching, Download!Downloading

\* A source is asked in its turn.
LEMMA DownloadSource ==
    ASSUME Download!TypeOK, Download!SourceRight, Download!Next
    PROVE  Download!SourceRight'
<1> USE DownloadFacts DEF Download!Official, Download!Origin, Download!TypeOK,
   Download!SourceRight
<1>1. ASSUME Download!Ask PROVE Download!SourceRight'
    BY <1>1 DEF Download!Ask, Download!NextSource, Download!Goto, Download!Ends,
       Download!Network, Download!Disk, Download!Allowed
<1>2. ASSUME Download!Refuse PROVE Download!SourceRight'
    BY <1>2 DEF Download!Refuse, Download!NextSource, Download!Goto, Download!Ends,
       Download!Network, Download!Disk, Download!Allowed
<1>3. ASSUME Download!Resolve PROVE Download!SourceRight'
    BY <1>3 DEF Download!Resolve, Download!Network, Download!Disk, Download!Goto,
       Download!Ends
<1>4. ASSUME NEW o \in Download!Origin, Download!Redirect(o) PROVE Download!SourceRight'
    BY <1>4 DEF Download!Redirect, Download!NextSource, Download!Goto, Download!Ends,
       Download!Network, Download!Disk, Download!Allowed, Download!Follows
<1>5. ASSUME NEW p \in Download!Platforms, Download!Answer(p) PROVE Download!SourceRight'
    BY <1>5 DEF Download!Answer, Download!Network, Download!Disk, Download!Goto,
       Download!Ends
<1>6. ASSUME Download!Kept PROVE Download!SourceRight'
    BY <1>6 DEF Download!Kept, Download!Network, Download!Disk, Download!Goto, Download!Ends
<1>7. ASSUME Download!Pass PROVE Download!SourceRight'
    BY <1>7 DEF Download!Pass, Download!NextUrl, Download!Goto, Download!Ends,
       Download!Network
<1>8. ASSUME Download!Get PROVE Download!SourceRight'
    BY <1>8 DEF Download!Get, Download!Network, Download!Disk, Download!Goto, Download!Ends
<1>9. ASSUME Download!Unreachable PROVE Download!SourceRight'
    BY <1>9 DEF Download!Unreachable, Download!NextUrl, Download!Goto, Download!Ends,
       Download!Network
<1>10. ASSUME Download!Verify PROVE Download!SourceRight'
    BY <1>10 DEF Download!Verify, Download!Network, Download!Disk, Download!Goto,
       Download!Ends
<1>11. ASSUME Download!Persist PROVE Download!SourceRight'
    BY <1>11 DEF Download!Persist, Download!Network, Download!Disk, Download!Goto,
       Download!Ends
<1>12. ASSUME NEW w \in {"mismatch", "io"}, Download!Abort(w) PROVE Download!SourceRight'
    BY <1>12 DEF Download!Abort, Download!Network, Download!Disk, Download!Goto,
       Download!Ends
<1>13. ASSUME NEW b \in {Archive, Garbage}, Download!Body(b) PROVE Download!SourceRight'
    BY <1>13 DEF Download!Body, Download!Network, Download!Disk, Download!Goto,
       Download!Ends
<1>14. ASSUME Download!Killed PROVE Download!SourceRight'
    BY <1>14 DEF Download!Killed, Download!Network, Download!Disk, Download!Goto,
       Download!Ends
<1>15. ASSUME Download!Again PROVE Download!SourceRight'
    BY <1>15 DEF Download!Again, Download!Network, Download!Disk, Download!Goto,
       Download!Ends
<1>16. ASSUME NEW b \in Download!Bytes, Download!Tamper(b) PROVE Download!SourceRight'
    BY <1>16 DEF Download!Tamper, Download!Network
<1> QED BY <1>1, <1>2, <1>3, <1>4, <1>5, <1>6, <1>7, <1>8, <1>9, <1>10, <1>11, <1>12, <1>13,
   <1>14, <1>15, <1>16 DEF Download!Next, Download!Fetching, Download!Downloading

\* A run knows a manifest, and not yet an archive.
LEMMA DownloadChain ==
    ASSUME Download!TypeOK, Download!SourceRight, Download!ChainRight, Download!Next
    PROVE  Download!ChainRight'
<1> USE DownloadFacts DEF Download!Official, Download!Origin, Download!TypeOK,
   Download!ChainRight, Download!SourceRight
<1>1. ASSUME Download!Ask PROVE Download!ChainRight'
    BY <1>1 DEF Download!Ask, Download!NextSource, Download!Goto, Download!Ends,
       Download!Network, Download!Disk, Download!Allowed
<1>2. ASSUME Download!Refuse PROVE Download!ChainRight'
    BY <1>2 DEF Download!Refuse, Download!NextSource, Download!Goto, Download!Ends,
       Download!Network, Download!Disk, Download!Allowed
<1>3. ASSUME Download!Resolve PROVE Download!ChainRight'
    BY <1>3 DEF Download!Resolve, Download!Network, Download!Disk, Download!Goto,
       Download!Ends
<1>4. ASSUME NEW o \in Download!Origin, Download!Redirect(o) PROVE Download!ChainRight'
    BY <1>4 DEF Download!Redirect, Download!NextSource, Download!Goto, Download!Ends,
       Download!Network, Download!Disk, Download!Allowed, Download!Follows
<1>5. ASSUME NEW p \in Download!Platforms, Download!Answer(p) PROVE Download!ChainRight'
    BY <1>5 DEF Download!Answer, Download!Network, Download!Disk, Download!Goto,
       Download!Ends
<1>6. ASSUME Download!Kept PROVE Download!ChainRight'
    BY <1>6 DEF Download!Kept, Download!Network, Download!Disk, Download!Goto, Download!Ends
<1>7. ASSUME Download!Pass PROVE Download!ChainRight'
    BY <1>7 DEF Download!Pass, Download!NextUrl, Download!Goto, Download!Ends,
       Download!Network
<1>8. ASSUME Download!Get PROVE Download!ChainRight'
    BY <1>8 DEF Download!Get, Download!Network, Download!Disk, Download!Goto, Download!Ends
<1>9. ASSUME Download!Unreachable PROVE Download!ChainRight'
    BY <1>9 DEF Download!Unreachable, Download!NextUrl, Download!Goto, Download!Ends,
       Download!Network
<1>10. ASSUME Download!Verify PROVE Download!ChainRight'
    BY <1>10 DEF Download!Verify, Download!Network, Download!Disk, Download!Goto,
       Download!Ends
<1>11. ASSUME Download!Persist PROVE Download!ChainRight'
    BY <1>11 DEF Download!Persist, Download!Network, Download!Disk, Download!Goto,
       Download!Ends
<1>12. ASSUME NEW w \in {"mismatch", "io"}, Download!Abort(w) PROVE Download!ChainRight'
    BY <1>12 DEF Download!Abort, Download!Network, Download!Disk, Download!Goto,
       Download!Ends
<1>13. ASSUME NEW b \in {Archive, Garbage}, Download!Body(b) PROVE Download!ChainRight'
    BY <1>13 DEF Download!Body, Download!Network, Download!Disk, Download!Goto,
       Download!Ends
<1>14. ASSUME Download!Killed PROVE Download!ChainRight'
    BY <1>14 DEF Download!Killed, Download!Network, Download!Disk, Download!Goto,
       Download!Ends
<1>15. ASSUME Download!Again PROVE Download!ChainRight'
    BY <1>15 DEF Download!Again, Download!Network, Download!Disk, Download!Goto,
       Download!Ends
<1>16. ASSUME NEW b \in Download!Bytes, Download!Tamper(b) PROVE Download!ChainRight'
    BY <1>16 DEF Download!Tamper, Download!Network
<1> QED BY <1>1, <1>2, <1>3, <1>4, <1>5, <1>6, <1>7, <1>8, <1>9, <1>10, <1>11, <1>12, <1>13,
   <1>14, <1>15, <1>16 DEF Download!Next, Download!Fetching, Download!Downloading

\* The private file is verified before its use.
LEMMA DownloadTemp ==
    ASSUME Download!TypeOK, Download!ChainRight, Download!TempRight, Download!Next
    PROVE  Download!TempRight'
<1> USE DownloadFacts DEF Download!Official, Download!Origin, Download!TypeOK,
   Download!ChainRight, Download!TempRight
<1>1. ASSUME Download!Ask PROVE Download!TempRight'
    BY <1>1 DEF Download!Ask, Download!NextSource, Download!Goto, Download!Ends,
       Download!Network, Download!Disk, Download!Allowed
<1>2. ASSUME Download!Refuse PROVE Download!TempRight'
    BY <1>2 DEF Download!Refuse, Download!NextSource, Download!Goto, Download!Ends,
       Download!Network, Download!Disk, Download!Allowed
<1>3. ASSUME Download!Resolve PROVE Download!TempRight'
    BY <1>3 DEF Download!Resolve, Download!Network, Download!Disk, Download!Goto,
       Download!Ends
<1>4. ASSUME NEW o \in Download!Origin, Download!Redirect(o) PROVE Download!TempRight'
    BY <1>4 DEF Download!Redirect, Download!NextSource, Download!Goto, Download!Ends,
       Download!Network, Download!Disk, Download!Allowed, Download!Follows
<1>5. ASSUME NEW p \in Download!Platforms, Download!Answer(p) PROVE Download!TempRight'
    BY <1>5 DEF Download!Answer, Download!Network, Download!Disk, Download!Goto,
       Download!Ends
<1>6. ASSUME Download!Kept PROVE Download!TempRight'
    BY <1>6 DEF Download!Kept, Download!Network, Download!Disk, Download!Goto, Download!Ends
<1>7. ASSUME Download!Pass PROVE Download!TempRight'
    BY <1>7 DEF Download!Pass, Download!NextUrl, Download!Goto, Download!Ends,
       Download!Network
<1>8. ASSUME Download!Get PROVE Download!TempRight'
    BY <1>8 DEF Download!Get, Download!Network, Download!Disk, Download!Goto, Download!Ends
<1>9. ASSUME Download!Unreachable PROVE Download!TempRight'
    BY <1>9 DEF Download!Unreachable, Download!NextUrl, Download!Goto, Download!Ends,
       Download!Network
<1>10. ASSUME Download!Verify PROVE Download!TempRight'
    BY <1>10 DEF Download!Verify, Download!Network, Download!Disk, Download!Goto,
       Download!Ends
<1>11. ASSUME Download!Persist PROVE Download!TempRight'
    BY <1>11 DEF Download!Persist, Download!Network, Download!Disk, Download!Goto,
       Download!Ends
<1>12. ASSUME NEW w \in {"mismatch", "io"}, Download!Abort(w) PROVE Download!TempRight'
    BY <1>12 DEF Download!Abort, Download!Network, Download!Disk, Download!Goto,
       Download!Ends
<1>13. ASSUME NEW b \in {Archive, Garbage}, Download!Body(b) PROVE Download!TempRight'
    BY <1>13 DEF Download!Body, Download!Network, Download!Disk, Download!Goto,
       Download!Ends
<1>14. ASSUME Download!Killed PROVE Download!TempRight'
    BY <1>14 DEF Download!Killed, Download!Network, Download!Disk, Download!Goto,
       Download!Ends
<1>15. ASSUME Download!Again PROVE Download!TempRight'
    BY <1>15 DEF Download!Again, Download!Network, Download!Disk, Download!Goto,
       Download!Ends
<1>16. ASSUME NEW b \in Download!Bytes, Download!Tamper(b) PROVE Download!TempRight'
    BY <1>16 DEF Download!Tamper, Download!Network
<1> QED BY <1>1, <1>2, <1>3, <1>4, <1>5, <1>6, <1>7, <1>8, <1>9, <1>10, <1>11, <1>12, <1>13,
   <1>14, <1>15, <1>16 DEF Download!Next, Download!Fetching, Download!Downloading

\* A turn of the loop over the aliases follows every trail.
LEMMA DownloadTrail ==
    ASSUME Download!TypeOK, Download!OnTrail, Download!Next
    PROVE  Download!OnTrail'
<1> USE DownloadFacts DEF Download!Official, Download!Origin, Download!TypeOK,
   Download!OnTrail
<1>1. ASSUME Download!Ask PROVE Download!OnTrail'
    BY <1>1 DEF Download!Ask, Download!NextSource, Download!Goto, Download!Ends,
       Download!Network, Download!Disk, Download!Allowed
<1>2. ASSUME Download!Refuse PROVE Download!OnTrail'
    BY <1>2 DEF Download!Refuse, Download!NextSource, Download!Goto, Download!Ends,
       Download!Network, Download!Disk, Download!Allowed
<1>3. ASSUME Download!Resolve PROVE Download!OnTrail'
    <2>1. SUFFICES ASSUME x2' = "resolve", NEW trail \in Download!Trails, Download!Leads(x6, trail)
          PROVE  x5' < AliasLimit /\ x6' = x6 /\ x5' < Len(trail) /\ x7' = trail[x5' + 1]
        BY <1>3 DEF Download!Resolve, Download!Goto, Download!Ends
    <2>2. /\ x5 \in Nat /\ Len(trail) \in Nat /\ x5 < Len(trail) /\ x7 = trail[x5 + 1]
        BY <1>3, <2>1, DownloadTrails DEF Download!Resolve
    <2>3. x5 + 1 = Len(trail) => x6[x7] = Archive
        BY <2>1, <2>2 DEF Download!Leads
    <2>4. x5 + 1 < Len(trail) => x6[x7] = trail[x5 + 2]
        BY <2>1, <2>2 DEF Download!Leads
    <2> QED BY <1>3, <2>1, <2>2, <2>3, <2>4 DEF Download!Resolve, Download!Goto, Download!Ends
<1>4. ASSUME NEW o \in Download!Origin, Download!Redirect(o) PROVE Download!OnTrail'
    BY <1>4 DEF Download!Redirect, Download!NextSource, Download!Goto, Download!Ends,
       Download!Network, Download!Disk, Download!Allowed, Download!Follows
<1>5. ASSUME NEW p \in Download!Platforms, Download!Answer(p) PROVE Download!OnTrail'
    <2>1. ASSUME NEW trail \in Download!Trails, Download!Leads(x6', trail)
          PROVE  0 < Len(trail) /\ trail[0 + 1] = ThisPlatform
        BY <2>1, DownloadTrails DEF Download!Leads
    <2> QED BY <1>5, <2>1 DEF Download!Answer, Download!Goto
<1>6. ASSUME Download!Kept PROVE Download!OnTrail'
    BY <1>6 DEF Download!Kept, Download!Network, Download!Disk, Download!Goto, Download!Ends
<1>7. ASSUME Download!Pass PROVE Download!OnTrail'
    BY <1>7 DEF Download!Pass, Download!NextUrl, Download!Goto, Download!Ends,
       Download!Network
<1>8. ASSUME Download!Get PROVE Download!OnTrail'
    BY <1>8 DEF Download!Get, Download!Network, Download!Disk, Download!Goto, Download!Ends
<1>9. ASSUME Download!Unreachable PROVE Download!OnTrail'
    BY <1>9 DEF Download!Unreachable, Download!NextUrl, Download!Goto, Download!Ends,
       Download!Network
<1>10. ASSUME Download!Verify PROVE Download!OnTrail'
    BY <1>10 DEF Download!Verify, Download!Network, Download!Disk, Download!Goto,
       Download!Ends
<1>11. ASSUME Download!Persist PROVE Download!OnTrail'
    BY <1>11 DEF Download!Persist, Download!Network, Download!Disk, Download!Goto,
       Download!Ends
<1>12. ASSUME NEW w \in {"mismatch", "io"}, Download!Abort(w) PROVE Download!OnTrail'
    BY <1>12 DEF Download!Abort, Download!Network, Download!Disk, Download!Goto,
       Download!Ends
<1>13. ASSUME NEW b \in {Archive, Garbage}, Download!Body(b) PROVE Download!OnTrail'
    BY <1>13 DEF Download!Body, Download!Network, Download!Disk, Download!Goto,
       Download!Ends
<1>14. ASSUME Download!Killed PROVE Download!OnTrail'
    BY <1>14 DEF Download!Killed, Download!Network, Download!Disk, Download!Goto,
       Download!Ends
<1>15. ASSUME Download!Again PROVE Download!OnTrail'
    BY <1>15 DEF Download!Again, Download!Network, Download!Disk, Download!Goto,
       Download!Ends
<1>16. ASSUME NEW b \in Download!Bytes, Download!Tamper(b) PROVE Download!OnTrail'
    BY <1>16 DEF Download!Tamper, Download!Network
<1> QED BY <1>1, <1>2, <1>3, <1>4, <1>5, <1>6, <1>7, <1>8, <1>9, <1>10, <1>11, <1>12, <1>13,
   <1>14, <1>15, <1>16 DEF Download!Next, Download!Fetching, Download!Downloading

\* A redirect stays within the origins of its source.
LEMMA DownloadOrigins ==
    ASSUME Download!TypeOK, Download!SourceRight, Download!OriginsKept, Download!Next
    PROVE  Download!OriginsKept'
<1> USE DownloadFacts DEF Download!Official, Download!Origin, Download!TypeOK,
   Download!SourceRight, Download!OriginsKept
<1>1. ASSUME Download!Ask PROVE Download!OriginsKept'
    BY <1>1 DEF Download!Ask, Download!NextSource, Download!Goto, Download!Ends,
       Download!Network, Download!Disk, Download!Allowed
<1>2. ASSUME Download!Refuse PROVE Download!OriginsKept'
    BY <1>2 DEF Download!Refuse, Download!NextSource, Download!Goto, Download!Ends,
       Download!Network, Download!Disk, Download!Allowed
<1>3. ASSUME Download!Resolve PROVE Download!OriginsKept'
    BY <1>3 DEF Download!Resolve, Download!Network, Download!Disk, Download!Goto,
       Download!Ends
<1>4. ASSUME NEW o \in Download!Origin, Download!Redirect(o) PROVE Download!OriginsKept'
    BY <1>4 DEF Download!Redirect, Download!NextSource, Download!Goto, Download!Ends,
       Download!Network, Download!Disk, Download!Allowed, Download!Follows
<1>5. ASSUME NEW p \in Download!Platforms, Download!Answer(p) PROVE Download!OriginsKept'
    BY <1>5 DEF Download!Answer, Download!Network, Download!Disk, Download!Goto,
       Download!Ends
<1>6. ASSUME Download!Kept PROVE Download!OriginsKept'
    BY <1>6 DEF Download!Kept, Download!Network, Download!Disk, Download!Goto, Download!Ends
<1>7. ASSUME Download!Pass PROVE Download!OriginsKept'
    BY <1>7 DEF Download!Pass, Download!NextUrl, Download!Goto, Download!Ends,
       Download!Network
<1>8. ASSUME Download!Get PROVE Download!OriginsKept'
    BY <1>8 DEF Download!Get, Download!Network, Download!Disk, Download!Goto, Download!Ends
<1>9. ASSUME Download!Unreachable PROVE Download!OriginsKept'
    BY <1>9 DEF Download!Unreachable, Download!NextUrl, Download!Goto, Download!Ends,
       Download!Network
<1>10. ASSUME Download!Verify PROVE Download!OriginsKept'
    BY <1>10 DEF Download!Verify, Download!Network, Download!Disk, Download!Goto,
       Download!Ends
<1>11. ASSUME Download!Persist PROVE Download!OriginsKept'
    BY <1>11 DEF Download!Persist, Download!Network, Download!Disk, Download!Goto,
       Download!Ends
<1>12. ASSUME NEW w \in {"mismatch", "io"}, Download!Abort(w) PROVE Download!OriginsKept'
    BY <1>12 DEF Download!Abort, Download!Network, Download!Disk, Download!Goto,
       Download!Ends
<1>13. ASSUME NEW b \in {Archive, Garbage}, Download!Body(b) PROVE Download!OriginsKept'
    BY <1>13 DEF Download!Body, Download!Network, Download!Disk, Download!Goto,
       Download!Ends
<1>14. ASSUME Download!Killed PROVE Download!OriginsKept'
    BY <1>14 DEF Download!Killed, Download!Network, Download!Disk, Download!Goto,
       Download!Ends
<1>15. ASSUME Download!Again PROVE Download!OriginsKept'
    BY <1>15 DEF Download!Again, Download!Network, Download!Disk, Download!Goto,
       Download!Ends
<1>16. ASSUME NEW b \in Download!Bytes, Download!Tamper(b) PROVE Download!OriginsKept'
    BY <1>16 DEF Download!Tamper, Download!Network
<1> QED BY <1>1, <1>2, <1>3, <1>4, <1>5, <1>6, <1>7, <1>8, <1>9, <1>10, <1>11, <1>12, <1>13,
   <1>14, <1>15, <1>16 DEF Download!Next, Download!Fetching, Download!Downloading

\* What is delivered was verified or hashed.
LEMMA DownloadDelivers ==
    ASSUME Download!TypeOK, Download!ChainRight, Download!TempRight,
       Download!DeliversListed, Download!Next
    PROVE  Download!DeliversListed'
<1> USE DownloadFacts DEF Download!Official, Download!Origin, Download!TypeOK,
   Download!ChainRight, Download!TempRight, Download!DeliversListed, Download!Verdict
<1>1. ASSUME Download!Ask PROVE Download!DeliversListed'
    BY <1>1 DEF Download!Ask, Download!NextSource, Download!Goto, Download!Ends,
       Download!Network, Download!Disk, Download!Allowed
<1>2. ASSUME Download!Refuse PROVE Download!DeliversListed'
    BY <1>2 DEF Download!Refuse, Download!NextSource, Download!Goto, Download!Ends,
       Download!Network, Download!Disk, Download!Allowed
<1>3. ASSUME Download!Resolve PROVE Download!DeliversListed'
    BY <1>3 DEF Download!Resolve, Download!Network, Download!Disk, Download!Goto,
       Download!Ends
<1>4. ASSUME NEW o \in Download!Origin, Download!Redirect(o) PROVE Download!DeliversListed'
    BY <1>4 DEF Download!Redirect, Download!NextSource, Download!Goto, Download!Ends,
       Download!Network, Download!Disk, Download!Allowed, Download!Follows
<1>5. ASSUME NEW p \in Download!Platforms, Download!Answer(p) PROVE Download!DeliversListed'
    BY <1>5 DEF Download!Answer, Download!Network, Download!Disk, Download!Goto,
       Download!Ends
<1>6. ASSUME Download!Kept PROVE Download!DeliversListed'
    BY <1>6 DEF Download!Kept, Download!Network, Download!Disk, Download!Goto, Download!Ends
<1>7. ASSUME Download!Pass PROVE Download!DeliversListed'
    BY <1>7 DEF Download!Pass, Download!NextUrl, Download!Goto, Download!Ends,
       Download!Network
<1>8. ASSUME Download!Get PROVE Download!DeliversListed'
    BY <1>8 DEF Download!Get, Download!Network, Download!Disk, Download!Goto, Download!Ends
<1>9. ASSUME Download!Unreachable PROVE Download!DeliversListed'
    BY <1>9 DEF Download!Unreachable, Download!NextUrl, Download!Goto, Download!Ends,
       Download!Network
<1>10. ASSUME Download!Verify PROVE Download!DeliversListed'
    BY <1>10 DEF Download!Verify, Download!Network, Download!Disk, Download!Goto,
       Download!Ends
<1>11. ASSUME Download!Persist PROVE Download!DeliversListed'
    BY <1>11 DEF Download!Persist, Download!Network, Download!Disk, Download!Goto,
       Download!Ends
<1>12. ASSUME NEW w \in {"mismatch", "io"}, Download!Abort(w) PROVE Download!DeliversListed'
    BY <1>12 DEF Download!Abort, Download!Network, Download!Disk, Download!Goto,
       Download!Ends
<1>13. ASSUME NEW b \in {Archive, Garbage}, Download!Body(b) PROVE Download!DeliversListed'
    BY <1>13 DEF Download!Body, Download!Network, Download!Disk, Download!Goto,
       Download!Ends
<1>14. ASSUME Download!Killed PROVE Download!DeliversListed'
    BY <1>14 DEF Download!Killed, Download!Network, Download!Disk, Download!Goto,
       Download!Ends
<1>15. ASSUME Download!Again PROVE Download!DeliversListed'
    BY <1>15 DEF Download!Again, Download!Network, Download!Disk, Download!Goto,
       Download!Ends
<1>16. ASSUME NEW b \in Download!Bytes, Download!Tamper(b) PROVE Download!DeliversListed'
    BY <1>16 DEF Download!Tamper, Download!Network
<1> QED BY <1>1, <1>2, <1>3, <1>4, <1>5, <1>6, <1>7, <1>8, <1>9, <1>10, <1>11, <1>12, <1>13,
   <1>14, <1>15, <1>16 DEF Download!Next, Download!Fetching, Download!Downloading

\* What is put in place was verified.
LEMMA DownloadKept ==
    ASSUME Download!TypeOK, Download!TempRight, Download!KeptIsVerified, Download!Next
    PROVE  Download!KeptIsVerified'
<1> USE DownloadFacts DEF Download!Official, Download!Origin, Download!TypeOK,
   Download!TempRight, Download!KeptIsVerified, Download!Bytes
<1>1. ASSUME Download!Ask PROVE Download!KeptIsVerified'
    BY <1>1 DEF Download!Ask, Download!NextSource, Download!Goto, Download!Ends,
       Download!Network, Download!Disk, Download!Allowed
<1>2. ASSUME Download!Refuse PROVE Download!KeptIsVerified'
    BY <1>2 DEF Download!Refuse, Download!NextSource, Download!Goto, Download!Ends,
       Download!Network, Download!Disk, Download!Allowed
<1>3. ASSUME Download!Resolve PROVE Download!KeptIsVerified'
    BY <1>3 DEF Download!Resolve, Download!Network, Download!Disk, Download!Goto,
       Download!Ends
<1>4. ASSUME NEW o \in Download!Origin, Download!Redirect(o) PROVE Download!KeptIsVerified'
    BY <1>4 DEF Download!Redirect, Download!NextSource, Download!Goto, Download!Ends,
       Download!Network, Download!Disk, Download!Allowed, Download!Follows
<1>5. ASSUME NEW p \in Download!Platforms, Download!Answer(p) PROVE Download!KeptIsVerified'
    BY <1>5 DEF Download!Answer, Download!Network, Download!Disk, Download!Goto,
       Download!Ends
<1>6. ASSUME Download!Kept PROVE Download!KeptIsVerified'
    BY <1>6 DEF Download!Kept, Download!Network, Download!Disk, Download!Goto, Download!Ends
<1>7. ASSUME Download!Pass PROVE Download!KeptIsVerified'
    BY <1>7 DEF Download!Pass, Download!NextUrl, Download!Goto, Download!Ends,
       Download!Network
<1>8. ASSUME Download!Get PROVE Download!KeptIsVerified'
    BY <1>8 DEF Download!Get, Download!Network, Download!Disk, Download!Goto, Download!Ends
<1>9. ASSUME Download!Unreachable PROVE Download!KeptIsVerified'
    BY <1>9 DEF Download!Unreachable, Download!NextUrl, Download!Goto, Download!Ends,
       Download!Network
<1>10. ASSUME Download!Verify PROVE Download!KeptIsVerified'
    BY <1>10 DEF Download!Verify, Download!Network, Download!Disk, Download!Goto,
       Download!Ends
<1>11. ASSUME Download!Persist PROVE Download!KeptIsVerified'
    BY <1>11 DEF Download!Persist, Download!Network, Download!Disk, Download!Goto,
       Download!Ends
<1>12. ASSUME NEW w \in {"mismatch", "io"}, Download!Abort(w) PROVE Download!KeptIsVerified'
    BY <1>12 DEF Download!Abort, Download!Network, Download!Disk, Download!Goto,
       Download!Ends
<1>13. ASSUME NEW b \in {Archive, Garbage}, Download!Body(b) PROVE Download!KeptIsVerified'
    BY <1>13 DEF Download!Body, Download!Network, Download!Disk, Download!Goto,
       Download!Ends
<1>14. ASSUME Download!Killed PROVE Download!KeptIsVerified'
    BY <1>14 DEF Download!Killed, Download!Network, Download!Disk, Download!Goto,
       Download!Ends
<1>15. ASSUME Download!Again PROVE Download!KeptIsVerified'
    BY <1>15 DEF Download!Again, Download!Network, Download!Disk, Download!Goto,
       Download!Ends
<1>16. ASSUME NEW b \in Download!Bytes, Download!Tamper(b) PROVE Download!KeptIsVerified'
    BY <1>16 DEF Download!Tamper, Download!Network
<1> QED BY <1>1, <1>2, <1>3, <1>4, <1>5, <1>6, <1>7, <1>8, <1>9, <1>10, <1>11, <1>12, <1>13,
   <1>14, <1>15, <1>16 DEF Download!Next, Download!Fetching, Download!Downloading

\* A run without a manifest has asked every source.
LEMMA DownloadNoManifest ==
    ASSUME Download!TypeOK, Download!SourceRight, Download!ChainRight, Download!NoManifest,
       Download!Next
    PROVE  Download!NoManifest'
<1> USE DownloadFacts DEF Download!Official, Download!Origin, Download!TypeOK,
   Download!SourceRight, Download!ChainRight, Download!NoManifest, Download!Verdict
<1>1. ASSUME Download!Ask PROVE Download!NoManifest'
    BY <1>1 DEF Download!Ask, Download!NextSource, Download!Goto, Download!Ends,
       Download!Network, Download!Disk, Download!Allowed
<1>2. ASSUME Download!Refuse PROVE Download!NoManifest'
    BY <1>2 DEF Download!Refuse, Download!NextSource, Download!Goto, Download!Ends,
       Download!Network, Download!Disk, Download!Allowed
<1>3. ASSUME Download!Resolve PROVE Download!NoManifest'
    BY <1>3 DEF Download!Resolve, Download!Network, Download!Disk, Download!Goto,
       Download!Ends
<1>4. ASSUME NEW o \in Download!Origin, Download!Redirect(o) PROVE Download!NoManifest'
    BY <1>4 DEF Download!Redirect, Download!NextSource, Download!Goto, Download!Ends,
       Download!Network, Download!Disk, Download!Allowed, Download!Follows
<1>5. ASSUME NEW p \in Download!Platforms, Download!Answer(p) PROVE Download!NoManifest'
    BY <1>5 DEF Download!Answer, Download!Network, Download!Disk, Download!Goto,
       Download!Ends
<1>6. ASSUME Download!Kept PROVE Download!NoManifest'
    BY <1>6 DEF Download!Kept, Download!Network, Download!Disk, Download!Goto, Download!Ends
<1>7. ASSUME Download!Pass PROVE Download!NoManifest'
    BY <1>7 DEF Download!Pass, Download!NextUrl, Download!Goto, Download!Ends,
       Download!Network
<1>8. ASSUME Download!Get PROVE Download!NoManifest'
    BY <1>8 DEF Download!Get, Download!Network, Download!Disk, Download!Goto, Download!Ends
<1>9. ASSUME Download!Unreachable PROVE Download!NoManifest'
    BY <1>9 DEF Download!Unreachable, Download!NextUrl, Download!Goto, Download!Ends,
       Download!Network
<1>10. ASSUME Download!Verify PROVE Download!NoManifest'
    BY <1>10 DEF Download!Verify, Download!Network, Download!Disk, Download!Goto,
       Download!Ends
<1>11. ASSUME Download!Persist PROVE Download!NoManifest'
    BY <1>11 DEF Download!Persist, Download!Network, Download!Disk, Download!Goto,
       Download!Ends
<1>12. ASSUME NEW w \in {"mismatch", "io"}, Download!Abort(w) PROVE Download!NoManifest'
    BY <1>12 DEF Download!Abort, Download!Network, Download!Disk, Download!Goto,
       Download!Ends
<1>13. ASSUME NEW b \in {Archive, Garbage}, Download!Body(b) PROVE Download!NoManifest'
    BY <1>13 DEF Download!Body, Download!Network, Download!Disk, Download!Goto,
       Download!Ends
<1>14. ASSUME Download!Killed PROVE Download!NoManifest'
    BY <1>14 DEF Download!Killed, Download!Network, Download!Disk, Download!Goto,
       Download!Ends
<1>15. ASSUME Download!Again PROVE Download!NoManifest'
    BY <1>15 DEF Download!Again, Download!Network, Download!Disk, Download!Goto,
       Download!Ends
<1>16. ASSUME NEW b \in Download!Bytes, Download!Tamper(b) PROVE Download!NoManifest'
    BY <1>16 DEF Download!Tamper, Download!Network
<1> QED BY <1>1, <1>2, <1>3, <1>4, <1>5, <1>6, <1>7, <1>8, <1>9, <1>10, <1>11, <1>12, <1>13,
   <1>14, <1>15, <1>16 DEF Download!Next, Download!Fetching, Download!Downloading

\* A run without an archive has asked every URL.
LEMMA DownloadNoArchive ==
    ASSUME Download!TypeOK, Download!ChainRight, Download!TempRight, Download!NoArchive,
       Download!Next
    PROVE  Download!NoArchive'
<1> USE DownloadFacts DEF Download!Official, Download!Origin, Download!TypeOK,
   Download!ChainRight, Download!TempRight, Download!NoArchive, Download!Verdict
<1>1. ASSUME Download!Ask PROVE Download!NoArchive'
    BY <1>1 DEF Download!Ask, Download!NextSource, Download!Goto, Download!Ends,
       Download!Network, Download!Disk, Download!Allowed
<1>2. ASSUME Download!Refuse PROVE Download!NoArchive'
    BY <1>2 DEF Download!Refuse, Download!NextSource, Download!Goto, Download!Ends,
       Download!Network, Download!Disk, Download!Allowed
<1>3. ASSUME Download!Resolve PROVE Download!NoArchive'
    BY <1>3 DEF Download!Resolve, Download!Network, Download!Disk, Download!Goto,
       Download!Ends
<1>4. ASSUME NEW o \in Download!Origin, Download!Redirect(o) PROVE Download!NoArchive'
    BY <1>4 DEF Download!Redirect, Download!NextSource, Download!Goto, Download!Ends,
       Download!Network, Download!Disk, Download!Allowed, Download!Follows
<1>5. ASSUME NEW p \in Download!Platforms, Download!Answer(p) PROVE Download!NoArchive'
    BY <1>5 DEF Download!Answer, Download!Network, Download!Disk, Download!Goto,
       Download!Ends
<1>6. ASSUME Download!Kept PROVE Download!NoArchive'
    BY <1>6 DEF Download!Kept, Download!Network, Download!Disk, Download!Goto, Download!Ends
<1>7. ASSUME Download!Pass PROVE Download!NoArchive'
    BY <1>7 DEF Download!Pass, Download!NextUrl, Download!Goto, Download!Ends,
       Download!Network
<1>8. ASSUME Download!Get PROVE Download!NoArchive'
    BY <1>8 DEF Download!Get, Download!Network, Download!Disk, Download!Goto, Download!Ends
<1>9. ASSUME Download!Unreachable PROVE Download!NoArchive'
    BY <1>9 DEF Download!Unreachable, Download!NextUrl, Download!Goto, Download!Ends,
       Download!Network
<1>10. ASSUME Download!Verify PROVE Download!NoArchive'
    BY <1>10 DEF Download!Verify, Download!Network, Download!Disk, Download!Goto,
       Download!Ends
<1>11. ASSUME Download!Persist PROVE Download!NoArchive'
    BY <1>11 DEF Download!Persist, Download!Network, Download!Disk, Download!Goto,
       Download!Ends
<1>12. ASSUME NEW w \in {"mismatch", "io"}, Download!Abort(w) PROVE Download!NoArchive'
    BY <1>12 DEF Download!Abort, Download!Network, Download!Disk, Download!Goto,
       Download!Ends
<1>13. ASSUME NEW b \in {Archive, Garbage}, Download!Body(b) PROVE Download!NoArchive'
    BY <1>13 DEF Download!Body, Download!Network, Download!Disk, Download!Goto,
       Download!Ends
<1>14. ASSUME Download!Killed PROVE Download!NoArchive'
    BY <1>14 DEF Download!Killed, Download!Network, Download!Disk, Download!Goto,
       Download!Ends
<1>15. ASSUME Download!Again PROVE Download!NoArchive'
    BY <1>15 DEF Download!Again, Download!Network, Download!Disk, Download!Goto,
       Download!Ends
<1>16. ASSUME NEW b \in Download!Bytes, Download!Tamper(b) PROVE Download!NoArchive'
    BY <1>16 DEF Download!Tamper, Download!Network
<1> QED BY <1>1, <1>2, <1>3, <1>4, <1>5, <1>6, <1>7, <1>8, <1>9, <1>10, <1>11, <1>12, <1>13,
   <1>14, <1>15, <1>16 DEF Download!Next, Download!Fetching, Download!Downloading

\* Only the loop over the aliases ends a run without an entry.
LEMMA DownloadVerdict ==
    ASSUME Download!ChainRight, Download!Next
    PROVE  (Download!Resolve \/ (x11' \in {"unsupported", "malformed"} => x11' = x11 /\ x6' = x6))
<1> USE DEF Download!Official, Download!Origin, Download!ChainRight
<1>1. ASSUME Download!Ask PROVE (Download!Resolve \/ (x11' \in {"unsupported", "malformed"} => x11' = x11 /\ x6' = x6))
    BY <1>1 DEF Download!Ask, Download!NextSource, Download!Goto, Download!Ends,
       Download!Network, Download!Disk, Download!Allowed
<1>2. ASSUME Download!Refuse PROVE (Download!Resolve \/ (x11' \in {"unsupported", "malformed"} => x11' = x11 /\ x6' = x6))
    BY <1>2 DEF Download!Refuse, Download!NextSource, Download!Goto, Download!Ends,
       Download!Network, Download!Disk, Download!Allowed
<1>3. ASSUME Download!Resolve PROVE (Download!Resolve \/ (x11' \in {"unsupported", "malformed"} => x11' = x11 /\ x6' = x6))
    BY <1>3 DEF Download!Resolve, Download!Network, Download!Disk, Download!Goto,
       Download!Ends
<1>4. ASSUME NEW o \in Download!Origin, Download!Redirect(o) PROVE (Download!Resolve \/ (x11' \in {"unsupported", "malformed"} => x11' = x11 /\ x6' = x6))
    BY <1>4 DEF Download!Redirect, Download!NextSource, Download!Goto, Download!Ends,
       Download!Network, Download!Disk, Download!Allowed, Download!Follows
<1>5. ASSUME NEW p \in Download!Platforms, Download!Answer(p) PROVE (Download!Resolve \/ (x11' \in {"unsupported", "malformed"} => x11' = x11 /\ x6' = x6))
    BY <1>5 DEF Download!Answer, Download!Network, Download!Disk, Download!Goto,
       Download!Ends
<1>6. ASSUME Download!Kept PROVE (Download!Resolve \/ (x11' \in {"unsupported", "malformed"} => x11' = x11 /\ x6' = x6))
    BY <1>6 DEF Download!Kept, Download!Network, Download!Disk, Download!Goto, Download!Ends
<1>7. ASSUME Download!Pass PROVE (Download!Resolve \/ (x11' \in {"unsupported", "malformed"} => x11' = x11 /\ x6' = x6))
    BY <1>7 DEF Download!Pass, Download!NextUrl, Download!Goto, Download!Ends,
       Download!Network
<1>8. ASSUME Download!Get PROVE (Download!Resolve \/ (x11' \in {"unsupported", "malformed"} => x11' = x11 /\ x6' = x6))
    BY <1>8 DEF Download!Get, Download!Network, Download!Disk, Download!Goto, Download!Ends
<1>9. ASSUME Download!Unreachable PROVE (Download!Resolve \/ (x11' \in {"unsupported", "malformed"} => x11' = x11 /\ x6' = x6))
    BY <1>9 DEF Download!Unreachable, Download!NextUrl, Download!Goto, Download!Ends,
       Download!Network
<1>10. ASSUME Download!Verify PROVE (Download!Resolve \/ (x11' \in {"unsupported", "malformed"} => x11' = x11 /\ x6' = x6))
    BY <1>10 DEF Download!Verify, Download!Network, Download!Disk, Download!Goto,
       Download!Ends
<1>11. ASSUME Download!Persist PROVE (Download!Resolve \/ (x11' \in {"unsupported", "malformed"} => x11' = x11 /\ x6' = x6))
    BY <1>11 DEF Download!Persist, Download!Network, Download!Disk, Download!Goto,
       Download!Ends
<1>12. ASSUME NEW w \in {"mismatch", "io"}, Download!Abort(w) PROVE (Download!Resolve \/ (x11' \in {"unsupported", "malformed"} => x11' = x11 /\ x6' = x6))
    BY <1>12 DEF Download!Abort, Download!Network, Download!Disk, Download!Goto,
       Download!Ends
<1>13. ASSUME NEW b \in {Archive, Garbage}, Download!Body(b) PROVE (Download!Resolve \/ (x11' \in {"unsupported", "malformed"} => x11' = x11 /\ x6' = x6))
    BY <1>13 DEF Download!Body, Download!Network, Download!Disk, Download!Goto,
       Download!Ends
<1>14. ASSUME Download!Killed PROVE (Download!Resolve \/ (x11' \in {"unsupported", "malformed"} => x11' = x11 /\ x6' = x6))
    BY <1>14 DEF Download!Killed, Download!Network, Download!Disk, Download!Goto,
       Download!Ends
<1>15. ASSUME Download!Again PROVE (Download!Resolve \/ (x11' \in {"unsupported", "malformed"} => x11' = x11 /\ x6' = x6))
    BY <1>15 DEF Download!Again, Download!Network, Download!Disk, Download!Goto,
       Download!Ends
<1>16. ASSUME NEW b \in Download!Bytes, Download!Tamper(b) PROVE (Download!Resolve \/ (x11' \in {"unsupported", "malformed"} => x11' = x11 /\ x6' = x6))
    BY <1>16 DEF Download!Tamper, Download!Network
<1> QED BY <1>1, <1>2, <1>3, <1>4, <1>5, <1>6, <1>7, <1>8, <1>9, <1>10, <1>11, <1>12, <1>13,
   <1>14, <1>15, <1>16 DEF Download!Next, Download!Fetching, Download!Downloading

\* The loop ends without an entry only where no trail leads to one.
LEMMA DownloadNoEntry ==
    ASSUME Download!TypeOK, Download!ChainRight, Download!OnTrail, Download!NoEntry, Download!Next
    PROVE  Download!NoEntry'
<1> USE DEF Download!NoEntry
<1>1. CASE Download!Resolve
    <2>1. SUFFICES ASSUME x11' \in {"unsupported", "malformed"}, Download!Reaches(x6) PROVE FALSE
        BY <1>1 DEF Download!Resolve, Download!Reaches
    <2>2. PICK trail \in Download!Trails : Download!Leads(x6, trail)
        BY <2>1 DEF Download!Reaches
    <2>3. /\ Len(trail) \in 1..Cardinality(PlatformKeys) /\ x5 \in Nat
          /\ x5 < Len(trail) /\ x7 = trail[x5 + 1]
        <3>1. x2 = "resolve"
            BY <1>1 DEF Download!Resolve
        <3> QED BY <3>1, <2>2, DownloadTrails, DownloadFacts DEF Download!OnTrail, Download!TypeOK
    <2>4. x5 + 1 < Len(trail) => x6[x7] \in PlatformKeys
        <3>1. ASSUME x5 + 1 < Len(trail) PROVE x6[x7] = trail[x5 + 2] /\ x5 + 2 \in 1..Len(trail)
            BY <2>2, <2>3, <3>1, DownloadFacts DEF Download!Leads
        <3> QED BY <3>1, DownloadTrails
    <2>5. x5 + 1 = Len(trail) => x6[x7] = Archive
        BY <2>2, <2>3 DEF Download!Leads
    <2> QED BY <1>1, <2>1, <2>3, <2>4, <2>5, DownloadFacts DEF Download!Resolve, Download!TypeOK,
               Download!Goto, Download!Ends
<1>2. CASE ~Download!Resolve
    <2>1. x11' \in {"unsupported", "malformed"} => x11' = x11 /\ x6' = x6
        BY <1>2, DownloadVerdict
    <2> QED BY <2>1 DEF Download!Reaches
<1> QED BY <1>1, <1>2

\* Nothing is asked initially.
LEMMA DownloadInit == ASSUME Download!Init PROVE Download!IInv
<1> USE DownloadFacts DEF Download!Init, Download!Official, Download!Origin
<1>1. x1 \in Seq(Download!Origin) /\ Len(x1) \in Nat \ {0} /\ x4 \in Download!Origin
    <2>1. CASE x1 = <<"official", "mirror">>
        BY <2>1
    <2>2. CASE x1 = <<"custom">>
        BY <2>2
    <2>3. CASE x1 = <<"local", "custom">>
        BY <2>3
    <2> QED BY <2>1, <2>2, <2>3
<1>2. Download!TypeOK
    <2>1. x8 \in Download!Bytes \X {"us", "others"} /\ x9 \in Download!Bytes /\ x10 \in Download!Bytes
        BY DEF Download!Bytes
    <2> QED BY <1>1, <2>1 DEF Download!TypeOK, Download!Platforms, Download!Bytes, Download!Verdict
<1>3. Download!SourceRight /\ Download!ChainRight /\ Download!TempRight /\ Download!OnTrail
    BY <1>1 DEF Download!SourceRight, Download!ChainRight, Download!TempRight, Download!OnTrail
<1>4. Download!OriginsKept /\ Download!DeliversListed /\ Download!KeptIsVerified
    BY DEF Download!OriginsKept, Download!DeliversListed, Download!KeptIsVerified
<1>5. Download!GivesUpRightly
    BY DEF Download!GivesUpRightly, Download!NoManifest, Download!NoEntry, Download!NoArchive
<1> QED BY <1>2, <1>3, <1>4, <1>5 DEF Download!IInv

LEMMA DownloadStep == ASSUME Download!IInv, Download!Next PROVE Download!IInv'
BY DownloadTypes, DownloadSource, DownloadChain, DownloadTemp, DownloadTrail, DownloadOrigins,
   DownloadDelivers, DownloadKept, DownloadNoManifest, DownloadNoEntry, DownloadNoArchive
   DEF Download!IInv, Download!GivesUpRightly

DownloadInv == sys = "fetch" => Download!IInv

\* Wherever the sources redirect to, whatever the manifest's aliases lead to, however
\* long they are, and whoever changes the cache, a download delivers the archive that
\* is listed and gives up on what nobody offered (widevine/manifest.rs, download.rs).
THEOREM FetchIsSafe == ServingSpec => []FetchSafe
<1>1. ServingInit => DownloadInv
    BY DownloadInit DEF ServingInit, DownloadInv
<1>2. ASSUME DownloadInv, [ServingNext]_<<sys, vars, xs>> PROVE DownloadInv'
    <2>1. CASE UNCHANGED <<sys, vars, xs>>
        BY <1>2, <2>1 DEF DownloadInv, xs, Download!IInv, Download!TypeOK,
           Download!SourceRight, Download!ChainRight, Download!TempRight, Download!OnTrail,
           Download!OriginsKept, Download!DeliversListed, Download!KeptIsVerified,
           Download!GivesUpRightly, Download!NoManifest, Download!NoEntry,
           Download!NoArchive, Download!Reaches, Download!Leads
    <2>2. CASE ServingNext
        BY <1>2, <2>2, DownloadStep DEF DownloadInv, ServingNext
    <2> QED BY <1>2, <2>1, <2>2
<1>3. DownloadInv => FetchSafe
    BY DEF DownloadInv, FetchSafe, Download!IInv
<1> QED BY <1>1, <1>2, <1>3, PTL DEF ServingSpec

-----------------------------------------------------------------------------
(* The probe of a browser.                                                  *)

\* The numbers of the probe.
LEMMA EmeNumbers ==
    /\ Patience \in Nat /\ ReadPatience \in Nat /\ SlowReads \in Nat \ {0}
    /\ RequestLimit \in Nat /\ Connections \in Nat
BY ServingAssumption

\* What multiplies them: more time for a read is more time for all of them.
LEMMA EmeProducts ==
    ASSUME NEW reads \in Nat, NEW each \in Nat, NEW most \in Nat, each <= most
    PROVE  reads * each \in Nat /\ reads * most \in Nat /\ reads * each <= reads * most
OBVIOUS

\* Whoever connects joins the line.
LEMMA EmeConnects ==
    ASSUME Eme!ServerTypeOK, Eme!LineRight, NEW request \in Eme!Request, Eme!Connect(request)
    PROVE  Eme!LineRight' /\ x6' \in 0..Connections
<1> USE EmeNumbers DEF Eme!ServerTypeOK, Eme!LineRight, Eme!Connect
<1>1. x2' \in Seq(Eme!Request) /\ Len(x2') = Len(x2) + 1
    OBVIOUS
<1>2. x6' = x6 + 1 /\ x6' \in 0..Connections /\ Len(x2) \in Nat
    OBVIOUS
<1> QED BY <1>1, <1>2

\* The requests that are sent.
LEMMA EmeRequests ==
    /\ Eme!Nil \in Eme!Request /\ [kind |-> "other"] \in Eme!Request /\ [kind |-> "page"] \in Eme!Request
    /\ [kind |-> "post"] \in Eme!Request
    /\ \A left \in 0..SlowReads, each \in 0..ReadPatience : Eme!Slow(left, each) \in Eme!Request
BY DEF Eme!Nil, Eme!Request, Eme!Slow

\* A client of the line is one of those that connect.
LEMMA EmeKinds ==
    ASSUME NEW request \in Eme!Request
    PROVE  request.kind = "slow" => request.left \in 0..SlowReads /\ request.each \in 0..ReadPatience
BY DEF Eme!Request

\* The time of a read that is accepted before the deadline.
LEMMA EmeReadTime ==
    ASSUME Eme!ServerTypeOK, x1 < Patience
    PROVE  Eme!ReadTime \in 0..ReadPatience /\ Eme!ReadTime <= Patience - x1
BY EmeNumbers DEF Eme!ServerTypeOK, Eme!ReadTime, Eme!Smaller

\* An assessment is that of its result.
LEMMA EmeAssess == \A raw : Eme!Assess(raw).raw = raw /\ Eme!Assess(raw) # Eme!Nil
BY DEF Eme!Assess, Eme!Nil

\* The line is of those that have connected.
LEMMA EmeLine ==
    ASSUME Eme!ServerTypeOK, Eme!LineRight, Eme!Next
    PROVE  Eme!LineRight'
<1> USE EmeNumbers DEF Eme!Nil, Eme!Waiting, Eme!ServerTypeOK, Eme!LineRight
<1>1. ASSUME Eme!Stranger PROVE Eme!LineRight'
    <2>1. PICK request \in Eme!Request : Eme!Connect(request)
        BY <1>1, EmeRequests, EmeNumbers DEF Eme!Stranger
    <2> QED BY <1>1, <2>1, EmeConnects DEF Eme!LineRight
<1>2. ASSUME Eme!Open PROVE Eme!LineRight'
    <2>1. Eme!Connect([kind |-> "page"]) /\ [kind |-> "page"] \in Eme!Request
        BY <1>2, EmeRequests DEF Eme!Open
    <2> QED BY <1>2, <2>1, EmeConnects DEF Eme!LineRight
<1>3. ASSUME Eme!Post PROVE Eme!LineRight'
    <2>1. Eme!Connect([kind |-> "post"]) /\ [kind |-> "post"] \in Eme!Request
        BY <1>3, EmeRequests DEF Eme!Post
    <2> QED BY <1>3, <2>1, EmeConnects DEF Eme!LineRight
<1>4. ASSUME Eme!BrowserGone PROVE Eme!LineRight'
    BY <1>4 DEF Eme!BrowserGone
<1>5. ASSUME Eme!Told PROVE Eme!LineRight'
    BY <1>5 DEF Eme!Told
<1>6. ASSUME Eme!TimedOut PROVE Eme!LineRight'
    BY <1>6 DEF Eme!TimedOut, Eme!Ended
<1>7. ASSUME Eme!Accept PROVE Eme!LineRight'
    <2>1. x2 \in Seq(Eme!Request) /\ x2 # <<>> /\ x6' = x6
        BY <1>7 DEF Eme!Accept
    <2>2. x2' \in {<<>>, Tail(x2)}
        BY <1>7 DEF Eme!Accept
    <2>3. Tail(x2) \in Seq(Eme!Request) /\ Len(Tail(x2)) = Len(x2) - 1 /\ Len(x2) \in Nat
        BY <2>1
    <2>4. <<>> \in Seq(Eme!Request) /\ Len(<<>>) = 0
        OBVIOUS
    <2>5. CASE x2' = <<>>
        <3>1. x2' \in Seq(Eme!Request) /\ Len(x2') = 0 /\ x6 \in Nat
            BY <2>4, <2>5
        <3> QED BY <2>1, <3>1
    <2>6. CASE x2' = Tail(x2)
        <3>1. x2' \in Seq(Eme!Request) /\ Len(x2') = Len(x2) - 1
            BY <2>3, <2>6
        <3> QED BY <2>1, <2>3, <3>1
    <2> QED BY <2>2, <2>5, <2>6
<1>8. ASSUME Eme!AcceptLate PROVE Eme!LineRight'
    BY <1>8 DEF Eme!AcceptLate
<1>9. ASSUME Eme!ServePage PROVE Eme!LineRight'
    BY <1>9 DEF Eme!ServePage, Eme!Answered
<1>10. ASSUME Eme!Reject PROVE Eme!LineRight'
    BY <1>10 DEF Eme!Reject, Eme!Answered
<1>11. ASSUME Eme!Drip PROVE Eme!LineRight'
    BY <1>11 DEF Eme!Drip
<1>12. ASSUME Eme!ReadTimesOut PROVE Eme!LineRight'
    BY <1>12 DEF Eme!ReadTimesOut, Eme!Answered
<1>13. ASSUME Eme!BadResult PROVE Eme!LineRight'
    BY <1>13 DEF Eme!BadResult, Eme!Ended
<1>14. ASSUME Eme!Result PROVE Eme!LineRight'
    BY <1>14 DEF Eme!Result
<1>15. ASSUME Eme!ResultUnread PROVE Eme!LineRight'
    BY <1>15 DEF Eme!ResultUnread, Eme!Ended
<1>16. ASSUME Eme!Tick PROVE Eme!LineRight'
    BY <1>16 DEF Eme!Tick
<1> QED BY <1>1, <1>2, <1>3, <1>4, <1>5, <1>6, <1>7, <1>8, <1>9, <1>10, <1>11, <1>12, <1>13,
   <1>14, <1>15, <1>16 DEF Eme!Next, Eme!Serve

\* Every step keeps the types of the server.
LEMMA EmeServer ==
    ASSUME Eme!ServerTypeOK, Eme!ClientTypeOK, Eme!LineRight, Eme!CountRight, Eme!Next
    PROVE  Eme!ServerTypeOK'
<1> USE EmeNumbers DEF Eme!Nil, Eme!Waiting, Eme!ServerTypeOK, Eme!CountRight, Eme!Ends
<1>1. ASSUME Eme!Stranger PROVE Eme!ServerTypeOK'
    <2>1. PICK request \in Eme!Request : Eme!Connect(request)
        BY <1>1, EmeRequests, EmeNumbers DEF Eme!Stranger
    <2> QED BY <1>1, <2>1, EmeConnects DEF Eme!LineRight, Eme!Connect, Eme!Stranger
<1>2. ASSUME Eme!Open PROVE Eme!ServerTypeOK'
    <2>1. Eme!Connect([kind |-> "page"]) /\ [kind |-> "page"] \in Eme!Request
        BY <1>2, EmeRequests DEF Eme!Open
    <2> QED BY <1>2, <2>1, EmeConnects DEF Eme!LineRight, Eme!Connect, Eme!Open
<1>3. ASSUME Eme!Post PROVE Eme!ServerTypeOK'
    <2>1. Eme!Connect([kind |-> "post"]) /\ [kind |-> "post"] \in Eme!Request
        BY <1>3, EmeRequests DEF Eme!Post
    <2> QED BY <1>3, <2>1, EmeConnects DEF Eme!LineRight, Eme!Connect, Eme!Post
<1>4. ASSUME Eme!BrowserGone PROVE Eme!ServerTypeOK'
    BY <1>4 DEF Eme!BrowserGone
<1>5. ASSUME Eme!Told PROVE Eme!ServerTypeOK'
    BY <1>5 DEF Eme!Told
<1>6. ASSUME Eme!TimedOut PROVE Eme!ServerTypeOK'
    BY <1>6 DEF Eme!TimedOut, Eme!Ended
<1>7. ASSUME Eme!Accept PROVE Eme!ServerTypeOK'
    <2>1. x4' \in 0..ReadPatience
        BY <1>7, EmeReadTime DEF Eme!Accept
    <2> QED BY <1>7, <2>1 DEF Eme!Accept
<1>8. ASSUME Eme!AcceptLate PROVE Eme!ServerTypeOK'
    BY <1>8 DEF Eme!AcceptLate
<1>9. ASSUME Eme!ServePage PROVE Eme!ServerTypeOK'
    BY <1>9 DEF Eme!ServePage, Eme!Answered
<1>10. ASSUME Eme!Reject PROVE Eme!ServerTypeOK'
    BY <1>10 DEF Eme!Reject, Eme!Answered
<1>11. ASSUME Eme!Drip PROVE Eme!ServerTypeOK'
    <2>1. x3.each \in 0..ReadPatience
        BY <1>11, EmeKinds DEF Eme!Drip, Eme!ClientTypeOK
    <2> QED BY <1>11, <2>1 DEF Eme!Drip
<1>12. ASSUME Eme!ReadTimesOut PROVE Eme!ServerTypeOK'
    BY <1>12 DEF Eme!ReadTimesOut, Eme!Answered
<1>13. ASSUME Eme!BadResult PROVE Eme!ServerTypeOK'
    BY <1>13 DEF Eme!BadResult, Eme!Ended
<1>14. ASSUME Eme!Result PROVE Eme!ServerTypeOK'
    BY <1>14 DEF Eme!Result
<1>15. ASSUME Eme!ResultUnread PROVE Eme!ServerTypeOK'
    BY <1>15 DEF Eme!ResultUnread, Eme!Ended
<1>16. ASSUME Eme!Tick PROVE Eme!ServerTypeOK'
    BY <1>16 DEF Eme!Tick
<1> QED BY <1>1, <1>2, <1>3, <1>4, <1>5, <1>6, <1>7, <1>8, <1>9, <1>10, <1>11, <1>12, <1>13,
   <1>14, <1>15, <1>16 DEF Eme!Next, Eme!Serve

\* The probe gives up after so many requests.
LEMMA EmeCount ==
    ASSUME Eme!ServerTypeOK, Eme!CountRight, Eme!Next
    PROVE  Eme!CountRight'
<1> USE EmeNumbers DEF Eme!Nil, Eme!Waiting, Eme!ServerTypeOK, Eme!CountRight
<1>1. ASSUME Eme!Stranger PROVE Eme!CountRight'
    BY <1>1 DEF Eme!Stranger, Eme!Connect, Eme!Slow
<1>2. ASSUME Eme!Open PROVE Eme!CountRight'
    BY <1>2 DEF Eme!Open, Eme!Connect
<1>3. ASSUME Eme!Post PROVE Eme!CountRight'
    BY <1>3 DEF Eme!Post, Eme!Connect
<1>4. ASSUME Eme!BrowserGone PROVE Eme!CountRight'
    BY <1>4 DEF Eme!BrowserGone
<1>5. ASSUME Eme!Told PROVE Eme!CountRight'
    BY <1>5 DEF Eme!Told
<1>6. ASSUME Eme!TimedOut PROVE Eme!CountRight'
    BY <1>6 DEF Eme!TimedOut, Eme!Ended
<1>7. ASSUME Eme!Accept PROVE Eme!CountRight'
    BY <1>7 DEF Eme!Accept, Eme!ReadTime, Eme!Smaller, Eme!Slow
<1>8. ASSUME Eme!AcceptLate PROVE Eme!CountRight'
    BY <1>8 DEF Eme!AcceptLate
<1>9. ASSUME Eme!ServePage PROVE Eme!CountRight'
    BY <1>9 DEF Eme!ServePage, Eme!Answered
<1>10. ASSUME Eme!Reject PROVE Eme!CountRight'
    BY <1>10 DEF Eme!Reject, Eme!Answered
<1>11. ASSUME Eme!Drip PROVE Eme!CountRight'
    BY <1>11 DEF Eme!Drip
<1>12. ASSUME Eme!ReadTimesOut PROVE Eme!CountRight'
    BY <1>12 DEF Eme!ReadTimesOut, Eme!Answered
<1>13. ASSUME Eme!BadResult PROVE Eme!CountRight'
    BY <1>13 DEF Eme!BadResult, Eme!Ended
<1>14. ASSUME Eme!Result PROVE Eme!CountRight'
    BY <1>14 DEF Eme!Result
<1>15. ASSUME Eme!ResultUnread PROVE Eme!CountRight'
    BY <1>15 DEF Eme!ResultUnread, Eme!Ended
<1>16. ASSUME Eme!Tick PROVE Eme!CountRight'
    BY <1>16 DEF Eme!Tick
<1> QED BY <1>1, <1>2, <1>3, <1>4, <1>5, <1>6, <1>7, <1>8, <1>9, <1>10, <1>11, <1>12, <1>13,
   <1>14, <1>15, <1>16 DEF Eme!Next, Eme!Serve

\* A server that has ended serves nobody.
LEMMA EmeAlone ==
    ASSUME Eme!TypeOK, Eme!Next
    PROVE  Eme!EndRight'
<1> USE DEF Eme!Nil, Eme!Waiting, Eme!TypeOK, Eme!EndRight
<1>1. ASSUME Eme!Stranger PROVE Eme!EndRight'
    BY <1>1 DEF Eme!Stranger, Eme!Connect, Eme!Slow
<1>2. ASSUME Eme!Open PROVE Eme!EndRight'
    BY <1>2 DEF Eme!Open, Eme!Connect
<1>3. ASSUME Eme!Post PROVE Eme!EndRight'
    BY <1>3 DEF Eme!Post, Eme!Connect
<1>4. ASSUME Eme!BrowserGone PROVE Eme!EndRight'
    BY <1>4 DEF Eme!BrowserGone
<1>5. ASSUME Eme!Told PROVE Eme!EndRight'
    BY <1>5 DEF Eme!Told
<1>6. ASSUME Eme!TimedOut PROVE Eme!EndRight'
    BY <1>6 DEF Eme!TimedOut, Eme!Ended
<1>7. ASSUME Eme!Accept PROVE Eme!EndRight'
    BY <1>7 DEF Eme!Accept, Eme!ReadTime, Eme!Smaller, Eme!Slow
<1>8. ASSUME Eme!AcceptLate PROVE Eme!EndRight'
    BY <1>8 DEF Eme!AcceptLate
<1>9. ASSUME Eme!ServePage PROVE Eme!EndRight'
    BY <1>9 DEF Eme!ServePage, Eme!Answered
<1>10. ASSUME Eme!Reject PROVE Eme!EndRight'
    BY <1>10 DEF Eme!Reject, Eme!Answered
<1>11. ASSUME Eme!Drip PROVE Eme!EndRight'
    BY <1>11 DEF Eme!Drip
<1>12. ASSUME Eme!ReadTimesOut PROVE Eme!EndRight'
    BY <1>12 DEF Eme!ReadTimesOut, Eme!Answered
<1>13. ASSUME Eme!BadResult PROVE Eme!EndRight'
    BY <1>13 DEF Eme!BadResult, Eme!Ended
<1>14. ASSUME Eme!Result PROVE Eme!EndRight'
    BY <1>14 DEF Eme!Result
<1>15. ASSUME Eme!ResultUnread PROVE Eme!EndRight'
    BY <1>15 DEF Eme!ResultUnread, Eme!Ended
<1>16. ASSUME Eme!Tick PROVE Eme!EndRight'
    BY <1>16 DEF Eme!Tick
<1> QED BY <1>1, <1>2, <1>3, <1>4, <1>5, <1>6, <1>7, <1>8, <1>9, <1>10, <1>11, <1>12, <1>13,
   <1>14, <1>15, <1>16 DEF Eme!Next, Eme!Serve

\* The server serves a request, or none.
LEMMA EmeCurrent ==
    ASSUME Eme!ServerTypeOK, Eme!ClientTypeOK, Eme!LineRight, Eme!Next
    PROVE  x3' \in Eme!Request
<1> USE EmeRequests DEF Eme!Nil, Eme!Waiting, Eme!ClientTypeOK
<1>1. ASSUME Eme!Stranger PROVE x3' \in Eme!Request
    BY <1>1 DEF Eme!Stranger, Eme!Connect, Eme!Slow
<1>2. ASSUME Eme!Open PROVE x3' \in Eme!Request
    BY <1>2 DEF Eme!Open, Eme!Connect
<1>3. ASSUME Eme!Post PROVE x3' \in Eme!Request
    BY <1>3 DEF Eme!Post, Eme!Connect
<1>4. ASSUME Eme!BrowserGone PROVE x3' \in Eme!Request
    BY <1>4 DEF Eme!BrowserGone
<1>5. ASSUME Eme!Told PROVE x3' \in Eme!Request
    BY <1>5 DEF Eme!Told
<1>6. ASSUME Eme!TimedOut PROVE x3' \in Eme!Request
    BY <1>6 DEF Eme!TimedOut, Eme!Ended
<1>7. ASSUME Eme!Accept PROVE x3' \in Eme!Request
    <2>1. x2 \in Seq(Eme!Request) /\ x2 # <<>> /\ Eme!ReadTime \in 0..ReadPatience
        BY <1>7, EmeReadTime, EmeNumbers DEF Eme!Accept, Eme!LineRight
    <2>2. Head(x2) \in Eme!Request /\ Eme!Slow(SlowReads, Eme!ReadTime) \in Eme!Request
        BY <2>1, EmeRequests, EmeNumbers
    <2> QED BY <1>7, <2>2 DEF Eme!Accept
<1>8. ASSUME Eme!AcceptLate PROVE x3' \in Eme!Request
    BY <1>8 DEF Eme!AcceptLate
<1>9. ASSUME Eme!ServePage PROVE x3' \in Eme!Request
    BY <1>9 DEF Eme!ServePage, Eme!Answered
<1>10. ASSUME Eme!Reject PROVE x3' \in Eme!Request
    BY <1>10 DEF Eme!Reject, Eme!Answered
<1>11. ASSUME Eme!Drip PROVE x3' \in Eme!Request
    <2>1. x3 \in [kind : {"slow"}, left : 0..SlowReads, each : 0..ReadPatience]
        BY <1>11 DEF Eme!Drip, Eme!Request
    <2>2. x3' \in [kind : {"slow"}, left : 0..SlowReads, each : 0..ReadPatience]
        BY <1>11, <2>1, EmeNumbers DEF Eme!Drip
    <2> QED BY <2>2 DEF Eme!Request
<1>12. ASSUME Eme!ReadTimesOut PROVE x3' \in Eme!Request
    BY <1>12 DEF Eme!ReadTimesOut, Eme!Answered
<1>13. ASSUME Eme!BadResult PROVE x3' \in Eme!Request
    BY <1>13 DEF Eme!BadResult, Eme!Ended
<1>14. ASSUME Eme!Result PROVE x3' \in Eme!Request
    BY <1>14 DEF Eme!Result
<1>15. ASSUME Eme!ResultUnread PROVE x3' \in Eme!Request
    BY <1>15 DEF Eme!ResultUnread, Eme!Ended
<1>16. ASSUME Eme!Tick PROVE x3' \in Eme!Request
    BY <1>16 DEF Eme!Tick
<1> QED BY <1>1, <1>2, <1>3, <1>4, <1>5, <1>6, <1>7, <1>8, <1>9, <1>10, <1>11, <1>12, <1>13,
   <1>14, <1>15, <1>16 DEF Eme!Next, Eme!Serve

\* There is one assessment, of an accepted result, and it is shown when it is the outcome.
LEMMA EmeAnswers ==
    ASSUME Eme!AnswerRight, Eme!OutcomeRight, Eme!OneVerdict, Eme!Next
    PROVE  (Eme!AnswerRight /\ Eme!OutcomeRight /\ Eme!OneVerdict)'
<1> USE EmeAssess DEF Eme!Nil, Eme!Waiting, Eme!AnswerRight, Eme!OutcomeRight,
   Eme!OneVerdict
<1>1. ASSUME Eme!Stranger PROVE (Eme!AnswerRight /\ Eme!OutcomeRight /\ Eme!OneVerdict)'
    BY <1>1 DEF Eme!Stranger, Eme!Connect, Eme!Slow
<1>2. ASSUME Eme!Open PROVE (Eme!AnswerRight /\ Eme!OutcomeRight /\ Eme!OneVerdict)'
    BY <1>2 DEF Eme!Open, Eme!Connect
<1>3. ASSUME Eme!Post PROVE (Eme!AnswerRight /\ Eme!OutcomeRight /\ Eme!OneVerdict)'
    BY <1>3 DEF Eme!Post, Eme!Connect
<1>4. ASSUME Eme!BrowserGone PROVE (Eme!AnswerRight /\ Eme!OutcomeRight /\ Eme!OneVerdict)'
    BY <1>4 DEF Eme!BrowserGone
<1>5. ASSUME Eme!Told PROVE (Eme!AnswerRight /\ Eme!OutcomeRight /\ Eme!OneVerdict)'
    BY <1>5 DEF Eme!Told
<1>6. ASSUME Eme!TimedOut PROVE (Eme!AnswerRight /\ Eme!OutcomeRight /\ Eme!OneVerdict)'
    BY <1>6 DEF Eme!TimedOut, Eme!Ended
<1>7. ASSUME Eme!Accept PROVE (Eme!AnswerRight /\ Eme!OutcomeRight /\ Eme!OneVerdict)'
    BY <1>7 DEF Eme!Accept, Eme!ReadTime, Eme!Smaller, Eme!Slow
<1>8. ASSUME Eme!AcceptLate PROVE (Eme!AnswerRight /\ Eme!OutcomeRight /\ Eme!OneVerdict)'
    BY <1>8 DEF Eme!AcceptLate
<1>9. ASSUME Eme!ServePage PROVE (Eme!AnswerRight /\ Eme!OutcomeRight /\ Eme!OneVerdict)'
    BY <1>9 DEF Eme!ServePage, Eme!Answered
<1>10. ASSUME Eme!Reject PROVE (Eme!AnswerRight /\ Eme!OutcomeRight /\ Eme!OneVerdict)'
    BY <1>10 DEF Eme!Reject, Eme!Answered
<1>11. ASSUME Eme!Drip PROVE (Eme!AnswerRight /\ Eme!OutcomeRight /\ Eme!OneVerdict)'
    BY <1>11 DEF Eme!Drip
<1>12. ASSUME Eme!ReadTimesOut PROVE (Eme!AnswerRight /\ Eme!OutcomeRight /\ Eme!OneVerdict)'
    BY <1>12 DEF Eme!ReadTimesOut, Eme!Answered
<1>13. ASSUME Eme!BadResult PROVE (Eme!AnswerRight /\ Eme!OutcomeRight /\ Eme!OneVerdict)'
    BY <1>13 DEF Eme!BadResult, Eme!Ended
<1>14. ASSUME Eme!Result PROVE (Eme!AnswerRight /\ Eme!OutcomeRight /\ Eme!OneVerdict)'
    BY <1>14 DEF Eme!Result
<1>15. ASSUME Eme!ResultUnread PROVE (Eme!AnswerRight /\ Eme!OutcomeRight /\ Eme!OneVerdict)'
    BY <1>15 DEF Eme!ResultUnread, Eme!Ended
<1>16. ASSUME Eme!Tick PROVE (Eme!AnswerRight /\ Eme!OutcomeRight /\ Eme!OneVerdict)'
    BY <1>16 DEF Eme!Tick
<1> QED BY <1>1, <1>2, <1>3, <1>4, <1>5, <1>6, <1>7, <1>8, <1>9, <1>10, <1>11, <1>12, <1>13,
   <1>14, <1>15, <1>16 DEF Eme!Next, Eme!Serve

\* A slow client has no more time than the reads it has left.
LEMMA EmeClock ==
    ASSUME Eme!ServerTypeOK, Eme!ClientTypeOK, Eme!ClockRight, Eme!Next
    PROVE  Eme!ClockRight'
<1> USE EmeNumbers DEF Eme!Nil, Eme!Waiting, Eme!ServerTypeOK, Eme!ClockRight,
   Eme!DeadlineHolds
<1>1. ASSUME Eme!Stranger PROVE Eme!ClockRight'
    BY <1>1 DEF Eme!Stranger, Eme!Connect, Eme!Slow
<1>2. ASSUME Eme!Open PROVE Eme!ClockRight'
    BY <1>2 DEF Eme!Open, Eme!Connect
<1>3. ASSUME Eme!Post PROVE Eme!ClockRight'
    BY <1>3 DEF Eme!Post, Eme!Connect
<1>4. ASSUME Eme!BrowserGone PROVE Eme!ClockRight'
    BY <1>4 DEF Eme!BrowserGone
<1>5. ASSUME Eme!Told PROVE Eme!ClockRight'
    BY <1>5 DEF Eme!Told
<1>6. ASSUME Eme!TimedOut PROVE Eme!ClockRight'
    <2>1. x3'.kind # "slow" /\ x1' = x1 /\ x3.kind # "slow"
        BY <1>6 DEF Eme!TimedOut, Eme!Ended
    <2> QED BY <2>1
<1>7. ASSUME Eme!Accept PROVE Eme!ClockRight'
    <2>1. x1' = x1 /\ x1 < Patience /\ x1 \in Nat
        BY <1>7 DEF Eme!Accept
    <2>2. CASE x3'.kind # "slow"
        BY <2>1, <2>2, EmeProducts DEF Eme!DeadlineHolds
    <2>3. CASE x3'.kind = "slow"
        <3>1. x3' = Eme!Slow(SlowReads, Eme!ReadTime) /\ x4' = Eme!ReadTime
            BY <1>7, <2>3 DEF Eme!Accept
        <3>2. x3'.left = SlowReads /\ x3'.each = Eme!ReadTime
            BY <3>1 DEF Eme!Slow
        <3>3. /\ Eme!ReadTime \in 0..ReadPatience /\ Eme!ReadTime <= Patience - x1
              /\ (SlowReads - 1) * Eme!ReadTime <= (SlowReads - 1) * ReadPatience
              /\ (SlowReads - 1) * Eme!ReadTime \in Nat /\ (SlowReads - 1) * ReadPatience \in Nat
            BY <2>1, EmeReadTime, EmeProducts
        <3> QED BY <2>1, <2>3, <3>1, <3>2, <3>3
    <2> QED BY <2>2, <2>3
<1>8. ASSUME Eme!AcceptLate PROVE Eme!ClockRight'
    <2>1. (SlowReads - 1) * ReadPatience \in Nat
        BY EmeProducts
    <2> QED BY <1>8, <2>1 DEF Eme!AcceptLate
<1>9. ASSUME Eme!ServePage PROVE Eme!ClockRight'
    BY <1>9 DEF Eme!ServePage, Eme!Answered
<1>10. ASSUME Eme!Reject PROVE Eme!ClockRight'
    BY <1>10 DEF Eme!Reject, Eme!Answered
<1>11. ASSUME Eme!Drip PROVE Eme!ClockRight'
    <2>1. /\ x3'.kind = "slow" /\ x3'.left = x3.left - 1 /\ x3'.each = x3.each /\ x4' = x3.each /\ x1' = x1
          /\ x3.left \in 1..SlowReads /\ x3.left > 1 /\ x3.each \in Nat /\ x3.kind = "slow"
        BY <1>11, EmeKinds DEF Eme!Drip, Eme!ClientTypeOK, Eme!Request
    <2>2. x3.each + (x3.left - 1 - 1) * x3.each = (x3.left - 1) * x3.each
        BY <2>1
    <2>3. (x3.left - 1) * x3.each \in Nat /\ (x3.left - 1 - 1) * x3.each \in Nat
        BY <2>1, EmeProducts
    <2>4. (SlowReads - 1) * ReadPatience \in Nat
        BY EmeProducts
    <2> QED BY <1>11, <2>1, <2>2, <2>3, <2>4
<1>12. ASSUME Eme!ReadTimesOut PROVE Eme!ClockRight'
    <2>1. x3'.kind # "slow" /\ x1' = x1 /\ x3.kind = "slow" /\ x4 = 0
        BY <1>12 DEF Eme!ReadTimesOut, Eme!Answered
    <2>2. (x3.left - 1) * x3.each \in Nat /\ (SlowReads - 1) * ReadPatience \in Nat
        BY SMTT(30), <2>1, EmeKinds, EmeProducts DEF Eme!ClientTypeOK
    <2> QED BY <2>1, <2>2
<1>13. ASSUME Eme!BadResult PROVE Eme!ClockRight'
    <2>1. x3'.kind # "slow" /\ x1' = x1 /\ x3.kind # "slow"
        BY <1>13 DEF Eme!BadResult, Eme!Ended
    <2> QED BY <2>1
<1>14. ASSUME Eme!Result PROVE Eme!ClockRight'
    <2>1. x3'.kind # "slow" /\ x1' = x1 /\ x3.kind # "slow"
        BY <1>14 DEF Eme!Result, Eme!Ended
    <2> QED BY <2>1
<1>15. ASSUME Eme!ResultUnread PROVE Eme!ClockRight'
    <2>1. x3'.kind # "slow" /\ x1' = x1 /\ x3.kind # "slow"
        BY <1>15 DEF Eme!ResultUnread, Eme!Ended
    <2> QED BY <2>1
<1>16. ASSUME Eme!Tick PROVE Eme!ClockRight'
    <2>1. (SlowReads - 1) * ReadPatience \in Nat
        BY EmeProducts
    <2>2. CASE x3 = Eme!Nil
        BY <1>16, <2>1, <2>2 DEF Eme!Tick
    <2>3. CASE x3 # Eme!Nil
        <3>1. x3' = x3 /\ x3.kind = "slow" /\ x4 > 0 /\ x4' = x4 - 1 /\ x1' = x1 + 1
            BY <1>16, <2>3 DEF Eme!Tick
        <3>2. (x3.left - 1) * x3.each \in Nat
            BY SMTT(30), <3>1, EmeKinds, EmeProducts DEF Eme!ClientTypeOK
        <3> QED BY <2>1, <3>1, <3>2
    <2> QED BY <2>2, <2>3
<1> QED BY <1>1, <1>2, <1>3, <1>4, <1>5, <1>6, <1>7, <1>8, <1>9, <1>10, <1>11, <1>12, <1>13,
   <1>14, <1>15, <1>16 DEF Eme!Next, Eme!Serve

\* What the inductive invariant says of the clients.
LEMMA EmeClients ==
    ASSUME Eme!IInv, Eme!Next PROVE Eme!ClientTypeOK'
<1> USE EmeNumbers DEF Eme!IInv, Eme!TypeOK
<1>1. Eme!LineRight' /\ Eme!ServerTypeOK' /\ x3' \in Eme!Request
    BY EmeLine, EmeServer, EmeCurrent
<1>2. (Eme!AnswerRight /\ Eme!OutcomeRight /\ Eme!OneVerdict)'
    BY EmeAnswers
<1>3. Len(x2') <= Connections /\ \A i \in DOMAIN x2' : x2'[i] \in Eme!Request
    <2>1. x2' \in Seq(Eme!Request) /\ Len(x2') <= x6' /\ x6' \in 0..Connections
        BY <1>1 DEF Eme!LineRight, Eme!ServerTypeOK
    <2>2. Len(x2') \in Nat
        BY <2>1
    <2> QED BY <2>1, <2>2
<1>4. \A a \in {x8', x9', x11'} \ {Eme!Nil} : a = Eme!Assess(a.raw)
    <2>1. x8' # Eme!Nil => x8' = x11'
        BY <1>2 DEF Eme!AnswerRight
    <2>2. x9' # Eme!Nil => x9' = x11'
        BY <1>2 DEF Eme!OneVerdict
    <2>3. x11' # Eme!Nil => x11' = Eme!Assess(x11'.raw)
        BY <1>2 DEF Eme!OutcomeRight
    <2> QED BY <2>1, <2>2, <2>3
<1> QED BY <1>1, <1>3, <1>4 DEF Eme!ClientTypeOK

LEMMA EmeInit == ASSUME Eme!Init PROVE Eme!IInv
<1> USE EmeNumbers, EmeRequests DEF Eme!Init, Eme!Waiting
<1>1. Eme!ServerTypeOK
    BY DEF Eme!ServerTypeOK, Eme!Ends
<1>2. Eme!ClientTypeOK /\ Eme!EndRight /\ Eme!LineRight
    <2>1. x2 \in Seq(Eme!Request) /\ Len(x2) = 0 /\ DOMAIN x2 = {}
        OBVIOUS
    <2> QED BY <2>1 DEF Eme!ClientTypeOK, Eme!EndRight, Eme!LineRight
<1>3. Eme!ClockRight
    <2>1. x3.kind # "slow" /\ x1 = 0
        BY DEF Eme!Nil
    <2>2. (SlowReads - 1) * ReadPatience \in Nat
        BY EmeProducts
    <2> QED BY <2>1, <2>2 DEF Eme!ClockRight, Eme!DeadlineHolds
<1>4. Eme!CountRight /\ Eme!AnswerRight /\ Eme!OutcomeRight /\ Eme!OneVerdict
    BY DEF Eme!CountRight, Eme!AnswerRight, Eme!OutcomeRight, Eme!OneVerdict
<1> QED BY <1>1, <1>2, <1>3, <1>4 DEF Eme!IInv, Eme!TypeOK

LEMMA EmeStep == ASSUME Eme!IInv, Eme!Next PROVE Eme!IInv'
BY EmeClients, EmeServer, EmeAlone, EmeClock, EmeLine, EmeCount, EmeAnswers DEF Eme!IInv, Eme!TypeOK

\* A matrix is complete with one row for every key: as many rows as keys, and every key
\* in one of them.
LEMMA EmeMatrix ==
    ASSUME NEW raw \in Eme!Raw, NEW k \in Eme!Required
    PROVE  Eme!Cardinality({r \in raw.rows : r.key = k}) = 1
<1>1. \A S : Eme!Cardinality(S) = Cardinality(S)
    BY DEF Eme!Cardinality, Cardinality, Eme!IsFiniteSet, IsFiniteSet
<1>2. Eme!Complete(raw.rows) /\ raw.rows \subseteq Eme!Row
    BY DEF Eme!Raw, Eme!kSubset
<1>3. IsFiniteSet(Eme!Required) /\ IsFiniteSet(Eme!Row)
    <2> DEFINE Keys == Eme!Required \cup {"foreign"}
               f == [p \in Keys \X BOOLEAN |-> [key |-> p[1], accepted |-> p[2]]]
    <2>1. IsFiniteSet({"soft"}) /\ IsFiniteSet({"softer"}) /\ IsFiniteSet({"hard"}) /\ IsFiniteSet({"foreign"})
             /\ IsFiniteSet({TRUE}) /\ IsFiniteSet({FALSE})
        BY FS_Singleton
    <2>2. IsFiniteSet({"soft"} \cup {"softer"}) /\ IsFiniteSet({TRUE} \cup {FALSE})
        BY <2>1, FS_Union
    <2>3. IsFiniteSet(({"soft"} \cup {"softer"}) \cup {"hard"})
        BY <2>1, <2>2, FS_Union
    <2>4. Eme!Required = ({"soft"} \cup {"softer"}) \cup {"hard"} /\ BOOLEAN = {TRUE} \cup {FALSE}
        BY DEF Eme!Required, Eme!Soft
    <2>5. IsFiniteSet(Keys) /\ IsFiniteSet(BOOLEAN)
        BY <2>1, <2>2, <2>3, <2>4, FS_Union
    <2>6. IsFiniteSet(Keys \X BOOLEAN)
        BY <2>5, FS_Product
    <2>7. f \in Surjection(Keys \X BOOLEAN, Eme!Row)
        <3>1. f \in [Keys \X BOOLEAN -> Eme!Row]
            BY DEF Eme!Row
        <3>2. ASSUME NEW r \in Eme!Row PROVE \E p \in Keys \X BOOLEAN : f[p] = r
            <4>1. r.key \in Keys /\ r.accepted \in BOOLEAN /\ r = [key |-> r.key, accepted |-> r.accepted]
                BY DEF Eme!Row
            <4>2. <<r.key, r.accepted>> \in Keys \X BOOLEAN /\ f[<<r.key, r.accepted>>] = r
                BY <4>1
            <4> QED BY <4>2
        <3> QED BY <3>1, <3>2 DEF Surjection
    <2> QED BY <2>3, <2>4, <2>6, <2>7, FS_Surjection
<1>4. IsFiniteSet(raw.rows)
    BY <1>2, <1>3, FS_Subset
<1> DEFINE g == [r \in raw.rows |-> r.key]
<1>5. g \in Surjection(raw.rows, Eme!Required)
    BY <1>2 DEF Eme!Complete, Surjection
<1>6. Cardinality(raw.rows) = Cardinality(Eme!Required)
    BY <1>1, <1>2 DEF Eme!Complete
<1>7. g \in Injection(raw.rows, Eme!Required)
    BY <1>3, <1>4, <1>5, <1>6, FS_SurjSameCardinalityImpliesInj
<1>8. PICK r \in raw.rows : r.key = k
    BY <1>2 DEF Eme!Complete
<1>9. {s \in raw.rows : s.key = k} = {r}
    BY <1>7, <1>8 DEF Injection, IsInjective
<1> QED BY <1>1, <1>9, FS_Singleton

\* An assessment agrees with its checks.
LEMMA EmeVerdict ==
    ASSUME NEW raw \in Eme!Raw, x11 = Eme!Assess(raw) PROVE Eme!VerdictFits
<1>1. /\ x11.status = Eme!Status(raw) /\ x11.domain = Eme!Domain(raw) /\ x11.raw = raw
      /\ x11.checks = Eme!Checks(raw)
    BY DEF Eme!Assess
<1>2. /\ Eme!Checks(raw).api = IF raw.api THEN "pass" ELSE "unavailable"
      /\ raw.baseline = "supported" => Eme!Checks(raw).baseline = "pass"
      /\ raw.codec # "none" => Eme!Checks(raw).codec = "pass"
      /\ \A row \in raw.rows : Eme!Checks(raw).rungs[row] = Eme!RungCheck(raw, row)
    BY DEF Eme!Checks
<1>3. Eme!Status(raw) = "pass" <=> Eme!RequiredOk(raw)
    BY DEF Eme!Status
<1>4. ASSUME Eme!RequiredOk(raw), NEW row \in raw.rows PROVE Eme!RungCheck(raw, row) # "fail"
    BY <1>4 DEF Eme!RequiredOk, Eme!RungCheck
<1>5. Eme!Domain(raw) = "silvervine" => ~Eme!RequiredOk(raw) /\ raw.owner # "managed"
    BY DEF Eme!Domain
<1> QED BY <1>1, <1>2, <1>3, <1>4, <1>5 DEF Eme!VerdictFits, Eme!RequiredOk

LEMMA EmeSafe ==
    Eme!IInv => Eme!OneVerdict /\ Eme!MatrixExact /\ Eme!VerdictFits /\ Eme!DeadlineHolds
<1> SUFFICES ASSUME Eme!IInv PROVE Eme!OneVerdict /\ Eme!MatrixExact /\ Eme!VerdictFits /\ Eme!DeadlineHolds
    OBVIOUS
<1> USE EmeNumbers DEF Eme!IInv
<1>1. Eme!MatrixExact
    BY EmeMatrix DEF Eme!MatrixExact, Eme!OutcomeRight
<1>2. Eme!VerdictFits
    BY EmeVerdict DEF Eme!VerdictFits, Eme!OutcomeRight
<1>3. Eme!DeadlineHolds
    <2>1. CASE x3.kind # "slow"
        BY <2>1 DEF Eme!ClockRight
    <2>2. CASE x3.kind = "slow"
        <3>1. /\ x1 + x4 + (x3.left - 1) * x3.each <= Patience + (SlowReads - 1) * ReadPatience
              /\ x3.left \in 1..SlowReads /\ x3 \in Eme!Request /\ x1 \in Nat /\ x4 \in Nat
            BY <2>2 DEF Eme!ClockRight, Eme!TypeOK, Eme!ClientTypeOK, Eme!ServerTypeOK
        <3>2. (x3.left - 1) * x3.each \in Nat /\ (SlowReads - 1) * ReadPatience \in Nat
            BY <2>2, <3>1, EmeKinds, EmeProducts
        <3> QED BY <3>1, <3>2 DEF Eme!DeadlineHolds
    <2> QED BY <2>1, <2>2
<1> QED BY <1>1, <1>2, <1>3

ProbeInv == sys = "probe" => Eme!IInv

\* A probe has one verdict, of a matrix in which every key has one row; it agrees with its
\* checks, and it is there in the time that slow clients leave it.
THEOREM ProbeIsSafe == ServingSpec => []ProbeSafe
<1>1. ServingInit => ProbeInv
    BY EmeInit DEF ServingInit, ProbeInv
<1>2. ASSUME ProbeInv, [ServingNext]_<<sys, vars, xs>> PROVE ProbeInv'
    <2>1. CASE UNCHANGED <<sys, vars, xs>>
        BY <1>2, <2>1 DEF ProbeInv, xs, Eme!IInv, Eme!TypeOK, Eme!ServerTypeOK,
           Eme!ClientTypeOK, Eme!EndRight, Eme!ClockRight, Eme!DeadlineHolds, Eme!LineRight,
           Eme!CountRight, Eme!AnswerRight, Eme!OutcomeRight, Eme!OneVerdict
    <2>2. CASE ServingNext
        BY <1>2, <2>2, EmeStep DEF ProbeInv, ServingNext
    <2> QED BY <1>2, <2>1, <2>2
<1>3. ProbeInv => ProbeSafe
    BY EmeSafe DEF ProbeInv, ProbeSafe, Eme!IInv
<1> QED BY <1>1, <1>2, <1>3, PTL DEF ServingSpec

\* What ends a probe with a result, good or bad, is a result that was posted.
LEMMA EmeStrangers ==
    ASSUME Eme!Next
    PROVE  Eme!StrangersEndNothing
<1> USE DEF Eme!Waiting, Eme!StrangersEndNothing
<1>1. ASSUME Eme!Stranger PROVE Eme!StrangersEndNothing
    BY <1>1 DEF Eme!Stranger, Eme!Connect
<1>2. ASSUME Eme!Open PROVE Eme!StrangersEndNothing
    BY <1>2 DEF Eme!Open, Eme!Connect
<1>3. ASSUME Eme!Post PROVE Eme!StrangersEndNothing
    BY <1>3 DEF Eme!Post, Eme!Connect
<1>4. ASSUME Eme!BrowserGone PROVE Eme!StrangersEndNothing
    BY <1>4 DEF Eme!BrowserGone
<1>5. ASSUME Eme!Told PROVE Eme!StrangersEndNothing
    BY <1>5 DEF Eme!Told
<1>6. ASSUME Eme!TimedOut PROVE Eme!StrangersEndNothing
    BY <1>6 DEF Eme!TimedOut, Eme!Ended
<1>7. ASSUME Eme!Accept PROVE Eme!StrangersEndNothing
    BY <1>7 DEF Eme!Accept
<1>8. ASSUME Eme!AcceptLate PROVE Eme!StrangersEndNothing
    BY <1>8 DEF Eme!AcceptLate
<1>9. ASSUME Eme!ServePage PROVE Eme!StrangersEndNothing
    BY <1>9 DEF Eme!ServePage
<1>10. ASSUME Eme!Reject PROVE Eme!StrangersEndNothing
    BY <1>10 DEF Eme!Reject
<1>11. ASSUME Eme!Drip PROVE Eme!StrangersEndNothing
    BY <1>11 DEF Eme!Drip
<1>12. ASSUME Eme!ReadTimesOut PROVE Eme!StrangersEndNothing
    BY <1>12 DEF Eme!ReadTimesOut
<1>13. ASSUME Eme!BadResult PROVE Eme!StrangersEndNothing
    BY <1>13 DEF Eme!BadResult, Eme!Ended
<1>14. ASSUME Eme!Result PROVE Eme!StrangersEndNothing
    BY <1>14 DEF Eme!Result
<1>15. ASSUME Eme!ResultUnread PROVE Eme!StrangersEndNothing
    BY <1>15 DEF Eme!ResultUnread, Eme!Ended
<1>16. ASSUME Eme!Tick PROVE Eme!StrangersEndNothing
    BY <1>16 DEF Eme!Tick
<1> QED BY <1>1, <1>2, <1>3, <1>4, <1>5, <1>6, <1>7, <1>8, <1>9, <1>10, <1>11, <1>12, <1>13,
   <1>14, <1>15, <1>16 DEF Eme!Next, Eme!Serve

-----------------------------------------------------------------------------
(* The tray.                                                                *)

\* A function on the first numbers is a sequence.
LEMMA MenuSequence ==
    ASSUME NEW S, NEW n \in Nat, NEW f \in [1..n -> S] PROVE f \in Seq(S)
<1>1. f \in UNION {[1..m -> S] : m \in Nat}
    BY Zenon
<1> QED BY <1>1, SeqDef, Zenon

\* The entries of the menu are commands, and so is what follows from them.
LEMMA MenuCommands ==
    ASSUME Menu!TypeOK
    PROVE  /\ Menu!MenuLayout \subseteq Menu!Commands
           /\ x9.kind = "ToggleLaunchAtLogin" => x9.arg \in BOOLEAN
           /\ \A queue \in {x6, x7} : queue # <<>> =>
                 Head(queue) \in Menu!Commands /\ Tail(queue) \in Seq(Menu!Commands)
<1>1. Menu!MenuLayout \subseteq Menu!Commands
    BY DEF Menu!MenuLayout, Menu!Commands, Menu!Cmd, Menu!NoArg, Menu!TypeOK
<1>2. x9.kind = "ToggleLaunchAtLogin" => x9.arg \in BOOLEAN
    BY DEF Menu!TypeOK, Menu!Commands, Menu!Cmd, Menu!Nil
<1>3. \A queue \in {x6, x7} : queue # <<>> =>
          Head(queue) \in Menu!Commands /\ Tail(queue) \in Seq(Menu!Commands)
    BY HeadTailProperties DEF Menu!TypeOK
<1> QED BY <1>1, <1>2, <1>3

\* Hearing of a newer CDM, and what a patch leaves, are CDMs.
LEMMA MenuHeard ==
    ASSUME Menu!TypeOK, NEW known \in Menu!Heard
    PROVE  /\ known \in [Catalogue -> Menu!Cdms]
           /\ \A b \in Catalogue : known[b] = "gone" <=> x2[b] = "gone"
           /\ \A b \in Catalogue : Menu!Served(b, FALSE) => known[b] \in {"outdated", "current"}
BY DEF Menu!TypeOK, Menu!Heard, Menu!Cdms, Menu!Served

\* Every step keeps the types.
LEMMA MenuTypes ==
    ASSUME Menu!TypeOK, Menu!Next
    PROVE  Menu!TypeOK'
<1> USE DEF Menu!host, Menu!menu, Menu!flow, Menu!TypeOK
<1>1. ASSUME Menu!Receive PROVE Menu!TypeOK'
    BY <1>1, MenuCommands DEF Menu!Receive
<1>2. ASSUME Menu!PumpEvents PROVE Menu!TypeOK'
    <2>1. <<Head(x6)>> \in Seq(Menu!Commands) /\ Tail(x6) \in Seq(Menu!Commands)
        BY <1>2, MenuCommands DEF Menu!PumpEvents
    <2> QED BY <1>2, <2>1 DEF Menu!PumpEvents
<1>3. ASSUME Menu!PatchRequested PROVE Menu!TypeOK'
    BY <1>3 DEF Menu!PatchRequested, Menu!BeginFlow, Menu!Nil
<1>4. ASSUME Menu!UpdateWidevine PROVE Menu!TypeOK'
    <2>1. x2' \in [Catalogue -> Menu!Cdms]
        BY <1>4, MenuHeard DEF Menu!UpdateWidevine
    <2>2. x10' \subseteq Catalogue /\ x14'.kind # "summary"
        BY <1>4 DEF Menu!UpdateWidevine, Menu!Failure, Menu!BeginFlow, Menu!Installed, Menu!Nil
    <2> QED BY <1>4, <2>1, <2>2 DEF Menu!UpdateWidevine, Menu!Failure, Menu!BeginFlow
<1>5. ASSUME Menu!Select PROVE Menu!TypeOK'
    BY <1>5 DEF Menu!Select, Menu!Selected
<1>6. ASSUME Menu!Turn PROVE Menu!TypeOK'
    <2>1. PICK b \in x11, known \in (IF Menu!Fresh THEN {x2} ELSE Menu!Heard) :
              /\ x8 = "patch" /\ x11' = x11 \ {b}
              /\ \/ /\ x2' = [known EXCEPT ![b] = "current"]
                    /\ x12' \in {x12, x12 \cup {b}}
                 \/ x2' = known /\ x12' = x12 \cup {b}
              /\ UNCHANGED <<x3, x1, x4, x5, x6, x7, x8, x9, x10, x13, x14, x15, x16>>
        BY <1>6 DEF Menu!Turn
    <2>2. known \in [Catalogue -> Menu!Cdms] /\ "current" \in Menu!Cdms
        BY <2>1, MenuHeard DEF Menu!Cdms
    <2>3. x2' \in [Catalogue -> Menu!Cdms]
        BY <2>1, <2>2
    <2> QED BY <2>1, <2>3
<1>7. ASSUME Menu!Summarize PROVE Menu!TypeOK'
    BY <1>7 DEF Menu!Summarize
<1>8. ASSUME Menu!Toggle PROVE Menu!TypeOK'
    BY <1>8, MenuCommands DEF Menu!Toggle, Menu!Failure
<1>9. ASSUME Menu!Quit PROVE Menu!TypeOK'
    BY <1>9 DEF Menu!Quit
<1>10. ASSUME Menu!Click PROVE Menu!TypeOK'
    <2>1. PICK c \in Menu!MenuLayout :
              \/ x7' = Append(x7, c) /\ UNCHANGED x6
              \/ x6' = Append(x6, c) /\ UNCHANGED x7
        BY <1>10 DEF Menu!Click
    <2>2. c \in Menu!Commands
        BY <2>1, MenuCommands
    <2>3. Append(x6, c) \in Seq(Menu!Commands) /\ Append(x7, c) \in Seq(Menu!Commands)
        BY <2>2, AppendProperties
    <2>4. x6' \in Seq(Menu!Commands) /\ x7' \in Seq(Menu!Commands)
        BY <2>1, <2>3
    <2> QED BY <1>10, <2>4 DEF Menu!Click
<1>11. ASSUME Menu!Elsewhere PROVE Menu!TypeOK'
    <2>1. x2' \in [Catalogue -> Menu!Cdms] /\ x13' \subseteq Catalogue
        BY <1>11 DEF Menu!Elsewhere
    <2>2. x3' \in BOOLEAN
        BY <1>11 DEF Menu!Elsewhere
    <2> QED BY <1>11, <2>1, <2>2 DEF Menu!Elsewhere
<1> QED BY <1>1, <1>2, <1>3, <1>4, <1>5, <1>6, <1>7, <1>8, <1>9, <1>10, <1>11 DEF Menu!Next, Menu!Loop

\* While a flow goes on, what is neither put off nor failed nor touched is served.
LEMMA MenuFlow ==
    ASSUME Menu!TypeOK, Menu!FlowRight, Menu!Next
    PROVE  Menu!FlowRight'
<1> USE DEF Menu!host, Menu!menu, Menu!flow, Menu!FlowRight, Menu!Fresh, Menu!Installed
<1>1. ASSUME Menu!Receive PROVE Menu!FlowRight'
    BY <1>1 DEF Menu!Receive
<1>2. ASSUME Menu!PumpEvents PROVE Menu!FlowRight'
    BY <1>2 DEF Menu!PumpEvents
<1>3. ASSUME Menu!PatchRequested PROVE Menu!FlowRight'
    BY <1>3 DEF Menu!PatchRequested, Menu!BeginFlow
<1>4. ASSUME Menu!UpdateWidevine PROVE Menu!FlowRight'
    <2>1. \A b \in Catalogue : x2'[b] = "gone" <=> x2[b] = "gone"
        BY <1>4, MenuHeard DEF Menu!UpdateWidevine
    <2>2. CASE Menu!Failure
        BY <2>2 DEF Menu!Failure
    <2>3. CASE Menu!BeginFlow(Menu!Installed)
        <3>1. x8' = "select" /\ x14' = Menu!Nil /\ x9' = x9 /\ x10' = {b \in Catalogue : x2[b] # "gone"}
            BY <2>3 DEF Menu!BeginFlow
        <3>2. {b \in Catalogue : x2'[b] # "gone"} \subseteq x10'
            BY <2>1, <3>1
        <3> QED BY <1>4, <3>1, <3>2 DEF Menu!UpdateWidevine
    <2> QED BY <1>4, <2>2, <2>3 DEF Menu!UpdateWidevine
<1>5. ASSUME Menu!Select PROVE Menu!FlowRight'
    <2>1. /\ x8 = "select" /\ x8' = "patch"
          /\ UNCHANGED <<x2, x9, x10, x13, x14>>
        BY <1>5 DEF Menu!Select
    <2>2. \A b \in x10 \ (x11' \cup x12') : Menu!SelectPatchAction(b) \notin {"patch", "preserve"}
        BY <1>5 DEF Menu!Select, Menu!Selected
    <2>3. \A b \in x10 \ (x11' \cup x12') : Menu!Served(b, Menu!Fresh)
        BY <2>2 DEF Menu!SelectPatchAction, Menu!Served
    <2>4. \A b \in x10' \ (x11' \cup x12' \cup x13') : Menu!Served(b, Menu!Fresh)'
        BY <2>1, <2>3 DEF Menu!Served
    <2> QED BY <2>1, <2>4
<1>6. ASSUME Menu!Turn PROVE Menu!FlowRight'
    <2>1. PICK b \in x11, known \in (IF Menu!Fresh THEN {x2} ELSE Menu!Heard) :
              /\ x8 = "patch" /\ x11' = x11 \ {b}
              /\ \/ /\ known[b] \notin {"gone", "foreign"}
                    /\ x2' = [known EXCEPT ![b] = "current"]
                    /\ x12' \in {x12, x12 \cup {b}}
                 \/ x2' = known /\ x12' = x12 \cup {b}
              /\ UNCHANGED <<x8, x9, x10, x13, x14>>
        BY <1>6 DEF Menu!Turn
    <2>2. /\ known \in [Catalogue -> Menu!Cdms] /\ b \in Catalogue
          /\ \A c \in Catalogue : known[c] = "gone" <=> x2[c] = "gone"
          /\ \A c \in Catalogue : Menu!Served(c, Menu!Fresh) =>
                known[c] = "current" \/ (known[c] = "outdated" /\ ~Menu!Fresh)
        BY <2>1, MenuHeard DEF Menu!TypeOK, Menu!Served
    <2>3. \A c \in Catalogue : x2'[c] = "gone" => x2[c] = "gone"
        BY <2>1, <2>2
    <2>4. \A c \in Catalogue : x2'[c] # "gone" => x2[c] # "gone"
        BY <2>1, <2>2
    <2>5. \A c \in x10' \ (x11' \cup x12' \cup x13') : Menu!Served(c, Menu!Fresh)'
        <3> SUFFICES ASSUME NEW c \in x10 \ (x11' \cup x12' \cup x13)
                     PROVE x2'[c] = "current" \/ (x2'[c] = "outdated" /\ ~Menu!Fresh)
            BY <2>1 DEF Menu!Served
        <3>1. c \in Catalogue
            BY DEF Menu!TypeOK
        <3>2. CASE c = b
            BY <2>1, <2>2, <3>2
        <3>3. CASE c # b
            <4>1. c \notin x11 /\ c \notin x12
                BY <2>1, <3>3
            <4>2. Menu!Served(c, Menu!Fresh)
                BY <2>1, <4>1
            <4>3. x2'[c] = known[c]
                BY <2>1, <2>2, <3>1, <3>3
            <4> QED BY <2>2, <3>1, <4>2, <4>3
        <3> QED BY <3>2, <3>3
    <2>6. Menu!Fresh' => {c \in Catalogue : x2'[c] # "gone"} \subseteq x10' \cup x13'
        BY <2>1, <2>4
    <2> QED BY <2>1, <2>5, <2>6
<1>7. ASSUME Menu!Summarize PROVE Menu!FlowRight'
    BY <1>7 DEF Menu!Summarize
<1>8. ASSUME Menu!Toggle PROVE Menu!FlowRight'
    BY <1>8 DEF Menu!Toggle, Menu!Failure
<1>9. ASSUME Menu!Quit PROVE Menu!FlowRight'
    BY <1>9 DEF Menu!Quit
<1>10. ASSUME Menu!Click PROVE Menu!FlowRight'
    BY <1>10 DEF Menu!Click, Menu!Served
<1>11. ASSUME Menu!Elsewhere PROVE Menu!FlowRight'
    <2>1. /\ UNCHANGED <<x8, x9, x10, x11, x12, x14>>
          /\ x13 \subseteq x13' /\ \A b \in Catalogue : b \in x13' \/ x2'[b] = x2[b]
        BY <1>11 DEF Menu!Elsewhere, Menu!TypeOK
    <2> QED BY <2>1 DEF Menu!Served, Menu!TypeOK
<1> QED BY <1>1, <1>2, <1>3, <1>4, <1>5, <1>6, <1>7, <1>8, <1>9, <1>10, <1>11 DEF Menu!Next, Menu!Loop

\* What is told is true and complete.
LEMMA MenuToast ==
    ASSUME Menu!TypeOK, Menu!FlowRight, Menu!ToastTrue, Menu!UpdateCoversInstalled, Menu!Next
    PROVE  Menu!ToastTrue' /\ Menu!UpdateCoversInstalled'
<1> USE DEF Menu!host, Menu!menu, Menu!flow, Menu!ToastTrue, Menu!UpdateCoversInstalled,
        Menu!Served, Menu!Installed, Menu!Nil
<1>1. ASSUME UNCHANGED <<x2, x13, x14>> PROVE Menu!ToastTrue' /\ Menu!UpdateCoversInstalled'
    BY <1>1
<1>2. ASSUME x14'.kind # "summary" PROVE Menu!ToastTrue' /\ Menu!UpdateCoversInstalled'
    BY <1>2
<1>3. ASSUME Menu!PatchRequested \/ Menu!UpdateWidevine PROVE x14'.kind # "summary"
    BY <1>3 DEF Menu!PatchRequested, Menu!UpdateWidevine, Menu!BeginFlow, Menu!Failure
<1>4. ASSUME Menu!Turn PROVE x14'.kind # "summary"
    BY <1>4 DEF Menu!Turn, Menu!FlowRight
<1>5. ASSUME Menu!Toggle PROVE x14'.kind # "summary"
    BY <1>5 DEF Menu!Toggle, Menu!Failure
<1>6. ASSUME Menu!Receive \/ Menu!PumpEvents \/ Menu!Select \/ Menu!Quit \/ Menu!Click
      PROVE UNCHANGED <<x2, x13, x14>>
    BY <1>6 DEF Menu!Receive, Menu!PumpEvents, Menu!Select, Menu!Quit, Menu!Click
<1>7. ASSUME Menu!Summarize PROVE Menu!ToastTrue' /\ Menu!UpdateCoversInstalled'
    <2>1. /\ x8 = "patch" /\ x11 = {} /\ UNCHANGED <<x2, x13>>
          /\ x14' = [kind |-> "summary", over |-> x10, failed |-> x12, fresh |-> Menu!Fresh]
        BY <1>7 DEF Menu!Summarize
    <2>2. x14'.over = x10 /\ x14'.failed = x12 /\ x14'.fresh = Menu!Fresh
        BY <2>1
    <2>3. /\ \A b \in x10 \ (x12 \cup x13) : Menu!Served(b, Menu!Fresh)
          /\ Menu!Fresh => Menu!Installed \subseteq x10 \cup x13
        BY <2>1 DEF Menu!FlowRight
    <2> QED BY <2>1, <2>2, <2>3
<1>8. ASSUME Menu!Elsewhere PROVE Menu!ToastTrue' /\ Menu!UpdateCoversInstalled'
    <2>1. x14' = x14 /\ x13 \subseteq x13' /\ \A b \in Catalogue : b \in x13' \/ x2'[b] = x2[b]
        BY <1>8 DEF Menu!Elsewhere, Menu!TypeOK
    <2>2. Menu!UpdateCoversInstalled'
        BY <2>1
    <2>3. Menu!ToastTrue'
        BY <2>1 DEF Menu!TypeOK
    <2> QED BY <2>2, <2>3
<1> QED BY <1>1, <1>2, <1>3, <1>4, <1>5, <1>6, <1>7, <1>8 DEF Menu!Next, Menu!Loop

LEMMA MenuInit == ASSUME Menu!Init PROVE Menu!IInv
<1> USE DEF Menu!Init
<1>1. Menu!TypeOK
    BY DEF Menu!TypeOK, Menu!Installed, Menu!Nil
<1> QED BY <1>1 DEF Menu!IInv, Menu!FlowRight, Menu!ToastTrue, Menu!UpdateCoversInstalled, Menu!Nil

LEMMA MenuStep == ASSUME Menu!IInv, Menu!Next PROVE Menu!IInv'
BY MenuTypes, MenuFlow, MenuToast DEF Menu!IInv

-----------------------------------------------------------------------------
(* The control panel.                                                       *)

\* The entries of a configuration are a sequence of a bounded length.
LEMMA PanelEntries ==
    ASSUME NEW s \in Panel!SeqOf(Customs, MostCustoms)
    PROVE  s \in Seq(Customs) /\ Len(s) \in 0..MostCustoms /\ DOMAIN s = 1..Len(s)
<1>1. PICK m \in 0..MostCustoms : s \in [1..m -> Customs]
    BY DEF Panel!SeqOf
<1>2. m \in Nat
    BY <1>1, ServingAssumption
<1>3. s \in Seq(Customs)
    BY <1>1, <1>2, MenuSequence
<1>4. Len(s) = m /\ DOMAIN s = 1..m
    BY <1>1, <1>2, <1>3, LenProperties
<1> QED BY <1>1, <1>3, <1>4

LEMMA PanelListed ==
    ASSUME NEW s \in Seq(Customs), Len(s) <= MostCustoms
    PROVE  s \in Panel!SeqOf(Customs, MostCustoms)
<1>1. Len(s) \in 0..MostCustoms /\ s \in [1..Len(s) -> Customs]
    BY ServingAssumption, LenProperties
<1> QED BY <1>1 DEF Panel!SeqOf

LEMMA PanelEmpty == <<>> \in Panel!SeqOf(Customs, MostCustoms)
<1>1. <<>> \in Seq(Customs) /\ Len(<<>>) = 0
    OBVIOUS
<1>2. Len(<<>>) <= MostCustoms
    BY <1>1, ServingAssumption
<1> QED BY <1>1, <1>2, PanelListed

\* An entry is added, replaced or removed.
LEMMA PanelEdits ==
    ASSUME NEW s \in Panel!SeqOf(Customs, MostCustoms)
    PROVE  /\ \A e \in Customs : Len(s) < MostCustoms =>
                 /\ Append(s, e) \in Panel!SeqOf(Customs, MostCustoms)
                 /\ Len(Append(s, e)) = Len(s) + 1
           /\ \A e \in Customs, i \in DOMAIN s :
                 /\ [s EXCEPT ![i] = e] \in Panel!SeqOf(Customs, MostCustoms)
                 /\ Len([s EXCEPT ![i] = e]) = Len(s)
           /\ \A i \in DOMAIN s :
                 /\ Panel!RemoveAt(s, i) \in Panel!SeqOf(Customs, MostCustoms)
                 /\ Len(Panel!RemoveAt(s, i)) = Len(s) - 1
<1> USE ServingAssumption
<1>1. s \in Seq(Customs) /\ Len(s) \in 0..MostCustoms /\ DOMAIN s = 1..Len(s)
    BY PanelEntries
<1>2. MostCustoms \in Nat /\ Len(s) \in Nat /\ Len(s) <= MostCustoms
    BY <1>1
<1> HIDE ServingAssumption
<1>3. ASSUME NEW e \in Customs, Len(s) < MostCustoms
      PROVE  /\ Append(s, e) \in Panel!SeqOf(Customs, MostCustoms)
             /\ Len(Append(s, e)) = Len(s) + 1
    <2>1. Append(s, e) \in Seq(Customs) /\ Len(Append(s, e)) = Len(s) + 1
        BY <1>1
    <2>2. Len(Append(s, e)) <= MostCustoms
        BY <1>2, <1>3, <2>1
    <2> QED BY <2>1, <2>2, PanelListed
<1>4. ASSUME NEW e \in Customs, NEW i \in DOMAIN s
      PROVE  /\ [s EXCEPT ![i] = e] \in Panel!SeqOf(Customs, MostCustoms)
             /\ Len([s EXCEPT ![i] = e]) = Len(s)
    <2>1. [s EXCEPT ![i] = e] \in Seq(Customs) /\ Len([s EXCEPT ![i] = e]) = Len(s)
        BY <1>1, <1>4
    <2> QED BY <1>2, <2>1, PanelListed
<1>5. ASSUME NEW i \in DOMAIN s
      PROVE  /\ Panel!RemoveAt(s, i) \in Panel!SeqOf(Customs, MostCustoms)
             /\ Len(Panel!RemoveAt(s, i)) = Len(s) - 1
    <2>1. i \in 1..Len(s)
        BY <1>1
    <2>2. SubSeq(s, 1, i - 1) \in Seq(Customs) /\ Len(SubSeq(s, 1, i - 1)) = i - 1
        BY <1>1, <1>2, <2>1, SubSeqProperties
    <2>3. SubSeq(s, i + 1, Len(s)) \in Seq(Customs) /\ Len(SubSeq(s, i + 1, Len(s))) = Len(s) - i
        BY <1>1, <1>2, <2>1, SubSeqProperties
    <2>4. Panel!RemoveAt(s, i) \in Seq(Customs) /\ Len(Panel!RemoveAt(s, i)) = (i - 1) + (Len(s) - i)
        BY <2>2, <2>3, ConcatProperties DEF Panel!RemoveAt
    <2>5. (i - 1) + (Len(s) - i) = Len(s) - 1
        BY <1>2, <2>1
    <2> QED BY <1>2, <2>4, <2>5, PanelListed
<1> QED BY <1>3, <1>4, <1>5

\* The numbers of the panel.
LEMMA PanelNumbers ==
    /\ {Switches, Scripts, FileEdits, MostCustoms, PanelFaults} \subseteq Nat /\ Switches + Scripts > 0
    /\ \A found \in Detections \cup {<<>>} : Len(found) \in Nat
BY ServingAssumption

\* Numbers that are moved stay on a row.
LEMMA PanelMoves ==
    /\ \A n \in Nat : Panel!LastOf(n) \in Nat /\ Panel!LastOf(n) <= n /\ (n > 0 => Panel!LastOf(n) < n)
    /\ \A a, b \in Nat : Panel!AtMost(a, b) \in Nat /\ Panel!AtMost(a, b) <= a /\ Panel!AtMost(a, b) <= b
BY DEF Panel!LastOf, Panel!AtMost

\* What is listed has a length, and there is a setting.
LEMMA PanelSizes ==
    ASSUME Panel!TypeOK
    PROVE  /\ Len(x4.browsers) \in Nat /\ Len(x4.browsers) <= MostCustoms /\ DOMAIN x4.browsers = 1..Len(x4.browsers)
           /\ Panel!SETTINGS \in Nat /\ Panel!SETTINGS > 0 /\ Len(x7) \in Nat
           /\ x6.selected \in Nat /\ x6.setting \in Nat
<1>1. x4.browsers \in Panel!SeqOf(Customs, MostCustoms)
    BY DEF Panel!TypeOK, Panel!FilesTypeOK, Panel!Config
<1>2. MostCustoms \in Nat /\ Panel!SETTINGS \in Nat /\ Panel!SETTINGS > 0
    BY PanelNumbers DEF Panel!SETTINGS
<1>3. Len(x4.browsers) \in 0..MostCustoms /\ DOMAIN x4.browsers = 1..Len(x4.browsers)
    BY <1>1, PanelEntries
<1>4. Len(x7) \in Nat
    BY PanelNumbers DEF Panel!TypeOK, Panel!PanelTypeOK
<1>5. x6.selected \in Nat /\ x6.setting \in Nat
    BY DEF Panel!TypeOK, Panel!PanelTypeOK
<1> QED BY <1>2, <1>3, <1>4, <1>5

\* What is drawn after the browsers were looked for.
LEMMA PanelRefreshed ==
    ASSUME x8 \in Detections, NEW s \in [tab : 0..5, selected : Nat, setting : Nat], Panel!Refreshed(s)
    PROVE  /\ x7' \in Detections /\ x6' \in [tab : 0..5, selected : Nat, setting : Nat]
           /\ x6'.selected <= Panel!LastOf(Len(x7')) /\ x6'.setting = s.setting
<1>1. x7' = x8 /\ x6' = [s EXCEPT !.selected = Panel!AtMost(@, Panel!LastOf(Len(x8)))] /\ Len(x8) \in Nat
    BY PanelNumbers DEF Panel!Refreshed
<1>2. /\ Panel!AtMost(s.selected, Panel!LastOf(Len(x8))) \in Nat
      /\ Panel!AtMost(s.selected, Panel!LastOf(Len(x8))) <= Panel!LastOf(Len(x8))
    BY <1>1, PanelMoves
<1> QED BY <1>1, <1>2

\* What is drawn when a cursor moves.
LEMMA PanelMoved ==
    ASSUME NEW d \in BOOLEAN, Panel!Navigate(d), x6 \in [tab : 0..5, selected : Nat, setting : Nat],
           Len(x7) \in Nat, Len(x4.browsers) \in Nat
    PROVE  /\ x6' \in [tab : 0..5, selected : Nat, setting : Nat]
           /\ x6'.selected <= Panel!LastOf(Len(x7)) \/ x6'.selected <= x6.selected
           /\ x6'.setting < Panel!SETTINGS + Len(x4.browsers) \/ x6'.setting <= x6.setting
<1> DEFINE rows == Panel!SETTINGS + Len(x4.browsers)
           Moved(i, n) == IF d THEN Panel!AtMost(i + 1, Panel!LastOf(n)) ELSE Panel!LastOf(i)
<1>1. rows \in Nat /\ rows > 0
    BY PanelNumbers DEF Panel!SETTINGS
<1>2. \A i, n \in Nat : Moved(i, n) \in Nat /\ (Moved(i, n) <= Panel!LastOf(n) \/ Moved(i, n) <= i)
    <2>1. CASE d = TRUE
        <3>1. ASSUME NEW i \in Nat, NEW n \in Nat
              PROVE  /\ Panel!AtMost(i + 1, Panel!LastOf(n)) \in Nat
                     /\ Panel!AtMost(i + 1, Panel!LastOf(n)) <= Panel!LastOf(n)
            <4>1. i + 1 \in Nat /\ Panel!LastOf(n) \in Nat
                BY DEF Panel!LastOf
            <4> QED BY <4>1 DEF Panel!AtMost
        <3> QED BY <2>1, <3>1
    <2>2. CASE d = FALSE
        BY <2>2, PanelMoves
    <2> QED BY <2>1, <2>2
<1>3. Panel!LastOf(rows) < rows
    BY <1>1, PanelMoves
<1>4. x6' = IF x6.tab = 5 THEN [x6 EXCEPT !.setting = Moved(@, rows)] ELSE [x6 EXCEPT !.selected = Moved(@, Len(x7))]
    BY DEF Panel!Navigate
<1> HIDE DEF Moved, rows
<1>5. /\ Moved(x6.setting, rows) \in Nat /\ Moved(x6.selected, Len(x7)) \in Nat
      /\ Moved(x6.setting, rows) < rows \/ Moved(x6.setting, rows) <= x6.setting
      /\ Moved(x6.selected, Len(x7)) <= Panel!LastOf(Len(x7)) \/ Moved(x6.selected, Len(x7)) <= x6.selected
    <2>1. Panel!LastOf(rows) \in Nat /\ x6.setting \in Nat /\ x6.selected \in Nat
        BY <1>1, PanelMoves
    <2>2. /\ Moved(x6.setting, rows) \in Nat
          /\ Moved(x6.setting, rows) <= Panel!LastOf(rows) \/ Moved(x6.setting, rows) <= x6.setting
        BY <1>1, <1>2, <2>1
    <2>3. /\ Moved(x6.selected, Len(x7)) \in Nat
          /\ Moved(x6.selected, Len(x7)) <= Panel!LastOf(Len(x7)) \/ Moved(x6.selected, Len(x7)) <= x6.selected
        BY <1>2, <2>1
    <2> QED BY <1>1, <1>3, <2>1, <2>2, <2>3
<1>6. CASE x6.tab = 5
    BY <1>4, <1>5, <1>6 DEF rows
<1>7. CASE x6.tab # 5
    BY <1>4, <1>5, <1>7 DEF rows
<1> QED BY <1>6, <1>7

\* Every step keeps the types of the files and of the draft.
LEMMA PanelFiles ==
    ASSUME Panel!TypeOK, Panel!IndexesHold, Panel!BytesRead, Panel!Next
    PROVE  Panel!FilesTypeOK'
<1> USE PanelNumbers DEF Panel!World, Panel!Dialogues, Panel!Kept, Panel!Still, Panel!Sound,
   Panel!Calm, Panel!Fault, Panel!Held, Panel!Refuted, Panel!Unasked, Panel!Setting,
   Panel!Executing, Panel!Saving, Panel!TypeOK, Panel!FilesTypeOK
<1>1. ASSUME Panel!Load PROVE Panel!FilesTypeOK'
    BY <1>1 DEF Panel!Load
<1>2. ASSUME Panel!Parse PROVE Panel!FilesTypeOK'
    <2>1. x5' \in BOOLEAN /\ x17' \in BOOLEAN
        <3>1. (x5' = x5 \/ x5' = FALSE) /\ (x17' = x17 \/ x17' = FALSE)
            BY <1>2 DEF Panel!Parse
        <3>2. x5 \in BOOLEAN /\ x17 \in BOOLEAN
            OBVIOUS
        <3> QED BY <3>1, <3>2, Zenon
    <2>2. /\ x1' \in Panel!Config \cup {Garbled} /\ x2' \in Panel!Config \cup {Garbled}
          /\ x3' \in Panel!Config \cup {Garbled, None} /\ x4' \in Panel!Config /\ x16' \in Panel!Config
        <3>1. x1' = x1 /\ x3' = None /\ (x2' = x2 \/ x2' = x3)
            BY <1>2 DEF Panel!Parse
        <3>2. (x4' = x4 /\ x16' = x16) \/ (x1 # Garbled /\ x4' = x1 /\ x16' = x1)
            BY <1>2 DEF Panel!Parse
        <3>3. x3 \in Panel!Config \cup {Garbled}
            BY <1>2 DEF Panel!Parse, Panel!BytesRead
        <3> QED BY <3>1, <3>2, <3>3
    <2>3. x14' \in 0..PanelFaults /\ x15' \in 0..FileEdits
        BY <1>2 DEF Panel!Parse
    <2> QED BY <2>1, <2>2, <2>3
<1>3. ASSUME Panel!Open PROVE Panel!FilesTypeOK'
    BY <1>3 DEF Panel!Open, Panel!Resume
<1>4. ASSUME Panel!Leave PROVE Panel!FilesTypeOK'
    BY <1>4 DEF Panel!Leave
<1>5. ASSUME Panel!Broken PROVE Panel!FilesTypeOK'
    BY <1>5 DEF Panel!Broken
<1>6. ASSUME Panel!Refresh PROVE Panel!FilesTypeOK'
    BY <1>6 DEF Panel!Refresh, Panel!Refreshed
<1>7. ASSUME NEW t \in {0, 3, 5}, Panel!View(t) PROVE Panel!FilesTypeOK'
    BY <1>7 DEF Panel!View, Panel!Refreshed
<1>8. ASSUME NEW d \in BOOLEAN, Panel!Navigate(d) PROVE Panel!FilesTypeOK'
    BY <1>8 DEF Panel!Navigate
<1>9. ASSUME NEW d \in BOOLEAN, Panel!AskCommand(d) PROVE Panel!FilesTypeOK'
    BY <1>9 DEF Panel!AskCommand, Panel!Asks
<1>10. ASSUME Panel!AskBrowser PROVE Panel!FilesTypeOK'
    BY <1>10 DEF Panel!AskBrowser, Panel!AskCommand, Panel!Asks
<1>11. ASSUME Panel!AskQuit PROVE Panel!FilesTypeOK'
    BY <1>11 DEF Panel!AskQuit, Panel!Asks
<1>12. ASSUME Panel!DryRun PROVE Panel!FilesTypeOK'
    BY <1>12 DEF Panel!DryRun
<1>13. ASSUME Panel!Toggle PROVE Panel!FilesTypeOK'
    <2>1. x4 = [prefs |-> x4.prefs, browsers |-> x4.browsers] /\ x4.prefs \in Preferences
          /\ x4.browsers \in Panel!SeqOf(Customs, MostCustoms)
        BY DEF Panel!Config
    <2>2. x4' \in Panel!Config
        BY <1>13, <2>1 DEF Panel!Toggle, Panel!Config
    <2> QED BY <1>13, <2>2 DEF Panel!Toggle
<1>14. ASSUME Panel!EditHook PROVE Panel!FilesTypeOK'
    BY <1>14 DEF Panel!EditHook
<1>15. ASSUME Panel!EditBrowser PROVE Panel!FilesTypeOK'
    BY <1>15 DEF Panel!EditBrowser, Panel!Asking
<1>16. ASSUME Panel!AddBrowser PROVE Panel!FilesTypeOK'
    BY <1>16 DEF Panel!AddBrowser, Panel!Asking
<1>17. ASSUME Panel!AskRemove PROVE Panel!FilesTypeOK'
    BY <1>17 DEF Panel!AskRemove, Panel!Asks
<1>18. ASSUME Panel!Goes("R", "reload") PROVE Panel!FilesTypeOK'
    BY <1>18 DEF Panel!Goes
<1>19. ASSUME Panel!Goes("s", "compare") PROVE Panel!FilesTypeOK'
    BY <1>19 DEF Panel!Goes
<1>20. ASSUME Panel!Type PROVE Panel!FilesTypeOK'
    BY <1>20 DEF Panel!Type
<1>21. ASSUME Panel!Cancel PROVE Panel!FilesTypeOK'
    BY <1>21 DEF Panel!Cancel
<1>22. ASSUME Panel!AcceptHook PROVE Panel!FilesTypeOK'
    <2>1. x4 = [prefs |-> x4.prefs, browsers |-> x4.browsers] /\ x4.prefs \in Preferences
          /\ x4.browsers \in Panel!SeqOf(Customs, MostCustoms)
        BY DEF Panel!Config
    <2>2. x4' \in Panel!Config
        BY <1>22, <2>1 DEF Panel!AcceptHook, Panel!Config
    <2> QED BY <1>22, <2>2 DEF Panel!AcceptHook
<1>23. ASSUME Panel!AcceptBrowser PROVE Panel!FilesTypeOK'
    <2>1. x4 = [prefs |-> x4.prefs, browsers |-> x4.browsers] /\ x4.prefs \in Preferences
          /\ x4.browsers \in Panel!SeqOf(Customs, MostCustoms)
        BY DEF Panel!Config
    <2>2. CASE x4' = x4
        BY <1>23, <2>2 DEF Panel!AcceptBrowser, Panel!Dialog, Panel!Store, Panel!Asking
    <2>3. ASSUME NEW e \in Customs,
                 x4' = [x4 EXCEPT !.browsers = IF x9.editing # 0 THEN [@ EXCEPT ![x9.editing] = e] ELSE Append(@, e)]
          PROVE  Panel!FilesTypeOK'
        <3>1. /\ x9.editing # 0 => x9.editing \in DOMAIN x4.browsers
              /\ x9.editing = 0 => Len(x4.browsers) < MostCustoms
            BY <1>23 DEF Panel!AcceptBrowser, Panel!Dialog, Panel!IndexesHold
        <3>2. x4' \in Panel!Config
            BY <2>1, <2>3, <3>1, PanelEdits DEF Panel!Config
        <3> QED BY <1>23, <3>2 DEF Panel!AcceptBrowser, Panel!Dialog, Panel!Store
    <2> QED BY <1>23, <2>2, <2>3 DEF Panel!AcceptBrowser, Panel!Store
<1>24. ASSUME Panel!Decline PROVE Panel!FilesTypeOK'
    BY <1>24 DEF Panel!Decline
<1>25. ASSUME Panel!ConfirmQuit PROVE Panel!FilesTypeOK'
    BY <1>25 DEF Panel!ConfirmQuit, Panel!Confirms
<1>26. ASSUME Panel!ConfirmRemove PROVE Panel!FilesTypeOK'
    <2>1. x4 = [prefs |-> x4.prefs, browsers |-> x4.browsers] /\ x4.prefs \in Preferences
          /\ x4.browsers \in Panel!SeqOf(Customs, MostCustoms)
        BY DEF Panel!Config
    <2>2. x10.index \in DOMAIN x4.browsers /\ x4' = [x4 EXCEPT !.browsers = Panel!RemoveAt(@, x10.index)]
        BY <1>26 DEF Panel!ConfirmRemove, Panel!Confirms, Panel!IndexesHold
    <2>3. x4' \in Panel!Config
        BY <2>1, <2>2, PanelEdits DEF Panel!Config
    <2> QED BY <1>26, <2>3 DEF Panel!ConfirmRemove, Panel!Confirms
<1>27. ASSUME Panel!ConfirmCommand PROVE Panel!FilesTypeOK'
    BY <1>27 DEF Panel!ConfirmCommand, Panel!Confirms
<1>28. ASSUME Panel!Suspend PROVE Panel!FilesTypeOK'
    BY <1>28 DEF Panel!Suspend
<1>29. ASSUME Panel!Child PROVE Panel!FilesTypeOK'
    BY <1>29 DEF Panel!Child
<1>30. ASSUME Panel!ResumePanel PROVE Panel!FilesTypeOK'
    BY <1>30 DEF Panel!ResumePanel, Panel!Resume
<1>31. ASSUME Panel!Finish PROVE Panel!FilesTypeOK'
    BY <1>31 DEF Panel!Finish, Panel!Refreshed
<1>32. ASSUME Panel!Compare PROVE Panel!FilesTypeOK'
    BY <1>32 DEF Panel!Compare
<1>33. ASSUME Panel!Recheck PROVE Panel!FilesTypeOK'
    <2>1. x5' \in BOOLEAN /\ x17' \in BOOLEAN
        <3>1. (x5' = x5 \/ x5' = FALSE) /\ (x17' = x17 \/ x17' = FALSE)
            BY <1>33 DEF Panel!Recheck
        <3>2. x5 \in BOOLEAN /\ x17 \in BOOLEAN
            OBVIOUS
        <3> QED BY <3>1, <3>2, Zenon
    <2>2. /\ x1' \in Panel!Config \cup {Garbled} /\ x2' \in Panel!Config \cup {Garbled}
          /\ x3' \in Panel!Config \cup {Garbled, None} /\ x4' \in Panel!Config /\ x16' \in Panel!Config
        BY <1>33 DEF Panel!Recheck
    <2>3. x14' \in 0..PanelFaults /\ x15' \in 0..FileEdits
        BY <1>33 DEF Panel!Recheck
    <2> QED BY <2>1, <2>2, <2>3
<1>34. ASSUME Panel!Persist PROVE Panel!FilesTypeOK'
    <2>1. x5' \in BOOLEAN /\ x17' \in BOOLEAN
        <3>1. (x5' = x5 \/ x5' = FALSE) /\ (x17' = x17 \/ x17' = FALSE)
            BY <1>34 DEF Panel!Persist
        <3>2. x5 \in BOOLEAN /\ x17 \in BOOLEAN
            OBVIOUS
        <3> QED BY <3>1, <3>2, Zenon
    <2>2. /\ x1' \in Panel!Config \cup {Garbled} /\ x2' \in Panel!Config \cup {Garbled}
          /\ x3' \in Panel!Config \cup {Garbled, None} /\ x4' \in Panel!Config /\ x16' \in Panel!Config
        BY <1>34 DEF Panel!Persist
    <2>3. x14' \in 0..PanelFaults /\ x15' \in 0..FileEdits
        BY <1>34 DEF Panel!Persist
    <2> QED BY <2>1, <2>2, <2>3
<1>35. ASSUME Panel!EditFile PROVE Panel!FilesTypeOK'
    <2>1. PICK p \in Preferences \cup {Garbled} : x1' = Garbled \/ (p \in Preferences /\ x1' = [prefs |-> p, browsers |-> <<>>])
        BY <1>35 DEF Panel!EditFile, Panel!Default
    <2>2. <<>> \in Panel!SeqOf(Customs, MostCustoms)
        BY PanelEmpty
    <2>3. x1' \in Panel!Config \cup {Garbled}
        BY <2>1, <2>2 DEF Panel!Config
    <2> QED BY <1>35, <2>3 DEF Panel!EditFile, Panel!Elsewhere
<1>36. ASSUME Panel!Install PROVE Panel!FilesTypeOK'
    BY <1>36 DEF Panel!Install, Panel!Elsewhere
<1> QED BY <1>1, <1>2, <1>3, <1>4, <1>5, <1>6, <1>7, <1>8, <1>9, <1>10, <1>11, <1>12, <1>13,
   <1>14, <1>15, <1>16, <1>17, <1>18, <1>19, <1>20, <1>21, <1>22, <1>23, <1>24, <1>25,
   <1>26, <1>27, <1>28, <1>29, <1>30, <1>31, <1>32, <1>33, <1>34, <1>35, <1>36 DEF
   Panel!Next

\* Every step keeps the types of what is asked.
LEMMA PanelDialogues ==
    ASSUME Panel!TypeOK, Panel!IndexesHold, Panel!Next
    PROVE  Panel!DialoguesTypeOK'
<1> USE PanelNumbers DEF Panel!World, Panel!Dialogues, Panel!Kept, Panel!Still, Panel!Sound,
   Panel!Calm, Panel!Fault, Panel!Held, Panel!Refuted, Panel!Unasked, Panel!Setting,
   Panel!Executing, Panel!Saving, Panel!TypeOK, Panel!DialoguesTypeOK, Panel!Dialogue
<1>1. ASSUME Panel!Load PROVE Panel!DialoguesTypeOK'
    BY <1>1 DEF Panel!Load
<1>2. ASSUME Panel!Parse PROVE Panel!DialoguesTypeOK'
    BY <1>2 DEF Panel!Parse
<1>3. ASSUME Panel!Open PROVE Panel!DialoguesTypeOK'
    BY <1>3 DEF Panel!Open, Panel!Resume
<1>4. ASSUME Panel!Leave PROVE Panel!DialoguesTypeOK'
    BY <1>4 DEF Panel!Leave
<1>5. ASSUME Panel!Broken PROVE Panel!DialoguesTypeOK'
    BY <1>5 DEF Panel!Broken
<1>6. ASSUME Panel!Refresh PROVE Panel!DialoguesTypeOK'
    BY <1>6 DEF Panel!Refresh, Panel!Refreshed
<1>7. ASSUME NEW t \in {0, 3, 5}, Panel!View(t) PROVE Panel!DialoguesTypeOK'
    BY <1>7 DEF Panel!View, Panel!Refreshed
<1>8. ASSUME NEW d \in BOOLEAN, Panel!Navigate(d) PROVE Panel!DialoguesTypeOK'
    BY <1>8 DEF Panel!Navigate
<1>9. ASSUME NEW d \in BOOLEAN, Panel!AskCommand(d) PROVE Panel!DialoguesTypeOK'
    BY <1>9 DEF Panel!AskCommand, Panel!Asks
<1>10. ASSUME Panel!AskBrowser PROVE Panel!DialoguesTypeOK'
    BY <1>10 DEF Panel!AskBrowser, Panel!AskCommand, Panel!Asks
<1>11. ASSUME Panel!AskQuit PROVE Panel!DialoguesTypeOK'
    BY <1>11 DEF Panel!AskQuit, Panel!Asks
<1>12. ASSUME Panel!DryRun PROVE Panel!DialoguesTypeOK'
    BY <1>12 DEF Panel!DryRun
<1>13. ASSUME Panel!Toggle PROVE Panel!DialoguesTypeOK'
    BY <1>13 DEF Panel!Toggle
<1>14. ASSUME Panel!EditHook PROVE Panel!DialoguesTypeOK'
    BY <1>14 DEF Panel!EditHook
<1>15. ASSUME Panel!EditBrowser PROVE Panel!DialoguesTypeOK'
    <2>1. /\ Len(x4.browsers) \in Nat /\ Len(x4.browsers) <= MostCustoms /\ DOMAIN x4.browsers = 1..Len(x4.browsers)
          /\ x6.setting \in Nat /\ x6.setting < Panel!SETTINGS + Len(x4.browsers) /\ Panel!SETTINGS \in Nat
        BY PanelSizes DEF Panel!IndexesHold
    <2>2. PICK index \in 1..Len(x4.browsers) : x9' = [kind |-> "browser", good |-> TRUE, step |-> 0, editing |-> index]
        BY <1>15, <2>1 DEF Panel!EditBrowser, Panel!Asking
    <2>3. x9' \in Panel!Dialogue
        BY <2>1, <2>2
    <2> QED BY <1>15, <2>3 DEF Panel!EditBrowser
<1>16. ASSUME Panel!AddBrowser PROVE Panel!DialoguesTypeOK'
    BY <1>16 DEF Panel!AddBrowser, Panel!Asking
<1>17. ASSUME Panel!AskRemove PROVE Panel!DialoguesTypeOK'
    <2>1. /\ Len(x4.browsers) \in Nat /\ Len(x4.browsers) <= MostCustoms /\ DOMAIN x4.browsers = 1..Len(x4.browsers)
          /\ x6.setting \in Nat /\ x6.setting < Panel!SETTINGS + Len(x4.browsers) /\ Panel!SETTINGS \in Nat
        BY PanelSizes DEF Panel!IndexesHold
    <2>2. x10' = [kind |-> "remove", index |-> x6.setting - Panel!SETTINGS + 1] /\ x6.setting >= Panel!SETTINGS
        BY <1>17 DEF Panel!AskRemove, Panel!Asks
    <2>3. x6.setting - Panel!SETTINGS + 1 \in Nat
        BY <2>1, <2>2
    <2> QED BY <1>17, <2>2, <2>3 DEF Panel!AskRemove, Panel!Asks
<1>18. ASSUME Panel!Goes("R", "reload") PROVE Panel!DialoguesTypeOK'
    BY <1>18 DEF Panel!Goes
<1>19. ASSUME Panel!Goes("s", "compare") PROVE Panel!DialoguesTypeOK'
    BY <1>19 DEF Panel!Goes
<1>20. ASSUME Panel!Type PROVE Panel!DialoguesTypeOK'
    BY <1>20 DEF Panel!Type
<1>21. ASSUME Panel!Cancel PROVE Panel!DialoguesTypeOK'
    BY <1>21 DEF Panel!Cancel
<1>22. ASSUME Panel!AcceptHook PROVE Panel!DialoguesTypeOK'
    BY <1>22 DEF Panel!AcceptHook, Panel!Dialog
<1>23. ASSUME Panel!AcceptBrowser PROVE Panel!DialoguesTypeOK'
    <2>1. \/ x9' = None
          \/ x9' = Panel!Asking(x9.step + 1, (x9.step = 1 \/ x9.editing # 0), x9.editing) /\ x9.step < Panel!LastStep
        BY <1>23 DEF Panel!AcceptBrowser, Panel!Dialog, Panel!Store
    <2>2. x9 \in [kind : {"browser"}, good : BOOLEAN, step : 0..2, editing : 0..MostCustoms]
        BY <1>23 DEF Panel!AcceptBrowser, Panel!Dialog
    <2>3. x9.step + 1 \in 0..2 \/ x9' = None
        BY <2>1, <2>2 DEF Panel!LastStep
    <2>4. (x9.step = 1 \/ x9.editing # 0) \in BOOLEAN
        OBVIOUS
    <2>5. x9' \in Panel!Dialogue \cup {None}
        <3>1. CASE x9' = None
            BY <3>1
        <3>2. CASE x9' # None
            <4>1. ASSUME NEW k \in 0..2, NEW g \in BOOLEAN, NEW i \in 0..MostCustoms
                  PROVE  Panel!Asking(k, g, i) \in Panel!Dialogue
                BY <4>1 DEF Panel!Asking
            <4>2. x9' = Panel!Asking(x9.step + 1, (x9.step = 1 \/ x9.editing # 0), x9.editing) /\ x9.step + 1 \in 0..2
                BY <2>1, <2>3, <3>2
            <4>3. x9.editing \in 0..MostCustoms
                BY <2>2
            <4> HIDE DEF Panel!Dialogue, Panel!TypeOK, Panel!DialoguesTypeOK
            <4> QED BY <2>4, <4>1, <4>2, <4>3
        <3> QED BY <3>1, <3>2
    <2> QED BY <1>23, <2>5 DEF Panel!AcceptBrowser
<1>24. ASSUME Panel!Decline PROVE Panel!DialoguesTypeOK'
    BY <1>24 DEF Panel!Decline
<1>25. ASSUME Panel!ConfirmQuit PROVE Panel!DialoguesTypeOK'
    BY <1>25 DEF Panel!ConfirmQuit, Panel!Confirms
<1>26. ASSUME Panel!ConfirmRemove PROVE Panel!DialoguesTypeOK'
    BY <1>26 DEF Panel!ConfirmRemove, Panel!Confirms
<1>27. ASSUME Panel!ConfirmCommand PROVE Panel!DialoguesTypeOK'
    BY <1>27 DEF Panel!ConfirmCommand, Panel!Confirms
<1>28. ASSUME Panel!Suspend PROVE Panel!DialoguesTypeOK'
    BY <1>28 DEF Panel!Suspend
<1>29. ASSUME Panel!Child PROVE Panel!DialoguesTypeOK'
    BY <1>29 DEF Panel!Child
<1>30. ASSUME Panel!ResumePanel PROVE Panel!DialoguesTypeOK'
    BY <1>30 DEF Panel!ResumePanel, Panel!Resume
<1>31. ASSUME Panel!Finish PROVE Panel!DialoguesTypeOK'
    BY <1>31 DEF Panel!Finish, Panel!Refreshed
<1>32. ASSUME Panel!Compare PROVE Panel!DialoguesTypeOK'
    BY <1>32 DEF Panel!Compare
<1>33. ASSUME Panel!Recheck PROVE Panel!DialoguesTypeOK'
    BY <1>33 DEF Panel!Recheck
<1>34. ASSUME Panel!Persist PROVE Panel!DialoguesTypeOK'
    BY <1>34 DEF Panel!Persist
<1>35. ASSUME Panel!EditFile PROVE Panel!DialoguesTypeOK'
    BY <1>35 DEF Panel!EditFile, Panel!Elsewhere
<1>36. ASSUME Panel!Install PROVE Panel!DialoguesTypeOK'
    BY <1>36 DEF Panel!Install, Panel!Elsewhere
<1> QED BY <1>1, <1>2, <1>3, <1>4, <1>5, <1>6, <1>7, <1>8, <1>9, <1>10, <1>11, <1>12, <1>13,
   <1>14, <1>15, <1>16, <1>17, <1>18, <1>19, <1>20, <1>21, <1>22, <1>23, <1>24, <1>25,
   <1>26, <1>27, <1>28, <1>29, <1>30, <1>31, <1>32, <1>33, <1>34, <1>35, <1>36 DEF
   Panel!Next

\* What is loaded was read.
LEMMA PanelBytes ==
    ASSUME Panel!TypeOK, Panel!BytesRead, Panel!Next
    PROVE  Panel!BytesRead'
<1> USE DEF Panel!World, Panel!Dialogues, Panel!Kept, Panel!Still, Panel!Sound, Panel!Calm,
   Panel!Fault, Panel!Held, Panel!Refuted, Panel!Unasked, Panel!Setting, Panel!Executing,
   Panel!Saving, Panel!BytesRead, Panel!TypeOK, Panel!FilesTypeOK
<1>1. ASSUME Panel!Load PROVE Panel!BytesRead'
    BY <1>1 DEF Panel!Load
<1>2. ASSUME Panel!Parse PROVE Panel!BytesRead'
    BY <1>2 DEF Panel!Parse
<1>3. ASSUME Panel!Open PROVE Panel!BytesRead'
    BY <1>3 DEF Panel!Open, Panel!Resume
<1>4. ASSUME Panel!Leave PROVE Panel!BytesRead'
    BY <1>4 DEF Panel!Leave
<1>5. ASSUME Panel!Broken PROVE Panel!BytesRead'
    BY <1>5 DEF Panel!Broken
<1>6. ASSUME Panel!Refresh PROVE Panel!BytesRead'
    BY <1>6 DEF Panel!Refresh, Panel!Refreshed
<1>7. ASSUME NEW t \in {0, 3, 5}, Panel!View(t) PROVE Panel!BytesRead'
    BY <1>7 DEF Panel!View, Panel!Refreshed
<1>8. ASSUME NEW d \in BOOLEAN, Panel!Navigate(d) PROVE Panel!BytesRead'
    BY <1>8 DEF Panel!Navigate
<1>9. ASSUME NEW d \in BOOLEAN, Panel!AskCommand(d) PROVE Panel!BytesRead'
    BY <1>9 DEF Panel!AskCommand, Panel!Asks
<1>10. ASSUME Panel!AskBrowser PROVE Panel!BytesRead'
    BY <1>10 DEF Panel!AskBrowser, Panel!AskCommand, Panel!Asks
<1>11. ASSUME Panel!AskQuit PROVE Panel!BytesRead'
    BY <1>11 DEF Panel!AskQuit, Panel!Asks
<1>12. ASSUME Panel!DryRun PROVE Panel!BytesRead'
    BY <1>12 DEF Panel!DryRun
<1>13. ASSUME Panel!Toggle PROVE Panel!BytesRead'
    BY <1>13 DEF Panel!Toggle
<1>14. ASSUME Panel!EditHook PROVE Panel!BytesRead'
    BY <1>14 DEF Panel!EditHook
<1>15. ASSUME Panel!EditBrowser PROVE Panel!BytesRead'
    BY <1>15 DEF Panel!EditBrowser, Panel!Asking
<1>16. ASSUME Panel!AddBrowser PROVE Panel!BytesRead'
    BY <1>16 DEF Panel!AddBrowser, Panel!Asking
<1>17. ASSUME Panel!AskRemove PROVE Panel!BytesRead'
    BY <1>17 DEF Panel!AskRemove, Panel!Asks
<1>18. ASSUME Panel!Goes("R", "reload") PROVE Panel!BytesRead'
    BY <1>18 DEF Panel!Goes
<1>19. ASSUME Panel!Goes("s", "compare") PROVE Panel!BytesRead'
    BY <1>19 DEF Panel!Goes
<1>20. ASSUME Panel!Type PROVE Panel!BytesRead'
    BY <1>20 DEF Panel!Type
<1>21. ASSUME Panel!Cancel PROVE Panel!BytesRead'
    BY <1>21 DEF Panel!Cancel
<1>22. ASSUME Panel!AcceptHook PROVE Panel!BytesRead'
    BY <1>22 DEF Panel!AcceptHook, Panel!Dialog
<1>23. ASSUME Panel!AcceptBrowser PROVE Panel!BytesRead'
    BY <1>23 DEF Panel!AcceptBrowser, Panel!Dialog, Panel!Asking, Panel!Store
<1>24. ASSUME Panel!Decline PROVE Panel!BytesRead'
    BY <1>24 DEF Panel!Decline
<1>25. ASSUME Panel!ConfirmQuit PROVE Panel!BytesRead'
    BY <1>25 DEF Panel!ConfirmQuit, Panel!Confirms
<1>26. ASSUME Panel!ConfirmRemove PROVE Panel!BytesRead'
    BY <1>26 DEF Panel!ConfirmRemove, Panel!Confirms
<1>27. ASSUME Panel!ConfirmCommand PROVE Panel!BytesRead'
    BY <1>27 DEF Panel!ConfirmCommand, Panel!Confirms
<1>28. ASSUME Panel!Suspend PROVE Panel!BytesRead'
    BY <1>28 DEF Panel!Suspend
<1>29. ASSUME Panel!Child PROVE Panel!BytesRead'
    BY <1>29 DEF Panel!Child
<1>30. ASSUME Panel!ResumePanel PROVE Panel!BytesRead'
    BY <1>30 DEF Panel!ResumePanel, Panel!Resume
<1>31. ASSUME Panel!Finish PROVE Panel!BytesRead'
    BY <1>31 DEF Panel!Finish, Panel!Refreshed
<1>32. ASSUME Panel!Compare PROVE Panel!BytesRead'
    BY <1>32 DEF Panel!Compare
<1>33. ASSUME Panel!Recheck PROVE Panel!BytesRead'
    BY <1>33 DEF Panel!Recheck
<1>34. ASSUME Panel!Persist PROVE Panel!BytesRead'
    BY <1>34 DEF Panel!Persist
<1>35. ASSUME Panel!EditFile PROVE Panel!BytesRead'
    BY <1>35 DEF Panel!EditFile, Panel!Elsewhere
<1>36. ASSUME Panel!Install PROVE Panel!BytesRead'
    BY <1>36 DEF Panel!Install, Panel!Elsewhere
<1> QED BY <1>1, <1>2, <1>3, <1>4, <1>5, <1>6, <1>7, <1>8, <1>9, <1>10, <1>11, <1>12, <1>13,
   <1>14, <1>15, <1>16, <1>17, <1>18, <1>19, <1>20, <1>21, <1>22, <1>23, <1>24, <1>25,
   <1>26, <1>27, <1>28, <1>29, <1>30, <1>31, <1>32, <1>33, <1>34, <1>35, <1>36 DEF
   Panel!Next

\* A draft that differs is to be saved.
LEMMA PanelNoted ==
    ASSUME Panel!TypeOK, Panel!DraftNoted, Panel!Next
    PROVE  Panel!DraftNoted'
<1> USE DEF Panel!World, Panel!Dialogues, Panel!Kept, Panel!Still, Panel!Sound, Panel!Calm,
   Panel!Fault, Panel!Held, Panel!Refuted, Panel!Unasked, Panel!Setting, Panel!Executing,
   Panel!Saving, Panel!DraftNoted
<1>1. ASSUME Panel!Load PROVE Panel!DraftNoted'
    BY <1>1 DEF Panel!Load
<1>2. ASSUME Panel!Parse PROVE Panel!DraftNoted'
    BY <1>2 DEF Panel!Parse
<1>3. ASSUME Panel!Open PROVE Panel!DraftNoted'
    BY <1>3 DEF Panel!Open, Panel!Resume
<1>4. ASSUME Panel!Leave PROVE Panel!DraftNoted'
    BY <1>4 DEF Panel!Leave
<1>5. ASSUME Panel!Broken PROVE Panel!DraftNoted'
    BY <1>5 DEF Panel!Broken
<1>6. ASSUME Panel!Refresh PROVE Panel!DraftNoted'
    BY <1>6 DEF Panel!Refresh, Panel!Refreshed
<1>7. ASSUME NEW t \in {0, 3, 5}, Panel!View(t) PROVE Panel!DraftNoted'
    BY <1>7 DEF Panel!View, Panel!Refreshed
<1>8. ASSUME NEW d \in BOOLEAN, Panel!Navigate(d) PROVE Panel!DraftNoted'
    BY <1>8 DEF Panel!Navigate
<1>9. ASSUME NEW d \in BOOLEAN, Panel!AskCommand(d) PROVE Panel!DraftNoted'
    BY <1>9 DEF Panel!AskCommand, Panel!Asks
<1>10. ASSUME Panel!AskBrowser PROVE Panel!DraftNoted'
    BY <1>10 DEF Panel!AskBrowser, Panel!AskCommand, Panel!Asks
<1>11. ASSUME Panel!AskQuit PROVE Panel!DraftNoted'
    BY <1>11 DEF Panel!AskQuit, Panel!Asks
<1>12. ASSUME Panel!DryRun PROVE Panel!DraftNoted'
    BY <1>12 DEF Panel!DryRun
<1>13. ASSUME Panel!Toggle PROVE Panel!DraftNoted'
    BY <1>13 DEF Panel!Toggle
<1>14. ASSUME Panel!EditHook PROVE Panel!DraftNoted'
    BY <1>14 DEF Panel!EditHook
<1>15. ASSUME Panel!EditBrowser PROVE Panel!DraftNoted'
    BY <1>15 DEF Panel!EditBrowser, Panel!Asking
<1>16. ASSUME Panel!AddBrowser PROVE Panel!DraftNoted'
    BY <1>16 DEF Panel!AddBrowser, Panel!Asking
<1>17. ASSUME Panel!AskRemove PROVE Panel!DraftNoted'
    BY <1>17 DEF Panel!AskRemove, Panel!Asks
<1>18. ASSUME Panel!Goes("R", "reload") PROVE Panel!DraftNoted'
    BY <1>18 DEF Panel!Goes
<1>19. ASSUME Panel!Goes("s", "compare") PROVE Panel!DraftNoted'
    BY <1>19 DEF Panel!Goes
<1>20. ASSUME Panel!Type PROVE Panel!DraftNoted'
    BY <1>20 DEF Panel!Type
<1>21. ASSUME Panel!Cancel PROVE Panel!DraftNoted'
    BY <1>21 DEF Panel!Cancel
<1>22. ASSUME Panel!AcceptHook PROVE Panel!DraftNoted'
    BY <1>22 DEF Panel!AcceptHook, Panel!Dialog
<1>23. ASSUME Panel!AcceptBrowser PROVE Panel!DraftNoted'
    BY <1>23 DEF Panel!AcceptBrowser, Panel!Dialog, Panel!Asking, Panel!Store
<1>24. ASSUME Panel!Decline PROVE Panel!DraftNoted'
    BY <1>24 DEF Panel!Decline
<1>25. ASSUME Panel!ConfirmQuit PROVE Panel!DraftNoted'
    BY <1>25 DEF Panel!ConfirmQuit, Panel!Confirms
<1>26. ASSUME Panel!ConfirmRemove PROVE Panel!DraftNoted'
    BY <1>26 DEF Panel!ConfirmRemove, Panel!Confirms
<1>27. ASSUME Panel!ConfirmCommand PROVE Panel!DraftNoted'
    BY <1>27 DEF Panel!ConfirmCommand, Panel!Confirms
<1>28. ASSUME Panel!Suspend PROVE Panel!DraftNoted'
    BY <1>28 DEF Panel!Suspend
<1>29. ASSUME Panel!Child PROVE Panel!DraftNoted'
    BY <1>29 DEF Panel!Child
<1>30. ASSUME Panel!ResumePanel PROVE Panel!DraftNoted'
    BY <1>30 DEF Panel!ResumePanel, Panel!Resume
<1>31. ASSUME Panel!Finish PROVE Panel!DraftNoted'
    BY <1>31 DEF Panel!Finish, Panel!Refreshed
<1>32. ASSUME Panel!Compare PROVE Panel!DraftNoted'
    BY <1>32 DEF Panel!Compare
<1>33. ASSUME Panel!Recheck PROVE Panel!DraftNoted'
    BY <1>33 DEF Panel!Recheck
<1>34. ASSUME Panel!Persist PROVE Panel!DraftNoted'
    BY <1>34 DEF Panel!Persist
<1>35. ASSUME Panel!EditFile PROVE Panel!DraftNoted'
    BY <1>35 DEF Panel!EditFile, Panel!Elsewhere
<1>36. ASSUME Panel!Install PROVE Panel!DraftNoted'
    BY <1>36 DEF Panel!Install, Panel!Elsewhere
<1> QED BY <1>1, <1>2, <1>3, <1>4, <1>5, <1>6, <1>7, <1>8, <1>9, <1>10, <1>11, <1>12, <1>13,
   <1>14, <1>15, <1>16, <1>17, <1>18, <1>19, <1>20, <1>21, <1>22, <1>23, <1>24, <1>25,
   <1>26, <1>27, <1>28, <1>29, <1>30, <1>31, <1>32, <1>33, <1>34, <1>35, <1>36 DEF
   Panel!Next

\* There is one question at a time.
LEMMA PanelQuestion ==
    ASSUME Panel!OneQuestion, Panel!Next
    PROVE  Panel!OneQuestion'
<1> USE DEF Panel!World, Panel!Dialogues, Panel!Kept, Panel!Still, Panel!Sound, Panel!Calm,
   Panel!Fault, Panel!Held, Panel!Refuted, Panel!Unasked, Panel!Setting, Panel!Executing,
   Panel!Saving, Panel!OneQuestion
<1>1. ASSUME Panel!Load PROVE Panel!OneQuestion'
    BY <1>1 DEF Panel!Load
<1>2. ASSUME Panel!Parse PROVE Panel!OneQuestion'
    BY <1>2 DEF Panel!Parse
<1>3. ASSUME Panel!Open PROVE Panel!OneQuestion'
    BY <1>3 DEF Panel!Open, Panel!Resume
<1>4. ASSUME Panel!Leave PROVE Panel!OneQuestion'
    BY <1>4 DEF Panel!Leave
<1>5. ASSUME Panel!Broken PROVE Panel!OneQuestion'
    BY <1>5 DEF Panel!Broken
<1>6. ASSUME Panel!Refresh PROVE Panel!OneQuestion'
    BY <1>6 DEF Panel!Refresh, Panel!Refreshed
<1>7. ASSUME NEW t \in {0, 3, 5}, Panel!View(t) PROVE Panel!OneQuestion'
    BY <1>7 DEF Panel!View, Panel!Refreshed
<1>8. ASSUME NEW d \in BOOLEAN, Panel!Navigate(d) PROVE Panel!OneQuestion'
    BY <1>8 DEF Panel!Navigate
<1>9. ASSUME NEW d \in BOOLEAN, Panel!AskCommand(d) PROVE Panel!OneQuestion'
    BY <1>9 DEF Panel!AskCommand, Panel!Asks
<1>10. ASSUME Panel!AskBrowser PROVE Panel!OneQuestion'
    BY <1>10 DEF Panel!AskBrowser, Panel!AskCommand, Panel!Asks
<1>11. ASSUME Panel!AskQuit PROVE Panel!OneQuestion'
    BY <1>11 DEF Panel!AskQuit, Panel!Asks
<1>12. ASSUME Panel!DryRun PROVE Panel!OneQuestion'
    BY <1>12 DEF Panel!DryRun
<1>13. ASSUME Panel!Toggle PROVE Panel!OneQuestion'
    BY <1>13 DEF Panel!Toggle
<1>14. ASSUME Panel!EditHook PROVE Panel!OneQuestion'
    BY <1>14 DEF Panel!EditHook
<1>15. ASSUME Panel!EditBrowser PROVE Panel!OneQuestion'
    BY <1>15 DEF Panel!EditBrowser, Panel!Asking
<1>16. ASSUME Panel!AddBrowser PROVE Panel!OneQuestion'
    BY <1>16 DEF Panel!AddBrowser, Panel!Asking
<1>17. ASSUME Panel!AskRemove PROVE Panel!OneQuestion'
    BY <1>17 DEF Panel!AskRemove, Panel!Asks
<1>18. ASSUME Panel!Goes("R", "reload") PROVE Panel!OneQuestion'
    BY <1>18 DEF Panel!Goes
<1>19. ASSUME Panel!Goes("s", "compare") PROVE Panel!OneQuestion'
    BY <1>19 DEF Panel!Goes
<1>20. ASSUME Panel!Type PROVE Panel!OneQuestion'
    BY <1>20 DEF Panel!Type
<1>21. ASSUME Panel!Cancel PROVE Panel!OneQuestion'
    BY <1>21 DEF Panel!Cancel
<1>22. ASSUME Panel!AcceptHook PROVE Panel!OneQuestion'
    BY <1>22 DEF Panel!AcceptHook, Panel!Dialog
<1>23. ASSUME Panel!AcceptBrowser PROVE Panel!OneQuestion'
    BY <1>23 DEF Panel!AcceptBrowser, Panel!Dialog, Panel!Asking, Panel!Store
<1>24. ASSUME Panel!Decline PROVE Panel!OneQuestion'
    BY <1>24 DEF Panel!Decline
<1>25. ASSUME Panel!ConfirmQuit PROVE Panel!OneQuestion'
    BY <1>25 DEF Panel!ConfirmQuit, Panel!Confirms
<1>26. ASSUME Panel!ConfirmRemove PROVE Panel!OneQuestion'
    BY <1>26 DEF Panel!ConfirmRemove, Panel!Confirms
<1>27. ASSUME Panel!ConfirmCommand PROVE Panel!OneQuestion'
    BY <1>27 DEF Panel!ConfirmCommand, Panel!Confirms
<1>28. ASSUME Panel!Suspend PROVE Panel!OneQuestion'
    BY <1>28 DEF Panel!Suspend
<1>29. ASSUME Panel!Child PROVE Panel!OneQuestion'
    BY <1>29 DEF Panel!Child
<1>30. ASSUME Panel!ResumePanel PROVE Panel!OneQuestion'
    BY <1>30 DEF Panel!ResumePanel, Panel!Resume
<1>31. ASSUME Panel!Finish PROVE Panel!OneQuestion'
    BY <1>31 DEF Panel!Finish, Panel!Refreshed
<1>32. ASSUME Panel!Compare PROVE Panel!OneQuestion'
    BY <1>32 DEF Panel!Compare
<1>33. ASSUME Panel!Recheck PROVE Panel!OneQuestion'
    BY <1>33 DEF Panel!Recheck
<1>34. ASSUME Panel!Persist PROVE Panel!OneQuestion'
    BY <1>34 DEF Panel!Persist
<1>35. ASSUME Panel!EditFile PROVE Panel!OneQuestion'
    BY <1>35 DEF Panel!EditFile, Panel!Elsewhere
<1>36. ASSUME Panel!Install PROVE Panel!OneQuestion'
    BY <1>36 DEF Panel!Install, Panel!Elsewhere
<1> QED BY <1>1, <1>2, <1>3, <1>4, <1>5, <1>6, <1>7, <1>8, <1>9, <1>10, <1>11, <1>12, <1>13,
   <1>14, <1>15, <1>16, <1>17, <1>18, <1>19, <1>20, <1>21, <1>22, <1>23, <1>24, <1>25,
   <1>26, <1>27, <1>28, <1>29, <1>30, <1>31, <1>32, <1>33, <1>34, <1>35, <1>36 DEF
   Panel!Next

\* Raw mode is known of.
LEMMA PanelRaw ==
    ASSUME Panel!TypeOK, Panel!RawKnown, Panel!Next
    PROVE  Panel!RawKnown'
<1> USE DEF Panel!World, Panel!Dialogues, Panel!Kept, Panel!Still, Panel!Sound, Panel!Calm,
   Panel!Fault, Panel!Held, Panel!Refuted, Panel!Unasked, Panel!Setting, Panel!Executing,
   Panel!Saving, Panel!RawKnown, Panel!TypeOK, Panel!PanelTypeOK
<1>1. ASSUME Panel!Load PROVE Panel!RawKnown'
    BY <1>1 DEF Panel!Load
<1>2. ASSUME Panel!Parse PROVE Panel!RawKnown'
    BY <1>2 DEF Panel!Parse
<1>3. ASSUME Panel!Open PROVE Panel!RawKnown'
    BY <1>3 DEF Panel!Open, Panel!Resume
<1>4. ASSUME Panel!Leave PROVE Panel!RawKnown'
    BY <1>4 DEF Panel!Leave
<1>5. ASSUME Panel!Broken PROVE Panel!RawKnown'
    BY <1>5 DEF Panel!Broken
<1>6. ASSUME Panel!Refresh PROVE Panel!RawKnown'
    BY <1>6 DEF Panel!Refresh, Panel!Refreshed
<1>7. ASSUME NEW t \in {0, 3, 5}, Panel!View(t) PROVE Panel!RawKnown'
    BY <1>7 DEF Panel!View, Panel!Refreshed
<1>8. ASSUME NEW d \in BOOLEAN, Panel!Navigate(d) PROVE Panel!RawKnown'
    BY <1>8 DEF Panel!Navigate
<1>9. ASSUME NEW d \in BOOLEAN, Panel!AskCommand(d) PROVE Panel!RawKnown'
    BY <1>9 DEF Panel!AskCommand, Panel!Asks
<1>10. ASSUME Panel!AskBrowser PROVE Panel!RawKnown'
    BY <1>10 DEF Panel!AskBrowser, Panel!AskCommand, Panel!Asks
<1>11. ASSUME Panel!AskQuit PROVE Panel!RawKnown'
    BY <1>11 DEF Panel!AskQuit, Panel!Asks
<1>12. ASSUME Panel!DryRun PROVE Panel!RawKnown'
    BY <1>12 DEF Panel!DryRun
<1>13. ASSUME Panel!Toggle PROVE Panel!RawKnown'
    BY <1>13 DEF Panel!Toggle
<1>14. ASSUME Panel!EditHook PROVE Panel!RawKnown'
    BY <1>14 DEF Panel!EditHook
<1>15. ASSUME Panel!EditBrowser PROVE Panel!RawKnown'
    BY <1>15 DEF Panel!EditBrowser, Panel!Asking
<1>16. ASSUME Panel!AddBrowser PROVE Panel!RawKnown'
    BY <1>16 DEF Panel!AddBrowser, Panel!Asking
<1>17. ASSUME Panel!AskRemove PROVE Panel!RawKnown'
    BY <1>17 DEF Panel!AskRemove, Panel!Asks
<1>18. ASSUME Panel!Goes("R", "reload") PROVE Panel!RawKnown'
    BY <1>18 DEF Panel!Goes
<1>19. ASSUME Panel!Goes("s", "compare") PROVE Panel!RawKnown'
    BY <1>19 DEF Panel!Goes
<1>20. ASSUME Panel!Type PROVE Panel!RawKnown'
    BY <1>20 DEF Panel!Type
<1>21. ASSUME Panel!Cancel PROVE Panel!RawKnown'
    BY <1>21 DEF Panel!Cancel
<1>22. ASSUME Panel!AcceptHook PROVE Panel!RawKnown'
    BY <1>22 DEF Panel!AcceptHook, Panel!Dialog
<1>23. ASSUME Panel!AcceptBrowser PROVE Panel!RawKnown'
    BY <1>23 DEF Panel!AcceptBrowser, Panel!Dialog, Panel!Asking, Panel!Store
<1>24. ASSUME Panel!Decline PROVE Panel!RawKnown'
    BY <1>24 DEF Panel!Decline
<1>25. ASSUME Panel!ConfirmQuit PROVE Panel!RawKnown'
    BY <1>25 DEF Panel!ConfirmQuit, Panel!Confirms
<1>26. ASSUME Panel!ConfirmRemove PROVE Panel!RawKnown'
    BY <1>26 DEF Panel!ConfirmRemove, Panel!Confirms
<1>27. ASSUME Panel!ConfirmCommand PROVE Panel!RawKnown'
    BY <1>27 DEF Panel!ConfirmCommand, Panel!Confirms
<1>28. ASSUME Panel!Suspend PROVE Panel!RawKnown'
    BY <1>28 DEF Panel!Suspend
<1>29. ASSUME Panel!Child PROVE Panel!RawKnown'
    BY <1>29 DEF Panel!Child
<1>30. ASSUME Panel!ResumePanel PROVE Panel!RawKnown'
    BY <1>30 DEF Panel!ResumePanel, Panel!Resume
<1>31. ASSUME Panel!Finish PROVE Panel!RawKnown'
    BY <1>31 DEF Panel!Finish, Panel!Refreshed
<1>32. ASSUME Panel!Compare PROVE Panel!RawKnown'
    BY <1>32 DEF Panel!Compare
<1>33. ASSUME Panel!Recheck PROVE Panel!RawKnown'
    BY <1>33 DEF Panel!Recheck
<1>34. ASSUME Panel!Persist PROVE Panel!RawKnown'
    BY <1>34 DEF Panel!Persist
<1>35. ASSUME Panel!EditFile PROVE Panel!RawKnown'
    BY <1>35 DEF Panel!EditFile, Panel!Elsewhere
<1>36. ASSUME Panel!Install PROVE Panel!RawKnown'
    BY <1>36 DEF Panel!Install, Panel!Elsewhere
<1> QED BY <1>1, <1>2, <1>3, <1>4, <1>5, <1>6, <1>7, <1>8, <1>9, <1>10, <1>11, <1>12, <1>13,
   <1>14, <1>15, <1>16, <1>17, <1>18, <1>19, <1>20, <1>21, <1>22, <1>23, <1>24, <1>25,
   <1>26, <1>27, <1>28, <1>29, <1>30, <1>31, <1>32, <1>33, <1>34, <1>35, <1>36 DEF
   Panel!Next

\* The terminal is given back.
LEMMA PanelTerminal ==
    ASSUME Panel!TypeOK, Panel!RawKnown, Panel!TerminalRestored, Panel!Next
    PROVE  Panel!TerminalRestored'
<1> USE DEF Panel!World, Panel!Dialogues, Panel!Kept, Panel!Still, Panel!Sound, Panel!Calm,
   Panel!Fault, Panel!Held, Panel!Refuted, Panel!Unasked, Panel!Setting, Panel!Executing,
   Panel!Saving, Panel!TerminalRestored, Panel!RawKnown, Panel!TypeOK, Panel!PanelTypeOK
<1>1. ASSUME Panel!Load PROVE Panel!TerminalRestored'
    BY <1>1 DEF Panel!Load
<1>2. ASSUME Panel!Parse PROVE Panel!TerminalRestored'
    BY <1>2 DEF Panel!Parse
<1>3. ASSUME Panel!Open PROVE Panel!TerminalRestored'
    BY <1>3 DEF Panel!Open, Panel!Resume
<1>4. ASSUME Panel!Leave PROVE Panel!TerminalRestored'
    BY <1>4 DEF Panel!Leave
<1>5. ASSUME Panel!Broken PROVE Panel!TerminalRestored'
    BY <1>5 DEF Panel!Broken
<1>6. ASSUME Panel!Refresh PROVE Panel!TerminalRestored'
    BY <1>6 DEF Panel!Refresh, Panel!Refreshed
<1>7. ASSUME NEW t \in {0, 3, 5}, Panel!View(t) PROVE Panel!TerminalRestored'
    BY <1>7 DEF Panel!View, Panel!Refreshed
<1>8. ASSUME NEW d \in BOOLEAN, Panel!Navigate(d) PROVE Panel!TerminalRestored'
    BY <1>8 DEF Panel!Navigate
<1>9. ASSUME NEW d \in BOOLEAN, Panel!AskCommand(d) PROVE Panel!TerminalRestored'
    BY <1>9 DEF Panel!AskCommand, Panel!Asks
<1>10. ASSUME Panel!AskBrowser PROVE Panel!TerminalRestored'
    BY <1>10 DEF Panel!AskBrowser, Panel!AskCommand, Panel!Asks
<1>11. ASSUME Panel!AskQuit PROVE Panel!TerminalRestored'
    BY <1>11 DEF Panel!AskQuit, Panel!Asks
<1>12. ASSUME Panel!DryRun PROVE Panel!TerminalRestored'
    BY <1>12 DEF Panel!DryRun
<1>13. ASSUME Panel!Toggle PROVE Panel!TerminalRestored'
    BY <1>13 DEF Panel!Toggle
<1>14. ASSUME Panel!EditHook PROVE Panel!TerminalRestored'
    BY <1>14 DEF Panel!EditHook
<1>15. ASSUME Panel!EditBrowser PROVE Panel!TerminalRestored'
    BY <1>15 DEF Panel!EditBrowser, Panel!Asking
<1>16. ASSUME Panel!AddBrowser PROVE Panel!TerminalRestored'
    BY <1>16 DEF Panel!AddBrowser, Panel!Asking
<1>17. ASSUME Panel!AskRemove PROVE Panel!TerminalRestored'
    BY <1>17 DEF Panel!AskRemove, Panel!Asks
<1>18. ASSUME Panel!Goes("R", "reload") PROVE Panel!TerminalRestored'
    BY <1>18 DEF Panel!Goes
<1>19. ASSUME Panel!Goes("s", "compare") PROVE Panel!TerminalRestored'
    BY <1>19 DEF Panel!Goes
<1>20. ASSUME Panel!Type PROVE Panel!TerminalRestored'
    BY <1>20 DEF Panel!Type
<1>21. ASSUME Panel!Cancel PROVE Panel!TerminalRestored'
    BY <1>21 DEF Panel!Cancel
<1>22. ASSUME Panel!AcceptHook PROVE Panel!TerminalRestored'
    BY <1>22 DEF Panel!AcceptHook, Panel!Dialog
<1>23. ASSUME Panel!AcceptBrowser PROVE Panel!TerminalRestored'
    BY <1>23 DEF Panel!AcceptBrowser, Panel!Dialog, Panel!Asking, Panel!Store
<1>24. ASSUME Panel!Decline PROVE Panel!TerminalRestored'
    BY <1>24 DEF Panel!Decline
<1>25. ASSUME Panel!ConfirmQuit PROVE Panel!TerminalRestored'
    BY <1>25 DEF Panel!ConfirmQuit, Panel!Confirms
<1>26. ASSUME Panel!ConfirmRemove PROVE Panel!TerminalRestored'
    BY <1>26 DEF Panel!ConfirmRemove, Panel!Confirms
<1>27. ASSUME Panel!ConfirmCommand PROVE Panel!TerminalRestored'
    BY <1>27 DEF Panel!ConfirmCommand, Panel!Confirms
<1>28. ASSUME Panel!Suspend PROVE Panel!TerminalRestored'
    BY <1>28 DEF Panel!Suspend
<1>29. ASSUME Panel!Child PROVE Panel!TerminalRestored'
    BY <1>29 DEF Panel!Child
<1>30. ASSUME Panel!ResumePanel PROVE Panel!TerminalRestored'
    BY <1>30 DEF Panel!ResumePanel, Panel!Resume
<1>31. ASSUME Panel!Finish PROVE Panel!TerminalRestored'
    BY <1>31 DEF Panel!Finish, Panel!Refreshed
<1>32. ASSUME Panel!Compare PROVE Panel!TerminalRestored'
    BY <1>32 DEF Panel!Compare
<1>33. ASSUME Panel!Recheck PROVE Panel!TerminalRestored'
    BY <1>33 DEF Panel!Recheck
<1>34. ASSUME Panel!Persist PROVE Panel!TerminalRestored'
    BY <1>34 DEF Panel!Persist
<1>35. ASSUME Panel!EditFile PROVE Panel!TerminalRestored'
    BY <1>35 DEF Panel!EditFile, Panel!Elsewhere
<1>36. ASSUME Panel!Install PROVE Panel!TerminalRestored'
    BY <1>36 DEF Panel!Install, Panel!Elsewhere
<1> QED BY <1>1, <1>2, <1>3, <1>4, <1>5, <1>6, <1>7, <1>8, <1>9, <1>10, <1>11, <1>12, <1>13,
   <1>14, <1>15, <1>16, <1>17, <1>18, <1>19, <1>20, <1>21, <1>22, <1>23, <1>24, <1>25,
   <1>26, <1>27, <1>28, <1>29, <1>30, <1>31, <1>32, <1>33, <1>34, <1>35, <1>36 DEF
   Panel!Next

\* An edit in the last moment is noted.
LEMMA PanelEdit ==
    ASSUME Panel!EditNoted, Panel!Next
    PROVE  Panel!EditNoted'
<1> USE DEF Panel!World, Panel!Dialogues, Panel!Kept, Panel!Still, Panel!Sound, Panel!Calm,
   Panel!Fault, Panel!Held, Panel!Refuted, Panel!Unasked, Panel!Setting, Panel!Executing,
   Panel!Saving, Panel!EditNoted
<1>1. ASSUME Panel!Load PROVE Panel!EditNoted'
    BY <1>1 DEF Panel!Load
<1>2. ASSUME Panel!Parse PROVE Panel!EditNoted'
    BY <1>2 DEF Panel!Parse
<1>3. ASSUME Panel!Open PROVE Panel!EditNoted'
    BY <1>3 DEF Panel!Open, Panel!Resume
<1>4. ASSUME Panel!Leave PROVE Panel!EditNoted'
    BY <1>4 DEF Panel!Leave
<1>5. ASSUME Panel!Broken PROVE Panel!EditNoted'
    BY <1>5 DEF Panel!Broken
<1>6. ASSUME Panel!Refresh PROVE Panel!EditNoted'
    BY <1>6 DEF Panel!Refresh, Panel!Refreshed
<1>7. ASSUME NEW t \in {0, 3, 5}, Panel!View(t) PROVE Panel!EditNoted'
    BY <1>7 DEF Panel!View, Panel!Refreshed
<1>8. ASSUME NEW d \in BOOLEAN, Panel!Navigate(d) PROVE Panel!EditNoted'
    BY <1>8 DEF Panel!Navigate
<1>9. ASSUME NEW d \in BOOLEAN, Panel!AskCommand(d) PROVE Panel!EditNoted'
    BY <1>9 DEF Panel!AskCommand, Panel!Asks
<1>10. ASSUME Panel!AskBrowser PROVE Panel!EditNoted'
    BY <1>10 DEF Panel!AskBrowser, Panel!AskCommand, Panel!Asks
<1>11. ASSUME Panel!AskQuit PROVE Panel!EditNoted'
    BY <1>11 DEF Panel!AskQuit, Panel!Asks
<1>12. ASSUME Panel!DryRun PROVE Panel!EditNoted'
    BY <1>12 DEF Panel!DryRun
<1>13. ASSUME Panel!Toggle PROVE Panel!EditNoted'
    BY <1>13 DEF Panel!Toggle
<1>14. ASSUME Panel!EditHook PROVE Panel!EditNoted'
    BY <1>14 DEF Panel!EditHook
<1>15. ASSUME Panel!EditBrowser PROVE Panel!EditNoted'
    BY <1>15 DEF Panel!EditBrowser, Panel!Asking
<1>16. ASSUME Panel!AddBrowser PROVE Panel!EditNoted'
    BY <1>16 DEF Panel!AddBrowser, Panel!Asking
<1>17. ASSUME Panel!AskRemove PROVE Panel!EditNoted'
    BY <1>17 DEF Panel!AskRemove, Panel!Asks
<1>18. ASSUME Panel!Goes("R", "reload") PROVE Panel!EditNoted'
    BY <1>18 DEF Panel!Goes
<1>19. ASSUME Panel!Goes("s", "compare") PROVE Panel!EditNoted'
    BY <1>19 DEF Panel!Goes
<1>20. ASSUME Panel!Type PROVE Panel!EditNoted'
    BY <1>20 DEF Panel!Type
<1>21. ASSUME Panel!Cancel PROVE Panel!EditNoted'
    BY <1>21 DEF Panel!Cancel
<1>22. ASSUME Panel!AcceptHook PROVE Panel!EditNoted'
    BY <1>22 DEF Panel!AcceptHook, Panel!Dialog
<1>23. ASSUME Panel!AcceptBrowser PROVE Panel!EditNoted'
    BY <1>23 DEF Panel!AcceptBrowser, Panel!Dialog, Panel!Asking, Panel!Store
<1>24. ASSUME Panel!Decline PROVE Panel!EditNoted'
    BY <1>24 DEF Panel!Decline
<1>25. ASSUME Panel!ConfirmQuit PROVE Panel!EditNoted'
    BY <1>25 DEF Panel!ConfirmQuit, Panel!Confirms
<1>26. ASSUME Panel!ConfirmRemove PROVE Panel!EditNoted'
    BY <1>26 DEF Panel!ConfirmRemove, Panel!Confirms
<1>27. ASSUME Panel!ConfirmCommand PROVE Panel!EditNoted'
    BY <1>27 DEF Panel!ConfirmCommand, Panel!Confirms
<1>28. ASSUME Panel!Suspend PROVE Panel!EditNoted'
    BY <1>28 DEF Panel!Suspend
<1>29. ASSUME Panel!Child PROVE Panel!EditNoted'
    BY <1>29 DEF Panel!Child
<1>30. ASSUME Panel!ResumePanel PROVE Panel!EditNoted'
    BY <1>30 DEF Panel!ResumePanel, Panel!Resume
<1>31. ASSUME Panel!Finish PROVE Panel!EditNoted'
    BY <1>31 DEF Panel!Finish, Panel!Refreshed
<1>32. ASSUME Panel!Compare PROVE Panel!EditNoted'
    BY <1>32 DEF Panel!Compare
<1>33. ASSUME Panel!Recheck PROVE Panel!EditNoted'
    BY <1>33 DEF Panel!Recheck
<1>34. ASSUME Panel!Persist PROVE Panel!EditNoted'
    BY <1>34 DEF Panel!Persist
<1>35. ASSUME Panel!EditFile PROVE Panel!EditNoted'
    BY <1>35 DEF Panel!EditFile, Panel!Elsewhere
<1>36. ASSUME Panel!Install PROVE Panel!EditNoted'
    BY <1>36 DEF Panel!Install, Panel!Elsewhere
<1> QED BY <1>1, <1>2, <1>3, <1>4, <1>5, <1>6, <1>7, <1>8, <1>9, <1>10, <1>11, <1>12, <1>13,
   <1>14, <1>15, <1>16, <1>17, <1>18, <1>19, <1>20, <1>21, <1>22, <1>23, <1>24, <1>25,
   <1>26, <1>27, <1>28, <1>29, <1>30, <1>31, <1>32, <1>33, <1>34, <1>35, <1>36 DEF
   Panel!Next

\* Every step keeps the types of what is drawn.
LEMMA PanelScreen ==
    ASSUME Panel!TypeOK, Panel!Next
    PROVE  Panel!PanelTypeOK'
<1> USE PanelNumbers DEF Panel!World, Panel!Dialogues, Panel!Kept, Panel!Still, Panel!Sound,
   Panel!Calm, Panel!Fault, Panel!Held, Panel!Refuted, Panel!Unasked, Panel!Setting,
   Panel!Executing, Panel!Saving, Panel!TypeOK, Panel!PanelTypeOK
<1>1. ASSUME Panel!Load PROVE Panel!PanelTypeOK'
    BY <1>1 DEF Panel!Load
<1>2. ASSUME Panel!Parse PROVE Panel!PanelTypeOK'
    <2>1. x6' = x6 \/ x6' = [tab |-> IF x12 = "parse" THEN 0 ELSE 5, selected |-> 0, setting |-> 0]
        BY <1>2 DEF Panel!Parse
    <2>2. x6' \in [tab : 0..5, selected : Nat, setting : Nat]
        <3>1. (IF x12 = "parse" THEN 0 ELSE 5) \in 0..5 /\ x6 \in [tab : 0..5, selected : Nat, setting : Nat]
            OBVIOUS
        <3>2. ASSUME NEW t \in 0..5 PROVE [tab |-> t, selected |-> 0, setting |-> 0] \in [tab : 0..5, selected : Nat, setting : Nat]
            OBVIOUS
        <3> HIDE DEF Panel!TypeOK, Panel!PanelTypeOK
        <3> QED BY <2>1, <3>1, <3>2
    <2>3. x7' \in Detections \cup {<<>>} /\ x8' = x8 /\ x11' = x11 /\ x13' = x13
        BY <1>2 DEF Panel!Parse
    <2>4. x12' \in {"open", "keys", "exit"}
        BY <1>2 DEF Panel!Parse
    <2> QED BY <2>2, <2>3, <2>4
<1>3. ASSUME Panel!Open PROVE Panel!PanelTypeOK'
    BY <1>3 DEF Panel!Open, Panel!Resume
<1>4. ASSUME Panel!Leave PROVE Panel!PanelTypeOK'
    BY <1>4 DEF Panel!Leave
<1>5. ASSUME Panel!Broken PROVE Panel!PanelTypeOK'
    BY <1>5 DEF Panel!Broken
<1>6. ASSUME Panel!Refresh PROVE Panel!PanelTypeOK'
    <2>1. x6 \in [tab : 0..5, selected : Nat, setting : Nat] /\ x8 \in Detections
        OBVIOUS
    <2>2. x6' \in [tab : 0..5, selected : Nat, setting : Nat] /\ x7' \in Detections \cup {<<>>}
        <3>1. CASE Panel!Refreshed(x6)
            BY <2>1, <3>1, PanelRefreshed
        <3> QED BY <1>6, <2>1, <3>1 DEF Panel!Refresh
    <2> QED BY <1>6, <2>2 DEF Panel!Refresh, Panel!Refreshed
<1>7. ASSUME NEW t \in {0, 3, 5}, Panel!View(t) PROVE Panel!PanelTypeOK'
    <2>1. [x6 EXCEPT !.tab = t] \in [tab : 0..5, selected : Nat, setting : Nat] /\ x8 \in Detections
        BY <1>7
    <2>2. x6' \in [tab : 0..5, selected : Nat, setting : Nat] /\ x7' \in Detections \cup {<<>>}
        <3>1. CASE Panel!Refreshed([x6 EXCEPT !.tab = t])
            BY <2>1, <3>1, PanelRefreshed
        <3> QED BY <1>7, <2>1, <3>1 DEF Panel!View
    <2> QED BY <1>7, <2>2 DEF Panel!View
<1>8. ASSUME NEW d \in BOOLEAN, Panel!Navigate(d) PROVE Panel!PanelTypeOK'
    <2>1. Len(x7) \in Nat /\ Len(x4.browsers) \in Nat
        BY PanelEntries DEF Panel!FilesTypeOK, Panel!Config
    <2>2. x6' \in [tab : 0..5, selected : Nat, setting : Nat]
        BY <1>8, <2>1, PanelMoved
    <2> QED BY <1>8, <2>2 DEF Panel!Navigate
<1>9. ASSUME NEW d \in BOOLEAN, Panel!AskCommand(d) PROVE Panel!PanelTypeOK'
    BY <1>9 DEF Panel!AskCommand, Panel!Asks
<1>10. ASSUME Panel!AskBrowser PROVE Panel!PanelTypeOK'
    BY <1>10 DEF Panel!AskBrowser, Panel!AskCommand, Panel!Asks
<1>11. ASSUME Panel!AskQuit PROVE Panel!PanelTypeOK'
    BY <1>11 DEF Panel!AskQuit, Panel!Asks
<1>12. ASSUME Panel!DryRun PROVE Panel!PanelTypeOK'
    BY <1>12 DEF Panel!DryRun
<1>13. ASSUME Panel!Toggle PROVE Panel!PanelTypeOK'
    BY <1>13 DEF Panel!Toggle
<1>14. ASSUME Panel!EditHook PROVE Panel!PanelTypeOK'
    BY <1>14 DEF Panel!EditHook
<1>15. ASSUME Panel!EditBrowser PROVE Panel!PanelTypeOK'
    BY <1>15 DEF Panel!EditBrowser, Panel!Asking
<1>16. ASSUME Panel!AddBrowser PROVE Panel!PanelTypeOK'
    BY <1>16 DEF Panel!AddBrowser, Panel!Asking
<1>17. ASSUME Panel!AskRemove PROVE Panel!PanelTypeOK'
    BY <1>17 DEF Panel!AskRemove, Panel!Asks
<1>18. ASSUME Panel!Goes("R", "reload") PROVE Panel!PanelTypeOK'
    BY <1>18 DEF Panel!Goes
<1>19. ASSUME Panel!Goes("s", "compare") PROVE Panel!PanelTypeOK'
    BY <1>19 DEF Panel!Goes
<1>20. ASSUME Panel!Type PROVE Panel!PanelTypeOK'
    BY <1>20 DEF Panel!Type
<1>21. ASSUME Panel!Cancel PROVE Panel!PanelTypeOK'
    BY <1>21 DEF Panel!Cancel
<1>22. ASSUME Panel!AcceptHook PROVE Panel!PanelTypeOK'
    BY <1>22 DEF Panel!AcceptHook, Panel!Dialog
<1>23. ASSUME Panel!AcceptBrowser PROVE Panel!PanelTypeOK'
    BY <1>23 DEF Panel!AcceptBrowser, Panel!Dialog, Panel!Asking, Panel!Store
<1>24. ASSUME Panel!Decline PROVE Panel!PanelTypeOK'
    BY <1>24 DEF Panel!Decline
<1>25. ASSUME Panel!ConfirmQuit PROVE Panel!PanelTypeOK'
    BY <1>25 DEF Panel!ConfirmQuit, Panel!Confirms
<1>26. ASSUME Panel!ConfirmRemove PROVE Panel!PanelTypeOK'
    <2>1. Panel!LastOf(x6.setting) \in Nat
        BY DEF Panel!LastOf
    <2> QED BY <1>26, <2>1 DEF Panel!ConfirmRemove, Panel!Confirms
<1>27. ASSUME Panel!ConfirmCommand PROVE Panel!PanelTypeOK'
    BY <1>27 DEF Panel!ConfirmCommand, Panel!Confirms
<1>28. ASSUME Panel!Suspend PROVE Panel!PanelTypeOK'
    BY <1>28 DEF Panel!Suspend
<1>29. ASSUME Panel!Child PROVE Panel!PanelTypeOK'
    BY <1>29 DEF Panel!Child
<1>30. ASSUME Panel!ResumePanel PROVE Panel!PanelTypeOK'
    BY <1>30 DEF Panel!ResumePanel, Panel!Resume
<1>31. ASSUME Panel!Finish PROVE Panel!PanelTypeOK'
    <2>1. x6 \in [tab : 0..5, selected : Nat, setting : Nat] /\ x8 \in Detections
        OBVIOUS
    <2>2. x6' \in [tab : 0..5, selected : Nat, setting : Nat] /\ x7' \in Detections \cup {<<>>}
        <3>1. CASE Panel!Refreshed(x6)
            BY <2>1, <3>1, PanelRefreshed
        <3> QED BY <1>31, <2>1, <3>1 DEF Panel!Finish
    <2> QED BY <1>31, <2>2 DEF Panel!Finish, Panel!Refreshed
<1>32. ASSUME Panel!Compare PROVE Panel!PanelTypeOK'
    BY <1>32 DEF Panel!Compare
<1>33. ASSUME Panel!Recheck PROVE Panel!PanelTypeOK'
    BY <1>33 DEF Panel!Recheck
<1>34. ASSUME Panel!Persist PROVE Panel!PanelTypeOK'
    BY <1>34 DEF Panel!Persist
<1>35. ASSUME Panel!EditFile PROVE Panel!PanelTypeOK'
    BY <1>35 DEF Panel!EditFile, Panel!Elsewhere
<1>36. ASSUME Panel!Install PROVE Panel!PanelTypeOK'
    BY <1>36 DEF Panel!Install, Panel!Elsewhere
<1> QED BY <1>1, <1>2, <1>3, <1>4, <1>5, <1>6, <1>7, <1>8, <1>9, <1>10, <1>11, <1>12, <1>13,
   <1>14, <1>15, <1>16, <1>17, <1>18, <1>19, <1>20, <1>21, <1>22, <1>23, <1>24, <1>25,
   <1>26, <1>27, <1>28, <1>29, <1>30, <1>31, <1>32, <1>33, <1>34, <1>35, <1>36 DEF
   Panel!Next

\* Indexes stay within what they index.
LEMMA PanelIndexes ==
    ASSUME Panel!TypeOK, Panel!OneQuestion, Panel!IndexesHold, Panel!Next
    PROVE  Panel!IndexesHold'
<1> USE DEF Panel!World, Panel!Dialogues, Panel!Kept, Panel!Still, Panel!Sound, Panel!Calm,
   Panel!Fault, Panel!Held, Panel!Refuted, Panel!Unasked, Panel!Setting, Panel!Executing,
   Panel!Saving, Panel!IndexesHold, Panel!TypeOK, Panel!PanelTypeOK, Panel!OneQuestion
<1>1. ASSUME Panel!Load PROVE Panel!IndexesHold'
    BY <1>1 DEF Panel!Load
<1>2. ASSUME Panel!Parse PROVE Panel!IndexesHold'
    <2>1. /\ Len(x4.browsers) \in Nat /\ DOMAIN x4.browsers = 1..Len(x4.browsers) /\ Panel!SETTINGS \in Nat
          /\ Panel!SETTINGS > 0 /\ Len(x7) \in Nat /\ x6.selected \in Nat /\ x6.setting \in Nat
        BY PanelSizes
    <2>a. x6.setting < Panel!SETTINGS + Len(x4.browsers) /\ x6.selected <= Panel!LastOf(Len(x7))
        OBVIOUS
    <2>b. Panel!LastOf(Len(x7)) \in Nat
        BY <2>1 DEF Panel!LastOf
    <2>2. CASE x4' = x4 /\ x6' = x6 /\ x7' = x7 /\ x9' = x9 /\ x10' = x10
        BY <2>2
    <2>3. CASE x4' = x1 /\ x1 \in Panel!Config /\ x6'.selected = 0 /\ x6'.setting = 0 /\ x7' = x8 /\ x9' = None /\ x10' = None
        <3>1. Len(x1.browsers) \in Nat /\ Len(x8) \in Nat
            BY <2>3, PanelEntries, PanelNumbers DEF Panel!Config
        <3>2. x6'.selected <= Panel!LastOf(Len(x7')) /\ x6'.setting < Panel!SETTINGS + Len(x4'.browsers)
            <4>1. Panel!LastOf(Len(x8)) \in Nat /\ 0 <= Panel!LastOf(Len(x8))
                BY <3>1 DEF Panel!LastOf
            <4> HIDE DEF Panel!IndexesHold, Panel!TypeOK, Panel!PanelTypeOK, Panel!OneQuestion
            <4> QED BY <2>1, <2>3, <3>1, <4>1
        <3> QED BY <2>3, <3>2
    <2>4. \/ x4' = x4 /\ x6' = x6 /\ x7' = x7 /\ x9' = x9 /\ x10' = x10
          \/ x4' = x1 /\ x1 # Garbled /\ x7' = x8 /\ x9' = None /\ x10' = None
             /\ x6' = [tab |-> IF x12 = "parse" THEN 0 ELSE 5, selected |-> 0, setting |-> 0]
        BY <1>2 DEF Panel!Parse
    <2>5. x1 \in Panel!Config \cup {Garbled}
        BY DEF Panel!FilesTypeOK
    <2> QED BY <2>2, <2>3, <2>4, <2>5
<1>3. ASSUME Panel!Open PROVE Panel!IndexesHold'
    BY <1>3 DEF Panel!Open, Panel!Resume
<1>4. ASSUME Panel!Leave PROVE Panel!IndexesHold'
    BY <1>4 DEF Panel!Leave
<1>5. ASSUME Panel!Broken PROVE Panel!IndexesHold'
    BY <1>5 DEF Panel!Broken
<1>6. ASSUME Panel!Refresh PROVE Panel!IndexesHold'
    <2>1. /\ Len(x4.browsers) \in Nat /\ DOMAIN x4.browsers = 1..Len(x4.browsers) /\ Panel!SETTINGS \in Nat
          /\ Panel!SETTINGS > 0 /\ Len(x7) \in Nat /\ x6.selected \in Nat /\ x6.setting \in Nat
        BY PanelSizes
    <2>a. x6.setting < Panel!SETTINGS + Len(x4.browsers) /\ x6.selected <= Panel!LastOf(Len(x7))
        OBVIOUS
    <2>b. Panel!LastOf(Len(x7)) \in Nat
        BY <2>1 DEF Panel!LastOf
    <2>2. x6 \in [tab : 0..5, selected : Nat, setting : Nat] /\ x8 \in Detections
        OBVIOUS
    <2>3. \/ x6'.selected <= Panel!LastOf(Len(x7')) /\ x6'.setting = x6.setting
          \/ x6' = x6 /\ x7' = x7
        <3>1. CASE Panel!Refreshed(x6)
            BY <2>2, <3>1, PanelRefreshed
        <3> QED BY <1>6, <3>1 DEF Panel!Refresh
    <2>4. x4' = x4 /\ x9' = x9 /\ x10' = x10
        BY <1>6 DEF Panel!Refresh
    <2> QED BY <2>3, <2>4
<1>7. ASSUME NEW t \in {0, 3, 5}, Panel!View(t) PROVE Panel!IndexesHold'
    <2>1. /\ Len(x4.browsers) \in Nat /\ DOMAIN x4.browsers = 1..Len(x4.browsers) /\ Panel!SETTINGS \in Nat
          /\ Panel!SETTINGS > 0 /\ Len(x7) \in Nat /\ x6.selected \in Nat /\ x6.setting \in Nat
        BY PanelSizes
    <2>a. x6.setting < Panel!SETTINGS + Len(x4.browsers) /\ x6.selected <= Panel!LastOf(Len(x7))
        OBVIOUS
    <2>b. Panel!LastOf(Len(x7)) \in Nat
        BY <2>1 DEF Panel!LastOf
    <2>2. [x6 EXCEPT !.tab = t] \in [tab : 0..5, selected : Nat, setting : Nat] /\ x8 \in Detections
        BY <1>7
    <2>3. x6'.selected <= Panel!LastOf(Len(x7')) /\ x6'.setting = x6.setting
        <3>1. CASE Panel!Refreshed([x6 EXCEPT !.tab = t])
            BY <2>2, <3>1, PanelRefreshed
        <3> QED BY <1>7, <2>2, <3>1 DEF Panel!View
    <2> QED BY <1>7, <2>3 DEF Panel!View
<1>8. ASSUME NEW d \in BOOLEAN, Panel!Navigate(d) PROVE Panel!IndexesHold'
    <2>1. /\ Len(x4.browsers) \in Nat /\ DOMAIN x4.browsers = 1..Len(x4.browsers) /\ Panel!SETTINGS \in Nat
          /\ Panel!SETTINGS > 0 /\ Len(x7) \in Nat /\ x6.selected \in Nat /\ x6.setting \in Nat
        BY PanelSizes
    <2>a. x6.setting < Panel!SETTINGS + Len(x4.browsers) /\ x6.selected <= Panel!LastOf(Len(x7))
        OBVIOUS
    <2>b. Panel!LastOf(Len(x7)) \in Nat
        BY <2>1 DEF Panel!LastOf
    <2>2. /\ x6'.selected <= Panel!LastOf(Len(x7)) \/ x6'.selected <= x6.selected
          /\ x6'.setting < Panel!SETTINGS + Len(x4.browsers) \/ x6'.setting <= x6.setting
          /\ x6'.selected \in Nat /\ x6'.setting \in Nat
        BY <1>8, <2>1, PanelMoved
    <2>3. x4' = x4 /\ x7' = x7 /\ x9' = x9 /\ x10' = x10
        BY <1>8 DEF Panel!Navigate
    <2>4. x6'.selected <= Panel!LastOf(Len(x7)) /\ x6'.setting < Panel!SETTINGS + Len(x4.browsers)
        <3> HIDE DEF Panel!IndexesHold, Panel!TypeOK, Panel!PanelTypeOK, Panel!OneQuestion
        <3> QED BY <2>1, <2>a, <2>b, <2>2
    <2> QED BY <2>3, <2>4
<1>9. ASSUME NEW d \in BOOLEAN, Panel!AskCommand(d) PROVE Panel!IndexesHold'
    BY <1>9 DEF Panel!AskCommand, Panel!Asks
<1>10. ASSUME Panel!AskBrowser PROVE Panel!IndexesHold'
    BY <1>10 DEF Panel!AskBrowser, Panel!AskCommand, Panel!Asks
<1>11. ASSUME Panel!AskQuit PROVE Panel!IndexesHold'
    <2>1. x4' = x4 /\ x6' = x6 /\ x7' = x7 /\ x9' = x9 /\ (x10' = x10 \/ x10'.kind = "quit")
        BY <1>11 DEF Panel!AskQuit, Panel!Asks
    <2> QED BY <2>1
<1>12. ASSUME Panel!DryRun PROVE Panel!IndexesHold'
    BY <1>12 DEF Panel!DryRun
<1>13. ASSUME Panel!Toggle PROVE Panel!IndexesHold'
    BY <1>13 DEF Panel!Toggle
<1>14. ASSUME Panel!EditHook PROVE Panel!IndexesHold'
    BY <1>14 DEF Panel!EditHook
<1>15. ASSUME Panel!EditBrowser PROVE Panel!IndexesHold'
    BY <1>15 DEF Panel!EditBrowser, Panel!Asking
<1>16. ASSUME Panel!AddBrowser PROVE Panel!IndexesHold'
    BY <1>16 DEF Panel!AddBrowser, Panel!Asking
<1>17. ASSUME Panel!AskRemove PROVE Panel!IndexesHold'
    <2>1. /\ Len(x4.browsers) \in Nat /\ DOMAIN x4.browsers = 1..Len(x4.browsers) /\ Panel!SETTINGS \in Nat
          /\ Panel!SETTINGS > 0 /\ Len(x7) \in Nat /\ x6.selected \in Nat /\ x6.setting \in Nat
        BY PanelSizes
    <2>a. x6.setting < Panel!SETTINGS + Len(x4.browsers) /\ x6.selected <= Panel!LastOf(Len(x7))
        OBVIOUS
    <2>b. Panel!LastOf(Len(x7)) \in Nat
        BY <2>1 DEF Panel!LastOf
    <2>2. /\ x10' = [kind |-> "remove", index |-> x6.setting - Panel!SETTINGS + 1] /\ x6.setting >= Panel!SETTINGS
          /\ x4' = x4 /\ x6' = x6 /\ x7' = x7 /\ x9' = x9
        BY <1>17 DEF Panel!AskRemove, Panel!Asks
    <2>3. x6.setting - Panel!SETTINGS + 1 \in 1..Len(x4.browsers)
        <3>1. \A i, n, k \in Nat : i >= n /\ i < n + k => i - n + 1 \in 1..k
            OBVIOUS
        <3> HIDE DEF Panel!IndexesHold, Panel!TypeOK, Panel!PanelTypeOK, Panel!OneQuestion
        <3> QED BY <2>1, <2>2, <2>a, <3>1
    <2> QED BY <2>1, <2>2, <2>3
<1>18. ASSUME Panel!Goes("R", "reload") PROVE Panel!IndexesHold'
    BY <1>18 DEF Panel!Goes
<1>19. ASSUME Panel!Goes("s", "compare") PROVE Panel!IndexesHold'
    BY <1>19 DEF Panel!Goes
<1>20. ASSUME Panel!Type PROVE Panel!IndexesHold'
    BY <1>20 DEF Panel!Type
<1>21. ASSUME Panel!Cancel PROVE Panel!IndexesHold'
    BY <1>21 DEF Panel!Cancel
<1>22. ASSUME Panel!AcceptHook PROVE Panel!IndexesHold'
    BY <1>22 DEF Panel!AcceptHook, Panel!Dialog
<1>23. ASSUME Panel!AcceptBrowser PROVE Panel!IndexesHold'
    <2>1. /\ Len(x4.browsers) \in Nat /\ DOMAIN x4.browsers = 1..Len(x4.browsers) /\ Panel!SETTINGS \in Nat
          /\ Panel!SETTINGS > 0 /\ Len(x7) \in Nat /\ x6.selected \in Nat /\ x6.setting \in Nat
        BY PanelSizes
    <2>a. x6.setting < Panel!SETTINGS + Len(x4.browsers) /\ x6.selected <= Panel!LastOf(Len(x7))
        OBVIOUS
    <2>b. Panel!LastOf(Len(x7)) \in Nat
        BY <2>1 DEF Panel!LastOf
    <2>2. x10' = x10 /\ x6' = x6 /\ x7' = x7 /\ x9 # None /\ x10 = None
        BY <1>23 DEF Panel!AcceptBrowser, Panel!Dialog
    <2>3. CASE x4' = x4 /\ (x9' = None \/ x9'.editing = x9.editing)
        BY <1>23, <2>2, <2>3 DEF Panel!AcceptBrowser, Panel!Dialog
    <2>4. ASSUME NEW e \in Customs, x9' = None,
                 x4' = [x4 EXCEPT !.browsers = IF x9.editing # 0 THEN [@ EXCEPT ![x9.editing] = e] ELSE Append(@, e)]
          PROVE  Panel!IndexesHold'
        <3>1. /\ x9.editing # 0 => x9.editing \in DOMAIN x4.browsers
              /\ x9.editing = 0 => Len(x4.browsers) < MostCustoms
            BY <1>23 DEF Panel!AcceptBrowser, Panel!Dialog
        <3>2. x4'.browsers = IF x9.editing # 0 THEN [x4.browsers EXCEPT ![x9.editing] = e] ELSE Append(x4.browsers, e)
            BY <2>4 DEF Panel!FilesTypeOK, Panel!Config
        <3>3. x4.browsers \in Panel!SeqOf(Customs, MostCustoms)
            BY DEF Panel!FilesTypeOK, Panel!Config
        <3>4. Len(x4'.browsers) = Len(x4.browsers) \/ Len(x4'.browsers) = Len(x4.browsers) + 1
            <4>1. CASE x9.editing # 0
                BY <3>1, <3>2, <3>3, <4>1, PanelEdits
            <4>2. CASE x9.editing = 0
                BY <3>1, <3>2, <3>3, <4>2, PanelEdits
            <4> QED BY <4>1, <4>2
        <3>5. x6.setting < Panel!SETTINGS + Len(x4'.browsers)
            <4> HIDE DEF Panel!IndexesHold, Panel!TypeOK, Panel!PanelTypeOK, Panel!OneQuestion
            <4> QED BY <2>1, <2>a, <3>4
        <3> QED BY <2>2, <2>4, <3>5
    <2> QED BY <1>23, <2>3, <2>4 DEF Panel!AcceptBrowser, Panel!Store, Panel!Asking
<1>24. ASSUME Panel!Decline PROVE Panel!IndexesHold'
    BY <1>24 DEF Panel!Decline
<1>25. ASSUME Panel!ConfirmQuit PROVE Panel!IndexesHold'
    BY <1>25 DEF Panel!ConfirmQuit, Panel!Confirms
<1>26. ASSUME Panel!ConfirmRemove PROVE Panel!IndexesHold'
    <2>1. /\ Len(x4.browsers) \in Nat /\ DOMAIN x4.browsers = 1..Len(x4.browsers) /\ Panel!SETTINGS \in Nat
          /\ Panel!SETTINGS > 0 /\ Len(x7) \in Nat /\ x6.selected \in Nat /\ x6.setting \in Nat
        BY PanelSizes
    <2>a. x6.setting < Panel!SETTINGS + Len(x4.browsers) /\ x6.selected <= Panel!LastOf(Len(x7))
        OBVIOUS
    <2>b. Panel!LastOf(Len(x7)) \in Nat
        BY <2>1 DEF Panel!LastOf
    <2>2. /\ x10.index \in DOMAIN x4.browsers /\ x10.index \in 1..Len(x4.browsers)
          /\ x4' = [x4 EXCEPT !.browsers = Panel!RemoveAt(@, x10.index)] /\ x10' = None
          /\ x6' = [x6 EXCEPT !.setting = Panel!LastOf(@)] /\ x7' = x7 /\ x9' = x9 /\ x9 = None
        BY <1>26, <2>1 DEF Panel!ConfirmRemove, Panel!Confirms
    <2>3. Len(x4'.browsers) = Len(x4.browsers) - 1 /\ Len(x4.browsers) > 0
        <3>1. x4.browsers \in Panel!SeqOf(Customs, MostCustoms) /\ x4 \in Panel!Config
            BY DEF Panel!FilesTypeOK, Panel!Config
        <3>2. x4'.browsers = Panel!RemoveAt(x4.browsers, x10.index)
            BY <2>2, <3>1 DEF Panel!Config
        <3> HIDE DEF Panel!IndexesHold, Panel!TypeOK, Panel!PanelTypeOK, Panel!OneQuestion
        <3>3. x10.index \in DOMAIN x4.browsers /\ x10.index \in 1..Len(x4.browsers)
            BY <2>2
        <3>4. Len(Panel!RemoveAt(x4.browsers, x10.index)) = Len(x4.browsers) - 1
            BY <3>1, <3>3, PanelEdits
        <3> QED BY <2>1, <3>2, <3>3, <3>4
    <2>4. x6'.setting = Panel!LastOf(x6.setting) /\ x6'.selected = x6.selected
        BY <2>2
    <2>5. Panel!LastOf(x6.setting) = 0 \/ Panel!LastOf(x6.setting) = x6.setting - 1
        BY DEF Panel!LastOf
    <2>6. x6'.setting < Panel!SETTINGS + Len(x4'.browsers)
        <3> HIDE DEF Panel!IndexesHold, Panel!TypeOK, Panel!PanelTypeOK, Panel!OneQuestion
        <3> QED BY <2>1, <2>a, <2>3, <2>4, <2>5
    <2> QED BY <2>2, <2>4, <2>6
<1>27. ASSUME Panel!ConfirmCommand PROVE Panel!IndexesHold'
    BY <1>27 DEF Panel!ConfirmCommand, Panel!Confirms
<1>28. ASSUME Panel!Suspend PROVE Panel!IndexesHold'
    BY <1>28 DEF Panel!Suspend
<1>29. ASSUME Panel!Child PROVE Panel!IndexesHold'
    BY <1>29 DEF Panel!Child
<1>30. ASSUME Panel!ResumePanel PROVE Panel!IndexesHold'
    BY <1>30 DEF Panel!ResumePanel, Panel!Resume
<1>31. ASSUME Panel!Finish PROVE Panel!IndexesHold'
    <2>1. /\ Len(x4.browsers) \in Nat /\ DOMAIN x4.browsers = 1..Len(x4.browsers) /\ Panel!SETTINGS \in Nat
          /\ Panel!SETTINGS > 0 /\ Len(x7) \in Nat /\ x6.selected \in Nat /\ x6.setting \in Nat
        BY PanelSizes
    <2>a. x6.setting < Panel!SETTINGS + Len(x4.browsers) /\ x6.selected <= Panel!LastOf(Len(x7))
        OBVIOUS
    <2>b. Panel!LastOf(Len(x7)) \in Nat
        BY <2>1 DEF Panel!LastOf
    <2>2. x6 \in [tab : 0..5, selected : Nat, setting : Nat] /\ x8 \in Detections
        OBVIOUS
    <2>3. \/ x6'.selected <= Panel!LastOf(Len(x7')) /\ x6'.setting = x6.setting
          \/ x6' = x6 /\ x7' = x7
        <3>1. CASE Panel!Refreshed(x6)
            BY <2>2, <3>1, PanelRefreshed
        <3> QED BY <1>31, <3>1 DEF Panel!Finish
    <2>4. x4' = x4 /\ x9' = x9 /\ x10' = x10
        BY <1>31 DEF Panel!Finish
    <2> QED BY <2>3, <2>4
<1>32. ASSUME Panel!Compare PROVE Panel!IndexesHold'
    BY <1>32 DEF Panel!Compare
<1>33. ASSUME Panel!Recheck PROVE Panel!IndexesHold'
    BY <1>33 DEF Panel!Recheck
<1>34. ASSUME Panel!Persist PROVE Panel!IndexesHold'
    BY <1>34 DEF Panel!Persist
<1>35. ASSUME Panel!EditFile PROVE Panel!IndexesHold'
    BY <1>35 DEF Panel!EditFile, Panel!Elsewhere
<1>36. ASSUME Panel!Install PROVE Panel!IndexesHold'
    BY <1>36 DEF Panel!Install, Panel!Elsewhere
<1> QED BY <1>1, <1>2, <1>3, <1>4, <1>5, <1>6, <1>7, <1>8, <1>9, <1>10, <1>11, <1>12, <1>13,
   <1>14, <1>15, <1>16, <1>17, <1>18, <1>19, <1>20, <1>21, <1>22, <1>23, <1>24, <1>25,
   <1>26, <1>27, <1>28, <1>29, <1>30, <1>31, <1>32, <1>33, <1>34, <1>35, <1>36 DEF
   Panel!Next

\* A save replaces what was read.
LEMMA PanelSaves ==
    ASSUME Panel!TypeOK, Panel!EditNoted, Panel!Next
    PROVE  Panel!SaveKeepsOthers
<1> USE DEF Panel!World, Panel!Dialogues, Panel!Kept, Panel!Still, Panel!Sound, Panel!Calm,
   Panel!Fault, Panel!Held, Panel!Refuted, Panel!Unasked, Panel!Setting, Panel!Executing,
   Panel!Saving, Panel!EditNoted, Panel!SaveKeepsOthers
<1>1. ASSUME Panel!Load PROVE Panel!SaveKeepsOthers
    BY <1>1 DEF Panel!Load
<1>2. ASSUME Panel!Parse PROVE Panel!SaveKeepsOthers
    BY <1>2 DEF Panel!Parse
<1>3. ASSUME Panel!Open PROVE Panel!SaveKeepsOthers
    BY <1>3 DEF Panel!Open, Panel!Resume
<1>4. ASSUME Panel!Leave PROVE Panel!SaveKeepsOthers
    BY <1>4 DEF Panel!Leave
<1>5. ASSUME Panel!Broken PROVE Panel!SaveKeepsOthers
    BY <1>5 DEF Panel!Broken
<1>6. ASSUME Panel!Refresh PROVE Panel!SaveKeepsOthers
    BY <1>6 DEF Panel!Refresh, Panel!Refreshed
<1>7. ASSUME NEW t \in {0, 3, 5}, Panel!View(t) PROVE Panel!SaveKeepsOthers
    BY <1>7 DEF Panel!View, Panel!Refreshed
<1>8. ASSUME NEW d \in BOOLEAN, Panel!Navigate(d) PROVE Panel!SaveKeepsOthers
    BY <1>8 DEF Panel!Navigate
<1>9. ASSUME NEW d \in BOOLEAN, Panel!AskCommand(d) PROVE Panel!SaveKeepsOthers
    BY <1>9 DEF Panel!AskCommand, Panel!Asks
<1>10. ASSUME Panel!AskBrowser PROVE Panel!SaveKeepsOthers
    BY <1>10 DEF Panel!AskBrowser, Panel!AskCommand, Panel!Asks
<1>11. ASSUME Panel!AskQuit PROVE Panel!SaveKeepsOthers
    BY <1>11 DEF Panel!AskQuit, Panel!Asks
<1>12. ASSUME Panel!DryRun PROVE Panel!SaveKeepsOthers
    BY <1>12 DEF Panel!DryRun
<1>13. ASSUME Panel!Toggle PROVE Panel!SaveKeepsOthers
    BY <1>13 DEF Panel!Toggle
<1>14. ASSUME Panel!EditHook PROVE Panel!SaveKeepsOthers
    BY <1>14 DEF Panel!EditHook
<1>15. ASSUME Panel!EditBrowser PROVE Panel!SaveKeepsOthers
    BY <1>15 DEF Panel!EditBrowser, Panel!Asking
<1>16. ASSUME Panel!AddBrowser PROVE Panel!SaveKeepsOthers
    BY <1>16 DEF Panel!AddBrowser, Panel!Asking
<1>17. ASSUME Panel!AskRemove PROVE Panel!SaveKeepsOthers
    BY <1>17 DEF Panel!AskRemove, Panel!Asks
<1>18. ASSUME Panel!Goes("R", "reload") PROVE Panel!SaveKeepsOthers
    BY <1>18 DEF Panel!Goes
<1>19. ASSUME Panel!Goes("s", "compare") PROVE Panel!SaveKeepsOthers
    BY <1>19 DEF Panel!Goes
<1>20. ASSUME Panel!Type PROVE Panel!SaveKeepsOthers
    BY <1>20 DEF Panel!Type
<1>21. ASSUME Panel!Cancel PROVE Panel!SaveKeepsOthers
    BY <1>21 DEF Panel!Cancel
<1>22. ASSUME Panel!AcceptHook PROVE Panel!SaveKeepsOthers
    BY <1>22 DEF Panel!AcceptHook, Panel!Dialog
<1>23. ASSUME Panel!AcceptBrowser PROVE Panel!SaveKeepsOthers
    BY <1>23 DEF Panel!AcceptBrowser, Panel!Dialog, Panel!Asking, Panel!Store
<1>24. ASSUME Panel!Decline PROVE Panel!SaveKeepsOthers
    BY <1>24 DEF Panel!Decline
<1>25. ASSUME Panel!ConfirmQuit PROVE Panel!SaveKeepsOthers
    BY <1>25 DEF Panel!ConfirmQuit, Panel!Confirms
<1>26. ASSUME Panel!ConfirmRemove PROVE Panel!SaveKeepsOthers
    BY <1>26 DEF Panel!ConfirmRemove, Panel!Confirms
<1>27. ASSUME Panel!ConfirmCommand PROVE Panel!SaveKeepsOthers
    BY <1>27 DEF Panel!ConfirmCommand, Panel!Confirms
<1>28. ASSUME Panel!Suspend PROVE Panel!SaveKeepsOthers
    BY <1>28 DEF Panel!Suspend
<1>29. ASSUME Panel!Child PROVE Panel!SaveKeepsOthers
    BY <1>29 DEF Panel!Child
<1>30. ASSUME Panel!ResumePanel PROVE Panel!SaveKeepsOthers
    BY <1>30 DEF Panel!ResumePanel, Panel!Resume
<1>31. ASSUME Panel!Finish PROVE Panel!SaveKeepsOthers
    BY <1>31 DEF Panel!Finish, Panel!Refreshed
<1>32. ASSUME Panel!Compare PROVE Panel!SaveKeepsOthers
    BY <1>32 DEF Panel!Compare
<1>33. ASSUME Panel!Recheck PROVE Panel!SaveKeepsOthers
    BY <1>33 DEF Panel!Recheck
<1>34. ASSUME Panel!Persist PROVE Panel!SaveKeepsOthers
    BY <1>34 DEF Panel!Persist
<1>35. ASSUME Panel!EditFile PROVE Panel!SaveKeepsOthers
    BY <1>35 DEF Panel!EditFile, Panel!Elsewhere
<1>36. ASSUME Panel!Install PROVE Panel!SaveKeepsOthers
    BY <1>36 DEF Panel!Install, Panel!Elsewhere
<1> QED BY <1>1, <1>2, <1>3, <1>4, <1>5, <1>6, <1>7, <1>8, <1>9, <1>10, <1>11, <1>12, <1>13,
   <1>14, <1>15, <1>16, <1>17, <1>18, <1>19, <1>20, <1>21, <1>22, <1>23, <1>24, <1>25,
   <1>26, <1>27, <1>28, <1>29, <1>30, <1>31, <1>32, <1>33, <1>34, <1>35, <1>36 DEF
   Panel!Next

\* The panel is not left with unsaved settings without a question.
LEMMA PanelQuits ==
    ASSUME Panel!TypeOK, Panel!DraftNoted, Panel!Next
    PROVE  Panel!QuitAsks
<1> USE PanelNumbers DEF Panel!World, Panel!Dialogues, Panel!Kept, Panel!Still, Panel!Sound,
   Panel!Calm, Panel!Fault, Panel!Held, Panel!Refuted, Panel!Unasked, Panel!Setting,
   Panel!Executing, Panel!Saving, Panel!DraftNoted, Panel!QuitAsks, Panel!TypeOK,
   Panel!FilesTypeOK
<1>1. ASSUME Panel!Load PROVE Panel!QuitAsks
    BY <1>1 DEF Panel!Load
<1>2. ASSUME Panel!Parse PROVE Panel!QuitAsks
    BY <1>2 DEF Panel!Parse
<1>3. ASSUME Panel!Open PROVE Panel!QuitAsks
    BY <1>3 DEF Panel!Open, Panel!Resume
<1>4. ASSUME Panel!Leave PROVE Panel!QuitAsks
    BY <1>4 DEF Panel!Leave
<1>5. ASSUME Panel!Broken PROVE Panel!QuitAsks
    BY <1>5 DEF Panel!Broken
<1>6. ASSUME Panel!Refresh PROVE Panel!QuitAsks
    BY <1>6 DEF Panel!Refresh, Panel!Refreshed
<1>7. ASSUME NEW t \in {0, 3, 5}, Panel!View(t) PROVE Panel!QuitAsks
    BY <1>7 DEF Panel!View, Panel!Refreshed
<1>8. ASSUME NEW d \in BOOLEAN, Panel!Navigate(d) PROVE Panel!QuitAsks
    BY <1>8 DEF Panel!Navigate
<1>9. ASSUME NEW d \in BOOLEAN, Panel!AskCommand(d) PROVE Panel!QuitAsks
    BY <1>9 DEF Panel!AskCommand, Panel!Asks
<1>10. ASSUME Panel!AskBrowser PROVE Panel!QuitAsks
    BY <1>10 DEF Panel!AskBrowser, Panel!AskCommand, Panel!Asks
<1>11. ASSUME Panel!AskQuit PROVE Panel!QuitAsks
    BY <1>11 DEF Panel!AskQuit, Panel!Asks
<1>12. ASSUME Panel!DryRun PROVE Panel!QuitAsks
    BY <1>12 DEF Panel!DryRun
<1>13. ASSUME Panel!Toggle PROVE Panel!QuitAsks
    BY <1>13 DEF Panel!Toggle
<1>14. ASSUME Panel!EditHook PROVE Panel!QuitAsks
    BY <1>14 DEF Panel!EditHook
<1>15. ASSUME Panel!EditBrowser PROVE Panel!QuitAsks
    BY <1>15 DEF Panel!EditBrowser, Panel!Asking
<1>16. ASSUME Panel!AddBrowser PROVE Panel!QuitAsks
    BY <1>16 DEF Panel!AddBrowser, Panel!Asking
<1>17. ASSUME Panel!AskRemove PROVE Panel!QuitAsks
    BY <1>17 DEF Panel!AskRemove, Panel!Asks
<1>18. ASSUME Panel!Goes("R", "reload") PROVE Panel!QuitAsks
    BY <1>18 DEF Panel!Goes
<1>19. ASSUME Panel!Goes("s", "compare") PROVE Panel!QuitAsks
    BY <1>19 DEF Panel!Goes
<1>20. ASSUME Panel!Type PROVE Panel!QuitAsks
    BY <1>20 DEF Panel!Type
<1>21. ASSUME Panel!Cancel PROVE Panel!QuitAsks
    BY <1>21 DEF Panel!Cancel
<1>22. ASSUME Panel!AcceptHook PROVE Panel!QuitAsks
    BY <1>22 DEF Panel!AcceptHook, Panel!Dialog
<1>23. ASSUME Panel!AcceptBrowser PROVE Panel!QuitAsks
    BY <1>23 DEF Panel!AcceptBrowser, Panel!Dialog, Panel!Asking, Panel!Store
<1>24. ASSUME Panel!Decline PROVE Panel!QuitAsks
    BY <1>24 DEF Panel!Decline
<1>25. ASSUME Panel!ConfirmQuit PROVE Panel!QuitAsks
    BY <1>25 DEF Panel!ConfirmQuit, Panel!Confirms
<1>26. ASSUME Panel!ConfirmRemove PROVE Panel!QuitAsks
    BY <1>26 DEF Panel!ConfirmRemove, Panel!Confirms
<1>27. ASSUME Panel!ConfirmCommand PROVE Panel!QuitAsks
    BY <1>27 DEF Panel!ConfirmCommand, Panel!Confirms
<1>28. ASSUME Panel!Suspend PROVE Panel!QuitAsks
    BY <1>28 DEF Panel!Suspend
<1>29. ASSUME Panel!Child PROVE Panel!QuitAsks
    BY <1>29 DEF Panel!Child
<1>30. ASSUME Panel!ResumePanel PROVE Panel!QuitAsks
    BY <1>30 DEF Panel!ResumePanel, Panel!Resume
<1>31. ASSUME Panel!Finish PROVE Panel!QuitAsks
    BY <1>31 DEF Panel!Finish, Panel!Refreshed
<1>32. ASSUME Panel!Compare PROVE Panel!QuitAsks
    BY <1>32 DEF Panel!Compare
<1>33. ASSUME Panel!Recheck PROVE Panel!QuitAsks
    BY <1>33 DEF Panel!Recheck
<1>34. ASSUME Panel!Persist PROVE Panel!QuitAsks
    BY <1>34 DEF Panel!Persist
<1>35. ASSUME Panel!EditFile PROVE Panel!QuitAsks
    BY <1>35 DEF Panel!EditFile, Panel!Elsewhere
<1>36. ASSUME Panel!Install PROVE Panel!QuitAsks
    BY <1>36 DEF Panel!Install, Panel!Elsewhere
<1> QED BY <1>1, <1>2, <1>3, <1>4, <1>5, <1>6, <1>7, <1>8, <1>9, <1>10, <1>11, <1>12, <1>13,
   <1>14, <1>15, <1>16, <1>17, <1>18, <1>19, <1>20, <1>21, <1>22, <1>23, <1>24, <1>25,
   <1>26, <1>27, <1>28, <1>29, <1>30, <1>31, <1>32, <1>33, <1>34, <1>35, <1>36 DEF
   Panel!Next

LEMMA PanelInit == ASSUME Panel!Init PROVE Panel!IInv
<1> USE PanelNumbers DEF Panel!Init
<1>1. Panel!Default \in Panel!Config /\ Panel!Default.browsers = <<>>
    <2>1. Preferences # {}
        BY DEF Panel!Config
    <2>2. <<>> \in Panel!SeqOf(Customs, MostCustoms)
        BY PanelEmpty
    <2> QED BY <2>1, <2>2 DEF Panel!Config, Panel!Default
<1>2. Panel!FilesTypeOK
    <2>1. x5 \in BOOLEAN /\ x17 \in BOOLEAN
        BY Zenon
    <2>2. /\ x1 \in Panel!Config /\ x2 \in Panel!Config /\ x3 = None /\ x4 \in Panel!Config /\ x16 \in Panel!Config
          /\ x14 \in 0..PanelFaults /\ x15 \in 0..FileEdits
        BY <1>1
    <2> QED BY <2>1, <2>2 DEF Panel!FilesTypeOK
<1>3. Panel!PanelTypeOK
    BY DEF Panel!PanelTypeOK
<1>4. Panel!DialoguesTypeOK
    BY DEF Panel!DialoguesTypeOK
<1>5. Panel!IndexesHold
    BY <1>1 DEF Panel!IndexesHold, Panel!SETTINGS, Panel!LastOf
<1>6. Panel!BytesRead /\ Panel!DraftNoted /\ Panel!OneQuestion /\ Panel!RawKnown /\ Panel!TerminalRestored /\ Panel!EditNoted
    BY DEF Panel!BytesRead, Panel!DraftNoted, Panel!OneQuestion, Panel!RawKnown, Panel!TerminalRestored, Panel!EditNoted
<1> QED BY <1>2, <1>3, <1>4, <1>5, <1>6 DEF Panel!IInv, Panel!TypeOK

LEMMA PanelStep == ASSUME Panel!IInv, Panel!Next PROVE Panel!IInv'
<1>1. Panel!TypeOK'
    BY PanelFiles, PanelScreen, PanelDialogues DEF Panel!TypeOK, Panel!IInv
<1> QED BY <1>1, PanelBytes, PanelNoted, PanelQuestion, PanelRaw, PanelTerminal, PanelEdit, PanelIndexes DEF Panel!IInv

MenusInv == (sys = "tray" => Menu!IInv) /\ (sys = "panel" => Panel!IInv)

\* What the tray and the panel know holds in every state.
LEMMA MenusInductive == ServingSpec => []MenusInv
<1>1. ServingInit => MenusInv
    BY MenuInit, PanelInit DEF ServingInit, MenusInv
<1>2. ASSUME MenusInv, [ServingNext]_<<sys, vars, xs>> PROVE MenusInv'
    <2>1. CASE UNCHANGED <<sys, vars, xs>>
        <3>1. sys = "tray" => Menu!IInv'
            BY <1>2, <2>1 DEF MenusInv, xs, Menu!IInv, Menu!TypeOK, Menu!FlowRight, Menu!ToastTrue,
               Menu!UpdateCoversInstalled, Menu!Served, Menu!Installed, Menu!Fresh
        <3>2. sys = "panel" => Panel!IInv'
            BY <1>2, <2>1 DEF MenusInv, xs, Panel!IInv, Panel!TypeOK, Panel!FilesTypeOK, Panel!PanelTypeOK,
               Panel!DialoguesTypeOK, Panel!BytesRead, Panel!DraftNoted, Panel!IndexesHold, Panel!OneQuestion,
               Panel!RawKnown, Panel!TerminalRestored, Panel!EditNoted
        <3>3. sys' = sys
            BY <2>1
        <3> QED BY <3>1, <3>2, <3>3 DEF MenusInv
    <2>2. CASE ServingNext
        BY <1>2, <2>2, MenuStep, PanelStep DEF MenusInv, ServingNext
    <2> QED BY <1>2, <2>1, <2>2
<1> QED BY <1>1, <1>2, PTL DEF ServingSpec

\* What the tray tells of a patch flow is true of every browser it is about that it does not
\* name as failed and nobody else has changed, and after an update of every browser there is;
\* in the panel what differs is marked as to be saved, no index is out of bounds, and the
\* terminal is given back.
THEOREM MenusAreHonest == ServingSpec => []MenusHonest
<1>1. MenusInv => MenusHonest
    <2>1. Panel!IInv => Panel!DirtyTrue
        BY DEF Panel!IInv, Panel!DraftNoted, Panel!DirtyTrue
    <2> QED BY <2>1 DEF MenusInv, MenusHonest, Menu!IInv, Panel!IInv
<1> QED BY <1>1, MenusInductive, PTL

-----------------------------------------------------------------------------
(* The steps of all of them.                                                *)

Whole ==
    /\ sys = "registration" => Systemd!Registered /\ Systemd!RolledBack
    /\ sys = "agent" => LaunchAgent!RegisterWhole
    /\ sys = "probe" => Eme!StrangersEndNothing
    /\ sys = "panel" => Panel!SaveKeepsOthers /\ Panel!QuitAsks

\* A registration or its removal is done, or taken back; a request of a stranger ends no
\* probe; and the panel saves over nobody's edit and drops none of the user's without asking.
THEOREM StepsAreRight == ServingSpec => StepsRight
<1>1. ASSUME AgentInv, RegistrationInv, MenusInv, ServingNext PROVE Whole
    <2>1. CASE sys = "registration"
        <3>1. Systemd!Next /\ Systemd!IInv
            BY <1>1, <2>1 DEF ServingNext, RegistrationInv
        <3>2. Systemd!Registered /\ Systemd!RolledBack
            BY <3>1, SystemdRegistered, SystemdRolledBack DEF Systemd!IInv
        <3> QED BY <2>1, <3>2 DEF Whole
    <2>2. CASE sys = "agent"
        <3>1. LaunchAgent!Next /\ LaunchAgent!IInv
            BY <1>1, <2>2 DEF ServingNext, AgentInv
        <3>2. LaunchAgent!RegisterWhole
            BY <3>1, AgentWhole DEF LaunchAgent!IInv
        <3> QED BY <2>2, <3>2 DEF Whole
    <2>3. CASE sys = "probe"
        <3>1. Eme!Next
            BY <1>1, <2>3 DEF ServingNext
        <3> QED BY <2>3, <3>1, EmeStrangers DEF Whole
    <2>4. CASE sys = "panel"
        <3>1. Panel!Next /\ Panel!IInv
            BY <1>1, <2>4 DEF ServingNext, MenusInv
        <3>2. Panel!SaveKeepsOthers /\ Panel!QuitAsks
            BY <3>1, PanelSaves, PanelQuits DEF Panel!IInv
        <3> QED BY <2>4, <3>2 DEF Whole
    <2>5. CASE sys \notin {"registration", "agent", "probe", "panel"}
        BY <2>5 DEF Whole
    <2> QED BY <2>1, <2>2, <2>3, <2>4, <2>5
<1>2. AgentInv /\ RegistrationInv /\ MenusInv /\ [ServingNext]_<<sys, vars, xs>> => [Whole]_<<sys, vars, xs>>
    BY <1>1
<1> QED BY <1>2, RegistrationsInductive, MenusInductive, PTL DEF ServingSpec, StepsRight, Whole
=============================================================================
