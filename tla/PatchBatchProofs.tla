--------------------------- MODULE PatchBatchProofs ---------------------------
(***************************************************************************)
(* For any number of batches, of browsers and of interferences from        *)
(* outside: the variables stay in their types, nothing is changed without  *)
(* leave, and what is reported of a browser is so.                         *)
(***************************************************************************)
EXTENDS PatchBatch, FiniteSetTheorems, WellFoundedInduction, TLAPS

Place == Locked \cup {"start", "resolve", "lock", "post", "done"}

\* The types, without the history.
CoreType ==
    /\ mode \in {"transactional", "legacy"}
    /\ option \in [Flow -> Option]
    /\ selected \in [Flow -> SUBSET Browser] /\ writable \in SUBSET Browser
    /\ live \in [Browser -> Content] /\ running \in SUBSET Browser
    /\ inode \in [Browser -> Nat]
    /\ lockfile \in 1..(outside + 1)
    /\ opened \in [Flow -> 0..(MaxOutside + 1)] /\ held \in [Flow -> 0..(MaxOutside + 1)]
    /\ pc \in [Flow -> Place]
    /\ turn \in [Flow -> 1..Done]
    /\ seen \in [Flow -> SUBSET Browser]
    /\ granted \in [Flow -> Content \X Nat]
    /\ snapshot \in [Flow -> Content \cup {Nothing, "partial"}]
    /\ report \in [Flow -> [Browser -> Report]]
    /\ posted \in [Flow -> [Browser -> 0..1]]
    /\ outside \in 0..MaxOutside /\ failures \in 0..MaxFailures

HistoryType ==
    history \in [before : [Flow -> Content], touched : [Flow -> BOOLEAN],
                 closed : [Flow -> BOOLEAN]]

\* Under the lock it is the turn of a browser the batch is to patch; before, of none.
InTurn ==
    \A f \in Flow :
        /\ pc[f] \in Locked => turn[f] \in selected[f]
        /\ pc[f] \in {"start", "resolve", "lock"} => turn[f] = Done
        /\ pc[f] = "lock" => selected[f] # {}

\* Copies are made for the legacy patchers only, and half of one is never written back.
Legacy ==
    \A f \in Flow :
        /\ pc[f] \in {"snapshot", "finalize", "restore"} => mode = "legacy"
        /\ snapshot[f] = "partial" =>
             mode = "legacy" /\ pc[f] \notin {"write", "finalize", "restore"}

TypeInv == CoreType /\ HistoryType /\ InTurn /\ Legacy

(***************************************************************************)
(* Lemmas.                                                                 *)
(***************************************************************************)

\* Browsers are the numbers below Done.
LEMMA BrowserRange == Browser = 1..(Done - 1) /\ Done \in Nat /\ Done > 1 /\ Done \notin Browser
  BY ConstantsAssumption DEF Done

\* There is a next turn: the first browser that is left, or the end of the batch.
LEMMA NextTurnType ==
  ASSUME NEW f \in Flow, NEW b \in 1..Done, selected[f] \subseteq Browser
  PROVE /\ NextTurn(f, b) \in b..Done
        /\ NextTurn(f, b) = Done \/ NextTurn(f, b) \in selected[f]
        /\ \A k \in b..(NextTurn(f, b) - 1) : k \notin selected[f]
<1> DEFINE T == {n \in b..Done : n = Done \/ n \in selected[f]}
           Below == {b..(n - 1) : n \in T}
           R == StrictSubsetOrdering(Nat)
<1>1. T \subseteq Nat /\ Done \in T
  BY BrowserRange
<1>2. Below \subseteq FiniteSubsetsOf(Nat) /\ Below # {}
  <2>1. \A n \in T : n - 1 \in Int /\ b \in Int
    BY <1>1, BrowserRange
  <2>2. \A n \in T : IsFiniteSet(b..(n - 1)) /\ b..(n - 1) \subseteq Nat
    BY <2>1, FS_Interval, BrowserRange
  <2> QED
    BY <1>1, <2>2 DEF FiniteSubsetsOf
<1>3. PICK least \in Below : \A B \in Below : ~ (<<B, least>> \in R)
  BY <1>2, FS_StrictSubsetOrderingWellFounded, WFMin
<1>4. PICK x \in T : least = b..(x - 1)
  BY <1>3
<1>5. \A y \in T : ~ (y < x)
  <2> SUFFICES ASSUME NEW y \in T, y < x PROVE FALSE
    OBVIOUS
  <2>1. /\ b..(y - 1) \in Below /\ b..(y - 1) \subseteq b..(x - 1)
        /\ y \in b..(x - 1) /\ y \notin b..(y - 1)
        /\ b..(y - 1) \subseteq Nat /\ b..(x - 1) \subseteq Nat
    BY <1>1, BrowserRange
  <2> QED
    BY <1>3, <1>4, <2>1 DEF StrictSubsetOrdering
<1>6. \A k \in b..(x - 1) : k \notin selected[f]
  BY <1>1, <1>5, BrowserRange
<1> QED
  BY <1>6 DEF NextTurn

\* What a report does to the flow (run_batch_with_processes, src/src/patch/mod.rs).
LEMMA ReportsEffect ==
  ASSUME TypeInv, NEW f \in Flow, NEW r \in Report, turn[f] \in Browser, Reports(f, r)
  PROVE /\ pc' \in [Flow -> Place] /\ turn' \in [Flow -> 1..Done]
        /\ held' \in [Flow -> 0..(MaxOutside + 1)] /\ report' \in [Flow -> [Browser -> Report]]
        /\ pc'[f] \in {"capture", "post"} /\ turn'[f] # turn[f]
        /\ pc'[f] = "capture" => turn'[f] \in selected[f]
        /\ held'[f] \in {held[f], 0} /\ (pc'[f] = "capture" => held'[f] = held[f])
        /\ report'[f] = [report[f] EXCEPT ![turn[f]] = r]
        /\ \A g \in Flow \ {f} : /\ pc'[g] = pc[g] /\ turn'[g] = turn[g] /\ held'[g] = held[g]
                                 /\ report'[g] = report[g]
        /\ UNCHANGED <<opened, granted, posted>>
<1> DEFINE n == NextTurn(f, turn[f] + 1)
<1>1. turn[f] + 1 \in 1..Done /\ selected[f] \subseteq Browser
  BY BrowserRange DEF TypeInv, CoreType
<1>2. n \in (turn[f] + 1)..Done /\ (n = Done \/ n \in selected[f])
  BY <1>1, NextTurnType
<1>3. n \in 1..Done /\ n # turn[f]
  BY <1>2, BrowserRange
<1> HIDE DEF n
<1>4. /\ turn' = [turn EXCEPT ![f] = n]
      /\ pc' = [pc EXCEPT ![f] = IF n = Done THEN "post" ELSE "capture"]
      /\ held' = IF n = Done THEN [held EXCEPT ![f] = 0] ELSE held
      /\ report' = [report EXCEPT ![f][turn[f]] = r]
      /\ UNCHANGED <<opened, granted, posted>>
  BY DEF Reports, Turn, Goto, n
<1>5. pc' \in [Flow -> Place] /\ turn' \in [Flow -> 1..Done]
  BY <1>3, <1>4 DEF TypeInv, CoreType, Place, Locked
<1>6. /\ held' \in [Flow -> 0..(MaxOutside + 1)] /\ held'[f] \in {held[f], 0}
      /\ pc'[f] = "capture" => held'[f] = held[f]
  BY <1>4, ConstantsAssumption DEF TypeInv, CoreType
<1>7. report' \in [Flow -> [Browser -> Report]]
  BY <1>4 DEF TypeInv, CoreType
<1>8. /\ pc'[f] \in {"capture", "post"} /\ turn'[f] # turn[f]
      /\ pc'[f] = "capture" => turn'[f] \in selected[f]
      /\ report'[f] = [report[f] EXCEPT ![turn[f]] = r]
      /\ \A g \in Flow \ {f} : /\ pc'[g] = pc[g] /\ turn'[g] = turn[g] /\ held'[g] = held[g]
                               /\ report'[g] = report[g]
  BY <1>2, <1>3, <1>4 DEF TypeInv, CoreType
<1> QED
  BY <1>4, <1>5, <1>6, <1>7, <1>8

(***************************************************************************)
(* What a step of a flow touches.                                          *)
(***************************************************************************)

\* A flow that is left alone.
Same(g) ==
    /\ pc'[g] = pc[g] /\ turn'[g] = turn[g] /\ opened'[g] = opened[g] /\ held'[g] = held[g]
    /\ seen'[g] = seen[g] /\ granted'[g] = granted[g] /\ snapshot'[g] = snapshot[g]
    /\ report'[g] = report[g]

\* A directory that is written to is torn or managed, or another one.
Dirs ==
    \A b \in Browser :
        \/ inode'[b] = inode[b] /\ (live'[b] = live[b] \/ live'[b] \in {"torn", "managed"})
        \/ inode'[b] > inode[b]

Effect(f) ==
    /\ CoreType'
    /\ \A g \in Flow \ {f} : Same(g)
    /\ pc'[f] \in Locked => turn'[f] \in selected[f]
    /\ pc'[f] \in {"start", "resolve", "lock"} => turn'[f] = Done
    /\ pc'[f] = "lock" => selected'[f] # {}
    /\ UNCHANGED <<mode, option, selected, writable, running, lockfile, outside>>
    /\ Dirs

\* A step of which the turn and the lock are not part, and that reports nothing.
LEMMA StaysEffect ==
  ASSUME TypeInv, NEW f \in Flow, NEW there \in Place, Goto(f, there),
         pc[f] \in Locked /\ there \in Locked,
         UNCHANGED <<mode, option, selected, writable, running, lockfile, outside>>,
         UNCHANGED <<turn, held, opened, report, posted>>,
         failures' \in 0..MaxFailures,
         live' \in [Browser -> Content], inode' \in [Browser -> Nat], Dirs,
         seen' \in [Flow -> SUBSET Browser], granted' \in [Flow -> Content \X Nat],
         snapshot' \in [Flow -> Content \cup {Nothing, "partial"}],
         \A g \in Flow \ {f} : seen'[g] = seen[g] /\ granted'[g] = granted[g] /\ snapshot'[g] = snapshot[g]
  PROVE Effect(f)
<1>1. /\ pc' \in [Flow -> Place] /\ pc'[f] = there
      /\ \A g \in Flow \ {f} : pc'[g] = pc[g]
  BY DEF TypeInv, CoreType, Goto
<1>2. CoreType'
  BY <1>1 DEF TypeInv, CoreType
<1>3. turn'[f] \in selected[f]
  BY DEF TypeInv, InTurn
<1>4. there \notin {"start", "resolve", "lock"}
  BY DEF Locked
<1> QED
  BY <1>1, <1>2, <1>3, <1>4 DEF Effect, Same

\* A step that ends a turn.
LEMMA ReportEffect ==
  ASSUME TypeInv, NEW f \in Flow, NEW r \in Report, pc[f] \in Locked, Reports(f, r),
         UNCHANGED <<mode, option, selected, writable, running, lockfile, outside, seen>>,
         failures' \in 0..MaxFailures,
         live' \in [Browser -> Content], inode' \in [Browser -> Nat], Dirs,
         snapshot' \in [Flow -> Content \cup {Nothing, "partial"}],
         \A g \in Flow \ {f} : snapshot'[g] = snapshot[g]
  PROVE Effect(f)
<1>1. turn[f] \in Browser
  BY DEF TypeInv, InTurn, CoreType
<1>2. CoreType'
  BY <1>1, ReportsEffect DEF TypeInv, CoreType
<1>3. \A g \in Flow \ {f} : Same(g)
  BY <1>1, ReportsEffect DEF Same
<1>4. /\ pc'[f] \in Locked => turn'[f] \in selected[f]
      /\ pc'[f] \notin {"start", "resolve", "lock"}
  BY <1>1, ReportsEffect DEF Locked
<1> QED
  BY <1>2, <1>3, <1>4 DEF Effect

\* The counter of failures.
LEMMA FailuresType ==
  ASSUME CoreType, Fails \/ Works PROVE failures' \in 0..MaxFailures
  BY ConstantsAssumption DEF CoreType, Fails, Works

\* What ends a batch before it has begun (reports_for_error, src/src/patch/mod.rs).
LEMMA ReportsAllType ==
  ASSUME TypeInv, NEW f \in Flow, ReportsAll(f, "Other") \/ UNCHANGED report
  PROVE /\ report' \in [Flow -> [Browser -> Report]]
        /\ \A g \in Flow \ {f} : report'[g] = report[g]
<1>1. [b \in Browser |-> IF b \in selected[f] THEN "Other" ELSE Nothing] \in [Browser -> Report]
  BY DEF Report
<1>2. report \in [Flow -> [Browser -> Report]]
  BY DEF TypeInv, CoreType
<1> QED
  BY <1>1, <1>2 DEF ReportsAll

\* Every step of a flow has this effect.
LEMMA StepEffect == ASSUME TypeInv, NEW f \in Flow, Step(f) PROVE Effect(f)
<1>1. /\ Options /\ UNCHANGED outside
      /\ failures' \in 0..MaxFailures
      /\ UNCHANGED <<running, lockfile>>
  <2>1. CoreType
    BY DEF TypeInv
  <2>2. Fails \/ Works
    BY DEF Step, PrePatch, Resolve, Lock, Capture, Authorize, Validate, Closed, Snapshot,
           Write, Overwrite, Finalize, Restore, Escalate, Verify, PostPatch
  <2>3. Options /\ UNCHANGED outside /\ UNCHANGED <<running, lockfile>>
    BY DEF Step, PrePatch, Resolve, Lock, Capture, Authorize, Validate, Closed, Snapshot,
           Write, Overwrite, Finalize, Restore, Escalate, Verify, PostPatch, At, world
  <2> QED
    BY <2>1, <2>2, <2>3, FailuresType
<1>2. /\ mode \in {"transactional", "legacy"}
      /\ selected \in [Flow -> SUBSET Browser] /\ live \in [Browser -> Content]
      /\ running \in SUBSET Browser /\ inode \in [Browser -> Nat]
      /\ seen \in [Flow -> SUBSET Browser] /\ granted \in [Flow -> Content \X Nat]
      /\ snapshot \in [Flow -> Content \cup {Nothing, "partial"}]
      /\ pc \in [Flow -> Place] /\ turn \in [Flow -> 1..Done]
      /\ pc[f] \in Locked => turn[f] \in Browser
  BY DEF TypeInv, CoreType, InTurn
<1>3. /\ \A there \in Locked : there \in Place
      /\ {"capture", "authorize", "validate", "closed", "snapshot", "write", "child", "verify",
           "finalize", "restore"} \subseteq Locked
      /\ {"ok", "dry", "BrowserRunning", "ExternalCdm", "InvalidMarker", "StateCorrupted",
           "PermissionDenied", "Other"} \subseteq Report
  BY DEF Place, Locked, Report
<1>4. UNCHANGED <<mode, option, selected, writable>>
  BY <1>1 DEF Options
<1>5. ASSUME UNCHANGED <<live, inode>> PROVE Dirs
  BY <1>5 DEF Dirs
<1>6. CASE PrePatch(f)
  <2>1. /\ pc[f] = "start" /\ turn[f] = Done /\ UNCHANGED <<turn, held, opened, seen, granted, snapshot, posted, live, inode>>
    BY <1>6 DEF PrePatch, At, Stays, world, TypeInv, InTurn
  <2>2. /\ pc' \in [Flow -> Place] /\ \A g \in Flow \ {f} : pc'[g] = pc[g]
        /\ pc'[f] \in {"resolve", "done"}
    BY <1>2, <1>6 DEF PrePatch, Goto, Place
  <2>3. /\ report' \in [Flow -> [Browser -> Report]]
        /\ \A g \in Flow \ {f} : report'[g] = report[g]
    BY <1>6, ReportsAllType DEF PrePatch
  <2>4. CoreType'
    BY <1>1, <1>4, <2>1, <2>2, <2>3 DEF TypeInv, CoreType
  <2> QED
    BY <1>1, <1>4, <1>5, <2>1, <2>2, <2>3, <2>4 DEF Effect, Same, Locked
<1>7. CASE Resolve(f)
  <2>1. /\ pc[f] = "resolve" /\ turn[f] = Done /\ UNCHANGED <<turn, held, seen, granted, snapshot, posted, live, inode>>
    BY <1>7 DEF Resolve, At, Stays, world, TypeInv, InTurn
  <2>2. /\ pc' \in [Flow -> Place] /\ \A g \in Flow \ {f} : pc'[g] = pc[g]
        /\ pc'[f] \in {"post", "lock"} /\ (pc'[f] = "lock" => selected[f] # {})
    BY <1>2, <1>7 DEF Resolve, Goto, Place
  <2>3. /\ report' \in [Flow -> [Browser -> Report]]
        /\ \A g \in Flow \ {f} : report'[g] = report[g]
    BY <1>7, ReportsAllType DEF Resolve
  <2>4. /\ opened' \in [Flow -> 0..(MaxOutside + 1)]
        /\ \A g \in Flow \ {f} : opened'[g] = opened[g]
    <3>1. lockfile \in 0..(MaxOutside + 1)
      BY ConstantsAssumption DEF TypeInv, CoreType
    <3> QED
      BY ZenonT(30), <1>7, <3>1 DEF Resolve, TypeInv, CoreType
  <2>5. CoreType'
    BY <1>1, <1>4, <2>1, <2>2, <2>3, <2>4 DEF TypeInv, CoreType
  <2> QED
    BY <1>1, <1>4, <1>5, <2>1, <2>2, <2>3, <2>4, <2>5 DEF Effect, Same, Locked
<1>8. CASE Lock(f)
  <2> DEFINE n == NextTurn(f, 1)
  <2>1. /\ pc[f] = "lock" /\ held' = [held EXCEPT ![f] = opened[f]]
        /\ turn' = [turn EXCEPT ![f] = n] /\ pc' = [pc EXCEPT ![f] = "capture"]
        /\ UNCHANGED <<opened, seen, granted, snapshot, report, posted, live, inode>>
    BY <1>8 DEF Lock, At, Goto, world
  <2>2. 1 \in 1..Done /\ selected[f] \subseteq Browser
    BY <1>2, BrowserRange
  <2>3. n \in 1..Done
    BY <2>2, NextTurnType
  <2>4. n \in selected[f]
    <3>1. PICK b \in selected[f] : b \in 1..(Done - 1)
      BY <1>2, <2>1, BrowserRange DEF TypeInv, InTurn
    <3> QED
      BY <2>2, <2>3, <3>1, NextTurnType, BrowserRange
  <2> HIDE DEF n
  <2>5. CoreType'
    BY <1>1, <1>3, <1>4, <2>1, <2>3 DEF TypeInv, CoreType
  <2>6. /\ pc'[f] = "capture" /\ turn'[f] = n
        /\ \A g \in Flow \ {f} : Same(g)
    BY <1>2, <2>1 DEF Same, TypeInv, CoreType
  <2> QED
    BY <1>1, <1>4, <1>5, <2>1, <2>4, <2>5, <2>6 DEF Effect
<1>9. CASE Capture(f)
  <2>1. /\ pc[f] = "capture" /\ Goto(f, "authorize")
        /\ seen' = [seen EXCEPT ![f] = IF option[f].force THEN {} ELSE running]
        /\ UNCHANGED <<turn, held, opened, granted, snapshot, report, posted, live, inode>>
    BY <1>9 DEF Capture, At, Stays, world
  <2>2. /\ seen' \in [Flow -> SUBSET Browser]
        /\ \A g \in Flow \ {f} : seen'[g] = seen[g]
    BY <1>2, <2>1
  <2> QED
    BY <1>1, <1>2, <1>3, <1>4, <1>5, <2>1, <2>2, StaysEffect
<1>10. CASE Authorize(f)
  <2>1. /\ pc[f] = "authorize" /\ Goto(f, "validate")
        /\ granted' = [granted EXCEPT ![f] = <<live[turn[f]], inode[turn[f]]>>]
        /\ UNCHANGED <<turn, held, opened, seen, snapshot, report, posted, live, inode>>
    BY <1>10 DEF Authorize, At, Stays, world, Dir
  <2>2. /\ granted' \in [Flow -> Content \X Nat]
        /\ \A g \in Flow \ {f} : granted'[g] = granted[g]
    BY <1>2, <1>3, <2>1
  <2> QED
    BY <1>1, <1>2, <1>3, <1>4, <1>5, <2>1, <2>2, StaysEffect
<1>11. CASE Validate(f)
  <2>1. pc[f] = "validate" /\ UNCHANGED <<seen, snapshot, live, inode>>
    BY <1>11 DEF Validate, At, world
  <2>2. CASE Goto(f, "closed") /\ Stays /\ UNCHANGED <<opened, granted, report, posted>>
    BY <1>1, <1>2, <1>3, <1>4, <1>5, <2>1, <2>2, StaysEffect DEF Stays
  <2>3. CASE \E r \in Report : Reports(f, r)
    BY <1>1, <1>2, <1>3, <1>4, <1>5, <2>1, <2>3, ReportEffect
  <2>4. Enforce(f, granted[f][1]) \in Report
    BY <1>3 DEF Enforce
  <2> QED
    BY <1>3, <1>11, <2>2, <2>3, <2>4 DEF Validate
<1>12. CASE Closed(f)
  <2>1. pc[f] = "closed" /\ UNCHANGED <<seen, snapshot, live, inode>>
    BY <1>12 DEF Closed, At, world
  <2>2. CASE \E there \in {"child", "snapshot", "write"} :
                Goto(f, there) /\ Stays /\ UNCHANGED <<opened, granted, report, posted>>
    BY <1>1, <1>2, <1>3, <1>4, <1>5, <2>1, <2>2, StaysEffect DEF Stays
  <2>3. CASE \E r \in Report : Reports(f, r)
    BY <1>1, <1>2, <1>3, <1>4, <1>5, <2>1, <2>3, ReportEffect
  <2> QED
    BY <1>3, <1>12, <2>2, <2>3 DEF Closed
<1>13. CASE Snapshot(f)
  <2>1. pc[f] = "snapshot" /\ UNCHANGED <<seen, live, inode>>
    BY <1>13 DEF Snapshot, At, world
  <2>2. ASSUME NEW s \in Content \cup {"partial"}, snapshot' = [snapshot EXCEPT ![f] = s]
        PROVE /\ snapshot' \in [Flow -> Content \cup {Nothing, "partial"}]
              /\ \A g \in Flow \ {f} : snapshot'[g] = snapshot[g]
    BY <1>2, <2>2
  <2>3. CASE /\ Goto(f, "write") /\ snapshot' = [snapshot EXCEPT ![f] = live[turn[f]]]
             /\ Stays /\ UNCHANGED <<opened, granted, report, posted>>
    <3>1. live[turn[f]] \in Content
      BY <1>2, <1>3, <2>1
    <3> QED
      BY <1>1, <1>2, <1>3, <1>4, <1>5, <2>1, <2>2, <2>3, <3>1, StaysEffect DEF Stays
  <2>4. CASE snapshot' = [snapshot EXCEPT ![f] = "partial"] /\ Reports(f, "Other")
    BY <1>1, <1>2, <1>3, <1>4, <1>5, <2>1, <2>2, <2>4, ReportEffect
  <2> QED
    BY <1>13, <2>3, <2>4 DEF Snapshot
<1>14. CASE Write(f)
  <2>1. pc[f] = "write" /\ turn[f] \in Browser /\ UNCHANGED <<seen, snapshot>>
    BY <1>2, <1>3, <1>14 DEF Write, At
  <2>2. CASE Publishes(turn[f]) /\ \E r \in Report : Reports(f, r)
    <3>1. live' \in [Browser -> Content] /\ inode' \in [Browser -> Nat] /\ Dirs
      BY <1>2, <2>1, <2>2 DEF Dirs, Content, Publishes
    <3> QED
      BY <1>1, <1>2, <1>3, <1>4, <2>1, <2>2, <3>1, ReportEffect
  <2>3. CASE UNCHANGED <<live, inode>> /\ Reports(f, "StateCorrupted")
    BY <1>1, <1>2, <1>3, <1>4, <1>5, <2>1, <2>3, ReportEffect
  <2> QED
    BY <1>3, <1>14, <2>2, <2>3 DEF Write
<1>15. CASE Overwrite(f)
  <2>1. /\ pc[f] = "write" /\ turn[f] \in Browser
        /\ UNCHANGED <<turn, held, inode, opened, seen, granted, snapshot, report, posted>>
    BY <1>2, <1>3, <1>15 DEF Overwrite, At, Stays
  <2>2. CASE live' = [live EXCEPT ![turn[f]] = "torn"] /\ Goto(f, "finalize")
    <3>1. live' \in [Browser -> Content] /\ Dirs
      BY <1>2, <2>1, <2>2 DEF Dirs, Content
    <3> QED
      BY <1>1, <1>2, <1>3, <1>4, <2>1, <2>2, <3>1, StaysEffect
  <2>3. CASE UNCHANGED live /\ Goto(f, "restore")
    BY <1>1, <1>2, <1>3, <1>4, <1>5, <2>1, <2>3, StaysEffect
  <2> QED
    BY <1>15, <2>2, <2>3 DEF Overwrite
<1>16. CASE Finalize(f)
  <2>1. pc[f] = "finalize" /\ turn[f] \in Browser /\ UNCHANGED <<seen, inode>>
    BY <1>2, <1>3, <1>16 DEF Finalize, At
  <2>2. CASE /\ live' = [live EXCEPT ![turn[f]] = "managed"]
             /\ \/ snapshot' = [snapshot EXCEPT ![f] = Nothing] /\ Reports(f, "ok")
                \/ UNCHANGED snapshot /\ Reports(f, "Other")
    <3>1. live' \in [Browser -> Content] /\ Dirs
      BY <1>2, <2>1, <2>2 DEF Dirs, Content
    <3>2. /\ snapshot' \in [Flow -> Content \cup {Nothing, "partial"}]
          /\ \A g \in Flow \ {f} : snapshot'[g] = snapshot[g]
      BY <1>2, <2>2
    <3>3. \E r \in Report : Reports(f, r)
      BY <1>3, <2>2
    <3>4. pc[f] \in Locked /\ inode' \in [Browser -> Nat]
      BY <1>2, <1>3, <2>1
    <3> QED
      BY <1>1, <1>4, <2>1, <3>1, <3>2, <3>3, <3>4, ReportEffect
  <2>3. CASE /\ Goto(f, "restore") /\ Stays
             /\ UNCHANGED <<live, opened, granted, snapshot, report, posted>>
    BY <1>1, <1>2, <1>3, <1>4, <1>5, <2>1, <2>3, StaysEffect DEF Stays
  <2> QED
    BY <1>16, <2>2, <2>3 DEF Finalize
<1>17. CASE Restore(f)
  <2>1. pc[f] = "restore" /\ turn[f] \in Browser /\ UNCHANGED seen
    BY <1>2, <1>3, <1>17 DEF Restore, At
  <2>2. CASE /\ snapshot[f] # Nothing
             /\ live' = [live EXCEPT ![turn[f]] = snapshot[f]]
             /\ inode' = [inode EXCEPT ![turn[f]] = @ + 1]
             /\ \E left \in Content \cup {Nothing} : snapshot' = [snapshot EXCEPT ![f] = left]
             /\ \E r \in Report : Reports(f, r)
    <3>1. snapshot[f] \in Content
      BY <1>2, <2>1, <2>2 DEF TypeInv, Legacy
    <3>2. live' \in [Browser -> Content] /\ inode' \in [Browser -> Nat] /\ Dirs
      BY <1>2, <2>1, <2>2, <3>1 DEF Dirs
    <3>3. /\ snapshot' \in [Flow -> Content \cup {Nothing, "partial"}]
          /\ \A g \in Flow \ {f} : snapshot'[g] = snapshot[g]
      BY <1>2, <2>2
    <3> QED
      BY <1>1, <1>3, <1>4, <2>1, <2>2, <3>2, <3>3, ReportEffect
  <2>3. CASE UNCHANGED <<live, inode, snapshot>> /\ Reports(f, "Other")
    BY <1>1, <1>2, <1>3, <1>4, <1>5, <2>1, <2>3, ReportEffect
  <2>4. live[turn[f]] \in Content
    BY <1>2, <2>1
  <2> QED
    BY <1>3, <1>17, <2>2, <2>3, <2>4 DEF Restore
<1>18. CASE Escalate(f)
  <2>1. pc[f] = "child" /\ turn[f] \in Browser /\ UNCHANGED <<seen, snapshot>>
    BY <1>2, <1>3, <1>18 DEF Escalate, At
  <2>2. CASE Publishes(turn[f])
    <3>1. live' \in [Browser -> Content] /\ inode' \in [Browser -> Nat] /\ Dirs
      BY <1>2, <2>1, <2>2 DEF Dirs, Content, Publishes
    <3>2. CASE Goto(f, "verify") /\ Stays /\ UNCHANGED <<opened, granted, report, posted>>
      BY <1>1, <1>2, <1>3, <1>4, <2>1, <3>1, <3>2, StaysEffect DEF Stays
    <3>3. CASE Reports(f, "PermissionDenied")
      BY <1>1, <1>2, <1>3, <1>4, <2>1, <3>1, <3>3, ReportEffect
    <3> QED
      BY <1>18, <2>2, <3>2, <3>3 DEF Escalate
  <2>3. CASE UNCHANGED <<live, inode>> /\ Reports(f, "PermissionDenied")
    BY <1>1, <1>2, <1>3, <1>4, <1>5, <2>1, <2>3, ReportEffect
  <2> QED
    BY <1>18, <2>2, <2>3 DEF Escalate
<1>19. CASE Verify(f)
  <2>1. /\ pc[f] = "verify" /\ UNCHANGED <<seen, snapshot, live, inode>>
        /\ \E r \in Report : Reports(f, r)
    BY <1>3, <1>19 DEF Verify, At, world
  <2> QED
    BY <1>1, <1>2, <1>3, <1>4, <1>5, <2>1, ReportEffect
<1>20. CASE PostPatch(f)
  <2>1. /\ pc[f] = "post" /\ pc' = [pc EXCEPT ![f] = "done"]
        /\ posted' = [posted EXCEPT ![f] =
              [b \in Browser |-> IF option[f].dry \/ report[f][b] = Nothing THEN 0 ELSE 1]]
        /\ UNCHANGED <<turn, held, opened, seen, granted, snapshot, report, live, inode>>
    BY <1>20 DEF PostPatch, At, Goto, Stays, world
  <2>2. posted' \in [Flow -> [Browser -> 0..1]]
    <3>1. [b \in Browser |-> IF option[f].dry \/ report[f][b] = Nothing THEN 0 ELSE 1]
             \in [Browser -> 0..1]
      OBVIOUS
    <3> QED
      BY <2>1, <3>1 DEF TypeInv, CoreType
  <2>3. /\ pc' \in [Flow -> Place] /\ pc'[f] = "done"
        /\ \A g \in Flow \ {f} : pc'[g] = pc[g]
    BY <1>2, <2>1 DEF Place
  <2>4. CoreType'
    BY <1>1, <1>4, <2>1, <2>2, <2>3 DEF TypeInv, CoreType
  <2> QED
    BY <1>1, <1>4, <1>5, <2>1, <2>3, <2>4 DEF Effect, Same, Locked
<1> QED
  BY <1>6, <1>7, <1>8, <1>9, <1>10, <1>11, <1>12, <1>13, <1>14, <1>15, <1>16, <1>17, <1>18,
     <1>19, <1>20 DEF Step
\* A step of a flow keeps to the mode (PatchBatch::execute, patch/backup.rs).
LEMMA LegacyStep == ASSUME TypeInv, NEW f \in Flow, Step(f) PROVE Legacy'
<1> DEFINE L(g) == /\ pc[g] \in {"snapshot", "finalize", "restore"} => mode = "legacy"
                   /\ snapshot[g] = "partial" =>
                        mode = "legacy" /\ pc[g] \notin {"write", "finalize", "restore"}
<1>1. Effect(f)
  BY StepEffect
<1>2. \A g \in Flow \ {f} : L(g)'
  BY <1>1 DEF Effect, Same, TypeInv, Legacy
<1>3. /\ mode' = mode /\ mode \in {"transactional", "legacy"} /\ L(f)
      /\ pc \in [Flow -> Place] /\ snapshot \in [Flow -> Content \cup {Nothing, "partial"}]
      /\ "partial" \notin Content /\ "partial" # Nothing
      /\ live \in [Browser -> Content]
      /\ pc[f] \in Locked => turn[f] \in Browser
  BY <1>1, ConstantsAssumption DEF Effect, TypeInv, CoreType, Legacy, InTurn, Content
<1>4. ASSUME NEW there, Goto(f, there) PROVE pc'[f] = there
  BY <1>3, <1>4 DEF Goto
<1>5. ASSUME NEW r \in Report, Reports(f, r), pc[f] \in Locked PROVE pc'[f] \in {"capture", "post"}
  BY <1>3, <1>5, ReportsEffect
<1>6. {"ok", "dry", "BrowserRunning", "ExternalCdm", "InvalidMarker", "StateCorrupted",
       "PermissionDenied", "Other"} \subseteq Report
      /\ {"capture", "authorize", "validate", "closed", "snapshot", "write", "child", "verify",
          "finalize", "restore"} \subseteq Locked
  BY DEF Report, Locked
<1>7. L(f)'
  <2>1. CASE PrePatch(f)
    BY <1>3, <1>4, <2>1 DEF PrePatch
  <2>2. CASE Resolve(f)
    BY <1>3, <1>4, <2>2 DEF Resolve
  <2>3. CASE Lock(f)
    BY <1>3, <1>4, <2>3 DEF Lock
  <2>4. CASE Capture(f)
    BY <1>3, <1>4, <2>4 DEF Capture
  <2>5. CASE Authorize(f)
    BY <1>3, <1>4, <2>5 DEF Authorize
  <2>6. CASE Validate(f)
    <3>1. Enforce(f, granted[f][1]) \in Report
      BY <1>6 DEF Enforce
    <3>2. pc[f] = "validate" /\ snapshot' = snapshot
      BY <2>6 DEF Validate, At
    <3>3. pc'[f] \in {"closed", "capture", "post"}
      BY <1>4, <1>5, <1>6, <2>6, <3>1, <3>2 DEF Validate
    <3> QED
      BY <1>3, <3>2, <3>3
  <2>7. CASE Closed(f)
    <3>1. pc[f] = "closed" /\ snapshot' = snapshot
      BY <2>7 DEF Closed, At
    <3>2. \/ pc'[f] \in {"child", "capture", "post"}
          \/ pc'[f] = "snapshot" /\ mode = "legacy"
          \/ pc'[f] = "write" /\ mode # "legacy"
      <4>1. CASE \E r \in Report : Reports(f, r)
        <5>1. pc[f] \in Locked
          BY <1>6, <3>1
        <5> QED
          BY <1>5, <4>1, <5>1
      <4>2. CASE Goto(f, IF turn[f] \notin writable THEN "child"
                         ELSE IF mode = "legacy" THEN "snapshot" ELSE "write")
        BY <1>3, <4>2 DEF Goto
      <4> QED
        BY <1>6, <2>7, <4>1, <4>2 DEF Closed
    <3> QED
      BY <1>3, <3>1, <3>2
  <2>8. CASE Snapshot(f)
    <3>1. pc[f] = "snapshot" /\ pc[f] \in Locked /\ turn[f] \in Browser /\ mode = "legacy"
      BY <1>3, <1>6, <2>8 DEF Snapshot, At
    <3>2. CASE Goto(f, "write") /\ snapshot' = [snapshot EXCEPT ![f] = live[turn[f]]]
      <4>1. snapshot'[f] = live[turn[f]] /\ live[turn[f]] \in Content /\ pc'[f] = "write"
        BY <1>3, <1>4, <3>1, <3>2
      <4> QED
        BY <1>3, <3>1, <4>1
    <3>3. CASE Reports(f, "Other")
      BY <1>3, <1>5, <1>6, <3>1, <3>3
    <3> QED
      BY <2>8, <3>2, <3>3 DEF Snapshot
  <2>9. CASE Write(f)
    <3>1. pc[f] = "write" /\ snapshot' = snapshot
      BY <2>9 DEF Write, At
    <3>2. pc'[f] \in {"capture", "post"}
      BY <1>5, <1>6, <2>9, <3>1 DEF Write
    <3> QED
      BY <1>3, <3>1, <3>2
  <2>10. CASE Overwrite(f)
    <3>1. pc[f] = "write" /\ mode = "legacy" /\ snapshot' = snapshot
      BY <2>10 DEF Overwrite, At
    <3> QED
      BY <1>3, <3>1
  <2>11. CASE Finalize(f)
    <3>1. pc[f] = "finalize" /\ mode = "legacy" /\ snapshot[f] # "partial"
      BY <1>3, <2>11 DEF Finalize, At
    <3>2. \/ snapshot'[f] = snapshot[f]
          \/ snapshot'[f] = Nothing /\ pc'[f] \in {"capture", "post"}
      <4>1. CASE /\ snapshot' = [snapshot EXCEPT ![f] = Nothing] /\ Reports(f, "ok")
        <5>1. snapshot'[f] = Nothing
          BY <1>3, <4>1
        <5>2. pc[f] \in Locked /\ "ok" \in Report
          BY <1>6, <3>1
        <5>3. pc'[f] \in {"capture", "post"}
          BY <1>5, <4>1, <5>2
        <5> QED
          BY <5>1, <5>3
      <4>2. CASE UNCHANGED snapshot
        BY <4>2
      <4> QED
        BY <2>11, <4>1, <4>2 DEF Finalize
    <3> QED
      BY <1>3, <3>1, <3>2
  <2>12. CASE Restore(f)
    <3>1. pc[f] = "restore" /\ mode = "legacy"
      BY <1>3, <2>12 DEF Restore, At
    <3>2. pc'[f] \in {"capture", "post"}
      BY <1>5, <1>6, <2>12, <3>1 DEF Restore
    <3> QED
      BY <1>3, <3>1, <3>2
  <2>13. CASE Escalate(f)
    <3>1. pc[f] = "child" /\ snapshot' = snapshot
      BY <2>13 DEF Escalate, At
    <3>2. pc'[f] \in {"verify", "capture", "post"}
      BY <1>4, <1>5, <1>6, <2>13, <3>1 DEF Escalate
    <3> QED
      BY <1>3, <3>1, <3>2
  <2>14. CASE Verify(f)
    <3>1. pc[f] = "verify" /\ snapshot' = snapshot
      BY <2>14 DEF Verify, At
    <3>2. pc'[f] \in {"capture", "post"}
      BY <1>5, <1>6, <2>14, <3>1 DEF Verify
    <3> QED
      BY <1>3, <3>1, <3>2
  <2>15. CASE PostPatch(f)
    BY <1>3, <1>4, <2>15 DEF PostPatch
  <2> QED
    BY <2>1, <2>2, <2>3, <2>4, <2>5, <2>6, <2>7, <2>8, <2>9, <2>10, <2>11, <2>12, <2>13,
       <2>14, <2>15 DEF Step
<1> QED
  BY <1>2, <1>7 DEF Legacy

-----------------------------------------------------------------------------
(***************************************************************************)
(* The types.                                                              *)
(***************************************************************************)

\* What goes on meanwhile leaves the flows where they stand.
Outside == (\E b \in Browser : StartOrQuit(b) \/ Replace(b)) \/ Uninstall

LEMMA OutsideEffect ==
  ASSUME TypeInv, Outside
  PROVE /\ CoreType'
        /\ UNCHANGED <<mode, option, selected, writable, failures>>
        /\ UNCHANGED <<pc, turn, opened, held, seen, granted, report, posted>>
        /\ snapshot' \in {snapshot, [f \in Flow |-> Nothing]}
        /\ lockfile' = lockfile \/ lockfile' = lockfile + 1
        /\ Dirs
<1>1. Meanwhile
  BY DEF Outside, StartOrQuit, Replace, Uninstall
<1>2. /\ UNCHANGED <<mode, option, selected, writable, failures>>
      /\ UNCHANGED <<pc, turn, opened, held, seen, granted, report, posted>>
      /\ outside < MaxOutside /\ outside' = outside + 1
  BY <1>1 DEF Meanwhile, Options, Works
<1>3. /\ live \in [Browser -> Content] /\ inode \in [Browser -> Nat]
      /\ running \in SUBSET Browser /\ lockfile \in 1..(outside + 1)
      /\ outside \in 0..MaxOutside /\ MaxOutside \in Nat
      /\ snapshot \in [Flow -> Content \cup {Nothing, "partial"}]
  BY ConstantsAssumption DEF TypeInv, CoreType
<1>4. outside' \in 0..MaxOutside /\ lockfile \in 1..(outside' + 1) /\ lockfile + 1 \in 1..(outside' + 1)
  BY <1>2, <1>3
<1>5. ASSUME running' \in SUBSET Browser, live' \in [Browser -> Content], inode' \in [Browser -> Nat],
             snapshot' \in [Flow -> Content \cup {Nothing, "partial"}], lockfile' \in 1..(outside' + 1)
      PROVE CoreType'
  BY <1>2, <1>4, <1>5 DEF TypeInv, CoreType
<1>6. CASE \E b \in Browser : StartOrQuit(b)
  <2>1. UNCHANGED <<live, inode, lockfile, snapshot>> /\ running' \in SUBSET Browser
    BY <1>3, <1>6 DEF StartOrQuit
  <2>2. Dirs
    BY <2>1 DEF Dirs
  <2> QED
    BY <1>2, <1>3, <1>4, <1>5, <2>1, <2>2
<1>7. CASE \E b \in Browser : Replace(b)
  <2>1. PICK b \in Browser, c \in Content : /\ live' = [live EXCEPT ![b] = c]
                                          /\ inode' = [inode EXCEPT ![b] = @ + 1]
                                          /\ UNCHANGED <<running, lockfile, snapshot>>
    BY <1>7 DEF Replace
  <2>2. live' \in [Browser -> Content] /\ inode' \in [Browser -> Nat] /\ Dirs
    BY <1>3, <2>1 DEF Dirs
  <2> QED
    BY <1>2, <1>3, <1>4, <1>5, <2>1, <2>2
<1>8. CASE Uninstall
  <2>1. /\ UNCHANGED <<live, inode, running>> /\ lockfile' = lockfile + 1
        /\ snapshot' \in {snapshot, [f \in Flow |-> Nothing]}
    BY <1>8 DEF Uninstall
  <2>2. snapshot' \in [Flow -> Content \cup {Nothing, "partial"}] /\ Dirs
    BY <1>3, <2>1 DEF Dirs
  <2> QED
    BY <1>2, <1>3, <1>4, <1>5, <2>1, <2>2
<1> QED
  BY <1>6, <1>7, <1>8 DEF Outside

\* A step is one of a flow, or goes on outside.
LEMMA StepOrOutside ==
  ASSUME Next
  PROVE (\E f \in Flow : Step(f) /\ Remember(f)) \/ (Outside /\ Remember(Nothing))
  BY DEF Next, Outside

\* What is remembered of a turn has its type.
LEMMA RememberType ==
  ASSUME TypeInv, CoreType', NEW f, Remember(f) PROVE HistoryType'
<1> DEFINE begins(g) == turn'[g] \in Browser /\ turn'[g] # turn[g]
           b(g) == turn[g]
           Before == [g \in Flow |-> IF begins(g) THEN live'[turn'[g]] ELSE history.before[g]]
           Touched == [g \in Flow |-> ~begins(g) /\
               \/ history.touched[g]
               \/ /\ f = Nothing \/ (mode = "legacy" /\ g # f)
                  /\ b(g) \in Browser /\ <<live'[b(g)], inode'[b(g)]>> # Dir(b(g))]
           Closing == [g \in Flow |-> IF begins(g) THEN turn'[g] \notin running'
                                     ELSE history.closed[g] \/ turn[g] \notin running']
<1>1. history' = [before |-> Before, touched |-> Touched, closed |-> Closing]
  BY DEF Remember
<1>2. /\ history.before \in [Flow -> Content] /\ history.touched \in [Flow -> BOOLEAN]
      /\ history.closed \in [Flow -> BOOLEAN] /\ live' \in [Browser -> Content]
  BY DEF TypeInv, HistoryType, CoreType
<1>3. Before \in [Flow -> Content]
  BY <1>2
<1>4. Touched \in [Flow -> BOOLEAN]
  <2>1. \A g \in Flow : Touched[g] \in BOOLEAN
    BY ZenonT(30)
  <2> QED
    BY <2>1, Zenon
<1>5. Closing \in [Flow -> BOOLEAN]
  <2>1. \A g \in Flow : (turn'[g] \notin running') \in BOOLEAN
                     /\ (history.closed[g] \/ turn[g] \notin running') \in BOOLEAN
    BY ZenonT(30)
  <2> QED
    BY <2>1, Zenon
<1> HIDE DEF Before, Touched, Closing
<1> QED
  BY <1>1, <1>3, <1>4, <1>5 DEF HistoryType

LEMMA TypeInit == Init => TypeInv
<1> SUFFICES ASSUME Init PROVE TypeInv
  OBVIOUS
<1>1. PICK batch \in Batches : /\ option = [f \in Flow |-> batch[f].option]
                              /\ selected = [f \in Flow |-> batch[f].selected]
  BY DEF Init
<1>2. option \in [Flow -> Option] /\ selected \in [Flow -> SUBSET Browser]
  BY <1>1, ConstantsAssumption
<1>3. lockfile \in 1..(outside + 1) /\ outside \in 0..MaxOutside /\ failures \in 0..MaxFailures
  BY ConstantsAssumption DEF Init
<1>4. live \in [Browser -> Content] /\ running \in SUBSET Browser /\ inode \in [Browser -> Nat]
  BY ConstantsAssumption, BrowserRange DEF Init
<1>5. held \in [Flow -> 0..(MaxOutside + 1)] /\ opened = held
  BY ConstantsAssumption DEF Init
<1>6. /\ pc = [f \in Flow |-> "start"] /\ pc \in [Flow -> Place]
      /\ turn = [f \in Flow |-> Done] /\ turn \in [Flow -> 1..Done]
      /\ seen \in [Flow -> SUBSET Browser] /\ granted \in [Flow -> Content \X Nat]
  BY BrowserRange DEF Init, Place, Content
<1>7. /\ snapshot = [f \in Flow |-> Nothing]
      /\ snapshot \in [Flow -> Content \cup {Nothing, "partial"}]
      /\ report \in [Flow -> [Browser -> Report]] /\ posted \in [Flow -> [Browser -> 0..1]]
      /\ mode \in {"transactional", "legacy"} /\ writable \in SUBSET Browser
  BY DEF Init, Report
<1>8. CoreType
  BY <1>2, <1>3, <1>4, <1>5, <1>6, <1>7 DEF CoreType
<1>9. HistoryType
  BY DEF Init, HistoryType, Content
<1>10. InTurn /\ Legacy
  BY <1>6, <1>7, ConstantsAssumption DEF InTurn, Legacy, Locked
<1> QED
  BY <1>8, <1>9, <1>10 DEF TypeInv

LEMMA TypeNext == TypeInv /\ [Next]_vars => TypeInv'
<1> SUFFICES ASSUME TypeInv, [Next]_vars PROVE TypeInv'
  OBVIOUS
<1>1. ASSUME NEW f \in Flow, Step(f), Remember(f) PROVE TypeInv'
  <2>1. Effect(f) /\ Legacy'
    BY <1>1, StepEffect, LegacyStep
  <2>2. CoreType' /\ HistoryType'
    BY <1>1, <2>1, RememberType DEF Effect
  <2>3. InTurn'
    <3>1. ASSUME NEW g \in Flow
          PROVE /\ pc'[g] \in Locked => turn'[g] \in selected'[g]
                /\ pc'[g] \in {"start", "resolve", "lock"} => turn'[g] = Done
                /\ pc'[g] = "lock" => selected'[g] # {}
      BY <2>1, <3>1 DEF Effect, Same, TypeInv, InTurn
    <3> QED
      BY <3>1 DEF InTurn, Done
  <2> QED
    BY <2>1, <2>2, <2>3 DEF TypeInv
<1>2. ASSUME Outside, Remember(Nothing) PROVE TypeInv'
  <2>1. CoreType' /\ HistoryType'
    BY <1>2, OutsideEffect, RememberType
  <2>2. /\ UNCHANGED <<mode, selected, pc, turn>>
        /\ snapshot' \in {snapshot, [f \in Flow |-> Nothing]}
    BY <1>2, OutsideEffect
  <2>3. InTurn'
    BY <2>2 DEF TypeInv, InTurn, Done
  <2>4. Legacy'
    BY <2>2, ConstantsAssumption DEF TypeInv, Legacy
  <2> QED
    BY <2>1, <2>3, <2>4 DEF TypeInv
<1>3. CASE UNCHANGED vars
  <2>1. CoreType' /\ HistoryType'
    BY <1>3 DEF vars, world, flowVars, TypeInv, CoreType, HistoryType
  <2>2. InTurn' /\ Legacy'
    BY <1>3 DEF vars, world, flowVars, TypeInv, InTurn, Legacy, Done
  <2> QED
    BY <2>1, <2>2 DEF TypeInv
<1> QED
  BY <1>1, <1>2, <1>3, StepOrOutside

\* The invariant of the types.
THEOREM TypeInvariant == Spec => []TypeInv
  BY TypeInit, TypeNext, PTL DEF Spec

\* In every reachable state of any number of batches and browsers, every variable of
\* the pipeline has its type.
THEOREM TypeCorrect == Spec => []TypeOK
<1>1. TypeInv => TypeOK
  <2> SUFFICES ASSUME TypeInv PROVE TypeOK
    OBVIOUS
  <2>1. lockfile \in 1..(MaxOutside + 1)
    BY ConstantsAssumption DEF TypeInv, CoreType
  <2> QED
    BY <2>1 DEF TypeInv, CoreType, HistoryType, TypeOK, Place
<1> QED
  BY <1>1, TypeInvariant, PTL

-----------------------------------------------------------------------------
(***************************************************************************)
(* The lock.                                                               *)
(***************************************************************************)

\* The locks are on files that the path has named, a waiting flow has opened one,
\* one in its locked part holds one, and no two flows hold the same.
LockInv ==
    /\ \A f \in Flow : opened[f] =< lockfile /\ held[f] =< lockfile
    /\ \A f \in Flow : pc[f] = "lock" => opened[f] >= 1
    /\ \A f \in Flow : pc[f] \in Locked => held[f] # 0
    /\ \A f, g \in Flow : f # g /\ held[f] # 0 => held[f] # held[g]

LEMMA LockStep == ASSUME TypeInv, LockInv, NEW f \in Flow, Step(f) PROVE LockInv'
<1>1. Effect(f)
  BY StepEffect
<1>2. /\ lockfile' = lockfile /\ lockfile \in Nat
      /\ opened \in [Flow -> Nat] /\ held \in [Flow -> Nat]
      /\ pc \in [Flow -> Place]
      /\ \A g \in Flow \ {f} : pc'[g] = pc[g] /\ opened'[g] = opened[g] /\ held'[g] = held[g]
  BY <1>1, ConstantsAssumption DEF Effect, Same, TypeInv, CoreType
<1>3. ASSUME opened'[f] \in 0..lockfile, held'[f] \in 0..lockfile,
             pc'[f] = "lock" => opened'[f] >= 1,
             pc'[f] \in Locked => held'[f] # 0,
             \A g \in Flow \ {f} : held'[f] # 0 => held'[f] # held[g]
      PROVE LockInv'
  BY <1>2, <1>3 DEF LockInv
<1>4. /\ opened[f] \in 0..lockfile /\ held[f] \in 0..lockfile
      /\ \A g \in Flow \ {f} : held[f] # 0 => held[f] # held[g]
      /\ pc[f] \in Locked => held[f] # 0
  BY <1>2 DEF LockInv
<1>5. CASE /\ opened' = opened /\ held'[f] \in {held[f], 0} /\ pc'[f] # "lock"
           /\ pc'[f] \in Locked => pc[f] \in Locked /\ held'[f] = held[f]
  BY <1>2, <1>3, <1>4, <1>5
<1>6. CASE Resolve(f)
  <2>1. held'[f] = held[f] /\ opened'[f] \in {opened[f], lockfile} /\ 1 \in 1..lockfile
        /\ (pc'[f] = "lock" => opened'[f] = lockfile) /\ pc'[f] \in {"post", "lock"}
    BY <1>2, <1>6 DEF Resolve, Stays, Goto, TypeInv, CoreType
  <2> QED
    BY <1>2, <1>3, <1>4, <2>1 DEF Locked
<1>7. CASE Lock(f)
  <2>1. /\ \A g \in Flow : held[g] # opened[f]
        /\ held'[f] = opened[f] /\ opened'[f] = opened[f] /\ pc'[f] = "capture"
    BY <1>2, <1>7 DEF Lock, Goto
  <2>2. opened[f] # 0
    BY <1>7 DEF Lock, At, LockInv
  <2> QED
    BY <1>3, <1>4, <2>1, <2>2
<1>8. ASSUME NEW r \in Report, Reports(f, r), pc[f] \in Locked
      PROVE /\ opened' = opened /\ held'[f] \in {held[f], 0} /\ pc'[f] # "lock"
            /\ pc'[f] \in Locked => pc[f] \in Locked /\ held'[f] = held[f]
  BY <1>8, ReportsEffect DEF TypeInv, InTurn, CoreType, Locked
<1>9. ASSUME NEW there, there # "lock", there \in Locked => pc[f] \in Locked,
             Goto(f, there), Stays, UNCHANGED opened
      PROVE /\ opened' = opened /\ held'[f] \in {held[f], 0} /\ pc'[f] # "lock"
            /\ pc'[f] \in Locked => pc[f] \in Locked /\ held'[f] = held[f]
  BY <1>2, <1>9 DEF Goto, Stays
<1>10. {"ok", "dry", "BrowserRunning", "ExternalCdm", "InvalidMarker", "StateCorrupted",
        "PermissionDenied", "Other"} \subseteq Report
       /\ {"capture", "authorize", "validate", "closed", "snapshot", "write", "child", "verify",
            "finalize", "restore"} \subseteq Locked
  BY DEF Report, Locked
<1>11. CASE PrePatch(f)
  BY <1>5, <1>9, <1>11 DEF PrePatch, Stays, Locked
<1>12. CASE Capture(f)
  BY <1>5, <1>9, <1>10, <1>12 DEF Capture, Stays, At
<1>13. CASE Authorize(f)
  BY <1>5, <1>9, <1>10, <1>13 DEF Authorize, Stays, At
<1>14. CASE Overwrite(f)
  BY <1>5, <1>9, <1>10, <1>14 DEF Overwrite, Stays, At
<1>15. CASE PostPatch(f)
  BY <1>5, <1>9, <1>15 DEF PostPatch, Stays, Locked
<1>16. CASE Validate(f)
  <2>1. pc[f] \in Locked
    BY <1>10, <1>16 DEF Validate, At
  <2>2. CASE \E r \in Report : Reports(f, r)
    BY <1>5, <1>8, <2>1, <2>2
  <2>3. CASE Goto(f, "closed") /\ Stays /\ UNCHANGED opened
    BY <1>5, <1>9, <2>1, <2>3
  <2>4. Enforce(f, granted[f][1]) \in Report
    BY <1>10 DEF Enforce
  <2> QED
    BY <1>10, <1>16, <2>2, <2>3, <2>4 DEF Validate
<1>17. CASE Closed(f)
  <2>1. pc[f] \in Locked
    BY <1>10, <1>17 DEF Closed, At
  <2>2. CASE \E r \in Report : Reports(f, r)
    BY <1>5, <1>8, <2>1, <2>2
  <2>3. CASE (\E there \in {"child", "snapshot", "write"} : Goto(f, there)) /\ Stays /\ UNCHANGED opened
    BY <1>5, <1>9, <2>1, <2>3
  <2> QED
    BY <1>10, <1>17, <2>2, <2>3 DEF Closed
<1>18. CASE Snapshot(f)
  <2>1. pc[f] \in Locked
    BY <1>10, <1>18 DEF Snapshot, At
  <2>2. CASE \E r \in Report : Reports(f, r)
    BY <1>5, <1>8, <2>1, <2>2
  <2>3. CASE Goto(f, "write") /\ Stays /\ UNCHANGED opened
    BY <1>5, <1>9, <2>1, <2>3
  <2> QED
    BY <1>10, <1>18, <2>2, <2>3 DEF Snapshot
<1>19. CASE Write(f)
  <2>1. pc[f] \in Locked
    BY <1>10, <1>19 DEF Write, At
  <2>2. CASE \E r \in Report : Reports(f, r)
    BY <1>5, <1>8, <2>1, <2>2
  <2> QED
    BY <1>10, <1>19, <2>2 DEF Write
<1>20. CASE Finalize(f)
  <2>1. pc[f] \in Locked
    BY <1>10, <1>20 DEF Finalize, At
  <2>2. CASE \E r \in Report : Reports(f, r)
    BY <1>5, <1>8, <2>1, <2>2
  <2>3. CASE Goto(f, "restore") /\ Stays /\ UNCHANGED opened
    BY <1>5, <1>9, <2>1, <2>3
  <2> QED
    BY <1>10, <1>20, <2>2, <2>3 DEF Finalize
<1>21. CASE Restore(f)
  <2>1. pc[f] \in Locked
    BY <1>10, <1>21 DEF Restore, At
  <2>2. CASE \E r \in Report : Reports(f, r)
    BY <1>5, <1>8, <2>1, <2>2
  <2> QED
    BY <1>10, <1>21, <2>2 DEF Restore
<1>22. CASE Escalate(f)
  <2>1. pc[f] \in Locked
    BY <1>10, <1>22 DEF Escalate, At
  <2>2. CASE \E r \in Report : Reports(f, r)
    BY <1>5, <1>8, <2>1, <2>2
  <2>3. CASE Goto(f, "verify") /\ Stays /\ UNCHANGED opened
    BY <1>5, <1>9, <2>1, <2>3
  <2> QED
    BY <1>10, <1>22, <2>2, <2>3 DEF Escalate
<1>23. CASE Verify(f)
  <2>1. pc[f] \in Locked
    BY <1>10, <1>23 DEF Verify, At
  <2>2. CASE \E r \in Report : Reports(f, r)
    BY <1>5, <1>8, <2>1, <2>2
  <2> QED
    BY <1>10, <1>23, <2>2 DEF Verify
<1> QED
  BY <1>6, <1>7, <1>11, <1>12, <1>13, <1>14, <1>15, <1>16, <1>17, <1>18, <1>19, <1>20, <1>21,
     <1>22, <1>23 DEF Step

\* Two batches are in their locked part at once only after an uninstall has removed the
\* lock file (PatchLock::acquire, src/src/lockfile.rs), however many run.
Exclusive ==
    \A f, g \in Flow : f # g /\ pc[f] \in Locked /\ pc[g] \in Locked => lockfile > 1

LEMMA OneAtATime == Spec => []Exclusive
<1>1. Init => LockInv
  BY DEF Init, LockInv, Locked
<1>2. ASSUME TypeInv, TypeInv', LockInv, [Next]_vars PROVE LockInv'
  <2>1. CASE \E f \in Flow : Step(f)
    BY <1>2, <2>1, LockStep
  <2>2. CASE Outside
    <3>1. UNCHANGED <<pc, opened, held>> /\ (lockfile' = lockfile \/ lockfile' = lockfile + 1)
      BY <1>2, <2>2, OutsideEffect
    <3>2. opened \in [Flow -> Nat] /\ held \in [Flow -> Nat] /\ lockfile \in Nat
      BY <1>2, ConstantsAssumption DEF TypeInv, CoreType
    <3> QED
      BY <1>2, <3>1, <3>2 DEF LockInv
  <2>3. CASE UNCHANGED vars
    BY <1>2, <2>3 DEF vars, world, flowVars, LockInv
  <2> QED
    BY <1>2, <2>1, <2>2, <2>3, StepOrOutside
<1>3. TypeInv /\ LockInv => Exclusive
  <2> SUFFICES ASSUME TypeInv, LockInv, NEW f \in Flow, NEW g \in Flow,
                      f # g, pc[f] \in Locked, pc[g] \in Locked
               PROVE lockfile > 1
    BY DEF Exclusive
  <2>1. held[f] # 0 /\ held[g] # 0 /\ held[f] \in Nat /\ held[g] \in Nat /\ lockfile \in Nat /\ held[f] # held[g]
        /\ held[f] =< lockfile /\ held[g] =< lockfile
    BY ConstantsAssumption DEF TypeInv, CoreType, LockInv
  <2> QED
    BY <2>1
<1> QED
  BY <1>1, <1>2, <1>3, TypeInvariant, PTL DEF Spec

-----------------------------------------------------------------------------
(***************************************************************************)
(* Leave.                                                                  *)
(***************************************************************************)

\* One of them, or just this browser: PatchRequest::replace_external for many is
\* refused before the lock (src/src/patch/mod.rs:618).
Leave(f) ==
    /\ pc[f] \in Locked \cup {"lock"} => ~(option[f].replace /\ Cardinality(selected[f]) > 1)
    /\ pc[f] \in {"authorize", "validate", "closed"} =>
         option[f].force \/ history.closed[f] \/ turn[f] \in seen[f]
    /\ pc[f] \in {"snapshot", "write", "child", "verify", "finalize", "restore"} =>
         option[f].force \/ history.closed[f]
    /\ pc[f] \in {"closed", "snapshot", "write"} => Enforce(f, granted[f][1]) = "ok"
    /\ pc[f] \in {"validate", "closed", "snapshot", "write"} =>
         /\ granted[f][2] =< inode[turn[f]]
         /\ granted[f][2] = inode[turn[f]] => live[turn[f]] \in {granted[f][1], "torn", "managed"}

LeaveInv == \A f \in Flow : Leave(f)

\* A browser that does not run at some moment of its turn has been closed in it.
LEMMA ClosedKept ==
  ASSUME NEW g \in Flow, NEW f, Remember(f), turn'[g] = turn[g]
  PROVE history'.closed[g] <=> history.closed[g] \/ turn[g] \notin running'
<1> DEFINE Closing == [h \in Flow |-> IF turn'[h] \in Browser /\ turn'[h] # turn[h]
                                     THEN turn'[h] \notin running'
                                     ELSE history.closed[h] \/ turn[h] \notin running']
<1>1. history'.closed = Closing
  BY DEF Remember
<1>2. Closing[g] <=> history.closed[g] \/ turn[g] \notin running'
  BY Zenon
<1> HIDE DEF Closing
<1> QED
  BY <1>1, <1>2

\* Where a step leads.
LEMMA Moves ==
  ASSUME TypeInv, NEW f \in Flow, Step(f)
  PROVE \/ pc'[f] \in {"resolve", "post", "done"}
        \/ pc[f] \in Locked \cup {"lock"} /\ pc'[f] = "capture" /\ turn'[f] # turn[f]
        \/ pc'[f] = "lock" /\ ~(option[f].replace /\ Cardinality(selected[f]) > 1)
        \/ /\ pc[f] \in Locked /\ UNCHANGED turn
           /\ \/ /\ pc[f] = "capture" /\ pc'[f] = "authorize"
                 /\ seen'[f] = (IF option[f].force THEN {} ELSE running) /\ UNCHANGED live
              \/ /\ pc[f] = "authorize" /\ pc'[f] = "validate"
                 /\ granted'[f] = Dir(turn[f]) /\ UNCHANGED <<seen, live, inode>>
              \/ /\ pc[f] = "validate" /\ pc'[f] = "closed" /\ Enforce(f, granted[f][1]) = "ok"
                 /\ UNCHANGED <<seen, granted, live, inode>>
              \/ /\ pc[f] = "closed" /\ pc'[f] \in {"child", "snapshot", "write"}
                 /\ turn[f] \notin seen[f] /\ UNCHANGED <<granted, live, inode>>
                 /\ pc'[f] = "write" => mode # "legacy"
              \/ /\ pc[f] = "snapshot" /\ pc'[f] = "write" /\ UNCHANGED <<granted, live, inode>>
                 /\ snapshot'[f] = live[turn[f]]
              \/ /\ pc[f] = "write" /\ pc'[f] \in {"finalize", "restore"} /\ UNCHANGED snapshot
                 /\ mode = "legacy" /\ (pc'[f] = "finalize" => live'[turn[f]] = "torn")
              \/ pc[f] = "finalize" /\ pc'[f] = "restore" /\ UNCHANGED snapshot
              \/ pc[f] = "child" /\ pc'[f] = "verify" /\ live'[turn[f]] = "managed"
<1>1. /\ pc \in [Flow -> Place] /\ turn \in [Flow -> 1..Done]
      /\ seen \in [Flow -> SUBSET Browser] /\ granted \in [Flow -> Content \X Nat]
      /\ live \in [Browser -> Content] /\ snapshot \in [Flow -> Content \cup {Nothing, "partial"}]
      /\ pc[f] \in Locked => turn[f] \in Browser
  BY DEF TypeInv, CoreType, InTurn
<1>2. ASSUME NEW there, Goto(f, there) PROVE pc'[f] = there
  BY <1>1, <1>2 DEF Goto
<1>3. {"ok", "dry", "BrowserRunning", "ExternalCdm", "InvalidMarker", "StateCorrupted",
       "PermissionDenied", "Other"} \subseteq Report
      /\ {"capture", "authorize", "validate", "closed", "snapshot", "write", "child", "verify",
           "finalize", "restore"} \subseteq Locked
  BY DEF Report, Locked
<1>4. ASSUME NEW r \in Report, Reports(f, r), pc[f] \in Locked
      PROVE \/ pc'[f] = "post"
            \/ pc[f] \in Locked \cup {"lock"} /\ pc'[f] = "capture" /\ turn'[f] # turn[f]
  BY <1>4, ReportsEffect DEF TypeInv, InTurn, CoreType
<1>5. CASE PrePatch(f)
  BY <1>2, <1>5 DEF PrePatch
<1>6. CASE Resolve(f)
  BY <1>2, <1>6 DEF Resolve
<1>7. CASE Lock(f)
  <2>1. pc[f] = "lock" /\ pc'[f] = "capture" /\ turn[f] = Done
    BY <1>2, <1>7 DEF Lock, At, TypeInv, InTurn
  <2>2. turn'[f] \in Browser
    BY <2>1, StepEffect DEF Effect, Locked, TypeInv, CoreType
  <2> QED
    BY <2>1, <2>2, BrowserRange
<1>8. CASE Capture(f)
  BY <1>1, <1>2, <1>3, <1>8 DEF Capture, At, Stays, world
<1>9. CASE Authorize(f)
  BY <1>1, <1>2, <1>3, <1>9 DEF Authorize, At, Stays, world
<1>10. CASE Validate(f)
  <2>1. pc[f] = "validate" /\ pc[f] \in Locked /\ UNCHANGED <<seen, live, inode>>
    BY <1>3, <1>10 DEF Validate, At, world
  <2>2. CASE Enforce(f, granted[f][1]) = "ok" /\ Goto(f, "closed") /\ Stays /\ UNCHANGED granted
    BY <1>2, <2>1, <2>2 DEF Stays
  <2>3. CASE \E r \in Report : Reports(f, r)
    BY <1>4, <2>1, <2>3
  <2>4. Enforce(f, granted[f][1]) \in Report
    BY <1>3 DEF Enforce
  <2> QED
    BY <1>3, <1>10, <2>2, <2>3, <2>4 DEF Validate
<1>11. CASE Closed(f)
  <2>1. pc[f] = "closed" /\ pc[f] \in Locked /\ UNCHANGED <<live, inode>>
    BY <1>3, <1>11 DEF Closed, At, world
  <2>2. CASE /\ turn[f] \notin seen[f] /\ Stays /\ UNCHANGED granted
             /\ Goto(f, IF turn[f] \notin writable THEN "child"
                        ELSE IF mode = "legacy" THEN "snapshot" ELSE "write")
    <3>1. pc'[f] = IF turn[f] \notin writable THEN "child"
                   ELSE IF mode = "legacy" THEN "snapshot" ELSE "write"
      BY <1>1, <2>2 DEF Goto
    <3> QED
      BY <2>1, <2>2, <3>1 DEF Stays
  <2>3. CASE \E r \in Report : Reports(f, r)
    BY <1>4, <2>1, <2>3
  <2> QED
    BY <1>3, <1>11, <2>2, <2>3 DEF Closed
<1>12. CASE Snapshot(f)
  <2>1. pc[f] = "snapshot" /\ pc[f] \in Locked /\ UNCHANGED <<live, inode>>
    BY <1>3, <1>12 DEF Snapshot, At, world
  <2>2. CASE /\ Goto(f, "write") /\ Stays /\ UNCHANGED granted
             /\ snapshot' = [snapshot EXCEPT ![f] = live[turn[f]]]
    BY <1>1, <1>2, <2>1, <2>2 DEF Stays
  <2>3. CASE Reports(f, "Other")
    BY <1>3, <1>4, <2>1, <2>3
  <2> QED
    BY <1>12, <2>2, <2>3 DEF Snapshot
<1>13. CASE Write(f)
  <2>1. pc[f] \in Locked /\ \E r \in Report : Reports(f, r)
    BY <1>3, <1>13 DEF Write, At
  <2> QED
    BY <1>4, <2>1
<1>14. CASE Overwrite(f)
  <2>1. pc[f] = "write" /\ UNCHANGED <<turn, snapshot>> /\ mode = "legacy" /\ turn[f] \in Browser
    BY <1>1, <1>3, <1>14 DEF Overwrite, At, Stays
  <2>2. pc'[f] \in {"finalize", "restore"} /\ (pc'[f] = "finalize" => live'[turn[f]] = "torn")
    BY <1>1, <1>2, <1>14, <2>1 DEF Overwrite
  <2> QED
    BY <1>3, <2>1, <2>2
<1>15. CASE Finalize(f)
  <2>1. pc[f] = "finalize" /\ pc[f] \in Locked
    BY <1>3, <1>15 DEF Finalize, At
  <2>2. CASE Goto(f, "restore") /\ Stays /\ UNCHANGED snapshot
    BY <1>2, <2>1, <2>2 DEF Stays
  <2>3. CASE \E r \in Report : Reports(f, r)
    BY <1>4, <2>1, <2>3
  <2> QED
    BY <1>3, <1>15, <2>2, <2>3 DEF Finalize
<1>16. CASE Restore(f)
  <2>1. pc[f] \in Locked /\ \E r \in Report : Reports(f, r)
    BY <1>3, <1>16 DEF Restore, At
  <2> QED
    BY <1>4, <2>1
<1>17. CASE Escalate(f)
  <2>1. pc[f] = "child" /\ pc[f] \in Locked
    BY <1>3, <1>17 DEF Escalate, At
  <2>2. CASE Goto(f, "verify") /\ Stays /\ Publishes(turn[f])
    BY <1>1, <1>2, <2>1, <2>2 DEF Stays, Publishes
  <2>3. CASE \E r \in Report : Reports(f, r)
    BY <1>4, <2>1, <2>3
  <2> QED
    BY <1>3, <1>17, <2>2, <2>3 DEF Escalate
<1>18. CASE Verify(f)
  <2>1. pc[f] \in Locked /\ \E r \in Report : Reports(f, r)
    BY <1>3, <1>18 DEF Verify, At
  <2> QED
    BY <1>4, <2>1
<1>19. CASE PostPatch(f)
  BY <1>2, <1>19 DEF PostPatch
<1> QED
  BY <1>5, <1>6, <1>7, <1>8, <1>9, <1>10, <1>11, <1>12, <1>13, <1>14, <1>15, <1>16, <1>17, <1>18,
     <1>19 DEF Step

\* A flow that is left alone keeps its leave, whatever is done to the directories.
LEMMA LeaveKept ==
  ASSUME TypeInv, LeaveInv, NEW g \in Flow, NEW f, Remember(f), Dirs,
         live' \in [Browser -> Content], inode' \in [Browser -> Nat],
         UNCHANGED <<option, selected>>,
         pc'[g] = pc[g], turn'[g] = turn[g], seen'[g] = seen[g], granted'[g] = granted[g]
  PROVE Leave(g)'
<1>1. Leave(g)
  BY DEF LeaveInv
<1>2. history'.closed[g] <=> history.closed[g] \/ turn[g] \notin running'
  BY ClosedKept
<1>3. Enforce(g, granted[g][1])' = Enforce(g, granted[g][1])
  BY DEF Enforce
<1>4. pc[g] \in Locked => turn[g] \in Browser
  BY DEF TypeInv, InTurn, CoreType
<1>5. granted[g][2] \in Nat /\ inode \in [Browser -> Nat]
  BY DEF TypeInv, CoreType
<1>6. pc[g] \in {"validate", "closed", "snapshot", "write"} =>
         /\ granted[g][2] =< inode'[turn[g]]
         /\ granted[g][2] = inode'[turn[g]] => live'[turn[g]] \in {granted[g][1], "torn", "managed"}
  <2> SUFFICES ASSUME pc[g] \in {"validate", "closed", "snapshot", "write"}
               PROVE /\ granted[g][2] =< inode'[turn[g]]
                     /\ granted[g][2] = inode'[turn[g]] =>
                          live'[turn[g]] \in {granted[g][1], "torn", "managed"}
    OBVIOUS
  <2>1. turn[g] \in Browser
    BY <1>4 DEF Locked
  <2>2. /\ granted[g][2] =< inode[turn[g]]
        /\ granted[g][2] = inode[turn[g]] => live[turn[g]] \in {granted[g][1], "torn", "managed"}
    BY <1>1 DEF Leave
  <2> QED
    BY <1>5, <2>1, <2>2 DEF Dirs
<1> QED
  BY <1>1, <1>2, <1>3, <1>6 DEF Leave

\* The flow that steps earns it.
LEMMA LeaveEarned ==
  ASSUME TypeInv, LeaveInv, NEW f \in Flow, Step(f), Remember(f) PROVE Leave(f)'
<1>1. Leave(f) /\ Effect(f)
  BY StepEffect DEF LeaveInv
<1>2. /\ UNCHANGED <<option, selected, running>> /\ granted[f] \in Content \X Nat
      /\ inode \in [Browser -> Nat] /\ live \in [Browser -> Content]
      /\ pc[f] \in Locked => turn[f] \in Browser
  BY <1>1 DEF Effect, TypeInv, CoreType, InTurn
<1>3. CASE \/ pc'[f] \in {"resolve", "post", "done"}
           \/ pc[f] \in Locked \cup {"lock"} /\ pc'[f] = "capture"
           \/ pc'[f] = "lock" /\ ~(option[f].replace /\ Cardinality(selected[f]) > 1)
  BY <1>1, <1>2, <1>3 DEF Leave, Locked
<1>4. ASSUME pc[f] \in Locked, UNCHANGED turn
      PROVE /\ history'.closed[f] <=> history.closed[f] \/ turn[f] \notin running
            /\ ~(option[f].replace /\ Cardinality(selected[f]) > 1)
            /\ turn[f] \in Browser
  BY <1>1, <1>2, <1>4, ClosedKept DEF Leave
<1>5. CASE /\ pc[f] = "capture" /\ pc'[f] = "authorize" /\ UNCHANGED turn /\ pc[f] \in Locked
           /\ seen'[f] = IF option[f].force THEN {} ELSE running
  BY <1>1, <1>2, <1>4, <1>5 DEF Leave
<1>6. CASE /\ pc[f] = "authorize" /\ pc'[f] = "validate" /\ UNCHANGED turn /\ pc[f] \in Locked
           /\ granted'[f] = Dir(turn[f]) /\ UNCHANGED <<seen, live, inode>>
  <2>1. granted'[f][1] = live[turn[f]] /\ granted'[f][2] = inode[turn[f]] /\ inode[turn[f]] \in Nat
    BY <1>2, <1>4, <1>6 DEF Dir
  <2> QED
    BY <1>1, <1>2, <1>4, <1>6, <2>1 DEF Leave
<1>7. ASSUME UNCHANGED <<granted, live, inode, turn>>, pc[f] \in Locked
      PROVE /\ granted'[f] = granted[f] /\ Enforce(f, granted[f][1])' = Enforce(f, granted[f][1])
            /\ inode'[turn'[f]] = inode[turn[f]] /\ live'[turn'[f]] = live[turn[f]]
  BY <1>2, <1>7 DEF Enforce
<1>8. CASE /\ pc[f] = "validate" /\ pc'[f] = "closed" /\ UNCHANGED turn /\ pc[f] \in Locked
           /\ Enforce(f, granted[f][1]) = "ok" /\ UNCHANGED <<seen, granted, live, inode>>
  BY <1>1, <1>2, <1>4, <1>7, <1>8 DEF Leave
<1>9. CASE /\ pc[f] = "closed" /\ pc'[f] \in {"child", "snapshot", "write"} /\ UNCHANGED turn
           /\ pc[f] \in Locked /\ turn[f] \notin seen[f] /\ UNCHANGED <<granted, live, inode>>
  BY <1>1, <1>2, <1>4, <1>7, <1>9 DEF Leave
<1>10. CASE /\ pc[f] = "snapshot" /\ pc'[f] = "write" /\ UNCHANGED turn
            /\ pc[f] \in Locked /\ UNCHANGED <<granted, live, inode>>
  BY <1>1, <1>2, <1>4, <1>7, <1>10 DEF Leave
<1>11. CASE /\ pc[f] \in {"write", "finalize", "child"} /\ UNCHANGED turn
            /\ pc[f] \in Locked /\ pc'[f] \in {"finalize", "restore", "verify"}
  BY <1>1, <1>2, <1>4, <1>11 DEF Leave
<1> QED
  BY Moves, <1>3, <1>5, <1>6, <1>8, <1>9, <1>10, <1>11

LEMMA LeaveInvariant == Spec => []LeaveInv
<1>1. Init => LeaveInv
  BY DEF Init, LeaveInv, Leave, Locked
<1>2. ASSUME TypeInv, TypeInv', LeaveInv, [Next]_vars PROVE LeaveInv'
  <2>1. ASSUME NEW f \in Flow, Step(f), Remember(f), NEW g \in Flow PROVE Leave(g)'
    <3>1. CASE g = f
      BY <1>2, <2>1, <3>1, LeaveEarned
    <3>2. CASE g # f
      BY ZenonT(30), <1>2, <2>1, <3>2, StepEffect, LeaveKept DEF Effect, Same, TypeInv, CoreType
    <3> QED
      BY <3>1, <3>2
  <2>2. ASSUME Outside, Remember(Nothing), NEW g \in Flow PROVE Leave(g)'
    BY <1>2, <2>2, OutsideEffect, LeaveKept DEF TypeInv, CoreType
  <2>3. CASE UNCHANGED vars
    BY <1>2, <2>3 DEF vars, world, flowVars, LeaveInv, Leave, Enforce
  <2> QED
    BY <1>2, <2>1, <2>2, <2>3, StepOrOutside DEF LeaveInv
<1> QED
  BY <1>1, <1>2, TypeInvariant, PTL DEF Spec

\* A flow changes directories under the lock only, where it has leave.
LEMMA ChangeHasLeave ==
  ASSUME TypeInv, LeaveInv, NEW f \in Flow, turn[f] \in Browser, Step(f),
         live'[turn[f]] # live[turn[f]]
  PROVE /\ option[f].force \/ history.closed[f]
        /\ \/ pc[f] = "restore"
           \/ /\ live[turn[f]] # "invalid"
              /\ live[turn[f]] = "external" => option[f].replace /\ selected[f] = {turn[f]}
<1> DEFINE b == turn[f]
<1>1. Leave(f) /\ granted[f] \in Content \X Nat /\ inode \in [Browser -> Nat]
      /\ live \in [Browser -> Content]
  BY DEF LeaveInv, TypeInv, CoreType
<1>2. /\ pc[f] \in {"write", "finalize", "restore", "child"}
      /\ pc[f] = "write" => inode[b] = granted[f][2]
      /\ pc[f] = "finalize" => live[b] = "torn"
      /\ pc[f] = "child" => Enforce(f, live[b]) = "ok"
  BY <1>1 DEF Step, PrePatch, Resolve, Lock, Capture, Authorize, Validate, Closed, Snapshot, Write,
     Overwrite, Finalize, Restore, Escalate, Verify, PostPatch, At, world
<1>3. option[f].force \/ history.closed[f]
  BY <1>1, <1>2 DEF Leave
<1>4. pc[f] = "write" => live[b] \in {granted[f][1], "torn", "managed"} /\ Enforce(f, granted[f][1]) = "ok"
  BY <1>1, <1>2 DEF Leave
<1>5. pc[f] # "restore" =>
        live[b] # "invalid" /\ (live[b] = "external" => option[f].replace)
  BY <1>1, <1>2, <1>4 DEF Enforce
<1>6. ASSUME option[f].replace PROVE selected[f] = {b}
  <2>1. ~(Cardinality(selected[f]) > 1) /\ b \in selected[f] /\ selected[f] \subseteq Browser
    BY <1>1, <1>2, <1>6 DEF Leave, Locked, TypeInv, InTurn, CoreType
  <2>2. IsFiniteSet(Browser)
    BY BrowserRange, FS_Interval
  <2>3. IsFiniteSet(selected[f])
    BY <2>1, <2>2, FS_Subset
  <2>4. /\ IsFiniteSet(selected[f] \ {b})
        /\ Cardinality(selected[f] \ {b}) = Cardinality(selected[f]) - 1
    BY <2>1, <2>3, FS_RemoveElement
  <2>5. Cardinality(selected[f]) \in Nat /\ Cardinality(selected[f] \ {b}) \in Nat
    BY <2>3, <2>4, FS_CardinalityType
  <2>6. Cardinality(selected[f] \ {b}) = 0
    BY <2>1, <2>4, <2>5
  <2> QED
    BY <2>1, <2>4, <2>6, FS_EmptySet
<1> QED
  BY <1>3, <1>5, <1>6

\* Nothing is changed without leave, whatever the browsers, their updaters and the other
\* batches do meanwhile (require_closed_browser and enforce_ownership of
\* src/src/patch/mod.rs).
THEOREM ChangesHaveLeave == Spec => OnlyWithLeave
<1>1. TypeInv /\ LeaveInv /\ [Next]_vars =>
        \A f \in Flow : turn[f] \in Browser /\ Step(f) =>
          LET b == turn[f] IN
          live'[b] # live[b] =>
            /\ option[f].force \/ history.closed[f]
            /\ pc[f] = "restore" \/
               /\ live[b] # "invalid"
               /\ live[b] = "external" => option[f].replace /\ selected[f] = {b}
  BY ChangeHasLeave
<1> QED
  BY <1>1, TypeInvariant, LeaveInvariant, PTL DEF Spec, OnlyWithLeave

-----------------------------------------------------------------------------
(***************************************************************************)
(* Reports.                                                                *)
(***************************************************************************)

\* The copy that a restore would put back, unless an uninstall has taken it.
Copied(f) == snapshot[f] = history.before[f] \/ (snapshot[f] = Nothing /\ lockfile > 1)

\* What is left of the browser as it was, in a turn that no other hand has touched:
\* but a transactional batch beside this one, without the lock, may have patched it.
Before(f) ==
    ~history.touched[f] =>
    /\ pc[f] \in {"capture", "authorize", "validate", "closed", "snapshot", "child", "write"} =>
         \/ live[turn[f]] = history.before[f]
         \/ mode # "legacy" /\ live[turn[f]] = "managed" /\ lockfile > 1
    /\ pc[f] = "write" => mode # "legacy" \/ Copied(f)
    /\ pc[f] \in {"finalize", "restore"} => Copied(f)
    /\ pc[f] = "finalize" => live[turn[f]] = "torn"
    /\ pc[f] = "verify" => live[turn[f]] = "managed"

BeforeInv == \A f \in Flow : Before(f)

\* What is remembered of a turn that goes on, and of one that begins.
LEMMA Remembered ==
  ASSUME NEW g \in Flow, NEW f, Remember(f)
  PROVE /\ turn'[g] = turn[g] =>
             /\ history'.before[g] = history.before[g]
             /\ ~history'.touched[g] =>
                  /\ ~history.touched[g]
                  /\ (f = Nothing \/ (mode = "legacy" /\ g # f)) /\ turn[g] \in Browser =>
                       live'[turn[g]] = live[turn[g]]
        /\ turn'[g] # turn[g] /\ turn'[g] \in Browser => history'.before[g] = live'[turn'[g]]
<1> DEFINE begins(h) == turn'[h] \in Browser /\ turn'[h] # turn[h]
           b(h) == turn[h]
           Then == [h \in Flow |-> IF begins(h) THEN live'[turn'[h]] ELSE history.before[h]]
           Touched == [h \in Flow |-> ~begins(h) /\
               \/ history.touched[h]
               \/ /\ f = Nothing \/ (mode = "legacy" /\ h # f)
                  /\ b(h) \in Browser /\ <<live'[b(h)], inode'[b(h)]>> # Dir(b(h))]
<1>1. history'.before = Then /\ history'.touched = Touched
  BY DEF Remember
<1>2. Then[g] = IF begins(g) THEN live'[turn'[g]] ELSE history.before[g]
  OBVIOUS
<1>3. turn'[g] = turn[g] /\ ~Touched[g] =>
        /\ ~history.touched[g]
        /\ (f = Nothing \/ (mode = "legacy" /\ g # f)) /\ turn[g] \in Browser =>
             <<live'[turn[g]], inode'[turn[g]]>> = <<live[turn[g]], inode[turn[g]]>>
  BY Zenon DEF Dir
<1> HIDE DEF Then, Touched
<1> QED
  BY <1>1, <1>2, <1>3

\* A transactional batch leaves a directory alone, or the managed CDM in it.
LEMMA Written ==
  ASSUME TypeInv, NEW f \in Flow, Step(f), mode # "legacy", NEW b \in Browser, live'[b] # live[b]
  PROVE live'[b] = "managed" /\ pc[f] \in Locked
<1>1. live \in [Browser -> Content] /\ Legacy
  BY DEF TypeInv, CoreType
<1>2. CASE Write(f)
  BY <1>1, <1>2 DEF Write, Publishes, At, Locked
<1>3. CASE Escalate(f)
  BY <1>1, <1>3 DEF Escalate, Publishes, At, Locked
<1>4. ~Overwrite(f) /\ ~Finalize(f) /\ ~Restore(f)
  BY <1>1 DEF Overwrite, Finalize, Restore, At, Legacy
<1>5. CASE \/ PrePatch(f) \/ Resolve(f) \/ Lock(f) \/ Capture(f) \/ Authorize(f) \/ Validate(f)
          \/ Closed(f) \/ Snapshot(f) \/ Verify(f) \/ PostPatch(f)
  BY <1>5 DEF PrePatch, Resolve, Lock, Capture, Authorize, Validate, Closed, Snapshot, Verify,
     PostPatch, world
<1> QED
  BY <1>2, <1>3, <1>4, <1>5 DEF Step

\* A turn that another flow, or what goes on outside, leaves alone.
LEMMA BeforeKept ==
  ASSUME TypeInv, BeforeInv, NEW g \in Flow, NEW f, f # g, Remember(f), UNCHANGED mode,
         pc'[g] = pc[g], turn'[g] = turn[g],
         f # Nothing /\ mode # "legacy" /\ pc[g] \in Locked =>
            live'[turn[g]] = live[turn[g]] \/ (live'[turn[g]] = "managed" /\ lockfile > 1),
         \/ snapshot'[g] = snapshot[g] /\ lockfile' = lockfile
         \/ snapshot'[g] \in {snapshot[g], Nothing} /\ lockfile' = lockfile + 1
  PROVE Before(g)'
<1>1. Before(g) /\ lockfile \in Nat \ {0} /\ (pc[g] \in Locked => turn[g] \in Browser)
  BY ConstantsAssumption DEF BeforeInv, TypeInv, CoreType, InTurn
<1>2. /\ history'.before[g] = history.before[g]
      /\ ~history'.touched[g] => /\ ~history.touched[g]
                                 /\ (f = Nothing \/ mode = "legacy") /\ turn[g] \in Browser =>
                                      live'[turn[g]] = live[turn[g]]
  BY Remembered
<1>3. Copied(g) => Copied(g)'
  BY <1>1, <1>2 DEF Copied
<1>4. {"capture", "authorize", "validate", "closed", "snapshot", "child", "write", "finalize",
       "verify"} \subseteq Locked
  BY DEF Locked
<1>5. pc[g] \in Locked /\ ~history'.touched[g] =>
        \/ live'[turn'[g]] = live[turn[g]]
        \/ mode # "legacy" /\ live'[turn'[g]] = "managed" /\ lockfile > 1
  BY <1>1, <1>2
<1>6. (lockfile > 1 => lockfile' > 1) /\ (pc[g] = "finalize" => mode = "legacy")
  BY <1>1 DEF TypeInv, Legacy
<1> QED
  BY <1>1, <1>2, <1>3, <1>4, <1>5, <1>6 DEF Before

\* The turn of the flow that steps.
LEMMA BeforeStep ==
  ASSUME TypeInv, BeforeInv, NEW f \in Flow, Step(f), Remember(f) PROVE Before(f)'
<1>1. Before(f) /\ Effect(f)
  BY StepEffect DEF BeforeInv
<1>2. /\ UNCHANGED <<mode, lockfile>> /\ (pc[f] = "snapshot" => mode = "legacy")
      /\ pc'[f] \in Locked => turn'[f] \in Browser
      /\ turn \in [Flow -> 1..Done]
  BY <1>1 DEF Effect, TypeInv, CoreType, InTurn, Legacy
<1>3. CASE pc'[f] \in {"resolve", "post", "done", "lock"}
  BY <1>3 DEF Before
<1>4. CASE pc'[f] = "capture" /\ turn'[f] # turn[f]
  <2>1. history'.before[f] = live'[turn'[f]]
    BY <1>2, <1>4, Remembered DEF Locked
  <2> QED
    BY <1>4, <2>1 DEF Before
<1>6. ASSUME UNCHANGED turn
      PROVE /\ turn'[f] = turn[f] /\ history'.before[f] = history.before[f]
            /\ ~history'.touched[f] => ~history.touched[f]
  BY <1>2, <1>6, Remembered
<1>7. CASE /\ pc[f] \in {"capture", "authorize", "validate"} /\ pc'[f] \in {"authorize", "validate", "closed"}
           /\ UNCHANGED <<turn, live>>
  BY <1>1, <1>2, <1>6, <1>7 DEF Before
<1>8. CASE /\ pc[f] = "closed" /\ pc'[f] \in {"child", "snapshot", "write"} /\ UNCHANGED <<turn, live>>
           /\ pc'[f] = "write" => mode # "legacy"
  BY <1>1, <1>2, <1>6, <1>8 DEF Before
<1>9. CASE /\ pc[f] = "snapshot" /\ pc'[f] = "write" /\ UNCHANGED <<turn, live>>
           /\ snapshot'[f] = live[turn[f]]
  BY <1>1, <1>2, <1>6, <1>9 DEF Before, Copied
<1>10. CASE /\ pc[f] = "write" /\ pc'[f] \in {"finalize", "restore"} /\ UNCHANGED <<turn, snapshot>>
            /\ mode = "legacy" /\ (pc'[f] = "finalize" => live'[turn[f]] = "torn")
  BY <1>1, <1>2, <1>6, <1>10 DEF Before, Copied
<1>11. CASE pc[f] = "finalize" /\ pc'[f] = "restore" /\ UNCHANGED <<turn, snapshot>>
  BY <1>1, <1>2, <1>6, <1>11 DEF Before, Copied
<1>12. CASE pc[f] = "child" /\ pc'[f] = "verify" /\ UNCHANGED turn /\ live'[turn[f]] = "managed"
  BY <1>6, <1>12 DEF Before
<1> QED
  BY Moves, <1>3, <1>4, <1>7, <1>8, <1>9, <1>10, <1>11, <1>12

LEMMA BeforeInvariant == Spec => []BeforeInv
<1>1. Init => BeforeInv
  BY DEF Init, BeforeInv, Before
<1>2. ASSUME TypeInv, TypeInv', Exclusive, BeforeInv, [Next]_vars PROVE BeforeInv'
  <2>1. ASSUME NEW f \in Flow, Step(f), Remember(f), NEW g \in Flow PROVE Before(g)'
    <3>1. CASE g = f
      BY <1>2, <2>1, <3>1, BeforeStep
    <3>2. CASE g # f
      <4>1. UNCHANGED <<mode, lockfile>> /\ Same(g)
        BY <1>2, <2>1, <3>2, StepEffect DEF Effect
      <4>2. pc[g] \in Locked => turn[g] \in Browser
        BY <1>2 DEF TypeInv, InTurn, CoreType
      <4>3. mode # "legacy" /\ pc[g] \in Locked =>
              live'[turn[g]] = live[turn[g]] \/ (live'[turn[g]] = "managed" /\ lockfile > 1)
        BY <1>2, <2>1, <3>2, <4>2, Written DEF Exclusive
      <4> QED
        BY <1>2, <2>1, <3>2, <4>1, <4>3, BeforeKept DEF Same
    <3> QED
      BY <3>1, <3>2
  <2>2. ASSUME Outside, Remember(Nothing), NEW g \in Flow PROVE Before(g)'
    <3>1. Nothing # g
      BY ConstantsAssumption
    <3>2. /\ UNCHANGED <<mode, pc, turn>>
          /\ \/ snapshot' = snapshot /\ lockfile' = lockfile
             \/ snapshot' \in {snapshot, [f \in Flow |-> Nothing]} /\ lockfile' = lockfile + 1
      BY <1>2, <2>2, OutsideEffect DEF Outside, StartOrQuit, Replace, Uninstall
    <3>3. \/ snapshot'[g] = snapshot[g] /\ lockfile' = lockfile
          \/ snapshot'[g] \in {snapshot[g], Nothing} /\ lockfile' = lockfile + 1
      BY <3>2
    <3> QED
      BY <1>2, <2>2, <3>1, <3>2, <3>3, BeforeKept
  <2>3. CASE UNCHANGED vars
    BY <1>2, <2>3 DEF vars, world, flowVars, BeforeInv, Before, Copied
  <2> QED
    BY <1>2, <2>1, <2>2, <2>3, StepOrOutside DEF BeforeInv
<1> QED
  BY <1>1, <1>2, TypeInvariant, OneAtATime, PTL DEF Spec

\* What may be said of a browser that was not patched.
FailureTrue(f, b) ==
    \/ live'[b] = history.before[f]
    \/ history.touched[f]
    \/ live'[b] = "managed" /\ (pc[f] \in {"write", "child", "verify"} \/ lockfile > 1)
    \/ mode = "legacy" /\ report'[f][b] = "Other" /\
       \/ pc[f] = "finalize" /\ live'[b] = "managed" /\ snapshot'[f] = history.before[f]
       \/ pc[f] = "restore" /\ (snapshot'[f] = history.before[f] \/ lockfile > 1)

\* What a step of a flow says of the browser whose turn it is.
LEMMA TurnReport ==
  ASSUME TypeInv, BeforeInv, NEW f \in Flow, Step(f), pc[f] \in Locked,
         report'[f][turn[f]] # report[f][turn[f]]
  PROVE /\ report'[f][turn[f]] = "ok" => live'[turn[f]] = "managed"
        /\ report'[f][turn[f]] # "ok" => FailureTrue(f, turn[f])
<1> DEFINE b == turn[f]
<1>1. /\ Before(f) /\ b \in Browser
      /\ live \in [Browser -> Content] /\ snapshot \in [Flow -> Content \cup {Nothing, "partial"}]
      /\ report \in [Flow -> [Browser -> Report]] /\ Legacy
  BY DEF BeforeInv, TypeInv, CoreType, InTurn
<1>2. ASSUME NEW r \in Report, Reports(f, r) PROVE report'[f][b] = r
  BY <1>1, <1>2 DEF Reports
<1>3. {"ok", "dry", "BrowserRunning", "ExternalCdm", "InvalidMarker", "StateCorrupted",
       "PermissionDenied", "Other"} \subseteq Report
  BY DEF Report
<1> DEFINE Early == /\ live' = live
                    /\ \/ history.touched[f] \/ live[b] = history.before[f]
                       \/ live[b] = "managed" /\ lockfile > 1
<1>20. Early => FailureTrue(f, b)
  BY DEF FailureTrue
<1> HIDE DEF Early
<1>4. CASE Validate(f)
  <2>1. Early
    BY <1>1, <1>4 DEF Validate, At, world, Before, Early
  <2>2. \E r \in Report \ {"ok"} : Reports(f, r)
    <3>1. Enforce(f, granted[f][1]) \in Report
      BY <1>3 DEF Enforce
    <3> QED
      BY <1>3, <1>4, <3>1 DEF Validate
  <2> QED
    BY <1>2, <1>20, <2>1, <2>2
<1>5. CASE Closed(f)
  <2>1. Early
    BY <1>1, <1>5 DEF Closed, At, world, Before, Early
  <2>2. \E r \in Report \ {"ok"} : Reports(f, r)
    BY <1>3, <1>5 DEF Closed
  <2> QED
    BY <1>2, <1>20, <2>1, <2>2
<1>6. CASE Snapshot(f)
  <2>1. Early
    BY <1>1, <1>6 DEF Snapshot, At, world, Before, Early
  <2>2. Reports(f, "Other")
    BY <1>6 DEF Snapshot
  <2> QED
    BY <1>2, <1>3, <1>20, <2>1, <2>2
<1>7. CASE Write(f)
  <2>1. /\ pc[f] = "write"
        /\ live' = live => Early
    BY <1>1, <1>7 DEF Write, At, Before, Early
  <2>2. CASE Publishes(b) /\ \E r \in {"ok", "StateCorrupted"} : Reports(f, r)
    BY <1>1, <1>2, <1>3, <2>1, <2>2 DEF FailureTrue, Publishes
  <2>3. CASE live' = live /\ Reports(f, "StateCorrupted")
    BY <1>2, <1>3, <1>20, <2>1, <2>3
  <2> QED
    BY <1>7, <2>2, <2>3 DEF Write
<1>8. CASE Finalize(f)
  <2>1. pc[f] = "finalize" /\ mode = "legacy" /\ (history.touched[f] \/ Copied(f))
    BY <1>1, <1>8 DEF Finalize, At, Before, Legacy
  <2>2. live' = [live EXCEPT ![b] = "managed"]
    BY <1>8 DEF Finalize
  <2>3. CASE Reports(f, "ok")
    BY <1>1, <1>2, <1>3, <2>2, <2>3
  <2>4. CASE snapshot[f] # Nothing /\ UNCHANGED snapshot /\ Reports(f, "Other")
    BY <1>1, <1>2, <1>3, <2>1, <2>2, <2>4 DEF FailureTrue, Copied
  <2> QED
    BY <1>8, <2>3, <2>4 DEF Finalize
<1>9. CASE Restore(f)
  <2>1. pc[f] = "restore" /\ mode = "legacy" /\ (history.touched[f] \/ Copied(f))
    BY <1>1, <1>9 DEF Restore, At, Before, Legacy
  <2>2. CASE /\ snapshot[f] # Nothing /\ live' = [live EXCEPT ![b] = snapshot[f]]
             /\ \E r \in {"InvalidMarker", "Other"} : Reports(f, r)
    BY <1>1, <1>2, <1>3, <2>1, <2>2 DEF FailureTrue, Copied
  <2>3. CASE snapshot' = snapshot /\ Reports(f, "Other")
    BY <1>2, <1>3, <2>1, <2>3 DEF FailureTrue, Copied
  <2> QED
    BY <1>9, <2>2, <2>3 DEF Restore
<1>10. CASE Escalate(f)
  <2>1. /\ pc[f] = "child"
        /\ live' = live => Early
    BY <1>1, <1>10 DEF Escalate, At, Before, Early
  <2>2. CASE Publishes(b) /\ Reports(f, "PermissionDenied")
    BY <1>1, <1>2, <1>3, <2>1, <2>2 DEF FailureTrue, Publishes
  <2>3. CASE live' = live /\ Reports(f, "PermissionDenied")
    BY <1>2, <1>3, <1>20, <2>1, <2>3
  <2>4. CASE UNCHANGED report
    BY <2>4
  <2> QED
    BY <1>10, <2>2, <2>3, <2>4 DEF Escalate
<1>11. CASE Verify(f)
  <2>1. pc[f] = "verify" /\ live' = live /\ (history.touched[f] \/ live[b] = "managed")
    BY <1>1, <1>11 DEF Verify, At, world, Before
  <2>2. CASE live[b] = "managed" /\ Reports(f, "ok")
    BY <1>2, <1>3, <2>1, <2>2
  <2>3. CASE Reports(f, "InvalidMarker")
    BY <1>2, <1>3, <2>1, <2>3 DEF FailureTrue
  <2> QED
    BY <1>11, <2>2, <2>3 DEF Verify
<1>12. CASE \/ PrePatch(f) \/ Resolve(f) \/ Lock(f) \/ PostPatch(f)
           \/ Capture(f) \/ Authorize(f) \/ Overwrite(f)
  <2>1. UNCHANGED report
    BY <1>12 DEF PrePatch, Resolve, Lock, PostPatch, Capture, Authorize, Overwrite, At, Locked
  <2> QED
    BY <2>1
<1> QED
  BY <1>4, <1>5, <1>6, <1>7, <1>8, <1>9, <1>10, <1>11, <1>12 DEF Step

\* A flow writes its own reports, and success only for the browser whose turn it is.
LEMMA WhoReports ==
  ASSUME TypeInv, NEW f \in Flow, Step(f)
  PROVE /\ \A g \in Flow \ {f} : report'[g] = report[g]
        /\ \A b \in Browser : Reported(f, b, "ok") => pc[f] \in Locked /\ turn[f] = b
        /\ \A b \in Browser : report'[f][b] # report[f][b] /\ turn[f] = b => pc[f] \in Locked
<1>1. \A g \in Flow \ {f} : report'[g] = report[g]
  BY StepEffect DEF Effect, Same
<1>2. /\ report \in [Flow -> [Browser -> Report]]
      /\ pc[f] \in Locked => turn[f] \in Browser
      /\ "ok" # Nothing
  BY ConstantsAssumption DEF TypeInv, CoreType, InTurn
<1>3. CASE UNCHANGED report
  BY <1>1, <1>2, <1>3 DEF Reported
<1>4. CASE pc[f] \in Locked /\ \E r \in Report : Reports(f, r)
  <2>1. PICK r \in Report : Reports(f, r)
    BY <1>4
  <2>2. report'[f] = [report[f] EXCEPT ![turn[f]] = r]
    BY <1>2, <1>4, <2>1, ReportsEffect
  <2> QED
    BY <1>1, <1>2, <1>4, <2>2 DEF Reported
<1>5. CASE pc[f] \in {"start", "resolve"} /\ ReportsAll(f, "Other")
  <2>1. turn[f] \notin Browser
    BY <1>5, BrowserRange DEF TypeInv, InTurn
  <2>2. \A b \in Browser : report'[f][b] \in {"Other", Nothing}
    BY <1>2, <1>5 DEF ReportsAll
  <2> QED
    BY <1>1, <1>2, <2>1, <2>2 DEF Reported
<1>6. {"ok", "dry", "BrowserRunning", "ExternalCdm", "InvalidMarker", "StateCorrupted",
       "PermissionDenied", "Other"} \subseteq Report
      /\ {"capture", "authorize", "validate", "closed", "snapshot", "write", "child", "verify",
           "finalize", "restore"} \subseteq Locked
  BY DEF Report, Locked
<1>7. CASE Validate(f) \/ Closed(f) \/ Snapshot(f)
  <2>1. pc[f] \in Locked
    BY <1>6, <1>7 DEF Validate, Closed, Snapshot, At
  <2>2. Enforce(f, granted[f][1]) \in Report
    BY <1>6 DEF Enforce
  <2> QED
    BY <1>3, <1>4, <1>6, <1>7, <2>1, <2>2 DEF Validate, Closed, Snapshot
<1>8. CASE Write(f) \/ Finalize(f) \/ Restore(f) \/ Escalate(f) \/ Verify(f)
  <2>1. pc[f] \in Locked
    BY <1>6, <1>8 DEF Write, Finalize, Restore, Escalate, Verify, At
  <2>2. UNCHANGED report \/ \E r \in Report : Reports(f, r)
    BY <1>6, <1>8 DEF Write, Finalize, Restore, Escalate, Verify
  <2> QED
    BY <1>3, <1>4, <2>1, <2>2
<1>9. CASE PrePatch(f) \/ Resolve(f)
  <2>1. /\ pc[f] \in {"start", "resolve"}
        /\ UNCHANGED report \/ ReportsAll(f, "Other")
    BY <1>9 DEF PrePatch, Resolve, At
  <2> QED
    BY <1>3, <1>5, <2>1
<1>10. CASE Lock(f) \/ PostPatch(f) \/ Capture(f) \/ Authorize(f) \/ Overwrite(f)
  BY <1>3, <1>10 DEF Lock, PostPatch, Capture, Authorize, Overwrite
<1> QED
  BY <1>7, <1>8, <1>9, <1>10 DEF Step

\* What a batch reports is so, however many batches and browsers there are, and
\* however many uninstalls let two of them patch at once (PatchOutcome and the errors
\* of run_patch and run_patch_via_escalation, src/src/patch/mod.rs).
THEOREM ReportsAreTrue == Spec => ReportTrue
<1>1. ASSUME TypeInv, BeforeInv, Next, NEW f \in Flow, NEW b \in Browser
      PROVE /\ Reported(f, b, "ok") => live'[b] = "managed"
            /\ report[f][b] = Nothing /\ report'[f][b] \notin {Nothing, "ok"} /\ turn[f] = b =>
                  FailureTrue(f, b)
  <2>1. CASE Outside
    BY <1>1, <2>1, OutsideEffect, ConstantsAssumption DEF Reported
  <2>2. CASE \E g \in Flow : Step(g)
    <3>1. PICK g \in Flow : Step(g)
      BY <2>2
    <3>2. CASE g # f
      BY <1>1, <3>1, <3>2, WhoReports, ConstantsAssumption DEF Reported
    <3>3. CASE g = f
      BY <1>1, <3>1, <3>3, WhoReports, TurnReport, ConstantsAssumption DEF Reported
    <3> QED
      BY <3>2, <3>3
  <2> QED
    BY <1>1, <2>1, <2>2, StepOrOutside
<1>2. TypeInv /\ BeforeInv /\ Next =>
        \A f \in Flow, b \in Browser :
          /\ Reported(f, b, "ok") => live'[b] = "managed"
          /\ report[f][b] = Nothing /\ report'[f][b] \notin {Nothing, "ok"} /\ turn[f] = b =>
               \/ live'[b] = history.before[f]
               \/ history.touched[f]
               \/ live'[b] = "managed" /\ (pc[f] \in {"write", "child", "verify"} \/ lockfile > 1)
               \/ mode = "legacy" /\ report'[f][b] = "Other" /\
                  \/ pc[f] = "finalize" /\ live'[b] = "managed" /\ snapshot'[f] = history.before[f]
                  \/ pc[f] = "restore" /\ (snapshot'[f] = history.before[f] \/ lockfile > 1)
  BY <1>1 DEF FailureTrue
<1> QED
  BY <1>2, TypeInvariant, BeforeInvariant, PTL DEF Spec, ReportTrue
=============================================================================
