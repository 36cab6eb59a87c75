-------------------------- MODULE InstallationProofs -------------------------
(***************************************************************************)
(* What TLAPS proves about an installation: the migration of a former one, *)
(* for every number of directories, failures and kills, and the            *)
(* registration of the daemon with systemd and with launchd, for every     *)
(* number of invocations, daemons, failures and interferences.             *)
(***************************************************************************)
EXTENDS MCServing, FiniteSetTheorems, TLAPS

(***************************************************************************)
(* The inductive invariant.                                                *)
(***************************************************************************)

Registering == {"write", "enable", "undoEnable", "unwrite"}
Retiring == {"retire", "disable", "remove", "rewrite", "reenable", "restart"}
NeonStopped == pc \notin {"idle", "check", "stop"}

\* What a run knows, by where it stands.
Shape ==
    /\ pc = "idle" => retiring = None /\ runner = None
    /\ pc # "idle" => runner # None /\ result = "none"
    /\ pc \in {"idle", "check"} => ~had
    /\ pc \in {"idle", "check", "stop"} => ~was
    /\ pc \in {"idle", "check", "stop", "socket"} => moved = {} /\ next = 1
    /\ pc \in {"stop"} \cup Registering \cup Retiring => had
    /\ pc \in Registering \cup Retiring => next = Dirs + 1
    /\ pc = "promote" => next \in Dir
    /\ pc \in Retiring => retiring # None
    /\ \A d \in moved : d < next
    /\ was => had

\* Neon's daemon stands still from its stop to the end of the way back, and it
\* has not been running unless its data are at hand or about to be moved back.
NeonInv ==
    /\ active["neon"] => unit["neon"]
    /\ NeonStopped => ~active["neon"]
    /\ NeonStopped /\ ~had => ~unit["neon"]
    /\ pc \in Retiring \ {"retire"} /\ retiring = "neon" => ~prior.active
    /\ active["neon"] \/ was =>
         \A d \in Dir \ touched : current[d] = "neon" => d \in moved

\* Silvervine's daemon works only where Neon is not registered, so no run that
\* has a Neon registration to retire meets it.
ServingInv ==
    /\ serving => ~unit["neon"] /\ ~stray
    /\ had => ~serving
    /\ pc \notin {"idle", "check", "stop", "socket", "undo"} => ~stray

\* A directory is where it was found unless the run has moved it; those passed
\* over could not be moved.
DataInv ==
    /\ pc # "idle" =>
         \A d \in Dir \ touched :
           IF d \in moved
           THEN /\ before.legacy[d] # None /\ before.current[d] = None
                /\ legacy[d] = None /\ current[d] = before.legacy[d]
           ELSE legacy[d] = before.legacy[d] /\ current[d] = before.current[d]
    /\ pc \notin {"idle", "undo"} =>
         \A d \in Dir \ touched :
           d < next /\ d \notin moved => before.legacy[d] = None \/ before.current[d] # None
    /\ pc = "promote" /\ next \notin touched => legacy[next] # None /\ current[next] = None

\* The services are as they were found, except for what the run has done and not
\* yet undone, or has reported that it could not undo.
ServicesInv ==
    /\ pc \in {"check", "stop"} =>
         unit = before.unit /\ enabled = before.enabled /\ active = before.active
    /\ pc \notin {"idle", "check"} =>
         had = before.unit["neon"] /\ (had => ~before.unit["silvervine"])
    /\ NeonStopped => was = before.active["neon"]
    /\ pc \in {"socket", "inspect", "promote", "write"} =>
         /\ unit = before.unit /\ enabled = before.enabled
         /\ active["silvervine"] = before.active["silvervine"]
    /\ pc \in Registering => unit["neon"] /\ enabled["neon"] = before.enabled["neon"]
    /\ pc = "enable" => unit["silvervine"]
    /\ pc \in {"retire", "disable"} /\ retiring = "neon" =>
         unit["neon"] /\ enabled["neon"] = before.enabled["neon"]
    /\ pc \in {"retire", "disable", "remove"} /\ retiring = "neon" =>
         unit["silvervine"] /\ enabled["silvervine"] /\ active["silvervine"]
    /\ pc \in Retiring \ {"retire"} /\ retiring = "neon" =>
         prior.enabled = before.enabled["neon"]
    /\ pc \in {"reenable", "restart"} /\ retiring = "neon" /\ ~reported => unit["neon"]
    /\ pc = "restart" /\ retiring = "neon" /\ ~reported =>
         enabled["neon"] = before.enabled["neon"]
    /\ pc \in Retiring /\ retiring = "silvervine" /\ ~reported =>
         unit["neon"] /\ enabled["neon"] = before.enabled["neon"]
    /\ pc = "undo" /\ ~reported =>
         /\ unit = before.unit
         /\ \A s \in Service : unit[s] => enabled[s] = before.enabled[s]
         /\ unit["silvervine"] => active["silvervine"] = before.active["silvervine"]

MigrationInv ==
    /\ TypeOK /\ Shape /\ NeonInv /\ ServingInv /\ DataInv /\ ServicesInv
    /\ ErrorRestores /\ SuccessMigrates

\* The type invariant in parts.
FilesType ==
    /\ legacy \in [Dir -> Content] /\ current \in [Dir -> Content]
    /\ moved \subseteq Dir /\ touched \subseteq Dir
ServicesType ==
    /\ unit \in [Service -> BOOLEAN] /\ enabled \in [Service -> BOOLEAN]
    /\ active \in [Service -> BOOLEAN]
    /\ serving \in BOOLEAN /\ stray \in BOOLEAN
RunType ==
    /\ pc \in Steps /\ runner \in {None, "cli", "service"}
    /\ had \in BOOLEAN /\ was \in BOOLEAN
ProgressType ==
    /\ next \in 1 .. (Dirs + 1)
    /\ retiring \in Service \cup {None}
    /\ prior \in ServiceState
CountsType ==
    /\ failures \in 0 .. MaxFailures /\ kills \in 0 .. MaxKills
    /\ externals \in 0 .. MaxExternal
HistoryType ==
    /\ before \in Snapshot
    /\ result \in {"none", "ok", "error"} /\ reported \in BOOLEAN

LEMMA TypeParts ==
  /\ FilesType' /\ ServicesType' /\ RunType'
  /\ ProgressType' /\ CountsType' /\ HistoryType'
  => TypeOK'
BY DEF TypeOK, FilesType, ServicesType, RunType, ProgressType, CountsType, HistoryType

\* What NeverOverwrites says of a step.
Keeps ==
    \A d \in Dir :
      /\ current[d] # None /\ current'[d] # current[d] =>
           current'[d] = None /\ legacy'[d] = current[d]
      /\ legacy[d] # None /\ legacy'[d] # legacy[d] =>
           legacy'[d] = None /\ current'[d] = legacy[d]

LEMMA StoppedType == Stopped \in ServiceState
BY DEF Stopped, ServiceState

LEMMA FoundType == ASSUME TypeOK PROVE Found \in Snapshot
BY DEF TypeOK, Found, Snapshot

\* Which services have a unit file is told by the two of them.
LEMMA SameUnits ==
  ASSUME NEW u \in [Service -> BOOLEAN], NEW v \in [Service -> BOOLEAN],
         u["neon"], v["neon"], ~u["silvervine"], ~v["silvervine"]
  PROVE  u = v
<1>1. \A s \in Service : u[s] = v[s]
  BY DEF Service
<1>2. QED
  BY <1>1

(***************************************************************************)
(* Every step keeps it.                                                    *)
(***************************************************************************)

\* Every step keeps the types.
LEMMA TypeStep ==
  ASSUME TypeOK, Shape, [Next]_vars
  PROVE  TypeOK'
<1> USE ConstantsAssumption, StoppedType DEF TypeOK, Shape, Dir, Service, Steps, Retiring, Registering
<1>1. CASE Refuse
  BY <1>1 DEF data, services, bounds, At, Leave, Return, Refuse
<1>2. CASE CheckFails
  <2> USE <1>2 DEF data, services, At, Fails, Leave, Return, CheckFails
  <2>1. FilesType'
    BY DEF FilesType, Content
  <2>2. ServicesType'
    BY DEF ServicesType, ServiceState
  <2>3. RunType'
    BY DEF RunType
  <2>4. ProgressType'
    BY DEF ProgressType
  <2>5. CountsType'
    BY DEF CountsType
  <2>6. HistoryType'
    BY DEF HistoryType
  <2>7. QED
    BY <2>1, <2>2, <2>3, <2>4, <2>5, <2>6, TypeParts
<1>3. CASE Check
  BY <1>3 DEF data, services, bounds, history, At, Goto, Check
<1>4. CASE StopNeon
  BY <1>4 DEF data, bounds, history, At, Goto, StopNeon
<1>5. CASE StopNeonFails
  <2> USE <1>5 DEF data, services, At, Fails, Leave, Return, StopNeonFails
  <2>1. FilesType'
    BY DEF FilesType, Content
  <2>2. ServicesType'
    BY DEF ServicesType, ServiceState
  <2>3. RunType'
    BY DEF RunType
  <2>4. ProgressType'
    BY DEF ProgressType
  <2>5. CountsType'
    BY DEF CountsType
  <2>6. HistoryType'
    BY DEF HistoryType
  <2>7. QED
    BY <2>1, <2>2, <2>3, <2>4, <2>5, <2>6, TypeParts
<1>6. CASE Socket
  BY <1>6 DEF data, services, local, bounds, history, At, Goto, Socket
<1>7. CASE Inspect
  BY <1>7 DEF data, services, bounds, history, At, Goto, Advance, Inspect
<1>8. CASE Promote
  BY <1>8 DEF services, bounds, history, At, Advance, Promote
<1>9. CASE PromoteLate
  BY <1>9 DEF data, services, bounds, history, At, Advance, PromoteLate
<1>10. CASE PromoteFails
  BY <1>10 DEF data, services, local, history, At, Goto, Fails, PromoteFails
<1>11. CASE DataMoved
  <2> USE <1>11 DEF data, local, bounds, At, Goto, Leave, Return, DataMoved
  <2>1. FilesType'
    BY DEF FilesType, Content
  <2>2. ServicesType'
    BY DEF ServicesType, ServiceState
  <2>3. RunType'
    BY DEF RunType
  <2>4. ProgressType'
    <3>1. CASE had
      BY <3>1 DEF ProgressType
    <3>2. CASE ~had
      BY <3>2 DEF ProgressType
    <3>3. QED
      BY <3>1, <3>2
  <2>5. CountsType'
    BY DEF CountsType
  <2>6. HistoryType'
    BY DEF HistoryType
  <2>7. QED
    BY <2>1, <2>2, <2>3, <2>4, <2>5, <2>6, TypeParts
<1>12. CASE WriteUnit
  BY <1>12 DEF data, local, bounds, history, At, Goto, WriteUnit
<1>13. CASE WriteUnitFails
  <2> USE <1>13 DEF data, local, history, At, Goto, Fails, WriteUnitFails
  <2>1. FilesType'
    BY DEF FilesType, Content
  <2>2. ServicesType'
    BY DEF ServicesType, ServiceState
  <2>3. RunType'
    BY DEF RunType
  <2>4. ProgressType'
    BY DEF ProgressType
  <2>5. CountsType'
    BY DEF CountsType
  <2>6. HistoryType'
    BY DEF HistoryType
  <2>7. QED
    BY <2>1, <2>2, <2>3, <2>4, <2>5, <2>6, TypeParts
<1>14. CASE EnableNow
  BY <1>14 DEF data, bounds, history, At, Goto, Switch, EnableNow
<1>15. CASE EnableNowFails
  <2> USE <1>15 DEF data, local, history, At, Goto, Fails, EnableNowFails
  <2>1. FilesType'
    BY DEF FilesType, Content
  <2>2. ServicesType'
    BY DEF ServicesType, ServiceState
  <2>3. RunType'
    BY DEF RunType
  <2>4. ProgressType'
    BY DEF ProgressType
  <2>5. CountsType'
    BY DEF CountsType
  <2>6. HistoryType'
    BY DEF HistoryType
  <2>7. QED
    BY <2>1, <2>2, <2>3, <2>4, <2>5, <2>6, TypeParts
<1>16. CASE UndoEnable
  BY <1>16 DEF data, local, bounds, history, At, Goto, Switch, UndoEnable
<1>17. CASE UndoEnableFails
  <2> USE <1>17 DEF data, local, At, Goto, Fails, HalfDisabled, UndoEnableFails
  <2>1. FilesType'
    BY DEF FilesType, Content
  <2>2. ServicesType'
    BY DEF ServicesType, ServiceState
  <2>3. RunType'
    BY DEF RunType
  <2>4. ProgressType'
    BY DEF ProgressType
  <2>5. CountsType'
    BY DEF CountsType
  <2>6. HistoryType'
    BY DEF HistoryType
  <2>7. QED
    BY <2>1, <2>2, <2>3, <2>4, <2>5, <2>6, TypeParts
<1>18. CASE RemoveUnit
  BY <1>18 DEF data, bounds, history, At, Goto, RemoveUnit
<1>19. CASE RemoveUnitFails
  <2> USE <1>19 DEF data, At, Goto, Fails, RemoveUnitFails
  <2>1. FilesType'
    BY DEF FilesType, Content
  <2>2. ServicesType'
    BY DEF ServicesType, ServiceState
  <2>3. RunType'
    BY DEF RunType
  <2>4. ProgressType'
    BY DEF ProgressType
  <2>5. CountsType'
    BY DEF CountsType
  <2>6. HistoryType'
    BY DEF HistoryType
  <2>7. QED
    BY <2>1, <2>2, <2>3, <2>4, <2>5, <2>6, TypeParts
<1>20. CASE RetireProbe
  <2> USE <1>20 DEF data, services, bounds, history, At, Goto, RetireProbe
  <2>1. FilesType'
    BY DEF FilesType, Content
  <2>2. ServicesType'
    BY DEF ServicesType, ServiceState
  <2>3. RunType'
    BY DEF RunType
  <2>4. ProgressType'
    BY DEF ProgressType, ServiceState
  <2>5. CountsType'
    BY DEF CountsType
  <2>6. HistoryType'
    BY DEF HistoryType
  <2>7. QED
    BY <2>1, <2>2, <2>3, <2>4, <2>5, <2>6, TypeParts
<1>21. CASE RetireAbsent
  <2> USE <1>21 DEF data, local, bounds, At, Goto, Leave, Return, Switch, Retired,
       RetireAbsent
  <2>1. FilesType'
    BY DEF FilesType, Content
  <2>2. ServicesType'
    BY DEF ServicesType, ServiceState
  <2>3. RunType'
    BY DEF RunType
  <2>4. ProgressType'
    <3>1. CASE retiring = "neon"
      BY <3>1 DEF ProgressType
    <3>2. CASE retiring # "neon"
      BY <3>2 DEF ProgressType
    <3>3. QED
      BY <3>1, <3>2
  <2>5. CountsType'
    BY DEF CountsType
  <2>6. HistoryType'
    BY DEF HistoryType
  <2>7. QED
    BY <2>1, <2>2, <2>3, <2>4, <2>5, <2>6, TypeParts
<1>22. CASE RetireFails
  <2> USE <1>22 DEF data, services, At, Goto, Fails, Leave, Return, NotRetired,
       RetireFails
  <2>1. FilesType'
    BY DEF FilesType, Content
  <2>2. ServicesType'
    BY DEF ServicesType, ServiceState
  <2>3. RunType'
    BY DEF RunType
  <2>4. ProgressType'
    <3>1. CASE retiring = "neon"
      BY <3>1 DEF ProgressType
    <3>2. CASE retiring # "neon"
      BY <3>2 DEF ProgressType
    <3>3. QED
      BY <3>1, <3>2
  <2>5. CountsType'
    BY DEF CountsType
  <2>6. HistoryType'
    BY DEF HistoryType
  <2>7. QED
    BY <2>1, <2>2, <2>3, <2>4, <2>5, <2>6, TypeParts
<1>23. CASE Disable
  BY <1>23 DEF data, local, bounds, history, At, Goto, Switch, Disable
<1>24. CASE DisableFails
  <2> USE <1>24 DEF data, local, history, At, Goto, Fails, HalfDisabled, DisableFails
  <2>1. FilesType'
    BY DEF FilesType, Content
  <2>2. ServicesType'
    BY DEF ServicesType, ServiceState
  <2>3. RunType'
    BY DEF RunType
  <2>4. ProgressType'
    BY DEF ProgressType
  <2>5. CountsType'
    BY DEF CountsType
  <2>6. HistoryType'
    BY DEF HistoryType
  <2>7. QED
    BY <2>1, <2>2, <2>3, <2>4, <2>5, <2>6, TypeParts
<1>25. CASE Remove
  <2> USE <1>25 DEF data, local, bounds, At, Goto, Leave, Return, Retired, Remove
  <2>1. FilesType'
    BY DEF FilesType, Content
  <2>2. ServicesType'
    BY DEF ServicesType, ServiceState
  <2>3. RunType'
    BY DEF RunType
  <2>4. ProgressType'
    <3>1. CASE retiring = "neon"
      BY <3>1 DEF ProgressType
    <3>2. CASE retiring # "neon"
      BY <3>2 DEF ProgressType
    <3>3. QED
      BY <3>1, <3>2
  <2>5. CountsType'
    BY DEF CountsType
  <2>6. HistoryType'
    BY DEF HistoryType
  <2>7. QED
    BY <2>1, <2>2, <2>3, <2>4, <2>5, <2>6, TypeParts
<1>26. CASE RemoveFails
  <2> USE <1>26 DEF data, local, history, At, Goto, Fails, RemoveFails
  <2>1. FilesType'
    BY DEF FilesType, Content
  <2>2. ServicesType'
    BY DEF ServicesType, ServiceState
  <2>3. RunType'
    BY DEF RunType
  <2>4. ProgressType'
    BY DEF ProgressType
  <2>5. CountsType'
    BY DEF CountsType
  <2>6. HistoryType'
    BY DEF HistoryType
  <2>7. QED
    BY <2>1, <2>2, <2>3, <2>4, <2>5, <2>6, TypeParts
<1>27. CASE Rewrite
  BY <1>27 DEF data, local, bounds, history, At, Goto, Rewrite
<1>28. CASE RewriteFails
  <2> USE <1>28 DEF data, local, At, Goto, Fails, RewriteFails
  <2>1. FilesType'
    BY DEF FilesType, Content
  <2>2. ServicesType'
    BY DEF ServicesType, ServiceState
  <2>3. RunType'
    BY DEF RunType
  <2>4. ProgressType'
    BY DEF ProgressType
  <2>5. CountsType'
    BY DEF CountsType
  <2>6. HistoryType'
    BY DEF HistoryType
  <2>7. QED
    BY <2>1, <2>2, <2>3, <2>4, <2>5, <2>6, TypeParts
<1>29. CASE Reenable
  <2> USE <1>29 DEF data, local, bounds, history, At, Goto, Reenable
  <2>1. FilesType'
    BY DEF FilesType, Content
  <2>2. ServicesType'
    BY DEF ServicesType, ServiceState
  <2>3. RunType'
    BY DEF RunType
  <2>4. ProgressType'
    BY DEF ProgressType
  <2>5. CountsType'
    BY DEF CountsType
  <2>6. HistoryType'
    BY DEF HistoryType
  <2>7. QED
    BY <2>1, <2>2, <2>3, <2>4, <2>5, <2>6, TypeParts
<1>30. CASE ReenableFails
  BY <1>30 DEF data, services, local, At, Goto, Fails, ReenableFails
<1>31. CASE Restart
  <2> USE <1>31 DEF data, bounds, At, Goto, Leave, Return, NotRetired, Restart
  <2>1. FilesType'
    BY DEF FilesType, Content
  <2>2. ServicesType'
    BY DEF ServicesType, ServiceState
  <2>3. RunType'
    BY DEF RunType
  <2>4. ProgressType'
    <3>1. CASE retiring = "neon"
      BY <3>1 DEF ProgressType
    <3>2. CASE retiring # "neon"
      BY <3>2 DEF ProgressType
    <3>3. QED
      BY <3>1, <3>2
  <2>5. CountsType'
    BY DEF CountsType
  <2>6. HistoryType'
    BY DEF HistoryType
  <2>7. QED
    BY <2>1, <2>2, <2>3, <2>4, <2>5, <2>6, TypeParts
<1>32. CASE RestartFails
  <2> USE <1>32 DEF data, services, At, Goto, Fails, Leave, Return, RestartFails
  <2>1. FilesType'
    BY DEF FilesType, Content
  <2>2. ServicesType'
    BY DEF ServicesType, ServiceState
  <2>3. RunType'
    BY DEF RunType
  <2>4. ProgressType'
    <3>1. CASE retiring = "neon"
      BY <3>1 DEF ProgressType
    <3>2. CASE retiring # "neon"
      BY <3>2 DEF ProgressType
    <3>3. QED
      BY <3>1, <3>2
  <2>5. CountsType'
    BY DEF CountsType
  <2>6. HistoryType'
    BY DEF HistoryType
  <2>7. QED
    BY <2>1, <2>2, <2>3, <2>4, <2>5, <2>6, TypeParts
<1>33. CASE UndoMove
  BY <1>33 DEF services, bounds, history, At, Last, UndoMove
<1>34. CASE UndoMoveFails
  <2> USE <1>34 DEF data, services, At, Fails, Leave, Return, Last, UndoMoveFails
  <2>1. FilesType'
    BY DEF FilesType, Content
  <2>2. ServicesType'
    BY DEF ServicesType, ServiceState
  <2>3. RunType'
    BY DEF RunType
  <2>4. ProgressType'
    BY DEF ProgressType
  <2>5. CountsType'
    BY DEF CountsType
  <2>6. HistoryType'
    BY DEF HistoryType
  <2>7. QED
    BY <2>1, <2>2, <2>3, <2>4, <2>5, <2>6, TypeParts
<1>35. CASE Restore
  <2> USE <1>35 DEF data, bounds, At, Leave, Return, Restore
  <2>1. FilesType'
    BY DEF FilesType, Content
  <2>2. ServicesType'
    BY DEF ServicesType, ServiceState
  <2>3. RunType'
    BY DEF RunType
  <2>4. ProgressType'
    BY DEF ProgressType
  <2>5. CountsType'
    BY DEF CountsType
  <2>6. HistoryType'
    BY DEF HistoryType
  <2>7. QED
    BY <2>1, <2>2, <2>3, <2>4, <2>5, <2>6, TypeParts
<1>36. CASE RestoreFails
  <2> USE <1>36 DEF data, services, At, Fails, Leave, Return, RestoreFails
  <2>1. FilesType'
    BY DEF FilesType, Content
  <2>2. ServicesType'
    BY DEF ServicesType, ServiceState
  <2>3. RunType'
    BY DEF RunType
  <2>4. ProgressType'
    BY DEF ProgressType
  <2>5. CountsType'
    BY DEF CountsType
  <2>6. HistoryType'
    BY DEF HistoryType
  <2>7. QED
    BY <2>1, <2>2, <2>3, <2>4, <2>5, <2>6, TypeParts
<1>37. CASE Begin("cli") \/ Begin("service")
  BY <1>37, FoundType DEF data, services, local, bounds, At, Goto, Begin
<1>38. CASE Kill
  <2> USE <1>38 DEF data, services, history, At, Leave, Kill
  <2>1. FilesType'
    BY DEF FilesType, Content
  <2>2. ServicesType'
    BY DEF ServicesType, ServiceState
  <2>3. RunType'
    BY DEF RunType
  <2>4. ProgressType'
    BY DEF ProgressType
  <2>5. CountsType'
    BY DEF CountsType
  <2>6. HistoryType'
    BY DEF HistoryType
  <2>7. QED
    BY <2>1, <2>2, <2>3, <2>4, <2>5, <2>6, TypeParts
<1>39. CASE StrayQuits
  BY ZenonT(30), <1>39 DEF data, services, local, bounds, history, StrayQuits
<1>40. CASE ServiceRestarts
  BY ZenonT(30), <1>40 DEF data, local, bounds, history, ServiceRestarts
<1>41. CASE \E d \in Dir : External(d)
  <2> USE <1>41 DEF services, local, External
  <2>1. FilesType'
    BY DEF FilesType, Content
  <2>2. ServicesType'
    BY DEF ServicesType, ServiceState
  <2>3. RunType'
    BY DEF RunType
  <2>4. ProgressType'
    BY DEF ProgressType
  <2>5. CountsType'
    BY DEF CountsType
  <2>6. HistoryType'
    BY DEF HistoryType
  <2>7. QED
    BY <2>1, <2>2, <2>3, <2>4, <2>5, <2>6, TypeParts
<1>42. CASE UNCHANGED vars
  BY <1>42 DEF vars, data, services, local, bounds, history
<1>43. QED
  BY <1>1, <1>2, <1>3, <1>4, <1>5, <1>6, <1>7, <1>8, <1>9, <1>10, <1>11, <1>12, <1>13,
       <1>14, <1>15, <1>16, <1>17, <1>18, <1>19, <1>20, <1>21, <1>22, <1>23, <1>24,
       <1>25, <1>26, <1>27, <1>28, <1>29, <1>30, <1>31, <1>32, <1>33, <1>34, <1>35,
       <1>36, <1>37, <1>38, <1>39, <1>40, <1>41, <1>42 DEF Next, Run

\* What a run knows fits where it stands.
LEMMA ShapeStep ==
  ASSUME TypeOK, Shape, [Next]_vars
  PROVE  Shape'
<1> USE ConstantsAssumption, StoppedType DEF TypeOK, Shape, Dir, Service, Steps, Retiring, Registering
<1>1. CASE Refuse
  BY <1>1 DEF data, services, bounds, At, Leave, Return, Refuse
<1>2. CASE CheckFails
  BY <1>2 DEF data, services, At, Fails, Leave, Return, CheckFails
<1>3. CASE Check
  BY <1>3 DEF data, services, bounds, history, At, Goto, Check
<1>4. CASE StopNeon
  BY <1>4 DEF data, bounds, history, At, Goto, StopNeon
<1>5. CASE StopNeonFails
  BY <1>5 DEF data, services, At, Fails, Leave, Return, StopNeonFails
<1>6. CASE Socket
  BY <1>6 DEF data, services, local, bounds, history, At, Goto, Socket
<1>7. CASE Inspect
  BY <1>7 DEF data, services, bounds, history, At, Goto, Advance, Inspect
<1>8. CASE Promote
  BY <1>8 DEF services, bounds, history, At, Advance, Promote
<1>9. CASE PromoteLate
  BY <1>9 DEF data, services, bounds, history, At, Advance, PromoteLate
<1>10. CASE PromoteFails
  BY <1>10 DEF data, services, local, history, At, Goto, Fails, PromoteFails
<1>11. CASE DataMoved
  <2>1. CASE had
    BY <1>11, <2>1 DEF data, local, bounds, At, Goto, Leave, Return, DataMoved
  <2>2. CASE ~had
    BY <1>11, <2>2 DEF data, local, bounds, At, Goto, Leave, Return, DataMoved
  <2>3. QED
    BY <2>1, <2>2
<1>12. CASE WriteUnit
  BY <1>12 DEF data, local, bounds, history, At, Goto, WriteUnit
<1>13. CASE WriteUnitFails
  BY <1>13 DEF data, local, history, At, Goto, Fails, WriteUnitFails
<1>14. CASE EnableNow
  BY <1>14 DEF data, bounds, history, At, Goto, Switch, EnableNow
<1>15. CASE EnableNowFails
  BY <1>15 DEF data, local, history, At, Goto, Fails, EnableNowFails
<1>16. CASE UndoEnable
  BY <1>16 DEF data, local, bounds, history, At, Goto, Switch, UndoEnable
<1>17. CASE UndoEnableFails
  BY <1>17 DEF data, local, At, Goto, Fails, HalfDisabled, UndoEnableFails
<1>18. CASE RemoveUnit
  BY <1>18 DEF data, bounds, history, At, Goto, RemoveUnit
<1>19. CASE RemoveUnitFails
  BY <1>19 DEF data, At, Goto, Fails, RemoveUnitFails
<1>20. CASE RetireProbe
  BY <1>20 DEF data, services, bounds, history, At, Goto, RetireProbe
<1>21. CASE RetireAbsent
  <2>1. CASE retiring = "neon"
    BY <1>21, <2>1 DEF data, local, bounds, At, Goto, Leave, Return, Switch, Retired,
         RetireAbsent
  <2>2. CASE retiring # "neon"
    BY <1>21, <2>2 DEF data, local, bounds, At, Goto, Leave, Return, Switch, Retired,
         RetireAbsent
  <2>3. QED
    BY <2>1, <2>2
<1>22. CASE RetireFails
  <2>1. CASE retiring = "neon"
    BY <1>22, <2>1 DEF data, services, At, Goto, Fails, Leave, Return, NotRetired,
         RetireFails
  <2>2. CASE retiring # "neon"
    BY <1>22, <2>2 DEF data, services, At, Goto, Fails, Leave, Return, NotRetired,
         RetireFails
  <2>3. QED
    BY <2>1, <2>2
<1>23. CASE Disable
  BY <1>23 DEF data, local, bounds, history, At, Goto, Switch, Disable
<1>24. CASE DisableFails
  BY <1>24 DEF data, local, history, At, Goto, Fails, HalfDisabled, DisableFails
<1>25. CASE Remove
  <2>1. CASE retiring = "neon"
    BY <1>25, <2>1 DEF data, local, bounds, At, Goto, Leave, Return, Retired, Remove
  <2>2. CASE retiring # "neon"
    BY <1>25, <2>2 DEF data, local, bounds, At, Goto, Leave, Return, Retired, Remove
  <2>3. QED
    BY <2>1, <2>2
<1>26. CASE RemoveFails
  BY <1>26 DEF data, local, history, At, Goto, Fails, RemoveFails
<1>27. CASE Rewrite
  BY <1>27 DEF data, local, bounds, history, At, Goto, Rewrite
<1>28. CASE RewriteFails
  BY <1>28 DEF data, local, At, Goto, Fails, RewriteFails
<1>29. CASE Reenable
  BY <1>29 DEF data, local, bounds, history, At, Goto, Reenable
<1>30. CASE ReenableFails
  BY <1>30 DEF data, services, local, At, Goto, Fails, ReenableFails
<1>31. CASE Restart
  <2>1. CASE retiring = "neon"
    BY <1>31, <2>1 DEF data, bounds, At, Goto, Leave, Return, NotRetired, Restart
  <2>2. CASE retiring # "neon"
    BY <1>31, <2>2 DEF data, bounds, At, Goto, Leave, Return, NotRetired, Restart
  <2>3. QED
    BY <2>1, <2>2
<1>32. CASE RestartFails
  <2>1. CASE retiring = "neon"
    BY <1>32, <2>1 DEF data, services, At, Goto, Fails, Leave, Return, RestartFails
  <2>2. CASE retiring # "neon"
    BY <1>32, <2>2 DEF data, services, At, Goto, Fails, Leave, Return, RestartFails
  <2>3. QED
    BY <2>1, <2>2
<1>33. CASE UndoMove
  BY <1>33 DEF services, bounds, history, At, Last, UndoMove
<1>34. CASE UndoMoveFails
  BY <1>34 DEF data, services, At, Fails, Leave, Return, Last, UndoMoveFails
<1>35. CASE Restore
  BY <1>35 DEF data, bounds, At, Leave, Return, Restore
<1>36. CASE RestoreFails
  BY <1>36 DEF data, services, At, Fails, Leave, Return, RestoreFails
<1>37. CASE Begin("cli") \/ Begin("service")
  <2>1. CASE Begin("cli")
    BY <2>1 DEF data, services, local, bounds, Found, At, Goto, Begin
  <2>2. CASE Begin("service")
    BY <2>2 DEF data, services, local, bounds, Found, At, Goto, Begin
  <2>3. QED
    BY <1>37, <2>1, <2>2
<1>38. CASE Kill
  BY <1>38 DEF data, services, history, At, Leave, Kill
<1>39. CASE StrayQuits
  BY <1>39 DEF data, services, local, bounds, history, StrayQuits
<1>40. CASE ServiceRestarts
  BY <1>40 DEF data, local, bounds, history, ServiceRestarts
<1>41. CASE \E d \in Dir : External(d)
  BY <1>41 DEF services, local, External
<1>42. CASE UNCHANGED vars
  BY <1>42 DEF vars, data, services, local, bounds, history
<1>43. QED
  BY <1>1, <1>2, <1>3, <1>4, <1>5, <1>6, <1>7, <1>8, <1>9, <1>10, <1>11, <1>12, <1>13,
       <1>14, <1>15, <1>16, <1>17, <1>18, <1>19, <1>20, <1>21, <1>22, <1>23, <1>24,
       <1>25, <1>26, <1>27, <1>28, <1>29, <1>30, <1>31, <1>32, <1>33, <1>34, <1>35,
       <1>36, <1>37, <1>38, <1>39, <1>40, <1>41, <1>42 DEF Next, Run

\* Neon's daemon stands still while its data move, and Silvervine's works alone.
LEMMA NeonStep ==
  ASSUME TypeOK, Shape, NeonInv, ServingInv, [Next]_vars
  PROVE  (NeonInv /\ ServingInv)'
<1> USE ConstantsAssumption, StoppedType DEF TypeOK, Shape, NeonInv, ServingInv, NeonStopped, Dir, Service, Retiring, Registering
<1>1. CASE Refuse
  BY <1>1 DEF data, services, bounds, At, Leave, Return, Refuse
<1>2. CASE CheckFails
  BY <1>2 DEF data, services, At, Fails, Leave, Return, CheckFails
<1>3. CASE Check
  BY <1>3 DEF data, services, bounds, history, At, Goto, Check
<1>4. CASE StopNeon
  BY <1>4 DEF data, bounds, history, At, Goto, StopNeon
<1>5. CASE StopNeonFails
  BY <1>5 DEF data, services, At, Fails, Leave, Return, StopNeonFails
<1>6. CASE Socket
  BY <1>6 DEF data, services, local, bounds, history, At, Goto, Socket
<1>7. CASE Inspect
  BY <1>7 DEF data, services, bounds, history, At, Goto, Advance, Inspect
<1>8. CASE Promote
  BY <1>8 DEF services, bounds, history, At, Advance, Promote
<1>9. CASE PromoteLate
  BY <1>9 DEF data, services, bounds, history, At, Advance, PromoteLate
<1>10. CASE PromoteFails
  BY <1>10 DEF data, services, local, history, At, Goto, Fails, PromoteFails
<1>11. CASE DataMoved
  <2>1. CASE had
    BY <1>11, <2>1 DEF data, local, bounds, At, Goto, Leave, Return, DataMoved
  <2>2. CASE ~had
    BY <1>11, <2>2 DEF data, local, bounds, At, Goto, Leave, Return, DataMoved
  <2>3. QED
    BY <2>1, <2>2
<1>12. CASE WriteUnit
  BY <1>12 DEF data, local, bounds, history, At, Goto, WriteUnit
<1>13. CASE WriteUnitFails
  BY <1>13 DEF data, local, history, At, Goto, Fails, WriteUnitFails
<1>14. CASE EnableNow
  BY <1>14 DEF data, bounds, history, At, Goto, Switch, EnableNow
<1>15. CASE EnableNowFails
  BY <1>15 DEF data, local, history, At, Goto, Fails, EnableNowFails
<1>16. CASE UndoEnable
  BY <1>16 DEF data, local, bounds, history, At, Goto, Switch, UndoEnable
<1>17. CASE UndoEnableFails
  BY <1>17 DEF data, local, At, Goto, Fails, HalfDisabled, UndoEnableFails
<1>18. CASE RemoveUnit
  BY <1>18 DEF data, bounds, history, At, Goto, RemoveUnit
<1>19. CASE RemoveUnitFails
  BY <1>19 DEF data, At, Goto, Fails, RemoveUnitFails
<1>20. CASE RetireProbe
  BY <1>20 DEF data, services, bounds, history, At, Goto, RetireProbe
<1>21. CASE RetireAbsent
  <2>1. CASE retiring = "neon"
    BY <1>21, <2>1 DEF data, local, bounds, At, Goto, Leave, Return, Switch, Retired,
         RetireAbsent
  <2>2. CASE retiring # "neon"
    BY <1>21, <2>2 DEF data, local, bounds, At, Goto, Leave, Return, Switch, Retired,
         RetireAbsent
  <2>3. QED
    BY <2>1, <2>2
<1>22. CASE RetireFails
  <2>1. CASE retiring = "neon"
    BY <1>22, <2>1 DEF data, services, At, Goto, Fails, Leave, Return, NotRetired,
         RetireFails
  <2>2. CASE retiring # "neon"
    BY <1>22, <2>2 DEF data, services, At, Goto, Fails, Leave, Return, NotRetired,
         RetireFails
  <2>3. QED
    BY <2>1, <2>2
<1>23. CASE Disable
  BY <1>23 DEF data, local, bounds, history, At, Goto, Switch, Disable
<1>24. CASE DisableFails
  BY <1>24 DEF data, local, history, At, Goto, Fails, HalfDisabled, DisableFails
<1>25. CASE Remove
  <2>1. CASE retiring = "neon"
    BY <1>25, <2>1 DEF data, local, bounds, At, Goto, Leave, Return, Retired, Remove
  <2>2. CASE retiring # "neon"
    BY <1>25, <2>2 DEF data, local, bounds, At, Goto, Leave, Return, Retired, Remove
  <2>3. QED
    BY <2>1, <2>2
<1>26. CASE RemoveFails
  BY <1>26 DEF data, local, history, At, Goto, Fails, RemoveFails
<1>27. CASE Rewrite
  BY <1>27 DEF data, local, bounds, history, At, Goto, Rewrite
<1>28. CASE RewriteFails
  BY <1>28 DEF data, local, At, Goto, Fails, RewriteFails
<1>29. CASE Reenable
  BY <1>29 DEF data, local, bounds, history, At, Goto, Reenable
<1>30. CASE ReenableFails
  BY <1>30 DEF data, services, local, At, Goto, Fails, ReenableFails
<1>31. CASE Restart
  <2>1. CASE retiring = "neon"
    BY <1>31, <2>1 DEF data, bounds, At, Goto, Leave, Return, NotRetired, Restart
  <2>2. CASE retiring # "neon"
    BY <1>31, <2>2 DEF data, bounds, At, Goto, Leave, Return, NotRetired, Restart
  <2>3. QED
    BY <2>1, <2>2
<1>32. CASE RestartFails
  <2>1. CASE retiring = "neon"
    BY <1>32, <2>1 DEF data, services, At, Goto, Fails, Leave, Return, RestartFails
  <2>2. CASE retiring # "neon"
    BY <1>32, <2>2 DEF data, services, At, Goto, Fails, Leave, Return, RestartFails
  <2>3. QED
    BY <2>1, <2>2
<1>33. CASE UndoMove
  BY <1>33 DEF services, bounds, history, At, Last, UndoMove
<1>34. CASE UndoMoveFails
  BY <1>34 DEF data, services, At, Fails, Leave, Return, Last, UndoMoveFails
<1>35. CASE Restore
  BY <1>35 DEF data, bounds, At, Leave, Return, Restore
<1>36. CASE RestoreFails
  BY <1>36 DEF data, services, At, Fails, Leave, Return, RestoreFails
<1>37. CASE Begin("cli") \/ Begin("service")
  <2>1. CASE Begin("cli")
    BY <2>1 DEF data, services, local, bounds, Found, At, Goto, Begin
  <2>2. CASE Begin("service")
    BY <2>2 DEF data, services, local, bounds, Found, At, Goto, Begin
  <2>3. QED
    BY <1>37, <2>1, <2>2
<1>38. CASE Kill
  BY <1>38 DEF data, services, history, At, Leave, Kill
<1>39. CASE StrayQuits
  BY <1>39 DEF data, services, local, bounds, history, StrayQuits
<1>40. CASE ServiceRestarts
  BY <1>40 DEF data, local, bounds, history, ServiceRestarts
<1>41. CASE \E d \in Dir : External(d)
  BY <1>41 DEF services, local, External
<1>42. CASE UNCHANGED vars
  BY <1>42 DEF vars, data, services, local, bounds, history
<1>43. QED
  BY <1>1, <1>2, <1>3, <1>4, <1>5, <1>6, <1>7, <1>8, <1>9, <1>10, <1>11, <1>12, <1>13,
       <1>14, <1>15, <1>16, <1>17, <1>18, <1>19, <1>20, <1>21, <1>22, <1>23, <1>24,
       <1>25, <1>26, <1>27, <1>28, <1>29, <1>30, <1>31, <1>32, <1>33, <1>34, <1>35,
       <1>36, <1>37, <1>38, <1>39, <1>40, <1>41, <1>42 DEF Next, Run

\* A directory is where it was found or where the run has moved it.
LEMMA DataStep ==
  ASSUME TypeOK, Shape, DataInv, [Next]_vars
  PROVE  DataInv'
<1> USE ConstantsAssumption, StoppedType DEF TypeOK, Shape, DataInv, Dir, Service, Retiring, Registering
<1>1. CASE Refuse
  BY <1>1 DEF data, services, bounds, At, Leave, Return, Refuse
<1>2. CASE CheckFails
  BY <1>2 DEF data, services, At, Fails, Leave, Return, CheckFails
<1>3. CASE Check
  BY <1>3 DEF data, services, bounds, history, At, Goto, Check
<1>4. CASE StopNeon
  BY <1>4 DEF data, bounds, history, At, Goto, StopNeon
<1>5. CASE StopNeonFails
  BY <1>5 DEF data, services, At, Fails, Leave, Return, StopNeonFails
<1>6. CASE Socket
  BY <1>6 DEF data, services, local, bounds, history, At, Goto, Socket
<1>7. CASE Inspect
  BY <1>7 DEF data, services, bounds, history, At, Goto, Advance, Inspect
<1>8. CASE Promote
  BY <1>8 DEF services, bounds, history, At, Advance, Promote
<1>9. CASE PromoteLate
  BY <1>9 DEF data, services, bounds, history, At, Advance, PromoteLate
<1>10. CASE PromoteFails
  BY <1>10 DEF data, services, local, history, At, Goto, Fails, PromoteFails
<1>11. CASE DataMoved
  <2>1. CASE had
    BY <1>11, <2>1 DEF data, local, bounds, At, Goto, Leave, Return, DataMoved
  <2>2. CASE ~had
    BY <1>11, <2>2 DEF data, local, bounds, At, Goto, Leave, Return, DataMoved
  <2>3. QED
    BY <2>1, <2>2
<1>12. CASE WriteUnit
  BY <1>12 DEF data, local, bounds, history, At, Goto, WriteUnit
<1>13. CASE WriteUnitFails
  BY <1>13 DEF data, local, history, At, Goto, Fails, WriteUnitFails
<1>14. CASE EnableNow
  BY <1>14 DEF data, bounds, history, At, Goto, Switch, EnableNow
<1>15. CASE EnableNowFails
  BY <1>15 DEF data, local, history, At, Goto, Fails, EnableNowFails
<1>16. CASE UndoEnable
  BY <1>16 DEF data, local, bounds, history, At, Goto, Switch, UndoEnable
<1>17. CASE UndoEnableFails
  BY <1>17 DEF data, local, At, Goto, Fails, HalfDisabled, UndoEnableFails
<1>18. CASE RemoveUnit
  BY <1>18 DEF data, bounds, history, At, Goto, RemoveUnit
<1>19. CASE RemoveUnitFails
  BY <1>19 DEF data, At, Goto, Fails, RemoveUnitFails
<1>20. CASE RetireProbe
  BY <1>20 DEF data, services, bounds, history, At, Goto, RetireProbe
<1>21. CASE RetireAbsent
  <2>1. CASE retiring = "neon"
    BY <1>21, <2>1 DEF data, local, bounds, At, Goto, Leave, Return, Switch, Retired,
         RetireAbsent
  <2>2. CASE retiring # "neon"
    BY <1>21, <2>2 DEF data, local, bounds, At, Goto, Leave, Return, Switch, Retired,
         RetireAbsent
  <2>3. QED
    BY <2>1, <2>2
<1>22. CASE RetireFails
  <2>1. CASE retiring = "neon"
    BY <1>22, <2>1 DEF data, services, At, Goto, Fails, Leave, Return, NotRetired,
         RetireFails
  <2>2. CASE retiring # "neon"
    BY <1>22, <2>2 DEF data, services, At, Goto, Fails, Leave, Return, NotRetired,
         RetireFails
  <2>3. QED
    BY <2>1, <2>2
<1>23. CASE Disable
  BY <1>23 DEF data, local, bounds, history, At, Goto, Switch, Disable
<1>24. CASE DisableFails
  BY <1>24 DEF data, local, history, At, Goto, Fails, HalfDisabled, DisableFails
<1>25. CASE Remove
  <2>1. CASE retiring = "neon"
    BY <1>25, <2>1 DEF data, local, bounds, At, Goto, Leave, Return, Retired, Remove
  <2>2. CASE retiring # "neon"
    BY <1>25, <2>2 DEF data, local, bounds, At, Goto, Leave, Return, Retired, Remove
  <2>3. QED
    BY <2>1, <2>2
<1>26. CASE RemoveFails
  BY <1>26 DEF data, local, history, At, Goto, Fails, RemoveFails
<1>27. CASE Rewrite
  BY <1>27 DEF data, local, bounds, history, At, Goto, Rewrite
<1>28. CASE RewriteFails
  BY <1>28 DEF data, local, At, Goto, Fails, RewriteFails
<1>29. CASE Reenable
  BY <1>29 DEF data, local, bounds, history, At, Goto, Reenable
<1>30. CASE ReenableFails
  BY <1>30 DEF data, services, local, At, Goto, Fails, ReenableFails
<1>31. CASE Restart
  <2>1. CASE retiring = "neon"
    BY <1>31, <2>1 DEF data, bounds, At, Goto, Leave, Return, NotRetired, Restart
  <2>2. CASE retiring # "neon"
    BY <1>31, <2>2 DEF data, bounds, At, Goto, Leave, Return, NotRetired, Restart
  <2>3. QED
    BY <2>1, <2>2
<1>32. CASE RestartFails
  <2>1. CASE retiring = "neon"
    BY <1>32, <2>1 DEF data, services, At, Goto, Fails, Leave, Return, RestartFails
  <2>2. CASE retiring # "neon"
    BY <1>32, <2>2 DEF data, services, At, Goto, Fails, Leave, Return, RestartFails
  <2>3. QED
    BY <2>1, <2>2
<1>33. CASE UndoMove
  BY <1>33 DEF services, bounds, history, At, Last, UndoMove
<1>34. CASE UndoMoveFails
  BY <1>34 DEF data, services, At, Fails, Leave, Return, Last, UndoMoveFails
<1>35. CASE Restore
  BY <1>35 DEF data, bounds, At, Leave, Return, Restore
<1>36. CASE RestoreFails
  BY <1>36 DEF data, services, At, Fails, Leave, Return, RestoreFails
<1>37. CASE Begin("cli") \/ Begin("service")
  <2>1. CASE Begin("cli")
    BY <2>1 DEF data, services, local, bounds, Found, At, Goto, Begin
  <2>2. CASE Begin("service")
    BY <2>2 DEF data, services, local, bounds, Found, At, Goto, Begin
  <2>3. QED
    BY <1>37, <2>1, <2>2
<1>38. CASE Kill
  BY <1>38 DEF data, services, history, At, Leave, Kill
<1>39. CASE StrayQuits
  BY <1>39 DEF data, services, local, bounds, history, StrayQuits
<1>40. CASE ServiceRestarts
  BY <1>40 DEF data, local, bounds, history, ServiceRestarts
<1>41. CASE \E d \in Dir : External(d)
  BY <1>41 DEF services, local, External
<1>42. CASE UNCHANGED vars
  BY <1>42 DEF vars, data, services, local, bounds, history
<1>43. QED
  BY <1>1, <1>2, <1>3, <1>4, <1>5, <1>6, <1>7, <1>8, <1>9, <1>10, <1>11, <1>12, <1>13,
       <1>14, <1>15, <1>16, <1>17, <1>18, <1>19, <1>20, <1>21, <1>22, <1>23, <1>24,
       <1>25, <1>26, <1>27, <1>28, <1>29, <1>30, <1>31, <1>32, <1>33, <1>34, <1>35,
       <1>36, <1>37, <1>38, <1>39, <1>40, <1>41, <1>42 DEF Next, Run

\* The services follow the run, forth and back.
LEMMA ServicesStep ==
  ASSUME TypeOK, Shape, NeonInv, ServicesInv, [Next]_vars
  PROVE  ServicesInv'
<1> USE ConstantsAssumption, StoppedType DEF TypeOK, Shape, NeonInv, ServicesInv, NeonStopped, Dir, Service, Retiring, Registering
<1>1. CASE Refuse
  BY <1>1 DEF data, services, bounds, At, Leave, Return, Refuse
<1>2. CASE CheckFails
  BY <1>2 DEF data, services, At, Fails, Leave, Return, CheckFails
<1>3. CASE Check
  BY <1>3 DEF data, services, bounds, history, At, Goto, Check
<1>4. CASE StopNeon
  BY <1>4 DEF data, bounds, history, At, Goto, StopNeon
<1>5. CASE StopNeonFails
  BY <1>5 DEF data, services, At, Fails, Leave, Return, StopNeonFails
<1>6. CASE Socket
  BY <1>6 DEF data, services, local, bounds, history, At, Goto, Socket
<1>7. CASE Inspect
  BY <1>7 DEF data, services, bounds, history, At, Goto, Advance, Inspect
<1>8. CASE Promote
  BY <1>8 DEF services, bounds, history, At, Advance, Promote
<1>9. CASE PromoteLate
  BY <1>9 DEF data, services, bounds, history, At, Advance, PromoteLate
<1>10. CASE PromoteFails
  BY <1>10 DEF data, services, local, history, At, Goto, Fails, PromoteFails
<1>11. CASE DataMoved
  <2>1. CASE had
    BY <1>11, <2>1 DEF data, local, bounds, At, Goto, Leave, Return, DataMoved
  <2>2. CASE ~had
    BY <1>11, <2>2 DEF data, local, bounds, At, Goto, Leave, Return, DataMoved
  <2>3. QED
    BY <2>1, <2>2
<1>12. CASE WriteUnit
  BY <1>12 DEF data, local, bounds, history, At, Goto, WriteUnit
<1>13. CASE WriteUnitFails
  BY <1>13 DEF data, local, history, At, Goto, Fails, WriteUnitFails
<1>14. CASE EnableNow
  BY <1>14 DEF data, bounds, history, At, Goto, Switch, EnableNow
<1>15. CASE EnableNowFails
  BY <1>15 DEF data, local, history, At, Goto, Fails, EnableNowFails
<1>16. CASE UndoEnable
  BY <1>16 DEF data, local, bounds, history, At, Goto, Switch, UndoEnable
<1>17. CASE UndoEnableFails
  BY <1>17 DEF data, local, At, Goto, Fails, HalfDisabled, UndoEnableFails
<1>18. CASE RemoveUnit
  BY <1>18 DEF data, bounds, history, At, Goto, RemoveUnit
<1>19. CASE RemoveUnitFails
  BY <1>19 DEF data, At, Goto, Fails, RemoveUnitFails
<1>20. CASE RetireProbe
  BY <1>20 DEF data, services, bounds, history, At, Goto, RetireProbe
<1>21. CASE RetireAbsent
  <2>1. CASE retiring = "neon"
    BY <1>21, <2>1 DEF data, local, bounds, At, Goto, Leave, Return, Switch, Retired,
         RetireAbsent
  <2>2. CASE retiring # "neon"
    <3> USE <1>21, <2>2 DEF data, local, bounds, At, Goto, Leave, Return, Switch,
         Retired, RetireAbsent
    <3>1. ~reported => unit'["neon"] /\ ~unit'["silvervine"] /\ before.unit["neon"] /\ ~before.unit["silvervine"]
      OBVIOUS
    <3>2. unit' \in [Service -> BOOLEAN] /\ before.unit \in [Service -> BOOLEAN]
      BY TypeStep DEF Snapshot
    <3>3. ~reported => unit' = before.unit
      BY <3>1, <3>2, SameUnits
    <3>4. QED
      BY <3>1, <3>3
  <2>3. QED
    BY <2>1, <2>2
<1>22. CASE RetireFails
  <2>1. CASE retiring = "neon"
    BY <1>22, <2>1 DEF data, services, At, Goto, Fails, Leave, Return, NotRetired,
         RetireFails
  <2>2. CASE retiring # "neon"
    BY <1>22, <2>2 DEF data, services, At, Goto, Fails, Leave, Return, NotRetired,
         RetireFails
  <2>3. QED
    BY <2>1, <2>2
<1>23. CASE Disable
  BY <1>23 DEF data, local, bounds, history, At, Goto, Switch, Disable
<1>24. CASE DisableFails
  BY <1>24 DEF data, local, history, At, Goto, Fails, HalfDisabled, DisableFails
<1>25. CASE Remove
  <2>1. CASE retiring = "neon"
    BY <1>25, <2>1 DEF data, local, bounds, At, Goto, Leave, Return, Retired, Remove
  <2>2. CASE retiring # "neon"
    <3> USE <1>25, <2>2 DEF data, local, bounds, At, Goto, Leave, Return, Retired, Remove
    <3>1. ~reported => unit'["neon"] /\ ~unit'["silvervine"] /\ before.unit["neon"] /\ ~before.unit["silvervine"]
      OBVIOUS
    <3>2. unit' \in [Service -> BOOLEAN] /\ before.unit \in [Service -> BOOLEAN]
      BY TypeStep DEF Snapshot
    <3>3. ~reported => unit' = before.unit
      BY <3>1, <3>2, SameUnits
    <3>4. QED
      BY <3>1, <3>3
  <2>3. QED
    BY <2>1, <2>2
<1>26. CASE RemoveFails
  BY <1>26 DEF data, local, history, At, Goto, Fails, RemoveFails
<1>27. CASE Rewrite
  BY <1>27 DEF data, local, bounds, history, At, Goto, Rewrite
<1>28. CASE RewriteFails
  BY <1>28 DEF data, local, At, Goto, Fails, RewriteFails
<1>29. CASE Reenable
  BY <1>29 DEF data, local, bounds, history, At, Goto, Reenable
<1>30. CASE ReenableFails
  BY <1>30 DEF data, services, local, At, Goto, Fails, ReenableFails
<1>31. CASE Restart
  <2>1. CASE retiring = "neon"
    BY <1>31, <2>1 DEF data, bounds, At, Goto, Leave, Return, NotRetired, Restart
  <2>2. CASE retiring # "neon"
    BY <1>31, <2>2 DEF data, bounds, At, Goto, Leave, Return, NotRetired, Restart
  <2>3. QED
    BY <2>1, <2>2
<1>32. CASE RestartFails
  <2>1. CASE retiring = "neon"
    BY <1>32, <2>1 DEF data, services, At, Goto, Fails, Leave, Return, RestartFails
  <2>2. CASE retiring # "neon"
    BY <1>32, <2>2 DEF data, services, At, Goto, Fails, Leave, Return, RestartFails
  <2>3. QED
    BY <2>1, <2>2
<1>33. CASE UndoMove
  BY <1>33 DEF services, bounds, history, At, Last, UndoMove
<1>34. CASE UndoMoveFails
  BY <1>34 DEF data, services, At, Fails, Leave, Return, Last, UndoMoveFails
<1>35. CASE Restore
  BY <1>35 DEF data, bounds, At, Leave, Return, Restore
<1>36. CASE RestoreFails
  BY <1>36 DEF data, services, At, Fails, Leave, Return, RestoreFails
<1>37. CASE Begin("cli") \/ Begin("service")
  <2>1. CASE Begin("cli")
    BY <2>1 DEF data, services, local, bounds, Found, At, Goto, Begin
  <2>2. CASE Begin("service")
    BY <2>2 DEF data, services, local, bounds, Found, At, Goto, Begin
  <2>3. QED
    BY <1>37, <2>1, <2>2
<1>38. CASE Kill
  BY <1>38 DEF data, services, history, At, Leave, Kill
<1>39. CASE StrayQuits
  BY <1>39 DEF data, services, local, bounds, history, StrayQuits
<1>40. CASE ServiceRestarts
  BY <1>40 DEF data, local, bounds, history, ServiceRestarts
<1>41. CASE \E d \in Dir : External(d)
  BY <1>41 DEF services, local, External
<1>42. CASE UNCHANGED vars
  BY <1>42 DEF vars, data, services, local, bounds, history
<1>43. QED
  BY <1>1, <1>2, <1>3, <1>4, <1>5, <1>6, <1>7, <1>8, <1>9, <1>10, <1>11, <1>12, <1>13,
       <1>14, <1>15, <1>16, <1>17, <1>18, <1>19, <1>20, <1>21, <1>22, <1>23, <1>24,
       <1>25, <1>26, <1>27, <1>28, <1>29, <1>30, <1>31, <1>32, <1>33, <1>34, <1>35,
       <1>36, <1>37, <1>38, <1>39, <1>40, <1>41, <1>42 DEF Next, Run

\* What a run returns is true of what it leaves, and stays so until the next run.
LEMMA OutcomeStep ==
  ASSUME TypeOK, Shape, NeonInv, DataInv, ServicesInv, ErrorRestores, SuccessMigrates, [Next]_vars
  PROVE  (ErrorRestores /\ SuccessMigrates)'
<1> USE ConstantsAssumption, StoppedType DEF TypeOK, Shape, NeonInv, DataInv, ServicesInv, ErrorRestores, SuccessMigrates, NeonStopped, Dir, Service, Retiring, Registering
<1>1. CASE Refuse
  BY <1>1 DEF data, services, bounds, At, Leave, Return, Refuse
<1>2. CASE CheckFails
  BY <1>2 DEF data, services, At, Fails, Leave, Return, CheckFails
<1>3. CASE Check
  BY <1>3 DEF data, services, bounds, history, At, Goto, Check
<1>4. CASE StopNeon
  BY <1>4 DEF data, bounds, history, At, Goto, StopNeon
<1>5. CASE StopNeonFails
  BY <1>5 DEF data, services, At, Fails, Leave, Return, StopNeonFails
<1>6. CASE Socket
  BY <1>6 DEF data, services, local, bounds, history, At, Goto, Socket
<1>7. CASE Inspect
  BY <1>7 DEF data, services, bounds, history, At, Goto, Advance, Inspect
<1>8. CASE Promote
  BY <1>8 DEF services, bounds, history, At, Advance, Promote
<1>9. CASE PromoteLate
  BY <1>9 DEF data, services, bounds, history, At, Advance, PromoteLate
<1>10. CASE PromoteFails
  BY <1>10 DEF data, services, local, history, At, Goto, Fails, PromoteFails
<1>11. CASE DataMoved
  <2>1. CASE had
    BY <1>11, <2>1 DEF data, local, bounds, At, Goto, Leave, Return, DataMoved
  <2>2. CASE ~had
    BY <1>11, <2>2 DEF data, local, bounds, At, Goto, Leave, Return, DataMoved
  <2>3. QED
    BY <2>1, <2>2
<1>12. CASE WriteUnit
  BY <1>12 DEF data, local, bounds, history, At, Goto, WriteUnit
<1>13. CASE WriteUnitFails
  BY <1>13 DEF data, local, history, At, Goto, Fails, WriteUnitFails
<1>14. CASE EnableNow
  BY <1>14 DEF data, bounds, history, At, Goto, Switch, EnableNow
<1>15. CASE EnableNowFails
  BY <1>15 DEF data, local, history, At, Goto, Fails, EnableNowFails
<1>16. CASE UndoEnable
  BY <1>16 DEF data, local, bounds, history, At, Goto, Switch, UndoEnable
<1>17. CASE UndoEnableFails
  BY <1>17 DEF data, local, At, Goto, Fails, HalfDisabled, UndoEnableFails
<1>18. CASE RemoveUnit
  BY <1>18 DEF data, bounds, history, At, Goto, RemoveUnit
<1>19. CASE RemoveUnitFails
  BY <1>19 DEF data, At, Goto, Fails, RemoveUnitFails
<1>20. CASE RetireProbe
  BY <1>20 DEF data, services, bounds, history, At, Goto, RetireProbe
<1>21. CASE RetireAbsent
  <2>1. CASE retiring = "neon"
    BY <1>21, <2>1 DEF data, local, bounds, At, Goto, Leave, Return, Switch, Retired,
         RetireAbsent
  <2>2. CASE retiring # "neon"
    BY <1>21, <2>2 DEF data, local, bounds, At, Goto, Leave, Return, Switch, Retired,
         RetireAbsent
  <2>3. QED
    BY <2>1, <2>2
<1>22. CASE RetireFails
  <2>1. CASE retiring = "neon"
    BY <1>22, <2>1 DEF data, services, At, Goto, Fails, Leave, Return, NotRetired,
         RetireFails
  <2>2. CASE retiring # "neon"
    BY <1>22, <2>2 DEF data, services, At, Goto, Fails, Leave, Return, NotRetired,
         RetireFails
  <2>3. QED
    BY <2>1, <2>2
<1>23. CASE Disable
  BY <1>23 DEF data, local, bounds, history, At, Goto, Switch, Disable
<1>24. CASE DisableFails
  BY <1>24 DEF data, local, history, At, Goto, Fails, HalfDisabled, DisableFails
<1>25. CASE Remove
  <2>1. CASE retiring = "neon"
    BY <1>25, <2>1 DEF data, local, bounds, At, Goto, Leave, Return, Retired, Remove
  <2>2. CASE retiring # "neon"
    BY <1>25, <2>2 DEF data, local, bounds, At, Goto, Leave, Return, Retired, Remove
  <2>3. QED
    BY <2>1, <2>2
<1>26. CASE RemoveFails
  BY <1>26 DEF data, local, history, At, Goto, Fails, RemoveFails
<1>27. CASE Rewrite
  BY <1>27 DEF data, local, bounds, history, At, Goto, Rewrite
<1>28. CASE RewriteFails
  BY <1>28 DEF data, local, At, Goto, Fails, RewriteFails
<1>29. CASE Reenable
  BY <1>29 DEF data, local, bounds, history, At, Goto, Reenable
<1>30. CASE ReenableFails
  BY <1>30 DEF data, services, local, At, Goto, Fails, ReenableFails
<1>31. CASE Restart
  <2>1. CASE retiring = "neon"
    BY <1>31, <2>1 DEF data, bounds, At, Goto, Leave, Return, NotRetired, Restart
  <2>2. CASE retiring # "neon"
    BY <1>31, <2>2 DEF data, bounds, At, Goto, Leave, Return, NotRetired, Restart
  <2>3. QED
    BY <2>1, <2>2
<1>32. CASE RestartFails
  <2>1. CASE retiring = "neon"
    BY <1>32, <2>1 DEF data, services, At, Goto, Fails, Leave, Return, RestartFails
  <2>2. CASE retiring # "neon"
    BY <1>32, <2>2 DEF data, services, At, Goto, Fails, Leave, Return, RestartFails
  <2>3. QED
    BY <2>1, <2>2
<1>33. CASE UndoMove
  BY <1>33 DEF services, bounds, history, At, Last, UndoMove
<1>34. CASE UndoMoveFails
  BY <1>34 DEF data, services, At, Fails, Leave, Return, Last, UndoMoveFails
<1>35. CASE Restore
  BY <1>35 DEF data, bounds, At, Leave, Return, Restore
<1>36. CASE RestoreFails
  BY <1>36 DEF data, services, At, Fails, Leave, Return, RestoreFails
<1>37. CASE Begin("cli") \/ Begin("service")
  <2>1. CASE Begin("cli")
    BY <2>1 DEF data, services, local, bounds, Found, At, Goto, Begin
  <2>2. CASE Begin("service")
    BY <2>2 DEF data, services, local, bounds, Found, At, Goto, Begin
  <2>3. QED
    BY <1>37, <2>1, <2>2
<1>38. CASE Kill
  BY <1>38 DEF data, services, history, At, Leave, Kill
<1>39. CASE StrayQuits
  BY <1>39 DEF data, services, local, bounds, history, StrayQuits
<1>40. CASE ServiceRestarts
  BY <1>40 DEF data, local, bounds, history, ServiceRestarts
<1>41. CASE \E d \in Dir : External(d)
  BY <1>41 DEF services, local, External
<1>42. CASE UNCHANGED vars
  BY <1>42 DEF vars, data, services, local, bounds, history
<1>43. QED
  BY <1>1, <1>2, <1>3, <1>4, <1>5, <1>6, <1>7, <1>8, <1>9, <1>10, <1>11, <1>12, <1>13,
       <1>14, <1>15, <1>16, <1>17, <1>18, <1>19, <1>20, <1>21, <1>22, <1>23, <1>24,
       <1>25, <1>26, <1>27, <1>28, <1>29, <1>30, <1>31, <1>32, <1>33, <1>34, <1>35,
       <1>36, <1>37, <1>38, <1>39, <1>40, <1>41, <1>42 DEF Next, Run

\* No step overwrites a directory.
LEMMA KeepsStep ==
  ASSUME TypeOK, [Next]_vars
  PROVE  Keeps
<1> USE ConstantsAssumption, StoppedType DEF TypeOK, Keeps, Dir
<1>1. CASE Refuse
  BY <1>1 DEF data, services, bounds, At, Leave, Return, Refuse
<1>2. CASE CheckFails
  BY <1>2 DEF data, services, At, Fails, Leave, Return, CheckFails
<1>3. CASE Check
  BY <1>3 DEF data, services, bounds, history, At, Goto, Check
<1>4. CASE StopNeon
  BY <1>4 DEF data, bounds, history, At, Goto, StopNeon
<1>5. CASE StopNeonFails
  BY <1>5 DEF data, services, At, Fails, Leave, Return, StopNeonFails
<1>6. CASE Socket
  BY <1>6 DEF data, services, local, bounds, history, At, Goto, Socket
<1>7. CASE Inspect
  BY <1>7 DEF data, services, bounds, history, At, Goto, Advance, Inspect
<1>8. CASE Promote
  BY <1>8 DEF services, bounds, history, At, Advance, Promote
<1>9. CASE PromoteLate
  BY <1>9 DEF data, services, bounds, history, At, Advance, PromoteLate
<1>10. CASE PromoteFails
  BY <1>10 DEF data, services, local, history, At, Goto, Fails, PromoteFails
<1>11. CASE DataMoved
  BY <1>11 DEF data, local, bounds, At, Goto, Leave, Return, DataMoved
<1>12. CASE WriteUnit
  BY <1>12 DEF data, local, bounds, history, At, Goto, WriteUnit
<1>13. CASE WriteUnitFails
  BY <1>13 DEF data, local, history, At, Goto, Fails, WriteUnitFails
<1>14. CASE EnableNow
  BY <1>14 DEF data, bounds, history, At, Goto, Switch, EnableNow
<1>15. CASE EnableNowFails
  BY <1>15 DEF data, local, history, At, Goto, Fails, EnableNowFails
<1>16. CASE UndoEnable
  BY <1>16 DEF data, local, bounds, history, At, Goto, Switch, UndoEnable
<1>17. CASE UndoEnableFails
  BY <1>17 DEF data, local, At, Goto, Fails, HalfDisabled, UndoEnableFails
<1>18. CASE RemoveUnit
  BY <1>18 DEF data, bounds, history, At, Goto, RemoveUnit
<1>19. CASE RemoveUnitFails
  BY <1>19 DEF data, At, Goto, Fails, RemoveUnitFails
<1>20. CASE RetireProbe
  BY <1>20 DEF data, services, bounds, history, At, Goto, RetireProbe
<1>21. CASE RetireAbsent
  BY <1>21 DEF data, local, bounds, At, Goto, Leave, Return, Switch, Retired,
       RetireAbsent
<1>22. CASE RetireFails
  BY <1>22 DEF data, services, At, Goto, Fails, Leave, Return, NotRetired, RetireFails
<1>23. CASE Disable
  BY <1>23 DEF data, local, bounds, history, At, Goto, Switch, Disable
<1>24. CASE DisableFails
  BY <1>24 DEF data, local, history, At, Goto, Fails, HalfDisabled, DisableFails
<1>25. CASE Remove
  BY <1>25 DEF data, local, bounds, At, Goto, Leave, Return, Retired, Remove
<1>26. CASE RemoveFails
  BY <1>26 DEF data, local, history, At, Goto, Fails, RemoveFails
<1>27. CASE Rewrite
  BY <1>27 DEF data, local, bounds, history, At, Goto, Rewrite
<1>28. CASE RewriteFails
  BY <1>28 DEF data, local, At, Goto, Fails, RewriteFails
<1>29. CASE Reenable
  BY <1>29 DEF data, local, bounds, history, At, Goto, Reenable
<1>30. CASE ReenableFails
  BY <1>30 DEF data, services, local, At, Goto, Fails, ReenableFails
<1>31. CASE Restart
  BY <1>31 DEF data, bounds, At, Goto, Leave, Return, NotRetired, Restart
<1>32. CASE RestartFails
  BY <1>32 DEF data, services, At, Goto, Fails, Leave, Return, RestartFails
<1>33. CASE UndoMove
  BY <1>33 DEF services, bounds, history, At, Last, UndoMove
<1>34. CASE UndoMoveFails
  BY <1>34 DEF data, services, At, Fails, Leave, Return, Last, UndoMoveFails
<1>35. CASE Restore
  BY <1>35 DEF data, bounds, At, Leave, Return, Restore
<1>36. CASE RestoreFails
  BY <1>36 DEF data, services, At, Fails, Leave, Return, RestoreFails
<1>37. CASE Begin("cli") \/ Begin("service")
  BY <1>37 DEF data, services, local, bounds, At, Goto, Begin
<1>38. CASE Kill
  BY <1>38 DEF data, services, history, At, Leave, Kill
<1>39. CASE StrayQuits
  BY <1>39 DEF data, services, local, bounds, history, StrayQuits
<1>40. CASE ServiceRestarts
  BY <1>40 DEF data, local, bounds, history, ServiceRestarts
<1>41. CASE \E d \in Dir : External(d)
  BY <1>41 DEF services, local, External
<1>42. CASE UNCHANGED vars
  BY <1>42 DEF vars, data, services, local, bounds, history
<1>43. QED
  BY <1>1, <1>2, <1>3, <1>4, <1>5, <1>6, <1>7, <1>8, <1>9, <1>10, <1>11, <1>12, <1>13,
       <1>14, <1>15, <1>16, <1>17, <1>18, <1>19, <1>20, <1>21, <1>22, <1>23, <1>24,
       <1>25, <1>26, <1>27, <1>28, <1>29, <1>30, <1>31, <1>32, <1>33, <1>34, <1>35,
       <1>36, <1>37, <1>38, <1>39, <1>40, <1>41, <1>42 DEF Next, Run

(***************************************************************************)
(* The theorems.                                                           *)
(***************************************************************************)

LEMMA InitInv == Init => MigrationInv
<1> SUFFICES ASSUME Init PROVE MigrationInv
  OBVIOUS
<1>a. /\ legacy \in [Dir -> {None, "neon"}] /\ current \in [Dir -> {None, "other"}]
      /\ serving = FALSE /\ stray \in BOOLEAN
      /\ pc = "idle" /\ runner = None
      /\ had = FALSE /\ was = FALSE /\ next = 1 /\ moved = {}
      /\ retiring = None /\ prior = Stopped
      /\ failures = 0 /\ kills = 0 /\ externals = 0
      /\ before = Found /\ result = "none" /\ reported = FALSE /\ touched = {}
  BY DEF Init
<1>b. PICK u, e, a \in BOOLEAN :
        /\ e \/ a => u
        /\ unit = [s \in Service |-> s = "neon" /\ u]
        /\ enabled = [s \in Service |-> s = "neon" /\ e]
        /\ active = [s \in Service |-> s = "neon" /\ a]
  BY DEF Init
<1>c. /\ unit \in [Service -> BOOLEAN] /\ enabled \in [Service -> BOOLEAN]
      /\ active \in [Service -> BOOLEAN]
  BY <1>b
<1>d. active["neon"] => unit["neon"]
  BY <1>b DEF Service
<1> USE ConstantsAssumption DEF Dir
<1>1. TypeOK
  <2>1. legacy \in [Dir -> Content] /\ current \in [Dir -> Content]
    BY <1>a DEF Content
  <2>2. Found \in Snapshot
    BY <1>c, <2>1 DEF Found, Snapshot
  <2>3. FilesType /\ ServicesType
    BY <1>a, <1>c, <2>1 DEF FilesType, ServicesType
  <2>4. RunType /\ ProgressType
    <3>1. next \in 1 .. (Dirs + 1)
      BY <1>a
    <3>2. pc \in Steps /\ runner \in {None, "cli", "service"} /\ retiring \in Service \cup {None}
      BY <1>a DEF Steps
    <3>3. had \in BOOLEAN /\ was \in BOOLEAN
      BY <1>a
    <3>4. QED
      BY <1>a, <3>1, <3>2, <3>3, StoppedType DEF RunType, ProgressType
  <2>5. CountsType /\ HistoryType
    <3>1. failures \in 0 .. MaxFailures /\ kills \in 0 .. MaxKills /\ externals \in 0 .. MaxExternal
      BY <1>a
    <3>2. result \in {"none", "ok", "error"} /\ reported \in BOOLEAN
      BY <1>a
    <3>3. QED
      BY <1>a, <2>2, <3>1, <3>2 DEF CountsType, HistoryType
  <2>6. QED
    BY <2>3, <2>4, <2>5
       DEF TypeOK, FilesType, ServicesType, RunType, ProgressType, CountsType, HistoryType
<1>2. Shape /\ NeonInv /\ ServingInv
  BY <1>a, <1>d DEF Shape, NeonInv, ServingInv, NeonStopped, Registering, Retiring
<1>3. DataInv /\ ServicesInv
  BY <1>a DEF DataInv, ServicesInv, NeonStopped, Registering, Retiring
<1>4. ErrorRestores /\ SuccessMigrates
  BY <1>a DEF ErrorRestores, SuccessMigrates
<1>5. QED
  BY <1>1, <1>2, <1>3, <1>4 DEF MigrationInv

LEMMA InvStep == MigrationInv /\ [Next]_vars => MigrationInv'
BY TypeStep, ShapeStep, NeonStep, DataStep, ServicesStep, OutcomeStep
   DEF MigrationInv

\* The inductive invariant holds.
THEOREM MigrationInvariant == Spec => []MigrationInv
BY InitInv, InvStep, PTL DEF Spec

\* Every variable of the transaction stays in its type (migration/mod.rs:206-299).
THEOREM MigrationTypeCorrect == Spec => []TypeOK
<1>1. MigrationInv => TypeOK
  BY DEF MigrationInv
<1>2. QED
  BY <1>1, MigrationInvariant, PTL

\* Neon's daemon never runs while its data are under Silvervine's name
\* (rollback_data_and_restore_legacy: the moves are undone before it is started).
THEOREM NeonAlwaysHasItsData == Spec => []NeonHasItsData
<1>1. MigrationInv => NeonHasItsData
  BY DEF MigrationInv, NeonInv, NeonStopped, NeonHasItsData, Shape
<1>2. QED
  BY <1>1, MigrationInvariant, PTL

\* Silvervine's daemon never works beside a Neon daemon, registered or not
\* (refuse_connectable_legacy_socket, and the refusal of two registrations).
THEOREM AlwaysOneDaemon == Spec => []OneDaemon
<1>1. MigrationInv => OneDaemon
  BY DEF MigrationInv, NeonInv, ServingInv, OneDaemon
<1>2. QED
  BY <1>1, MigrationInvariant, PTL

\* An error that reports no failure of the way back leaves directories and
\* registrations as the run found them, whatever failed; a run that returns without
\* an error has moved what there was to move and put Silvervine's registration in
\* the place of Neon's.
THEOREM OutcomesAlwaysTrue == Spec => []OutcomeTrue
<1>1. MigrationInv => OutcomeTrue
  BY DEF MigrationInv, OutcomeTrue
<1>2. QED
  BY <1>1, MigrationInvariant, PTL

\* Nothing that is under either name of a pair is overwritten, by a move, by its
\* undoing, or by a run that follows a kill (no_replace_rename).
THEOREM NothingIsOverwritten == Spec => NeverOverwrites
<1>1. TypeOK /\ [Next]_vars => Keeps
  BY KeepsStep
<1>2. QED
  BY <1>1, MigrationTypeCorrect, PTL DEF Spec, NeverOverwrites, Keeps

-----------------------------------------------------------------------------
(* The registration of the daemon.                                          *)

\* The numbers of the registration, and what None is not.
LEMMA SystemdFacts ==
    /\ Processes \in Nat \ {0} /\ CallFailures \in Nat /\ Operations \in Nat
    /\ None \notin 1..Processes /\ None \notin {"former", "new"}
    /\ Systemd!Cardinality(1..Processes) = Processes
    /\ Systemd!Cardinality({}) = 0 /\ Systemd!Cardinality({1}) = 1
<1>1. /\ Processes \in Nat \ {0} /\ CallFailures \in Nat /\ Operations \in Nat
      /\ None \notin 1..Processes /\ None \notin {"former", "new"}
    BY ServingAssumption
<1>2. \A S : Systemd!Cardinality(S) = Cardinality(S)
    BY DEF Systemd!Cardinality, Cardinality, Systemd!IsFiniteSet, IsFiniteSet
<1>3. Cardinality(1..Processes) = Processes
    BY <1>1, FS_Interval
<1>4. Cardinality({}) = 0 /\ Cardinality({1}) = 1
    BY FS_EmptySet, FS_Singleton
<1> QED BY <1>1, <1>2, <1>3, <1>4

\* A daemon is an agent.
LEMMA SystemdAgents == 1..Processes \subseteq Systemd!Agent
BY DEF Systemd!Agent

\* Where the agents stand after a call of one of them.
LEMMA SystemdContinues ==
    ASSUME Systemd!TypeOK, NEW a \in Systemd!Agent, NEW there \in Systemd!Working \cup {"idle"},
           NEW report \in Systemd!Outcome, Systemd!Continue(a, there, report)
    PROVE  /\ x8' \in [Systemd!Agent -> Systemd!Working \cup {"idle"}]
           /\ x12' \in [Systemd!Agent -> Systemd!Outcome]
           /\ x8'[a] \in {there, "idle"}
           /\ x8[a] # "idle" => x12'[a] \in {report, "killed"} /\ (x12'[a] # "killed" => x8'[a] = there)
           /\ \A b \in Systemd!Agent \ {a} : x8'[b] \in {x8[b], "idle"}
           /\ \A b \in Systemd!Agent \ {a} : x8[b] # "idle" /\ x8'[b] = "idle" => x12'[b] = "killed"
<1> USE DEF Systemd!TypeOK, Systemd!CallsTypeOK, Systemd!Continue
<1>1. x12' \in [Systemd!Agent -> Systemd!Outcome]
    <2>1. \A b \in Systemd!Agent : x12[b] \in Systemd!Outcome
        OBVIOUS
    <2>2. "killed" \in Systemd!Outcome
        BY DEF Systemd!Outcome
    <2> QED BY <2>1, <2>2
<1>2. x8' \in [Systemd!Agent -> Systemd!Working \cup {"idle"}]
    OBVIOUS
<1>3. x8'[a] \in {there, "idle"}
    OBVIOUS
<1>4. x8[a] # "idle" => x12'[a] \in {report, "killed"} /\ (x12'[a] # "killed" => x8'[a] = there)
    OBVIOUS
<1>5. /\ \A b \in Systemd!Agent \ {a} : x8'[b] \in {x8[b], "idle"}
      /\ \A b \in Systemd!Agent \ {a} : x8[b] # "idle" /\ x8'[b] = "idle" => x12'[b] = "killed"
    OBVIOUS
<1> QED BY <1>1, <1>2, <1>3, <1>4, <1>5

\* A step of a transaction, which goes on, ends or fails.
LEMMA SystemdRuns ==
    ASSUME Systemd!TypeOK, NEW a \in Systemd!Agent, NEW step \in Systemd!Working, Systemd!Running(a, step),
           \/ Systemd!Ends(a)
           \/ \E there \in Systemd!Working \cup {"idle"} : Systemd!Goes(a, there) \/ Systemd!Fails(a, there)
    PROVE  /\ Systemd!CallsTypeOK'
           /\ x9' = x9 /\ x10' = x10 /\ x15'[a] = x15[a]
           /\ \A b \in Systemd!Agent \ {a} : x15'[b] \/ x8'[b] = "idle"
           /\ \A b \in Systemd!Agent \ {a} : x8[b] # "idle" /\ x8'[b] = "idle" => x12'[b] = "killed"
<1> USE SystemdFacts DEF Systemd!TypeOK, Systemd!CallsTypeOK, Systemd!Running
<1>1. PICK place \in Systemd!Working \cup {"idle"}, report \in Systemd!Outcome : Systemd!Continue(a, place, report)
    BY DEF Systemd!Goes, Systemd!Ends, Systemd!Fails, Systemd!Outcome
<1>2. /\ x8' \in [Systemd!Agent -> Systemd!Working \cup {"idle"}]
      /\ x12' \in [Systemd!Agent -> Systemd!Outcome]
      /\ \A b \in Systemd!Agent \ {a} : x8'[b] \in {x8[b], "idle"}
      /\ \A b \in Systemd!Agent \ {a} : x8[b] # "idle" /\ x8'[b] = "idle" => x12'[b] = "killed"
    BY <1>1, SystemdContinues
<1>3. x15' \in [Systemd!Agent -> BOOLEAN] /\ x15'[a] = x15[a]
    OBVIOUS
<1>4. x13' \in 0..CallFailures
    BY DEF Systemd!Goes, Systemd!Ends, Systemd!Fails
<1>6. x11' \in [Systemd!Agent -> BOOLEAN]
    <2>1. CASE x11' = x11
        BY <2>1
    <2>2. CASE x11' = [x11 EXCEPT ![a] = (x8[a] \in Systemd!Rollback)]
        BY <2>2
    <2> QED BY <2>1, <2>2 DEF Systemd!Goes, Systemd!Ends, Systemd!Fails
<1>5. \A b \in Systemd!Agent \ {a} : x15'[b] \/ x8'[b] = "idle"
    BY <1>2
<1> QED BY <1>2, <1>3, <1>4, <1>5, <1>6

\* A step of a rollback that fails is recorded.
LEMMA SystemdRecords ==
    ASSUME Systemd!TypeOK, NEW a \in Systemd!Agent, NEW there, Systemd!Fails(a, there), x8[a] \in Systemd!Rollback
    PROVE  x11'[a]
<1>1. x11' = [x11 EXCEPT ![a] = (x8[a] \in Systemd!Rollback)] /\ x11 \in [Systemd!Agent -> BOOLEAN]
    BY DEF Systemd!Fails, Systemd!TypeOK, Systemd!CallsTypeOK
<1>2. x11'[a] = (x8[a] \in Systemd!Rollback)
    BY <1>1
<1> QED BY <1>2

\* A call is a step that goes on, ends or fails.
LEMMA SystemdTransaction ==
    ASSUME Systemd!TypeOK, NEW a \in Systemd!Agent, Systemd!Calls(a)
    PROVE  /\ Systemd!CallsTypeOK'
           /\ x9' = x9 /\ x10' = x10 /\ x15'[a] = x15[a]
           /\ \A b \in Systemd!Agent \ {a} : x15'[b] \/ x8'[b] = "idle"
           /\ \A b \in Systemd!Agent \ {a} : x8[b] # "idle" /\ x8'[b] = "idle" => x12'[b] = "killed"
<1> DEFINE Moves(step) == /\ Systemd!Running(a, step)
                          /\ \/ Systemd!Ends(a)
                             \/ \E there \in Systemd!Working \cup {"idle"} : Systemd!Goes(a, there) \/ Systemd!Fails(a, there)
<1>1. \E step \in Systemd!Working : Moves(step)
    <2>1. CASE Systemd!Stop(a)
        <3>1. Moves("stop") /\ "stop" \in Systemd!Working
            BY <2>1 DEF Systemd!Stop, Systemd!Working, Systemd!Rollback
        <3> QED BY <3>1
    <2>2. CASE Systemd!Write(a)
        <3>1. Moves("write") /\ "write" \in Systemd!Working
            BY <2>2 DEF Systemd!Write, Systemd!Working, Systemd!Rollback
        <3> QED BY <3>1
    <2>3. CASE Systemd!Reload(a)
        <3>1. Moves("reload") /\ "reload" \in Systemd!Working
            BY <2>3 DEF Systemd!Reload, Systemd!Working, Systemd!Rollback
        <3> QED BY <3>1
    <2>4. CASE Systemd!Enable(a)
        <3>1. Moves("enable") /\ "enable" \in Systemd!Working
            BY <2>4 DEF Systemd!Enable, Systemd!Working, Systemd!Rollback
        <3> QED BY <3>1
    <2>5. CASE Systemd!Disable(a, "disable", "remove", "undoWrite")
        <3>1. Moves("disable") /\ "disable" \in Systemd!Working
            BY <2>5 DEF Systemd!Disable, Systemd!Working, Systemd!Rollback
        <3> QED BY <3>1
    <2>6. CASE Systemd!Disable(a, "undoDisable", "undoWrite", "undoWrite")
        <3>1. Moves("undoDisable") /\ "undoDisable" \in Systemd!Working
            BY <2>6 DEF Systemd!Disable, Systemd!Working, Systemd!Rollback
        <3> QED BY <3>1
    <2>7. CASE Systemd!Disable(a, "purge", "idle", "idle")
        <3>1. Moves("purge") /\ "purge" \in Systemd!Working
            BY <2>7 DEF Systemd!Disable, Systemd!Working, Systemd!Rollback
        <3> QED BY <3>1
    <2>8. CASE Systemd!Remove(a)
        <3>1. Moves("remove") /\ "remove" \in Systemd!Working
            BY <2>8 DEF Systemd!Remove, Systemd!Working, Systemd!Rollback
        <3> QED BY <3>1
    <2>9. CASE Systemd!Forget(a)
        <3>1. Moves("forget") /\ "forget" \in Systemd!Working
            BY <2>9 DEF Systemd!Forget, Systemd!Working, Systemd!Rollback
        <3> QED BY <3>1
    <2>10. CASE Systemd!UndoWrite(a)
        <3>1. Moves("undoWrite") /\ "undoWrite" \in Systemd!Working
            BY <2>10 DEF Systemd!UndoWrite, Systemd!Working, Systemd!Rollback
        <3> QED BY <3>1
    <2>11. CASE Systemd!UndoReload(a)
        <3>1. Moves("undoReload") /\ "undoReload" \in Systemd!Working
            BY <2>11 DEF Systemd!UndoReload, Systemd!Working, Systemd!Rollback
        <3> QED BY <3>1
    <2>12. CASE Systemd!UndoEnable(a)
        <3>1. Moves("undoEnable") /\ "undoEnable" \in Systemd!Working
            BY <2>12 DEF Systemd!UndoEnable, Systemd!Working, Systemd!Rollback
        <3> QED BY <3>1
    <2>13. CASE Systemd!UndoStart(a)
        <3>1. Moves("undoStart") /\ "undoStart" \in Systemd!Working
            BY <2>13 DEF Systemd!UndoStart, Systemd!Working, Systemd!Rollback
        <3> QED BY <3>1
    <2> QED BY <2>1, <2>2, <2>3, <2>4, <2>5, <2>6, <2>7, <2>8, <2>9, <2>10, <2>11, <2>12, <2>13 DEF Systemd!Calls, Systemd!Retire
<1>2. PICK step \in Systemd!Working : Moves(step)
    BY <1>1
<1> QED BY <1>2, SystemdRuns

\* Starting the service keeps the types of the processes.
LEMMA SystemdStarted ==
    ASSUME Systemd!WorldTypeOK, Systemd!Started
    PROVE  /\ x4' \in x5' /\ x5' \subseteq 1..Processes /\ x5' \subseteq 1..x6' /\ x6' \in x6..Processes
           /\ x7' \in [1..Processes -> BOOLEAN] /\ x4' # None
           /\ x4 = None => x4' \notin 1..x6
<1> USE SystemdFacts DEF Systemd!WorldTypeOK, Systemd!Started
<1>1. CASE x4 # None
    <2>1. x4' = x4 /\ x5' = x5 /\ x6' = x6 /\ x7' = x7
        BY <1>1
    <2>2. x4 \in x5 /\ x6 \in x6..Processes
        BY <1>1
    <2> QED BY <1>1, <2>1, <2>2
<1>2. CASE x4 = None
    <2>1. x6' = x6 + 1 /\ x4' = x6 + 1 /\ x5' = x5 \cup {x6 + 1} /\ x6 + 1 \in 1..Processes /\ x6 \in Nat
        BY <1>2
    <2>2. x7' \in [1..Processes -> BOOLEAN]
        BY <1>2
    <2> QED BY <2>1, <2>2
<1> QED BY <1>1, <1>2

\* Every step keeps the types of the service and its processes.
LEMMA SystemdWorld ==
    ASSUME Systemd!TypeOK, Systemd!Next
    PROVE  Systemd!WorldTypeOK'
<1> USE SystemdFacts DEF Systemd!TypeOK, Systemd!WorldTypeOK, Systemd!Unit,
   Systemd!CallsTypeOK
<1>1. ASSUME NEW a \in Systemd!Agent, Systemd!Register(a) PROVE Systemd!WorldTypeOK'
    BY <1>1 DEF Systemd!Register, Systemd!Begins, Systemd!world
<1>2. ASSUME NEW a \in Systemd!Agent, Systemd!Unregister(a) PROVE Systemd!WorldTypeOK'
    BY <1>2 DEF Systemd!Unregister, Systemd!Begins, Systemd!world
<1>3. ASSUME NEW a \in Systemd!Agent, Systemd!RetireStale(a) PROVE Systemd!WorldTypeOK'
    BY <1>3 DEF Systemd!RetireStale, Systemd!Begins, Systemd!world
<1>4. ASSUME NEW a \in Systemd!Agent, Systemd!Stop(a) PROVE Systemd!WorldTypeOK'
    BY <1>4 DEF Systemd!Stop, Systemd!Stopped
<1>5. ASSUME NEW a \in Systemd!Agent, Systemd!Write(a) PROVE Systemd!WorldTypeOK'
    BY <1>5 DEF Systemd!Write, Systemd!Idle
<1>6. ASSUME NEW a \in Systemd!Agent, Systemd!Reload(a) PROVE Systemd!WorldTypeOK'
    BY <1>6 DEF Systemd!Reload, Systemd!Idle
<1>7. ASSUME NEW a \in Systemd!Agent, Systemd!Enable(a) PROVE Systemd!WorldTypeOK'
    <2>1. x1' = x1 /\ x2' \in {x1, x2} /\ x3' \in BOOLEAN
        BY <1>7 DEF Systemd!Enable
    <2>2. Systemd!Started \/ Systemd!Idle
        BY <1>7 DEF Systemd!Enable
    <2>3. /\ x4' \in x5' \cup {None} /\ x5' \subseteq 1..Processes /\ x5' \subseteq 1..x6' /\ x6' \in 0..Processes
          /\ x7' \in [1..Processes -> BOOLEAN]
        <3>1. CASE Systemd!Started
            <4>1. x6' \in x6..Processes /\ x6 \in 0..Processes
                BY <3>1, SystemdStarted
            <4>2. x6' \in 0..Processes
                BY <4>1
            <4> QED BY <3>1, <4>2, SystemdStarted
        <3>2. CASE Systemd!Idle
            BY <3>2 DEF Systemd!Idle
        <3> QED BY <2>2, <3>1, <3>2
    <2> QED BY <2>1, <2>3
<1>8. ASSUME NEW a \in Systemd!Agent, Systemd!Disable(a, "disable", "remove", "undoWrite") PROVE Systemd!WorldTypeOK'
    BY <1>8 DEF Systemd!Disable, Systemd!Stopped
<1>9. ASSUME NEW a \in Systemd!Agent, Systemd!Disable(a, "undoDisable", "undoWrite", "undoWrite") PROVE Systemd!WorldTypeOK'
    BY <1>9 DEF Systemd!Disable, Systemd!Stopped
<1>10. ASSUME NEW a \in Systemd!Agent, Systemd!Disable(a, "purge", "idle", "idle") PROVE Systemd!WorldTypeOK'
    BY <1>10 DEF Systemd!Disable, Systemd!Stopped
<1>11. ASSUME NEW a \in Systemd!Agent, Systemd!Remove(a) PROVE Systemd!WorldTypeOK'
    BY <1>11 DEF Systemd!Remove, Systemd!Idle
<1>12. ASSUME NEW a \in Systemd!Agent, Systemd!Forget(a) PROVE Systemd!WorldTypeOK'
    BY <1>12 DEF Systemd!Forget, Systemd!Idle
<1>13. ASSUME NEW a \in Systemd!Agent, Systemd!UndoWrite(a) PROVE Systemd!WorldTypeOK'
    BY <1>13 DEF Systemd!UndoWrite, Systemd!Idle
<1>14. ASSUME NEW a \in Systemd!Agent, Systemd!UndoReload(a) PROVE Systemd!WorldTypeOK'
    BY <1>14 DEF Systemd!UndoReload, Systemd!Idle
<1>15. ASSUME NEW a \in Systemd!Agent, Systemd!UndoEnable(a) PROVE Systemd!WorldTypeOK'
    BY <1>15 DEF Systemd!UndoEnable, Systemd!Idle
<1>16. ASSUME NEW a \in Systemd!Agent, Systemd!UndoStart(a) PROVE Systemd!WorldTypeOK'
    <2>1. x1' = x1 /\ x2' = x2 /\ x3' = x3
        BY <1>16 DEF Systemd!UndoStart
    <2>2. Systemd!Started \/ Systemd!Idle \/ (Systemd!Stopped /\ x6' = x6 /\ x7' = x7)
        BY <1>16 DEF Systemd!UndoStart
    <2>3. /\ x4' \in x5' \cup {None} /\ x5' \subseteq 1..Processes /\ x5' \subseteq 1..x6' /\ x6' \in 0..Processes
          /\ x7' \in [1..Processes -> BOOLEAN]
        <3>1. CASE Systemd!Started
            <4>1. x6' \in x6..Processes /\ x6 \in 0..Processes
                BY <3>1, SystemdStarted
            <4>2. x6' \in 0..Processes
                BY <4>1
            <4> QED BY <3>1, <4>2, SystemdStarted
        <3>2. CASE Systemd!Idle
            BY <3>2 DEF Systemd!Idle
        <3>3. CASE Systemd!Stopped /\ x6' = x6 /\ x7' = x7
            BY <3>3 DEF Systemd!Stopped
        <3> QED BY <2>2, <3>1, <3>2, <3>3
    <2> QED BY <2>1, <2>3
<1>17. ASSUME NEW a \in Systemd!Agent, Systemd!Refuses(a) PROVE Systemd!WorldTypeOK'
    BY <1>17 DEF Systemd!Refuses, Systemd!world
<1>18. ASSUME NEW d \in 1..Processes, Systemd!DaemonEnds(d) PROVE Systemd!WorldTypeOK'
    BY <1>18 DEF Systemd!DaemonEnds, Systemd!Aside
<1>19. ASSUME Systemd!StartByHand PROVE Systemd!WorldTypeOK'
    BY <1>19 DEF Systemd!StartByHand, Systemd!Aside
<1>20. ASSUME Systemd!Login PROVE Systemd!WorldTypeOK'
    BY <1>20 DEF Systemd!Login, Systemd!Aside
<1> QED BY <1>1, <1>2, <1>3, <1>4, <1>5, <1>6, <1>7, <1>8, <1>9, <1>10, <1>11, <1>12, <1>13,
   <1>14, <1>15, <1>16, <1>17, <1>18, <1>19, <1>20, SystemdAgents DEF Systemd!Next,
   Systemd!Calls, Systemd!Retire, Systemd!Toggle, Systemd!Agent

\* Every step keeps the types of the transactions.
LEMMA SystemdCalls ==
    ASSUME Systemd!TypeOK, Systemd!Next
    PROVE  Systemd!CallsTypeOK'
<1> USE SystemdFacts DEF Systemd!TypeOK, Systemd!CallsTypeOK, Systemd!WorldTypeOK, Systemd!Unit,
   Systemd!world
<1>1. ASSUME NEW a \in Systemd!Agent, Systemd!Register(a) PROVE Systemd!CallsTypeOK'
    <2>1. Systemd!State \in [unit : Systemd!Unit \cup {None}, service : 1..Processes \cup {None}, enabled : BOOLEAN]
        BY DEF Systemd!State
    <2>2. x10' \in [Systemd!Agent -> [unit : Systemd!Unit \cup {None}, service : 1..Processes \cup {None}, enabled : BOOLEAN]]
        BY <1>1, <2>1 DEF Systemd!Register, Systemd!Begins
    <2> QED BY <1>1, <2>2 DEF Systemd!Register, Systemd!Begins, Systemd!Working
<1>2. ASSUME NEW a \in Systemd!Agent, Systemd!Unregister(a) PROVE Systemd!CallsTypeOK'
    BY <1>2 DEF Systemd!Unregister, Systemd!Begins, Systemd!State, Systemd!Working,
       Systemd!Outcome
<1>3. ASSUME NEW a \in Systemd!Agent, Systemd!RetireStale(a) PROVE Systemd!CallsTypeOK'
    BY <1>3 DEF Systemd!RetireStale, Systemd!Begins, Systemd!State, Systemd!Working
<1>4. ASSUME NEW a \in Systemd!Agent, Systemd!Stop(a) PROVE Systemd!CallsTypeOK'
    BY <1>4, SystemdTransaction DEF Systemd!Calls, Systemd!Retire
<1>5. ASSUME NEW a \in Systemd!Agent, Systemd!Write(a) PROVE Systemd!CallsTypeOK'
    BY <1>5, SystemdTransaction DEF Systemd!Calls, Systemd!Retire
<1>6. ASSUME NEW a \in Systemd!Agent, Systemd!Reload(a) PROVE Systemd!CallsTypeOK'
    BY <1>6, SystemdTransaction DEF Systemd!Calls, Systemd!Retire
<1>7. ASSUME NEW a \in Systemd!Agent, Systemd!Enable(a) PROVE Systemd!CallsTypeOK'
    BY <1>7, SystemdTransaction DEF Systemd!Calls, Systemd!Retire
<1>8. ASSUME NEW a \in Systemd!Agent, Systemd!Disable(a, "disable", "remove", "undoWrite") PROVE Systemd!CallsTypeOK'
    BY <1>8, SystemdTransaction DEF Systemd!Calls, Systemd!Retire
<1>9. ASSUME NEW a \in Systemd!Agent, Systemd!Disable(a, "undoDisable", "undoWrite", "undoWrite") PROVE Systemd!CallsTypeOK'
    BY <1>9, SystemdTransaction DEF Systemd!Calls, Systemd!Retire
<1>10. ASSUME NEW a \in Systemd!Agent, Systemd!Disable(a, "purge", "idle", "idle") PROVE Systemd!CallsTypeOK'
    BY <1>10, SystemdTransaction DEF Systemd!Calls, Systemd!Retire
<1>11. ASSUME NEW a \in Systemd!Agent, Systemd!Remove(a) PROVE Systemd!CallsTypeOK'
    BY <1>11, SystemdTransaction DEF Systemd!Calls, Systemd!Retire
<1>12. ASSUME NEW a \in Systemd!Agent, Systemd!Forget(a) PROVE Systemd!CallsTypeOK'
    BY <1>12, SystemdTransaction DEF Systemd!Calls, Systemd!Retire
<1>13. ASSUME NEW a \in Systemd!Agent, Systemd!UndoWrite(a) PROVE Systemd!CallsTypeOK'
    BY <1>13, SystemdTransaction DEF Systemd!Calls, Systemd!Retire
<1>14. ASSUME NEW a \in Systemd!Agent, Systemd!UndoReload(a) PROVE Systemd!CallsTypeOK'
    BY <1>14, SystemdTransaction DEF Systemd!Calls, Systemd!Retire
<1>15. ASSUME NEW a \in Systemd!Agent, Systemd!UndoEnable(a) PROVE Systemd!CallsTypeOK'
    BY <1>15, SystemdTransaction DEF Systemd!Calls, Systemd!Retire
<1>16. ASSUME NEW a \in Systemd!Agent, Systemd!UndoStart(a) PROVE Systemd!CallsTypeOK'
    BY <1>16, SystemdTransaction DEF Systemd!Calls, Systemd!Retire
<1>17. ASSUME NEW a \in Systemd!Agent, Systemd!Refuses(a) PROVE Systemd!CallsTypeOK'
    BY <1>17 DEF Systemd!Refuses, Systemd!Outcome
<1>18. ASSUME NEW d \in 1..Processes, Systemd!DaemonEnds(d) PROVE Systemd!CallsTypeOK'
    <2>1. d \in Systemd!Agent
        BY SystemdAgents
    <2>2. x8' \in [Systemd!Agent -> Systemd!Working \cup {"idle"}] /\ x12' \in [Systemd!Agent -> Systemd!Outcome]
        BY <1>18, <2>1, SystemdContinues DEF Systemd!DaemonEnds
    <2> QED BY <1>18, <2>2 DEF Systemd!DaemonEnds, Systemd!Aside
<1>19. ASSUME Systemd!StartByHand PROVE Systemd!CallsTypeOK'
    BY <1>19 DEF Systemd!StartByHand, Systemd!Aside
<1>20. ASSUME Systemd!Login PROVE Systemd!CallsTypeOK'
    BY <1>20 DEF Systemd!Login, Systemd!Aside
<1> QED BY <1>1, <1>2, <1>3, <1>4, <1>5, <1>6, <1>7, <1>8, <1>9, <1>10, <1>11, <1>12, <1>13,
   <1>14, <1>15, <1>16, <1>17, <1>18, <1>19, <1>20, SystemdAgents DEF Systemd!Next,
   Systemd!Calls, Systemd!Retire, Systemd!Toggle, Systemd!Agent

\* What was running before is not started again.
LEMMA SystemdEarlier ==
    ASSUME Systemd!TypeOK, Systemd!Earlier, Systemd!Next
    PROVE  Systemd!Earlier'
<1> USE SystemdFacts DEF Systemd!TypeOK, Systemd!CallsTypeOK, Systemd!WorldTypeOK, Systemd!Earlier
<1>1. ASSUME NEW a \in Systemd!Agent, Systemd!Register(a) PROVE Systemd!Earlier'
    BY <1>1 DEF Systemd!Register, Systemd!Begins, Systemd!State, Systemd!world
<1>2. ASSUME NEW a \in Systemd!Agent, Systemd!Unregister(a) PROVE Systemd!Earlier'
    BY <1>2 DEF Systemd!Unregister, Systemd!Begins, Systemd!State, Systemd!world
<1>3. ASSUME NEW a \in Systemd!Agent, Systemd!RetireStale(a) PROVE Systemd!Earlier'
    BY <1>3 DEF Systemd!RetireStale, Systemd!Begins, Systemd!State, Systemd!world
<1>4. ASSUME NEW a \in Systemd!Agent, Systemd!Stop(a) PROVE Systemd!Earlier'
    <2>1. x10' = x10
        BY <1>4 DEF Systemd!Stop, Systemd!Running
    <2>2. x6' \in x6..Processes
        BY <1>4 DEF Systemd!Stop, Systemd!Stopped
    <2> QED BY <2>1, <2>2
<1>5. ASSUME NEW a \in Systemd!Agent, Systemd!Write(a) PROVE Systemd!Earlier'
    <2>1. x10' = x10
        BY <1>5 DEF Systemd!Write, Systemd!Running
    <2>2. x6' \in x6..Processes
        BY <1>5 DEF Systemd!Write, Systemd!Idle
    <2> QED BY <2>1, <2>2
<1>6. ASSUME NEW a \in Systemd!Agent, Systemd!Reload(a) PROVE Systemd!Earlier'
    <2>1. x10' = x10
        BY <1>6 DEF Systemd!Reload, Systemd!Running
    <2>2. x6' \in x6..Processes
        BY <1>6 DEF Systemd!Reload, Systemd!Idle
    <2> QED BY <2>1, <2>2
<1>7. ASSUME NEW a \in Systemd!Agent, Systemd!Enable(a) PROVE Systemd!Earlier'
    <2>1. x10' = x10
        BY <1>7 DEF Systemd!Enable, Systemd!Running
    <2>2. x6' \in x6..Processes
        BY <1>7, SystemdStarted DEF Systemd!Enable, Systemd!Idle
    <2> QED BY <2>1, <2>2
<1>8. ASSUME NEW a \in Systemd!Agent, Systemd!Disable(a, "disable", "remove", "undoWrite") PROVE Systemd!Earlier'
    <2>1. x10' = x10
        BY <1>8 DEF Systemd!Disable, Systemd!Running
    <2>2. x6' \in x6..Processes
        BY <1>8 DEF Systemd!Disable, Systemd!Stopped
    <2> QED BY <2>1, <2>2
<1>9. ASSUME NEW a \in Systemd!Agent, Systemd!Disable(a, "undoDisable", "undoWrite", "undoWrite") PROVE Systemd!Earlier'
    <2>1. x10' = x10
        BY <1>9 DEF Systemd!Disable, Systemd!Running
    <2>2. x6' \in x6..Processes
        BY <1>9 DEF Systemd!Disable, Systemd!Stopped
    <2> QED BY <2>1, <2>2
<1>10. ASSUME NEW a \in Systemd!Agent, Systemd!Disable(a, "purge", "idle", "idle") PROVE Systemd!Earlier'
    <2>1. x10' = x10
        BY <1>10 DEF Systemd!Disable, Systemd!Running
    <2>2. x6' \in x6..Processes
        BY <1>10 DEF Systemd!Disable, Systemd!Stopped
    <2> QED BY <2>1, <2>2
<1>11. ASSUME NEW a \in Systemd!Agent, Systemd!Remove(a) PROVE Systemd!Earlier'
    <2>1. x10' = x10
        BY <1>11 DEF Systemd!Remove, Systemd!Running
    <2>2. x6' \in x6..Processes
        BY <1>11 DEF Systemd!Remove, Systemd!Idle
    <2> QED BY <2>1, <2>2
<1>12. ASSUME NEW a \in Systemd!Agent, Systemd!Forget(a) PROVE Systemd!Earlier'
    <2>1. x10' = x10
        BY <1>12 DEF Systemd!Forget, Systemd!Running
    <2>2. x6' \in x6..Processes
        BY <1>12 DEF Systemd!Forget, Systemd!Idle
    <2> QED BY <2>1, <2>2
<1>13. ASSUME NEW a \in Systemd!Agent, Systemd!UndoWrite(a) PROVE Systemd!Earlier'
    <2>1. x10' = x10
        BY <1>13 DEF Systemd!UndoWrite, Systemd!Running
    <2>2. x6' \in x6..Processes
        BY <1>13 DEF Systemd!UndoWrite, Systemd!Idle
    <2> QED BY <2>1, <2>2
<1>14. ASSUME NEW a \in Systemd!Agent, Systemd!UndoReload(a) PROVE Systemd!Earlier'
    <2>1. x10' = x10
        BY <1>14 DEF Systemd!UndoReload, Systemd!Running
    <2>2. x6' \in x6..Processes
        BY <1>14 DEF Systemd!UndoReload, Systemd!Idle
    <2> QED BY <2>1, <2>2
<1>15. ASSUME NEW a \in Systemd!Agent, Systemd!UndoEnable(a) PROVE Systemd!Earlier'
    <2>1. x10' = x10
        BY <1>15 DEF Systemd!UndoEnable, Systemd!Running
    <2>2. x6' \in x6..Processes
        BY <1>15 DEF Systemd!UndoEnable, Systemd!Idle
    <2> QED BY <2>1, <2>2
<1>16. ASSUME NEW a \in Systemd!Agent, Systemd!UndoStart(a) PROVE Systemd!Earlier'
    <2>1. x10' = x10
        BY <1>16 DEF Systemd!UndoStart, Systemd!Running
    <2>2. x6' \in x6..Processes
        BY <1>16, SystemdStarted DEF Systemd!UndoStart, Systemd!Idle, Systemd!Stopped
    <2> QED BY <2>1, <2>2
<1>17. ASSUME NEW a \in Systemd!Agent, Systemd!Refuses(a) PROVE Systemd!Earlier'
    BY <1>17 DEF Systemd!Refuses, Systemd!world
<1>18. ASSUME NEW d \in 1..Processes, Systemd!DaemonEnds(d) PROVE Systemd!Earlier'
    BY <1>18 DEF Systemd!DaemonEnds, Systemd!Aside
<1>19. ASSUME Systemd!StartByHand PROVE Systemd!Earlier'
    BY <1>19 DEF Systemd!StartByHand, Systemd!Aside
<1>20. ASSUME Systemd!Login PROVE Systemd!Earlier'
    BY <1>20 DEF Systemd!Login, Systemd!Aside
<1> QED BY <1>1, <1>2, <1>3, <1>4, <1>5, <1>6, <1>7, <1>8, <1>9, <1>10, <1>11, <1>12, <1>13,
   <1>14, <1>15, <1>16, <1>17, <1>18, <1>19, <1>20, SystemdAgents DEF Systemd!Next,
   Systemd!Calls, Systemd!Retire, Systemd!Toggle, Systemd!Agent

\* A transaction keeps what it knows of the service.
LEMMA SystemdKnows ==
    ASSUME Systemd!TypeOK, Systemd!Earlier, Systemd!Knows, Systemd!Next
    PROVE  Systemd!Knows'
<1> USE SystemdFacts DEF Systemd!TypeOK, Systemd!CallsTypeOK, Systemd!WorldTypeOK
<1>1. ASSUME NEW a \in Systemd!Agent, Systemd!Register(a) PROVE Systemd!Knows'
    <2>1. \A b \in Systemd!Agent \ {a} : x8'[b] = x8[b] /\ x9'[b] = x9[b] /\ x10'[b] = x10[b] /\ x11'[b] = x11[b] /\ x15'[b] = x15[b]
        BY <1>1 DEF Systemd!Register, Systemd!Begins
    <2>2. x1' = x1 /\ x2' = x2 /\ x3' = x3 /\ x4' = x4
        BY <1>1 DEF Systemd!Register, Systemd!Begins, Systemd!world
    <2>3. \A b \in Systemd!Agent \ {a} : ~x15'[b] => Systemd!Registers(b)' /\ Systemd!Retires(b)' /\ Systemd!RollsBack(b)'
        BY <2>1, <2>2 DEF Systemd!Knows, Systemd!Registers, Systemd!Retires, Systemd!RollsBack, Systemd!Forward, Systemd!Halted, Systemd!Rollback
    <2>4. Systemd!Registers(a)' /\ Systemd!Retires(a)' /\ Systemd!RollsBack(a)'
        BY <1>1, <2>2 DEF Systemd!Register, Systemd!Begins, Systemd!State, Systemd!Registers, Systemd!Retires, Systemd!RollsBack, Systemd!Forward, Systemd!Halted, Systemd!Rollback
    <2> QED BY <2>3, <2>4 DEF Systemd!Knows
<1>2. ASSUME NEW a \in Systemd!Agent, Systemd!Unregister(a) PROVE Systemd!Knows'
    <2>1. \A b \in Systemd!Agent \ {a} : x8'[b] = x8[b] /\ x9'[b] = x9[b] /\ x10'[b] = x10[b] /\ x11'[b] = x11[b] /\ x15'[b] = x15[b]
        BY <1>2 DEF Systemd!Unregister, Systemd!Begins
    <2>2. x1' = x1 /\ x2' = x2 /\ x3' = x3 /\ x4' = x4
        BY <1>2 DEF Systemd!Unregister, Systemd!Begins, Systemd!world
    <2>3. \A b \in Systemd!Agent \ {a} : ~x15'[b] => Systemd!Registers(b)' /\ Systemd!Retires(b)' /\ Systemd!RollsBack(b)'
        BY <2>1, <2>2 DEF Systemd!Knows, Systemd!Registers, Systemd!Retires, Systemd!RollsBack, Systemd!Forward, Systemd!Halted, Systemd!Rollback
    <2>4. Systemd!Registers(a)' /\ Systemd!Retires(a)' /\ Systemd!RollsBack(a)'
        BY <1>2, <2>2 DEF Systemd!Unregister, Systemd!Begins, Systemd!State, Systemd!Registers, Systemd!Retires, Systemd!RollsBack, Systemd!Forward, Systemd!Halted, Systemd!Rollback
    <2> QED BY <2>3, <2>4 DEF Systemd!Knows
<1>3. ASSUME NEW a \in Systemd!Agent, Systemd!RetireStale(a) PROVE Systemd!Knows'
    <2>1. \A b \in Systemd!Agent \ {a} : x8'[b] = x8[b] /\ x9'[b] = x9[b] /\ x10'[b] = x10[b] /\ x11'[b] = x11[b] /\ x15'[b] = x15[b]
        BY <1>3 DEF Systemd!RetireStale, Systemd!Begins
    <2>2. x1' = x1 /\ x2' = x2 /\ x3' = x3 /\ x4' = x4
        BY <1>3 DEF Systemd!RetireStale, Systemd!Begins, Systemd!world
    <2>3. \A b \in Systemd!Agent \ {a} : ~x15'[b] => Systemd!Registers(b)' /\ Systemd!Retires(b)' /\ Systemd!RollsBack(b)'
        BY <2>1, <2>2 DEF Systemd!Knows, Systemd!Registers, Systemd!Retires, Systemd!RollsBack, Systemd!Forward, Systemd!Halted, Systemd!Rollback
    <2>4. Systemd!Registers(a)' /\ Systemd!Retires(a)' /\ Systemd!RollsBack(a)'
        BY <1>3, <2>2 DEF Systemd!RetireStale, Systemd!Begins, Systemd!State, Systemd!Registers, Systemd!Retires, Systemd!RollsBack, Systemd!Forward, Systemd!Halted, Systemd!Rollback
    <2> QED BY <2>3, <2>4 DEF Systemd!Knows
<1>4. ASSUME NEW a \in Systemd!Agent, Systemd!Stop(a) PROVE Systemd!Knows'
    <2>1. /\ x9' = x9 /\ x10' = x10 /\ x15'[a] = x15[a]
          /\ \A b \in Systemd!Agent \ {a} : x15'[b] \/ x8'[b] = "idle"
        BY <1>4, SystemdTransaction DEF Systemd!Calls, Systemd!Retire
    <2>2. \A b \in Systemd!Agent \ {a} : ~x15'[b] => Systemd!Registers(b)' /\ Systemd!Retires(b)' /\ Systemd!RollsBack(b)'
        BY <2>1 DEF Systemd!Registers, Systemd!Retires, Systemd!RollsBack, Systemd!Forward, Systemd!Halted, Systemd!Rollback
    <2>3. ~x15'[a] => Systemd!Registers(a)' /\ Systemd!Retires(a)' /\ Systemd!RollsBack(a)'
        <3>1. SUFFICES ASSUME ~x15[a] PROVE Systemd!Registers(a)' /\ Systemd!Retires(a)' /\ Systemd!RollsBack(a)'
            BY <2>1
        <3>2. Systemd!Registers(a) /\ Systemd!Retires(a) /\ Systemd!RollsBack(a)
            BY <3>1 DEF Systemd!Knows
        <3>3. Systemd!Registers(a)'
            BY <1>4, <2>1, <3>2 DEF Systemd!Stop, Systemd!Running, Systemd!Continue,
               Systemd!Stopped, Systemd!Goes, Systemd!Fails, Systemd!Registers,
               Systemd!Retires, Systemd!RollsBack, Systemd!Forward, Systemd!Halted,
               Systemd!Rollback
        <3>4. Systemd!Retires(a)'
            BY <1>4, <2>1, <3>2 DEF Systemd!Stop, Systemd!Running, Systemd!Continue,
               Systemd!Stopped, Systemd!Goes, Systemd!Fails, Systemd!Registers,
               Systemd!Retires, Systemd!RollsBack, Systemd!Forward, Systemd!Halted,
               Systemd!Rollback
        <3>5. Systemd!RollsBack(a)'
            <4>1. CASE x11'[a]
                BY <4>1 DEF Systemd!RollsBack
            <4>2. CASE ~x11'[a]
                BY <1>4, <2>1, <3>2, <4>2 DEF Systemd!Stop, Systemd!Running,
                   Systemd!Continue, Systemd!Stopped, Systemd!Goes, Systemd!Fails,
                   Systemd!Registers, Systemd!Retires, Systemd!RollsBack, Systemd!Forward,
                   Systemd!Halted, Systemd!Rollback
            <4> QED BY <4>1, <4>2
        <3> QED BY <3>3, <3>4, <3>5
    <2> QED BY <2>2, <2>3 DEF Systemd!Knows
<1>5. ASSUME NEW a \in Systemd!Agent, Systemd!Write(a) PROVE Systemd!Knows'
    <2>1. /\ x9' = x9 /\ x10' = x10 /\ x15'[a] = x15[a]
          /\ \A b \in Systemd!Agent \ {a} : x15'[b] \/ x8'[b] = "idle"
        BY <1>5, SystemdTransaction DEF Systemd!Calls, Systemd!Retire
    <2>2. \A b \in Systemd!Agent \ {a} : ~x15'[b] => Systemd!Registers(b)' /\ Systemd!Retires(b)' /\ Systemd!RollsBack(b)'
        BY <2>1 DEF Systemd!Registers, Systemd!Retires, Systemd!RollsBack, Systemd!Forward, Systemd!Halted, Systemd!Rollback
    <2>3. ~x15'[a] => Systemd!Registers(a)' /\ Systemd!Retires(a)' /\ Systemd!RollsBack(a)'
        <3>1. SUFFICES ASSUME ~x15[a] PROVE Systemd!Registers(a)' /\ Systemd!Retires(a)' /\ Systemd!RollsBack(a)'
            BY <2>1
        <3>2. Systemd!Registers(a) /\ Systemd!Retires(a) /\ Systemd!RollsBack(a)
            BY <3>1 DEF Systemd!Knows
        <3>3. Systemd!Registers(a)'
            BY <1>5, <2>1, <3>2 DEF Systemd!Write, Systemd!Running, Systemd!Continue,
               Systemd!Idle, Systemd!Goes, Systemd!Fails, Systemd!Registers,
               Systemd!Retires, Systemd!RollsBack, Systemd!Forward, Systemd!Halted,
               Systemd!Rollback
        <3>4. Systemd!Retires(a)'
            BY <1>5, <2>1, <3>2 DEF Systemd!Write, Systemd!Running, Systemd!Continue,
               Systemd!Idle, Systemd!Goes, Systemd!Fails, Systemd!Registers,
               Systemd!Retires, Systemd!RollsBack, Systemd!Forward, Systemd!Halted,
               Systemd!Rollback
        <3>5. Systemd!RollsBack(a)'
            <4>1. CASE x11'[a]
                BY <4>1 DEF Systemd!RollsBack
            <4>2. CASE ~x11'[a]
                BY <1>5, <2>1, <3>2, <4>2 DEF Systemd!Write, Systemd!Running,
                   Systemd!Continue, Systemd!Idle, Systemd!Goes, Systemd!Fails,
                   Systemd!Registers, Systemd!Retires, Systemd!RollsBack, Systemd!Forward,
                   Systemd!Halted, Systemd!Rollback
            <4> QED BY <4>1, <4>2
        <3> QED BY <3>3, <3>4, <3>5
    <2> QED BY <2>2, <2>3 DEF Systemd!Knows
<1>6. ASSUME NEW a \in Systemd!Agent, Systemd!Reload(a) PROVE Systemd!Knows'
    <2>1. /\ x9' = x9 /\ x10' = x10 /\ x15'[a] = x15[a]
          /\ \A b \in Systemd!Agent \ {a} : x15'[b] \/ x8'[b] = "idle"
        BY <1>6, SystemdTransaction DEF Systemd!Calls, Systemd!Retire
    <2>2. \A b \in Systemd!Agent \ {a} : ~x15'[b] => Systemd!Registers(b)' /\ Systemd!Retires(b)' /\ Systemd!RollsBack(b)'
        BY <2>1 DEF Systemd!Registers, Systemd!Retires, Systemd!RollsBack, Systemd!Forward, Systemd!Halted, Systemd!Rollback
    <2>3. ~x15'[a] => Systemd!Registers(a)' /\ Systemd!Retires(a)' /\ Systemd!RollsBack(a)'
        <3>1. SUFFICES ASSUME ~x15[a] PROVE Systemd!Registers(a)' /\ Systemd!Retires(a)' /\ Systemd!RollsBack(a)'
            BY <2>1
        <3>2. Systemd!Registers(a) /\ Systemd!Retires(a) /\ Systemd!RollsBack(a)
            BY <3>1 DEF Systemd!Knows
        <3>3. Systemd!Registers(a)'
            BY <1>6, <2>1, <3>2 DEF Systemd!Reload, Systemd!Running, Systemd!Continue,
               Systemd!Idle, Systemd!Goes, Systemd!Fails, Systemd!Registers,
               Systemd!Retires, Systemd!RollsBack, Systemd!Forward, Systemd!Halted,
               Systemd!Rollback
        <3>4. Systemd!Retires(a)'
            BY <1>6, <2>1, <3>2 DEF Systemd!Reload, Systemd!Running, Systemd!Continue,
               Systemd!Idle, Systemd!Goes, Systemd!Fails, Systemd!Registers,
               Systemd!Retires, Systemd!RollsBack, Systemd!Forward, Systemd!Halted,
               Systemd!Rollback
        <3>5. Systemd!RollsBack(a)'
            <4>1. CASE x11'[a]
                BY <4>1 DEF Systemd!RollsBack
            <4>2. CASE ~x11'[a]
                BY <1>6, <2>1, <3>2, <4>2 DEF Systemd!Reload, Systemd!Running,
                   Systemd!Continue, Systemd!Idle, Systemd!Goes, Systemd!Fails,
                   Systemd!Registers, Systemd!Retires, Systemd!RollsBack, Systemd!Forward,
                   Systemd!Halted, Systemd!Rollback
            <4> QED BY <4>1, <4>2
        <3> QED BY <3>3, <3>4, <3>5
    <2> QED BY <2>2, <2>3 DEF Systemd!Knows
<1>7. ASSUME NEW a \in Systemd!Agent, Systemd!Enable(a) PROVE Systemd!Knows'
    <2>1. /\ x9' = x9 /\ x10' = x10 /\ x15'[a] = x15[a]
          /\ \A b \in Systemd!Agent \ {a} : x15'[b] \/ x8'[b] = "idle"
        BY <1>7, SystemdTransaction DEF Systemd!Calls, Systemd!Retire
    <2>2. \A b \in Systemd!Agent \ {a} : ~x15'[b] => Systemd!Registers(b)' /\ Systemd!Retires(b)' /\ Systemd!RollsBack(b)'
        BY <2>1 DEF Systemd!Registers, Systemd!Retires, Systemd!RollsBack, Systemd!Forward, Systemd!Halted, Systemd!Rollback
    <2>3. ~x15'[a] => Systemd!Registers(a)' /\ Systemd!Retires(a)' /\ Systemd!RollsBack(a)'
        <3>1. SUFFICES ASSUME ~x15[a] PROVE Systemd!Registers(a)' /\ Systemd!Retires(a)' /\ Systemd!RollsBack(a)'
            BY <2>1
        <3>2. Systemd!Registers(a) /\ Systemd!Retires(a) /\ Systemd!RollsBack(a)
            BY <3>1 DEF Systemd!Knows
        <3>3. Systemd!Registers(a)'
            BY <1>7, <2>1, <3>2, SystemdStarted DEF Systemd!Enable, Systemd!Running,
               Systemd!Continue, Systemd!Idle, Systemd!Ends, Systemd!Fails,
               Systemd!Registers, Systemd!Retires, Systemd!RollsBack, Systemd!Forward,
               Systemd!Halted, Systemd!Rollback
        <3>4. Systemd!Retires(a)'
            BY <1>7, <2>1, <3>2, SystemdStarted DEF Systemd!Enable, Systemd!Running,
               Systemd!Continue, Systemd!Idle, Systemd!Ends, Systemd!Fails,
               Systemd!Registers, Systemd!Retires, Systemd!RollsBack, Systemd!Forward,
               Systemd!Halted, Systemd!Rollback
        <3>5. Systemd!RollsBack(a)'
            <4>1. CASE x11'[a]
                BY <4>1 DEF Systemd!RollsBack
            <4>2. CASE ~x11'[a]
                BY <1>7, <2>1, <3>2, <4>2, SystemdStarted DEF Systemd!Enable,
                   Systemd!Running, Systemd!Continue, Systemd!Idle, Systemd!Ends,
                   Systemd!Fails, Systemd!Registers, Systemd!Retires, Systemd!RollsBack,
                   Systemd!Forward, Systemd!Halted, Systemd!Rollback
            <4> QED BY <4>1, <4>2
        <3> QED BY <3>3, <3>4, <3>5
    <2> QED BY <2>2, <2>3 DEF Systemd!Knows
<1>8. ASSUME NEW a \in Systemd!Agent, Systemd!Disable(a, "disable", "remove", "undoWrite") PROVE Systemd!Knows'
    <2>1. /\ x9' = x9 /\ x10' = x10 /\ x15'[a] = x15[a]
          /\ \A b \in Systemd!Agent \ {a} : x15'[b] \/ x8'[b] = "idle"
        BY <1>8, SystemdTransaction DEF Systemd!Calls, Systemd!Retire
    <2>2. \A b \in Systemd!Agent \ {a} : ~x15'[b] => Systemd!Registers(b)' /\ Systemd!Retires(b)' /\ Systemd!RollsBack(b)'
        BY <2>1 DEF Systemd!Registers, Systemd!Retires, Systemd!RollsBack, Systemd!Forward, Systemd!Halted, Systemd!Rollback
    <2>3. ~x15'[a] => Systemd!Registers(a)' /\ Systemd!Retires(a)' /\ Systemd!RollsBack(a)'
        <3>1. SUFFICES ASSUME ~x15[a] PROVE Systemd!Registers(a)' /\ Systemd!Retires(a)' /\ Systemd!RollsBack(a)'
            BY <2>1
        <3>2. Systemd!Registers(a) /\ Systemd!Retires(a) /\ Systemd!RollsBack(a)
            BY <3>1 DEF Systemd!Knows
        <3>3. Systemd!Registers(a)'
            BY ZenonT(30), <1>8, <2>1, <3>2 DEF Systemd!Disable, Systemd!Running, Systemd!Continue,
               Systemd!Stopped, Systemd!Goes, Systemd!Ends, Systemd!Fails,
               Systemd!Registers, Systemd!Retires, Systemd!RollsBack, Systemd!Forward,
               Systemd!Halted, Systemd!Rollback
        <3>4. Systemd!Retires(a)'
            BY ZenonT(30), <1>8, <2>1, <3>2 DEF Systemd!Disable, Systemd!Running, Systemd!Continue,
               Systemd!Stopped, Systemd!Goes, Systemd!Ends, Systemd!Fails,
               Systemd!Registers, Systemd!Retires, Systemd!RollsBack, Systemd!Forward,
               Systemd!Halted, Systemd!Rollback
        <3>5. Systemd!RollsBack(a)'
            <4>1. CASE x11'[a]
                BY <4>1 DEF Systemd!RollsBack
            <4>2. CASE ~x11'[a]
                BY <1>8, <2>1, <3>2, <4>2 DEF Systemd!Disable, Systemd!Running,
                   Systemd!Continue, Systemd!Stopped, Systemd!Goes, Systemd!Ends,
                   Systemd!Fails, Systemd!Registers, Systemd!Retires, Systemd!RollsBack,
                   Systemd!Forward, Systemd!Halted, Systemd!Rollback
            <4> QED BY <4>1, <4>2
        <3> QED BY <3>3, <3>4, <3>5
    <2> QED BY <2>2, <2>3 DEF Systemd!Knows
<1>9. ASSUME NEW a \in Systemd!Agent, Systemd!Disable(a, "undoDisable", "undoWrite", "undoWrite") PROVE Systemd!Knows'
    <2>1. /\ x9' = x9 /\ x10' = x10 /\ x15'[a] = x15[a]
          /\ \A b \in Systemd!Agent \ {a} : x15'[b] \/ x8'[b] = "idle"
        BY <1>9, SystemdTransaction DEF Systemd!Calls, Systemd!Retire
    <2>2. \A b \in Systemd!Agent \ {a} : ~x15'[b] => Systemd!Registers(b)' /\ Systemd!Retires(b)' /\ Systemd!RollsBack(b)'
        BY <2>1 DEF Systemd!Registers, Systemd!Retires, Systemd!RollsBack, Systemd!Forward, Systemd!Halted, Systemd!Rollback
    <2>3. ~x15'[a] => Systemd!Registers(a)' /\ Systemd!Retires(a)' /\ Systemd!RollsBack(a)'
        <3>1. SUFFICES ASSUME ~x15[a] PROVE Systemd!Registers(a)' /\ Systemd!Retires(a)' /\ Systemd!RollsBack(a)'
            BY <2>1
        <3>2. Systemd!Registers(a) /\ Systemd!Retires(a) /\ Systemd!RollsBack(a)
            BY <3>1 DEF Systemd!Knows
        <3>3. Systemd!Registers(a)'
            BY <1>9, <2>1, <3>2 DEF Systemd!Disable, Systemd!Running, Systemd!Continue,
               Systemd!Stopped, Systemd!Goes, Systemd!Ends, Systemd!Fails,
               Systemd!Registers, Systemd!Retires, Systemd!RollsBack, Systemd!Forward,
               Systemd!Halted, Systemd!Rollback
        <3>4. Systemd!Retires(a)'
            BY ZenonT(30), <1>9, <2>1, <3>2 DEF Systemd!Disable, Systemd!Running, Systemd!Continue,
               Systemd!Stopped, Systemd!Goes, Systemd!Ends, Systemd!Fails,
               Systemd!Registers, Systemd!Retires, Systemd!RollsBack, Systemd!Forward,
               Systemd!Halted, Systemd!Rollback
        <3>5. Systemd!RollsBack(a)'
            <4>1. CASE x11'[a]
                BY <4>1 DEF Systemd!RollsBack
            <4>2. CASE ~x11'[a]
                <5>1. ~Systemd!Fails(a, "undoWrite") /\ x8[a] \in Systemd!Rollback
                    BY <1>9, <4>2, SystemdRecords DEF Systemd!Running, Systemd!Rollback, Systemd!Disable
                <5>2. x3' = FALSE /\ x4' = None /\ x8'[a] \in {"undoWrite", "idle"}
                    BY <1>9, <5>1 DEF Systemd!Disable, Systemd!Stopped, Systemd!Goes, Systemd!Continue
                <5> QED BY <5>2 DEF Systemd!RollsBack, Systemd!Rollback
            <4> QED BY <4>1, <4>2
        <3> QED BY <3>3, <3>4, <3>5
    <2> QED BY <2>2, <2>3 DEF Systemd!Knows
<1>10. ASSUME NEW a \in Systemd!Agent, Systemd!Disable(a, "purge", "idle", "idle") PROVE Systemd!Knows'
    <2>1. /\ x9' = x9 /\ x10' = x10 /\ x15'[a] = x15[a]
          /\ \A b \in Systemd!Agent \ {a} : x15'[b] \/ x8'[b] = "idle"
        BY <1>10, SystemdTransaction DEF Systemd!Calls, Systemd!Retire
    <2>2. \A b \in Systemd!Agent \ {a} : ~x15'[b] => Systemd!Registers(b)' /\ Systemd!Retires(b)' /\ Systemd!RollsBack(b)'
        BY <2>1 DEF Systemd!Registers, Systemd!Retires, Systemd!RollsBack, Systemd!Forward, Systemd!Halted, Systemd!Rollback
    <2>3. ~x15'[a] => Systemd!Registers(a)' /\ Systemd!Retires(a)' /\ Systemd!RollsBack(a)'
        <3>1. SUFFICES ASSUME ~x15[a] PROVE Systemd!Registers(a)' /\ Systemd!Retires(a)' /\ Systemd!RollsBack(a)'
            BY <2>1
        <3>2. Systemd!Registers(a) /\ Systemd!Retires(a) /\ Systemd!RollsBack(a)
            BY <3>1 DEF Systemd!Knows
        <3>3. Systemd!Registers(a)'
            <4>1. x8'[a] = "idle"
                BY <1>10 DEF Systemd!Disable, Systemd!Ends, Systemd!Fails, Systemd!Continue
            <4> QED BY <4>1 DEF Systemd!Registers
        <3>4. Systemd!Retires(a)'
            <4>1. x8'[a] = "idle"
                BY <1>10 DEF Systemd!Disable, Systemd!Ends, Systemd!Fails, Systemd!Continue
            <4> QED BY <4>1 DEF Systemd!Retires
        <3>5. Systemd!RollsBack(a)'
            <4>1. CASE x11'[a]
                BY <4>1 DEF Systemd!RollsBack
            <4>2. CASE ~x11'[a]
                BY ZenonT(30), <1>10, <2>1, <3>2, <4>2 DEF Systemd!Disable, Systemd!Running,
                   Systemd!Continue, Systemd!Stopped, Systemd!Goes, Systemd!Ends,
                   Systemd!Fails, Systemd!Registers, Systemd!Retires, Systemd!RollsBack,
                   Systemd!Forward, Systemd!Halted, Systemd!Rollback
            <4> QED BY <4>1, <4>2
        <3> QED BY <3>3, <3>4, <3>5
    <2> QED BY <2>2, <2>3 DEF Systemd!Knows
<1>11. ASSUME NEW a \in Systemd!Agent, Systemd!Remove(a) PROVE Systemd!Knows'
    <2>1. /\ x9' = x9 /\ x10' = x10 /\ x15'[a] = x15[a]
          /\ \A b \in Systemd!Agent \ {a} : x15'[b] \/ x8'[b] = "idle"
        BY <1>11, SystemdTransaction DEF Systemd!Calls, Systemd!Retire
    <2>2. \A b \in Systemd!Agent \ {a} : ~x15'[b] => Systemd!Registers(b)' /\ Systemd!Retires(b)' /\ Systemd!RollsBack(b)'
        BY <2>1 DEF Systemd!Registers, Systemd!Retires, Systemd!RollsBack, Systemd!Forward, Systemd!Halted, Systemd!Rollback
    <2>3. ~x15'[a] => Systemd!Registers(a)' /\ Systemd!Retires(a)' /\ Systemd!RollsBack(a)'
        <3>1. SUFFICES ASSUME ~x15[a] PROVE Systemd!Registers(a)' /\ Systemd!Retires(a)' /\ Systemd!RollsBack(a)'
            BY <2>1
        <3>2. Systemd!Registers(a) /\ Systemd!Retires(a) /\ Systemd!RollsBack(a)
            BY <3>1 DEF Systemd!Knows
        <3>3. Systemd!Registers(a)'
            BY <1>11, <2>1, <3>2 DEF Systemd!Remove, Systemd!Running, Systemd!Continue,
               Systemd!Idle, Systemd!Goes, Systemd!Fails, Systemd!Registers,
               Systemd!Retires, Systemd!RollsBack, Systemd!Forward, Systemd!Halted,
               Systemd!Rollback
        <3>4. Systemd!Retires(a)'
            BY <1>11, <2>1, <3>2 DEF Systemd!Remove, Systemd!Running, Systemd!Continue,
               Systemd!Idle, Systemd!Goes, Systemd!Fails, Systemd!Registers,
               Systemd!Retires, Systemd!RollsBack, Systemd!Forward, Systemd!Halted,
               Systemd!Rollback
        <3>5. Systemd!RollsBack(a)'
            <4>1. CASE x11'[a]
                BY <4>1 DEF Systemd!RollsBack
            <4>2. CASE ~x11'[a]
                BY <1>11, <2>1, <3>2, <4>2 DEF Systemd!Remove, Systemd!Running,
                   Systemd!Continue, Systemd!Idle, Systemd!Goes, Systemd!Fails,
                   Systemd!Registers, Systemd!Retires, Systemd!RollsBack, Systemd!Forward,
                   Systemd!Halted, Systemd!Rollback
            <4> QED BY <4>1, <4>2
        <3> QED BY <3>3, <3>4, <3>5
    <2> QED BY <2>2, <2>3 DEF Systemd!Knows
<1>12. ASSUME NEW a \in Systemd!Agent, Systemd!Forget(a) PROVE Systemd!Knows'
    <2>1. /\ x9' = x9 /\ x10' = x10 /\ x15'[a] = x15[a]
          /\ \A b \in Systemd!Agent \ {a} : x15'[b] \/ x8'[b] = "idle"
        BY <1>12, SystemdTransaction DEF Systemd!Calls, Systemd!Retire
    <2>2. \A b \in Systemd!Agent \ {a} : ~x15'[b] => Systemd!Registers(b)' /\ Systemd!Retires(b)' /\ Systemd!RollsBack(b)'
        BY <2>1 DEF Systemd!Registers, Systemd!Retires, Systemd!RollsBack, Systemd!Forward, Systemd!Halted, Systemd!Rollback
    <2>3. ~x15'[a] => Systemd!Registers(a)' /\ Systemd!Retires(a)' /\ Systemd!RollsBack(a)'
        <3>1. SUFFICES ASSUME ~x15[a] PROVE Systemd!Registers(a)' /\ Systemd!Retires(a)' /\ Systemd!RollsBack(a)'
            BY <2>1
        <3>2. Systemd!Registers(a) /\ Systemd!Retires(a) /\ Systemd!RollsBack(a)
            BY <3>1 DEF Systemd!Knows
        <3>3. Systemd!Registers(a)'
            BY <1>12, <2>1, <3>2 DEF Systemd!Forget, Systemd!Running, Systemd!Continue,
               Systemd!Idle, Systemd!Ends, Systemd!Fails, Systemd!Registers,
               Systemd!Retires, Systemd!RollsBack, Systemd!Forward, Systemd!Halted,
               Systemd!Rollback
        <3>4. Systemd!Retires(a)'
            BY <1>12, <2>1, <3>2 DEF Systemd!Forget, Systemd!Running, Systemd!Continue,
               Systemd!Idle, Systemd!Ends, Systemd!Fails, Systemd!Registers,
               Systemd!Retires, Systemd!RollsBack, Systemd!Forward, Systemd!Halted,
               Systemd!Rollback
        <3>5. Systemd!RollsBack(a)'
            <4>1. CASE x11'[a]
                BY <4>1 DEF Systemd!RollsBack
            <4>2. CASE ~x11'[a]
                BY <1>12, <2>1, <3>2, <4>2 DEF Systemd!Forget, Systemd!Running,
                   Systemd!Continue, Systemd!Idle, Systemd!Ends, Systemd!Fails,
                   Systemd!Registers, Systemd!Retires, Systemd!RollsBack, Systemd!Forward,
                   Systemd!Halted, Systemd!Rollback
            <4> QED BY <4>1, <4>2
        <3> QED BY <3>3, <3>4, <3>5
    <2> QED BY <2>2, <2>3 DEF Systemd!Knows
<1>13. ASSUME NEW a \in Systemd!Agent, Systemd!UndoWrite(a) PROVE Systemd!Knows'
    <2>1. /\ x9' = x9 /\ x10' = x10 /\ x15'[a] = x15[a]
          /\ \A b \in Systemd!Agent \ {a} : x15'[b] \/ x8'[b] = "idle"
        BY <1>13, SystemdTransaction DEF Systemd!Calls, Systemd!Retire
    <2>2. \A b \in Systemd!Agent \ {a} : ~x15'[b] => Systemd!Registers(b)' /\ Systemd!Retires(b)' /\ Systemd!RollsBack(b)'
        BY <2>1 DEF Systemd!Registers, Systemd!Retires, Systemd!RollsBack, Systemd!Forward, Systemd!Halted, Systemd!Rollback
    <2>3. ~x15'[a] => Systemd!Registers(a)' /\ Systemd!Retires(a)' /\ Systemd!RollsBack(a)'
        <3>1. SUFFICES ASSUME ~x15[a] PROVE Systemd!Registers(a)' /\ Systemd!Retires(a)' /\ Systemd!RollsBack(a)'
            BY <2>1
        <3>2. Systemd!Registers(a) /\ Systemd!Retires(a) /\ Systemd!RollsBack(a)
            BY <3>1 DEF Systemd!Knows
        <3>3. Systemd!Registers(a)'
            BY <1>13, <2>1, <3>2 DEF Systemd!UndoWrite, Systemd!Running, Systemd!Continue,
               Systemd!Idle, Systemd!Goes, Systemd!Fails, Systemd!Registers,
               Systemd!Retires, Systemd!RollsBack, Systemd!Forward, Systemd!Halted,
               Systemd!Rollback
        <3>4. Systemd!Retires(a)'
            BY <1>13, <2>1, <3>2 DEF Systemd!UndoWrite, Systemd!Running, Systemd!Continue,
               Systemd!Idle, Systemd!Goes, Systemd!Fails, Systemd!Registers,
               Systemd!Retires, Systemd!RollsBack, Systemd!Forward, Systemd!Halted,
               Systemd!Rollback
        <3>5. Systemd!RollsBack(a)'
            <4>1. CASE x11'[a]
                BY <4>1 DEF Systemd!RollsBack
            <4>2. CASE ~x11'[a]
                <5>1. ~Systemd!Fails(a, "undoReload") /\ x8[a] \in Systemd!Rollback
                    BY <1>13, <4>2, SystemdRecords DEF Systemd!Running, Systemd!Rollback, Systemd!UndoWrite
                <5>2. /\ x1' = x10[a].unit /\ x3' = x3 /\ x4' = x4 /\ x11' = x11
                      /\ x8'[a] \in {"undoReload", "idle"} /\ x8[a] = "undoWrite"
                    BY <1>13, <5>1 DEF Systemd!UndoWrite, Systemd!Running, Systemd!Idle, Systemd!Goes, Systemd!Continue
                <5> QED BY <2>1, <3>2, <4>2, <5>1, <5>2 DEF Systemd!RollsBack, Systemd!Rollback
            <4> QED BY <4>1, <4>2
        <3> QED BY <3>3, <3>4, <3>5
    <2> QED BY <2>2, <2>3 DEF Systemd!Knows
<1>14. ASSUME NEW a \in Systemd!Agent, Systemd!UndoReload(a) PROVE Systemd!Knows'
    <2>1. /\ x9' = x9 /\ x10' = x10 /\ x15'[a] = x15[a]
          /\ \A b \in Systemd!Agent \ {a} : x15'[b] \/ x8'[b] = "idle"
        BY <1>14, SystemdTransaction DEF Systemd!Calls, Systemd!Retire
    <2>2. \A b \in Systemd!Agent \ {a} : ~x15'[b] => Systemd!Registers(b)' /\ Systemd!Retires(b)' /\ Systemd!RollsBack(b)'
        BY <2>1 DEF Systemd!Registers, Systemd!Retires, Systemd!RollsBack, Systemd!Forward, Systemd!Halted, Systemd!Rollback
    <2>3. ~x15'[a] => Systemd!Registers(a)' /\ Systemd!Retires(a)' /\ Systemd!RollsBack(a)'
        <3>1. SUFFICES ASSUME ~x15[a] PROVE Systemd!Registers(a)' /\ Systemd!Retires(a)' /\ Systemd!RollsBack(a)'
            BY <2>1
        <3>2. Systemd!Registers(a) /\ Systemd!Retires(a) /\ Systemd!RollsBack(a)
            BY <3>1 DEF Systemd!Knows
        <3>3. Systemd!Registers(a)'
            BY <1>14, <2>1, <3>2 DEF Systemd!UndoReload, Systemd!Running, Systemd!Continue,
               Systemd!Idle, Systemd!Goes, Systemd!Ends, Systemd!Fails, Systemd!Registers,
               Systemd!Retires, Systemd!RollsBack, Systemd!Forward, Systemd!Halted,
               Systemd!Rollback
        <3>4. Systemd!Retires(a)'
            BY <1>14, <2>1, <3>2 DEF Systemd!UndoReload, Systemd!Running, Systemd!Continue,
               Systemd!Idle, Systemd!Goes, Systemd!Ends, Systemd!Fails, Systemd!Registers,
               Systemd!Retires, Systemd!RollsBack, Systemd!Forward, Systemd!Halted,
               Systemd!Rollback
        <3>5. Systemd!RollsBack(a)'
            <4>1. CASE x11'[a]
                BY <4>1 DEF Systemd!RollsBack
            <4>2. CASE ~x11'[a]
                <5>1. \A there : ~Systemd!Fails(a, there)
                    BY <1>14, <4>2, SystemdRecords DEF Systemd!Running, Systemd!Rollback, Systemd!UndoReload
                <5>2. /\ x1' = x1 /\ x2' = x1 /\ x3' = x3 /\ x4' = x4 /\ x11' = x11 /\ x8[a] = "undoReload"
                    BY <1>14, <5>1 DEF Systemd!UndoReload, Systemd!Running, Systemd!Idle, Systemd!Goes, Systemd!Ends
                <5>3. x8'[a] \in {"undoEnable", "idle"} /\ (x10[a].unit = None => x8'[a] = "idle")
                    BY <1>14, <5>1 DEF Systemd!UndoReload, Systemd!Goes, Systemd!Ends, Systemd!Continue
                <5> QED BY <2>1, <3>2, <4>2, <5>2, <5>3 DEF Systemd!RollsBack, Systemd!Rollback
            <4> QED BY <4>1, <4>2
        <3> QED BY <3>3, <3>4, <3>5
    <2> QED BY <2>2, <2>3 DEF Systemd!Knows
<1>15. ASSUME NEW a \in Systemd!Agent, Systemd!UndoEnable(a) PROVE Systemd!Knows'
    <2>1. /\ x9' = x9 /\ x10' = x10 /\ x15'[a] = x15[a]
          /\ \A b \in Systemd!Agent \ {a} : x15'[b] \/ x8'[b] = "idle"
        BY <1>15, SystemdTransaction DEF Systemd!Calls, Systemd!Retire
    <2>2. \A b \in Systemd!Agent \ {a} : ~x15'[b] => Systemd!Registers(b)' /\ Systemd!Retires(b)' /\ Systemd!RollsBack(b)'
        BY <2>1 DEF Systemd!Registers, Systemd!Retires, Systemd!RollsBack, Systemd!Forward, Systemd!Halted, Systemd!Rollback
    <2>3. ~x15'[a] => Systemd!Registers(a)' /\ Systemd!Retires(a)' /\ Systemd!RollsBack(a)'
        <3>1. SUFFICES ASSUME ~x15[a] PROVE Systemd!Registers(a)' /\ Systemd!Retires(a)' /\ Systemd!RollsBack(a)'
            BY <2>1
        <3>2. Systemd!Registers(a) /\ Systemd!Retires(a) /\ Systemd!RollsBack(a)
            BY <3>1 DEF Systemd!Knows
        <3>3. Systemd!Registers(a)'
            BY <1>15, <2>1, <3>2 DEF Systemd!UndoEnable, Systemd!Running, Systemd!Continue,
               Systemd!Idle, Systemd!Goes, Systemd!Fails, Systemd!Registers,
               Systemd!Retires, Systemd!RollsBack, Systemd!Forward, Systemd!Halted,
               Systemd!Rollback
        <3>4. Systemd!Retires(a)'
            BY <1>15, <2>1, <3>2 DEF Systemd!UndoEnable, Systemd!Running, Systemd!Continue,
               Systemd!Idle, Systemd!Goes, Systemd!Fails, Systemd!Registers,
               Systemd!Retires, Systemd!RollsBack, Systemd!Forward, Systemd!Halted,
               Systemd!Rollback
        <3>5. Systemd!RollsBack(a)'
            <4>1. CASE x11'[a]
                BY <4>1 DEF Systemd!RollsBack
            <4>2. CASE ~x11'[a]
                BY <1>15, <2>1, <3>2, <4>2 DEF Systemd!UndoEnable, Systemd!Running,
                   Systemd!Continue, Systemd!Idle, Systemd!Goes, Systemd!Fails,
                   Systemd!Registers, Systemd!Retires, Systemd!RollsBack, Systemd!Forward,
                   Systemd!Halted, Systemd!Rollback
            <4> QED BY <4>1, <4>2
        <3> QED BY <3>3, <3>4, <3>5
    <2> QED BY <2>2, <2>3 DEF Systemd!Knows
<1>16. ASSUME NEW a \in Systemd!Agent, Systemd!UndoStart(a) PROVE Systemd!Knows'
    <2>1. /\ x9' = x9 /\ x10' = x10 /\ x15'[a] = x15[a]
          /\ \A b \in Systemd!Agent \ {a} : x15'[b] \/ x8'[b] = "idle"
        BY <1>16, SystemdTransaction DEF Systemd!Calls, Systemd!Retire
    <2>2. \A b \in Systemd!Agent \ {a} : ~x15'[b] => Systemd!Registers(b)' /\ Systemd!Retires(b)' /\ Systemd!RollsBack(b)'
        BY <2>1 DEF Systemd!Registers, Systemd!Retires, Systemd!RollsBack, Systemd!Forward, Systemd!Halted, Systemd!Rollback
    <2>3. ~x15'[a] => Systemd!Registers(a)' /\ Systemd!Retires(a)' /\ Systemd!RollsBack(a)'
        <3>1. SUFFICES ASSUME ~x15[a] PROVE Systemd!Registers(a)' /\ Systemd!Retires(a)' /\ Systemd!RollsBack(a)'
            BY <2>1
        <3>2. Systemd!Registers(a) /\ Systemd!Retires(a) /\ Systemd!RollsBack(a)
            BY <3>1 DEF Systemd!Knows
        <3>3. Systemd!Registers(a)'
            BY <1>16, <2>1, <3>2, SystemdStarted DEF Systemd!UndoStart, Systemd!Running,
               Systemd!Continue, Systemd!Idle, Systemd!Stopped, Systemd!Ends, Systemd!Fails,
               Systemd!Registers, Systemd!Retires, Systemd!RollsBack, Systemd!Forward,
               Systemd!Halted, Systemd!Rollback
        <3>4. Systemd!Retires(a)'
            BY <1>16, <2>1, <3>2, SystemdStarted DEF Systemd!UndoStart, Systemd!Running,
               Systemd!Continue, Systemd!Idle, Systemd!Stopped, Systemd!Ends, Systemd!Fails,
               Systemd!Registers, Systemd!Retires, Systemd!RollsBack, Systemd!Forward,
               Systemd!Halted, Systemd!Rollback
        <3>5. Systemd!RollsBack(a)'
            <4>1. CASE x11'[a]
                BY <4>1 DEF Systemd!RollsBack
            <4>2. CASE ~x11'[a]
                BY <1>16, <2>1, <3>2, <4>2, SystemdStarted DEF Systemd!UndoStart,
                   Systemd!Running, Systemd!Continue, Systemd!Idle, Systemd!Stopped,
                   Systemd!Ends, Systemd!Fails, Systemd!Registers, Systemd!Retires,
                   Systemd!RollsBack, Systemd!Forward, Systemd!Halted, Systemd!Rollback
            <4> QED BY <4>1, <4>2
        <3> QED BY <3>3, <3>4, <3>5
    <2> QED BY <2>2, <2>3 DEF Systemd!Knows
<1>17. ASSUME NEW a \in Systemd!Agent, Systemd!Refuses(a) PROVE Systemd!Knows'
    BY <1>17 DEF Systemd!Refuses, Systemd!Aside, Systemd!world, Systemd!Knows,
       Systemd!Registers, Systemd!Retires, Systemd!RollsBack, Systemd!Forward,
       Systemd!Halted, Systemd!Rollback
<1>18. ASSUME NEW d \in 1..Processes, Systemd!DaemonEnds(d) PROVE Systemd!Knows'
    <2>1. \A b \in Systemd!Agent : x8'[b] \in {x8[b], "idle"}
        BY <1>18, SystemdAgents DEF Systemd!DaemonEnds, Systemd!Continue
    <2>2. \A b \in Systemd!Agent : x15'[b] \/ x8'[b] = "idle"
        BY <1>18, <2>1 DEF Systemd!DaemonEnds
    <2> QED BY <2>2 DEF Systemd!Knows, Systemd!Registers, Systemd!Retires, Systemd!RollsBack, Systemd!Forward, Systemd!Halted, Systemd!Rollback
<1>19. ASSUME Systemd!StartByHand PROVE Systemd!Knows'
    BY <1>19 DEF Systemd!StartByHand, Systemd!Aside, Systemd!world, Systemd!Knows,
       Systemd!Registers, Systemd!Retires, Systemd!RollsBack, Systemd!Forward,
       Systemd!Halted, Systemd!Rollback
<1>20. ASSUME Systemd!Login PROVE Systemd!Knows'
    <2>1. \A b \in Systemd!Agent : x15'[b] \/ x8'[b] = "idle"
        BY <1>20 DEF Systemd!Login
    <2> QED BY <2>1 DEF Systemd!Knows, Systemd!Registers, Systemd!Retires, Systemd!RollsBack, Systemd!Forward, Systemd!Halted, Systemd!Rollback
<1> QED BY <1>1, <1>2, <1>3, <1>4, <1>5, <1>6, <1>7, <1>8, <1>9, <1>10, <1>11, <1>12, <1>13,
   <1>14, <1>15, <1>16, <1>17, <1>18, <1>19, <1>20, SystemdAgents DEF Systemd!Next,
   Systemd!Calls, Systemd!Retire, Systemd!Toggle, Systemd!Agent

\* What a system in which nothing is registered by a transaction knows.
LEMMA SystemdInit == ASSUME Systemd!Init PROVE Systemd!IInv
<1> USE SystemdFacts DEF Systemd!Init, Systemd!State
<1>1. /\ x4 \in {None, 1} /\ x5 = {x4} \ {None} /\ 1 \in 1..Processes /\ None # 1
    OBVIOUS
<1>2. (x5 = {} /\ x6 = 0) \/ (x5 = {1} /\ x6 = 1)
    <2>1. CASE x4 = None
        <3>1. x5 = {}
            BY <1>1, <2>1
        <3> QED BY <3>1
    <2>2. CASE x4 = 1
        <3>1. x5 = {1}
            BY <1>1, <2>2
        <3> QED BY <3>1
    <2> QED BY <1>1, <2>1, <2>2
<1>3. /\ x5 \subseteq 1..Processes /\ x4 \in x5 \cup {None} /\ x5 \subseteq 1..x6
      /\ x6 \in 0..Processes
    BY <1>1, <1>2
<1>4. x1 \in Systemd!Unit \cup {None} /\ x2 = x1 /\ x3 \in BOOLEAN
    BY DEF Systemd!Unit
<1>5. Systemd!WorldTypeOK
    BY <1>3, <1>4 DEF Systemd!WorldTypeOK
<1>6. Systemd!CallsTypeOK
    <2>1. Systemd!State \in [unit : Systemd!Unit \cup {None}, service : 1..Processes \cup {None}, enabled : BOOLEAN]
        BY <1>3, <1>4
    <2> QED BY <2>1 DEF Systemd!CallsTypeOK, Systemd!Outcome
<1>7. Systemd!Earlier
    BY <1>1, <1>2 DEF Systemd!Earlier
<1>8. Systemd!Knows
    BY DEF Systemd!Knows, Systemd!Registers, Systemd!Retires, Systemd!RollsBack, Systemd!Rollback
<1> QED BY <1>5, <1>6, <1>7, <1>8 DEF Systemd!IInv, Systemd!TypeOK

LEMMA SystemdStep == ASSUME Systemd!IInv, Systemd!Next PROVE Systemd!IInv'
BY SystemdWorld, SystemdCalls, SystemdEarlier, SystemdKnows DEF Systemd!IInv, Systemd!TypeOK

\* A transaction that reports success has done what it says.
LEMMA SystemdRegistered ==
    ASSUME Systemd!TypeOK, Systemd!Earlier, Systemd!Knows, Systemd!Next
    PROVE  Systemd!Registered
<1> USE SystemdFacts DEF Systemd!TypeOK, Systemd!CallsTypeOK, Systemd!WorldTypeOK
<1>1. ASSUME NEW a \in Systemd!Agent, Systemd!Register(a) PROVE Systemd!Registered
    <2>1. \A b \in Systemd!Agent : x8[b] # "idle" => x8'[b] = x8[b]
        BY <1>1 DEF Systemd!Register, Systemd!Begins
    <2>2. \A b \in Systemd!Agent : \A o, r : ~Systemd!Concludes(b, o, r)
        BY <2>1 DEF Systemd!Concludes
    <2> QED BY <2>2 DEF Systemd!Registered
<1>2. ASSUME NEW a \in Systemd!Agent, Systemd!Unregister(a) PROVE Systemd!Registered
    <2>1. \A b \in Systemd!Agent : x8[b] # "idle" => x8'[b] = x8[b]
        BY <1>2 DEF Systemd!Unregister, Systemd!Begins
    <2>2. \A b \in Systemd!Agent : \A o, r : ~Systemd!Concludes(b, o, r)
        BY <2>1 DEF Systemd!Concludes
    <2> QED BY <2>2 DEF Systemd!Registered
<1>3. ASSUME NEW a \in Systemd!Agent, Systemd!RetireStale(a) PROVE Systemd!Registered
    <2>1. \A b \in Systemd!Agent : x8[b] # "idle" => x8'[b] = x8[b]
        BY <1>3 DEF Systemd!RetireStale, Systemd!Begins
    <2>2. \A b \in Systemd!Agent : \A o, r : ~Systemd!Concludes(b, o, r)
        BY <2>1 DEF Systemd!Concludes
    <2> QED BY <2>2 DEF Systemd!Registered
<1>4. ASSUME NEW a \in Systemd!Agent, Systemd!Stop(a) PROVE Systemd!Registered
    <2>1. /\ x9' = x9 /\ x10' = x10 /\ x15'[a] = x15[a]
          /\ \A b \in Systemd!Agent \ {a} : x8[b] # "idle" /\ x8'[b] = "idle" => x12'[b] = "killed"
        BY <1>4, SystemdTransaction DEF Systemd!Calls, Systemd!Retire
    <2>2. \A b \in Systemd!Agent \ {a}, o \in {"register", "retire"} : ~Systemd!Concludes(b, o, "ok")
        BY <2>1 DEF Systemd!Concludes
    <2>3. ASSUME Systemd!Concludes(a, "register", "ok")
          PROVE  /\ x1' = "new" /\ x2' = "new" /\ x3' /\ x4' # None
                 /\ x10[a].unit # None => x4' # x10[a].service
        <3>1. Systemd!Registers(a) /\ Systemd!Retires(a)
            BY <2>3 DEF Systemd!Knows, Systemd!Concludes
        <3> QED
            BY <1>4, <2>1, <2>3, <3>1 DEF Systemd!Stop, Systemd!Running, Systemd!Continue,
               Systemd!Concludes, Systemd!Registers, Systemd!Retires, Systemd!Forward,
               Systemd!Halted, Systemd!Rollback, Systemd!Earlier, Systemd!Stopped,
               Systemd!Goes, Systemd!Fails
    <2>4. ASSUME Systemd!Concludes(a, "retire", "ok")
          PROVE  x1' = None /\ ~x3' /\ x4' = None /\ (x10[a].unit # None => x2' = None)
        <3>1. Systemd!Registers(a) /\ Systemd!Retires(a)
            BY <2>4 DEF Systemd!Knows, Systemd!Concludes
        <3> QED
            BY <1>4, <2>1, <2>4, <3>1 DEF Systemd!Stop, Systemd!Running, Systemd!Continue,
               Systemd!Concludes, Systemd!Registers, Systemd!Retires, Systemd!Forward,
               Systemd!Halted, Systemd!Rollback, Systemd!Earlier, Systemd!Stopped,
               Systemd!Goes, Systemd!Fails
    <2> QED BY <2>2, <2>3, <2>4 DEF Systemd!Registered
<1>5. ASSUME NEW a \in Systemd!Agent, Systemd!Write(a) PROVE Systemd!Registered
    <2>1. /\ x9' = x9 /\ x10' = x10 /\ x15'[a] = x15[a]
          /\ \A b \in Systemd!Agent \ {a} : x8[b] # "idle" /\ x8'[b] = "idle" => x12'[b] = "killed"
        BY <1>5, SystemdTransaction DEF Systemd!Calls, Systemd!Retire
    <2>2. \A b \in Systemd!Agent \ {a}, o \in {"register", "retire"} : ~Systemd!Concludes(b, o, "ok")
        BY <2>1 DEF Systemd!Concludes
    <2>3. ASSUME Systemd!Concludes(a, "register", "ok")
          PROVE  /\ x1' = "new" /\ x2' = "new" /\ x3' /\ x4' # None
                 /\ x10[a].unit # None => x4' # x10[a].service
        <3>1. Systemd!Registers(a) /\ Systemd!Retires(a)
            BY <2>3 DEF Systemd!Knows, Systemd!Concludes
        <3> QED
            BY <1>5, <2>1, <2>3, <3>1 DEF Systemd!Write, Systemd!Running, Systemd!Continue,
               Systemd!Concludes, Systemd!Registers, Systemd!Retires, Systemd!Forward,
               Systemd!Halted, Systemd!Rollback, Systemd!Earlier, Systemd!Idle,
               Systemd!Goes, Systemd!Fails
    <2>4. ASSUME Systemd!Concludes(a, "retire", "ok")
          PROVE  x1' = None /\ ~x3' /\ x4' = None /\ (x10[a].unit # None => x2' = None)
        <3>1. Systemd!Registers(a) /\ Systemd!Retires(a)
            BY <2>4 DEF Systemd!Knows, Systemd!Concludes
        <3> QED
            BY <1>5, <2>1, <2>4, <3>1 DEF Systemd!Write, Systemd!Running, Systemd!Continue,
               Systemd!Concludes, Systemd!Registers, Systemd!Retires, Systemd!Forward,
               Systemd!Halted, Systemd!Rollback, Systemd!Earlier, Systemd!Idle,
               Systemd!Goes, Systemd!Fails
    <2> QED BY <2>2, <2>3, <2>4 DEF Systemd!Registered
<1>6. ASSUME NEW a \in Systemd!Agent, Systemd!Reload(a) PROVE Systemd!Registered
    <2>1. /\ x9' = x9 /\ x10' = x10 /\ x15'[a] = x15[a]
          /\ \A b \in Systemd!Agent \ {a} : x8[b] # "idle" /\ x8'[b] = "idle" => x12'[b] = "killed"
        BY <1>6, SystemdTransaction DEF Systemd!Calls, Systemd!Retire
    <2>2. \A b \in Systemd!Agent \ {a}, o \in {"register", "retire"} : ~Systemd!Concludes(b, o, "ok")
        BY <2>1 DEF Systemd!Concludes
    <2>3. ASSUME Systemd!Concludes(a, "register", "ok")
          PROVE  /\ x1' = "new" /\ x2' = "new" /\ x3' /\ x4' # None
                 /\ x10[a].unit # None => x4' # x10[a].service
        <3>1. Systemd!Registers(a) /\ Systemd!Retires(a)
            BY <2>3 DEF Systemd!Knows, Systemd!Concludes
        <3> QED
            BY <1>6, <2>1, <2>3, <3>1 DEF Systemd!Reload, Systemd!Running, Systemd!Continue,
               Systemd!Concludes, Systemd!Registers, Systemd!Retires, Systemd!Forward,
               Systemd!Halted, Systemd!Rollback, Systemd!Earlier, Systemd!Idle,
               Systemd!Goes, Systemd!Fails
    <2>4. ASSUME Systemd!Concludes(a, "retire", "ok")
          PROVE  x1' = None /\ ~x3' /\ x4' = None /\ (x10[a].unit # None => x2' = None)
        <3>1. Systemd!Registers(a) /\ Systemd!Retires(a)
            BY <2>4 DEF Systemd!Knows, Systemd!Concludes
        <3> QED
            BY <1>6, <2>1, <2>4, <3>1 DEF Systemd!Reload, Systemd!Running, Systemd!Continue,
               Systemd!Concludes, Systemd!Registers, Systemd!Retires, Systemd!Forward,
               Systemd!Halted, Systemd!Rollback, Systemd!Earlier, Systemd!Idle,
               Systemd!Goes, Systemd!Fails
    <2> QED BY <2>2, <2>3, <2>4 DEF Systemd!Registered
<1>7. ASSUME NEW a \in Systemd!Agent, Systemd!Enable(a) PROVE Systemd!Registered
    <2>1. /\ x9' = x9 /\ x10' = x10 /\ x15'[a] = x15[a]
          /\ \A b \in Systemd!Agent \ {a} : x8[b] # "idle" /\ x8'[b] = "idle" => x12'[b] = "killed"
        BY <1>7, SystemdTransaction DEF Systemd!Calls, Systemd!Retire
    <2>2. \A b \in Systemd!Agent \ {a}, o \in {"register", "retire"} : ~Systemd!Concludes(b, o, "ok")
        BY <2>1 DEF Systemd!Concludes
    <2>3. ASSUME Systemd!Concludes(a, "register", "ok")
          PROVE  /\ x1' = "new" /\ x2' = "new" /\ x3' /\ x4' # None
                 /\ x10[a].unit # None => x4' # x10[a].service
        <3>1. Systemd!Registers(a) /\ Systemd!Retires(a)
            BY <2>3 DEF Systemd!Knows, Systemd!Concludes
        <3> QED
            BY <1>7, <2>1, <2>3, <3>1, SystemdStarted DEF Systemd!Enable, Systemd!Running,
               Systemd!Continue, Systemd!Concludes, Systemd!Registers, Systemd!Retires,
               Systemd!Forward, Systemd!Halted, Systemd!Rollback, Systemd!Earlier,
               Systemd!Idle, Systemd!Ends, Systemd!Fails
    <2>4. ASSUME Systemd!Concludes(a, "retire", "ok")
          PROVE  x1' = None /\ ~x3' /\ x4' = None /\ (x10[a].unit # None => x2' = None)
        <3>1. Systemd!Registers(a) /\ Systemd!Retires(a)
            BY <2>4 DEF Systemd!Knows, Systemd!Concludes
        <3> QED
            BY <1>7, <2>1, <2>4, <3>1, SystemdStarted DEF Systemd!Enable, Systemd!Running,
               Systemd!Continue, Systemd!Concludes, Systemd!Registers, Systemd!Retires,
               Systemd!Forward, Systemd!Halted, Systemd!Rollback, Systemd!Earlier,
               Systemd!Idle, Systemd!Ends, Systemd!Fails
    <2> QED BY <2>2, <2>3, <2>4 DEF Systemd!Registered
<1>8. ASSUME NEW a \in Systemd!Agent, Systemd!Disable(a, "disable", "remove", "undoWrite") PROVE Systemd!Registered
    <2>1. /\ x9' = x9 /\ x10' = x10 /\ x15'[a] = x15[a]
          /\ \A b \in Systemd!Agent \ {a} : x8[b] # "idle" /\ x8'[b] = "idle" => x12'[b] = "killed"
        BY <1>8, SystemdTransaction DEF Systemd!Calls, Systemd!Retire
    <2>2. \A b \in Systemd!Agent \ {a}, o \in {"register", "retire"} : ~Systemd!Concludes(b, o, "ok")
        BY <2>1 DEF Systemd!Concludes
    <2>3. ASSUME Systemd!Concludes(a, "register", "ok")
          PROVE  /\ x1' = "new" /\ x2' = "new" /\ x3' /\ x4' # None
                 /\ x10[a].unit # None => x4' # x10[a].service
        <3>1. Systemd!Registers(a) /\ Systemd!Retires(a)
            BY <2>3 DEF Systemd!Knows, Systemd!Concludes
        <3> QED
            BY <1>8, <2>1, <2>3, <3>1 DEF Systemd!Disable, Systemd!Running,
               Systemd!Continue, Systemd!Concludes, Systemd!Registers, Systemd!Retires,
               Systemd!Forward, Systemd!Halted, Systemd!Rollback, Systemd!Earlier,
               Systemd!Stopped, Systemd!Goes, Systemd!Ends, Systemd!Fails
    <2>4. ASSUME Systemd!Concludes(a, "retire", "ok")
          PROVE  x1' = None /\ ~x3' /\ x4' = None /\ (x10[a].unit # None => x2' = None)
        <3>1. Systemd!Registers(a) /\ Systemd!Retires(a)
            BY <2>4 DEF Systemd!Knows, Systemd!Concludes
        <3> QED
            BY <1>8, <2>1, <2>4, <3>1 DEF Systemd!Disable, Systemd!Running,
               Systemd!Continue, Systemd!Concludes, Systemd!Registers, Systemd!Retires,
               Systemd!Forward, Systemd!Halted, Systemd!Rollback, Systemd!Earlier,
               Systemd!Stopped, Systemd!Goes, Systemd!Ends, Systemd!Fails
    <2> QED BY <2>2, <2>3, <2>4 DEF Systemd!Registered
<1>9. ASSUME NEW a \in Systemd!Agent, Systemd!Disable(a, "undoDisable", "undoWrite", "undoWrite") PROVE Systemd!Registered
    <2>1. /\ x9' = x9 /\ x10' = x10 /\ x15'[a] = x15[a]
          /\ \A b \in Systemd!Agent \ {a} : x8[b] # "idle" /\ x8'[b] = "idle" => x12'[b] = "killed"
        BY <1>9, SystemdTransaction DEF Systemd!Calls, Systemd!Retire
    <2>2. \A b \in Systemd!Agent \ {a}, o \in {"register", "retire"} : ~Systemd!Concludes(b, o, "ok")
        BY <2>1 DEF Systemd!Concludes
    <2>3. ASSUME Systemd!Concludes(a, "register", "ok")
          PROVE  /\ x1' = "new" /\ x2' = "new" /\ x3' /\ x4' # None
                 /\ x10[a].unit # None => x4' # x10[a].service
        <3>1. Systemd!Registers(a) /\ Systemd!Retires(a)
            BY <2>3 DEF Systemd!Knows, Systemd!Concludes
        <3> QED
            BY <1>9, <2>1, <2>3, <3>1 DEF Systemd!Disable, Systemd!Running,
               Systemd!Continue, Systemd!Concludes, Systemd!Registers, Systemd!Retires,
               Systemd!Forward, Systemd!Halted, Systemd!Rollback, Systemd!Earlier,
               Systemd!Stopped, Systemd!Goes, Systemd!Ends, Systemd!Fails
    <2>4. ASSUME Systemd!Concludes(a, "retire", "ok")
          PROVE  x1' = None /\ ~x3' /\ x4' = None /\ (x10[a].unit # None => x2' = None)
        <3>1. Systemd!Registers(a) /\ Systemd!Retires(a)
            BY <2>4 DEF Systemd!Knows, Systemd!Concludes
        <3> QED
            BY <1>9, <2>1, <2>4, <3>1 DEF Systemd!Disable, Systemd!Running,
               Systemd!Continue, Systemd!Concludes, Systemd!Registers, Systemd!Retires,
               Systemd!Forward, Systemd!Halted, Systemd!Rollback, Systemd!Earlier,
               Systemd!Stopped, Systemd!Goes, Systemd!Ends, Systemd!Fails
    <2> QED BY <2>2, <2>3, <2>4 DEF Systemd!Registered
<1>10. ASSUME NEW a \in Systemd!Agent, Systemd!Disable(a, "purge", "idle", "idle") PROVE Systemd!Registered
    <2>1. /\ x9' = x9 /\ x10' = x10 /\ x15'[a] = x15[a]
          /\ \A b \in Systemd!Agent \ {a} : x8[b] # "idle" /\ x8'[b] = "idle" => x12'[b] = "killed"
        BY <1>10, SystemdTransaction DEF Systemd!Calls, Systemd!Retire
    <2>2. \A b \in Systemd!Agent \ {a}, o \in {"register", "retire"} : ~Systemd!Concludes(b, o, "ok")
        BY <2>1 DEF Systemd!Concludes
    <2>3. ASSUME Systemd!Concludes(a, "register", "ok")
          PROVE  /\ x1' = "new" /\ x2' = "new" /\ x3' /\ x4' # None
                 /\ x10[a].unit # None => x4' # x10[a].service
        <3>1. Systemd!Registers(a) /\ Systemd!Retires(a)
            BY <2>3 DEF Systemd!Knows, Systemd!Concludes
        <3> QED
            BY <1>10, <2>1, <2>3, <3>1 DEF Systemd!Disable, Systemd!Running,
               Systemd!Continue, Systemd!Concludes, Systemd!Registers, Systemd!Retires,
               Systemd!Forward, Systemd!Halted, Systemd!Rollback, Systemd!Earlier,
               Systemd!Stopped, Systemd!Goes, Systemd!Ends, Systemd!Fails
    <2>4. ASSUME Systemd!Concludes(a, "retire", "ok")
          PROVE  x1' = None /\ ~x3' /\ x4' = None /\ (x10[a].unit # None => x2' = None)
        <3>1. Systemd!Registers(a) /\ Systemd!Retires(a)
            BY <2>4 DEF Systemd!Knows, Systemd!Concludes
        <3> QED
            BY <1>10, <2>1, <2>4, <3>1 DEF Systemd!Disable, Systemd!Running,
               Systemd!Continue, Systemd!Concludes, Systemd!Registers, Systemd!Retires,
               Systemd!Forward, Systemd!Halted, Systemd!Rollback, Systemd!Earlier,
               Systemd!Stopped, Systemd!Goes, Systemd!Ends, Systemd!Fails
    <2> QED BY <2>2, <2>3, <2>4 DEF Systemd!Registered
<1>11. ASSUME NEW a \in Systemd!Agent, Systemd!Remove(a) PROVE Systemd!Registered
    <2>1. /\ x9' = x9 /\ x10' = x10 /\ x15'[a] = x15[a]
          /\ \A b \in Systemd!Agent \ {a} : x8[b] # "idle" /\ x8'[b] = "idle" => x12'[b] = "killed"
        BY <1>11, SystemdTransaction DEF Systemd!Calls, Systemd!Retire
    <2>2. \A b \in Systemd!Agent \ {a}, o \in {"register", "retire"} : ~Systemd!Concludes(b, o, "ok")
        BY <2>1 DEF Systemd!Concludes
    <2>3. ASSUME Systemd!Concludes(a, "register", "ok")
          PROVE  /\ x1' = "new" /\ x2' = "new" /\ x3' /\ x4' # None
                 /\ x10[a].unit # None => x4' # x10[a].service
        <3>1. Systemd!Registers(a) /\ Systemd!Retires(a)
            BY <2>3 DEF Systemd!Knows, Systemd!Concludes
        <3> QED
            BY <1>11, <2>1, <2>3, <3>1 DEF Systemd!Remove, Systemd!Running, Systemd!Continue,
               Systemd!Concludes, Systemd!Registers, Systemd!Retires, Systemd!Forward,
               Systemd!Halted, Systemd!Rollback, Systemd!Earlier, Systemd!Idle,
               Systemd!Goes, Systemd!Fails
    <2>4. ASSUME Systemd!Concludes(a, "retire", "ok")
          PROVE  x1' = None /\ ~x3' /\ x4' = None /\ (x10[a].unit # None => x2' = None)
        <3>1. Systemd!Registers(a) /\ Systemd!Retires(a)
            BY <2>4 DEF Systemd!Knows, Systemd!Concludes
        <3> QED
            BY <1>11, <2>1, <2>4, <3>1 DEF Systemd!Remove, Systemd!Running, Systemd!Continue,
               Systemd!Concludes, Systemd!Registers, Systemd!Retires, Systemd!Forward,
               Systemd!Halted, Systemd!Rollback, Systemd!Earlier, Systemd!Idle,
               Systemd!Goes, Systemd!Fails
    <2> QED BY <2>2, <2>3, <2>4 DEF Systemd!Registered
<1>12. ASSUME NEW a \in Systemd!Agent, Systemd!Forget(a) PROVE Systemd!Registered
    <2>1. /\ x9' = x9 /\ x10' = x10 /\ x15'[a] = x15[a]
          /\ \A b \in Systemd!Agent \ {a} : x8[b] # "idle" /\ x8'[b] = "idle" => x12'[b] = "killed"
        BY <1>12, SystemdTransaction DEF Systemd!Calls, Systemd!Retire
    <2>2. \A b \in Systemd!Agent \ {a}, o \in {"register", "retire"} : ~Systemd!Concludes(b, o, "ok")
        BY <2>1 DEF Systemd!Concludes
    <2>3. ASSUME Systemd!Concludes(a, "register", "ok")
          PROVE  /\ x1' = "new" /\ x2' = "new" /\ x3' /\ x4' # None
                 /\ x10[a].unit # None => x4' # x10[a].service
        <3>1. Systemd!Registers(a) /\ Systemd!Retires(a)
            BY <2>3 DEF Systemd!Knows, Systemd!Concludes
        <3> QED
            BY <1>12, <2>1, <2>3, <3>1 DEF Systemd!Forget, Systemd!Running, Systemd!Continue,
               Systemd!Concludes, Systemd!Registers, Systemd!Retires, Systemd!Forward,
               Systemd!Halted, Systemd!Rollback, Systemd!Earlier, Systemd!Idle,
               Systemd!Ends, Systemd!Fails
    <2>4. ASSUME Systemd!Concludes(a, "retire", "ok")
          PROVE  x1' = None /\ ~x3' /\ x4' = None /\ (x10[a].unit # None => x2' = None)
        <3>1. Systemd!Registers(a) /\ Systemd!Retires(a)
            BY <2>4 DEF Systemd!Knows, Systemd!Concludes
        <3> QED
            BY <1>12, <2>1, <2>4, <3>1 DEF Systemd!Forget, Systemd!Running, Systemd!Continue,
               Systemd!Concludes, Systemd!Registers, Systemd!Retires, Systemd!Forward,
               Systemd!Halted, Systemd!Rollback, Systemd!Earlier, Systemd!Idle,
               Systemd!Ends, Systemd!Fails
    <2> QED BY <2>2, <2>3, <2>4 DEF Systemd!Registered
<1>13. ASSUME NEW a \in Systemd!Agent, Systemd!UndoWrite(a) PROVE Systemd!Registered
    <2>1. /\ x9' = x9 /\ x10' = x10 /\ x15'[a] = x15[a]
          /\ \A b \in Systemd!Agent \ {a} : x8[b] # "idle" /\ x8'[b] = "idle" => x12'[b] = "killed"
        BY <1>13, SystemdTransaction DEF Systemd!Calls, Systemd!Retire
    <2>2. \A b \in Systemd!Agent \ {a}, o \in {"register", "retire"} : ~Systemd!Concludes(b, o, "ok")
        BY <2>1 DEF Systemd!Concludes
    <2>3. ASSUME Systemd!Concludes(a, "register", "ok")
          PROVE  /\ x1' = "new" /\ x2' = "new" /\ x3' /\ x4' # None
                 /\ x10[a].unit # None => x4' # x10[a].service
        <3>1. Systemd!Registers(a) /\ Systemd!Retires(a)
            BY <2>3 DEF Systemd!Knows, Systemd!Concludes
        <3> QED
            BY <1>13, <2>1, <2>3, <3>1 DEF Systemd!UndoWrite, Systemd!Running,
               Systemd!Continue, Systemd!Concludes, Systemd!Registers, Systemd!Retires,
               Systemd!Forward, Systemd!Halted, Systemd!Rollback, Systemd!Earlier,
               Systemd!Idle, Systemd!Goes, Systemd!Fails
    <2>4. ASSUME Systemd!Concludes(a, "retire", "ok")
          PROVE  x1' = None /\ ~x3' /\ x4' = None /\ (x10[a].unit # None => x2' = None)
        <3>1. Systemd!Registers(a) /\ Systemd!Retires(a)
            BY <2>4 DEF Systemd!Knows, Systemd!Concludes
        <3> QED
            BY <1>13, <2>1, <2>4, <3>1 DEF Systemd!UndoWrite, Systemd!Running,
               Systemd!Continue, Systemd!Concludes, Systemd!Registers, Systemd!Retires,
               Systemd!Forward, Systemd!Halted, Systemd!Rollback, Systemd!Earlier,
               Systemd!Idle, Systemd!Goes, Systemd!Fails
    <2> QED BY <2>2, <2>3, <2>4 DEF Systemd!Registered
<1>14. ASSUME NEW a \in Systemd!Agent, Systemd!UndoReload(a) PROVE Systemd!Registered
    <2>1. /\ x9' = x9 /\ x10' = x10 /\ x15'[a] = x15[a]
          /\ \A b \in Systemd!Agent \ {a} : x8[b] # "idle" /\ x8'[b] = "idle" => x12'[b] = "killed"
        BY <1>14, SystemdTransaction DEF Systemd!Calls, Systemd!Retire
    <2>2. \A b \in Systemd!Agent \ {a}, o \in {"register", "retire"} : ~Systemd!Concludes(b, o, "ok")
        BY <2>1 DEF Systemd!Concludes
    <2>3. ASSUME Systemd!Concludes(a, "register", "ok")
          PROVE  /\ x1' = "new" /\ x2' = "new" /\ x3' /\ x4' # None
                 /\ x10[a].unit # None => x4' # x10[a].service
        <3>1. Systemd!Registers(a) /\ Systemd!Retires(a)
            BY <2>3 DEF Systemd!Knows, Systemd!Concludes
        <3> QED
            BY <1>14, <2>1, <2>3, <3>1 DEF Systemd!UndoReload, Systemd!Running,
               Systemd!Continue, Systemd!Concludes, Systemd!Registers, Systemd!Retires,
               Systemd!Forward, Systemd!Halted, Systemd!Rollback, Systemd!Earlier,
               Systemd!Idle, Systemd!Goes, Systemd!Ends, Systemd!Fails
    <2>4. ASSUME Systemd!Concludes(a, "retire", "ok")
          PROVE  x1' = None /\ ~x3' /\ x4' = None /\ (x10[a].unit # None => x2' = None)
        <3>1. Systemd!Registers(a) /\ Systemd!Retires(a)
            BY <2>4 DEF Systemd!Knows, Systemd!Concludes
        <3> QED
            BY <1>14, <2>1, <2>4, <3>1 DEF Systemd!UndoReload, Systemd!Running,
               Systemd!Continue, Systemd!Concludes, Systemd!Registers, Systemd!Retires,
               Systemd!Forward, Systemd!Halted, Systemd!Rollback, Systemd!Earlier,
               Systemd!Idle, Systemd!Goes, Systemd!Ends, Systemd!Fails
    <2> QED BY <2>2, <2>3, <2>4 DEF Systemd!Registered
<1>15. ASSUME NEW a \in Systemd!Agent, Systemd!UndoEnable(a) PROVE Systemd!Registered
    <2>1. /\ x9' = x9 /\ x10' = x10 /\ x15'[a] = x15[a]
          /\ \A b \in Systemd!Agent \ {a} : x8[b] # "idle" /\ x8'[b] = "idle" => x12'[b] = "killed"
        BY <1>15, SystemdTransaction DEF Systemd!Calls, Systemd!Retire
    <2>2. \A b \in Systemd!Agent \ {a}, o \in {"register", "retire"} : ~Systemd!Concludes(b, o, "ok")
        BY <2>1 DEF Systemd!Concludes
    <2>3. ASSUME Systemd!Concludes(a, "register", "ok")
          PROVE  /\ x1' = "new" /\ x2' = "new" /\ x3' /\ x4' # None
                 /\ x10[a].unit # None => x4' # x10[a].service
        <3>1. Systemd!Registers(a) /\ Systemd!Retires(a)
            BY <2>3 DEF Systemd!Knows, Systemd!Concludes
        <3> QED
            BY <1>15, <2>1, <2>3, <3>1 DEF Systemd!UndoEnable, Systemd!Running,
               Systemd!Continue, Systemd!Concludes, Systemd!Registers, Systemd!Retires,
               Systemd!Forward, Systemd!Halted, Systemd!Rollback, Systemd!Earlier,
               Systemd!Idle, Systemd!Goes, Systemd!Fails
    <2>4. ASSUME Systemd!Concludes(a, "retire", "ok")
          PROVE  x1' = None /\ ~x3' /\ x4' = None /\ (x10[a].unit # None => x2' = None)
        <3>1. Systemd!Registers(a) /\ Systemd!Retires(a)
            BY <2>4 DEF Systemd!Knows, Systemd!Concludes
        <3> QED
            BY <1>15, <2>1, <2>4, <3>1 DEF Systemd!UndoEnable, Systemd!Running,
               Systemd!Continue, Systemd!Concludes, Systemd!Registers, Systemd!Retires,
               Systemd!Forward, Systemd!Halted, Systemd!Rollback, Systemd!Earlier,
               Systemd!Idle, Systemd!Goes, Systemd!Fails
    <2> QED BY <2>2, <2>3, <2>4 DEF Systemd!Registered
<1>16. ASSUME NEW a \in Systemd!Agent, Systemd!UndoStart(a) PROVE Systemd!Registered
    <2>1. /\ x9' = x9 /\ x10' = x10 /\ x15'[a] = x15[a]
          /\ \A b \in Systemd!Agent \ {a} : x8[b] # "idle" /\ x8'[b] = "idle" => x12'[b] = "killed"
        BY <1>16, SystemdTransaction DEF Systemd!Calls, Systemd!Retire
    <2>2. \A b \in Systemd!Agent \ {a}, o \in {"register", "retire"} : ~Systemd!Concludes(b, o, "ok")
        BY <2>1 DEF Systemd!Concludes
    <2>3. ASSUME Systemd!Concludes(a, "register", "ok")
          PROVE  /\ x1' = "new" /\ x2' = "new" /\ x3' /\ x4' # None
                 /\ x10[a].unit # None => x4' # x10[a].service
        <3>1. Systemd!Registers(a) /\ Systemd!Retires(a)
            BY <2>3 DEF Systemd!Knows, Systemd!Concludes
        <3> QED
            BY <1>16, <2>1, <2>3, <3>1, SystemdStarted DEF Systemd!UndoStart,
               Systemd!Running, Systemd!Continue, Systemd!Concludes, Systemd!Registers,
               Systemd!Retires, Systemd!Forward, Systemd!Halted, Systemd!Rollback,
               Systemd!Earlier, Systemd!Idle, Systemd!Stopped, Systemd!Ends, Systemd!Fails
    <2>4. ASSUME Systemd!Concludes(a, "retire", "ok")
          PROVE  x1' = None /\ ~x3' /\ x4' = None /\ (x10[a].unit # None => x2' = None)
        <3>1. Systemd!Registers(a) /\ Systemd!Retires(a)
            BY <2>4 DEF Systemd!Knows, Systemd!Concludes
        <3> QED
            BY <1>16, <2>1, <2>4, <3>1, SystemdStarted DEF Systemd!UndoStart,
               Systemd!Running, Systemd!Continue, Systemd!Concludes, Systemd!Registers,
               Systemd!Retires, Systemd!Forward, Systemd!Halted, Systemd!Rollback,
               Systemd!Earlier, Systemd!Idle, Systemd!Stopped, Systemd!Ends, Systemd!Fails
    <2> QED BY <2>2, <2>3, <2>4 DEF Systemd!Registered
<1>17. ASSUME NEW a \in Systemd!Agent, Systemd!Refuses(a) PROVE Systemd!Registered
    <2>1. \A b \in Systemd!Agent : x8[b] # "idle" => x8'[b] = x8[b]
        BY <1>17 DEF Systemd!Refuses, Systemd!Begins
    <2>2. \A b \in Systemd!Agent : \A o, r : ~Systemd!Concludes(b, o, r)
        BY <2>1 DEF Systemd!Concludes
    <2> QED BY <2>2 DEF Systemd!Registered
<1>18. ASSUME NEW d \in 1..Processes, Systemd!DaemonEnds(d) PROVE Systemd!Registered
    <2>1. \A b \in Systemd!Agent : x8[b] # "idle" /\ x8'[b] = "idle" => x12'[b] = "killed"
        BY <1>18, SystemdAgents DEF Systemd!DaemonEnds, Systemd!Continue, Systemd!Ended
    <2>2. \A b \in Systemd!Agent : \A o, r : r # "killed" => ~Systemd!Concludes(b, o, r)
        BY <2>1 DEF Systemd!Concludes
    <2> QED BY <2>2 DEF Systemd!Registered
<1>19. ASSUME Systemd!StartByHand PROVE Systemd!Registered
    <2>1. \A b \in Systemd!Agent : x8[b] # "idle" => x8'[b] = x8[b]
        BY <1>19 DEF Systemd!StartByHand, Systemd!Begins
    <2>2. \A b \in Systemd!Agent : \A o, r : ~Systemd!Concludes(b, o, r)
        BY <2>1 DEF Systemd!Concludes
    <2> QED BY <2>2 DEF Systemd!Registered
<1>20. ASSUME Systemd!Login PROVE Systemd!Registered
    <2>1. \A b \in Systemd!Agent : x8[b] # "idle" => x8'[b] = x8[b]
        BY <1>20 DEF Systemd!Login, Systemd!Begins
    <2>2. \A b \in Systemd!Agent : \A o, r : ~Systemd!Concludes(b, o, r)
        BY <2>1 DEF Systemd!Concludes
    <2> QED BY <2>2 DEF Systemd!Registered
<1> QED BY <1>1, <1>2, <1>3, <1>4, <1>5, <1>6, <1>7, <1>8, <1>9, <1>10, <1>11, <1>12, <1>13,
   <1>14, <1>15, <1>16, <1>17, <1>18, <1>19, <1>20, SystemdAgents DEF Systemd!Next,
   Systemd!Calls, Systemd!Retire, Systemd!Toggle, Systemd!Agent

\* A rollback that reports no failure has restored what there was.
LEMMA SystemdRolledBack ==
    ASSUME Systemd!TypeOK, Systemd!Earlier, Systemd!Knows, Systemd!Next
    PROVE  Systemd!RolledBack
<1> USE SystemdFacts DEF Systemd!TypeOK, Systemd!CallsTypeOK, Systemd!WorldTypeOK
<1>1. ASSUME NEW a \in Systemd!Agent, Systemd!Register(a) PROVE Systemd!RolledBack
    <2>1. \A b \in Systemd!Agent : x8[b] # "idle" => x8'[b] = x8[b]
        BY <1>1 DEF Systemd!Register, Systemd!Begins
    <2>2. \A b \in Systemd!Agent : \A o, r : ~Systemd!Concludes(b, o, r)
        BY <2>1 DEF Systemd!Concludes
    <2> QED BY <2>2 DEF Systemd!RolledBack
<1>2. ASSUME NEW a \in Systemd!Agent, Systemd!Unregister(a) PROVE Systemd!RolledBack
    <2>1. \A b \in Systemd!Agent : x8[b] # "idle" => x8'[b] = x8[b]
        BY <1>2 DEF Systemd!Unregister, Systemd!Begins
    <2>2. \A b \in Systemd!Agent : \A o, r : ~Systemd!Concludes(b, o, r)
        BY <2>1 DEF Systemd!Concludes
    <2> QED BY <2>2 DEF Systemd!RolledBack
<1>3. ASSUME NEW a \in Systemd!Agent, Systemd!RetireStale(a) PROVE Systemd!RolledBack
    <2>1. \A b \in Systemd!Agent : x8[b] # "idle" => x8'[b] = x8[b]
        BY <1>3 DEF Systemd!RetireStale, Systemd!Begins
    <2>2. \A b \in Systemd!Agent : \A o, r : ~Systemd!Concludes(b, o, r)
        BY <2>1 DEF Systemd!Concludes
    <2> QED BY <2>2 DEF Systemd!RolledBack
<1>4. ASSUME NEW a \in Systemd!Agent, Systemd!Stop(a) PROVE Systemd!RolledBack
    <2>1. /\ x9' = x9 /\ x10' = x10 /\ x15'[a] = x15[a]
          /\ \A b \in Systemd!Agent \ {a} : x8[b] # "idle" /\ x8'[b] = "idle" => x12'[b] = "killed"
        BY <1>4, SystemdTransaction DEF Systemd!Calls, Systemd!Retire
    <2>2. \A b \in Systemd!Agent \ {a}, o \in {"register", "retire"} : ~Systemd!Concludes(b, o, "error")
        BY <2>1 DEF Systemd!Concludes
    <2>3. ASSUME NEW o \in {"register", "retire"}, Systemd!Concludes(a, o, "error"), x8[a] \in Systemd!Rollback
          PROVE  /\ x1' = x10[a].unit /\ x2' = x1' /\ (x3' => x10[a].enabled)
                 /\ x4' # None => x10[a].service # None
                 /\ x1' # None => (x10[a].enabled => x3') /\ (x10[a].service # None => x4' # None)
        <3>1. Systemd!RollsBack(a)
            BY <2>3 DEF Systemd!Knows, Systemd!Concludes
        <3> QED
            BY <1>4, <2>1, <2>3, <3>1 DEF Systemd!Stop, Systemd!Running, Systemd!Continue,
               Systemd!Concludes, Systemd!RollsBack, Systemd!Rollback, Systemd!Stopped,
               Systemd!Goes, Systemd!Fails
    <2> QED BY <2>2, <2>3 DEF Systemd!RolledBack
<1>5. ASSUME NEW a \in Systemd!Agent, Systemd!Write(a) PROVE Systemd!RolledBack
    <2>1. /\ x9' = x9 /\ x10' = x10 /\ x15'[a] = x15[a]
          /\ \A b \in Systemd!Agent \ {a} : x8[b] # "idle" /\ x8'[b] = "idle" => x12'[b] = "killed"
        BY <1>5, SystemdTransaction DEF Systemd!Calls, Systemd!Retire
    <2>2. \A b \in Systemd!Agent \ {a}, o \in {"register", "retire"} : ~Systemd!Concludes(b, o, "error")
        BY <2>1 DEF Systemd!Concludes
    <2>3. ASSUME NEW o \in {"register", "retire"}, Systemd!Concludes(a, o, "error"), x8[a] \in Systemd!Rollback
          PROVE  /\ x1' = x10[a].unit /\ x2' = x1' /\ (x3' => x10[a].enabled)
                 /\ x4' # None => x10[a].service # None
                 /\ x1' # None => (x10[a].enabled => x3') /\ (x10[a].service # None => x4' # None)
        <3>1. Systemd!RollsBack(a)
            BY <2>3 DEF Systemd!Knows, Systemd!Concludes
        <3> QED
            BY <1>5, <2>1, <2>3, <3>1 DEF Systemd!Write, Systemd!Running, Systemd!Continue,
               Systemd!Concludes, Systemd!RollsBack, Systemd!Rollback, Systemd!Idle,
               Systemd!Goes, Systemd!Fails
    <2> QED BY <2>2, <2>3 DEF Systemd!RolledBack
<1>6. ASSUME NEW a \in Systemd!Agent, Systemd!Reload(a) PROVE Systemd!RolledBack
    <2>1. /\ x9' = x9 /\ x10' = x10 /\ x15'[a] = x15[a]
          /\ \A b \in Systemd!Agent \ {a} : x8[b] # "idle" /\ x8'[b] = "idle" => x12'[b] = "killed"
        BY <1>6, SystemdTransaction DEF Systemd!Calls, Systemd!Retire
    <2>2. \A b \in Systemd!Agent \ {a}, o \in {"register", "retire"} : ~Systemd!Concludes(b, o, "error")
        BY <2>1 DEF Systemd!Concludes
    <2>3. ASSUME NEW o \in {"register", "retire"}, Systemd!Concludes(a, o, "error"), x8[a] \in Systemd!Rollback
          PROVE  /\ x1' = x10[a].unit /\ x2' = x1' /\ (x3' => x10[a].enabled)
                 /\ x4' # None => x10[a].service # None
                 /\ x1' # None => (x10[a].enabled => x3') /\ (x10[a].service # None => x4' # None)
        <3>1. Systemd!RollsBack(a)
            BY <2>3 DEF Systemd!Knows, Systemd!Concludes
        <3> QED
            BY <1>6, <2>1, <2>3, <3>1 DEF Systemd!Reload, Systemd!Running, Systemd!Continue,
               Systemd!Concludes, Systemd!RollsBack, Systemd!Rollback, Systemd!Idle,
               Systemd!Goes, Systemd!Fails
    <2> QED BY <2>2, <2>3 DEF Systemd!RolledBack
<1>7. ASSUME NEW a \in Systemd!Agent, Systemd!Enable(a) PROVE Systemd!RolledBack
    <2>1. /\ x9' = x9 /\ x10' = x10 /\ x15'[a] = x15[a]
          /\ \A b \in Systemd!Agent \ {a} : x8[b] # "idle" /\ x8'[b] = "idle" => x12'[b] = "killed"
        BY <1>7, SystemdTransaction DEF Systemd!Calls, Systemd!Retire
    <2>2. \A b \in Systemd!Agent \ {a}, o \in {"register", "retire"} : ~Systemd!Concludes(b, o, "error")
        BY <2>1 DEF Systemd!Concludes
    <2>3. ASSUME NEW o \in {"register", "retire"}, Systemd!Concludes(a, o, "error"), x8[a] \in Systemd!Rollback
          PROVE  /\ x1' = x10[a].unit /\ x2' = x1' /\ (x3' => x10[a].enabled)
                 /\ x4' # None => x10[a].service # None
                 /\ x1' # None => (x10[a].enabled => x3') /\ (x10[a].service # None => x4' # None)
        <3>1. Systemd!RollsBack(a)
            BY <2>3 DEF Systemd!Knows, Systemd!Concludes
        <3> QED
            BY <1>7, <2>1, <2>3, <3>1, SystemdStarted DEF Systemd!Enable, Systemd!Running,
               Systemd!Continue, Systemd!Concludes, Systemd!RollsBack, Systemd!Rollback,
               Systemd!Idle, Systemd!Ends, Systemd!Fails
    <2> QED BY <2>2, <2>3 DEF Systemd!RolledBack
<1>8. ASSUME NEW a \in Systemd!Agent, Systemd!Disable(a, "disable", "remove", "undoWrite") PROVE Systemd!RolledBack
    <2>1. /\ x9' = x9 /\ x10' = x10 /\ x15'[a] = x15[a]
          /\ \A b \in Systemd!Agent \ {a} : x8[b] # "idle" /\ x8'[b] = "idle" => x12'[b] = "killed"
        BY <1>8, SystemdTransaction DEF Systemd!Calls, Systemd!Retire
    <2>2. \A b \in Systemd!Agent \ {a}, o \in {"register", "retire"} : ~Systemd!Concludes(b, o, "error")
        BY <2>1 DEF Systemd!Concludes
    <2>3. ASSUME NEW o \in {"register", "retire"}, Systemd!Concludes(a, o, "error"), x8[a] \in Systemd!Rollback
          PROVE  /\ x1' = x10[a].unit /\ x2' = x1' /\ (x3' => x10[a].enabled)
                 /\ x4' # None => x10[a].service # None
                 /\ x1' # None => (x10[a].enabled => x3') /\ (x10[a].service # None => x4' # None)
        <3>1. Systemd!RollsBack(a)
            BY <2>3 DEF Systemd!Knows, Systemd!Concludes
        <3> QED
            BY <1>8, <2>1, <2>3, <3>1 DEF Systemd!Disable, Systemd!Running,
               Systemd!Continue, Systemd!Concludes, Systemd!RollsBack, Systemd!Rollback,
               Systemd!Stopped, Systemd!Goes, Systemd!Ends, Systemd!Fails
    <2> QED BY <2>2, <2>3 DEF Systemd!RolledBack
<1>9. ASSUME NEW a \in Systemd!Agent, Systemd!Disable(a, "undoDisable", "undoWrite", "undoWrite") PROVE Systemd!RolledBack
    <2>1. /\ x9' = x9 /\ x10' = x10 /\ x15'[a] = x15[a]
          /\ \A b \in Systemd!Agent \ {a} : x8[b] # "idle" /\ x8'[b] = "idle" => x12'[b] = "killed"
        BY <1>9, SystemdTransaction DEF Systemd!Calls, Systemd!Retire
    <2>2. \A b \in Systemd!Agent \ {a}, o \in {"register", "retire"} : ~Systemd!Concludes(b, o, "error")
        BY <2>1 DEF Systemd!Concludes
    <2>3. ASSUME NEW o \in {"register", "retire"}, Systemd!Concludes(a, o, "error"), x8[a] \in Systemd!Rollback
          PROVE  /\ x1' = x10[a].unit /\ x2' = x1' /\ (x3' => x10[a].enabled)
                 /\ x4' # None => x10[a].service # None
                 /\ x1' # None => (x10[a].enabled => x3') /\ (x10[a].service # None => x4' # None)
        <3>1. Systemd!RollsBack(a)
            BY <2>3 DEF Systemd!Knows, Systemd!Concludes
        <3> QED
            BY <1>9, <2>1, <2>3, <3>1 DEF Systemd!Disable, Systemd!Running,
               Systemd!Continue, Systemd!Concludes, Systemd!RollsBack, Systemd!Rollback,
               Systemd!Stopped, Systemd!Goes, Systemd!Ends, Systemd!Fails
    <2> QED BY <2>2, <2>3 DEF Systemd!RolledBack
<1>10. ASSUME NEW a \in Systemd!Agent, Systemd!Disable(a, "purge", "idle", "idle") PROVE Systemd!RolledBack
    <2>1. /\ x9' = x9 /\ x10' = x10 /\ x15'[a] = x15[a]
          /\ \A b \in Systemd!Agent \ {a} : x8[b] # "idle" /\ x8'[b] = "idle" => x12'[b] = "killed"
        BY <1>10, SystemdTransaction DEF Systemd!Calls, Systemd!Retire
    <2>2. \A b \in Systemd!Agent \ {a}, o \in {"register", "retire"} : ~Systemd!Concludes(b, o, "error")
        BY <2>1 DEF Systemd!Concludes
    <2>3. ASSUME NEW o \in {"register", "retire"}, Systemd!Concludes(a, o, "error"), x8[a] \in Systemd!Rollback
          PROVE  /\ x1' = x10[a].unit /\ x2' = x1' /\ (x3' => x10[a].enabled)
                 /\ x4' # None => x10[a].service # None
                 /\ x1' # None => (x10[a].enabled => x3') /\ (x10[a].service # None => x4' # None)
        <3>1. Systemd!RollsBack(a)
            BY <2>3 DEF Systemd!Knows, Systemd!Concludes
        <3> QED
            BY <1>10, <2>1, <2>3, <3>1 DEF Systemd!Disable, Systemd!Running,
               Systemd!Continue, Systemd!Concludes, Systemd!RollsBack, Systemd!Rollback,
               Systemd!Stopped, Systemd!Goes, Systemd!Ends, Systemd!Fails
    <2> QED BY <2>2, <2>3 DEF Systemd!RolledBack
<1>11. ASSUME NEW a \in Systemd!Agent, Systemd!Remove(a) PROVE Systemd!RolledBack
    <2>1. /\ x9' = x9 /\ x10' = x10 /\ x15'[a] = x15[a]
          /\ \A b \in Systemd!Agent \ {a} : x8[b] # "idle" /\ x8'[b] = "idle" => x12'[b] = "killed"
        BY <1>11, SystemdTransaction DEF Systemd!Calls, Systemd!Retire
    <2>2. \A b \in Systemd!Agent \ {a}, o \in {"register", "retire"} : ~Systemd!Concludes(b, o, "error")
        BY <2>1 DEF Systemd!Concludes
    <2>3. ASSUME NEW o \in {"register", "retire"}, Systemd!Concludes(a, o, "error"), x8[a] \in Systemd!Rollback
          PROVE  /\ x1' = x10[a].unit /\ x2' = x1' /\ (x3' => x10[a].enabled)
                 /\ x4' # None => x10[a].service # None
                 /\ x1' # None => (x10[a].enabled => x3') /\ (x10[a].service # None => x4' # None)
        <3>1. Systemd!RollsBack(a)
            BY <2>3 DEF Systemd!Knows, Systemd!Concludes
        <3> QED
            BY <1>11, <2>1, <2>3, <3>1 DEF Systemd!Remove, Systemd!Running, Systemd!Continue,
               Systemd!Concludes, Systemd!RollsBack, Systemd!Rollback, Systemd!Idle,
               Systemd!Goes, Systemd!Fails
    <2> QED BY <2>2, <2>3 DEF Systemd!RolledBack
<1>12. ASSUME NEW a \in Systemd!Agent, Systemd!Forget(a) PROVE Systemd!RolledBack
    <2>1. /\ x9' = x9 /\ x10' = x10 /\ x15'[a] = x15[a]
          /\ \A b \in Systemd!Agent \ {a} : x8[b] # "idle" /\ x8'[b] = "idle" => x12'[b] = "killed"
        BY <1>12, SystemdTransaction DEF Systemd!Calls, Systemd!Retire
    <2>2. \A b \in Systemd!Agent \ {a}, o \in {"register", "retire"} : ~Systemd!Concludes(b, o, "error")
        BY <2>1 DEF Systemd!Concludes
    <2>3. ASSUME NEW o \in {"register", "retire"}, Systemd!Concludes(a, o, "error"), x8[a] \in Systemd!Rollback
          PROVE  /\ x1' = x10[a].unit /\ x2' = x1' /\ (x3' => x10[a].enabled)
                 /\ x4' # None => x10[a].service # None
                 /\ x1' # None => (x10[a].enabled => x3') /\ (x10[a].service # None => x4' # None)
        <3>1. Systemd!RollsBack(a)
            BY <2>3 DEF Systemd!Knows, Systemd!Concludes
        <3> QED
            BY <1>12, <2>1, <2>3, <3>1 DEF Systemd!Forget, Systemd!Running, Systemd!Continue,
               Systemd!Concludes, Systemd!RollsBack, Systemd!Rollback, Systemd!Idle,
               Systemd!Ends, Systemd!Fails
    <2> QED BY <2>2, <2>3 DEF Systemd!RolledBack
<1>13. ASSUME NEW a \in Systemd!Agent, Systemd!UndoWrite(a) PROVE Systemd!RolledBack
    <2>1. /\ x9' = x9 /\ x10' = x10 /\ x15'[a] = x15[a]
          /\ \A b \in Systemd!Agent \ {a} : x8[b] # "idle" /\ x8'[b] = "idle" => x12'[b] = "killed"
        BY <1>13, SystemdTransaction DEF Systemd!Calls, Systemd!Retire
    <2>2. \A b \in Systemd!Agent \ {a}, o \in {"register", "retire"} : ~Systemd!Concludes(b, o, "error")
        BY <2>1 DEF Systemd!Concludes
    <2>3. ASSUME NEW o \in {"register", "retire"}, Systemd!Concludes(a, o, "error"), x8[a] \in Systemd!Rollback
          PROVE  /\ x1' = x10[a].unit /\ x2' = x1' /\ (x3' => x10[a].enabled)
                 /\ x4' # None => x10[a].service # None
                 /\ x1' # None => (x10[a].enabled => x3') /\ (x10[a].service # None => x4' # None)
        <3>1. Systemd!RollsBack(a)
            BY <2>3 DEF Systemd!Knows, Systemd!Concludes
        <3> QED
            BY <1>13, <2>1, <2>3, <3>1 DEF Systemd!UndoWrite, Systemd!Running,
               Systemd!Continue, Systemd!Concludes, Systemd!RollsBack, Systemd!Rollback,
               Systemd!Idle, Systemd!Goes, Systemd!Fails
    <2> QED BY <2>2, <2>3 DEF Systemd!RolledBack
<1>14. ASSUME NEW a \in Systemd!Agent, Systemd!UndoReload(a) PROVE Systemd!RolledBack
    <2>1. /\ x9' = x9 /\ x10' = x10 /\ x15'[a] = x15[a]
          /\ \A b \in Systemd!Agent \ {a} : x8[b] # "idle" /\ x8'[b] = "idle" => x12'[b] = "killed"
        BY <1>14, SystemdTransaction DEF Systemd!Calls, Systemd!Retire
    <2>2. \A b \in Systemd!Agent \ {a}, o \in {"register", "retire"} : ~Systemd!Concludes(b, o, "error")
        BY <2>1 DEF Systemd!Concludes
    <2>3. ASSUME NEW o \in {"register", "retire"}, Systemd!Concludes(a, o, "error"), x8[a] \in Systemd!Rollback
          PROVE  /\ x1' = x10[a].unit /\ x2' = x1' /\ (x3' => x10[a].enabled)
                 /\ x4' # None => x10[a].service # None
                 /\ x1' # None => (x10[a].enabled => x3') /\ (x10[a].service # None => x4' # None)
        <3>1. Systemd!RollsBack(a)
            BY <2>3 DEF Systemd!Knows, Systemd!Concludes
        <3> QED
            BY <1>14, <2>1, <2>3, <3>1 DEF Systemd!UndoReload, Systemd!Running,
               Systemd!Continue, Systemd!Concludes, Systemd!RollsBack, Systemd!Rollback,
               Systemd!Idle, Systemd!Goes, Systemd!Ends, Systemd!Fails
    <2> QED BY <2>2, <2>3 DEF Systemd!RolledBack
<1>15. ASSUME NEW a \in Systemd!Agent, Systemd!UndoEnable(a) PROVE Systemd!RolledBack
    <2>1. /\ x9' = x9 /\ x10' = x10 /\ x15'[a] = x15[a]
          /\ \A b \in Systemd!Agent \ {a} : x8[b] # "idle" /\ x8'[b] = "idle" => x12'[b] = "killed"
        BY <1>15, SystemdTransaction DEF Systemd!Calls, Systemd!Retire
    <2>2. \A b \in Systemd!Agent \ {a}, o \in {"register", "retire"} : ~Systemd!Concludes(b, o, "error")
        BY <2>1 DEF Systemd!Concludes
    <2>3. ASSUME NEW o \in {"register", "retire"}, Systemd!Concludes(a, o, "error"), x8[a] \in Systemd!Rollback
          PROVE  /\ x1' = x10[a].unit /\ x2' = x1' /\ (x3' => x10[a].enabled)
                 /\ x4' # None => x10[a].service # None
                 /\ x1' # None => (x10[a].enabled => x3') /\ (x10[a].service # None => x4' # None)
        <3>1. Systemd!RollsBack(a)
            BY <2>3 DEF Systemd!Knows, Systemd!Concludes
        <3> QED
            BY <1>15, <2>1, <2>3, <3>1 DEF Systemd!UndoEnable, Systemd!Running,
               Systemd!Continue, Systemd!Concludes, Systemd!RollsBack, Systemd!Rollback,
               Systemd!Idle, Systemd!Goes, Systemd!Fails
    <2> QED BY <2>2, <2>3 DEF Systemd!RolledBack
<1>16. ASSUME NEW a \in Systemd!Agent, Systemd!UndoStart(a) PROVE Systemd!RolledBack
    <2>1. /\ x9' = x9 /\ x10' = x10 /\ x15'[a] = x15[a]
          /\ \A b \in Systemd!Agent \ {a} : x8[b] # "idle" /\ x8'[b] = "idle" => x12'[b] = "killed"
        BY <1>16, SystemdTransaction DEF Systemd!Calls, Systemd!Retire
    <2>2. \A b \in Systemd!Agent \ {a}, o \in {"register", "retire"} : ~Systemd!Concludes(b, o, "error")
        BY <2>1 DEF Systemd!Concludes
    <2>3. ASSUME NEW o \in {"register", "retire"}, Systemd!Concludes(a, o, "error"), x8[a] \in Systemd!Rollback
          PROVE  /\ x1' = x10[a].unit /\ x2' = x1' /\ (x3' => x10[a].enabled)
                 /\ x4' # None => x10[a].service # None
                 /\ x1' # None => (x10[a].enabled => x3') /\ (x10[a].service # None => x4' # None)
        <3>1. Systemd!RollsBack(a)
            BY <2>3 DEF Systemd!Knows, Systemd!Concludes
        <3> QED
            BY <1>16, <2>1, <2>3, <3>1, SystemdStarted DEF Systemd!UndoStart,
               Systemd!Running, Systemd!Continue, Systemd!Concludes, Systemd!RollsBack,
               Systemd!Rollback, Systemd!Idle, Systemd!Stopped, Systemd!Ends, Systemd!Fails
    <2> QED BY <2>2, <2>3 DEF Systemd!RolledBack
<1>17. ASSUME NEW a \in Systemd!Agent, Systemd!Refuses(a) PROVE Systemd!RolledBack
    <2>1. \A b \in Systemd!Agent : x8[b] # "idle" => x8'[b] = x8[b]
        BY <1>17 DEF Systemd!Refuses, Systemd!Begins
    <2>2. \A b \in Systemd!Agent : \A o, r : ~Systemd!Concludes(b, o, r)
        BY <2>1 DEF Systemd!Concludes
    <2> QED BY <2>2 DEF Systemd!RolledBack
<1>18. ASSUME NEW d \in 1..Processes, Systemd!DaemonEnds(d) PROVE Systemd!RolledBack
    <2>1. \A b \in Systemd!Agent : x8[b] # "idle" /\ x8'[b] = "idle" => x12'[b] = "killed"
        BY <1>18, SystemdAgents DEF Systemd!DaemonEnds, Systemd!Continue, Systemd!Ended
    <2>2. \A b \in Systemd!Agent : \A o, r : r # "killed" => ~Systemd!Concludes(b, o, r)
        BY <2>1 DEF Systemd!Concludes
    <2> QED BY <2>2 DEF Systemd!RolledBack
<1>19. ASSUME Systemd!StartByHand PROVE Systemd!RolledBack
    <2>1. \A b \in Systemd!Agent : x8[b] # "idle" => x8'[b] = x8[b]
        BY <1>19 DEF Systemd!StartByHand, Systemd!Begins
    <2>2. \A b \in Systemd!Agent : \A o, r : ~Systemd!Concludes(b, o, r)
        BY <2>1 DEF Systemd!Concludes
    <2> QED BY <2>2 DEF Systemd!RolledBack
<1>20. ASSUME Systemd!Login PROVE Systemd!RolledBack
    <2>1. \A b \in Systemd!Agent : x8[b] # "idle" => x8'[b] = x8[b]
        BY <1>20 DEF Systemd!Login, Systemd!Begins
    <2>2. \A b \in Systemd!Agent : \A o, r : ~Systemd!Concludes(b, o, r)
        BY <2>1 DEF Systemd!Concludes
    <2> QED BY <2>2 DEF Systemd!RolledBack
<1> QED BY <1>1, <1>2, <1>3, <1>4, <1>5, <1>6, <1>7, <1>8, <1>9, <1>10, <1>11, <1>12, <1>13,
   <1>14, <1>15, <1>16, <1>17, <1>18, <1>19, <1>20, SystemdAgents DEF Systemd!Next,
   Systemd!Calls, Systemd!Retire, Systemd!Toggle, Systemd!Agent

\* What a call returns.
LEMMA AgentReturns ==
    ASSUME LaunchAgent!CallTypeOK, x8' \in BOOLEAN, NEW ok \in BOOLEAN, LaunchAgent!Return(ok)
    PROVE  /\ x4' = "idle" /\ x3' = "none"
           /\ x11' \in [op : LaunchAgent!Ops, ok : BOOLEAN, undone : BOOLEAN] /\ x12' \in Nat
           /\ x11'.op = x3 /\ x11'.ok = ok /\ x11'.undone = x8'
<1> USE DEF LaunchAgent!CallTypeOK, LaunchAgent!Return
<1>1. x11' = [op |-> x3, ok |-> ok, undone |-> x8'] /\ x4' = "idle" /\ x3' = "none"
    OBVIOUS
<1>2. x12' \in Nat
    OBVIOUS
<1> QED BY <1>1, <1>2

\* Every step of the LaunchAgent keeps the types of the plists and the jobs.
LEMMA AgentHostTypes ==
    ASSUME LaunchAgent!TypeOK, LaunchAgent!Next
    PROVE  LaunchAgent!HostTypeOK'
<1> USE DEF LaunchAgent!Label, LaunchAgent!Own, LaunchAgent!Neon, LaunchAgent!Body,
   LaunchAgent!Idle, LaunchAgent!host, LaunchAgent!local, LaunchAgent!bounds,
   LaunchAgent!Unregistering, LaunchAgent!Ops, LaunchAgent!TypeOK, LaunchAgent!HostTypeOK
<1>1. ASSUME LaunchAgent!Call PROVE LaunchAgent!HostTypeOK'
    BY <1>1 DEF LaunchAgent!Call, LaunchAgent!Start
<1>2. ASSUME LaunchAgent!RegisterBegin PROVE LaunchAgent!HostTypeOK'
    BY <1>2 DEF LaunchAgent!RegisterBegin, LaunchAgent!At, LaunchAgent!Begun,
       LaunchAgent!Goto, LaunchAgent!NoFault
<1>3. ASSUME LaunchAgent!RegisterBeginFails PROVE LaunchAgent!HostTypeOK'
    BY <1>3 DEF LaunchAgent!RegisterBeginFails, LaunchAgent!At, LaunchAgent!Err,
       LaunchAgent!Return, LaunchAgent!Fault, LaunchAgent!NoFault
<1>4. ASSUME LaunchAgent!RegisterBootout PROVE LaunchAgent!HostTypeOK'
    BY <1>4 DEF LaunchAgent!RegisterBootout, LaunchAgent!At, LaunchAgent!Goto,
       LaunchAgent!Bootout, LaunchAgent!BootoutFails, LaunchAgent!Fault,
       LaunchAgent!NoFault, LaunchAgent!Ok, LaunchAgent!Err, LaunchAgent!Return
<1>5. ASSUME LaunchAgent!RegisterWrite PROVE LaunchAgent!HostTypeOK'
    BY <1>5 DEF LaunchAgent!RegisterWrite, LaunchAgent!At, LaunchAgent!Goto,
       LaunchAgent!Write, LaunchAgent!WriteFails, LaunchAgent!Fault, LaunchAgent!NoFault
<1>6. ASSUME LaunchAgent!RegisterBootstrap PROVE LaunchAgent!HostTypeOK'
    BY <1>6 DEF LaunchAgent!RegisterBootstrap, LaunchAgent!At, LaunchAgent!Goto,
       LaunchAgent!Bootstrap, LaunchAgent!BootstrapFails, LaunchAgent!IsFile,
       LaunchAgent!Fault, LaunchAgent!NoFault, LaunchAgent!Ok, LaunchAgent!Err,
       LaunchAgent!Return
<1>7. ASSUME LaunchAgent!RegisterProbe PROVE LaunchAgent!HostTypeOK'
    BY <1>7 DEF LaunchAgent!RegisterProbe, LaunchAgent!At, LaunchAgent!Attempted,
       LaunchAgent!Goto, LaunchAgent!Failed, LaunchAgent!Bootout, LaunchAgent!BootoutFails,
       LaunchAgent!Fault, LaunchAgent!NoFault
<1>8. ASSUME LaunchAgent!RegisterRestore PROVE LaunchAgent!HostTypeOK'
    BY <1>8 DEF LaunchAgent!RegisterRestore, LaunchAgent!At, LaunchAgent!RestorePlist,
       LaunchAgent!Goto, LaunchAgent!Failed, LaunchAgent!Write, LaunchAgent!WriteFails,
       LaunchAgent!Fault, LaunchAgent!NoFault, LaunchAgent!Remove
<1>9. ASSUME LaunchAgent!RegisterReload PROVE LaunchAgent!HostTypeOK'
    BY <1>9 DEF LaunchAgent!RegisterReload, LaunchAgent!At, LaunchAgent!Reload,
       LaunchAgent!Failed, LaunchAgent!Return, LaunchAgent!Bootstrap,
       LaunchAgent!BootstrapFails, LaunchAgent!IsFile, LaunchAgent!Fault,
       LaunchAgent!NoFault
<1>10. ASSUME LaunchAgent!UnregisterAbsent PROVE LaunchAgent!HostTypeOK'
    BY <1>10 DEF LaunchAgent!UnregisterAbsent, LaunchAgent!At, LaunchAgent!NoFault,
       LaunchAgent!Ok, LaunchAgent!Err, LaunchAgent!Return
<1>11. ASSUME LaunchAgent!RollbackAbsent PROVE LaunchAgent!HostTypeOK'
    BY <1>11 DEF LaunchAgent!RollbackAbsent, LaunchAgent!At, LaunchAgent!Orphan,
       LaunchAgent!Ok, LaunchAgent!Err, LaunchAgent!Return, LaunchAgent!Bootout,
       LaunchAgent!BootoutFails, LaunchAgent!Fault, LaunchAgent!NoFault
<1>12. ASSUME LaunchAgent!UnregisterFails PROVE LaunchAgent!HostTypeOK'
    BY <1>12 DEF LaunchAgent!UnregisterFails, LaunchAgent!At, LaunchAgent!Ok,
       LaunchAgent!Err, LaunchAgent!Return, LaunchAgent!Fault, LaunchAgent!NoFault
<1>13. ASSUME LaunchAgent!UnregisterProbe PROVE LaunchAgent!HostTypeOK'
    BY <1>13 DEF LaunchAgent!UnregisterProbe, LaunchAgent!At, LaunchAgent!IsFile,
       LaunchAgent!Goto, LaunchAgent!NoFault
<1>14. ASSUME LaunchAgent!UnregisterBootout PROVE LaunchAgent!HostTypeOK'
    BY <1>14 DEF LaunchAgent!UnregisterBootout, LaunchAgent!At, LaunchAgent!Goto,
       LaunchAgent!Bootout, LaunchAgent!BootoutFails, LaunchAgent!Fault,
       LaunchAgent!NoFault, LaunchAgent!Ok, LaunchAgent!Err, LaunchAgent!Return
<1>15. ASSUME LaunchAgent!UnregisterRemove PROVE LaunchAgent!HostTypeOK'
    BY <1>15 DEF LaunchAgent!UnregisterRemove, LaunchAgent!At, LaunchAgent!Goto,
       LaunchAgent!Remove, LaunchAgent!RemoveFails, LaunchAgent!WriteFails,
       LaunchAgent!Fault, LaunchAgent!NoFault, LaunchAgent!Ok, LaunchAgent!Err,
       LaunchAgent!Return
<1>16. ASSUME LaunchAgent!UnregisterReload PROVE LaunchAgent!HostTypeOK'
    BY <1>16 DEF LaunchAgent!UnregisterReload, LaunchAgent!At, LaunchAgent!Reload,
       LaunchAgent!Failed, LaunchAgent!Return, LaunchAgent!Bootstrap,
       LaunchAgent!BootstrapFails, LaunchAgent!IsFile, LaunchAgent!Fault,
       LaunchAgent!NoFault
<1>17. ASSUME LaunchAgent!Restart PROVE LaunchAgent!HostTypeOK'
    BY <1>17 DEF LaunchAgent!Restart, LaunchAgent!At, LaunchAgent!Fault,
       LaunchAgent!NoFault, LaunchAgent!Ok, LaunchAgent!Err, LaunchAgent!Return
<1>18. ASSUME LaunchAgent!StopNeon PROVE LaunchAgent!HostTypeOK'
    BY <1>18 DEF LaunchAgent!StopNeon, LaunchAgent!At, LaunchAgent!IsFile,
       LaunchAgent!Bootout, LaunchAgent!BootoutFails, LaunchAgent!Fault,
       LaunchAgent!NoFault, LaunchAgent!Return, LaunchAgent!Err
<1>19. ASSUME LaunchAgent!RestoreNeon PROVE LaunchAgent!HostTypeOK'
    BY <1>19 DEF LaunchAgent!RestoreNeon, LaunchAgent!At, LaunchAgent!Bootstrap,
       LaunchAgent!BootstrapFails, LaunchAgent!IsFile, LaunchAgent!Fault,
       LaunchAgent!NoFault, LaunchAgent!Ok, LaunchAgent!Err, LaunchAgent!Return
<1>20. ASSUME LaunchAgent!RemoveNeon PROVE LaunchAgent!HostTypeOK'
    BY <1>20 DEF LaunchAgent!RemoveNeon, LaunchAgent!At, LaunchAgent!Remove,
       LaunchAgent!RemoveFails, LaunchAgent!WriteFails, LaunchAgent!Fault,
       LaunchAgent!NoFault, LaunchAgent!Ok, LaunchAgent!Err, LaunchAgent!Return
<1>21. ASSUME LaunchAgent!Killed PROVE LaunchAgent!HostTypeOK'
    BY <1>21 DEF LaunchAgent!Killed
<1>22. ASSUME LaunchAgent!Login PROVE LaunchAgent!HostTypeOK'
    BY <1>22 DEF LaunchAgent!Login, LaunchAgent!IsFile, LaunchAgent!Interfere
<1>23. ASSUME LaunchAgent!UserPlist PROVE LaunchAgent!HostTypeOK'
    BY <1>23 DEF LaunchAgent!UserPlist, LaunchAgent!Interfere
<1>24. ASSUME LaunchAgent!UserJob PROVE LaunchAgent!HostTypeOK'
    BY <1>24 DEF LaunchAgent!UserJob, LaunchAgent!IsFile, LaunchAgent!Interfere
<1> QED BY <1>1, <1>2, <1>3, <1>4, <1>5, <1>6, <1>7, <1>8, <1>9, <1>10, <1>11, <1>12, <1>13,
   <1>14, <1>15, <1>16, <1>17, <1>18, <1>19, <1>20, <1>21, <1>22, <1>23, <1>24 DEF
   LaunchAgent!Next, LaunchAgent!Register, LaunchAgent!Unregister

\* Every step of the LaunchAgent keeps the types of the call.
LEMMA AgentCallTypes ==
    ASSUME LaunchAgent!TypeOK, LaunchAgent!Next
    PROVE  LaunchAgent!CallTypeOK'
<1> USE AgentReturns DEF LaunchAgent!Unregistering, LaunchAgent!local, LaunchAgent!bounds,
   LaunchAgent!Idle, LaunchAgent!Ops, LaunchAgent!host, LaunchAgent!TypeOK,
   LaunchAgent!CallTypeOK
<1>1. ASSUME LaunchAgent!Call PROVE LaunchAgent!CallTypeOK'
    BY <1>1 DEF LaunchAgent!Call, LaunchAgent!Start
<1>2. ASSUME LaunchAgent!RegisterBegin PROVE LaunchAgent!CallTypeOK'
    BY <1>2 DEF LaunchAgent!RegisterBegin, LaunchAgent!At, LaunchAgent!Begun,
       LaunchAgent!Goto, LaunchAgent!NoFault
<1>3. ASSUME LaunchAgent!RegisterBeginFails PROVE LaunchAgent!CallTypeOK'
    BY <1>3 DEF LaunchAgent!RegisterBeginFails, LaunchAgent!At, LaunchAgent!Err,
       LaunchAgent!Fault, LaunchAgent!NoFault
<1>4. ASSUME LaunchAgent!RegisterBootout PROVE LaunchAgent!CallTypeOK'
    BY <1>4 DEF LaunchAgent!RegisterBootout, LaunchAgent!At, LaunchAgent!Goto,
       LaunchAgent!Bootout, LaunchAgent!BootoutFails, LaunchAgent!Fault,
       LaunchAgent!NoFault, LaunchAgent!Ok, LaunchAgent!Err
<1>5. ASSUME LaunchAgent!RegisterWrite PROVE LaunchAgent!CallTypeOK'
    BY <1>5 DEF LaunchAgent!RegisterWrite, LaunchAgent!At, LaunchAgent!Goto,
       LaunchAgent!Write, LaunchAgent!WriteFails, LaunchAgent!Fault, LaunchAgent!NoFault
<1>6. ASSUME LaunchAgent!RegisterBootstrap PROVE LaunchAgent!CallTypeOK'
    BY <1>6 DEF LaunchAgent!RegisterBootstrap, LaunchAgent!At, LaunchAgent!Goto,
       LaunchAgent!Bootstrap, LaunchAgent!BootstrapFails, LaunchAgent!IsFile,
       LaunchAgent!Fault, LaunchAgent!NoFault, LaunchAgent!Ok, LaunchAgent!Err
<1>7. ASSUME LaunchAgent!RegisterProbe PROVE LaunchAgent!CallTypeOK'
    BY <1>7 DEF LaunchAgent!RegisterProbe, LaunchAgent!At, LaunchAgent!Attempted,
       LaunchAgent!Goto, LaunchAgent!Failed, LaunchAgent!Bootout, LaunchAgent!BootoutFails,
       LaunchAgent!Fault, LaunchAgent!NoFault
<1>8. ASSUME LaunchAgent!RegisterRestore PROVE LaunchAgent!CallTypeOK'
    BY <1>8 DEF LaunchAgent!RegisterRestore, LaunchAgent!At, LaunchAgent!RestorePlist,
       LaunchAgent!Goto, LaunchAgent!Failed, LaunchAgent!Write, LaunchAgent!WriteFails,
       LaunchAgent!Fault, LaunchAgent!NoFault, LaunchAgent!Remove
<1>9. ASSUME LaunchAgent!RegisterReload PROVE LaunchAgent!CallTypeOK'
    BY <1>9 DEF LaunchAgent!RegisterReload, LaunchAgent!At, LaunchAgent!Reload,
       LaunchAgent!Failed, LaunchAgent!Bootstrap, LaunchAgent!BootstrapFails,
       LaunchAgent!IsFile, LaunchAgent!Fault, LaunchAgent!NoFault
<1>10. ASSUME LaunchAgent!UnregisterAbsent PROVE LaunchAgent!CallTypeOK'
    BY <1>10 DEF LaunchAgent!UnregisterAbsent, LaunchAgent!At, LaunchAgent!NoFault,
       LaunchAgent!Ok, LaunchAgent!Err
<1>11. ASSUME LaunchAgent!RollbackAbsent PROVE LaunchAgent!CallTypeOK'
    BY <1>11 DEF LaunchAgent!RollbackAbsent, LaunchAgent!At, LaunchAgent!Orphan,
       LaunchAgent!Ok, LaunchAgent!Err, LaunchAgent!Bootout, LaunchAgent!BootoutFails,
       LaunchAgent!Fault, LaunchAgent!NoFault
<1>12. ASSUME LaunchAgent!UnregisterFails PROVE LaunchAgent!CallTypeOK'
    BY <1>12 DEF LaunchAgent!UnregisterFails, LaunchAgent!At, LaunchAgent!Ok,
       LaunchAgent!Err, LaunchAgent!Fault, LaunchAgent!NoFault
<1>13. ASSUME LaunchAgent!UnregisterProbe PROVE LaunchAgent!CallTypeOK'
    BY <1>13 DEF LaunchAgent!UnregisterProbe, LaunchAgent!At, LaunchAgent!IsFile,
       LaunchAgent!Goto, LaunchAgent!NoFault
<1>14. ASSUME LaunchAgent!UnregisterBootout PROVE LaunchAgent!CallTypeOK'
    BY <1>14 DEF LaunchAgent!UnregisterBootout, LaunchAgent!At, LaunchAgent!Goto,
       LaunchAgent!Bootout, LaunchAgent!BootoutFails, LaunchAgent!Fault,
       LaunchAgent!NoFault, LaunchAgent!Ok, LaunchAgent!Err
<1>15. ASSUME LaunchAgent!UnregisterRemove PROVE LaunchAgent!CallTypeOK'
    BY <1>15 DEF LaunchAgent!UnregisterRemove, LaunchAgent!At, LaunchAgent!Goto,
       LaunchAgent!Remove, LaunchAgent!RemoveFails, LaunchAgent!WriteFails,
       LaunchAgent!Fault, LaunchAgent!NoFault, LaunchAgent!Ok, LaunchAgent!Err
<1>16. ASSUME LaunchAgent!UnregisterReload PROVE LaunchAgent!CallTypeOK'
    BY <1>16 DEF LaunchAgent!UnregisterReload, LaunchAgent!At, LaunchAgent!Reload,
       LaunchAgent!Failed, LaunchAgent!Bootstrap, LaunchAgent!BootstrapFails,
       LaunchAgent!IsFile, LaunchAgent!Fault, LaunchAgent!NoFault
<1>17. ASSUME LaunchAgent!Restart PROVE LaunchAgent!CallTypeOK'
    BY <1>17 DEF LaunchAgent!Restart, LaunchAgent!At, LaunchAgent!Fault,
       LaunchAgent!NoFault, LaunchAgent!Ok, LaunchAgent!Err
<1>18. ASSUME LaunchAgent!StopNeon PROVE LaunchAgent!CallTypeOK'
    BY <1>18 DEF LaunchAgent!StopNeon, LaunchAgent!At, LaunchAgent!IsFile,
       LaunchAgent!Bootout, LaunchAgent!BootoutFails, LaunchAgent!Fault,
       LaunchAgent!NoFault, LaunchAgent!Err
<1>19. ASSUME LaunchAgent!RestoreNeon PROVE LaunchAgent!CallTypeOK'
    BY <1>19 DEF LaunchAgent!RestoreNeon, LaunchAgent!At, LaunchAgent!Bootstrap,
       LaunchAgent!BootstrapFails, LaunchAgent!IsFile, LaunchAgent!Fault,
       LaunchAgent!NoFault, LaunchAgent!Ok, LaunchAgent!Err
<1>20. ASSUME LaunchAgent!RemoveNeon PROVE LaunchAgent!CallTypeOK'
    BY <1>20 DEF LaunchAgent!RemoveNeon, LaunchAgent!At, LaunchAgent!Remove,
       LaunchAgent!RemoveFails, LaunchAgent!WriteFails, LaunchAgent!Fault,
       LaunchAgent!NoFault, LaunchAgent!Ok, LaunchAgent!Err
<1>21. ASSUME LaunchAgent!Killed PROVE LaunchAgent!CallTypeOK'
    BY <1>21 DEF LaunchAgent!Killed
<1>22. ASSUME LaunchAgent!Login PROVE LaunchAgent!CallTypeOK'
    BY <1>22 DEF LaunchAgent!Login, LaunchAgent!IsFile, LaunchAgent!Interfere
<1>23. ASSUME LaunchAgent!UserPlist PROVE LaunchAgent!CallTypeOK'
    <2>1. LaunchAgent!Interfere
        BY <1>23 DEF LaunchAgent!UserPlist
    <2> QED BY <2>1 DEF LaunchAgent!Interfere
<1>24. ASSUME LaunchAgent!UserJob PROVE LaunchAgent!CallTypeOK'
    <2>1. LaunchAgent!Interfere
        BY <1>24 DEF LaunchAgent!UserJob
    <2> QED BY <2>1 DEF LaunchAgent!Interfere
<1> QED BY <1>1, <1>2, <1>3, <1>4, <1>5, <1>6, <1>7, <1>8, <1>9, <1>10, <1>11, <1>12, <1>13,
   <1>14, <1>15, <1>16, <1>17, <1>18, <1>19, <1>20, <1>21, <1>22, <1>23, <1>24 DEF
   LaunchAgent!Next, LaunchAgent!Register, LaunchAgent!Unregister

LEMMA AgentTypes == ASSUME LaunchAgent!TypeOK, LaunchAgent!Next PROVE LaunchAgent!TypeOK'
BY AgentHostTypes, AgentCallTypes DEF LaunchAgent!TypeOK

\* A call is in progress as long as it has an operation.
LEMMA AgentIdle ==
    ASSUME LaunchAgent!TypeOK, LaunchAgent!IdleRight, LaunchAgent!Next
    PROVE  LaunchAgent!IdleRight'
<1> USE DEF LaunchAgent!Label, LaunchAgent!Own, LaunchAgent!Neon, LaunchAgent!Body,
   LaunchAgent!Idle, LaunchAgent!host, LaunchAgent!local, LaunchAgent!bounds,
   LaunchAgent!Unregistering, LaunchAgent!Ops, LaunchAgent!TypeOK, LaunchAgent!IdleRight,
   LaunchAgent!HostTypeOK, LaunchAgent!CallTypeOK
<1>1. ASSUME LaunchAgent!Call PROVE LaunchAgent!IdleRight'
    BY <1>1 DEF LaunchAgent!Call, LaunchAgent!Start
<1>2. ASSUME LaunchAgent!RegisterBegin PROVE LaunchAgent!IdleRight'
    BY <1>2 DEF LaunchAgent!RegisterBegin, LaunchAgent!At, LaunchAgent!Begun,
       LaunchAgent!Goto, LaunchAgent!NoFault
<1>3. ASSUME LaunchAgent!RegisterBeginFails PROVE LaunchAgent!IdleRight'
    BY <1>3 DEF LaunchAgent!RegisterBeginFails, LaunchAgent!At, LaunchAgent!Err,
       LaunchAgent!Return, LaunchAgent!Fault, LaunchAgent!NoFault
<1>4. ASSUME LaunchAgent!RegisterBootout PROVE LaunchAgent!IdleRight'
    BY <1>4 DEF LaunchAgent!RegisterBootout, LaunchAgent!At, LaunchAgent!Goto,
       LaunchAgent!Bootout, LaunchAgent!BootoutFails, LaunchAgent!Fault,
       LaunchAgent!NoFault, LaunchAgent!Ok, LaunchAgent!Err, LaunchAgent!Return
<1>5. ASSUME LaunchAgent!RegisterWrite PROVE LaunchAgent!IdleRight'
    BY <1>5 DEF LaunchAgent!RegisterWrite, LaunchAgent!At, LaunchAgent!Goto,
       LaunchAgent!Write, LaunchAgent!WriteFails, LaunchAgent!Fault, LaunchAgent!NoFault
<1>6. ASSUME LaunchAgent!RegisterBootstrap PROVE LaunchAgent!IdleRight'
    BY <1>6 DEF LaunchAgent!RegisterBootstrap, LaunchAgent!At, LaunchAgent!Goto,
       LaunchAgent!Bootstrap, LaunchAgent!BootstrapFails, LaunchAgent!IsFile,
       LaunchAgent!Fault, LaunchAgent!NoFault, LaunchAgent!Ok, LaunchAgent!Err,
       LaunchAgent!Return
<1>7. ASSUME LaunchAgent!RegisterProbe PROVE LaunchAgent!IdleRight'
    BY <1>7 DEF LaunchAgent!RegisterProbe, LaunchAgent!At, LaunchAgent!Attempted,
       LaunchAgent!Goto, LaunchAgent!Failed, LaunchAgent!Bootout, LaunchAgent!BootoutFails,
       LaunchAgent!Fault, LaunchAgent!NoFault
<1>8. ASSUME LaunchAgent!RegisterRestore PROVE LaunchAgent!IdleRight'
    BY <1>8 DEF LaunchAgent!RegisterRestore, LaunchAgent!At, LaunchAgent!RestorePlist,
       LaunchAgent!Goto, LaunchAgent!Failed, LaunchAgent!Write, LaunchAgent!WriteFails,
       LaunchAgent!Fault, LaunchAgent!NoFault, LaunchAgent!Remove
<1>9. ASSUME LaunchAgent!RegisterReload PROVE LaunchAgent!IdleRight'
    BY <1>9 DEF LaunchAgent!RegisterReload, LaunchAgent!At, LaunchAgent!Reload,
       LaunchAgent!Failed, LaunchAgent!Return, LaunchAgent!Bootstrap,
       LaunchAgent!BootstrapFails, LaunchAgent!IsFile, LaunchAgent!Fault,
       LaunchAgent!NoFault
<1>10. ASSUME LaunchAgent!UnregisterAbsent PROVE LaunchAgent!IdleRight'
    BY <1>10 DEF LaunchAgent!UnregisterAbsent, LaunchAgent!At, LaunchAgent!NoFault,
       LaunchAgent!Ok, LaunchAgent!Err, LaunchAgent!Return
<1>11. ASSUME LaunchAgent!RollbackAbsent PROVE LaunchAgent!IdleRight'
    BY <1>11 DEF LaunchAgent!RollbackAbsent, LaunchAgent!At, LaunchAgent!Orphan,
       LaunchAgent!Ok, LaunchAgent!Err, LaunchAgent!Return, LaunchAgent!Bootout,
       LaunchAgent!BootoutFails, LaunchAgent!Fault, LaunchAgent!NoFault
<1>12. ASSUME LaunchAgent!UnregisterFails PROVE LaunchAgent!IdleRight'
    BY <1>12 DEF LaunchAgent!UnregisterFails, LaunchAgent!At, LaunchAgent!Ok,
       LaunchAgent!Err, LaunchAgent!Return, LaunchAgent!Fault, LaunchAgent!NoFault
<1>13. ASSUME LaunchAgent!UnregisterProbe PROVE LaunchAgent!IdleRight'
    BY <1>13 DEF LaunchAgent!UnregisterProbe, LaunchAgent!At, LaunchAgent!IsFile,
       LaunchAgent!Goto, LaunchAgent!NoFault
<1>14. ASSUME LaunchAgent!UnregisterBootout PROVE LaunchAgent!IdleRight'
    BY <1>14 DEF LaunchAgent!UnregisterBootout, LaunchAgent!At, LaunchAgent!Goto,
       LaunchAgent!Bootout, LaunchAgent!BootoutFails, LaunchAgent!Fault,
       LaunchAgent!NoFault, LaunchAgent!Ok, LaunchAgent!Err, LaunchAgent!Return
<1>15. ASSUME LaunchAgent!UnregisterRemove PROVE LaunchAgent!IdleRight'
    BY <1>15 DEF LaunchAgent!UnregisterRemove, LaunchAgent!At, LaunchAgent!Goto,
       LaunchAgent!Remove, LaunchAgent!RemoveFails, LaunchAgent!WriteFails,
       LaunchAgent!Fault, LaunchAgent!NoFault, LaunchAgent!Ok, LaunchAgent!Err,
       LaunchAgent!Return
<1>16. ASSUME LaunchAgent!UnregisterReload PROVE LaunchAgent!IdleRight'
    BY <1>16 DEF LaunchAgent!UnregisterReload, LaunchAgent!At, LaunchAgent!Reload,
       LaunchAgent!Failed, LaunchAgent!Return, LaunchAgent!Bootstrap,
       LaunchAgent!BootstrapFails, LaunchAgent!IsFile, LaunchAgent!Fault,
       LaunchAgent!NoFault
<1>17. ASSUME LaunchAgent!Restart PROVE LaunchAgent!IdleRight'
    BY <1>17 DEF LaunchAgent!Restart, LaunchAgent!At, LaunchAgent!Fault,
       LaunchAgent!NoFault, LaunchAgent!Ok, LaunchAgent!Err, LaunchAgent!Return
<1>18. ASSUME LaunchAgent!StopNeon PROVE LaunchAgent!IdleRight'
    BY <1>18 DEF LaunchAgent!StopNeon, LaunchAgent!At, LaunchAgent!IsFile,
       LaunchAgent!Bootout, LaunchAgent!BootoutFails, LaunchAgent!Fault,
       LaunchAgent!NoFault, LaunchAgent!Return, LaunchAgent!Err
<1>19. ASSUME LaunchAgent!RestoreNeon PROVE LaunchAgent!IdleRight'
    BY <1>19 DEF LaunchAgent!RestoreNeon, LaunchAgent!At, LaunchAgent!Bootstrap,
       LaunchAgent!BootstrapFails, LaunchAgent!IsFile, LaunchAgent!Fault,
       LaunchAgent!NoFault, LaunchAgent!Ok, LaunchAgent!Err, LaunchAgent!Return
<1>20. ASSUME LaunchAgent!RemoveNeon PROVE LaunchAgent!IdleRight'
    BY <1>20 DEF LaunchAgent!RemoveNeon, LaunchAgent!At, LaunchAgent!Remove,
       LaunchAgent!RemoveFails, LaunchAgent!WriteFails, LaunchAgent!Fault,
       LaunchAgent!NoFault, LaunchAgent!Ok, LaunchAgent!Err, LaunchAgent!Return
<1>21. ASSUME LaunchAgent!Killed PROVE LaunchAgent!IdleRight'
    BY <1>21 DEF LaunchAgent!Killed
<1>22. ASSUME LaunchAgent!Login PROVE LaunchAgent!IdleRight'
    BY <1>22 DEF LaunchAgent!Login, LaunchAgent!IsFile, LaunchAgent!Interfere
<1>23. ASSUME LaunchAgent!UserPlist PROVE LaunchAgent!IdleRight'
    BY <1>23 DEF LaunchAgent!UserPlist, LaunchAgent!Interfere
<1>24. ASSUME LaunchAgent!UserJob PROVE LaunchAgent!IdleRight'
    BY <1>24 DEF LaunchAgent!UserJob, LaunchAgent!IsFile, LaunchAgent!Interfere
<1> QED BY <1>1, <1>2, <1>3, <1>4, <1>5, <1>6, <1>7, <1>8, <1>9, <1>10, <1>11, <1>12, <1>13,
   <1>14, <1>15, <1>16, <1>17, <1>18, <1>19, <1>20, <1>21, <1>22, <1>23, <1>24 DEF
   LaunchAgent!Next, LaunchAgent!Register, LaunchAgent!Unregister

\* A registration knows the plist and the job.
LEMMA AgentRegistering ==
    ASSUME LaunchAgent!TypeOK, LaunchAgent!IdleRight, LaunchAgent!Registering,
       LaunchAgent!Next
    PROVE  LaunchAgent!Registering'
<1> USE DEF LaunchAgent!Label, LaunchAgent!Own, LaunchAgent!Neon, LaunchAgent!Body,
   LaunchAgent!Idle, LaunchAgent!host, LaunchAgent!local, LaunchAgent!bounds,
   LaunchAgent!Unregistering, LaunchAgent!Ops, LaunchAgent!TypeOK, LaunchAgent!IdleRight,
   LaunchAgent!Registering, LaunchAgent!HostTypeOK, LaunchAgent!CallTypeOK
<1>1. ASSUME LaunchAgent!Call PROVE LaunchAgent!Registering'
    BY <1>1 DEF LaunchAgent!Call, LaunchAgent!Start
<1>2. ASSUME LaunchAgent!RegisterBegin PROVE LaunchAgent!Registering'
    BY <1>2 DEF LaunchAgent!RegisterBegin, LaunchAgent!At, LaunchAgent!Begun,
       LaunchAgent!Goto, LaunchAgent!NoFault
<1>3. ASSUME LaunchAgent!RegisterBeginFails PROVE LaunchAgent!Registering'
    BY <1>3 DEF LaunchAgent!RegisterBeginFails, LaunchAgent!At, LaunchAgent!Err,
       LaunchAgent!Return, LaunchAgent!Fault, LaunchAgent!NoFault
<1>4. ASSUME LaunchAgent!RegisterBootout PROVE LaunchAgent!Registering'
    BY <1>4 DEF LaunchAgent!RegisterBootout, LaunchAgent!At, LaunchAgent!Goto,
       LaunchAgent!Bootout, LaunchAgent!BootoutFails, LaunchAgent!Fault,
       LaunchAgent!NoFault, LaunchAgent!Ok, LaunchAgent!Err, LaunchAgent!Return
<1>5. ASSUME LaunchAgent!RegisterWrite PROVE LaunchAgent!Registering'
    BY <1>5 DEF LaunchAgent!RegisterWrite, LaunchAgent!At, LaunchAgent!Goto,
       LaunchAgent!Write, LaunchAgent!WriteFails, LaunchAgent!Fault, LaunchAgent!NoFault
<1>6. ASSUME LaunchAgent!RegisterBootstrap PROVE LaunchAgent!Registering'
    BY <1>6 DEF LaunchAgent!RegisterBootstrap, LaunchAgent!At, LaunchAgent!Goto,
       LaunchAgent!Bootstrap, LaunchAgent!BootstrapFails, LaunchAgent!IsFile,
       LaunchAgent!Fault, LaunchAgent!NoFault, LaunchAgent!Ok, LaunchAgent!Err,
       LaunchAgent!Return
<1>7. ASSUME LaunchAgent!RegisterProbe PROVE LaunchAgent!Registering'
    BY <1>7 DEF LaunchAgent!RegisterProbe, LaunchAgent!At, LaunchAgent!Attempted,
       LaunchAgent!Goto, LaunchAgent!Failed, LaunchAgent!Bootout, LaunchAgent!BootoutFails,
       LaunchAgent!Fault, LaunchAgent!NoFault
<1>8. ASSUME LaunchAgent!RegisterRestore PROVE LaunchAgent!Registering'
    BY <1>8 DEF LaunchAgent!RegisterRestore, LaunchAgent!At, LaunchAgent!RestorePlist,
       LaunchAgent!Goto, LaunchAgent!Failed, LaunchAgent!Write, LaunchAgent!WriteFails,
       LaunchAgent!Fault, LaunchAgent!NoFault, LaunchAgent!Remove
<1>9. ASSUME LaunchAgent!RegisterReload PROVE LaunchAgent!Registering'
    BY <1>9 DEF LaunchAgent!RegisterReload, LaunchAgent!At, LaunchAgent!Reload,
       LaunchAgent!Failed, LaunchAgent!Return, LaunchAgent!Bootstrap,
       LaunchAgent!BootstrapFails, LaunchAgent!IsFile, LaunchAgent!Fault,
       LaunchAgent!NoFault
<1>10. ASSUME LaunchAgent!UnregisterAbsent PROVE LaunchAgent!Registering'
    BY <1>10 DEF LaunchAgent!UnregisterAbsent, LaunchAgent!At, LaunchAgent!NoFault,
       LaunchAgent!Ok, LaunchAgent!Err, LaunchAgent!Return
<1>11. ASSUME LaunchAgent!RollbackAbsent PROVE LaunchAgent!Registering'
    BY <1>11 DEF LaunchAgent!RollbackAbsent, LaunchAgent!At, LaunchAgent!Orphan,
       LaunchAgent!Ok, LaunchAgent!Err, LaunchAgent!Return, LaunchAgent!Bootout,
       LaunchAgent!BootoutFails, LaunchAgent!Fault, LaunchAgent!NoFault
<1>12. ASSUME LaunchAgent!UnregisterFails PROVE LaunchAgent!Registering'
    BY <1>12 DEF LaunchAgent!UnregisterFails, LaunchAgent!At, LaunchAgent!Ok,
       LaunchAgent!Err, LaunchAgent!Return, LaunchAgent!Fault, LaunchAgent!NoFault
<1>13. ASSUME LaunchAgent!UnregisterProbe PROVE LaunchAgent!Registering'
    BY <1>13 DEF LaunchAgent!UnregisterProbe, LaunchAgent!At, LaunchAgent!IsFile,
       LaunchAgent!Goto, LaunchAgent!NoFault
<1>14. ASSUME LaunchAgent!UnregisterBootout PROVE LaunchAgent!Registering'
    BY <1>14 DEF LaunchAgent!UnregisterBootout, LaunchAgent!At, LaunchAgent!Goto,
       LaunchAgent!Bootout, LaunchAgent!BootoutFails, LaunchAgent!Fault,
       LaunchAgent!NoFault, LaunchAgent!Ok, LaunchAgent!Err, LaunchAgent!Return
<1>15. ASSUME LaunchAgent!UnregisterRemove PROVE LaunchAgent!Registering'
    BY <1>15 DEF LaunchAgent!UnregisterRemove, LaunchAgent!At, LaunchAgent!Goto,
       LaunchAgent!Remove, LaunchAgent!RemoveFails, LaunchAgent!WriteFails,
       LaunchAgent!Fault, LaunchAgent!NoFault, LaunchAgent!Ok, LaunchAgent!Err,
       LaunchAgent!Return
<1>16. ASSUME LaunchAgent!UnregisterReload PROVE LaunchAgent!Registering'
    BY <1>16 DEF LaunchAgent!UnregisterReload, LaunchAgent!At, LaunchAgent!Reload,
       LaunchAgent!Failed, LaunchAgent!Return, LaunchAgent!Bootstrap,
       LaunchAgent!BootstrapFails, LaunchAgent!IsFile, LaunchAgent!Fault,
       LaunchAgent!NoFault
<1>17. ASSUME LaunchAgent!Restart PROVE LaunchAgent!Registering'
    BY <1>17 DEF LaunchAgent!Restart, LaunchAgent!At, LaunchAgent!Fault,
       LaunchAgent!NoFault, LaunchAgent!Ok, LaunchAgent!Err, LaunchAgent!Return
<1>18. ASSUME LaunchAgent!StopNeon PROVE LaunchAgent!Registering'
    BY <1>18 DEF LaunchAgent!StopNeon, LaunchAgent!At, LaunchAgent!IsFile,
       LaunchAgent!Bootout, LaunchAgent!BootoutFails, LaunchAgent!Fault,
       LaunchAgent!NoFault, LaunchAgent!Return, LaunchAgent!Err
<1>19. ASSUME LaunchAgent!RestoreNeon PROVE LaunchAgent!Registering'
    BY <1>19 DEF LaunchAgent!RestoreNeon, LaunchAgent!At, LaunchAgent!Bootstrap,
       LaunchAgent!BootstrapFails, LaunchAgent!IsFile, LaunchAgent!Fault,
       LaunchAgent!NoFault, LaunchAgent!Ok, LaunchAgent!Err, LaunchAgent!Return
<1>20. ASSUME LaunchAgent!RemoveNeon PROVE LaunchAgent!Registering'
    BY <1>20 DEF LaunchAgent!RemoveNeon, LaunchAgent!At, LaunchAgent!Remove,
       LaunchAgent!RemoveFails, LaunchAgent!WriteFails, LaunchAgent!Fault,
       LaunchAgent!NoFault, LaunchAgent!Ok, LaunchAgent!Err, LaunchAgent!Return
<1>21. ASSUME LaunchAgent!Killed PROVE LaunchAgent!Registering'
    BY <1>21 DEF LaunchAgent!Killed
<1>22. ASSUME LaunchAgent!Login PROVE LaunchAgent!Registering'
    BY <1>22 DEF LaunchAgent!Login, LaunchAgent!IsFile, LaunchAgent!Interfere
<1>23. ASSUME LaunchAgent!UserPlist PROVE LaunchAgent!Registering'
    BY <1>23 DEF LaunchAgent!UserPlist, LaunchAgent!Interfere
<1>24. ASSUME LaunchAgent!UserJob PROVE LaunchAgent!Registering'
    BY <1>24 DEF LaunchAgent!UserJob, LaunchAgent!IsFile, LaunchAgent!Interfere
<1> QED BY <1>1, <1>2, <1>3, <1>4, <1>5, <1>6, <1>7, <1>8, <1>9, <1>10, <1>11, <1>12, <1>13,
   <1>14, <1>15, <1>16, <1>17, <1>18, <1>19, <1>20, <1>21, <1>22, <1>23, <1>24 DEF
   LaunchAgent!Next, LaunchAgent!Register, LaunchAgent!Unregister

\* The plist is removed once the job is stopped.
LEMMA AgentRemoving ==
    ASSUME LaunchAgent!TypeOK, LaunchAgent!Removing, LaunchAgent!Next
    PROVE  LaunchAgent!Removing'
<1> USE DEF LaunchAgent!Label, LaunchAgent!Own, LaunchAgent!Neon, LaunchAgent!Body,
   LaunchAgent!Idle, LaunchAgent!host, LaunchAgent!local, LaunchAgent!bounds,
   LaunchAgent!Unregistering, LaunchAgent!Ops, LaunchAgent!TypeOK, LaunchAgent!Removing,
   LaunchAgent!HostTypeOK, LaunchAgent!CallTypeOK
<1>1. ASSUME LaunchAgent!Call PROVE LaunchAgent!Removing'
    BY <1>1 DEF LaunchAgent!Call, LaunchAgent!Start
<1>2. ASSUME LaunchAgent!RegisterBegin PROVE LaunchAgent!Removing'
    BY <1>2 DEF LaunchAgent!RegisterBegin, LaunchAgent!At, LaunchAgent!Begun,
       LaunchAgent!Goto, LaunchAgent!NoFault
<1>3. ASSUME LaunchAgent!RegisterBeginFails PROVE LaunchAgent!Removing'
    BY <1>3 DEF LaunchAgent!RegisterBeginFails, LaunchAgent!At, LaunchAgent!Err,
       LaunchAgent!Return, LaunchAgent!Fault, LaunchAgent!NoFault
<1>4. ASSUME LaunchAgent!RegisterBootout PROVE LaunchAgent!Removing'
    BY <1>4 DEF LaunchAgent!RegisterBootout, LaunchAgent!At, LaunchAgent!Goto,
       LaunchAgent!Bootout, LaunchAgent!BootoutFails, LaunchAgent!Fault,
       LaunchAgent!NoFault, LaunchAgent!Ok, LaunchAgent!Err, LaunchAgent!Return
<1>5. ASSUME LaunchAgent!RegisterWrite PROVE LaunchAgent!Removing'
    BY <1>5 DEF LaunchAgent!RegisterWrite, LaunchAgent!At, LaunchAgent!Goto,
       LaunchAgent!Write, LaunchAgent!WriteFails, LaunchAgent!Fault, LaunchAgent!NoFault
<1>6. ASSUME LaunchAgent!RegisterBootstrap PROVE LaunchAgent!Removing'
    BY <1>6 DEF LaunchAgent!RegisterBootstrap, LaunchAgent!At, LaunchAgent!Goto,
       LaunchAgent!Bootstrap, LaunchAgent!BootstrapFails, LaunchAgent!IsFile,
       LaunchAgent!Fault, LaunchAgent!NoFault, LaunchAgent!Ok, LaunchAgent!Err,
       LaunchAgent!Return
<1>7. ASSUME LaunchAgent!RegisterProbe PROVE LaunchAgent!Removing'
    BY <1>7 DEF LaunchAgent!RegisterProbe, LaunchAgent!At, LaunchAgent!Attempted,
       LaunchAgent!Goto, LaunchAgent!Failed, LaunchAgent!Bootout, LaunchAgent!BootoutFails,
       LaunchAgent!Fault, LaunchAgent!NoFault
<1>8. ASSUME LaunchAgent!RegisterRestore PROVE LaunchAgent!Removing'
    BY <1>8 DEF LaunchAgent!RegisterRestore, LaunchAgent!At, LaunchAgent!RestorePlist,
       LaunchAgent!Goto, LaunchAgent!Failed, LaunchAgent!Write, LaunchAgent!WriteFails,
       LaunchAgent!Fault, LaunchAgent!NoFault, LaunchAgent!Remove
<1>9. ASSUME LaunchAgent!RegisterReload PROVE LaunchAgent!Removing'
    BY <1>9 DEF LaunchAgent!RegisterReload, LaunchAgent!At, LaunchAgent!Reload,
       LaunchAgent!Failed, LaunchAgent!Return, LaunchAgent!Bootstrap,
       LaunchAgent!BootstrapFails, LaunchAgent!IsFile, LaunchAgent!Fault,
       LaunchAgent!NoFault
<1>10. ASSUME LaunchAgent!UnregisterAbsent PROVE LaunchAgent!Removing'
    BY <1>10 DEF LaunchAgent!UnregisterAbsent, LaunchAgent!At, LaunchAgent!NoFault,
       LaunchAgent!Ok, LaunchAgent!Err, LaunchAgent!Return
<1>11. ASSUME LaunchAgent!RollbackAbsent PROVE LaunchAgent!Removing'
    BY <1>11 DEF LaunchAgent!RollbackAbsent, LaunchAgent!At, LaunchAgent!Orphan,
       LaunchAgent!Ok, LaunchAgent!Err, LaunchAgent!Return, LaunchAgent!Bootout,
       LaunchAgent!BootoutFails, LaunchAgent!Fault, LaunchAgent!NoFault
<1>12. ASSUME LaunchAgent!UnregisterFails PROVE LaunchAgent!Removing'
    BY <1>12 DEF LaunchAgent!UnregisterFails, LaunchAgent!At, LaunchAgent!Ok,
       LaunchAgent!Err, LaunchAgent!Return, LaunchAgent!Fault, LaunchAgent!NoFault
<1>13. ASSUME LaunchAgent!UnregisterProbe PROVE LaunchAgent!Removing'
    BY <1>13 DEF LaunchAgent!UnregisterProbe, LaunchAgent!At, LaunchAgent!IsFile,
       LaunchAgent!Goto, LaunchAgent!NoFault
<1>14. ASSUME LaunchAgent!UnregisterBootout PROVE LaunchAgent!Removing'
    BY <1>14 DEF LaunchAgent!UnregisterBootout, LaunchAgent!At, LaunchAgent!Goto,
       LaunchAgent!Bootout, LaunchAgent!BootoutFails, LaunchAgent!Fault,
       LaunchAgent!NoFault, LaunchAgent!Ok, LaunchAgent!Err, LaunchAgent!Return
<1>15. ASSUME LaunchAgent!UnregisterRemove PROVE LaunchAgent!Removing'
    BY <1>15 DEF LaunchAgent!UnregisterRemove, LaunchAgent!At, LaunchAgent!Goto,
       LaunchAgent!Remove, LaunchAgent!RemoveFails, LaunchAgent!WriteFails,
       LaunchAgent!Fault, LaunchAgent!NoFault, LaunchAgent!Ok, LaunchAgent!Err,
       LaunchAgent!Return
<1>16. ASSUME LaunchAgent!UnregisterReload PROVE LaunchAgent!Removing'
    BY <1>16 DEF LaunchAgent!UnregisterReload, LaunchAgent!At, LaunchAgent!Reload,
       LaunchAgent!Failed, LaunchAgent!Return, LaunchAgent!Bootstrap,
       LaunchAgent!BootstrapFails, LaunchAgent!IsFile, LaunchAgent!Fault,
       LaunchAgent!NoFault
<1>17. ASSUME LaunchAgent!Restart PROVE LaunchAgent!Removing'
    BY <1>17 DEF LaunchAgent!Restart, LaunchAgent!At, LaunchAgent!Fault,
       LaunchAgent!NoFault, LaunchAgent!Ok, LaunchAgent!Err, LaunchAgent!Return
<1>18. ASSUME LaunchAgent!StopNeon PROVE LaunchAgent!Removing'
    BY <1>18 DEF LaunchAgent!StopNeon, LaunchAgent!At, LaunchAgent!IsFile,
       LaunchAgent!Bootout, LaunchAgent!BootoutFails, LaunchAgent!Fault,
       LaunchAgent!NoFault, LaunchAgent!Return, LaunchAgent!Err
<1>19. ASSUME LaunchAgent!RestoreNeon PROVE LaunchAgent!Removing'
    BY <1>19 DEF LaunchAgent!RestoreNeon, LaunchAgent!At, LaunchAgent!Bootstrap,
       LaunchAgent!BootstrapFails, LaunchAgent!IsFile, LaunchAgent!Fault,
       LaunchAgent!NoFault, LaunchAgent!Ok, LaunchAgent!Err, LaunchAgent!Return
<1>20. ASSUME LaunchAgent!RemoveNeon PROVE LaunchAgent!Removing'
    BY <1>20 DEF LaunchAgent!RemoveNeon, LaunchAgent!At, LaunchAgent!Remove,
       LaunchAgent!RemoveFails, LaunchAgent!WriteFails, LaunchAgent!Fault,
       LaunchAgent!NoFault, LaunchAgent!Ok, LaunchAgent!Err, LaunchAgent!Return
<1>21. ASSUME LaunchAgent!Killed PROVE LaunchAgent!Removing'
    BY <1>21 DEF LaunchAgent!Killed
<1>22. ASSUME LaunchAgent!Login PROVE LaunchAgent!Removing'
    BY <1>22 DEF LaunchAgent!Login, LaunchAgent!IsFile, LaunchAgent!Interfere
<1>23. ASSUME LaunchAgent!UserPlist PROVE LaunchAgent!Removing'
    BY <1>23 DEF LaunchAgent!UserPlist, LaunchAgent!Interfere
<1>24. ASSUME LaunchAgent!UserJob PROVE LaunchAgent!Removing'
    BY <1>24 DEF LaunchAgent!UserJob, LaunchAgent!IsFile, LaunchAgent!Interfere
<1> QED BY <1>1, <1>2, <1>3, <1>4, <1>5, <1>6, <1>7, <1>8, <1>9, <1>10, <1>11, <1>12, <1>13,
   <1>14, <1>15, <1>16, <1>17, <1>18, <1>19, <1>20, <1>21, <1>22, <1>23, <1>24 DEF
   LaunchAgent!Next, LaunchAgent!Register, LaunchAgent!Unregister

\* A step that is not undone has failed.
LEMMA AgentCalm ==
    ASSUME LaunchAgent!TypeOK, LaunchAgent!Registering, LaunchAgent!CalmUndone,
       LaunchAgent!Next
    PROVE  LaunchAgent!CalmUndone'
<1> USE DEF LaunchAgent!Label, LaunchAgent!Own, LaunchAgent!Neon, LaunchAgent!Body,
   LaunchAgent!Idle, LaunchAgent!host, LaunchAgent!local, LaunchAgent!bounds,
   LaunchAgent!Unregistering, LaunchAgent!Ops, LaunchAgent!TypeOK, LaunchAgent!Registering,
   LaunchAgent!CalmUndone, LaunchAgent!HostTypeOK, LaunchAgent!CallTypeOK
<1>1. ASSUME LaunchAgent!Call PROVE LaunchAgent!CalmUndone'
    BY <1>1 DEF LaunchAgent!Call, LaunchAgent!Start
<1>2. ASSUME LaunchAgent!RegisterBegin PROVE LaunchAgent!CalmUndone'
    BY <1>2 DEF LaunchAgent!RegisterBegin, LaunchAgent!At, LaunchAgent!Begun,
       LaunchAgent!Goto, LaunchAgent!NoFault
<1>3. ASSUME LaunchAgent!RegisterBeginFails PROVE LaunchAgent!CalmUndone'
    BY <1>3 DEF LaunchAgent!RegisterBeginFails, LaunchAgent!At, LaunchAgent!Err,
       LaunchAgent!Return, LaunchAgent!Fault, LaunchAgent!NoFault
<1>4. ASSUME LaunchAgent!RegisterBootout PROVE LaunchAgent!CalmUndone'
    BY <1>4 DEF LaunchAgent!RegisterBootout, LaunchAgent!At, LaunchAgent!Goto,
       LaunchAgent!Bootout, LaunchAgent!BootoutFails, LaunchAgent!Fault,
       LaunchAgent!NoFault, LaunchAgent!Ok, LaunchAgent!Err, LaunchAgent!Return
<1>5. ASSUME LaunchAgent!RegisterWrite PROVE LaunchAgent!CalmUndone'
    BY <1>5 DEF LaunchAgent!RegisterWrite, LaunchAgent!At, LaunchAgent!Goto,
       LaunchAgent!Write, LaunchAgent!WriteFails, LaunchAgent!Fault, LaunchAgent!NoFault
<1>6. ASSUME LaunchAgent!RegisterBootstrap PROVE LaunchAgent!CalmUndone'
    BY <1>6 DEF LaunchAgent!RegisterBootstrap, LaunchAgent!At, LaunchAgent!Goto,
       LaunchAgent!Bootstrap, LaunchAgent!BootstrapFails, LaunchAgent!IsFile,
       LaunchAgent!Fault, LaunchAgent!NoFault, LaunchAgent!Ok, LaunchAgent!Err,
       LaunchAgent!Return
<1>7. ASSUME LaunchAgent!RegisterProbe PROVE LaunchAgent!CalmUndone'
    BY <1>7 DEF LaunchAgent!RegisterProbe, LaunchAgent!At, LaunchAgent!Attempted,
       LaunchAgent!Goto, LaunchAgent!Failed, LaunchAgent!Bootout, LaunchAgent!BootoutFails,
       LaunchAgent!Fault, LaunchAgent!NoFault
<1>8. ASSUME LaunchAgent!RegisterRestore PROVE LaunchAgent!CalmUndone'
    BY <1>8 DEF LaunchAgent!RegisterRestore, LaunchAgent!At, LaunchAgent!RestorePlist,
       LaunchAgent!Goto, LaunchAgent!Failed, LaunchAgent!Write, LaunchAgent!WriteFails,
       LaunchAgent!Fault, LaunchAgent!NoFault, LaunchAgent!Remove
<1>9. ASSUME LaunchAgent!RegisterReload PROVE LaunchAgent!CalmUndone'
    BY <1>9 DEF LaunchAgent!RegisterReload, LaunchAgent!At, LaunchAgent!Reload,
       LaunchAgent!Failed, LaunchAgent!Return, LaunchAgent!Bootstrap,
       LaunchAgent!BootstrapFails, LaunchAgent!IsFile, LaunchAgent!Fault,
       LaunchAgent!NoFault
<1>10. ASSUME LaunchAgent!UnregisterAbsent PROVE LaunchAgent!CalmUndone'
    BY <1>10 DEF LaunchAgent!UnregisterAbsent, LaunchAgent!At, LaunchAgent!NoFault,
       LaunchAgent!Ok, LaunchAgent!Err, LaunchAgent!Return
<1>11. ASSUME LaunchAgent!RollbackAbsent PROVE LaunchAgent!CalmUndone'
    BY <1>11 DEF LaunchAgent!RollbackAbsent, LaunchAgent!At, LaunchAgent!Orphan,
       LaunchAgent!Ok, LaunchAgent!Err, LaunchAgent!Return, LaunchAgent!Bootout,
       LaunchAgent!BootoutFails, LaunchAgent!Fault, LaunchAgent!NoFault
<1>12. ASSUME LaunchAgent!UnregisterFails PROVE LaunchAgent!CalmUndone'
    BY <1>12 DEF LaunchAgent!UnregisterFails, LaunchAgent!At, LaunchAgent!Ok,
       LaunchAgent!Err, LaunchAgent!Return, LaunchAgent!Fault, LaunchAgent!NoFault
<1>13. ASSUME LaunchAgent!UnregisterProbe PROVE LaunchAgent!CalmUndone'
    BY <1>13 DEF LaunchAgent!UnregisterProbe, LaunchAgent!At, LaunchAgent!IsFile,
       LaunchAgent!Goto, LaunchAgent!NoFault
<1>14. ASSUME LaunchAgent!UnregisterBootout PROVE LaunchAgent!CalmUndone'
    BY <1>14 DEF LaunchAgent!UnregisterBootout, LaunchAgent!At, LaunchAgent!Goto,
       LaunchAgent!Bootout, LaunchAgent!BootoutFails, LaunchAgent!Fault,
       LaunchAgent!NoFault, LaunchAgent!Ok, LaunchAgent!Err, LaunchAgent!Return
<1>15. ASSUME LaunchAgent!UnregisterRemove PROVE LaunchAgent!CalmUndone'
    BY <1>15 DEF LaunchAgent!UnregisterRemove, LaunchAgent!At, LaunchAgent!Goto,
       LaunchAgent!Remove, LaunchAgent!RemoveFails, LaunchAgent!WriteFails,
       LaunchAgent!Fault, LaunchAgent!NoFault, LaunchAgent!Ok, LaunchAgent!Err,
       LaunchAgent!Return
<1>16. ASSUME LaunchAgent!UnregisterReload PROVE LaunchAgent!CalmUndone'
    BY <1>16 DEF LaunchAgent!UnregisterReload, LaunchAgent!At, LaunchAgent!Reload,
       LaunchAgent!Failed, LaunchAgent!Return, LaunchAgent!Bootstrap,
       LaunchAgent!BootstrapFails, LaunchAgent!IsFile, LaunchAgent!Fault,
       LaunchAgent!NoFault
<1>17. ASSUME LaunchAgent!Restart PROVE LaunchAgent!CalmUndone'
    BY <1>17 DEF LaunchAgent!Restart, LaunchAgent!At, LaunchAgent!Fault,
       LaunchAgent!NoFault, LaunchAgent!Ok, LaunchAgent!Err, LaunchAgent!Return
<1>18. ASSUME LaunchAgent!StopNeon PROVE LaunchAgent!CalmUndone'
    BY <1>18 DEF LaunchAgent!StopNeon, LaunchAgent!At, LaunchAgent!IsFile,
       LaunchAgent!Bootout, LaunchAgent!BootoutFails, LaunchAgent!Fault,
       LaunchAgent!NoFault, LaunchAgent!Return, LaunchAgent!Err
<1>19. ASSUME LaunchAgent!RestoreNeon PROVE LaunchAgent!CalmUndone'
    BY <1>19 DEF LaunchAgent!RestoreNeon, LaunchAgent!At, LaunchAgent!Bootstrap,
       LaunchAgent!BootstrapFails, LaunchAgent!IsFile, LaunchAgent!Fault,
       LaunchAgent!NoFault, LaunchAgent!Ok, LaunchAgent!Err, LaunchAgent!Return
<1>20. ASSUME LaunchAgent!RemoveNeon PROVE LaunchAgent!CalmUndone'
    BY <1>20 DEF LaunchAgent!RemoveNeon, LaunchAgent!At, LaunchAgent!Remove,
       LaunchAgent!RemoveFails, LaunchAgent!WriteFails, LaunchAgent!Fault,
       LaunchAgent!NoFault, LaunchAgent!Ok, LaunchAgent!Err, LaunchAgent!Return
<1>21. ASSUME LaunchAgent!Killed PROVE LaunchAgent!CalmUndone'
    BY <1>21 DEF LaunchAgent!Killed
<1>22. ASSUME LaunchAgent!Login PROVE LaunchAgent!CalmUndone'
    BY <1>22 DEF LaunchAgent!Login, LaunchAgent!IsFile, LaunchAgent!Interfere
<1>23. ASSUME LaunchAgent!UserPlist PROVE LaunchAgent!CalmUndone'
    BY <1>23 DEF LaunchAgent!UserPlist, LaunchAgent!Interfere
<1>24. ASSUME LaunchAgent!UserJob PROVE LaunchAgent!CalmUndone'
    BY <1>24 DEF LaunchAgent!UserJob, LaunchAgent!IsFile, LaunchAgent!Interfere
<1> QED BY <1>1, <1>2, <1>3, <1>4, <1>5, <1>6, <1>7, <1>8, <1>9, <1>10, <1>11, <1>12, <1>13,
   <1>14, <1>15, <1>16, <1>17, <1>18, <1>19, <1>20, <1>21, <1>22, <1>23, <1>24 DEF
   LaunchAgent!Next, LaunchAgent!Register, LaunchAgent!Unregister

\* A failed registration clears the way for the next.
LEMMA AgentCleared ==
    ASSUME LaunchAgent!TypeOK, LaunchAgent!IdleRight, LaunchAgent!Registering,
       LaunchAgent!Removing, LaunchAgent!CalmUndone, LaunchAgent!Cleared, LaunchAgent!Next
    PROVE  LaunchAgent!Cleared'
<1> USE DEF LaunchAgent!Label, LaunchAgent!Own, LaunchAgent!Neon, LaunchAgent!Body,
   LaunchAgent!Idle, LaunchAgent!host, LaunchAgent!local, LaunchAgent!bounds,
   LaunchAgent!Unregistering, LaunchAgent!Ops, LaunchAgent!TypeOK, LaunchAgent!IdleRight,
   LaunchAgent!Registering, LaunchAgent!Removing, LaunchAgent!CalmUndone,
   LaunchAgent!Cleared, LaunchAgent!Clear, LaunchAgent!HostTypeOK, LaunchAgent!CallTypeOK
<1>1. ASSUME LaunchAgent!Call PROVE LaunchAgent!Cleared'
    BY <1>1 DEF LaunchAgent!Call, LaunchAgent!Start
<1>2. ASSUME LaunchAgent!RegisterBegin PROVE LaunchAgent!Cleared'
    BY <1>2 DEF LaunchAgent!RegisterBegin, LaunchAgent!At, LaunchAgent!Begun,
       LaunchAgent!Goto, LaunchAgent!NoFault
<1>3. ASSUME LaunchAgent!RegisterBeginFails PROVE LaunchAgent!Cleared'
    BY <1>3 DEF LaunchAgent!RegisterBeginFails, LaunchAgent!At, LaunchAgent!Err,
       LaunchAgent!Return, LaunchAgent!Fault, LaunchAgent!NoFault
<1>4. ASSUME LaunchAgent!RegisterBootout PROVE LaunchAgent!Cleared'
    BY <1>4 DEF LaunchAgent!RegisterBootout, LaunchAgent!At, LaunchAgent!Goto,
       LaunchAgent!Bootout, LaunchAgent!BootoutFails, LaunchAgent!Fault,
       LaunchAgent!NoFault, LaunchAgent!Ok, LaunchAgent!Err, LaunchAgent!Return
<1>5. ASSUME LaunchAgent!RegisterWrite PROVE LaunchAgent!Cleared'
    BY <1>5 DEF LaunchAgent!RegisterWrite, LaunchAgent!At, LaunchAgent!Goto,
       LaunchAgent!Write, LaunchAgent!WriteFails, LaunchAgent!Fault, LaunchAgent!NoFault
<1>6. ASSUME LaunchAgent!RegisterBootstrap PROVE LaunchAgent!Cleared'
    BY <1>6 DEF LaunchAgent!RegisterBootstrap, LaunchAgent!At, LaunchAgent!Goto,
       LaunchAgent!Bootstrap, LaunchAgent!BootstrapFails, LaunchAgent!IsFile,
       LaunchAgent!Fault, LaunchAgent!NoFault, LaunchAgent!Ok, LaunchAgent!Err,
       LaunchAgent!Return
<1>7. ASSUME LaunchAgent!RegisterProbe PROVE LaunchAgent!Cleared'
    BY <1>7 DEF LaunchAgent!RegisterProbe, LaunchAgent!At, LaunchAgent!Attempted,
       LaunchAgent!Goto, LaunchAgent!Failed, LaunchAgent!Bootout, LaunchAgent!BootoutFails,
       LaunchAgent!Fault, LaunchAgent!NoFault
<1>8. ASSUME LaunchAgent!RegisterRestore PROVE LaunchAgent!Cleared'
    BY <1>8 DEF LaunchAgent!RegisterRestore, LaunchAgent!At, LaunchAgent!RestorePlist,
       LaunchAgent!Goto, LaunchAgent!Failed, LaunchAgent!Write, LaunchAgent!WriteFails,
       LaunchAgent!Fault, LaunchAgent!NoFault, LaunchAgent!Remove
<1>9. ASSUME LaunchAgent!RegisterReload PROVE LaunchAgent!Cleared'
    BY <1>9 DEF LaunchAgent!RegisterReload, LaunchAgent!At, LaunchAgent!Reload,
       LaunchAgent!Failed, LaunchAgent!Return, LaunchAgent!Bootstrap,
       LaunchAgent!BootstrapFails, LaunchAgent!IsFile, LaunchAgent!Fault,
       LaunchAgent!NoFault
<1>10. ASSUME LaunchAgent!UnregisterAbsent PROVE LaunchAgent!Cleared'
    BY <1>10 DEF LaunchAgent!UnregisterAbsent, LaunchAgent!At, LaunchAgent!NoFault,
       LaunchAgent!Ok, LaunchAgent!Err, LaunchAgent!Return
<1>11. ASSUME LaunchAgent!RollbackAbsent PROVE LaunchAgent!Cleared'
    BY <1>11 DEF LaunchAgent!RollbackAbsent, LaunchAgent!At, LaunchAgent!Orphan,
       LaunchAgent!Ok, LaunchAgent!Err, LaunchAgent!Return, LaunchAgent!Bootout,
       LaunchAgent!BootoutFails, LaunchAgent!Fault, LaunchAgent!NoFault
<1>12. ASSUME LaunchAgent!UnregisterFails PROVE LaunchAgent!Cleared'
    BY <1>12 DEF LaunchAgent!UnregisterFails, LaunchAgent!At, LaunchAgent!Ok,
       LaunchAgent!Err, LaunchAgent!Return, LaunchAgent!Fault, LaunchAgent!NoFault
<1>13. ASSUME LaunchAgent!UnregisterProbe PROVE LaunchAgent!Cleared'
    BY <1>13 DEF LaunchAgent!UnregisterProbe, LaunchAgent!At, LaunchAgent!IsFile,
       LaunchAgent!Goto, LaunchAgent!NoFault
<1>14. ASSUME LaunchAgent!UnregisterBootout PROVE LaunchAgent!Cleared'
    BY <1>14 DEF LaunchAgent!UnregisterBootout, LaunchAgent!At, LaunchAgent!Goto,
       LaunchAgent!Bootout, LaunchAgent!BootoutFails, LaunchAgent!Fault,
       LaunchAgent!NoFault, LaunchAgent!Ok, LaunchAgent!Err, LaunchAgent!Return
<1>15. ASSUME LaunchAgent!UnregisterRemove PROVE LaunchAgent!Cleared'
    BY <1>15 DEF LaunchAgent!UnregisterRemove, LaunchAgent!At, LaunchAgent!Goto,
       LaunchAgent!Remove, LaunchAgent!RemoveFails, LaunchAgent!WriteFails,
       LaunchAgent!Fault, LaunchAgent!NoFault, LaunchAgent!Ok, LaunchAgent!Err,
       LaunchAgent!Return
<1>16. ASSUME LaunchAgent!UnregisterReload PROVE LaunchAgent!Cleared'
    BY <1>16 DEF LaunchAgent!UnregisterReload, LaunchAgent!At, LaunchAgent!Reload,
       LaunchAgent!Failed, LaunchAgent!Return, LaunchAgent!Bootstrap,
       LaunchAgent!BootstrapFails, LaunchAgent!IsFile, LaunchAgent!Fault,
       LaunchAgent!NoFault
<1>17. ASSUME LaunchAgent!Restart PROVE LaunchAgent!Cleared'
    BY <1>17 DEF LaunchAgent!Restart, LaunchAgent!At, LaunchAgent!Fault,
       LaunchAgent!NoFault, LaunchAgent!Ok, LaunchAgent!Err, LaunchAgent!Return
<1>18. ASSUME LaunchAgent!StopNeon PROVE LaunchAgent!Cleared'
    BY <1>18 DEF LaunchAgent!StopNeon, LaunchAgent!At, LaunchAgent!IsFile,
       LaunchAgent!Bootout, LaunchAgent!BootoutFails, LaunchAgent!Fault,
       LaunchAgent!NoFault, LaunchAgent!Return, LaunchAgent!Err
<1>19. ASSUME LaunchAgent!RestoreNeon PROVE LaunchAgent!Cleared'
    BY <1>19 DEF LaunchAgent!RestoreNeon, LaunchAgent!At, LaunchAgent!Bootstrap,
       LaunchAgent!BootstrapFails, LaunchAgent!IsFile, LaunchAgent!Fault,
       LaunchAgent!NoFault, LaunchAgent!Ok, LaunchAgent!Err, LaunchAgent!Return
<1>20. ASSUME LaunchAgent!RemoveNeon PROVE LaunchAgent!Cleared'
    BY <1>20 DEF LaunchAgent!RemoveNeon, LaunchAgent!At, LaunchAgent!Remove,
       LaunchAgent!RemoveFails, LaunchAgent!WriteFails, LaunchAgent!Fault,
       LaunchAgent!NoFault, LaunchAgent!Ok, LaunchAgent!Err, LaunchAgent!Return
<1>21. ASSUME LaunchAgent!Killed PROVE LaunchAgent!Cleared'
    BY <1>21 DEF LaunchAgent!Killed
<1>22. ASSUME LaunchAgent!Login PROVE LaunchAgent!Cleared'
    BY <1>22 DEF LaunchAgent!Login, LaunchAgent!IsFile, LaunchAgent!Interfere
<1>23. ASSUME LaunchAgent!UserPlist PROVE LaunchAgent!Cleared'
    BY <1>23 DEF LaunchAgent!UserPlist, LaunchAgent!Interfere
<1>24. ASSUME LaunchAgent!UserJob PROVE LaunchAgent!Cleared'
    BY <1>24 DEF LaunchAgent!UserJob, LaunchAgent!IsFile, LaunchAgent!Interfere
<1> QED BY <1>1, <1>2, <1>3, <1>4, <1>5, <1>6, <1>7, <1>8, <1>9, <1>10, <1>11, <1>12, <1>13,
   <1>14, <1>15, <1>16, <1>17, <1>18, <1>19, <1>20, <1>21, <1>22, <1>23, <1>24 DEF
   LaunchAgent!Next, LaunchAgent!Register, LaunchAgent!Unregister

\* A rollback leaves neither plist nor job.
LEMMA AgentStops ==
    ASSUME LaunchAgent!TypeOK, LaunchAgent!IdleRight, LaunchAgent!Removing,
       LaunchAgent!RollbackStops, LaunchAgent!Next
    PROVE  LaunchAgent!RollbackStops'
<1> USE AgentReturns DEF LaunchAgent!Label, LaunchAgent!Own, LaunchAgent!Neon,
   LaunchAgent!Body, LaunchAgent!Idle, LaunchAgent!host, LaunchAgent!local,
   LaunchAgent!bounds, LaunchAgent!Unregistering, LaunchAgent!Ops, LaunchAgent!TypeOK,
   LaunchAgent!IdleRight, LaunchAgent!Removing, LaunchAgent!RollbackStops, LaunchAgent!Just,
   LaunchAgent!HostTypeOK, LaunchAgent!CallTypeOK
<1>1. ASSUME LaunchAgent!Call PROVE LaunchAgent!RollbackStops'
    BY <1>1 DEF LaunchAgent!Call, LaunchAgent!Start
<1>2. ASSUME LaunchAgent!RegisterBegin PROVE LaunchAgent!RollbackStops'
    BY <1>2 DEF LaunchAgent!RegisterBegin, LaunchAgent!At, LaunchAgent!Begun,
       LaunchAgent!Goto, LaunchAgent!NoFault
<1>3. ASSUME LaunchAgent!RegisterBeginFails PROVE LaunchAgent!RollbackStops'
    BY <1>3 DEF LaunchAgent!RegisterBeginFails, LaunchAgent!At, LaunchAgent!Err,
       LaunchAgent!Fault, LaunchAgent!NoFault
<1>4. ASSUME LaunchAgent!RegisterBootout PROVE LaunchAgent!RollbackStops'
    BY <1>4 DEF LaunchAgent!RegisterBootout, LaunchAgent!At, LaunchAgent!Goto,
       LaunchAgent!Bootout, LaunchAgent!BootoutFails, LaunchAgent!Fault,
       LaunchAgent!NoFault, LaunchAgent!Ok, LaunchAgent!Err
<1>5. ASSUME LaunchAgent!RegisterWrite PROVE LaunchAgent!RollbackStops'
    BY <1>5 DEF LaunchAgent!RegisterWrite, LaunchAgent!At, LaunchAgent!Goto,
       LaunchAgent!Write, LaunchAgent!WriteFails, LaunchAgent!Fault, LaunchAgent!NoFault
<1>6. ASSUME LaunchAgent!RegisterBootstrap PROVE LaunchAgent!RollbackStops'
    BY <1>6 DEF LaunchAgent!RegisterBootstrap, LaunchAgent!At, LaunchAgent!Goto,
       LaunchAgent!Bootstrap, LaunchAgent!BootstrapFails, LaunchAgent!IsFile,
       LaunchAgent!Fault, LaunchAgent!NoFault, LaunchAgent!Ok, LaunchAgent!Err
<1>7. ASSUME LaunchAgent!RegisterProbe PROVE LaunchAgent!RollbackStops'
    BY <1>7 DEF LaunchAgent!RegisterProbe, LaunchAgent!At, LaunchAgent!Attempted,
       LaunchAgent!Goto, LaunchAgent!Failed, LaunchAgent!Bootout, LaunchAgent!BootoutFails,
       LaunchAgent!Fault, LaunchAgent!NoFault
<1>8. ASSUME LaunchAgent!RegisterRestore PROVE LaunchAgent!RollbackStops'
    BY <1>8 DEF LaunchAgent!RegisterRestore, LaunchAgent!At, LaunchAgent!RestorePlist,
       LaunchAgent!Goto, LaunchAgent!Failed, LaunchAgent!Write, LaunchAgent!WriteFails,
       LaunchAgent!Fault, LaunchAgent!NoFault, LaunchAgent!Remove
<1>9. ASSUME LaunchAgent!RegisterReload PROVE LaunchAgent!RollbackStops'
    BY <1>9 DEF LaunchAgent!RegisterReload, LaunchAgent!At, LaunchAgent!Reload,
       LaunchAgent!Failed, LaunchAgent!Bootstrap, LaunchAgent!BootstrapFails,
       LaunchAgent!IsFile, LaunchAgent!Fault, LaunchAgent!NoFault
<1>10. ASSUME LaunchAgent!UnregisterAbsent PROVE LaunchAgent!RollbackStops'
    BY <1>10 DEF LaunchAgent!UnregisterAbsent, LaunchAgent!At, LaunchAgent!NoFault,
       LaunchAgent!Ok, LaunchAgent!Err
<1>11. ASSUME LaunchAgent!RollbackAbsent PROVE LaunchAgent!RollbackStops'
    BY <1>11 DEF LaunchAgent!RollbackAbsent, LaunchAgent!At, LaunchAgent!Orphan,
       LaunchAgent!Ok, LaunchAgent!Err, LaunchAgent!Bootout, LaunchAgent!BootoutFails,
       LaunchAgent!Fault, LaunchAgent!NoFault
<1>12. ASSUME LaunchAgent!UnregisterFails PROVE LaunchAgent!RollbackStops'
    BY <1>12 DEF LaunchAgent!UnregisterFails, LaunchAgent!At, LaunchAgent!Ok,
       LaunchAgent!Err, LaunchAgent!Fault, LaunchAgent!NoFault
<1>13. ASSUME LaunchAgent!UnregisterProbe PROVE LaunchAgent!RollbackStops'
    BY <1>13 DEF LaunchAgent!UnregisterProbe, LaunchAgent!At, LaunchAgent!IsFile,
       LaunchAgent!Goto, LaunchAgent!NoFault
<1>14. ASSUME LaunchAgent!UnregisterBootout PROVE LaunchAgent!RollbackStops'
    BY <1>14 DEF LaunchAgent!UnregisterBootout, LaunchAgent!At, LaunchAgent!Goto,
       LaunchAgent!Bootout, LaunchAgent!BootoutFails, LaunchAgent!Fault,
       LaunchAgent!NoFault, LaunchAgent!Ok, LaunchAgent!Err
<1>15. ASSUME LaunchAgent!UnregisterRemove PROVE LaunchAgent!RollbackStops'
    BY <1>15 DEF LaunchAgent!UnregisterRemove, LaunchAgent!At, LaunchAgent!Goto,
       LaunchAgent!Remove, LaunchAgent!RemoveFails, LaunchAgent!WriteFails,
       LaunchAgent!Fault, LaunchAgent!NoFault, LaunchAgent!Ok, LaunchAgent!Err
<1>16. ASSUME LaunchAgent!UnregisterReload PROVE LaunchAgent!RollbackStops'
    BY <1>16 DEF LaunchAgent!UnregisterReload, LaunchAgent!At, LaunchAgent!Reload,
       LaunchAgent!Failed, LaunchAgent!Bootstrap, LaunchAgent!BootstrapFails,
       LaunchAgent!IsFile, LaunchAgent!Fault, LaunchAgent!NoFault
<1>17. ASSUME LaunchAgent!Restart PROVE LaunchAgent!RollbackStops'
    BY <1>17 DEF LaunchAgent!Restart, LaunchAgent!At, LaunchAgent!Fault,
       LaunchAgent!NoFault, LaunchAgent!Ok, LaunchAgent!Err
<1>18. ASSUME LaunchAgent!StopNeon PROVE LaunchAgent!RollbackStops'
    BY <1>18 DEF LaunchAgent!StopNeon, LaunchAgent!At, LaunchAgent!IsFile,
       LaunchAgent!Bootout, LaunchAgent!BootoutFails, LaunchAgent!Fault,
       LaunchAgent!NoFault, LaunchAgent!Err
<1>19. ASSUME LaunchAgent!RestoreNeon PROVE LaunchAgent!RollbackStops'
    BY <1>19 DEF LaunchAgent!RestoreNeon, LaunchAgent!At, LaunchAgent!Bootstrap,
       LaunchAgent!BootstrapFails, LaunchAgent!IsFile, LaunchAgent!Fault,
       LaunchAgent!NoFault, LaunchAgent!Ok, LaunchAgent!Err
<1>20. ASSUME LaunchAgent!RemoveNeon PROVE LaunchAgent!RollbackStops'
    BY <1>20 DEF LaunchAgent!RemoveNeon, LaunchAgent!At, LaunchAgent!Remove,
       LaunchAgent!RemoveFails, LaunchAgent!WriteFails, LaunchAgent!Fault,
       LaunchAgent!NoFault, LaunchAgent!Ok, LaunchAgent!Err
<1>21. ASSUME LaunchAgent!Killed PROVE LaunchAgent!RollbackStops'
    BY <1>21 DEF LaunchAgent!Killed
<1>22. ASSUME LaunchAgent!Login PROVE LaunchAgent!RollbackStops'
    BY <1>22 DEF LaunchAgent!Login, LaunchAgent!IsFile, LaunchAgent!Interfere
<1>23. ASSUME LaunchAgent!UserPlist PROVE LaunchAgent!RollbackStops'
    BY <1>23 DEF LaunchAgent!UserPlist, LaunchAgent!Interfere
<1>24. ASSUME LaunchAgent!UserJob PROVE LaunchAgent!RollbackStops'
    BY <1>24 DEF LaunchAgent!UserJob, LaunchAgent!IsFile, LaunchAgent!Interfere
<1> QED BY <1>1, <1>2, <1>3, <1>4, <1>5, <1>6, <1>7, <1>8, <1>9, <1>10, <1>11, <1>12, <1>13,
   <1>14, <1>15, <1>16, <1>17, <1>18, <1>19, <1>20, <1>21, <1>22, <1>23, <1>24 DEF
   LaunchAgent!Next, LaunchAgent!Register, LaunchAgent!Unregister

\* A registration is done, or taken back.
LEMMA AgentWhole ==
    ASSUME LaunchAgent!TypeOK, LaunchAgent!IdleRight, LaunchAgent!Registering,
       LaunchAgent!Next
    PROVE  LaunchAgent!RegisterWhole
<1> USE AgentReturns DEF LaunchAgent!Label, LaunchAgent!Own, LaunchAgent!Neon,
   LaunchAgent!Body, LaunchAgent!Idle, LaunchAgent!host, LaunchAgent!local,
   LaunchAgent!bounds, LaunchAgent!Unregistering, LaunchAgent!Ops, LaunchAgent!TypeOK,
   LaunchAgent!IdleRight, LaunchAgent!Registering, LaunchAgent!RegisterWhole,
   LaunchAgent!HostTypeOK, LaunchAgent!CallTypeOK
<1>1. ASSUME LaunchAgent!Call PROVE LaunchAgent!RegisterWhole
    BY <1>1 DEF LaunchAgent!Call, LaunchAgent!Start
<1>2. ASSUME LaunchAgent!RegisterBegin PROVE LaunchAgent!RegisterWhole
    BY <1>2 DEF LaunchAgent!RegisterBegin, LaunchAgent!At, LaunchAgent!Begun,
       LaunchAgent!Goto, LaunchAgent!NoFault
<1>3. ASSUME LaunchAgent!RegisterBeginFails PROVE LaunchAgent!RegisterWhole
    BY <1>3 DEF LaunchAgent!RegisterBeginFails, LaunchAgent!At, LaunchAgent!Err,
       LaunchAgent!Fault, LaunchAgent!NoFault
<1>4. ASSUME LaunchAgent!RegisterBootout PROVE LaunchAgent!RegisterWhole
    BY <1>4 DEF LaunchAgent!RegisterBootout, LaunchAgent!At, LaunchAgent!Goto,
       LaunchAgent!Bootout, LaunchAgent!BootoutFails, LaunchAgent!Fault,
       LaunchAgent!NoFault, LaunchAgent!Ok, LaunchAgent!Err
<1>5. ASSUME LaunchAgent!RegisterWrite PROVE LaunchAgent!RegisterWhole
    BY <1>5 DEF LaunchAgent!RegisterWrite, LaunchAgent!At, LaunchAgent!Goto,
       LaunchAgent!Write, LaunchAgent!WriteFails, LaunchAgent!Fault, LaunchAgent!NoFault
<1>6. ASSUME LaunchAgent!RegisterBootstrap PROVE LaunchAgent!RegisterWhole
    BY <1>6 DEF LaunchAgent!RegisterBootstrap, LaunchAgent!At, LaunchAgent!Goto,
       LaunchAgent!Bootstrap, LaunchAgent!BootstrapFails, LaunchAgent!IsFile,
       LaunchAgent!Fault, LaunchAgent!NoFault, LaunchAgent!Ok, LaunchAgent!Err
<1>7. ASSUME LaunchAgent!RegisterProbe PROVE LaunchAgent!RegisterWhole
    BY <1>7 DEF LaunchAgent!RegisterProbe, LaunchAgent!At, LaunchAgent!Attempted,
       LaunchAgent!Goto, LaunchAgent!Failed, LaunchAgent!Bootout, LaunchAgent!BootoutFails,
       LaunchAgent!Fault, LaunchAgent!NoFault
<1>8. ASSUME LaunchAgent!RegisterRestore PROVE LaunchAgent!RegisterWhole
    BY <1>8 DEF LaunchAgent!RegisterRestore, LaunchAgent!At, LaunchAgent!RestorePlist,
       LaunchAgent!Goto, LaunchAgent!Failed, LaunchAgent!Write, LaunchAgent!WriteFails,
       LaunchAgent!Fault, LaunchAgent!NoFault, LaunchAgent!Remove
<1>9. ASSUME LaunchAgent!RegisterReload PROVE LaunchAgent!RegisterWhole
    BY <1>9 DEF LaunchAgent!RegisterReload, LaunchAgent!At, LaunchAgent!Reload,
       LaunchAgent!Failed, LaunchAgent!Bootstrap, LaunchAgent!BootstrapFails,
       LaunchAgent!IsFile, LaunchAgent!Fault, LaunchAgent!NoFault
<1>10. ASSUME LaunchAgent!UnregisterAbsent PROVE LaunchAgent!RegisterWhole
    BY <1>10 DEF LaunchAgent!UnregisterAbsent, LaunchAgent!At, LaunchAgent!NoFault,
       LaunchAgent!Ok, LaunchAgent!Err
<1>11. ASSUME LaunchAgent!RollbackAbsent PROVE LaunchAgent!RegisterWhole
    BY <1>11 DEF LaunchAgent!RollbackAbsent, LaunchAgent!At, LaunchAgent!Orphan,
       LaunchAgent!Ok, LaunchAgent!Err, LaunchAgent!Bootout, LaunchAgent!BootoutFails,
       LaunchAgent!Fault, LaunchAgent!NoFault
<1>12. ASSUME LaunchAgent!UnregisterFails PROVE LaunchAgent!RegisterWhole
    BY <1>12 DEF LaunchAgent!UnregisterFails, LaunchAgent!At, LaunchAgent!Ok,
       LaunchAgent!Err, LaunchAgent!Fault, LaunchAgent!NoFault
<1>13. ASSUME LaunchAgent!UnregisterProbe PROVE LaunchAgent!RegisterWhole
    BY <1>13 DEF LaunchAgent!UnregisterProbe, LaunchAgent!At, LaunchAgent!IsFile,
       LaunchAgent!Goto, LaunchAgent!NoFault
<1>14. ASSUME LaunchAgent!UnregisterBootout PROVE LaunchAgent!RegisterWhole
    BY <1>14 DEF LaunchAgent!UnregisterBootout, LaunchAgent!At, LaunchAgent!Goto,
       LaunchAgent!Bootout, LaunchAgent!BootoutFails, LaunchAgent!Fault,
       LaunchAgent!NoFault, LaunchAgent!Ok, LaunchAgent!Err
<1>15. ASSUME LaunchAgent!UnregisterRemove PROVE LaunchAgent!RegisterWhole
    BY <1>15 DEF LaunchAgent!UnregisterRemove, LaunchAgent!At, LaunchAgent!Goto,
       LaunchAgent!Remove, LaunchAgent!RemoveFails, LaunchAgent!WriteFails,
       LaunchAgent!Fault, LaunchAgent!NoFault, LaunchAgent!Ok, LaunchAgent!Err
<1>16. ASSUME LaunchAgent!UnregisterReload PROVE LaunchAgent!RegisterWhole
    BY <1>16 DEF LaunchAgent!UnregisterReload, LaunchAgent!At, LaunchAgent!Reload,
       LaunchAgent!Failed, LaunchAgent!Bootstrap, LaunchAgent!BootstrapFails,
       LaunchAgent!IsFile, LaunchAgent!Fault, LaunchAgent!NoFault
<1>17. ASSUME LaunchAgent!Restart PROVE LaunchAgent!RegisterWhole
    BY <1>17 DEF LaunchAgent!Restart, LaunchAgent!At, LaunchAgent!Fault,
       LaunchAgent!NoFault, LaunchAgent!Ok, LaunchAgent!Err
<1>18. ASSUME LaunchAgent!StopNeon PROVE LaunchAgent!RegisterWhole
    BY <1>18 DEF LaunchAgent!StopNeon, LaunchAgent!At, LaunchAgent!IsFile,
       LaunchAgent!Bootout, LaunchAgent!BootoutFails, LaunchAgent!Fault,
       LaunchAgent!NoFault, LaunchAgent!Err
<1>19. ASSUME LaunchAgent!RestoreNeon PROVE LaunchAgent!RegisterWhole
    BY <1>19 DEF LaunchAgent!RestoreNeon, LaunchAgent!At, LaunchAgent!Bootstrap,
       LaunchAgent!BootstrapFails, LaunchAgent!IsFile, LaunchAgent!Fault,
       LaunchAgent!NoFault, LaunchAgent!Ok, LaunchAgent!Err
<1>20. ASSUME LaunchAgent!RemoveNeon PROVE LaunchAgent!RegisterWhole
    BY <1>20 DEF LaunchAgent!RemoveNeon, LaunchAgent!At, LaunchAgent!Remove,
       LaunchAgent!RemoveFails, LaunchAgent!WriteFails, LaunchAgent!Fault,
       LaunchAgent!NoFault, LaunchAgent!Ok, LaunchAgent!Err
<1>21. ASSUME LaunchAgent!Killed PROVE LaunchAgent!RegisterWhole
    BY <1>21 DEF LaunchAgent!Killed
<1>22. ASSUME LaunchAgent!Login PROVE LaunchAgent!RegisterWhole
    BY <1>22 DEF LaunchAgent!Login, LaunchAgent!IsFile, LaunchAgent!Interfere
<1>23. ASSUME LaunchAgent!UserPlist PROVE LaunchAgent!RegisterWhole
    BY <1>23 DEF LaunchAgent!UserPlist, LaunchAgent!Interfere
<1>24. ASSUME LaunchAgent!UserJob PROVE LaunchAgent!RegisterWhole
    BY <1>24 DEF LaunchAgent!UserJob, LaunchAgent!IsFile, LaunchAgent!Interfere
<1> QED BY <1>1, <1>2, <1>3, <1>4, <1>5, <1>6, <1>7, <1>8, <1>9, <1>10, <1>11, <1>12, <1>13,
   <1>14, <1>15, <1>16, <1>17, <1>18, <1>19, <1>20, <1>21, <1>22, <1>23, <1>24 DEF
   LaunchAgent!Next, LaunchAgent!Register, LaunchAgent!Unregister

\* Nothing is registered by a call initially.
LEMMA AgentInit == ASSUME LaunchAgent!Init PROVE LaunchAgent!IInv
<1> USE DEF LaunchAgent!Init, LaunchAgent!Label, LaunchAgent!Own, LaunchAgent!Body, LaunchAgent!Idle,
   LaunchAgent!Ops
<1>1. LaunchAgent!TypeOK
    BY DEF LaunchAgent!TypeOK, LaunchAgent!HostTypeOK, LaunchAgent!CallTypeOK
<1>2. LaunchAgent!IdleRight /\ LaunchAgent!Registering /\ LaunchAgent!Removing
    BY DEF LaunchAgent!IdleRight, LaunchAgent!Registering, LaunchAgent!Removing
<1>3. LaunchAgent!CalmUndone /\ LaunchAgent!Cleared /\ LaunchAgent!RollbackStops
    BY DEF LaunchAgent!CalmUndone, LaunchAgent!Cleared, LaunchAgent!RollbackStops, LaunchAgent!Just
<1> QED BY <1>1, <1>2, <1>3 DEF LaunchAgent!IInv

LEMMA AgentStep == ASSUME LaunchAgent!IInv, LaunchAgent!Next PROVE LaunchAgent!IInv'
BY AgentTypes, AgentIdle, AgentRegistering, AgentRemoving, AgentCalm, AgentCleared, AgentStops
   DEF LaunchAgent!IInv

LEMMA AgentRetries == LaunchAgent!IInv => LaunchAgent!RetryRegisters
BY DEF LaunchAgent!IInv, LaunchAgent!TypeOK, LaunchAgent!CallTypeOK, LaunchAgent!Cleared, LaunchAgent!RetryRegisters

AgentInv == sys = "agent" => LaunchAgent!IInv
RegistrationInv == sys = "registration" => Systemd!IInv

\* What the registrations know holds in every state.
LEMMA RegistrationsInductive == ServingSpec => [](AgentInv /\ RegistrationInv)
<1>1. ServingInit => AgentInv /\ RegistrationInv
    BY AgentInit, SystemdInit DEF ServingInit, AgentInv, RegistrationInv
<1>2. ASSUME AgentInv, RegistrationInv, [ServingNext]_<<sys, vars, xs>> PROVE AgentInv' /\ RegistrationInv'
    <2>1. CASE UNCHANGED <<sys, vars, xs>>
        <3>1. AgentInv'
            BY <1>2, <2>1 DEF AgentInv, xs, LaunchAgent!IInv, LaunchAgent!TypeOK,
               LaunchAgent!HostTypeOK, LaunchAgent!CallTypeOK, LaunchAgent!IdleRight,
               LaunchAgent!Registering, LaunchAgent!Removing, LaunchAgent!CalmUndone,
               LaunchAgent!Cleared, LaunchAgent!Clear, LaunchAgent!Unregistering,
               LaunchAgent!RollbackStops, LaunchAgent!Just
        <3>2. RegistrationInv'
            BY <1>2, <2>1 DEF RegistrationInv, xs, Systemd!IInv, Systemd!TypeOK,
               Systemd!WorldTypeOK, Systemd!CallsTypeOK, Systemd!Earlier, Systemd!Knows,
               Systemd!Registers, Systemd!Retires, Systemd!RollsBack, Systemd!Forward,
               Systemd!Halted
        <3> QED BY <3>1, <3>2
    <2>2. CASE ServingNext
        BY <1>2, <2>2, AgentStep, SystemdStep DEF AgentInv, RegistrationInv, ServingNext
    <2> QED BY <1>2, <2>1, <2>2
<1> QED BY <1>1, <1>2, PTL DEF ServingSpec

\* A registration with launchd that was refused can be asked for again, and a rollback of
\* it stops what it started; the registration with systemd keeps its types.
THEOREM RetriesAlwaysWork == ServingSpec => []RetriesWork
<1>1. AgentInv /\ RegistrationInv => RetriesWork
    BY AgentRetries DEF AgentInv, RegistrationInv, RetriesWork, LaunchAgent!IInv, Systemd!IInv
<1> QED BY <1>1, RegistrationsInductive, PTL
=============================================================================
