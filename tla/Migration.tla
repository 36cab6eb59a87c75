------------------------------ MODULE Migration ------------------------------
(***************************************************************************)
(* The first-launch transaction that takes over a Neon V2 installation     *)
(* (src/src/migration/mod.rs:131-466): Neon's daemon is stopped, its data  *)
(* directories are moved, Silvervine's daemon is registered and started,   *)
(* and Neon's registration is retired; any failure is undone.  With the    *)
(* registration transactions it is built from, on Linux                    *)
(* (src/src/daemon/lifecycle/linux.rs:137-390).                            *)
(*                                                                         *)
(* Every invocation runs it under a lock, the daemon that it registers     *)
(* included: that one waits for the lock of the run that started it.       *)
(***************************************************************************)
EXTENDS Integers, FiniteSets

CONSTANTS
    Dirs,           \* number of data directories, moved in order
    None,           \* no directory, nobody
    MaxFailures,    \* bound on operations and commands that fail
    MaxKills,       \* bound on runs that are killed
    MaxExternal     \* bound on changes by others

ASSUME ConstantsAssumption ==
    /\ Dirs \in Nat
    /\ None \notin {"neon", "other", "cli", "service", "silvervine"}
    /\ MaxFailures \in Nat /\ MaxKills \in Nat /\ MaxExternal \in Nat

Dir == 1 .. Dirs
Service == {"neon", "silvervine"}

VARIABLES
    legacy,         \* what is under Neon's name, and ...
    current,        \* ... under Silvervine's
    unit,           \* the services with a unit file,
    enabled,        \* those started at login,
    active,         \* and those started by systemd
    serving,        \* Silvervine's daemon is past its own migration
    stray,          \* a Neon daemon that systemd knows nothing of
    pc,             \* where the run that has the lock stands
    runner,         \* and who it is
    had,            \* Neon was registered
    was,            \* and running
    next,           \* the directory to move next
    moved,          \* those this run has moved
    retiring,       \* the service being retired,
    prior,          \* and its state before
    failures, kills, externals,
    \* History, read by the properties only:
    before,         \* what the last run found
    result,         \* how it ended, if it was not killed
    reported,       \* a failure of the way back is part of its error
    touched         \* directories that somebody else created or moved

data == <<legacy, current>>
services == <<unit, enabled, active, serving>>
local == <<had, was, next, moved, retiring, prior>>
bounds == <<failures, kills, externals>>
history == <<before, result, reported, touched>>
vars == <<data, services, stray, pc, runner, local, bounds, history>>

Content == {None, "neon", "other"}
ServiceState == [enabled : BOOLEAN, active : BOOLEAN]
Snapshot == [legacy : [Dir -> Content], current : [Dir -> Content],
             unit : [Service -> BOOLEAN], enabled : [Service -> BOOLEAN],
             active : [Service -> BOOLEAN]]
Steps == {"idle", "check", "stop", "socket", "inspect", "promote", "write", "enable",
          "undoEnable", "unwrite", "retire", "disable", "remove", "rewrite",
          "reenable", "restart", "undo"}
Stopped == [enabled |-> FALSE, active |-> FALSE]

TypeOK ==
    /\ legacy \in [Dir -> Content] /\ current \in [Dir -> Content]
    /\ unit \in [Service -> BOOLEAN]
    /\ enabled \in [Service -> BOOLEAN]
    /\ active \in [Service -> BOOLEAN]
    /\ serving \in BOOLEAN /\ stray \in BOOLEAN
    /\ pc \in Steps
    /\ runner \in {None, "cli", "service"}
    /\ had \in BOOLEAN /\ was \in BOOLEAN
    /\ next \in 1 .. (Dirs + 1)
    /\ moved \subseteq Dir
    /\ retiring \in Service \cup {None}
    /\ prior \in ServiceState
    /\ failures \in 0 .. MaxFailures /\ kills \in 0 .. MaxKills
    /\ externals \in 0 .. MaxExternal
    /\ before \in Snapshot
    /\ result \in {"none", "ok", "error"} /\ reported \in BOOLEAN
    /\ touched \subseteq Dir

Found == [legacy |-> legacy, current |-> current, unit |-> unit,
          enabled |-> enabled, active |-> active]

\* Neon may be registered or not, enabled or not, running or not, or have been
\* started by hand; either directory of a pair may be there.
Init ==
    /\ legacy \in [Dir -> {None, "neon"}]
    /\ current \in [Dir -> {None, "other"}]
    /\ \E u, e, a \in BOOLEAN :
         /\ e \/ a => u
         /\ unit = [s \in Service |-> s = "neon" /\ u]
         /\ enabled = [s \in Service |-> s = "neon" /\ e]
         /\ active = [s \in Service |-> s = "neon" /\ a]
    /\ serving = FALSE
    /\ stray \in BOOLEAN
    /\ pc = "idle" /\ runner = None
    /\ had = FALSE /\ was = FALSE /\ next = 1 /\ moved = {}
    /\ retiring = None /\ prior = Stopped
    /\ failures = 0 /\ kills = 0 /\ externals = 0
    /\ before = Found /\ result = "none" /\ reported = FALSE /\ touched = {}

(***************************************************************************)
(* Helpers.                                                                *)
(***************************************************************************)

At(step) == pc = step
Goto(step) == pc' = step
Fails == failures < MaxFailures /\ failures' = failures + 1

\* The lock is released and the run forgets what it knew.
Leave ==
    /\ pc' = "idle" /\ runner' = None
    /\ had' = FALSE /\ was' = FALSE /\ next' = 1 /\ moved' = {}
    /\ retiring' = None /\ prior' = Stopped

Return(outcome) == Leave /\ result' = outcome

\* systemctl: `enable --now`, `disable --now`, and its first half alone.
Switch(s, on) ==
    /\ enabled' = [enabled EXCEPT ![s] = on]
    /\ active' = [active EXCEPT ![s] = on]
    /\ serving' = (serving /\ s # "silvervine")
HalfDisabled(s) ==
    /\ enabled' \in {enabled, [enabled EXCEPT ![s] = FALSE]}
    /\ UNCHANGED <<active, serving>>

(***************************************************************************)
(* Preflight, and Neon's daemon.                                           *)
(***************************************************************************)

\* Any invocation, and the registered daemon each time systemd starts it.
Begin(r) ==
    /\ At("idle")
    /\ r = "service" => unit["silvervine"] /\ active["silvervine"] /\ ~serving
    /\ runner' = r
    /\ before' = Found /\ result' = "none" /\ reported' = FALSE
    /\ Goto("check")
    /\ UNCHANGED <<data, services, stray, local, bounds, touched>>

\* Two registrations are refused.
Refuse ==
    /\ At("check")
    /\ unit["neon"] /\ unit["silvervine"]
    /\ Return("error")
    /\ UNCHANGED <<data, services, stray, bounds, before, reported, touched>>

CheckFails ==
    /\ At("check")
    /\ Fails
    /\ Return("error")
    /\ UNCHANGED <<data, services, stray, kills, externals, before, reported, touched>>

Check ==
    /\ At("check")
    /\ ~(unit["neon"] /\ unit["silvervine"])
    /\ had' = unit["neon"]
    /\ Goto(IF unit["neon"] THEN "stop" ELSE "socket")
    /\ UNCHANGED <<data, services, stray, runner, was, next, moved, retiring, prior,
                   bounds, history>>

StopNeon ==
    /\ At("stop")
    /\ was' = active["neon"]
    /\ active' = [active EXCEPT !["neon"] = FALSE]
    /\ Goto("socket")
    /\ UNCHANGED <<data, unit, enabled, serving, stray, runner, had, next, moved,
                   retiring, prior, bounds, history>>

StopNeonFails ==
    /\ At("stop")
    /\ Fails
    /\ Return("error")
    /\ UNCHANGED <<data, services, stray, kills, externals, before, reported, touched>>

\* Mutant: the socket is not tried.
SocketUntried ==
    /\ At("socket")
    /\ Goto("inspect")
    /\ UNCHANGED <<data, services, stray, runner, local, bounds, history>>

\* A Neon daemon that still answers keeps its data.
Socket ==
    /\ At("socket")
    /\ Goto(IF stray THEN "undo" ELSE "inspect")
    /\ UNCHANGED <<data, services, stray, runner, local, bounds, history>>

(***************************************************************************)
(* The moves.                                                              *)
(***************************************************************************)

Advance == next' = next + 1 /\ pc' = "inspect"

\* A missing source, and a pair of which both exist, are passed over.
Inspect ==
    /\ At("inspect")
    /\ next \in Dir
    /\ IF legacy[next] = None \/ current[next] # None THEN Advance
       ELSE Goto("promote") /\ UNCHANGED next
    /\ UNCHANGED <<data, services, stray, runner, had, was, moved, retiring, prior,
                   bounds, history>>

\* Mutant: a rename that replaces its destination.
PromoteReplacing ==
    /\ At("promote")
    /\ legacy[next] # None
    /\ current' = [current EXCEPT ![next] = legacy[next]]
    /\ legacy' = [legacy EXCEPT ![next] = None]
    /\ moved' = moved \cup {next}
    /\ Advance
    /\ UNCHANGED <<services, stray, runner, had, was, retiring, prior, bounds, history>>

Promote ==
    /\ At("promote")
    /\ legacy[next] # None /\ current[next] = None
    /\ current' = [current EXCEPT ![next] = legacy[next]]
    /\ legacy' = [legacy EXCEPT ![next] = None]
    /\ moved' = moved \cup {next}
    /\ Advance
    /\ UNCHANGED <<services, stray, runner, had, was, retiring, prior, bounds, history>>

\* The destination has come into being since, or somebody else moved the source,
\* which counts as moved.
PromoteLate ==
    /\ At("promote")
    /\ current[next] # None
    /\ moved' = IF legacy[next] = None THEN moved \cup {next} ELSE moved
    /\ Advance
    /\ UNCHANGED <<data, services, stray, runner, had, was, retiring, prior, bounds, history>>

PromoteFails ==
    /\ At("promote")
    /\ Fails
    /\ Goto("undo")
    /\ UNCHANGED <<data, services, stray, runner, local, kills, externals, history>>

DataMoved ==
    /\ At("inspect")
    /\ next = Dirs + 1
    /\ IF had THEN Goto("write") /\ UNCHANGED <<runner, local, result>> ELSE Return("ok")
    /\ serving' = (serving \/ (~had /\ runner = "service"))
    /\ UNCHANGED <<data, unit, enabled, active, stray, bounds, before, reported, touched>>

(***************************************************************************)
(* Registering Silvervine's daemon (register_transaction; there is no      *)
(* previous unit, or the run would have been refused).                     *)
(***************************************************************************)

WriteUnit ==
    /\ At("write")
    /\ unit' = [unit EXCEPT !["silvervine"] = TRUE]
    /\ Goto("enable")
    /\ UNCHANGED <<data, enabled, active, serving, stray, runner, local, bounds, history>>

\* Writing the file, or reloading it.
WriteUnitFails ==
    /\ At("write")
    /\ Fails
    /\ unit' \in {unit, [unit EXCEPT !["silvervine"] = TRUE]}
    /\ Goto("unwrite")
    /\ UNCHANGED <<data, enabled, active, serving, stray, runner, local,
                   kills, externals, history>>

EnableNow ==
    /\ At("enable")
    /\ Switch("silvervine", TRUE)
    /\ Goto("retire") /\ retiring' = "neon"
    /\ UNCHANGED <<data, unit, stray, runner, had, was, next, moved, prior, bounds, history>>

EnableNowFails ==
    /\ At("enable")
    /\ Fails
    /\ enabled' \in {enabled, [enabled EXCEPT !["silvervine"] = TRUE]}
    /\ Goto("undoEnable")
    /\ UNCHANGED <<data, unit, active, serving, stray, runner, local,
                   kills, externals, history>>

UndoEnable ==
    /\ At("undoEnable")
    /\ Switch("silvervine", FALSE)
    /\ Goto("unwrite")
    /\ UNCHANGED <<data, unit, stray, runner, local, bounds, history>>

UndoEnableFails ==
    /\ At("undoEnable")
    /\ Fails
    /\ reported' = TRUE
    /\ HalfDisabled("silvervine")
    /\ Goto("unwrite")
    /\ UNCHANGED <<data, unit, stray, runner, local, kills, externals, before, result, touched>>

\* Whatever became of that, Silvervine is unregistered again before anything is
\* moved back.
RemoveUnit ==
    /\ At("unwrite")
    /\ unit' = [unit EXCEPT !["silvervine"] = FALSE]
    /\ Goto("retire") /\ retiring' = "silvervine"
    /\ UNCHANGED <<data, enabled, active, serving, stray, runner, had, was, next, moved,
                   prior, bounds, history>>

RemoveUnitFails ==
    /\ At("unwrite")
    /\ Fails
    /\ reported' = TRUE
    /\ unit' \in {unit, [unit EXCEPT !["silvervine"] = FALSE]}
    /\ Goto("retire") /\ retiring' = "silvervine"
    /\ UNCHANGED <<data, enabled, active, serving, stray, runner, had, was, next, moved,
                   prior, kills, externals, before, result, touched>>

(***************************************************************************)
(* Retiring a registration (retire_unit_transaction): Neon's at the end,   *)
(* Silvervine's on the way back.                                           *)
(***************************************************************************)

Retired ==
    IF retiring = "neon" THEN Return("ok")
    ELSE Goto("undo") /\ UNCHANGED <<runner, local, result>>

\* Mutant: the data go back while Silvervine is registered.
NotRetiredUnbarred ==
    /\ Goto("undo")
    /\ UNCHANGED <<runner, local, result, reported>>

\* Neon not retired: Silvervine has to be.  Silvervine not retired: the run gives
\* up and leaves the data where they are.
NotRetired ==
    IF retiring = "neon"
    THEN /\ Goto("retire") /\ retiring' = "silvervine"
         /\ UNCHANGED <<runner, had, was, next, moved, prior, result, reported>>
    ELSE Return("error") /\ reported' = TRUE

RetireProbe ==
    /\ At("retire")
    /\ unit[retiring]
    /\ prior' = [enabled |-> enabled[retiring], active |-> active[retiring]]
    /\ Goto("disable")
    /\ UNCHANGED <<data, services, stray, runner, had, was, next, moved, retiring,
                   bounds, history>>

\* Without a unit file only a job that is left is ended.
RetireAbsent ==
    /\ At("retire")
    /\ ~unit[retiring]
    /\ Switch(retiring, FALSE)
    /\ Retired
    /\ UNCHANGED <<data, unit, stray, bounds, before, reported, touched>>

RetireFails ==
    /\ At("retire")
    /\ Fails
    /\ NotRetired
    /\ UNCHANGED <<data, services, stray, kills, externals, before, touched>>

Disable ==
    /\ At("disable")
    /\ Switch(retiring, FALSE)
    /\ Goto("remove")
    /\ UNCHANGED <<data, unit, stray, runner, local, bounds, history>>

DisableFails ==
    /\ At("disable")
    /\ Fails
    /\ HalfDisabled(retiring)
    /\ Goto("rewrite")
    /\ UNCHANGED <<data, unit, stray, runner, local, kills, externals, history>>

Remove ==
    /\ At("remove")
    /\ unit' = [unit EXCEPT ![retiring] = FALSE]
    /\ Retired
    /\ UNCHANGED <<data, enabled, active, serving, stray, bounds, before, reported, touched>>

\* Removing the file, or reloading.
RemoveFails ==
    /\ At("remove")
    /\ Fails
    /\ unit' \in {unit, [unit EXCEPT ![retiring] = FALSE]}
    /\ Goto("rewrite")
    /\ UNCHANGED <<data, enabled, active, serving, stray, runner, local,
                   kills, externals, history>>

Rewrite ==
    /\ At("rewrite")
    /\ unit' = [unit EXCEPT ![retiring] = TRUE]
    /\ Goto("reenable")
    /\ UNCHANGED <<data, enabled, active, serving, stray, runner, local, bounds, history>>

RewriteFails ==
    /\ At("rewrite")
    /\ Fails
    /\ reported' = TRUE
    /\ unit' \in {unit, [unit EXCEPT ![retiring] = TRUE]}
    /\ Goto("reenable")
    /\ UNCHANGED <<data, enabled, active, serving, stray, runner, local,
                   kills, externals, before, result, touched>>

Reenable ==
    /\ At("reenable")
    /\ unit[retiring]
    /\ enabled' = [enabled EXCEPT ![retiring] = prior.enabled]
    /\ Goto("restart")
    /\ UNCHANGED <<data, unit, active, serving, stray, runner, local, bounds, history>>

\* systemctl knows no service without a unit file.
ReenableFails ==
    /\ At("reenable")
    /\ IF unit[retiring] THEN Fails ELSE UNCHANGED failures
    /\ reported' = TRUE
    /\ Goto("restart")
    /\ UNCHANGED <<data, services, stray, runner, local, kills, externals,
                   before, result, touched>>

Restart ==
    /\ At("restart")
    /\ unit[retiring]
    /\ active' = [active EXCEPT ![retiring] = prior.active]
    /\ NotRetired
    /\ UNCHANGED <<data, unit, enabled, serving, stray, bounds, before, touched>>

RestartFails ==
    /\ At("restart")
    /\ IF unit[retiring] THEN Fails ELSE UNCHANGED failures
    /\ reported' = TRUE
    /\ IF retiring = "neon"
       THEN /\ Goto("retire") /\ retiring' = "silvervine"
            /\ UNCHANGED <<runner, had, was, next, moved, prior, result>>
       ELSE Return("error")
    /\ UNCHANGED <<data, services, stray, kills, externals, before, touched>>

(***************************************************************************)
(* The way back (rollback_data_and_restore_legacy).                        *)
(***************************************************************************)

Last(d) == d \in moved /\ \A e \in moved : e <= d

UndoMove ==
    /\ At("undo")
    /\ \E d \in Dir :
         /\ Last(d)
         /\ legacy[d] = None /\ current[d] # None
         /\ legacy' = [legacy EXCEPT ![d] = current[d]]
         /\ current' = [current EXCEPT ![d] = None]
         /\ moved' = moved \ {d}
    /\ UNCHANGED <<services, stray, pc, runner, had, was, next, retiring, prior,
                   bounds, history>>

\* Mutant: Neon is started all the same.
UndoMoveFailsStarting ==
    /\ At("undo")
    /\ moved # {}
    /\ Fails
    /\ active' = [active EXCEPT !["neon"] = was]
    /\ reported' = TRUE
    /\ Return("error")
    /\ UNCHANGED <<data, unit, enabled, serving, stray, kills, externals, before, touched>>

\* Somebody has put something else under Neon's name, or the rename fails.
UndoMoveFails ==
    /\ At("undo")
    /\ \E d \in Dir :
         /\ Last(d)
         /\ IF legacy[d] = None /\ current[d] # None THEN Fails ELSE UNCHANGED failures
    /\ reported' = TRUE
    /\ Return("error")
    /\ UNCHANGED <<data, services, stray, kills, externals, before, touched>>

\* Neon is started again if it ran.
Restore ==
    /\ At("undo")
    /\ moved = {}
    /\ had /\ was => unit["neon"]
    /\ active' = IF had /\ was THEN [active EXCEPT !["neon"] = TRUE] ELSE active
    /\ Return("error")
    /\ UNCHANGED <<data, unit, enabled, serving, stray, bounds, before, reported, touched>>

RestoreFails ==
    /\ At("undo")
    /\ moved = {}
    /\ had /\ was
    /\ IF unit["neon"] THEN Fails ELSE UNCHANGED failures
    /\ reported' = TRUE
    /\ Return("error")
    /\ UNCHANGED <<data, services, stray, kills, externals, before, touched>>

(***************************************************************************)
(* Everybody else.                                                         *)
(***************************************************************************)

Kill ==
    /\ ~At("idle")
    /\ kills < MaxKills /\ kills' = kills + 1
    /\ Leave
    /\ UNCHANGED <<data, services, stray, failures, externals, history>>

\* A directory is created under either name, or moved by hand.
External(d) ==
    /\ externals < MaxExternal /\ externals' = externals + 1
    /\ touched' = touched \cup {d}
    /\ \/ current[d] = None /\ current' = [current EXCEPT ![d] = "other"] /\ UNCHANGED legacy
       \/ legacy[d] = None /\ legacy' = [legacy EXCEPT ![d] = "other"] /\ UNCHANGED current
       \/ /\ legacy[d] # None /\ current[d] = None
          /\ current' = [current EXCEPT ![d] = legacy[d]]
          /\ legacy' = [legacy EXCEPT ![d] = None]
    /\ UNCHANGED <<services, stray, pc, runner, local, failures, kills, before, result, reported>>

StrayQuits ==
    /\ stray
    /\ stray' = FALSE
    /\ UNCHANGED <<data, services, pc, runner, local, bounds, history>>

\* Silvervine's daemon ends and is started again by systemd.
ServiceRestarts ==
    /\ serving
    /\ serving' = FALSE
    /\ UNCHANGED <<data, unit, enabled, active, stray, pc, runner, local, bounds, history>>

Run ==
    \/ Refuse \/ CheckFails \/ Check \/ StopNeon \/ StopNeonFails \/ Socket
    \/ Inspect \/ Promote \/ PromoteLate \/ PromoteFails \/ DataMoved
    \/ WriteUnit \/ WriteUnitFails \/ EnableNow \/ EnableNowFails
    \/ UndoEnable \/ UndoEnableFails \/ RemoveUnit \/ RemoveUnitFails
    \/ RetireProbe \/ RetireAbsent \/ RetireFails \/ Disable \/ DisableFails
    \/ Remove \/ RemoveFails \/ Rewrite \/ RewriteFails \/ Reenable \/ ReenableFails
    \/ Restart \/ RestartFails
    \/ UndoMove \/ UndoMoveFails \/ Restore \/ RestoreFails

Next ==
    \/ Run
    \/ Begin("cli") \/ Begin("service")
    \/ Kill \/ StrayQuits \/ ServiceRestarts
    \/ \E d \in Dir : External(d)

Spec == Init /\ [][Next]_vars

\* A run is scheduled and its commands return.
FairSpec == Spec /\ WF_vars(Run)

\* And systemd restarts the daemon, and the user goes on running commands.
InsistingSpec == FairSpec /\ WF_vars(Begin("service")) /\ SF_vars(Begin("cli"))

(***************************************************************************)
(* Properties.                                                             *)
(***************************************************************************)

\* Neon's daemon is never started without its data (migration/mod.rs:270-276,
\* 289-316: moved back first, in whatever way the run fails or is killed).
NeonHasItsData ==
    active["neon"] => \A d \in Dir \ touched : current[d] # "neon"

\* Two daemons never work at the same time (migration/mod.rs:364-377, 216-221).
OneDaemon == serving => ~active["neon"] /\ ~stray

\* An error that reports no failure of the way back leaves "the prior data and
\* running state" (CHANGELOG.md:336-339), and the registrations.  A job that was
\* left without a unit file may be gone.
ErrorRestores ==
    result = "error" /\ ~reported =>
        /\ \A d \in Dir \ touched :
             legacy[d] = before.legacy[d] /\ current[d] = before.current[d]
        /\ unit = before.unit
        /\ \A s \in Service : unit[s] =>
             enabled[s] = before.enabled[s] /\ active[s] = before.active[s]

\* A run that returns without an error has moved all there was to move, and if
\* Neon was registered, Silvervine is in its place (migration/mod.rs:214-291).
SuccessMigrates ==
    result = "ok" =>
        /\ \A d \in Dir \ touched :
             IF before.legacy[d] # None /\ before.current[d] = None
             THEN legacy[d] = None /\ current[d] = before.legacy[d]
             ELSE legacy[d] = before.legacy[d] /\ current[d] = before.current[d]
        /\ ~unit["neon"] /\ ~active["neon"]
        /\ before.unit["neon"] =>
             unit["silvervine"] /\ enabled["silvervine"] /\ active["silvervine"]

\* What a run reports of itself is so.
OutcomeTrue == ErrorRestores /\ SuccessMigrates

\* "Conflicts and errors never overwrite either path" (migration/mod.rs:107):
\* what is under a name leaves it only for the other name of the pair.
NeverOverwrites ==
    [][\A d \in Dir :
         /\ current[d] # None /\ current'[d] # current[d] =>
              current'[d] = None /\ legacy'[d] = current[d]
         /\ legacy[d] # None /\ legacy'[d] # legacy[d] =>
              legacy'[d] = None /\ current'[d] = legacy[d]]_vars

\* "... starts Silvervine, and only then retires the retained Neon registration"
\* (MIGRATION.md:37): two registrations do not last.
OneRegistrationRemains ==
    (unit["neon"] /\ unit["silvervine"]) ~> ~(unit["neon"] /\ unit["silvervine"])
=============================================================================
