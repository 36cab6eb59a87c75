-------------------------------- MODULE Agent --------------------------------
(***************************************************************************)
(* The daemon's registration as a LaunchAgent on macOS                     *)
(* (src/daemon/lifecycle/macos.rs behind src/daemon/lifecycle/mod.rs).     *)
(* Registering boots the loaded job out, writes the plist and bootstraps   *)
(* it, and undoes all three when one fails; unregistering boots out and    *)
(* removes the plist.  Each launchctl command and each write may fail, the *)
(* program may be killed between two of them, and meanwhile the user       *)
(* deletes plists, loads and unloads jobs, or logs in again.  The retired  *)
(* product's agent is stopped, restored and removed in the same way.       *)
(***************************************************************************)
EXTENDS Naturals

CONSTANTS MaxCalls,    \* bound on the calls of this module's functions
          MaxFaults,   \* bound on the operations that fail
          MaxChanges   \* bound on what others change

VARIABLES plist,     \* the plist of each label: "none", "old", "new" or "other" (not a file)
          job,       \* what each label's loaded job was loaded from, or "none"
          op, pc,    \* the call in progress, and where it stands
          before,    \* plist and job when the call began
          loaded,    \* what the call's probe said
          stopped,   \* whether the retired agent was loaded when it was stopped
          undone,    \* whether everything undone so far succeeded
          calm,      \* no operation of the call failed
          alone,     \* nobody interfered with the call
          result,    \* how the last call ended
          stuck,     \* calm registrations that failed in a row
          calls, faults, changes

host == <<plist, job>>
local == <<before, loaded, undone>>
bounds == <<calls, faults, changes>>
vars == <<host, op, pc, local, stopped, calm, alone, result, stuck, bounds>>

-----------------------------------------------------------------------------
Label == {"silvervine", "neon"}
Own == "silvervine"
Neon == "neon"
Body == {"old", "new"}
Idle == [op |-> "none", ok |-> TRUE, undone |-> TRUE]

Init ==
    /\ plist \in [Label -> {"none", "old"}]
    /\ job \in [Label -> {"none", "old"}]
    /\ op = "none" /\ pc = "idle"
    /\ before = [plist |-> plist, job |-> job] /\ loaded = FALSE /\ undone = TRUE
    /\ stopped = FALSE /\ calm = TRUE /\ alone = TRUE /\ result = Idle /\ stuck = 0
    /\ calls = 0 /\ faults = 0 /\ changes = 0

-----------------------------------------------------------------------------
(* launchctl and the file system.                                          *)

IsFile(l) == plist[l] \in Body

Fault == /\ faults < MaxFaults /\ faults' = faults + 1
         /\ calm' = FALSE /\ UNCHANGED <<alone, calls, changes>>
NoFault == UNCHANGED <<calm, alone, bounds>>

\* A job that is not loaded cannot be booted out.
Bootout(l) == job[l] # "none" /\ job' = [job EXCEPT ![l] = "none"] /\ NoFault
BootoutFails(l) == UNCHANGED job /\ IF job[l] = "none" THEN NoFault ELSE Fault

\* A loaded job cannot be bootstrapped; a bootstrap that fails may have loaded it.
Bootstrap(l) == /\ job[l] = "none" /\ IsFile(l)
                /\ job' = [job EXCEPT ![l] = plist[l]] /\ NoFault
BootstrapFails(l) ==
    IF job[l] # "none" \/ ~IsFile(l)
    THEN UNCHANGED job /\ NoFault
    ELSE job' \in {job, [job EXCEPT ![l] = plist[l]]} /\ Fault

Write(l, body) == plist[l] # "other" /\ plist' = [plist EXCEPT ![l] = body] /\ NoFault
WriteFails(l) == UNCHANGED plist /\ IF plist[l] = "other" THEN NoFault ELSE Fault

\* A plist that is gone already is no error.
Remove(l) == plist[l] # "other" /\ plist' = [plist EXCEPT ![l] = "none"] /\ NoFault
RemoveFails(l) == WriteFails(l)

-----------------------------------------------------------------------------
Start(o) ==
    /\ pc = "idle" /\ calls < MaxCalls /\ calls' = calls + 1
    /\ op' = o /\ pc' = "begin"
    /\ before' = [plist |-> plist, job |-> job]
    /\ loaded' = FALSE /\ undone' = TRUE /\ calm' = TRUE /\ alone' = TRUE
    /\ UNCHANGED <<host, stopped, result, stuck, faults, changes>>

\* The retired agent's startup migration stops it before it restores or removes it.
Call == \/ \E o \in {"register", "unregister", "rollback", "restart", "stopNeon"} : Start(o)
        \/ result.op = "stopNeon" /\ result.ok /\ \E o \in {"restoreNeon", "removeNeon"} : Start(o)

At(o, p) == op = o /\ pc = p
Goto(p) == pc' = p /\ UNCHANGED <<op, stopped, result, stuck>>

Return(ok) ==
    /\ pc' = "idle" /\ op' = "none"
    /\ result' = [op |-> op, ok |-> ok, undone |-> undone']
    /\ stuck' = IF op # "register" THEN stuck
                ELSE IF ok \/ ~calm' \/ ~alone' THEN 0 ELSE stuck + 1

Ok == UNCHANGED <<local, stopped>> /\ Return(TRUE)
Err == UNCHANGED <<local, stopped>> /\ Return(FALSE)

-----------------------------------------------------------------------------
(* register_transaction.                                                   *)

\* The job is looked for only where there is a plist.
Begun(isLoaded) == plist[Own] # "none" /\ isLoaded

RegisterBegin ==
    /\ At("register", "begin") /\ plist[Own] # "other"
    /\ loaded' = Begun(job[Own] # "none")
    /\ Goto(IF loaded' THEN "bootout" ELSE "write")
    /\ UNCHANGED <<host, before, undone>> /\ NoFault

\* The plist cannot be read, or the probe's answer is neither yes nor no.
RegisterBeginFails ==
    /\ At("register", "begin")
    /\ IF plist[Own] = "other" THEN NoFault ELSE Fault
    /\ Err /\ UNCHANGED host

\* The job that was loaded is stopped; when that fails nothing has changed.
RegisterBootout ==
    /\ At("register", "bootout")
    /\ \/ Bootout(Own) /\ Goto("write") /\ UNCHANGED local
       \/ BootoutFails(Own) /\ Err
    /\ UNCHANGED plist

RegisterWrite ==
    /\ At("register", "write")
    /\ \/ Write(Own, "new") /\ Goto("bootstrap")
       \/ WriteFails(Own) /\ Goto("probe")
    /\ UNCHANGED <<job, local>>

RegisterBootstrap ==
    /\ At("register", "bootstrap")
    /\ \/ Bootstrap(Own) /\ Ok
       \/ BootstrapFails(Own) /\ Goto("probe") /\ UNCHANGED local
    /\ UNCHANGED plist

Failed(failing) == undone' = (undone /\ ~failing) /\ UNCHANGED <<before, loaded>>

\* Mutant: a failed bootstrap is taken to have loaded nothing.
AttemptedIgnored == Goto("restore") /\ Failed(FALSE) /\ UNCHANGED job /\ NoFault

\* What the attempt loaded is booted out, if the probe finds it.
Attempted ==
    IF job[Own] = "none" THEN Goto("restore") /\ Failed(FALSE) /\ UNCHANGED job /\ NoFault
    ELSE \/ Bootout(Own) /\ Goto("restore") /\ Failed(FALSE)
         \/ BootoutFails(Own) /\ Goto("restore") /\ Failed(TRUE)

RegisterProbe ==
    /\ At("register", "probe")
    /\ \/ Attempted
       \/ Fault /\ Goto("restore") /\ Failed(TRUE) /\ UNCHANGED job
    /\ UNCHANGED plist

RestorePlist ==
    IF before.plist[Own] = "none" THEN Remove(Own) ELSE Write(Own, before.plist[Own])

RegisterRestore ==
    /\ At("register", "restore")
    /\ \/ RestorePlist /\ Failed(FALSE)
       \/ WriteFails(Own) /\ Failed(TRUE)
    /\ Goto("reload")
    /\ UNCHANGED job

Reload ==
    IF ~loaded THEN Failed(FALSE) /\ UNCHANGED <<job, stopped>> /\ NoFault /\ Return(FALSE)
    ELSE \/ Bootstrap(Own) /\ Failed(FALSE) /\ Return(FALSE) /\ UNCHANGED stopped
         \/ BootstrapFails(Own) /\ Failed(TRUE) /\ Return(FALSE) /\ UNCHANGED stopped

RegisterReload == At("register", "reload") /\ Reload /\ UNCHANGED plist

Register == \/ RegisterBegin \/ RegisterBeginFails \/ RegisterBootout \/ RegisterWrite
            \/ RegisterBootstrap \/ RegisterProbe \/ RegisterRestore \/ RegisterReload

-----------------------------------------------------------------------------
(* unregister_transaction, which the migration's rollback calls directly.  *)

Unregistering == op \in {"unregister", "rollback"}

\* Without a plist there is nothing to unregister; only the rollback looks for a job
\* that a failed rollback left behind.
UnregisterAbsent ==
    /\ At("unregister", "begin") /\ plist[Own] = "none"
    /\ NoFault /\ UNCHANGED host /\ Ok

Orphan == IF job[Own] = "none" THEN NoFault /\ UNCHANGED job /\ Ok
          ELSE \/ Bootout(Own) /\ Ok
               \/ BootoutFails(Own) /\ Err

RollbackAbsent == At("rollback", "begin") /\ plist[Own] = "none" /\ Orphan /\ UNCHANGED plist

UnregisterFails ==
    /\ Unregistering /\ pc = "begin"
    /\ IF plist[Own] = "other" THEN NoFault ELSE Fault
    /\ Err /\ UNCHANGED host

UnregisterProbe ==
    /\ Unregistering /\ pc = "begin" /\ IsFile(Own)
    /\ loaded' = (job[Own] # "none")
    /\ Goto(IF loaded' THEN "bootout" ELSE "remove")
    /\ UNCHANGED <<host, before, undone>> /\ NoFault

UnregisterBootout ==
    /\ Unregistering /\ pc = "bootout"
    /\ \/ Bootout(Own) /\ Goto("remove") /\ UNCHANGED local
       \/ BootoutFails(Own) /\ Err
    /\ UNCHANGED plist

\* A plist that cannot be removed brings the job back.
UnregisterRemove ==
    /\ Unregistering /\ pc = "remove"
    /\ \/ Remove(Own) /\ Ok
       \/ WriteFails(Own) /\ Goto("reload") /\ UNCHANGED local
    /\ UNCHANGED job

UnregisterReload == Unregistering /\ pc = "reload" /\ Reload /\ UNCHANGED plist

Unregister == \/ UnregisterAbsent \/ RollbackAbsent \/ UnregisterFails \/ UnregisterProbe
              \/ UnregisterBootout \/ UnregisterRemove \/ UnregisterReload

-----------------------------------------------------------------------------
\* The running job is started again from what it was loaded from.
Restart ==
    /\ At("restart", "begin")
    /\ \/ job[Own] # "none" /\ NoFault /\ Ok
       \/ (IF job[Own] = "none" THEN NoFault ELSE Fault) /\ Err
    /\ UNCHANGED host

(* The retired agent.                                                      *)

StopNeon ==
    /\ At("stopNeon", "begin")
    /\ \/ /\ plist[Neon] = "none" \/ (IsFile(Neon) /\ job[Neon] = "none")
          /\ stopped' = FALSE /\ NoFault /\ UNCHANGED <<job, local>> /\ Return(TRUE)
       \/ IsFile(Neon) /\ Bootout(Neon) /\ stopped' = TRUE /\ UNCHANGED local /\ Return(TRUE)
       \/ IsFile(Neon) /\ job[Neon] # "none" /\ BootoutFails(Neon) /\ Err
       \/ plist[Neon] = "other" /\ NoFault /\ UNCHANGED job /\ Err
    /\ UNCHANGED plist

RestoreNeon ==
    /\ At("restoreNeon", "begin")
    /\ \/ ~stopped /\ NoFault /\ UNCHANGED job /\ Ok
       \/ stopped /\ IsFile(Neon) /\ Bootstrap(Neon) /\ Ok
       \/ stopped /\ BootstrapFails(Neon) /\ Err
    /\ UNCHANGED plist

RemoveNeon ==
    /\ At("removeNeon", "begin")
    /\ \/ Remove(Neon) /\ Ok
       \/ WriteFails(Neon) /\ Err
    /\ UNCHANGED job

-----------------------------------------------------------------------------
(* The others.                                                             *)

Killed ==
    /\ pc # "idle"
    /\ pc' = "idle" /\ op' = "none" /\ result' = Idle
    /\ stuck' = IF op = "register" THEN 0 ELSE stuck
    /\ UNCHANGED <<host, local, stopped, calm, alone, bounds>>

Interfere ==
    /\ changes < MaxChanges /\ changes' = changes + 1
    /\ alone' = FALSE /\ result' = Idle /\ stuck' = 0
    /\ UNCHANGED <<op, pc, local, stopped, calm, calls, faults>>

\* A login loads every plist, and nothing but those.
Login ==
    /\ pc = "idle"
    /\ job' = [l \in Label |-> IF IsFile(l) THEN plist[l] ELSE "none"]
    /\ Interfere /\ UNCHANGED plist

UserPlist == \E l \in Label, b \in {"none", "old", "other"} :
    plist[l] # b /\ plist' = [plist EXCEPT ![l] = b] /\ Interfere /\ UNCHANGED job

UserJob == \E l \in Label :
    /\ job' = [job EXCEPT ![l] = IF @ = "none" /\ IsFile(l) THEN plist[l] ELSE "none"]
    /\ job' # job
    /\ Interfere /\ UNCHANGED plist

Next == Call \/ Register \/ Unregister \/ Restart \/ StopNeon \/ RestoreNeon \/ RemoveNeon
        \/ Killed \/ Login \/ UserPlist \/ UserJob

Spec == Init /\ [][Next]_vars

-----------------------------------------------------------------------------
(* Properties.                                                             *)

Ops == {"none", "register", "unregister", "rollback", "restart", "stopNeon", "restoreNeon", "removeNeon"}

HostTypeOK ==
    /\ plist \in [Label -> Body \cup {"none", "other"}]
    /\ job \in [Label -> Body \cup {"none"}]
    /\ before \in [plist : [Label -> Body \cup {"none", "other"}], job : [Label -> Body \cup {"none"}]]

CallTypeOK ==
    /\ op \in Ops
    /\ pc \in {"idle", "begin", "bootout", "write", "bootstrap", "probe", "restore", "reload", "remove"}
    /\ loaded \in BOOLEAN /\ stopped \in BOOLEAN /\ undone \in BOOLEAN /\ calm \in BOOLEAN /\ alone \in BOOLEAN
    /\ result \in [op : Ops, ok : BOOLEAN, undone : BOOLEAN]
    /\ stuck \in Nat

\* The variables' types.
TypeOK == HostTypeOK /\ CallTypeOK

Just(o, ok) == pc = "idle" /\ result.op = o /\ result.ok = ok

\* A registration that returned is what it says: the job runs from the plist that was
\* written; and one that failed with every step undone left the plist it found, and its
\* job loaded if it was (register_transaction).
RegisterWhole ==
    (op = "register" /\ op' = "none" /\ result'.op = "register" /\ alone') =>
        /\ result'.ok => plist'[Own] = "new" /\ job'[Own] = "new"
        /\ (~result'.ok /\ result'.undone /\ before.plist[Own] \in Body)
              => /\ plist'[Own] = before.plist[Own]
                 /\ job'[Own] = "none" <=> before.job[Own] = "none"

\* Where nothing fails and nobody interferes, a registration fails at most once in a
\* row: what an earlier call left behind, such as a loaded job without a plist, is
\* cleared by the attempt that it makes fail (the rollback's probe and bootout).
RetryRegisters == plist[Own] # "other" => stuck <= 1

\* Data are moved back only beside a stopped daemon: the rollback's unregistration
\* leaves neither plist nor job (unregister_for_rollback).
RollbackStops == (alone /\ Just("rollback", TRUE)) => plist[Own] = "none" /\ job[Own] = "none"

-----------------------------------------------------------------------------
(* The inductive invariant.                                                 *)

IdleRight == pc = "idle" <=> op = "none"

\* What a registration knows of the plist and the job, if nobody interferes.
Registering ==
    alone /\ op = "register" =>
        /\ pc = "begin" => plist = before.plist /\ job = before.job
        /\ pc # "begin" =>
              /\ plist[Own] # "other" /\ before.plist[Own] # "other"
              /\ loaded <=> before.plist[Own] # "none" /\ before.job[Own] # "none"
        /\ pc \in {"bootout", "write"} => plist[Own] = before.plist[Own]
        /\ pc = "bootout" => loaded /\ job[Own] = before.job[Own]
        /\ pc \in {"write", "bootstrap"} => job[Own] = IF loaded THEN "none" ELSE before.job[Own]
        /\ pc = "bootstrap" => plist[Own] = "new"
        /\ pc \in {"restore", "reload"} /\ undone => job[Own] = "none"
        /\ pc = "reload" /\ undone => plist[Own] = before.plist[Own]

\* The plist is removed only once the job is stopped.
Removing == alone /\ Unregistering /\ pc = "remove" => job[Own] = "none"

\* A step that is not undone has failed.
CalmUndone == alone /\ op = "register" /\ calm => undone

\* After a registration that failed although nothing had, no job is without its
\* plist, and the next one finds no obstacle.
Clear == plist[Own] # "none" \/ job[Own] = "none"
Cleared ==
    plist[Own] # "other" /\ stuck # 0 =>
        /\ stuck = 1 /\ (op # "none" => alone) /\ (op # "register" => Clear)
        /\ op = "register" /\ calm =>
              /\ pc \in {"begin", "bootout", "write", "bootstrap"}
              /\ pc = "begin" => Clear
              /\ pc \in {"write", "bootstrap"} => job[Own] = "none"

IInv == TypeOK /\ IdleRight /\ Registering /\ Removing /\ CalmUndone /\ Cleared /\ RollbackStops
=============================================================================
