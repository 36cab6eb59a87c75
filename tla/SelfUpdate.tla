----------------------------- MODULE SelfUpdate -----------------------------
(***************************************************************************)
(* Replacing the program itself (src/cli/update_self.rs and                *)
(* update_self/windows.rs): the updater that cargo-dist installs beside    *)
(* the program puts a new executable and a new receipt in place.  Windows  *)
(* does not let it write over a running executable, so there the old one   *)
(* is first moved aside and, unless the new one was installed, moved back, *)
(* with the receipt as it was.  A user may update by hand, without a lock, *)
(* while the daemon updates by itself under the patch lock and has itself  *)
(* restarted.  File operations fail; processes are killed.                 *)
(***************************************************************************)
EXTENDS Naturals

CONSTANTS MaxVersion,   \* bound on the releases; 0 is no executable
          MaxRuns,      \* bound on the updates
          MaxFaults     \* bound on failed operations and kills

VARIABLES windows,     \* whether the host is Windows
          exe,         \* the version of the executable at its place, 0 if there is none
          receipt,     \* the version the receipt says is installed
          latest,      \* the release the updater would install
          kept,        \* versions left in the directories of ended transactions
          daemon,      \* the version that runs as the daemon, 0 if none does
          holder,      \* who has the patch lock: "auto", "patch" or Nobody
          pc, backup, before, result,   \* of each run
          runs, faults,
          \* History, read by the properties only:
          overlapped,  \* two runs were at work at once
          killed,      \* a run was killed
          told         \* a run ended with the error of an incomplete restoration

Run == {"cli", "auto"}
Nobody == "nobody"
perrun == <<pc, backup, before, result>>
vars == <<windows, exe, receipt, latest, kept, daemon, holder, perrun, runs, faults, overlapped, killed, told>>

Versions == 0..MaxVersion
Place == <<exe, receipt>>

TypeOK ==
    /\ windows \in BOOLEAN
    /\ exe \in Versions /\ receipt \in Versions /\ latest \in Versions /\ daemon \in Versions
    /\ kept \subseteq Versions
    /\ holder \in {"auto", "patch", Nobody}
    /\ pc \in [Run -> {"idle", "locked", "sidecar", "written", "recorded", "succeeded", "refused",
                       "undo", "undoReceipt", "restart", "released"}]
    /\ backup \in [Run -> Versions] /\ before \in [Run -> Versions \X Versions]
    /\ result \in [Run -> {"none", "busy", "current", "updated", "error", "lost"}]
    /\ runs \in 0..MaxRuns /\ faults \in 0..MaxFaults
    /\ overlapped \in BOOLEAN /\ killed \in BOOLEAN /\ told \in BOOLEAN

Init ==
    /\ windows \in BOOLEAN
    /\ exe = 1 /\ receipt = 1 /\ latest \in 1..MaxVersion /\ daemon \in {0, 1}
    /\ kept = {} /\ holder = Nobody
    /\ pc = [r \in Run |-> "idle"] /\ backup = [r \in Run |-> 0]
    /\ before = [r \in Run |-> <<0, 0>>] /\ result = [r \in Run |-> "none"]
    /\ runs = 0 /\ faults = 0 /\ overlapped = FALSE /\ killed = FALSE /\ told = FALSE

Goto(r, s) == pc' = [pc EXCEPT ![r] = s]
Working(r) == pc[r] # "idle"

\* The run ends: its lock is released, its transaction forgotten.
End(r, outcome) ==
    /\ Goto(r, "idle")
    /\ result' = [result EXCEPT ![r] = outcome]
    /\ holder' = IF holder = r THEN Nobody ELSE holder
    /\ backup' = [backup EXCEPT ![r] = 0]

Fault == faults < MaxFaults /\ faults' = faults + 1
NoFault == faults' = faults

-----------------------------------------------------------------------------
(* The start of a run.                                                      *)

\* `silvervine update self` takes no lock.
ManualBegin ==
    /\ ~Working("cli") /\ runs < MaxRuns /\ exe # 0
    /\ runs' = runs + 1
    /\ Goto("cli", "locked") /\ result' = [result EXCEPT !["cli"] = "none"]
    /\ overlapped' = (overlapped \/ Working("auto"))
    /\ UNCHANGED <<windows, exe, receipt, latest, kept, daemon, holder, backup, before, faults,
                   killed, told>>

\* The daemon's pass gives way to whoever has the patch lock.
AutoBegin ==
    /\ daemon # 0 /\ ~Working("auto") /\ runs < MaxRuns
    /\ runs' = runs + 1
    /\ IF holder = Nobody
       THEN holder' = "auto" /\ Goto("auto", "locked") /\ result' = [result EXCEPT !["auto"] = "none"]
       ELSE result' = [result EXCEPT !["auto"] = "busy"] /\ UNCHANGED <<holder, pc>>
    /\ overlapped' = (overlapped \/ Working("cli"))
    /\ UNCHANGED <<windows, exe, receipt, latest, kept, daemon, backup, before, faults, killed,
                   told>>

\* On Windows the receipt must name this executable, which is moved into a directory
\* of the run's own.
Prepare(r) ==
    /\ pc[r] = "locked"
    /\ UNCHANGED <<windows, receipt, latest, kept, daemon, runs, overlapped, killed, told>>
    /\ \/ /\ exe # 0 /\ NoFault
          /\ before' = [before EXCEPT ![r] = Place]
          /\ Goto(r, "sidecar")
          /\ IF windows
             THEN backup' = [backup EXCEPT ![r] = exe] /\ exe' = 0
             ELSE UNCHANGED <<backup, exe>>
          /\ UNCHANGED <<holder, result>>
       \/ /\ (exe = 0 /\ NoFault) \/ Fault
          /\ End(r, "error")
          /\ UNCHANGED <<exe, before>>

-----------------------------------------------------------------------------
(* The updater: an external program, with what it prints and its exit.      *)

\* Nothing newer than what the receipt says, or a failure before anything is written.
SidecarKeeps(r) ==
    /\ pc[r] = "sidecar"
    /\ Goto(r, IF windows THEN "undo" ELSE "released")
    /\ \/ /\ receipt >= latest /\ NoFault
          /\ result' = [result EXCEPT ![r] = "current"]
       \/ /\ Fault
          /\ result' = [result EXCEPT ![r] = "error"]
    /\ UNCHANGED <<windows, exe, receipt, latest, kept, daemon, holder, backup, before, runs,
                   overlapped, killed, told>>

SidecarWrites(r) ==
    /\ pc[r] = "sidecar" /\ receipt < latest
    /\ exe' = latest
    /\ Goto(r, "written")
    /\ UNCHANGED <<windows, receipt, latest, kept, daemon, holder, backup, before, result, runs,
                   faults,
                   overlapped, killed, told>>

\* The receipt is the updater's last file; it may fail before and after it.
SidecarRecords(r) ==
    /\ pc[r] = "written"
    /\ receipt' = exe
    /\ Goto(r, "recorded")
    /\ UNCHANGED <<windows, exe, latest, kept, daemon, holder, backup, before, result, runs, faults,
                   overlapped, killed, told>>

\* Or it says so having put nothing at this place.
SidecarElsewhere(r) ==
    /\ pc[r] = "sidecar" /\ receipt < latest
    /\ receipt' = latest /\ Fault
    /\ Goto(r, "recorded")
    /\ UNCHANGED <<windows, exe, latest, kept, daemon, holder, backup, before, result, runs,
                   overlapped, killed, told>>

SidecarFails(r) ==
    /\ pc[r] \in {"written", "recorded"}
    /\ Fault
    /\ Goto(r, IF windows THEN "undo" ELSE "released")
    /\ result' = [result EXCEPT ![r] = "error"]
    /\ UNCHANGED <<windows, exe, receipt, latest, kept, daemon, holder, backup, before, runs,
                   overlapped, killed, told>>

\* Mutant: that the updater says so is enough to drop the old executable.
FinishTrusting(r) ==
    /\ pc[r] = "recorded"
    /\ UNCHANGED <<windows, kept, receipt, latest, daemon, holder, exe, before, runs, faults,
                   overlapped, killed, told>>
    /\ result' = [result EXCEPT ![r] = "updated"]
    /\ backup' = [backup EXCEPT ![r] = 0]
    /\ Goto(r, "restart")

\* Exit 0 and the words of an installation; on Windows the file must be there too,
\* else the old one is put back.  The old one is left to a helper that deletes it,
\* and may fail to.
Finish(r) ==
    /\ pc[r] = "recorded"
    /\ UNCHANGED <<windows, receipt, latest, daemon, holder, exe, before, runs, faults,
                   overlapped, killed, told>>
    /\ IF ~windows \/ exe # 0
       THEN /\ result' = [result EXCEPT ![r] = "updated"]
            /\ Goto(r, "restart")
            /\ kept' \in {kept} \cup (IF windows THEN {kept \cup {backup[r]}} ELSE {})
            /\ backup' = [backup EXCEPT ![r] = 0]
       ELSE /\ result' = [result EXCEPT ![r] = "error"]
            /\ Goto(r, "undo")
            /\ UNCHANGED <<kept, backup>>

-----------------------------------------------------------------------------
(* ExecutableSwap::restore, Windows only; also when the run unwinds.        *)

\* The rename replaces whatever the updater has put there; if it fails the old
\* executable stays where it is and the error says where.
RestoreExe(r) ==
    /\ pc[r] = "undo"
    /\ \/ /\ exe' = backup[r] /\ NoFault
          /\ Goto(r, "undoReceipt")
          /\ backup' = [backup EXCEPT ![r] = 0]
          /\ UNCHANGED <<kept, holder, result>>
       \/ /\ Fault
          /\ kept' = kept \cup {backup[r]}
          /\ End(r, "lost")
          /\ exe' = exe
    /\ told' = (told \/ pc'[r] = "idle")
    /\ UNCHANGED <<windows, receipt, latest, daemon, before, runs, overlapped, killed>>

\* The receipt is written back if it is not the one read before.
RestoreReceipt(r) ==
    /\ pc[r] = "undoReceipt"
    /\ \/ /\ receipt' = before[r][2] /\ NoFault
          /\ Goto(r, "released")
          /\ UNCHANGED <<holder, result, backup>>
       \/ /\ receipt # before[r][2] /\ Fault
          /\ End(r, "lost")
          /\ receipt' = receipt
    /\ told' = (told \/ pc'[r] = "idle")
    /\ UNCHANGED <<windows, exe, latest, kept, daemon, before, runs, overlapped, killed>>

-----------------------------------------------------------------------------
(* The end of a run.                                                        *)

\* After an update the daemon's pass, and on Windows also a manual one, restarts the
\* daemon, which runs what is in place by then; a daemon that restarts itself ends
\* there, lock and all.  The manual update of the other hosts only says so.
RestartDaemon(r) ==
    /\ pc[r] = "restart"
    /\ \/ /\ r = "auto" \/ windows
          /\ NoFault
          /\ daemon' = IF daemon = 0 THEN 0 ELSE exe
          /\ IF r = "auto"
             THEN End(r, result[r])
             ELSE Goto(r, "released") /\ UNCHANGED <<result, holder, backup>>
       \/ /\ r = "auto" \/ windows
          /\ Fault
          /\ Goto(r, "released")
          /\ result' = [result EXCEPT ![r] = "error"]
          /\ UNCHANGED <<daemon, holder, backup>>
       \/ /\ r = "cli" /\ ~windows
          /\ Goto(r, "released") /\ NoFault
          /\ UNCHANGED <<daemon, result, holder, backup>>
    /\ UNCHANGED <<windows, exe, receipt, latest, kept, before, runs, overlapped, killed, told>>

Return(r) ==
    /\ pc[r] = "released"
    /\ End(r, result[r])
    /\ UNCHANGED <<windows, exe, receipt, latest, kept, daemon, before, runs, faults, overlapped,
                   killed, told>>

\* A killed run leaves its directory with what is in it, and its lock to the kernel;
\* the daemon's pass is a thread of the daemon.
Kill(r) ==
    /\ Working(r) /\ Fault
    /\ killed' = TRUE
    /\ kept' = IF backup[r] # 0 THEN kept \cup {backup[r]} ELSE kept
    /\ End(r, "none")
    /\ daemon' = IF r = "auto" THEN 0 ELSE daemon
    /\ UNCHANGED <<windows, exe, receipt, latest, before, runs, overlapped, told>>

\* A patch has the lock for a while.
Patch ==
    /\ \/ holder = Nobody /\ holder' = "patch"
       \/ holder = "patch" /\ holder' = Nobody
    /\ UNCHANGED <<windows, exe, receipt, latest, kept, daemon, perrun, runs, faults, overlapped,
                   killed, told>>

Release ==
    /\ latest < MaxVersion
    /\ latest' = latest + 1
    /\ UNCHANGED <<windows, exe, receipt, kept, daemon, holder, perrun, runs, faults, overlapped,
                   killed, told>>

Step(r) ==
    \/ Prepare(r) \/ SidecarKeeps(r) \/ SidecarWrites(r) \/ SidecarRecords(r)
    \/ SidecarElsewhere(r) \/ SidecarFails(r)
    \/ Finish(r) \/ RestoreExe(r) \/ RestoreReceipt(r) \/ RestartDaemon(r) \/ Return(r)

Next ==
    \/ ManualBegin \/ AutoBegin \/ Patch \/ Release
    \/ \E r \in Run : Step(r) \/ Kill(r)

Spec == Init /\ [][Next]_vars

-----------------------------------------------------------------------------
(* Properties.                                                              *)

Idle == \A r \in Run : ~Working(r)

\* Whatever fails and whoever is killed, a complete executable is at its place or in
\* a directory of an update beside it, even with two updates at once
\* (windows.rs:84-101, 103-113: the old one is let go only once the new one has been
\* seen).
ExecutableSomewhere ==
    exe # 0 \/ kept # {} \/ \E r \in Run : backup[r] # 0

\* One update at a time, not killed, is all or nothing on Windows: it ends with the
\* executable and the receipt it began with, or with the new executable, or with the
\* error that says what could not be put back (windows.rs:84-134).
AllOrNothing ==
    \A r \in Run :
        windows /\ ~overlapped /\ pc[r] = "released" =>
            \/ result[r] \in {"current", "error"} /\ Place = before[r]
            \/ exe # 0 /\ exe >= before[r][1] /\ receipt = exe

\* On Windows the receipt never runs ahead of the executable, which would keep the program from
\* ever being updated again, unless two updates overlapped, one was killed, or the
\* error told to run the installer again (windows.rs:121-125).
ReceiptNotAhead ==
    windows /\ Idle /\ ~overlapped /\ ~killed /\ ~told => receipt <= exe

\* An automatic update has recorded what it installed, and the daemon runs it, unless
\* something failed or the daemon was stopped (update_self.rs:236-240).
AutoRecorded == pc["auto"] = "recorded"
CaughtUp == daemon = exe \/ daemon = 0 \/ faults > 0 \/ overlapped

-----------------------------------------------------------------------------
(* The inductive invariant of the safety properties.                        *)

\* A run holds the old executable from its move to its restoration or release, on
\* Windows only; where nothing is moved, nothing is ever missing.
Backed ==
    /\ \A r \in Run : backup[r] # 0 <=> windows /\ pc[r] \in {"sidecar", "written", "recorded", "undo"}
    /\ ~windows => exe # 0 /\ \A r \in Run : pc[r] \notin {"undo", "undoReceipt"}

\* No version is newer than the latest release.
Released ==
    /\ latest # 0 /\ exe <= latest
    /\ \A r \in Run : backup[r] <= latest /\ before[r][1] <= latest

\* Two runs at work are seen to overlap.
Seen == Working("cli") /\ Working("auto") => overlapped

\* A run that is alone on Windows knows what is at the place from what it did.
Alone(r) ==
    /\ pc[r] = "sidecar" => exe = 0 /\ before[r] = <<backup[r], receipt>>
    /\ pc[r] \in {"written", "recorded", "undo"} => backup[r] = before[r][1]
    /\ pc[r] = "written" => exe # 0 /\ exe >= before[r][1] /\ receipt = before[r][2]
    /\ pc[r] = "recorded" => exe = 0 \/ (exe >= before[r][1] /\ receipt = exe)
    /\ pc[r] \in {"undo", "undoReceipt"} => result[r] \in {"current", "error"}
    /\ pc[r] = "undoReceipt" => exe = before[r][1]
    /\ pc[r] = "restart" => exe # 0 /\ exe >= before[r][1] /\ receipt = exe
AloneRight == windows /\ ~overlapped => \A r \in Run : Alone(r)

\* What a run found was not ahead, unless what came before it had gone wrong.
NotAhead ==
    windows /\ ~overlapped /\ ~killed /\ ~told =>
        /\ (\A r \in Run : pc[r] \in {"idle", "locked"}) => receipt <= exe
        /\ \A r \in Run : pc[r] \notin {"idle", "locked"} => before[r][2] <= before[r][1]

IInv ==
    /\ TypeOK /\ Backed /\ Released /\ Seen /\ AloneRight /\ NotAhead
    /\ ExecutableSomewhere /\ AllOrNothing
=============================================================================
