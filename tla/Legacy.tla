------------------------------- MODULE Legacy -------------------------------
(***************************************************************************)
(* Removing what an older product left on the host (src/migration/mod.rs,  *)
(* called by src/cli/init.rs and src/cli/setup.rs): detect the artifacts,  *)
(* remove those that need privileges with one elevated script, then those  *)
(* of the user one at a time, moving the old CDM cache.  Files that belong *)
(* to the package manager are reported and left alone.  Meanwhile the      *)
(* package manager and the user change the files, the elevated script      *)
(* stops where it is killed, and the program may be killed anywhere.       *)
(***************************************************************************)
EXTENDS Naturals, Sequences

CONSTANTS Units,       \* the names of the systemd units, in order
          MaxRuns,     \* bound on the runs of the setup
          MaxChanges   \* bound on the changes others make

VARIABLES fs,       \* what is at each path: "absent", "file", "link" or "half"
          merged,   \* whether /lib is a link to /usr/lib
          pc,       \* where the setup stands
          found,    \* the artifacts that were detected
          script,   \* the paths the elevated script has yet to remove
          status,   \* the exit status of the script's last command
          removed, migrated, skipped,     \* the outcome
          result,   \* how the last run's removal ended: "none", "ok", "err"
          touched,  \* the paths others changed during the run
          runs, changes

outcome == <<removed, migrated, skipped>>
vars == <<fs, merged, pc, found, script, status, outcome, result, touched, runs, changes>>

-----------------------------------------------------------------------------
Dir == {"etc", "usr", "lib"}
Unit == {Units[i] : i \in DOMAIN Units}
UnitPath == Dir \X Unit
UserPath == {<<"home", k>> : k \in {"agent", "autostart", "cdm"}}
Daemon == <<"root", "daemon">>
Packaged == <<"root", "package">>
Destination == <<"home", "v2cdm">>
Path == UnitPath \cup UserPath \cup {Daemon, Packaged, Destination}

\* Files only the package manager may change.
PackageOwned == {Packaged} \cup {p \in UnitPath : p[1] # "etc"}

\* The file a path stands for: /lib may be /usr/lib, and an administrator's unit
\* may be a link to the package's.
Canonical(p) ==
    IF p \in UnitPath
    THEN IF (p[1] = "lib" /\ merged) \/ (p[1] = "etc" /\ fs[p] = "link") THEN <<"usr", p[2]>> ELSE p
    ELSE p

\* Links are followed, so one that leads nowhere is not seen.
Exists(p) == fs[Canonical(p)] \notin {"absent", "link"}

-----------------------------------------------------------------------------
(* Detection.                                                              *)

\* The paths that are looked at, in this order.
UnitsIn(dir) == [i \in 1..Len(Units) |-> <<dir, Units[i]>>]
Order == <<Daemon, <<"home", "agent">>>> \o UnitsIn("etc") \o UnitsIn("usr") \o UnitsIn("lib")
         \o <<<<"home", "autostart">>, <<"home", "cdm">>, Packaged>>
Before(p, q) == \E i, j \in DOMAIN Order : i < j /\ Order[i] = p /\ Order[j] = q

\* Each unit file once, under the first directory it is seen in.
FirstSeen(p) ==
    \A q \in UnitPath : Before(q, p) /\ Exists(q) => Canonical(q) # Canonical(p)

Artifact(p, root, packaged) == [path |-> p, root |-> root, packaged |-> packaged]

Detect ==
    {Artifact(p, TRUE, FALSE) : p \in {q \in {Daemon} : Exists(q)}}
        \cup {Artifact(p, FALSE, FALSE) : p \in {q \in UserPath : Exists(q)}}
        \cup {Artifact(p, TRUE, p[1] # "etc") : p \in {q \in UnitPath : Exists(q) /\ FirstSeen(q)}}
        \cup {Artifact(p, TRUE, TRUE) : p \in {q \in {Packaged} : Exists(q)}}

Pending == {a.path : a \in {b \in found : b.root /\ ~b.packaged}}
PackagedFound == {a.path : a \in {b \in found : b.packaged}}

\* The artifact of them that was detected first.
Leads(p, paths) == p \in paths /\ \A q \in paths : ~Before(q, p)

-----------------------------------------------------------------------------
Init ==
    /\ merged \in BOOLEAN
    /\ fs \in [Path -> {"absent", "file", "link"}]
    /\ \A p \in Path : fs[p] = "link" => p[1] = "etc"
    /\ \A u \in Unit : merged => fs[<<"lib", u>>] = "absent"
    /\ fs[Daemon] = "file" => \A p \in UnitPath \cup {Packaged} : fs[p] = "absent"
    /\ fs[<<"home", "agent">>] = fs[Daemon]
    /\ fs[<<"home", "autostart">>] = fs[Packaged]
    /\ pc = "off" /\ found = {} /\ script = {} /\ status = "ok"
    /\ removed = {} /\ migrated = {} /\ skipped = {} /\ result = "none"
    /\ touched = {} /\ runs = 0 /\ changes = 0

Working == pc # "off"
host == <<merged, changes>>
run == <<runs, result>>

\* The plan asked whether to migrate, for what was there then; what is removed is
\* what is there now.
Begin ==
    /\ pc = "off" /\ runs < MaxRuns /\ runs' = runs + 1
    /\ Detect # {}
    /\ found' = Detect
    /\ pc' = "elevate"
    /\ result' = "none" /\ touched' = {}
    /\ removed' = {} /\ migrated' = {} /\ skipped' = {} /\ status' = "ok" /\ script' = {}
    /\ UNCHANGED <<fs, host>>

-----------------------------------------------------------------------------
(* First pass: one elevated script.                                        *)

\* What belongs to the package manager is skipped with a hint; with nothing else
\* to remove no password is asked for.
Compose ==
    /\ pc = "elevate"
    /\ skipped' = skipped \cup PackagedFound
    /\ script' = Pending
    /\ pc' = IF script' = {} THEN "user" ELSE "prompt"
    /\ UNCHANGED <<fs, host, found, status, removed, migrated, run, touched>>

\* A unit's removal is followed by a reload whose failure is ignored.
Reloads == \E p \in Pending : p \in UnitPath

\* The prompt may be refused; the script may be killed before any of its commands.
Refuse ==
    /\ pc \in {"prompt", "script"}
    /\ pc' = "user" /\ script' = {} /\ status' = "failed"
    /\ skipped' = skipped \cup Pending
    /\ UNCHANGED <<fs, host, found, removed, migrated, run, touched>>

Accept ==
    /\ pc = "prompt" /\ pc' = "script"
    /\ UNCHANGED <<fs, host, found, script, status, outcome, run, touched>>

\* Unload what can be, then rm -f: a path that is gone is no failure, and the
\* script goes on after one.
RunCommand ==
    /\ pc = "script"
    /\ \E p \in script :
          /\ Leads(p, script) /\ script' = script \ {p}
          /\ \/ fs' = [fs EXCEPT ![p] = "absent"] /\ status' = "ok"
             \/ fs[p] # "absent" /\ UNCHANGED fs /\ status' = "failed"
    /\ UNCHANGED <<host, pc, found, outcome, run, touched>>

\* The shell's exit status is that of its last command, which is the reload's.
ExitStatus == IF Reloads THEN "ok" ELSE status

Gone(p) == fs[p] = "absent"

\* Mutant: a script that succeeded has removed everything.
RecordTrusting ==
    LET done == IF ExitStatus = "ok" THEN Pending ELSE {}
    IN  /\ removed' = removed \cup done
        /\ skipped' = skipped \cup (Pending \ done)

\* Only what is gone afterwards was removed, and only a script that succeeded
\* removed anything.
Record ==
    LET done == IF ExitStatus = "ok" THEN {p \in Pending : Gone(p)} ELSE {}
    IN  /\ removed' = removed \cup done
        /\ skipped' = skipped \cup (Pending \ done)

ScriptEnds ==
    /\ pc = "script" /\ script = {}
    /\ Record
    /\ pc' = "user"
    /\ UNCHANGED <<fs, host, found, script, status, migrated, run, touched>>

-----------------------------------------------------------------------------
(* Second pass: the user's files, in order.                                *)

Reported == removed \cup migrated \cup skipped
UserLeft == {a.path : a \in {b \in found : ~b.root}} \ Reported
AtUser(p) == pc = "user" /\ Leads(p, UserLeft)

\* The launch agent is unloaded if it can be and removed, the autostart entry removed.
RemoveUser ==
    /\ \E p \in UserPath \ {<<"home", "cdm">>} :
          AtUser(p) /\ fs[p] # "absent" /\ fs' = [fs EXCEPT ![p] = "absent"] /\ removed' = removed \cup {p}
    /\ UNCHANGED <<host, pc, found, script, status, migrated, skipped, run, touched>>

LegacyCdm == <<"home", "cdm">>

\* The destination decides: where a cache was migrated before, the old one goes.
Choose == pc' = IF Exists(Destination) THEN "drop" ELSE "move"

Inspect ==
    /\ AtUser(LegacyCdm) /\ Choose
    /\ UNCHANGED <<fs, host, found, script, status, outcome, run, touched>>

DropCdm ==
    /\ pc = "drop" /\ fs[LegacyCdm] # "absent"
    /\ fs' = [fs EXCEPT ![LegacyCdm] = "absent"]
    /\ skipped' = skipped \cup {LegacyCdm}
    /\ pc' = "user"
    /\ UNCHANGED <<host, found, script, status, removed, migrated, run, touched>>

\* A rename takes the whole directory; an empty directory in its way would be
\* replaced, any other is an error.
MoveCdm ==
    /\ pc = "move" /\ fs[LegacyCdm] # "absent" /\ fs[Destination] = "absent"
    /\ fs' = [fs EXCEPT ![LegacyCdm] = "absent", ![Destination] = fs[LegacyCdm]]
    /\ migrated' = migrated \cup {LegacyCdm}
    /\ pc' = "user"
    /\ UNCHANGED <<host, found, script, status, removed, skipped, run, touched>>

\* The file is gone, cannot be removed, or is half removed; the other setup's cache
\* came first, or the rename crosses a file system.  The error is returned without
\* the outcome so far.
UserFails ==
    /\ \/ \E p \in UserPath \ {LegacyCdm} : AtUser(p) /\ UNCHANGED fs
       \/ pc = "drop" /\ fs' \in {fs, [fs EXCEPT ![LegacyCdm] = IF @ = "absent" THEN @ ELSE "half"]}
       \/ pc = "move" /\ UNCHANGED fs
    /\ result' = "err" /\ pc' = "off"
    /\ removed' = {} /\ migrated' = {} /\ skipped' = {} /\ found' = {}
    /\ UNCHANGED <<host, script, status, touched, runs>>

\* The summary is written; the setup goes on with the browsers.
Finish ==
    /\ pc = "user" /\ UserLeft = {}
    /\ result' = "ok" /\ pc' = "off"
    /\ UNCHANGED <<fs, host, found, script, status, outcome, touched, runs>>

-----------------------------------------------------------------------------
(* The others.                                                             *)

Kill ==
    /\ Working /\ pc' = "off" /\ result' = "none"
    /\ found' = {} /\ script' = {} /\ status' = "ok"
    /\ removed' = {} /\ migrated' = {} /\ skipped' = {}
    /\ UNCHANGED <<fs, host, touched, runs>>

Elsewhere(p) ==
    /\ changes < MaxChanges /\ changes' = changes + 1
    /\ touched' = touched \cup {p}
    /\ UNCHANGED <<merged, pc, found, script, status, outcome, result, runs>>

\* The package manager removes or installs its files; through a merged /lib they are
\* the same files.
PackageChange ==
    \E p \in PackageOwned : /\ merged => p[1] # "lib"
                            /\ fs' = [fs EXCEPT ![p] = IF @ = "absent" THEN "file" ELSE "absent"]
                            /\ Elsewhere(p)

\* The user deletes an artifact, or the old product's installer runs again.
HostChange ==
    \E p \in Path \ (PackageOwned \cup {Destination}) :
        /\ fs[Daemon] = "absent" => p \notin {Daemon, <<"home", "agent">>}
        /\ fs' = [fs EXCEPT ![p] = IF @ = "absent" THEN "file" ELSE "absent"]
        /\ Elsewhere(p)

\* Another setup moved a cache to the destination first.
OtherMoves ==
    /\ fs[Destination] = "absent"
    /\ fs' = [fs EXCEPT ![Destination] = "file"]
    /\ Elsewhere(Destination)

Next == \/ Begin \/ Compose \/ Refuse \/ Accept \/ RunCommand \/ ScriptEnds
        \/ RemoveUser \/ Inspect \/ DropCdm \/ MoveCdm \/ UserFails \/ Finish \/ Kill
        \/ PackageChange \/ HostChange \/ OtherMoves

Spec == Init /\ [][Next]_vars

-----------------------------------------------------------------------------
(* Properties.                                                             *)

Artifacts == {Artifact(p, r, k) : p \in Path, r \in BOOLEAN, k \in BOOLEAN}

\* The variables' types.
TypeOK ==
    /\ fs \in [Path -> {"absent", "file", "link", "half"}]
    /\ pc \in {"off", "elevate", "prompt", "script", "user", "drop", "move"}
    /\ found \subseteq Artifacts
    /\ script \subseteq Path
    /\ status \in {"ok", "failed"} /\ result \in {"none", "ok", "err"}
    /\ removed \cup migrated \cup skipped \subseteq Path
    /\ touched \subseteq Path

\* What the package manager owns changes by its hand only, also where a unit is seen
\* through a merged /lib or through an administrator's link (remove_elevated_legacy,
\* detect_legacy_install_in).
PackagedUntouched ==
    \A p \in PackageOwned : fs'[p] # fs[p] => p \in touched'

\* The summary of a removal that returned tells of every artifact it detected, of
\* each once, and what it calls removed or migrated is gone unless somebody put it
\* back (MigrationOutcome, record_elevated_cleanup_postconditions).
SummaryTrue ==
    result = "ok" =>
        /\ Reported = {a.path : a \in found}
        /\ removed \cap skipped = {} /\ removed \cap migrated = {} /\ migrated \cap skipped = {}
        /\ \A p \in removed \cup migrated : Gone(p) \/ p \in touched

\* The old CDM cache leaves its place only by a move to the new one or beside a cache
\* that is there, unless the user deletes it (migrate_legacy_cdm).
CdmKept ==
    (fs[LegacyCdm] # fs'[LegacyCdm] /\ changes' = changes)
          => fs'[Destination] # "absent"
=============================================================================
