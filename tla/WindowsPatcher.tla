--------------------------- MODULE WindowsPatcher ---------------------------
(***************************************************************************)
(* src/src/patch/windows.rs: a verified copy of the CDM is renamed into    *)
(* the profile of a browser where no directory of its version is, looked   *)
(* at there, and registered in the browser's Local State                   *)
(* (src/src/patch/windows_registration.rs); a version that is there is     *)
(* never replaced, only registered.  Meanwhile the browser's component     *)
(* updater installs and removes versions, and the browser writes its       *)
(* Local State.                                                            *)
(***************************************************************************)
EXTENDS Integers, FiniteSetsExt

CONSTANTS
    Version,    \* 1..n: the numbers as version_key orders them
    Candidate,  \* the version that is published
    Absent,     \* no directory, no registration
    Torn,       \* a Local State that is not what the code reads
    MaxInode,   \* bound on the directories ever made
    MaxWrites,  \* bound on the Local States ever written
    MaxFaults   \* bound on the calls that fail

Inode == 1..MaxInode

VARIABLES
    moved,      \* the profile of the application is not the target's any more
    root,       \* the component root, with the directories above it
    dir,        \* the directory of each version
    content,    \* what each directory holds
    staged,     \* the directory of the staged payload
    payload,    \* what the cache offers
    granted,    \* TargetAuthorization of the target
    published,  \* TargetAuthorization of the staged payload
    local,      \* Local State: its identity (0: no file), the registered
                \* version, and the last write of the browser it includes
    opened,     \* the Local State that the run has open
    writes,     \* counter of the identities of Local State
    pc,
    result,
    faults,     \* counter
    before,     \* history: versions and registration when the run began
    deeds,      \* history: what others have done since
    late        \* history: whether Local State was written after the comparison

vars == <<moved, root, dir, content, staged, payload, granted, published,
          local, opened, writes, pc, result, faults, before, deeds, late>>

\* A whole payload verifies; "selected" is marked as the candidate, "foreign"
\* otherwise, "plain" not at all.
Content == {"none", "broken", "plain", "foreign", "selected"}

File == [id : 0..MaxWrites, pv : Version \cup {Absent, Torn}, seen : 0..MaxWrites]

TypeOK ==
    /\ moved \in BOOLEAN /\ late \in BOOLEAN
    /\ root \in {"absent", "directory", "reparse"}
    /\ dir \in [Version -> Inode \cup {Absent}]
    /\ content \in [Inode -> Content]
    /\ {staged, granted, published} \subseteq Inode \cup {Absent}
    /\ payload \in {"broken", "selected"}
    /\ local \in File /\ opened \in File
    /\ writes \in 0..MaxWrites
    /\ pc \in {"idle", "capture", "check", "pin", "authorize", "exists", "older", "stage",
               "reauthorize", "rename", "validate", "open", "write", "compare", "persist",
               "undo", "unname", "done"}
    /\ result \in {"none", "ok", "refused", "error", "stuck"}
    /\ faults \in 0..MaxFaults
    /\ before \in [Version -> Inode \cup {Absent}] \X (Version \cup {Absent, Torn})
    /\ deeds \subseteq {"updated", "removed", "moved", "wrote"}

Versions(d) == {v \in Version : d[v] # Absent}

\* latest_target: the greatest number, whatever the directory holds.
Latest(d) == IF Versions(d) = {} THEN Absent ELSE Max(Versions(d))

\* The browser prefers the registered version, if it is there.
Loaded(d, pv) == IF pv \in Versions(d) THEN pv ELSE Latest(d)

Whole(i) == i # Absent /\ content[i] \notin {"none", "broken"}

\* The target is valid, is the candidate and is the greatest version.
IsCandidate ==
    dir[Candidate] # Absent /\ content[dir[Candidate]] = "selected" /\ Latest(dir) = Candidate

Init ==
    /\ moved = FALSE /\ late = FALSE
    /\ \E S \in SUBSET Version :
          /\ dir = [v \in Version |-> IF v \in S THEN v ELSE Absent]
          /\ IF S # {} THEN root = "directory" ELSE root \in {"absent", "directory", "reparse"}
          /\ \E pv \in S \cup {Absent, Torn} : local = [id |-> 1, pv |-> pv, seen |-> 1]
             \/ local = [id |-> 0, pv |-> Absent, seen |-> 0]
    /\ \E c \in Content \ {"none"} :
          content = [i \in Inode |-> IF i \notin Version THEN "none"
                                     ELSE IF i = Candidate THEN c ELSE "plain"]
    /\ dir[Candidate] = Absent => content[Candidate] = "broken"
    /\ payload \in {"broken", "selected"}
    /\ staged = Absent /\ granted = Absent /\ published = Absent
    /\ opened = local /\ writes = 1
    /\ pc = "idle" /\ result = "none" /\ faults = 0
    /\ before = <<dir, local.pv>> /\ deeds = {}

-----------------------------------------------------------------------------
(* The end of a step.                                                      *)

Fault == faults < MaxFaults /\ faults' = faults + 1
Sound == UNCHANGED faults

\* A condition that holds, unless looking fails.
Held(condition) == condition /\ Sound
Refuted(condition) == IF condition THEN Fault ELSE Sound

Goto(next) == pc' = next /\ UNCHANGED result
Ends(r) == pc' = "done" /\ result' = r

World == <<moved, dir, content, writes, before, deeds>>
State == <<local, opened, late>>
Mine == <<payload, granted, published>>

\* An early return: what is staged goes with its owner.
Drop(r) == Ends(r) /\ staged' = Absent

\* A check, and what follows it.
Check(at, good, next, otherwise) ==
    /\ pc = at /\ UNCHANGED <<World, root, Mine, local, opened>>
    /\ \/ Held(good) /\ Goto(next) /\ UNCHANGED staged
       \/ Refuted(good) /\ otherwise

\* An error of a registration takes back what was published for it.
Unregistered == UNCHANGED staged /\ IF published = Absent THEN Ends("error") ELSE Goto("undo")

-----------------------------------------------------------------------------
(* write_authorized_managed_cdm                                            *)

\* cdm_target_for_candidate, before the target is authorized.
SelectTarget ==
    /\ pc = "idle" /\ before' = <<dir, local.pv>> /\ deeds' = {}
    /\ (Sound /\ Goto("capture")) \/ (Fault /\ Ends("error"))
    /\ UNCHANGED <<moved, root, dir, content, writes, staged, Mine, State>>

\* TargetAuthorization::capture
Capture ==
    /\ pc = "capture"
    /\ \/ Sound /\ granted' = dir[Candidate] /\ Goto("check")
       \/ Fault /\ Ends("error") /\ UNCHANGED granted
    /\ UNCHANGED <<World, root, staged, payload, published, State>>

CheckTarget == Check("check", ~moved, "pin", Drop("error")) /\ UNCHANGED late

\* pin_directories: made where they are not, and none of them a reparse point.
PinDirectories ==
    /\ pc = "pin"
    /\ \/ Held(root # "reparse") /\ root' = "directory" /\ Goto("authorize")
       \/ Refuted(root # "reparse") /\ Ends("error") /\ UNCHANGED root
    /\ UNCHANGED <<World, staged, Mine, State>>

\* TargetAuthorization::validate: what was authorized is still there.
Authorize == Check("authorize", dir[Candidate] = granted, "exists", Drop("error")) /\ UNCHANGED late

\* A version that is there is registered again if it is the candidate and is the
\* greatest; any other is refused.
Exists ==
    /\ \/ dir[Candidate] = Absent /\ Check("exists", TRUE, "older", Drop("error"))
       \/ dir[Candidate] # Absent /\ Check("exists", IsCandidate, "open", Drop("refused"))
    /\ UNCHANGED late

\* The candidate would be the active version.
Older ==
    Check("older", Latest(dir) # Absent => Latest(dir) < Candidate, "stage", Drop("refused"))
    /\ UNCHANGED late

Fresh == {i \in Inode : content[i] = "none"}

\* stage_verified_payload, write_marker, validate_installed_cdm, capture.
Stage ==
    /\ pc = "stage"
    /\ \/ /\ Held(payload = "selected") /\ Fresh # {}
          /\ staged' = Min(Fresh) /\ published' = Min(Fresh)
          /\ content' = [content EXCEPT ![Min(Fresh)] = "selected"]
          /\ Goto("reauthorize")
       \/ Refuted(payload = "selected") /\ Drop("error") /\ UNCHANGED <<content, published>>
    /\ UNCHANGED <<moved, dir, writes, before, deeds, root, payload, granted, State>>

Reauthorize == Check("reauthorize", dir[Candidate] = granted, "rename", Drop("error")) /\ UNCHANGED late

\* fs::rename, which replaces no directory.
Rename ==
    /\ pc = "rename"
    /\ \/ /\ Held(dir[Candidate] = Absent)
          /\ dir' = [dir EXCEPT ![Candidate] = staged] /\ staged' = Absent
          /\ Goto("validate")
       \/ Refuted(dir[Candidate] = Absent) /\ Drop("error") /\ UNCHANGED dir
    /\ UNCHANGED <<moved, content, writes, before, deeds, root, Mine, State>>

\* What is published is the candidate, and the greatest version.
Validate ==
    Check("validate", IsCandidate, "open", Goto("undo") /\ UNCHANGED staged) /\ UNCHANGED late

\* The rollback is of what was published, and of nothing else.
Undo == Check("undo", dir[Candidate] = published, "unname", Drop("stuck")) /\ UNCHANGED late

\* The tree is renamed back, and goes with its owner.
Unname ==
    /\ pc = "unname"
    /\ \/ /\ Held(dir[Candidate] # Absent)
          /\ dir' = [dir EXCEPT ![Candidate] = Absent] /\ Ends("error")
       \/ Refuted(dir[Candidate] # Absent) /\ Ends("stuck") /\ UNCHANGED dir
    /\ UNCHANGED <<moved, content, writes, before, deeds, root, staged, Mine, State>>

-----------------------------------------------------------------------------
(* registration::publish                                                   *)

\* Local State is opened, read and edited, or made anew.
OpenState ==
    /\ pc = "open"
    /\ \/ Held(local.pv # Torn) /\ opened' = local /\ Goto("write") /\ UNCHANGED staged
       \/ Refuted(local.pv # Torn) /\ Unregistered /\ UNCHANGED opened
    /\ UNCHANGED <<World, root, Mine, local, late>>

\* The edited state is written to a file of its own.
WriteState == Check("write", TRUE, "compare", Unregistered) /\ UNCHANGED late

\* Mutant: whatever has been written meanwhile is replaced.
CompareNothing == Check("compare", TRUE, "persist", Unregistered) /\ late' = FALSE

\* The file that was read is still the browser's.
Compare ==
    Check("compare", local.id = opened.id, "persist", Unregistered) /\ late' = FALSE

\* It is closed, and replaced.
Persist ==
    /\ pc = "persist"
    /\ \/ /\ Sound /\ writes < MaxWrites /\ writes' = writes + 1
          /\ local' = [id |-> writes + 1, pv |-> Candidate, seen |-> opened.seen]
          /\ Ends("ok") /\ UNCHANGED staged
       \/ Fault /\ Unregistered /\ UNCHANGED <<local, writes>>
    /\ UNCHANGED <<moved, dir, content, before, deeds, root, Mine, opened, late>>

-----------------------------------------------------------------------------
(* Others: the component updater, the user, the browser.                   *)

Outside(deed) ==
    /\ pc \notin {"idle", "done"} /\ deeds' = deeds \cup {deed}
    /\ UNCHANGED <<staged, Mine, opened, pc, result, faults, before>>

\* A version is installed, in place of its directory if there is one.
Update(v) ==
    /\ root # "reparse" /\ root' = "directory"
    /\ Cardinality(Fresh) > IF published = Absent THEN 1 ELSE 0
    /\ dir' = [dir EXCEPT ![v] = Min(Fresh)]
    /\ content' = [content EXCEPT ![Min(Fresh)] = "plain"]
    /\ UNCHANGED <<moved, local, writes, late>> /\ Outside("updated")

Remove(v) ==
    /\ dir[v] # Absent /\ Versions(dir) # {v} /\ "removed" \notin deeds
    /\ dir' = [dir EXCEPT ![v] = Absent]
    /\ UNCHANGED <<moved, root, content, local, writes, late>> /\ Outside("removed")

\* The browser replaces its Local State, whoever has it open, by one that
\* registers what it has loaded.
Write ==
    /\ writes < MaxWrites - 1 /\ writes' = writes + 1
    /\ local' = [id |-> writes + 1, pv |-> Loaded(dir, local.pv), seen |-> writes + 1]
    /\ late' = (late \/ pc = "persist")
    /\ UNCHANGED <<moved, root, dir, content>> /\ Outside("wrote")

\* The application is replaced by one with another profile.
Replace ==
    /\ ~moved /\ moved' = TRUE
    /\ UNCHANGED <<root, dir, content, local, writes, late>> /\ Outside("moved")

Run ==
    \/ SelectTarget \/ Capture \/ CheckTarget \/ PinDirectories \/ Authorize \/ Exists
    \/ Older \/ Stage \/ Reauthorize \/ Rename \/ Validate \/ Undo \/ Unname
    \/ OpenState \/ WriteState \/ Compare \/ Persist

\* A process that ends leaves the state it is in: the invariants hold there.
Next == Run \/ Write \/ Replace \/ \E v \in Version : Update(v) \/ Remove(v)

Spec == Init /\ [][Next]_vars

-----------------------------------------------------------------------------
(* Properties.                                                             *)

\* A browser that had a whole component to load keeps one in every state of the
\* run, renamed, registered or taken back, unless others have removed a version
\* meanwhile (write_authorized_managed_cdm, registration::publish).
AlwaysLoadable ==
    LET was == Loaded(before[1], before[2])
        is == Loaded(dir, local.pv) IN
    pc # "idle" /\ "removed" \notin deeds /\ was # Absent /\ Whole(before[1][was])
        => is # Absent /\ Whole(dir[is])

\* A version that exists is never replaced: the run only adds its candidate where
\* nothing is, or takes away what it has added. (Its rollback looks and then
\* renames: what an updater puts there in between goes too.)
Immutable ==
    Run /\ pc # "unname" => \A v \in Version :
        dir'[v] # dir[v] => dir[v] = Absent /\ v = Candidate /\ dir'[v] = published

\* The run replaces the Local State that it has read, or one that was written
\* after the comparison: what the browser wrote before it is never lost
\* (registration::publish).
StateKept == Run /\ local' # local => late \/ opened = local

\* A run that reports success, undisturbed, leaves the marked candidate as what
\* the browser loads.
SuccessIsLoaded ==
    result' = "ok" /\ result # "ok" /\ deeds = {} =>
        Loaded(dir', local'.pv) = Candidate /\ content[dir'[Candidate]] = "selected"

\* A run that reports an error, undisturbed, leaves the versions and their
\* registration as they were, unless the rollback has failed too.
ErrorRestores ==
    result' \in {"error", "refused"} /\ result = "none" /\ deeds = {} =>
        <<dir', local'.pv>> = before
=============================================================================
