---------------------------- MODULE MacosPatcher ----------------------------
(***************************************************************************)
(* src/src/patch/macos.rs: the CDM is published as a version directory of  *)
(* the component root in the user's profile of the browser.  The copy is   *)
(* made and verified in a staging directory, exchanged with what is there  *)
(* or renamed into place, and looked at again where it then is; otherwise  *)
(* it is taken back.  Meanwhile the browser's component updater installs   *)
(* and removes versions, and an update of the application may change the   *)
(* profile that its Info.plist names.                                      *)
(***************************************************************************)
EXTENDS Integers, FiniteSetsExt, Functions

CONSTANTS
    Version,    \* 1..n: the numbers as their comparison orders them
    Candidate,  \* the version that is published
    Plists,     \* the values of Info.plist
    Unsafe,     \* a name that is not one path component
    Absent,     \* no directory, no key, no application
    MaxInode,   \* bound on the directories ever made
    MaxFaults   \* bound on the calls that fail

Inode == 1..MaxInode

Level == {"support", "profile", "component"}

VARIABLES
    plist,      \* Info.plist of the application, or Absent
    level,      \* what each directory above the versions is
    dir,        \* the directory of each version
    content,    \* what each directory holds
    staged,     \* the directory under the staging directory
    kept,       \* the staging directory is kept for recovery
    job,        \* what is asked for: the write, its payload, and as whom
    target,     \* the profile of the authorized target
    granted,    \* TargetAuthorization of the target
    published,  \* TargetAuthorization of the copy
    exchanged,  \* whether something was displaced
    pc,
    result,
    faults,     \* counter
    before,     \* history: the versions when the run began
    deeds,      \* history: what others have done since
    taken       \* history: the directories they have taken away

vars == <<plist, level, dir, content, staged, kept, job, target, granted,
          published, exchanged, pc, result, faults, before, deeds, taken>>

\* A whole payload has its manifest and its library; "selected" is marked with
\* the wanted marker, "foreign" with another, "plain" with none.
Content == {"none", "broken", "plain", "foreign", "selected"}

\* Nothing of the run is in the profile yet.
Unpublished == {"idle", "capture", "check", "ensure", "open", "copy", "mark",
                "resolve", "authorize", "pin", "swap", "move"}

TypeOK ==
    /\ plist \in Plists \cup {Absent}
    /\ level \in [Level -> {"absent", "directory", "other"}]
    /\ dir \in [Version -> Inode \cup {Absent}]
    /\ content \in [Inode -> Content]
    /\ {staged, granted, published} \subseteq Inode \cup {Absent}
    /\ kept \in BOOLEAN /\ exchanged \in BOOLEAN
    /\ job \in [write : {"plain", "managed"}, payload : {"broken", "foreign", "selected"},
                root : BOOLEAN]
    /\ pc \in Unpublished \cup {"displaced", "verify", "named", "active", "close", "undo",
                                "reswap", "unmove", "restored", "done"}
    /\ result \in {"none", "ok", "error", "recovery"}
    /\ faults \in 0..MaxFaults
    /\ before \in [Version -> Inode \cup {Absent}]
    /\ deeds \subseteq {"updated", "removed", "renamed"}
    /\ taken \subseteq Inode

Versions(d) == {v \in Version : d[v] # Absent}

\* latest_version_directory: the greatest number, whatever the directory holds.
Latest(d) == IF Versions(d) = {} THEN Absent ELSE Max(Versions(d))

\* profile_suffix_for_application: the first key that decides, and Absent for
\* an error.  An identifier is known by what it is or what it contains.
Suffix(p) ==
    LET Checked(name) == IF name = Unsafe THEN Absent ELSE name IN
    CASE p = Absent -> Absent
      [] p # Absent /\ p.product # Absent -> Checked(p.product)
      [] p # Absent /\ p.product = Absent /\ p.identifier = "helium" -> "net.imput.helium"
      [] p # Absent /\ p.product = Absent /\ p.identifier # "helium" /\ p.name # Absent ->
            Checked(p.name)
      [] OTHER -> CASE p.identifier = "thorium" -> "Thorium"
                    [] p.identifier = "chromium" -> "Chromium"
                    [] OTHER -> Checked(p.stem)

\* verify_payload_at
Whole(i) == i # Absent /\ content[i] \notin {"none", "broken"}

Init ==
    /\ plist \in Plists
    /\ \E S \in SUBSET Version : dir = [v \in Version |-> IF v \in S THEN v ELSE Absent]
    /\ \E c \in Content \ {"none"} :
          content = [i \in Inode |-> IF i \notin Version THEN "none"
                                     ELSE IF i = Candidate THEN c ELSE "plain"]
    /\ dir[Candidate] = Absent => content[Candidate] = "broken"
    /\ IF Versions(dir) # {} THEN level = [l \in Level |-> "directory"]
       ELSE level \in [Level -> {"absent", "directory", "other"}]
    /\ level["profile"] # "directory" => level["component"] = "absent"
    /\ level["support"] # "directory" => level["profile"] = "absent"
    /\ staged = Absent /\ kept = FALSE
    /\ job \in [write : {"plain", "managed"}, payload : {"broken", "foreign", "selected"},
                root : BOOLEAN]
    /\ target = Absent /\ granted = Absent /\ published = Absent /\ exchanged = FALSE
    /\ pc = "idle" /\ result = "none" /\ faults = 0
    /\ before = dir /\ deeds = {} /\ taken = {}

-----------------------------------------------------------------------------
(* The end of a step.                                                      *)

Fault == faults < MaxFaults /\ faults' = faults + 1
Sound == UNCHANGED faults

\* A condition that holds, unless looking fails.
Held(condition) == condition /\ Sound
Refuted(condition) == IF condition THEN Fault ELSE Sound

Goto(next) == pc' = next /\ UNCHANGED result
Ends(r) == pc' = "done" /\ result' = r

World == <<plist, level, dir, content, before, deeds, taken>>
Asked == <<job, target, granted>>
Found == <<published, exchanged>>

\* An error before the exchange: the staging directory goes with its owner.
Drop == Ends("error") /\ staged' = Absent /\ UNCHANGED kept

\* `staging.keep()`: the transaction's state stays for the user.
Preserve == Ends("recovery") /\ kept' = TRUE /\ UNCHANGED staged

\* A validation that fails takes the publication back.
Roll == Goto("undo") /\ UNCHANGED <<staged, kept>>

\* A check, and what follows it.
Check(at, good, next, otherwise) ==
    /\ pc = at /\ UNCHANGED <<World, Asked, published>>
    /\ \/ Held(good) /\ Goto(next) /\ UNCHANGED <<staged, kept>>
       \/ Refuted(good) /\ otherwise

-----------------------------------------------------------------------------
(* The target, and the directories above it.                               *)

\* write_cdm: the login user's, for the version that the payload's manifest names.
WriteCdm ==
    /\ pc = "idle" /\ job.write = "plain"
    /\ target' = Suffix(plist)
    /\ before' = dir /\ deeds' = {} /\ taken' = {}
    /\ \/ Held(~job.root /\ Suffix(plist) # Absent) /\ Goto("capture")
       \/ Refuted(~job.root /\ Suffix(plist) # Absent) /\ Ends("error")
    /\ UNCHANGED <<plist, level, dir, content, staged, kept, job, granted, Found>>

\* cdm_target_for_candidate, which is asked before the target is authorized.
SelectTarget ==
    /\ pc = "idle" /\ job.write = "managed"
    /\ target' = Suffix(plist)
    /\ before' = dir /\ deeds' = {} /\ taken' = {}
    /\ \/ Held(Suffix(plist) # Absent) /\ Goto("capture")
       \/ Refuted(Suffix(plist) # Absent) /\ Ends("error")
    /\ UNCHANGED <<plist, level, dir, content, staged, kept, job, granted, Found>>

\* TargetAuthorization::capture
Capture ==
    /\ pc = "capture"
    /\ \/ /\ Sound /\ granted' = dir[Candidate]
          /\ Goto(IF job.write = "plain" THEN "ensure" ELSE "check")
       \/ Fault /\ Ends("error") /\ UNCHANGED granted
    /\ UNCHANGED <<World, staged, kept, job, target, Found>>

\* write_authorized_managed_cdm: the login user's, and the profile is still named.
CheckTarget ==
    Check("check", ~job.root /\ Suffix(plist) = target, "ensure", Drop) /\ UNCHANGED exchanged

Above(l) == CASE l = "support" -> {} [] l = "profile" -> {"support"}
              [] l = "component" -> {"support", "profile"}

\* ensure_component_root_for_target: each directory in turn, made where it is not.
EnsureDirectory ==
    /\ pc = "ensure"
    /\ \E l \in Level :
          /\ level[l] # "directory" /\ \A a \in Above(l) : level[a] = "directory"
          /\ \/ /\ level[l] = "absent" /\ Sound
                /\ level' = [level EXCEPT ![l] = "directory"] /\ UNCHANGED <<pc, result>>
             \/ /\ Refuted(level[l] = "absent") /\ Ends("error") /\ UNCHANGED level
    /\ UNCHANGED <<plist, dir, content, before, deeds, taken, staged, kept, Asked, Found>>

Ensured ==
    /\ \A l \in Level : level[l] = "directory"
    /\ pc = "ensure" /\ Sound /\ Goto("open")
    /\ UNCHANGED <<World, staged, kept, Asked, Found>>

-----------------------------------------------------------------------------
(* replace_version_transactionally                                         *)

Fresh == {i \in Inode : content[i] = "none"}

\* A directory of the version's name in a staging directory of the component root.
OpenStaging ==
    /\ pc = "open"
    /\ \/ /\ Fresh # {} /\ Sound
          /\ staged' = Min(Fresh) /\ content' = [content EXCEPT ![Min(Fresh)] = "broken"]
          /\ Goto("copy") /\ UNCHANGED kept
       \/ Fault /\ Drop /\ UNCHANGED content
    /\ UNCHANGED <<plist, level, dir, before, deeds, taken, Asked, Found>>

\* Mutant: the copy is not verified before it is published.
CopyUnverified ==
    /\ pc = "copy" /\ Sound
    /\ content' = [content EXCEPT ![staged] = IF job.payload = "broken" THEN @ ELSE "plain"]
    /\ Goto(IF job.write = "plain" THEN "resolve" ELSE "mark")
    /\ UNCHANGED <<plist, level, dir, before, deeds, taken, staged, kept, Asked, Found>>

\* copy_recursive, verify_payload_at: the copy is whole if the payload is.
Copy ==
    /\ pc = "copy"
    /\ \/ /\ Held(job.payload # "broken")
          /\ content' = [content EXCEPT ![staged] = "plain"]
          /\ Goto(IF job.write = "plain" THEN "resolve" ELSE "mark")
          /\ UNCHANGED <<staged, kept>>
       \/ Refuted(job.payload # "broken") /\ Drop /\ UNCHANGED content
    /\ UNCHANGED <<plist, level, dir, before, deeds, taken, Asked, Found>>

\* The copy is of the selected payload; its marker is written and read back.
Mark ==
    /\ pc = "mark"
    /\ \/ /\ Held(job.payload = "selected")
          /\ content' = [content EXCEPT ![staged] = "selected"]
          /\ Goto("resolve") /\ UNCHANGED <<staged, kept>>
       \/ Refuted(job.payload = "selected") /\ Drop /\ UNCHANGED content
    /\ UNCHANGED <<plist, level, dir, before, deeds, taken, Asked, Found>>

\* resolve_destination: the application still names the profile.
Resolve == Check("resolve", Suffix(plist) = target, "authorize", Drop) /\ UNCHANGED exchanged

\* TargetAuthorization::validate: what was authorized is still there.
Authorize == Check("authorize", dir[Candidate] = granted, "pin", Drop) /\ UNCHANGED exchanged

Pin ==
    /\ pc = "pin"
    /\ \/ /\ Sound /\ published' = staged /\ Goto("swap") /\ UNCHANGED <<staged, kept>>
       \/ Fault /\ Drop /\ UNCHANGED published
    /\ UNCHANGED <<World, Asked, exchanged>>

\* atomic_rename, RENAME_SWAP: an exchange, if both are there.
Swap ==
    /\ pc = "swap"
    /\ \/ /\ dir[Candidate] # Absent /\ Sound
          /\ dir' = [dir EXCEPT ![Candidate] = staged] /\ staged' = dir[Candidate]
          /\ Goto("displaced") /\ UNCHANGED kept
       \/ dir[Candidate] = Absent /\ Sound /\ Goto("move") /\ UNCHANGED <<dir, staged, kept>>
       \/ Fault /\ Drop /\ UNCHANGED dir
    /\ UNCHANGED <<plist, level, content, before, deeds, taken, Asked, Found>>

\* atomic_rename, RENAME_EXCL: a move, if nothing is there by now.
Move ==
    /\ pc = "move"
    /\ \/ /\ Held(dir[Candidate] = Absent)
          /\ dir' = [dir EXCEPT ![Candidate] = staged] /\ staged' = Absent
          /\ Goto("displaced") /\ UNCHANGED kept
       \/ Refuted(dir[Candidate] = Absent) /\ Drop /\ UNCHANGED dir
    /\ UNCHANGED <<plist, level, content, before, deeds, taken, Asked, Found>>

\* What was displaced is what was authorized.
Displaced ==
    Check("displaced", staged = granted, "verify", Roll) /\ exchanged' = (staged # Absent)

\* validate_published_component: the payload is whole and has the wanted marker,
Verify ==
    /\ Check("verify",
             /\ Whole(dir[Candidate])
             /\ job.write = "managed" => content[dir[Candidate]] = "selected",
             "named", Roll)
    /\ UNCHANGED exchanged

\* the application still names the profile,
Named == Check("named", Suffix(plist) = target, "active", Roll) /\ UNCHANGED exchanged

\* and no greater version is there.
Active == Check("active", Latest(dir) = Candidate, "close", Roll) /\ UNCHANGED exchanged

\* The rollback begins only if both ends are what they should be.
Undo ==
    /\ Check("undo", dir[Candidate] = published /\ (exchanged => staged = granted), "reswap", Preserve)
    /\ UNCHANGED exchanged

\* atomic_rename again, RENAME_SWAP: what was displaced comes back.
Reswap ==
    /\ pc = "reswap"
    /\ \/ /\ exchanged /\ dir[Candidate] # Absent /\ Sound
          /\ dir' = [dir EXCEPT ![Candidate] = staged] /\ staged' = dir[Candidate]
          /\ Goto("restored") /\ UNCHANGED kept
       \/ /\ ~exchanged \/ dir[Candidate] = Absent
          /\ Sound /\ Goto("unmove") /\ UNCHANGED <<dir, staged, kept>>
       \/ Fault /\ Preserve /\ UNCHANGED dir
    /\ UNCHANGED <<plist, level, content, before, deeds, taken, Asked, Found>>

\* RENAME_EXCL: what was displaced, or else the copy, to where nothing is.
Unmove ==
    LET free == IF exchanged THEN dir[Candidate] = Absent ELSE dir[Candidate] # Absent IN
    /\ pc = "unmove"
    /\ \/ /\ Held(free)
          /\ dir' = [dir EXCEPT ![Candidate] = staged] /\ staged' = dir[Candidate]
          /\ Goto("restored") /\ UNCHANGED kept
       \/ Refuted(free) /\ Preserve /\ UNCHANGED dir
    /\ UNCHANGED <<plist, level, content, before, deeds, taken, Asked, Found>>

\* Both ends are looked at again, and close_authorized_staging removes the copy.
Restored ==
    LET both == dir[Candidate] = granted /\ staged = published IN
    /\ pc = "restored" /\ UNCHANGED <<World, Asked, Found>>
    /\ (Held(both) /\ Drop) \/ (Refuted(both) /\ Preserve)

\* close_authorized_staging: only what was authorized is removed.
Close ==
    /\ pc = "close"
    /\ \/ Held(staged = granted) /\ Ends("ok") /\ staged' = Absent /\ UNCHANGED kept
       \/ Refuted(staged = granted) /\ Preserve
    /\ UNCHANGED <<World, Asked, Found>>

-----------------------------------------------------------------------------
(* Others: the component updater, the user, an update of the application.  *)

Outside(deed) ==
    /\ pc \notin {"idle", "done"} /\ deeds' = deeds \cup {deed}
    /\ UNCHANGED <<staged, kept, Asked, Found, pc, result, faults, before>>

\* A version is installed, in place of its directory if there is one.
Update(v) ==
    /\ Cardinality(Fresh) > IF pc \in {"capture", "check", "ensure", "open"} THEN 1 ELSE 0
    /\ dir' = [dir EXCEPT ![v] = Min(Fresh)]
    /\ content' = [content EXCEPT ![Min(Fresh)] = "plain"]
    /\ level' = [l \in Level |-> "directory"] /\ "other" \notin Range(level)
    /\ taken' = taken \cup ({dir[v]} \ {Absent})
    /\ UNCHANGED plist /\ Outside("updated")

Remove(v) ==
    /\ dir[v] # Absent /\ Versions(dir) # {v} /\ "removed" \notin deeds
    /\ dir' = [dir EXCEPT ![v] = Absent] /\ taken' = taken \cup {dir[v]}
    /\ UNCHANGED <<plist, level, content>> /\ Outside("removed")

\* The application is replaced by one with another Info.plist, or is gone.
Replace ==
    /\ "renamed" \notin deeds /\ plist' \in (Plists \cup {Absent}) \ {plist}
    /\ UNCHANGED <<level, dir, content, taken>> /\ Outside("renamed")

Run ==
    \/ WriteCdm \/ SelectTarget \/ Capture \/ CheckTarget \/ EnsureDirectory \/ Ensured
    \/ OpenStaging \/ Copy \/ Mark \/ Resolve \/ Authorize \/ Pin \/ Swap \/ Move
    \/ Displaced \/ Verify \/ Named \/ Active \/ Undo \/ Reswap \/ Unmove \/ Restored \/ Close

\* A process that ends leaves the state it is in: the invariants hold there.
Next == Run \/ Replace \/ \E v \in Version : Update(v) \/ Remove(v)

Spec == Init /\ [][Next]_vars

-----------------------------------------------------------------------------
(* Properties.                                                             *)

\* A browser that had a whole component to load keeps one in every state of the
\* run, exchanged, moved, failed or rolled back, unless others have removed a
\* version meanwhile (replace_version_transactionally).
AlwaysLoadable ==
    pc # "idle" /\ "removed" \notin deeds /\ Latest(before) # Absent /\ Whole(before[Latest(before)])
        => Latest(dir) # Absent /\ Whole(dir[Latest(dir)])

\* What was authorized to be replaced exists, in its place or under the staging
\* directory, until the run that replaces it has succeeded or others take it away
\* (replace_version_transactionally, close_authorized_staging).
GrantedSurvives ==
    granted # Absent /\ granted \notin taken /\ result # "ok" =>
        granted \in Range(dir) \cup {staged}

\* The run removes no directory but the one it was authorized to replace and its
\* own copy, whatever others have put in their place (close_authorized_staging).
OnlyGrantedDestroyed ==
    Run => ({staged} \cup Range(dir)) \ ({staged'} \cup Range(dir')) \subseteq
              {granted, published, Absent} \cup (IF pc \in Unpublished THEN {staged} ELSE {})

\* A run that reports success, undisturbed, leaves its whole copy as the version
\* that the browser loads, with the wanted marker if it is managed.
SuccessIsLoaded ==
    result' = "ok" /\ result # "ok" /\ deeds = {} =>
        /\ Latest(dir') = Candidate /\ dir'[Candidate] = published /\ Whole(published)
        /\ job.write = "managed" => content[published] = "selected"

\* A run that reports an error, undisturbed, leaves the versions as they were,
\* unless it says that it could not and keeps what it displaced.
ErrorRestores ==
    result' = "error" /\ result # "error" /\ deeds = {} => dir' = before
=============================================================================
