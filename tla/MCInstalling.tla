---------------------------- MODULE MCInstalling ----------------------------
(***************************************************************************)
(* What an installation is made of, system by system: each behaviour is    *)
(* one of one system, which `sys` names.  They do not meet in a step, so   *)
(* all but the cache, which is `CdmCache` itself, are kept in the same     *)
(* variables, and one run checks them.  Without failures the cache         *)
(* promises more: that is the system `calm`.                               *)
(***************************************************************************)
EXTENDS CdmCache, TLC

CONSTANTS
    v1, v2, v3,   \* versions of the cache
    Torn,         \* a file that cannot be read
    CalmDrifts,   \* bound on the changes others make where nothing fails
    Selectable,   \* the versions of a cache without links
    Operations,   \* bound on its operations
    Reads,        \* bound on the reads of it
    Numbers,      \* the versions of a browser's component
    Offered,      \* the one that is published
    InfoPlists,   \* what an Info.plist may say
    Inodes,       \* bound on the directories made
    LocalStates,  \* bound on the Local States written
    PatchFaults   \* bound on the calls that fail

VARIABLES
    sys,   \* the system of this behaviour
    x1, x2, x3, x4, x5, x6, x7, x8, x9, x10, x11, x12, x13, x14, x15, x16,
    x17, x18    \* its state

xs == <<x1, x2, x3, x4, x5, x6, x7, x8, x9, x10, x11, x12, x13, x14, x15,
        x16, x17, x18>>

(***************************************************************************)
(* The systems: constants, and the variable each of theirs is kept in.     *)
(***************************************************************************)

Removal == INSTANCE Legacy WITH
    Units <- <<"unit">>, MaxRuns <- 2, MaxChanges <- 1, pc <- x1,
    touched <- x2, result <- x3, changes <- x4, fs <- x5, merged <- x6,
    found <- x7, script <- x8, status <- x9, removed <- x10, migrated <- x11,
    skipped <- x12, runs <- x13

Crx == INSTANCE Archive WITH
    GroupBits <- 2, Width <- 5, Fixed <- 2, Context <- 3, MaxPart <- 3,
    Path <- {"lib", "manifest", "other"}, Library <- "lib",
    Manifest <- "manifest", MaxEntry <- 2, MaxTotal <- 3, MaxEntries <- 3,
    pc <- x1, job <- x2, verdict <- x3, input <- x4, at <- x5, written <- x6,
    disk <- x7

Calm == INSTANCE CdmCache WITH
    Version <- Version, None <- None, Keep <- Keep, MayFail <- FALSE,
    MaxDrift <- CalmDrifts, staging <- x1, entry <- x2, current <- x3,
    previous <- x4, op <- x5, arg <- x6, doomed <- x7, drifts <- x8,
    order <- x9, step <- x10, was <- x11, intact <- x12

Cache == INSTANCE Selection WITH
    Version <- Selectable, None <- None, MaxOps <- Operations,
    MaxReads <- Reads, MaxDrift <- MaxDrift, pc <- x1, entry <- x2,
    current <- x3, previous <- x4, op <- x5, arg <- x6, doomed <- x7,
    drifts <- x8, file <- x9, reader <- x10, reading <- x11, expected <- x12,
    ops <- x13, reads <- x14, blemished <- x15, whole <- x16, changed <- x17,
    cause <- x18

Memo == INSTANCE FileMemo WITH
    Reader <- {"r1", "r2"}, Content <- {"c1", "c2"},
    Length <- [c \in {"c1", "c2"} |-> 1], Torn <- Torn, None <- None,
    MaxFile <- 3, MaxSecond <- 1, pc <- x1, opened <- x2, now <- x3,
    made <- x4, path <- x5, memo <- x6, data <- x7, stamp <- x8, read <- x9,
    answer <- x10, held <- x11, used <- x12, spoiled <- x13

Marker == INSTANCE Provenance WITH
    Version <- {"v1", "v2"}, Library <- {"l1", "l2"},
    Wanted <- [version |-> "v1", library |-> "l1"], Nothing <- None,
    Broken <- Torn, MaxOutside <- 2, pc <- x1, job <- x2, verdict <- x3,
    target <- x4, source <- x5, stage <- x6, inode <- x7, marker <- x8,
    manifest <- x9, second <- x10, pinned <- x11, outside <- x12, sealed <- x13

Framework == INSTANCE MacosPatcher WITH
    Version <- Numbers, Candidate <- Offered, Absent <- None, Unsafe <- "..",
    Plists <- InfoPlists, MaxInode <- Inodes, MaxFaults <- PatchFaults,
    pc <- x1, job <- x2, result <- x3, target <- x4, dir <- x5, content <- x6,
    staged <- x7, granted <- x8, published <- x9, faults <- x10, before <- x11,
    deeds <- x12, plist <- x13, level <- x14, kept <- x15, exchanged <- x16,
    taken <- x17

Registry == INSTANCE WindowsPatcher WITH
    Version <- Numbers, Candidate <- Offered, Absent <- None, Torn <- Torn,
    MaxInode <- Inodes, MaxWrites <- LocalStates, MaxFaults <- PatchFaults,
    pc <- x1, opened <- x2, result <- x3, moved <- x4, dir <- x5,
    content <- x6, staged <- x7, granted <- x8, published <- x9, faults <- x10,
    before <- x11, deeds <- x12, local <- x13, root <- x14, payload <- x15,
    writes <- x16, late <- x17

Found == INSTANCE Discovery WITH
    N <- 3, MaxDepth <- 1, Known <- {2}, pc <- x1, os <- x2, where <- x3,
    target <- x4, parent <- x5, roots <- x6, layout <- x7, pending <- x8,
    seen <- x9, out <- x10

Eme == INSTANCE Report WITH
    Profile <- {"p1", "p2"}, MaxProfiles <- 1, Build <- 1..2, Absent <- None,
    Torn <- Torn, MaxChanges <- 2, MaxTests <- 1, pc <- x1, touched <- x2,
    exe <- x3, changes <- x4, dir <- x5, cdm <- x6, comp <- x7, running <- x8,
    owner <- x9, pre <- x10, half <- x11, exit <- x12, local <- x13,
    report <- x14, doctor <- x15, raw <- x16, temp <- x17, tests <- x18

\* Versions are numbers, and the first directories made are those of the versions;
\* what is not there and what cannot be read is none of what can.
ASSUME InstallingAssumption ==
    /\ CalmDrifts \in Nat /\ Operations \in Nat /\ Reads \in Nat
    /\ None \notin Selectable /\ None \notin Cache!Entry
    /\ Inodes \in Nat /\ LocalStates \in Nat \ {0} /\ PatchFaults \in Nat
    /\ Numbers \subseteq 1..Inodes /\ Offered \in Numbers
    /\ None \notin 1..Inodes /\ Torn \notin Numbers
    /\ None # Torn /\ {None, Torn} \cap 1..2 = {} /\ Torn \notin Eme!File
    /\ {None, Torn} \cap {"c1", "c2", "v1", "v2", "l1", "l2"} = {}
    /\ None \notin [stamp : Memo!Stamp, digest : Memo!Digest \ {None}]
    /\ {None, Torn} \cap Marker!Marker = {}
    /\ None \notin Marker!Payload /\ None \notin Marker!Directory

(***************************************************************************)
(* Their behaviours.                                                       *)
(***************************************************************************)

\* The variables from x_n on are not needed.
Spare(n) ==
    /\ n <= 1 => x1 = "spare"
    /\ n <= 2 => x2 = "spare"
    /\ n <= 3 => x3 = "spare"
    /\ n <= 4 => x4 = "spare"
    /\ n <= 5 => x5 = "spare"
    /\ n <= 6 => x6 = "spare"
    /\ n <= 7 => x7 = "spare"
    /\ n <= 8 => x8 = "spare"
    /\ n <= 9 => x9 = "spare"
    /\ n <= 10 => x10 = "spare"
    /\ n <= 11 => x11 = "spare"
    /\ n <= 12 => x12 = "spare"
    /\ n <= 13 => x13 = "spare"
    /\ n <= 14 => x14 = "spare"
    /\ n <= 15 => x15 = "spare"
    /\ n <= 16 => x16 = "spare"
    /\ n <= 17 => x17 = "spare"
    /\ n <= 18 => x18 = "spare"

\* The versions a cache is asked for, and the arguments of `prune`.
Versions == {v1, v2, v3}
Keeps == {0, 1, 2}
Symmetric == Permutations(Versions)

\* A product name that is given, and one that is no path component.
HeliumPlists ==
    {[product |-> None, identifier |-> "helium", name |-> "Helium", stem |-> "Helium"],
     [product |-> "..", identifier |-> None, name |-> "Helium", stem |-> "Helium"]}

\* A cache nobody uses.
AtRest == Init /\ current = None /\ previous = None /\ order = <<>>

InstallingInit ==
    \/ sys = "cache" /\ Init /\ Spare(1)
    \/ /\ AtRest
       /\ \/ sys = "legacy" /\ Removal!Init /\ Spare(14)
          \/ sys = "archive" /\ Crx!Init /\ Spare(8)
          \/ sys = "calm" /\ Calm!Init /\ Spare(13)
          \/ sys = "selection" /\ Cache!Init
          \/ sys = "memo" /\ Memo!Init /\ Spare(14)
          \/ sys = "provenance" /\ Marker!Init /\ Spare(14)
          \/ sys = "macos" /\ Framework!Init /\ Spare(18)
          \/ sys = "windows" /\ Registry!Init /\ Spare(18)
          \/ sys = "discovery" /\ Found!Init /\ Spare(11)
          \/ sys = "report" /\ Eme!Init

InstallingNext ==
    /\ UNCHANGED sys
    /\ \/ sys = "cache" /\ Next /\ UNCHANGED xs
       \/ sys = "legacy" /\ Removal!Next /\ UNCHANGED <<x14, x15, x16, x17, x18>> /\ UNCHANGED vars
       \/ sys = "archive" /\ Crx!Next /\ UNCHANGED <<x8, x9, x10, x11, x12, x13, x14, x15, x16, x17, x18>> /\ UNCHANGED vars
       \/ sys = "calm" /\ Calm!Next /\ UNCHANGED <<x13, x14, x15, x16, x17, x18>> /\ UNCHANGED vars
       \/ sys = "selection" /\ Cache!Next /\ UNCHANGED vars
       \/ sys = "memo" /\ Memo!Next /\ UNCHANGED <<x14, x15, x16, x17, x18>> /\ UNCHANGED vars
       \/ sys = "provenance" /\ Marker!Next /\ UNCHANGED <<x14, x15, x16, x17, x18>> /\ UNCHANGED vars
       \/ sys = "macos" /\ Framework!Next /\ UNCHANGED x18 /\ UNCHANGED vars
       \/ sys = "windows" /\ Registry!Next /\ UNCHANGED x18 /\ UNCHANGED vars
       \/ sys = "discovery" /\ Found!Next /\ UNCHANGED <<x11, x12, x13, x14, x15, x16, x17, x18>> /\ UNCHANGED vars
       \/ sys = "report" /\ Eme!Next /\ UNCHANGED vars

InstallingSpec == InstallingInit /\ [][InstallingNext]_<<sys, vars, xs>>

(***************************************************************************)
(* What they promise.                                                      *)
(***************************************************************************)

\* What is trusted is what was vetted: a container whose length fields are exact
\* and whose signed message is unambiguous, a digest of the bytes that are there,
\* a directory whose marker, manifest and library agree (crx3.rs, extract.rs;
\* file_memo.rs; ownership.rs).
Vouched ==
    /\ sys = "archive" => /\ Crx!TypeOK /\ Crx!VarintExact /\ Crx!Unambiguous /\ Crx!MessageWhole
                          /\ Crx!RefusedUntouched /\ Crx!WithinLimits /\ Crx!ProvedIsArchive
    /\ sys = "memo" => Memo!TypeOK /\ Memo!Fresh /\ Memo!MemoTrue
    /\ sys = "provenance" => /\ Marker!TypeOK /\ Marker!ReplaceableIsOurs
                             /\ Marker!StagedIsSelected /\ Marker!SealedHolds

\* What a command says is so: an assessment holds for the files it names, no
\* browser is left out or listed twice, and a removal is summed up as it went
\* (diagnostics/store.rs, diagnostics/collect/; browsers/; migration/mod.rs).
ToldIsTrue ==
    /\ sys = "report" => Eme!TypeOK /\ Eme!HitIsExact /\ Eme!BlameIsNow /\ Eme!ReportWhole
    /\ sys = "discovery" => Found!TypeOK /\ Found!Complete /\ Found!ListedOnce
    /\ sys = "legacy" => Removal!TypeOK /\ Removal!SummaryTrue

\* A browser finds a component it can load, and what is to be replaced survives its
\* replacement; whoever reads the selection of the cache finds a version that was
\* whole, or an alarm with a cause (patch/macos.rs, patch/windows.rs;
\* widevine/cache/mod.rs).
SlotsFilled ==
    /\ sys = "macos" => Framework!TypeOK /\ Framework!AlwaysLoadable /\ Framework!GrantedSurvives
    /\ sys = "windows" => Registry!TypeOK /\ Registry!AlwaysLoadable
    /\ sys = "calm" => Calm!TypeOK /\ Calm!LinksDiffer /\ Calm!NeverStuck
    /\ sys = "selection" => Cache!TypeOK /\ Cache!AcceptedWasWhole /\ Cache!AlarmHasCause

\* A publication installs its candidate or restores what was there, destroys what
\* it was granted and loses nothing that the browser has written; a selection changes whole and its versions stay in the
\* cache; a removal leaves what a package owns and a migrated CDM; and the exit
\* status of a test is its verdict (patch/macos.rs, patch/windows.rs;
\* widevine/cache/mod.rs; migration/mod.rs; cli/test.rs).
EndsAsTold ==
    [][/\ sys = "macos" => /\ Framework!OnlyGrantedDestroyed /\ Framework!SuccessIsLoaded
                           /\ Framework!ErrorRestores
       /\ sys = "windows" => /\ Registry!Immutable /\ Registry!StateKept
                             /\ Registry!SuccessIsLoaded /\ Registry!ErrorRestores
       /\ sys = "selection" => /\ Cache!SelectedKept
                               /\ Cache!Slots!Next \/ UNCHANGED Cache!Slots!slots
       /\ sys = "legacy" => Removal!PackagedUntouched /\ Removal!CdmKept
       /\ sys = "report" => Eme!ExitIsVerdict]_<<sys, vars, xs>>

=============================================================================
