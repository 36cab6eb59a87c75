--------------------------- MODULE InstallingProofs --------------------------
(***************************************************************************)
(* What TLAPS proves about the systems of an installation, in the          *)
(* variables that MCInstalling keeps them in: that what is trusted was     *)
(* vetted, that whoever looks for a component finds one that is whole,     *)
(* that what runs ends as it is told, and that what a command says is so.  *)
(* Each system is proved about in ComponentProofs; as a name is kept in    *)
(* one variable whatever system uses it, one instance of that module       *)
(* serves them all.                                                        *)
(***************************************************************************)
EXTENDS MCInstalling, TLAPS

Parts == INSTANCE ComponentProofs WITH
    MayFail <- FALSE, MaxDrift <- CalmDrifts, Candidate <- Offered,
    Plists <- InfoPlists, Unsafe <- "..", Absent <- None, MaxInode <- Inodes,
    MaxWrites <- LocalStates, MaxFaults <- PatchFaults, MaxSpoils <- MaxDrift,
    MaxOps <- Operations, MaxReads <- Reads, Reader <- {"r1", "r2"},
    Content <- {"c1", "c2"}, Length <- [c \in {"c1", "c2"} |-> 1], MaxFile <- 3,
    MaxSecond <- 1, Marked <- {"v1", "v2"}, Library <- {"l1", "l2"},
    Wanted <- [version |-> "v1", library |-> "l1"], Nothing <- None, Broken <- Torn,
    MaxOutside <- 2, Profile <- {"p1", "p2"}, MaxProfiles <- 1, Build <- 1..2,
    MaxChanges <- 2, MaxTests <- 1, Units <- <<"unit">>, MaxRuns <- 2,
    MaxOthers <- 1, GroupBits <- 2, Width <- 5, Fixed <- 2, Context <- 3,
    MaxPart <- 3, Path <- {"lib", "manifest", "other"}, LibraryPath <- "lib",
    Manifest <- "manifest", MaxEntry <- 2, MaxTotal <- 3, MaxEntries <- 3,
    Dirs <- 3, Depth <- 1, Famous <- {2},
    staging <- x1, pc <- x1, entry <- x2, job <- x2, opened <- x2, touched <- x2,
    os <- x2, current <- x3, result <- x3, now <- x3, verdict <- x3, exe <- x3,
    where <- x3, previous <- x4, target <- x4, moved <- x4, made <- x4,
    changes <- x4, input <- x4, op <- x5, dir <- x5, path <- x5, source <- x5,
    fs <- x5, at <- x5, parent <- x5, arg <- x6, content <- x6, memo <- x6,
    stage <- x6, cdm <- x6, merged <- x6, written <- x6, roots <- x6, doomed <- x7,
    staged <- x7, data <- x7, inode <- x7, comp <- x7, found <- x7, disk <- x7,
    layout <- x7, drifts <- x8, granted <- x8, stamp <- x8, marker <- x8,
    running <- x8, script <- x8, pending <- x8, order <- x9, published <- x9,
    file <- x9, read <- x9, manifest <- x9, owner <- x9, status <- x9, seen <- x9,
    step <- x10, faults <- x10, reader <- x10, answer <- x10, second <- x10,
    pre <- x10, removed <- x10, out <- x10, was <- x11, before <- x11,
    reading <- x11, held <- x11, pinned <- x11, half <- x11, migrated <- x11,
    intact <- x12, deeds <- x12, expected <- x12, used <- x12, outside <- x12,
    exit <- x12, skipped <- x12, plist <- x13, local <- x13, ops <- x13,
    sealed <- x13, runs <- x13, spoiled <- x13, level <- x14, root <- x14, reads <- x14,
    report <- x14, kept <- x15, payload <- x15, blemished <- x15, doctor <- x15,
    exchanged <- x16, writes <- x16, whole <- x16, raw <- x16, taken <- x17,
    late <- x17, changed <- x17, temp <- x17, cause <- x18, tests <- x18

-----------------------------------------------------------------------------
(* They are instances of what has been proved about.                       *)

\* The publication on macOS.
LEMMA FrameworkIsMac ==
  /\ Framework!Init <=> Parts!Mac!Init
  /\ Framework!Next <=> Parts!Mac!Next
  /\ Framework!vars = Parts!Mac!vars
  /\ Framework!TypeOK <=> Parts!Mac!TypeOK
  /\ Framework!AlwaysLoadable <=> Parts!Mac!AlwaysLoadable
  /\ Framework!GrantedSurvives <=> Parts!Mac!GrantedSurvives
  /\ Framework!OnlyGrantedDestroyed <=> Parts!Mac!OnlyGrantedDestroyed
  /\ Framework!SuccessIsLoaded <=> Parts!Mac!SuccessIsLoaded
  /\ Framework!ErrorRestores <=> Parts!Mac!ErrorRestores
<1>1. Framework!Init <=> Parts!Mac!Init
  BY Zenon DEF Framework!Init, Parts!Mac!Init, Framework!Content, Parts!Mac!Content,
     Framework!Inode, Parts!Mac!Inode, Framework!Versions, Parts!Mac!Versions, Framework!Level,
     Parts!Mac!Level
<1>2. Framework!Next <=> Parts!Mac!Next
  BY Zenon DEF Framework!Next, Parts!Mac!Next, Framework!Run, Parts!Mac!Run,
     Framework!Replace, Parts!Mac!Replace, Framework!Update, Parts!Mac!Update, Framework!Remove,
     Parts!Mac!Remove, Framework!WriteCdm, Parts!Mac!WriteCdm, Framework!SelectTarget,
     Parts!Mac!SelectTarget, Framework!Capture, Parts!Mac!Capture, Framework!CheckTarget,
     Parts!Mac!CheckTarget, Framework!EnsureDirectory, Parts!Mac!EnsureDirectory,
     Framework!Ensured, Parts!Mac!Ensured, Framework!OpenStaging, Parts!Mac!OpenStaging,
     Framework!Copy, Parts!Mac!Copy, Framework!Mark, Parts!Mac!Mark, Framework!Resolve,
     Parts!Mac!Resolve, Framework!Authorize, Parts!Mac!Authorize, Framework!Pin, Parts!Mac!Pin,
     Framework!Swap, Parts!Mac!Swap, Framework!Move, Parts!Mac!Move, Framework!Displaced,
     Parts!Mac!Displaced, Framework!Verify, Parts!Mac!Verify, Framework!Named, Parts!Mac!Named,
     Framework!Active, Parts!Mac!Active, Framework!Undo, Parts!Mac!Undo, Framework!Reswap,
     Parts!Mac!Reswap, Framework!Unmove, Parts!Mac!Unmove, Framework!Restored,
     Parts!Mac!Restored, Framework!Close, Parts!Mac!Close, Framework!Outside, Parts!Mac!Outside,
     Framework!Cardinality, Parts!Mac!Cardinality, Framework!Fresh, Parts!Mac!Fresh,
     Framework!Min, Parts!Mac!Min, Framework!Level, Parts!Mac!Level, Framework!Range,
     Parts!Mac!Range, Framework!Versions, Parts!Mac!Versions, Framework!Suffix, Parts!Mac!Suffix,
     Framework!Held, Parts!Mac!Held, Framework!Goto, Parts!Mac!Goto, Framework!Refuted,
     Parts!Mac!Refuted, Framework!Ends, Parts!Mac!Ends, Framework!Found, Parts!Mac!Found,
     Framework!Sound, Parts!Mac!Sound, Framework!Fault, Parts!Mac!Fault, Framework!World,
     Parts!Mac!World, Framework!Check, Parts!Mac!Check, Framework!Drop, Parts!Mac!Drop,
     Framework!Above, Parts!Mac!Above, Framework!Asked, Parts!Mac!Asked, Framework!Roll,
     Parts!Mac!Roll, Framework!Whole, Parts!Mac!Whole, Framework!Latest, Parts!Mac!Latest,
     Framework!Preserve, Parts!Mac!Preserve, Framework!Inode, Parts!Mac!Inode, Framework!Max,
     Parts!Mac!Max
<1>3. Framework!vars = Parts!Mac!vars
  BY Zenon DEF Framework!vars, Parts!Mac!vars
<1>4. Framework!TypeOK <=> Parts!Mac!TypeOK
  BY Zenon DEF Framework!TypeOK, Parts!Mac!TypeOK, Framework!Level, Parts!Mac!Level,
     Framework!Inode, Parts!Mac!Inode, Framework!Content, Parts!Mac!Content,
     Framework!Unpublished, Parts!Mac!Unpublished
<1>5. Framework!AlwaysLoadable <=> Parts!Mac!AlwaysLoadable
  BY Zenon DEF Framework!AlwaysLoadable, Parts!Mac!AlwaysLoadable, Framework!Latest,
     Parts!Mac!Latest, Framework!Whole, Parts!Mac!Whole, Framework!Versions, Parts!Mac!Versions,
     Framework!Max, Parts!Mac!Max
<1>6. Framework!GrantedSurvives <=> Parts!Mac!GrantedSurvives
  BY Zenon DEF Framework!GrantedSurvives, Parts!Mac!GrantedSurvives, Framework!Range,
     Parts!Mac!Range
<1>7. Framework!OnlyGrantedDestroyed <=> Parts!Mac!OnlyGrantedDestroyed
  BY Zenon DEF Framework!OnlyGrantedDestroyed, Parts!Mac!OnlyGrantedDestroyed, Framework!Run,
     Parts!Mac!Run, Framework!Range, Parts!Mac!Range, Framework!Unpublished,
     Parts!Mac!Unpublished, Framework!WriteCdm, Parts!Mac!WriteCdm, Framework!SelectTarget,
     Parts!Mac!SelectTarget, Framework!Capture, Parts!Mac!Capture, Framework!CheckTarget,
     Parts!Mac!CheckTarget, Framework!EnsureDirectory, Parts!Mac!EnsureDirectory,
     Framework!Ensured, Parts!Mac!Ensured, Framework!OpenStaging, Parts!Mac!OpenStaging,
     Framework!Copy, Parts!Mac!Copy, Framework!Mark, Parts!Mac!Mark, Framework!Resolve,
     Parts!Mac!Resolve, Framework!Authorize, Parts!Mac!Authorize, Framework!Pin, Parts!Mac!Pin,
     Framework!Swap, Parts!Mac!Swap, Framework!Move, Parts!Mac!Move, Framework!Displaced,
     Parts!Mac!Displaced, Framework!Verify, Parts!Mac!Verify, Framework!Named, Parts!Mac!Named,
     Framework!Active, Parts!Mac!Active, Framework!Undo, Parts!Mac!Undo, Framework!Reswap,
     Parts!Mac!Reswap, Framework!Unmove, Parts!Mac!Unmove, Framework!Restored,
     Parts!Mac!Restored, Framework!Close, Parts!Mac!Close, Framework!Suffix, Parts!Mac!Suffix,
     Framework!Held, Parts!Mac!Held, Framework!Goto, Parts!Mac!Goto, Framework!Refuted,
     Parts!Mac!Refuted, Framework!Ends, Parts!Mac!Ends, Framework!Found, Parts!Mac!Found,
     Framework!Sound, Parts!Mac!Sound, Framework!Fault, Parts!Mac!Fault, Framework!World,
     Parts!Mac!World, Framework!Check, Parts!Mac!Check, Framework!Drop, Parts!Mac!Drop,
     Framework!Level, Parts!Mac!Level, Framework!Above, Parts!Mac!Above, Framework!Asked,
     Parts!Mac!Asked, Framework!Fresh, Parts!Mac!Fresh, Framework!Min, Parts!Mac!Min,
     Framework!Roll, Parts!Mac!Roll, Framework!Whole, Parts!Mac!Whole, Framework!Latest,
     Parts!Mac!Latest, Framework!Preserve, Parts!Mac!Preserve, Framework!Inode, Parts!Mac!Inode,
     Framework!Versions, Parts!Mac!Versions, Framework!Max, Parts!Mac!Max
<1>8. Framework!SuccessIsLoaded <=> Parts!Mac!SuccessIsLoaded
  BY Zenon DEF Framework!SuccessIsLoaded, Parts!Mac!SuccessIsLoaded, Framework!Latest,
     Parts!Mac!Latest, Framework!Whole, Parts!Mac!Whole, Framework!Versions, Parts!Mac!Versions,
     Framework!Max, Parts!Mac!Max
<1>9. Framework!ErrorRestores <=> Parts!Mac!ErrorRestores
  BY Zenon DEF Framework!ErrorRestores, Parts!Mac!ErrorRestores
<1> QED
  BY <1>1, <1>2, <1>3, <1>4, <1>5, <1>6, <1>7, <1>8, <1>9

\* The publication on Windows.
LEMMA RegistryIsWin ==
  /\ Registry!Init <=> Parts!Win!Init
  /\ Registry!Next <=> Parts!Win!Next
  /\ Registry!vars = Parts!Win!vars
  /\ Registry!TypeOK <=> Parts!Win!TypeOK
  /\ Registry!AlwaysLoadable <=> Parts!Win!AlwaysLoadable
  /\ Registry!Immutable <=> Parts!Win!Immutable
  /\ Registry!StateKept <=> Parts!Win!StateKept
  /\ Registry!SuccessIsLoaded <=> Parts!Win!SuccessIsLoaded
  /\ Registry!ErrorRestores <=> Parts!Win!ErrorRestores
<1>1. Registry!Init <=> Parts!Win!Init
  BY Zenon DEF Registry!Init, Parts!Win!Init, Registry!Content, Parts!Win!Content,
     Registry!Inode, Parts!Win!Inode
<1>2. Registry!Next <=> Parts!Win!Next
  BY Zenon DEF Registry!Next, Parts!Win!Next, Registry!Run, Parts!Win!Run, Registry!Write,
     Parts!Win!Write, Registry!Replace, Parts!Win!Replace, Registry!Update, Parts!Win!Update,
     Registry!Remove, Parts!Win!Remove, Registry!SelectTarget, Parts!Win!SelectTarget,
     Registry!Capture, Parts!Win!Capture, Registry!CheckTarget, Parts!Win!CheckTarget,
     Registry!PinDirectories, Parts!Win!PinDirectories, Registry!Authorize, Parts!Win!Authorize,
     Registry!Exists, Parts!Win!Exists, Registry!Older, Parts!Win!Older, Registry!Stage,
     Parts!Win!Stage, Registry!Reauthorize, Parts!Win!Reauthorize, Registry!Rename,
     Parts!Win!Rename, Registry!Validate, Parts!Win!Validate, Registry!Undo, Parts!Win!Undo,
     Registry!Unname, Parts!Win!Unname, Registry!OpenState, Parts!Win!OpenState,
     Registry!WriteState, Parts!Win!WriteState, Registry!Compare, Parts!Win!Compare,
     Registry!Persist, Parts!Win!Persist, Registry!Loaded, Parts!Win!Loaded, Registry!Outside,
     Parts!Win!Outside, Registry!Cardinality, Parts!Win!Cardinality, Registry!Fresh,
     Parts!Win!Fresh, Registry!Min, Parts!Win!Min, Registry!Versions, Parts!Win!Versions,
     Registry!Sound, Parts!Win!Sound, Registry!Goto, Parts!Win!Goto, Registry!Fault,
     Parts!Win!Fault, Registry!Ends, Parts!Win!Ends, Registry!Mine, Parts!Win!Mine,
     Registry!State, Parts!Win!State, Registry!World, Parts!Win!World, Registry!Check,
     Parts!Win!Check, Registry!Drop, Parts!Win!Drop, Registry!Held, Parts!Win!Held,
     Registry!Refuted, Parts!Win!Refuted, Registry!IsCandidate, Parts!Win!IsCandidate,
     Registry!Latest, Parts!Win!Latest, Registry!Unregistered, Parts!Win!Unregistered,
     Registry!Inode, Parts!Win!Inode, Registry!Max, Parts!Win!Max
<1>3. Registry!vars = Parts!Win!vars
  BY Zenon DEF Registry!vars, Parts!Win!vars
<1>4. Registry!TypeOK <=> Parts!Win!TypeOK
  BY Zenon DEF Registry!TypeOK, Parts!Win!TypeOK, Registry!Inode, Parts!Win!Inode,
     Registry!Content, Parts!Win!Content, Registry!File, Parts!Win!File
<1>5. Registry!AlwaysLoadable <=> Parts!Win!AlwaysLoadable
  BY Zenon DEF Registry!AlwaysLoadable, Parts!Win!AlwaysLoadable, Registry!Loaded,
     Parts!Win!Loaded, Registry!Whole, Parts!Win!Whole, Registry!Versions, Parts!Win!Versions,
     Registry!Latest, Parts!Win!Latest, Registry!Max, Parts!Win!Max
<1>6. Registry!Immutable <=> Parts!Win!Immutable
  BY Zenon DEF Registry!Immutable, Parts!Win!Immutable, Registry!Run, Parts!Win!Run,
     Registry!SelectTarget, Parts!Win!SelectTarget, Registry!Capture, Parts!Win!Capture,
     Registry!CheckTarget, Parts!Win!CheckTarget, Registry!PinDirectories,
     Parts!Win!PinDirectories, Registry!Authorize, Parts!Win!Authorize, Registry!Exists,
     Parts!Win!Exists, Registry!Older, Parts!Win!Older, Registry!Stage, Parts!Win!Stage,
     Registry!Reauthorize, Parts!Win!Reauthorize, Registry!Rename, Parts!Win!Rename,
     Registry!Validate, Parts!Win!Validate, Registry!Undo, Parts!Win!Undo, Registry!Unname,
     Parts!Win!Unname, Registry!OpenState, Parts!Win!OpenState, Registry!WriteState,
     Parts!Win!WriteState, Registry!Compare, Parts!Win!Compare, Registry!Persist,
     Parts!Win!Persist, Registry!Sound, Parts!Win!Sound, Registry!Goto, Parts!Win!Goto,
     Registry!Fault, Parts!Win!Fault, Registry!Ends, Parts!Win!Ends, Registry!Mine,
     Parts!Win!Mine, Registry!State, Parts!Win!State, Registry!World, Parts!Win!World,
     Registry!Check, Parts!Win!Check, Registry!Drop, Parts!Win!Drop, Registry!Held,
     Parts!Win!Held, Registry!Refuted, Parts!Win!Refuted, Registry!IsCandidate,
     Parts!Win!IsCandidate, Registry!Latest, Parts!Win!Latest, Registry!Fresh, Parts!Win!Fresh,
     Registry!Min, Parts!Win!Min, Registry!Unregistered, Parts!Win!Unregistered,
     Registry!Versions, Parts!Win!Versions, Registry!Max, Parts!Win!Max, Registry!Inode,
     Parts!Win!Inode
<1>7. Registry!StateKept <=> Parts!Win!StateKept
  BY Zenon DEF Registry!StateKept, Parts!Win!StateKept, Registry!Run, Parts!Win!Run,
     Registry!SelectTarget, Parts!Win!SelectTarget, Registry!Capture, Parts!Win!Capture,
     Registry!CheckTarget, Parts!Win!CheckTarget, Registry!PinDirectories,
     Parts!Win!PinDirectories, Registry!Authorize, Parts!Win!Authorize, Registry!Exists,
     Parts!Win!Exists, Registry!Older, Parts!Win!Older, Registry!Stage, Parts!Win!Stage,
     Registry!Reauthorize, Parts!Win!Reauthorize, Registry!Rename, Parts!Win!Rename,
     Registry!Validate, Parts!Win!Validate, Registry!Undo, Parts!Win!Undo, Registry!Unname,
     Parts!Win!Unname, Registry!OpenState, Parts!Win!OpenState, Registry!WriteState,
     Parts!Win!WriteState, Registry!Compare, Parts!Win!Compare, Registry!Persist,
     Parts!Win!Persist, Registry!Sound, Parts!Win!Sound, Registry!Goto, Parts!Win!Goto,
     Registry!Fault, Parts!Win!Fault, Registry!Ends, Parts!Win!Ends, Registry!Mine,
     Parts!Win!Mine, Registry!State, Parts!Win!State, Registry!World, Parts!Win!World,
     Registry!Check, Parts!Win!Check, Registry!Drop, Parts!Win!Drop, Registry!Held,
     Parts!Win!Held, Registry!Refuted, Parts!Win!Refuted, Registry!IsCandidate,
     Parts!Win!IsCandidate, Registry!Latest, Parts!Win!Latest, Registry!Fresh, Parts!Win!Fresh,
     Registry!Min, Parts!Win!Min, Registry!Unregistered, Parts!Win!Unregistered,
     Registry!Versions, Parts!Win!Versions, Registry!Max, Parts!Win!Max, Registry!Inode,
     Parts!Win!Inode
<1>8. Registry!SuccessIsLoaded <=> Parts!Win!SuccessIsLoaded
  BY Zenon DEF Registry!SuccessIsLoaded, Parts!Win!SuccessIsLoaded, Registry!Loaded,
     Parts!Win!Loaded, Registry!Versions, Parts!Win!Versions, Registry!Latest, Parts!Win!Latest,
     Registry!Max, Parts!Win!Max
<1>9. Registry!ErrorRestores <=> Parts!Win!ErrorRestores
  BY Zenon DEF Registry!ErrorRestores, Parts!Win!ErrorRestores
<1> QED
  BY <1>1, <1>2, <1>3, <1>4, <1>5, <1>6, <1>7, <1>8, <1>9

\* The cache in which nothing fails.
LEMMA CalmIsCache ==
  /\ Calm!Init <=> Parts!Init
  /\ Calm!Next <=> Parts!Next
  /\ Calm!vars = Parts!vars
  /\ Calm!TypeOK <=> Parts!TypeOK
  /\ Calm!LinksDiffer <=> Parts!LinksDiffer
  /\ Calm!NeverStuck <=> Parts!NeverStuck
<1>1. Calm!Init <=> Parts!Init
  BY Zenon DEF Calm!Init, Parts!Init, Calm!Whole, Parts!Whole
<1>2. Calm!Next <=> Parts!Next
  BY Zenon DEF Calm!Next, Parts!Next, Calm!EnsureBegin, Parts!EnsureBegin,
     Calm!RollbackBegin, Parts!RollbackBegin, Calm!PruneBegin, Parts!PruneBegin, Calm!Work,
     Parts!Work, Calm!Fail, Parts!Fail, Calm!Kill, Parts!Kill, Calm!Drift, Parts!Drift,
     Calm!Begin, Parts!Begin, Calm!links, Parts!links, Calm!Ensure, Parts!Ensure, Calm!Rollback,
     Parts!Rollback, Calm!Prune, Parts!Prune, Calm!Return, Parts!Return, Calm!Ended, Parts!Ended,
     Calm!Interrupted, Parts!Interrupted, Calm!Goto, Parts!Goto, Calm!history, Parts!history,
     Calm!End, Parts!End, Calm!Touch, Parts!Touch, Calm!control, Parts!control,
     Calm!EnsureClearStaging, Parts!EnsureClearStaging, Calm!EnsureDownload,
     Parts!EnsureDownload, Calm!EnsureExtract, Parts!EnsureExtract, Calm!EnsureCompare,
     Parts!EnsureCompare, Calm!EnsureUnstage, Parts!EnsureUnstage, Calm!EnsureRemove,
     Parts!EnsureRemove, Calm!EnsureRename, Parts!EnsureRename, Calm!EnsureAdvance,
     Parts!EnsureAdvance, Calm!EnsureRepoint, Parts!EnsureRepoint, Calm!RollbackVerify,
     Parts!RollbackVerify, Calm!RollbackExchange, Parts!RollbackExchange, Calm!PruneList,
     Parts!PruneList, Calm!PruneDelete, Parts!PruneDelete, Calm!PruneSweep, Parts!PruneSweep,
     Calm!At, Parts!At, Calm!PartlyStaged, Parts!PartlyStaged, Calm!PartlyRemoved,
     Parts!PartlyRemoved, Calm!First, Parts!First, Calm!Forget, Parts!Forget, Calm!Whole,
     Parts!Whole, Calm!Resolves, Parts!Resolves, Calm!Expendable, Parts!Expendable,
     Calm!AtLeastOne, Parts!AtLeastOne, Calm!Partial, Parts!Partial, Calm!Range, Parts!Range,
     Calm!RemoveAt, Parts!RemoveAt, Calm!Contents, Parts!Contents, Calm!Changed, Parts!Changed,
     Calm!Agrees, Parts!Agrees, Calm!Disagrees, Parts!Disagrees
<1>3. Calm!vars = Parts!vars
  BY Zenon DEF Calm!vars, Parts!vars, Calm!links, Parts!links, Calm!control, Parts!control,
     Calm!history, Parts!history
<1>4. Calm!TypeOK <=> Parts!TypeOK
  BY Zenon DEF Calm!TypeOK, Parts!TypeOK, Calm!Contents, Parts!Contents, Calm!IsInjective,
     Parts!IsInjective, Calm!Range, Parts!Range, Calm!Steps, Parts!Steps
<1>5. Calm!LinksDiffer <=> Parts!LinksDiffer
  BY Zenon DEF Calm!LinksDiffer, Parts!LinksDiffer
<1>6. Calm!NeverStuck <=> Parts!NeverStuck
  BY Zenon DEF Calm!NeverStuck, Parts!NeverStuck
<1> QED
  BY <1>1, <1>2, <1>3, <1>4, <1>5, <1>6

\* The cache without links.
LEMMA CacheIsFile ==
  /\ Cache!Init <=> Parts!File!Init
  /\ Cache!Next <=> Parts!File!Next
  /\ Cache!vars = Parts!File!vars
  /\ Cache!Entry = Parts!File!Entry
  /\ Cache!TypeOK <=> Parts!File!TypeOK
  /\ Cache!AcceptedWasWhole <=> Parts!File!AcceptedWasWhole
  /\ Cache!AlarmHasCause <=> Parts!File!AlarmHasCause
  /\ Cache!SelectedKept <=> Parts!File!SelectedKept
<1>1. Cache!Init <=> Parts!File!Init
  BY Zenon DEF Cache!Init, Parts!File!Init, Cache!Cardinality, Parts!File!Cardinality,
     Cache!Vendor, Parts!File!Vendor
<1>2. Cache!Next <=> Parts!File!Next
  BY Zenon DEF Cache!Next, Parts!File!Next, Cache!Operation, Parts!File!Operation,
     Cache!Read, Parts!File!Read, Cache!Spoil, Parts!File!Spoil, Cache!Restore,
     Parts!File!Restore, Cache!Drift, Parts!File!Drift, Cache!Begin, Parts!File!Begin,
     Cache!Fetched, Parts!File!Fetched, Cache!Compare, Parts!File!Compare, Cache!RemoveEntry,
     Parts!File!RemoveEntry, Cache!RenameStaged, Parts!File!RenameStaged, Cache!AdvanceCurrent,
     Parts!File!AdvanceCurrent, Cache!RollbackVerify, Parts!File!RollbackVerify,
     Cache!RollbackExchange, Parts!File!RollbackExchange, Cache!PruneList, Parts!File!PruneList,
     Cache!PruneDelete, Parts!File!PruneDelete, Cache!Interrupted, Parts!File!Interrupted,
     Cache!ReadBegin, Parts!File!ReadBegin, Cache!ReadLayout, Parts!File!ReadLayout,
     Cache!ReadMetadata, Parts!File!ReadMetadata, Cache!ReadLibrary, Parts!File!ReadLibrary,
     Cache!ReadManifest, Parts!File!ReadManifest, Cache!ReadEnd, Parts!File!ReadEnd,
     Cache!control, Parts!File!control, Cache!passive, Parts!File!passive, Cache!history,
     Parts!File!history, Cache!Digests, Parts!File!Digests, Cache!selection,
     Parts!File!selection, Cache!Watched, Parts!File!Watched, Cache!Goto, Parts!File!Goto,
     Cache!End, Parts!File!End, Cache!Vendor, Parts!File!Vendor, Cache!Removed,
     Parts!File!Removed, Cache!Resolves, Parts!File!Resolves, Cache!WriteSelection,
     Parts!File!WriteSelection, Cache!Consistent, Parts!File!Consistent, Cache!Spared,
     Parts!File!Spared, Cache!ReadStep, Parts!File!ReadStep, Cache!Emptied, Parts!File!Emptied,
     Cache!Readable, Parts!File!Readable
<1>3. Cache!vars = Parts!File!vars
  BY Zenon DEF Cache!vars, Parts!File!vars, Cache!selection, Parts!File!selection,
     Cache!control, Parts!File!control, Cache!passive, Parts!File!passive, Cache!history,
     Parts!File!history
<1>4. Cache!Entry = Parts!File!Entry
  BY Zenon DEF Cache!Entry, Parts!File!Entry, Cache!Payload, Parts!File!Payload,
     Cache!Digests, Parts!File!Digests
<1>5. Cache!TypeOK <=> Parts!File!TypeOK
  BY Zenon DEF Cache!TypeOK, Parts!File!TypeOK, Cache!Entry, Parts!File!Entry, Cache!Digests,
     Parts!File!Digests, Cache!Payload, Parts!File!Payload
<1>6. Cache!AcceptedWasWhole <=> Parts!File!AcceptedWasWhole
  BY Zenon DEF Cache!AcceptedWasWhole, Parts!File!AcceptedWasWhole
<1>7. Cache!AlarmHasCause <=> Parts!File!AlarmHasCause
  BY Zenon DEF Cache!AlarmHasCause, Parts!File!AlarmHasCause
<1>8. Cache!SelectedKept <=> Parts!File!SelectedKept
  BY Zenon DEF Cache!SelectedKept, Parts!File!SelectedKept
<1> QED
  BY <1>1, <1>2, <1>3, <1>4, <1>5, <1>6, <1>7, <1>8

\* The digest memo.
LEMMA MemoIsMemo ==
  /\ Memo!Init <=> Parts!Memo!Init
  /\ Memo!Next <=> Parts!Memo!Next
  /\ Memo!vars = Parts!Memo!vars
  /\ Memo!Stamp = Parts!Memo!Stamp
  /\ Memo!Digest = Parts!Memo!Digest
  /\ Memo!TypeOK <=> Parts!Memo!TypeOK
  /\ Memo!Fresh <=> Parts!Memo!Fresh
  /\ Memo!MemoTrue <=> Parts!Memo!MemoTrue
<1>1. Memo!Init <=> Parts!Memo!Init
  BY Zenon DEF Memo!Init, Parts!Memo!Init, Memo!File, Parts!Memo!File, Memo!Stamp,
     Parts!Memo!Stamp, Memo!Second, Parts!Memo!Second
<1>2. Memo!Next <=> Parts!Memo!Next
  BY Zenon DEF Memo!Next, Parts!Memo!Next, Memo!Open, Parts!Memo!Open, Memo!Load,
     Parts!Memo!Load, Memo!Begin, Parts!Memo!Begin, Memo!Finish, Parts!Memo!Finish, Memo!Store,
     Parts!Memo!Store, Memo!Reading, Parts!Memo!Reading, Memo!Overwrite, Parts!Memo!Overwrite,
     Memo!Second, Parts!Memo!Second, Memo!Replace, Parts!Memo!Replace, Memo!Tick,
     Parts!Memo!Tick, Memo!Clear, Parts!Memo!Clear, Memo!At, Parts!Memo!At, Memo!StampOf,
     Parts!Memo!StampOf, Memo!World, Parts!Memo!World, Memo!Matches, Parts!Memo!Matches,
     Memo!Busy, Parts!Memo!Busy, Memo!Puts, Parts!Memo!Puts, Memo!Readers, Parts!Memo!Readers
<1>3. Memo!vars = Parts!Memo!vars
  BY Zenon DEF Memo!vars, Parts!Memo!vars
<1>4. Memo!Stamp = Parts!Memo!Stamp
  BY Zenon DEF Memo!Stamp, Parts!Memo!Stamp, Memo!Second, Parts!Memo!Second
<1>5. Memo!Digest = Parts!Memo!Digest
  BY Zenon DEF Memo!Digest, Parts!Memo!Digest
<1>6. Memo!TypeOK <=> Parts!Memo!TypeOK
  BY Zenon DEF Memo!TypeOK, Parts!Memo!TypeOK, Memo!Second, Parts!Memo!Second, Memo!File,
     Parts!Memo!File, Memo!Stamp, Parts!Memo!Stamp, Memo!Digest, Parts!Memo!Digest
<1>7. Memo!Fresh <=> Parts!Memo!Fresh
  BY Zenon DEF Memo!Fresh, Parts!Memo!Fresh
<1>8. Memo!MemoTrue <=> Parts!Memo!MemoTrue
  BY Zenon DEF Memo!MemoTrue, Parts!Memo!MemoTrue
<1> QED
  BY <1>1, <1>2, <1>3, <1>4, <1>5, <1>6, <1>7, <1>8

\* The ownership of a component.
LEMMA MarkerIsOwner ==
  /\ Marker!Init <=> Parts!Owner!Init
  /\ Marker!Next <=> Parts!Owner!Next
  /\ Marker!vars = Parts!Owner!vars
  /\ Marker!Marker = Parts!Owner!Marker
  /\ Marker!Payload = Parts!Owner!Payload
  /\ Marker!Directory = Parts!Owner!Directory
  /\ Marker!TypeOK <=> Parts!Owner!TypeOK
  /\ Marker!ReplaceableIsOurs <=> Parts!Owner!ReplaceableIsOurs
  /\ Marker!StagedIsSelected <=> Parts!Owner!StagedIsSelected
  /\ Marker!SealedHolds <=> Parts!Owner!SealedHolds
<1>1. Marker!Init <=> Parts!Owner!Init
  BY SMTT(30) DEF Marker!Init, Parts!Owner!Init, Marker!Whole, Parts!Owner!Whole,
     Marker!Candidate, Parts!Owner!Candidate
<1>2. Marker!Next <=> Parts!Owner!Next
  BY SMTT(30) DEF Marker!Next, Parts!Owner!Next, Marker!Capture, Parts!Owner!Capture,
     Marker!Root, Parts!Owner!Root, Marker!ReadMarker, Parts!Owner!ReadMarker,
     Marker!ReadManifest, Parts!Owner!ReadManifest, Marker!ReadLibrary, Parts!Owner!ReadLibrary,
     Marker!StageManifest, Parts!Owner!StageManifest, Marker!CopyLibrary,
     Parts!Owner!CopyLibrary, Marker!InspectStage, Parts!Owner!InspectStage, Marker!SealInspect,
     Parts!Owner!SealInspect, Marker!SealRename, Parts!Owner!SealRename, Marker!Replace,
     Parts!Owner!Replace, Marker!Tamper, Parts!Owner!Tamper, Marker!Killed, Parts!Owner!Killed,
     Marker!Goto, Parts!Owner!Goto, Marker!World, Parts!Owner!World, Marker!Ends,
     Parts!Owner!Ends, Marker!Readable, Parts!Owner!Readable, Marker!Unfit, Parts!Owner!Unfit,
     Marker!LibraryOf, Parts!Owner!LibraryOf, Marker!VerdictOf, Parts!Owner!VerdictOf,
     Marker!Candidate, Parts!Owner!Candidate, Marker!Outside, Parts!Owner!Outside, Marker!Whole,
     Parts!Owner!Whole, Marker!work, Parts!Owner!work, Marker!Cardinality,
     Parts!Owner!Cardinality
<1>3. Marker!vars = Parts!Owner!vars
  BY Zenon DEF Marker!vars, Parts!Owner!vars, Marker!work, Parts!Owner!work
<1>4. Marker!Marker = Parts!Owner!Marker
  BY Zenon DEF Marker!Marker, Parts!Owner!Marker
<1>5. Marker!Payload = Parts!Owner!Payload
  BY Zenon DEF Marker!Payload, Parts!Owner!Payload
<1>6. Marker!Directory = Parts!Owner!Directory
  BY Zenon DEF Marker!Directory, Parts!Owner!Directory, Marker!Marker, Parts!Owner!Marker,
     Marker!Payload, Parts!Owner!Payload
<1>7. Marker!TypeOK <=> Parts!Owner!TypeOK
  BY Zenon DEF Marker!TypeOK, Parts!Owner!TypeOK, Marker!Directory, Parts!Owner!Directory,
     Marker!Payload, Parts!Owner!Payload, Marker!Marker, Parts!Owner!Marker, Marker!Verdict,
     Parts!Owner!Verdict
<1>8. Marker!ReplaceableIsOurs <=> Parts!Owner!ReplaceableIsOurs
  BY Zenon DEF Marker!ReplaceableIsOurs, Parts!Owner!ReplaceableIsOurs, Marker!MarkerHolds,
     Parts!Owner!MarkerHolds, Marker!Candidate, Parts!Owner!Candidate, Marker!Whole,
     Parts!Owner!Whole
<1>9. Marker!StagedIsSelected <=> Parts!Owner!StagedIsSelected
  BY Zenon DEF Marker!StagedIsSelected, Parts!Owner!StagedIsSelected, Marker!Candidate,
     Parts!Owner!Candidate, Marker!Whole, Parts!Owner!Whole
<1>10. Marker!SealedHolds <=> Parts!Owner!SealedHolds
  BY Zenon DEF Marker!SealedHolds, Parts!Owner!SealedHolds, Marker!MarkerHolds,
     Parts!Owner!MarkerHolds, Marker!Whole, Parts!Owner!Whole
<1> QED
  BY <1>1, <1>2, <1>3, <1>4, <1>5, <1>6, <1>7, <1>8, <1>9, <1>10

\* The EME test and the doctor.
LEMMA EmeIsReport ==
  /\ Eme!Init <=> Parts!Eme!Init
  /\ Eme!Next <=> Parts!Eme!Next
  /\ Eme!vars = Parts!Eme!vars
  /\ Eme!TypeOK <=> Parts!Eme!TypeOK
  /\ Eme!HitIsExact <=> Parts!Eme!HitIsExact
  /\ Eme!BlameIsNow <=> Parts!Eme!BlameIsNow
  /\ Eme!ReportWhole <=> Parts!Eme!ReportWhole
  /\ Eme!ExitIsVerdict <=> Parts!Eme!ExitIsVerdict
<1>1. Eme!Init <=> Parts!Eme!Init
  BY Zenon DEF Eme!Init, Parts!Eme!Init, Eme!Nil, Parts!Eme!Nil, Eme!File, Parts!Eme!File,
     Eme!Honest, Parts!Eme!Honest, Eme!Untouched, Parts!Eme!Untouched
<1>2. Eme!Next <=> Parts!Eme!Next
  BY Zenon DEF Eme!Next, Parts!Eme!Next, Eme!Files, Parts!Eme!Files, Eme!Browse,
     Parts!Eme!Browse, Eme!Test, Parts!Eme!Test, Eme!Examine, Parts!Eme!Examine,
     Eme!UpdateBrowser, Parts!Eme!UpdateBrowser, Eme!ChangeTarget, Parts!Eme!ChangeTarget,
     Eme!ChangeOwner, Parts!Eme!ChangeOwner, Eme!WriteLocal, Parts!Eme!WriteLocal,
     Eme!ChangeComponent, Parts!Eme!ChangeComponent, Eme!MakeProfile, Parts!Eme!MakeProfile,
     Eme!Nil, Parts!Eme!Nil, Eme!Loaded, Parts!Eme!Loaded, Eme!files, Parts!Eme!files, Eme!test,
     Parts!Eme!test, Eme!store, Parts!Eme!store, Eme!Begin, Parts!Eme!Begin, Eme!PreTaken,
     Parts!Eme!PreTaken, Eme!Launch, Parts!Eme!Launch, Eme!Answer, Parts!Eme!Answer,
     Eme!NoAnswer, Parts!Eme!NoAnswer, Eme!PostHalf, Parts!Eme!PostHalf, Eme!PostTaken,
     Parts!Eme!PostTaken, Eme!WriteTemp, Parts!Eme!WriteTemp, Eme!Rename, Parts!Eme!Rename,
     Eme!Killed, Parts!Eme!Killed, Eme!Fingerprint, Parts!Eme!Fingerprint, Eme!Components,
     Parts!Eme!Components, Eme!Hit, Parts!Eme!Hit, Eme!Review, Parts!Eme!Review, Eme!Changed,
     Parts!Eme!Changed, Eme!Garbled, Parts!Eme!Garbled, Eme!Component, Parts!Eme!Component,
     Eme!Goes, Parts!Eme!Goes, Eme!Stop, Parts!Eme!Stop, Eme!Keeps, Parts!Eme!Keeps, Eme!ExitOf,
     Parts!Eme!ExitOf, Eme!Assess, Parts!Eme!Assess, Eme!ScopeComplete, Parts!Eme!ScopeComplete,
     Eme!Exact, Parts!Eme!Exact, Eme!Entries, Parts!Eme!Entries, Eme!Named, Parts!Eme!Named,
     Eme!Dirs, Parts!Eme!Dirs, Eme!Cardinality, Parts!Eme!Cardinality, Eme!Inspected,
     Parts!Eme!Inspected, Eme!File, Parts!Eme!File, Eme!Told, Parts!Eme!Told, Eme!ToldOf,
     Parts!Eme!ToldOf, Eme!AtTarget, Parts!Eme!AtTarget, Eme!Untouched, Parts!Eme!Untouched
<1>3. Eme!vars = Parts!Eme!vars
  BY Zenon DEF Eme!vars, Parts!Eme!vars, Eme!files, Parts!Eme!files, Eme!test,
     Parts!Eme!test, Eme!store, Parts!Eme!store
<1>4. Eme!TypeOK <=> Parts!Eme!TypeOK
  BY Zenon DEF Eme!TypeOK, Parts!Eme!TypeOK, Eme!Component, Parts!Eme!Component,
     Eme!IsFingerprint, Parts!Eme!IsFingerprint, Eme!Nil, Parts!Eme!Nil, Eme!Exact,
     Parts!Eme!Exact, Eme!File, Parts!Eme!File
<1>5. Eme!HitIsExact <=> Parts!Eme!HitIsExact
  BY Zenon DEF Eme!HitIsExact, Parts!Eme!HitIsExact, Eme!Covers, Parts!Eme!Covers, Eme!Same,
     Parts!Eme!Same, Eme!Honest, Parts!Eme!Honest
<1>6. Eme!BlameIsNow <=> Parts!Eme!BlameIsNow
  BY Zenon DEF Eme!BlameIsNow, Parts!Eme!BlameIsNow
<1>7. Eme!ReportWhole <=> Parts!Eme!ReportWhole
  BY Zenon DEF Eme!ReportWhole, Parts!Eme!ReportWhole
<1>8. Eme!ExitIsVerdict <=> Parts!Eme!ExitIsVerdict
  BY Zenon DEF Eme!ExitIsVerdict, Parts!Eme!ExitIsVerdict
<1> QED
  BY <1>1, <1>2, <1>3, <1>4, <1>5, <1>6, <1>7, <1>8

\* The removal of the first version.
LEMMA RemovalIsOld ==
  /\ Removal!Init <=> Parts!Old!Init
  /\ Removal!Next <=> Parts!Old!Next
  /\ Removal!vars = Parts!Old!vars
  /\ Removal!TypeOK <=> Parts!Old!TypeOK
  /\ Removal!SummaryTrue <=> Parts!Old!SummaryTrue
  /\ Removal!PackagedUntouched <=> Parts!Old!PackagedUntouched
  /\ Removal!CdmKept <=> Parts!Old!CdmKept
<1>1. Removal!Init <=> Parts!Old!Init
  BY Zenon DEF Removal!Init, Parts!Old!Init, Removal!Path, Parts!Old!Path, Removal!Unit,
     Parts!Old!Unit, Removal!Daemon, Parts!Old!Daemon, Removal!UnitPath, Parts!Old!UnitPath,
     Removal!Packaged, Parts!Old!Packaged, Removal!UserPath, Parts!Old!UserPath,
     Removal!Destination, Parts!Old!Destination, Removal!Dir, Parts!Old!Dir
<1>2. Removal!Next <=> Parts!Old!Next
  BY Zenon DEF Removal!Next, Parts!Old!Next, Removal!Begin, Parts!Old!Begin, Removal!Compose,
     Parts!Old!Compose, Removal!Refuse, Parts!Old!Refuse, Removal!Accept, Parts!Old!Accept,
     Removal!RunCommand, Parts!Old!RunCommand, Removal!ScriptEnds, Parts!Old!ScriptEnds,
     Removal!RemoveUser, Parts!Old!RemoveUser, Removal!Inspect, Parts!Old!Inspect,
     Removal!DropCdm, Parts!Old!DropCdm, Removal!MoveCdm, Parts!Old!MoveCdm, Removal!UserFails,
     Parts!Old!UserFails, Removal!Finish, Parts!Old!Finish, Removal!Kill, Parts!Old!Kill,
     Removal!PackageChange, Parts!Old!PackageChange, Removal!HostChange, Parts!Old!HostChange,
     Removal!OtherMoves, Parts!Old!OtherMoves, Removal!Detect, Parts!Old!Detect, Removal!host,
     Parts!Old!host, Removal!PackagedFound, Parts!Old!PackagedFound, Removal!Pending,
     Parts!Old!Pending, Removal!run, Parts!Old!run, Removal!outcome, Parts!Old!outcome,
     Removal!Leads, Parts!Old!Leads, Removal!Record, Parts!Old!Record, Removal!UserPath,
     Parts!Old!UserPath, Removal!AtUser, Parts!Old!AtUser, Removal!LegacyCdm,
     Parts!Old!LegacyCdm, Removal!Choose, Parts!Old!Choose, Removal!Destination,
     Parts!Old!Destination, Removal!UserLeft, Parts!Old!UserLeft, Removal!Working,
     Parts!Old!Working, Removal!PackageOwned, Parts!Old!PackageOwned, Removal!Elsewhere,
     Parts!Old!Elsewhere, Removal!Path, Parts!Old!Path, Removal!Daemon, Parts!Old!Daemon,
     Removal!Artifact, Parts!Old!Artifact, Removal!Exists, Parts!Old!Exists, Removal!UnitPath,
     Parts!Old!UnitPath, Removal!FirstSeen, Parts!Old!FirstSeen, Removal!Packaged,
     Parts!Old!Packaged, Removal!Before, Parts!Old!Before, Removal!ExitStatus,
     Parts!Old!ExitStatus, Removal!Gone, Parts!Old!Gone, Removal!Reported, Parts!Old!Reported,
     Removal!Canonical, Parts!Old!Canonical, Removal!Dir, Parts!Old!Dir, Removal!Unit,
     Parts!Old!Unit, Removal!Order, Parts!Old!Order, Removal!Reloads, Parts!Old!Reloads,
     Removal!UnitsIn, Parts!Old!UnitsIn
<1>3. Removal!vars = Parts!Old!vars
  BY Zenon DEF Removal!vars, Parts!Old!vars, Removal!outcome, Parts!Old!outcome
<1>4. Removal!TypeOK <=> Parts!Old!TypeOK
  BY SMTT(30) DEF Removal!TypeOK, Parts!Old!TypeOK, Removal!Path, Parts!Old!Path,
     Removal!Artifacts, Parts!Old!Artifacts, Removal!UnitPath, Parts!Old!UnitPath,
     Removal!UserPath, Parts!Old!UserPath, Removal!Daemon, Parts!Old!Daemon, Removal!Packaged,
     Parts!Old!Packaged, Removal!Destination, Parts!Old!Destination, Removal!Artifact,
     Parts!Old!Artifact, Removal!Dir, Parts!Old!Dir, Removal!Unit, Parts!Old!Unit
<1>5. Removal!SummaryTrue <=> Parts!Old!SummaryTrue
  BY Zenon DEF Removal!SummaryTrue, Parts!Old!SummaryTrue, Removal!Reported,
     Parts!Old!Reported, Removal!Gone, Parts!Old!Gone
<1>6. Removal!PackagedUntouched <=> Parts!Old!PackagedUntouched
  BY Zenon DEF Removal!PackagedUntouched, Parts!Old!PackagedUntouched, Removal!PackageOwned,
     Parts!Old!PackageOwned, Removal!Packaged, Parts!Old!Packaged, Removal!UnitPath,
     Parts!Old!UnitPath, Removal!Dir, Parts!Old!Dir, Removal!Unit, Parts!Old!Unit
<1>7. Removal!CdmKept <=> Parts!Old!CdmKept
  BY Zenon DEF Removal!CdmKept, Parts!Old!CdmKept, Removal!LegacyCdm, Parts!Old!LegacyCdm,
     Removal!Destination, Parts!Old!Destination
<1> QED
  BY <1>1, <1>2, <1>3, <1>4, <1>5, <1>6, <1>7

\* The containers.
LEMMA CrxIsArchive ==
  /\ Crx!Init <=> Parts!Arc!Init
  /\ Crx!Next <=> Parts!Arc!Next
  /\ Crx!vars = Parts!Arc!vars
  /\ Crx!TypeOK <=> Parts!Arc!TypeOK
  /\ Crx!VarintExact <=> Parts!Arc!VarintExact
  /\ Crx!Unambiguous <=> Parts!Arc!Unambiguous
  /\ Crx!MessageWhole <=> Parts!Arc!MessageWhole
  /\ Crx!RefusedUntouched <=> Parts!Arc!RefusedUntouched
  /\ Crx!WithinLimits <=> Parts!Arc!WithinLimits
  /\ Crx!ProvedIsArchive <=> Parts!Arc!ProvedIsArchive
<1>1. Crx!Init <=> Parts!Arc!Init
  BY Zenon DEF Crx!Init, Parts!Arc!Init, Crx!MaxBytes, Parts!Arc!MaxBytes, Crx!Byte,
     Parts!Arc!Byte, Crx!Field, Parts!Arc!Field, Crx!Entries, Parts!Arc!Entries, Crx!Package,
     Parts!Arc!Package, Crx!Pow, Parts!Arc!Pow, Crx!Entry, Parts!Arc!Entry, Crx!Size,
     Parts!Arc!Size
<1>2. Crx!Next <=> Parts!Arc!Next
  BY Zenon DEF Crx!Next, Parts!Arc!Next, Crx!Vet, Parts!Arc!Vet, Crx!Open, Parts!Arc!Open,
     Crx!Stream, Parts!Arc!Stream, Crx!Prove, Parts!Arc!Prove, Crx!Fails, Parts!Arc!Fails,
     Crx!Tamper, Parts!Arc!Tamper, Crx!Vetted, Parts!Arc!Vetted, Crx!Goto, Parts!Arc!Goto,
     Crx!Ends, Parts!Arc!Ends, Crx!NextEntry, Parts!Arc!NextEntry, Crx!Unfit, Parts!Arc!Unfit,
     Crx!Total, Parts!Arc!Total, Crx!Digestible, Parts!Arc!Digestible, Crx!Sums, Parts!Arc!Sums
<1>3. Crx!vars = Parts!Arc!vars
  BY Zenon DEF Crx!vars, Parts!Arc!vars
<1>4. Crx!TypeOK <=> Parts!Arc!TypeOK
  BY Zenon DEF Crx!TypeOK, Parts!Arc!TypeOK, Crx!Files, Parts!Arc!Files, Crx!Size,
     Parts!Arc!Size
<1>5. Crx!VarintExact <=> Parts!Arc!VarintExact
  BY Zenon DEF Crx!VarintExact, Parts!Arc!VarintExact, Crx!Ending, Parts!Arc!Ending,
     Crx!Groups, Parts!Arc!Groups, Crx!MaxBytes, Parts!Arc!MaxBytes, Crx!ReadVarint,
     Parts!Arc!ReadVarint, Crx!Pow, Parts!Arc!Pow, Crx!Goes, Parts!Arc!Goes, Crx!Sums,
     Parts!Arc!Sums, Crx!Payload, Parts!Arc!Payload
<1>6. Crx!Unambiguous <=> Parts!Arc!Unambiguous
  BY Zenon DEF Crx!Unambiguous, Parts!Arc!Unambiguous, Crx!Material, Parts!Arc!Material,
     Crx!Count, Parts!Arc!Count, Crx!Cardinality, Parts!Arc!Cardinality
<1>7. Crx!MessageWhole <=> Parts!Arc!MessageWhole
  BY Zenon DEF Crx!MessageWhole, Parts!Arc!MessageWhole, Crx!Message, Parts!Arc!Message,
     Crx!Part, Parts!Arc!Part, Crx!CopyWithin, Parts!Arc!CopyWithin, Crx!Crx, Parts!Arc!Crx
<1>8. Crx!RefusedUntouched <=> Parts!Arc!RefusedUntouched
  BY Zenon DEF Crx!RefusedUntouched, Parts!Arc!RefusedUntouched, Crx!Total, Parts!Arc!Total,
     Crx!Unfit, Parts!Arc!Unfit, Crx!Sums, Parts!Arc!Sums
<1>9. Crx!WithinLimits <=> Parts!Arc!WithinLimits
  BY Zenon DEF Crx!WithinLimits, Parts!Arc!WithinLimits, Crx!Sums, Parts!Arc!Sums,
     Crx!OnDisk, Parts!Arc!OnDisk
<1>10. Crx!ProvedIsArchive <=> Parts!Arc!ProvedIsArchive
  BY Zenon DEF Crx!ProvedIsArchive, Parts!Arc!ProvedIsArchive
<1> QED
  BY <1>1, <1>2, <1>3, <1>4, <1>5, <1>6, <1>7, <1>8, <1>9, <1>10

\* The list of the browsers.
LEMMA DiscoveryIsFound ==
  /\ Found!Init <=> Parts!Found!Init
  /\ Found!Next <=> Parts!Found!Next
  /\ Found!vars = Parts!Found!vars
  /\ Found!TypeOK <=> Parts!Found!TypeOK
  /\ Found!Complete <=> Parts!Found!Complete
  /\ Found!ListedOnce <=> Parts!Found!ListedOnce
<1>1. Found!Init <=> Parts!Found!Init
  BY Zenon DEF Found!Init, Parts!Found!Init, Found!Dir, Parts!Found!Dir, Found!Outside,
     Parts!Found!Outside, Found!Alias, Parts!Found!Alias
<1>2. Found!Next <=> Parts!Found!Next
  BY Zenon DEF Found!Next, Parts!Found!Next, Found!FindKnown, Parts!Found!FindKnown,
     Found!WalkUnix, Parts!Found!WalkUnix, Found!WalkWindows, Parts!Found!WalkWindows,
     Found!WalkEnds, Parts!Found!WalkEnds, Found!Custom, Parts!Found!Custom, Found!NoCustom,
     Parts!Found!NoCustom, Found!Push, Parts!Found!Push, Found!KnownEntries,
     Parts!Found!KnownEntries, Found!world, Parts!Found!world, Found!Real, Parts!Found!Real,
     Found!Outside, Parts!Found!Outside, Found!Entry, Parts!Found!Entry, Found!Entries,
     Parts!Found!Entries, Found!Chromium, Parts!Found!Chromium, Found!Last, Parts!Found!Last,
     Found!Leaf, Parts!Found!Leaf, Found!Front, Parts!Found!Front, Found!SetToSeqs,
     Parts!Found!SetToSeqs, Found!Children, Parts!Found!Children, Found!Node, Parts!Found!Node,
     Found!Installation, Parts!Found!Installation, Found!Listed, Parts!Found!Listed,
     Found!Installations, Parts!Found!Installations, Found!Places, Parts!Found!Places,
     Found!Alias, Parts!Found!Alias, Found!Holder, Parts!Found!Holder, Found!Dir,
     Parts!Found!Dir, Found!Exists, Parts!Found!Exists, Found!Cardinality,
     Parts!Found!Cardinality, Found!IsFiniteSet, Parts!Found!IsFiniteSet
<1>3. Found!vars = Parts!Found!vars
  BY Zenon DEF Found!vars, Parts!Found!vars, Found!world, Parts!Found!world
<1>4. Found!TypeOK <=> Parts!Found!TypeOK
  BY Zenon DEF Found!TypeOK, Parts!Found!TypeOK, Found!Dir, Parts!Found!Dir, Found!Outside,
     Parts!Found!Outside, Found!Node, Parts!Found!Node, Found!Path, Parts!Found!Path,
     Found!Alias, Parts!Found!Alias
<1>5. Found!Complete <=> Parts!Found!Complete
  BY Zenon DEF Found!Complete, Parts!Found!Complete, Found!Nested, Parts!Found!Nested,
     Found!Dir, Parts!Found!Dir, Found!Real, Parts!Found!Real, Found!Outside,
     Parts!Found!Outside, Found!Chromium, Parts!Found!Chromium, Found!Below, Parts!Found!Below,
     Found!Chain, Parts!Found!Chain, Found!Cardinality, Parts!Found!Cardinality, Found!Leaf,
     Parts!Found!Leaf, Found!Alias, Parts!Found!Alias, Found!Ancestors, Parts!Found!Ancestors,
     Found!Last, Parts!Found!Last, Found!IsFiniteSet, Parts!Found!IsFiniteSet
<1>6. Found!ListedOnce <=> Parts!Found!ListedOnce
  BY Zenon DEF Found!ListedOnce, Parts!Found!ListedOnce, Found!Leaf, Parts!Found!Leaf,
     Found!Last, Parts!Found!Last, Found!Alias, Parts!Found!Alias, Found!Real, Parts!Found!Real
<1> QED
  BY <1>1, <1>2, <1>3, <1>4, <1>5, <1>6

LEMMA SlotsAreSlots ==
  /\ Cache!Slots!Next <=> Parts!File!Slots!Next
  /\ UNCHANGED Cache!Slots!slots <=> UNCHANGED Parts!File!Slots!slots
BY Zenon DEF Cache!Slots!Next, Parts!File!Slots!Next, Cache!Slots!Advance,
   Parts!File!Slots!Advance, Cache!Slots!Exchange, Parts!File!Slots!Exchange,
   Cache!Slots!slots, Parts!File!Slots!slots

-----------------------------------------------------------------------------
(* The constants are as the proofs about the systems ask.                  *)

\* What the cache in which nothing fails assumes of its constants.
LEMMA InstancesAssume == Parts!ConstantsAssumption
<1>1. Parts!Contents = Contents
  BY DEF Contents, Parts!Contents
<1>2. None \notin Version /\ None \notin Contents /\ Keep \subseteq Nat
  BY ConstantsAssumption, Zenon DEF ConstantsAssumption
<1>3. CalmDrifts \in Nat
  BY InstallingAssumption DEF InstallingAssumption
<1> QED
  BY <1>1, <1>2, <1>3, Zenon DEF Parts!ConstantsAssumption

\* A pair is finite.
LEMMA PairsFinite ==
  ASSUME NEW a, NEW b
  PROVE  Parts!IsFiniteSet({a, b})
<1>1. /\ <<a, b>> \in Seq({a, b}) /\ Len(<<a, b>>) = 2
      /\ <<a, b>>[1] = a /\ <<a, b>>[2] = b
  OBVIOUS
<1>2. \A s \in {a, b} : \E n \in 1..Len(<<a, b>>) : <<a, b>>[n] = s
  BY <1>1
<1> QED
  BY <1>1, <1>2 DEF Parts!IsFiniteSet

\* What each system asks of those of its own.
LEMMA SystemsFit ==
  /\ Parts!Numbered /\ Parts!Registrable /\ Parts!Fitting /\ Parts!Memorable
  /\ Parts!Markable /\ Parts!Reportable /\ Parts!Bounded /\ Parts!Walkable
<1>1. Parts!Numbered
  BY InstallingAssumption DEF InstallingAssumption, Parts!Numbered
<1>2. Parts!Registrable
  BY <1>1, InstallingAssumption DEF InstallingAssumption, Parts!Registrable
<1>3. Parts!Fitting
  <2>1. None \notin Parts!File!Entry
    BY CacheIsFile, InstallingAssumption, Zenon DEF InstallingAssumption
  <2>2. MaxDrift \in Nat
    BY ConstantsAssumption, Zenon DEF ConstantsAssumption
  <2>3. None \notin Selectable /\ Operations \in Nat /\ Reads \in Nat
    BY InstallingAssumption, Zenon DEF InstallingAssumption
  <2> QED
    BY <2>1, <2>2, <2>3, Zenon DEF Parts!Fitting
<1>4. Parts!Memorable
  <2>1. None \notin [stamp : Parts!Memo!Stamp, digest : Parts!Memo!Digest \ {None}]
    BY MemoIsMemo, InstallingAssumption, Zenon DEF InstallingAssumption
  <2>2. Torn \notin {"c1", "c2"} /\ None \notin {"c1", "c2"} /\ None # Torn
    BY InstallingAssumption DEF InstallingAssumption
  <2>3. 3 \in Nat \ {0} /\ 1 \in Nat
    OBVIOUS
  <2> QED
    BY <2>1, <2>2, <2>3, Zenon DEF Parts!Memorable
<1>5. Parts!Markable
  <2>1. /\ None \notin Parts!Owner!Payload /\ None \notin Parts!Owner!Directory
        /\ {None, Torn} \cap Parts!Owner!Marker = {}
    BY MarkerIsOwner, InstallingAssumption, Zenon DEF InstallingAssumption
  <2>2. [version |-> "v1", library |-> "l1"] \in Parts!Owner!Marker
    BY DEF Parts!Owner!Marker
  <2>3. Parts!IsFiniteSet({"l1", "l2"})
    BY PairsFinite
  <2>4. /\ None # Torn /\ {None, Torn} \cap {"c1", "c2", "v1", "v2", "l1", "l2"} = {}
    BY InstallingAssumption, Zenon DEF InstallingAssumption
  <2>5. {None, Torn} \cap ({"v1", "v2"} \cup {"l1", "l2"} \cup Parts!Owner!Marker) = {}
    BY <2>1, <2>4
  <2>6. 2 \in Nat
    OBVIOUS
  <2> QED
    BY <2>1, <2>2, <2>3, <2>4, <2>5, <2>6, Zenon DEF Parts!Markable
<1>6. Parts!Reportable
  <2>1. Parts!IsFiniteSet({"p1", "p2"})
    BY PairsFinite
  <2>2. {"p1", "p2"} \cap {"exe", "target", "owner", "local"} = {}
    OBVIOUS
  <2>3. {None, Torn} \cap 1..2 = {} /\ Torn \notin Eme!File
    BY InstallingAssumption, Zenon DEF InstallingAssumption
  <2>4. 1 \in 1..2 /\ 1 \in Nat
    OBVIOUS
  <2>5. 1..2 # {} /\ Torn \notin 1..2
    BY <2>3, <2>4, Zenon
  <2>6. Torn \notin Parts!Eme!File
    BY <2>3, Zenon DEF Eme!File, Parts!Eme!File
  <2> QED
    BY <2>1, <2>2, <2>4, <2>5, <2>6, Zenon DEF Parts!Reportable
<1>7. Parts!Bounded
  BY DEF Parts!Bounded
<1>8. Parts!Walkable
  <2>1. 3 \in Nat \ {0} /\ 1 \in Nat /\ {2} \subseteq 1..3
    OBVIOUS
  <2> QED
    BY <2>1, Zenon DEF Parts!Walkable
<1> QED
  BY <1>1, <1>2, <1>3, <1>4, <1>5, <1>6, <1>7, <1>8

-----------------------------------------------------------------------------
(* The systems, each by its own invariant.                                 *)

PartsInv ==
    /\ sys = "macos" => Parts!MacInv /\ Parts!MacTold
    /\ sys = "windows" => Parts!WinInv /\ Parts!WinTold
    /\ sys = "calm" => Parts!CalmInv
    /\ sys = "selection" => Parts!ReaderInv
    /\ sys = "memo" => Parts!MemoInv
    /\ sys = "provenance" => Parts!OwnerInv
    /\ sys = "report" => Parts!ReportInv
    /\ sys = "legacy" => Parts!LegacyInv
    /\ sys = "archive" => Parts!ArchiveInv
    /\ sys = "discovery" => Parts!FoundInv

\* A system makes its own steps.
LEMMA PartsMove ==
  ASSUME [InstallingNext]_<<sys, vars, xs>>
  PROVE  /\ sys' = sys
         /\ sys = "macos" => [Parts!Mac!Next]_(Parts!Mac!vars)
         /\ sys = "windows" => [Parts!Win!Next]_(Parts!Win!vars)
         /\ sys = "calm" => [Parts!Next]_(Parts!vars)
         /\ sys = "selection" => [Parts!File!Next]_(Parts!File!vars)
         /\ sys = "memo" => [Parts!Memo!Next]_(Parts!Memo!vars)
         /\ sys = "provenance" => [Parts!Owner!Next]_(Parts!Owner!vars)
         /\ sys = "report" => [Parts!Eme!Next]_(Parts!Eme!vars)
         /\ sys = "legacy" => [Parts!Old!Next]_(Parts!Old!vars)
         /\ sys = "archive" => [Parts!Arc!Next]_(Parts!Arc!vars)
         /\ sys = "discovery" => [Parts!Found!Next]_(Parts!Found!vars)
<1>1. CASE InstallingNext
  BY <1>1, FrameworkIsMac, RegistryIsWin, CalmIsCache, CacheIsFile, MemoIsMemo, MarkerIsOwner,
     EmeIsReport, RemovalIsOld, CrxIsArchive, DiscoveryIsFound DEF InstallingNext
<1>2. CASE UNCHANGED <<sys, vars, xs>>
  BY <1>2 DEF xs, Parts!Mac!vars, Parts!Win!vars, Parts!vars, Parts!links, Parts!control,
     Parts!history, Parts!File!vars, Parts!File!selection, Parts!File!control,
     Parts!File!passive, Parts!File!history, Parts!Memo!vars, Parts!Owner!vars,
     Parts!Owner!work, Parts!Eme!vars, Parts!Eme!files, Parts!Eme!test, Parts!Eme!store,
     Parts!Old!vars, Parts!Old!outcome, Parts!Arc!vars, Parts!Found!vars, Parts!Found!world
<1> QED
  BY <1>1, <1>2

LEMMA PartsStart ==
  ASSUME InstallingInit
  PROVE  PartsInv
<1>1. ASSUME sys = "macos" PROVE Parts!MacInv /\ Parts!MacTold
  BY <1>1, FrameworkIsMac, Parts!MacInit, Parts!MacToldInit, InstancesAssume, SystemsFit
     DEF InstallingInit
<1>2. ASSUME sys = "windows" PROVE Parts!WinInv /\ Parts!WinTold
  BY <1>2, RegistryIsWin, Parts!WinInit, Parts!WinToldInit, InstancesAssume, SystemsFit
     DEF InstallingInit
<1>3. ASSUME sys = "calm" PROVE Parts!CalmInv
  BY <1>3, CalmIsCache, Parts!CalmInit, InstancesAssume DEF InstallingInit
<1>4. ASSUME sys = "selection" PROVE Parts!ReaderInv
  BY <1>4, CacheIsFile, Parts!ReaderInit, InstancesAssume, SystemsFit DEF InstallingInit
<1>5. ASSUME sys = "memo" PROVE Parts!MemoInv
  BY <1>5, MemoIsMemo, Parts!MemoInit, InstancesAssume, SystemsFit DEF InstallingInit
<1>6. ASSUME sys = "provenance" PROVE Parts!OwnerInv
  BY <1>6, MarkerIsOwner, Parts!OwnerInit, InstancesAssume, SystemsFit DEF InstallingInit
<1>7. ASSUME sys = "report" PROVE Parts!ReportInv
  BY <1>7, EmeIsReport, Parts!ReportInit, InstancesAssume, SystemsFit DEF InstallingInit
<1>8. ASSUME sys = "legacy" PROVE Parts!LegacyInv
  BY <1>8, RemovalIsOld, Parts!LegacyInit, InstancesAssume DEF InstallingInit
<1>9. ASSUME sys = "archive" PROVE Parts!ArchiveInv
  BY <1>9, CrxIsArchive, Parts!ArchiveStarts, InstancesAssume, SystemsFit DEF InstallingInit
<1>10. ASSUME sys = "discovery" PROVE Parts!FoundInv
  BY <1>10, DiscoveryIsFound, Parts!FoundInit, InstancesAssume, SystemsFit DEF InstallingInit
<1> QED
  BY <1>1, <1>2, <1>3, <1>4, <1>5, <1>6, <1>7, <1>8, <1>9, <1>10 DEF PartsInv

LEMMA PartsStep ==
  ASSUME PartsInv, [InstallingNext]_<<sys, vars, xs>>
  PROVE  PartsInv'
<1> USE PartsMove, InstancesAssume, SystemsFit
<1>1. ASSUME sys = "macos" PROVE Parts!MacInv' /\ Parts!MacTold'
  BY <1>1, Parts!MacStep, Parts!MacToldStep DEF PartsInv
<1>2. ASSUME sys = "windows" PROVE Parts!WinInv' /\ Parts!WinTold'
  BY <1>2, Parts!WinStep, Parts!WinToldStep DEF PartsInv
<1>3. ASSUME sys = "calm" PROVE Parts!CalmInv'
  BY <1>3, Parts!CalmStep DEF PartsInv
<1>4. ASSUME sys = "selection" PROVE Parts!ReaderInv'
  BY <1>4, Parts!ReaderInvStep DEF PartsInv
<1>5. ASSUME sys = "memo" PROVE Parts!MemoInv'
  BY <1>5, Parts!MemoStep DEF PartsInv
<1>6. ASSUME sys = "provenance" PROVE Parts!OwnerInv'
  BY <1>6, Parts!OwnerStep DEF PartsInv
<1>7. ASSUME sys = "report" PROVE Parts!ReportInv'
  BY <1>7, Parts!ReportStep DEF PartsInv
<1>8. ASSUME sys = "legacy" PROVE Parts!LegacyInv'
  BY <1>8, Parts!LegacyStep DEF PartsInv
<1>9. ASSUME sys = "archive" PROVE Parts!ArchiveInv'
  BY <1>9, Parts!ArchiveStays DEF PartsInv
<1>10. ASSUME sys = "discovery" PROVE Parts!FoundInv'
  BY <1>10, Parts!FoundStep DEF PartsInv
<1> QED
  BY <1>1, <1>2, <1>3, <1>4, <1>5, <1>6, <1>7, <1>8, <1>9, <1>10 DEF PartsInv

LEMMA PartsAlways == InstallingSpec => []PartsInv
<1>1. InstallingInit => PartsInv
  BY PartsStart
<1>2. PartsInv /\ [InstallingNext]_<<sys, vars, xs>> => PartsInv'
  BY PartsStep
<1> QED
  BY <1>1, <1>2, PTL DEF InstallingSpec

-----------------------------------------------------------------------------
(* What they promise.                                                      *)

\* Whoever looks for a component finds one: a browser on macOS or Windows throughout a
\* publication, the operations of a cache in which nothing fails, and the reader of the
\* selection, whose alarms have causes (patch/macos.rs, patch/windows.rs;
\* widevine/cache/mod.rs).
THEOREM SlotsAlwaysFilled == InstallingSpec => []SlotsFilled
<1>1. PartsInv => SlotsFilled
  <2> SUFFICES ASSUME PartsInv PROVE SlotsFilled
    OBVIOUS
  <2>1. ASSUME sys = "macos"
        PROVE  Framework!TypeOK /\ Framework!AlwaysLoadable /\ Framework!GrantedSurvives
    <3>1. Parts!MacInv
      BY <2>1 DEF PartsInv
    <3>2. Parts!Mac!AlwaysLoadable
      BY <3>1, Parts!MacLoadsWhole, InstancesAssume, SystemsFit
    <3> QED
      BY <3>1, <3>2, FrameworkIsMac DEF Parts!MacInv
  <2>2. ASSUME sys = "windows" PROVE Registry!TypeOK /\ Registry!AlwaysLoadable
    BY <2>2, RegistryIsWin DEF PartsInv, Parts!WinInv
  <2>3. ASSUME sys = "calm" PROVE Calm!TypeOK /\ Calm!LinksDiffer /\ Calm!NeverStuck
    BY <2>3, CalmIsCache DEF PartsInv, Parts!CalmInv
  <2>4. ASSUME sys = "selection"
        PROVE  Cache!TypeOK /\ Cache!AcceptedWasWhole /\ Cache!AlarmHasCause
    BY <2>4, CacheIsFile DEF PartsInv, Parts!ReaderInv
  <2> QED
    BY <2>1, <2>2, <2>3, <2>4 DEF SlotsFilled
<1> QED
  BY <1>1, PartsAlways, PTL

\* What is trusted is what was vetted: the fields of a container and the message that is
\* signed are read one way only and a refused container leaves nothing behind, a digest is
\* that of the bytes that are there, and what is replaced or sealed is as its marker says
\* (crx3.rs, extract.rs; file_memo.rs; ownership.rs).
THEOREM AlwaysVouched == InstallingSpec => []Vouched
<1>1. PartsInv => Vouched
  <2> SUFFICES ASSUME PartsInv PROVE Vouched
    OBVIOUS
  <2>1. ASSUME sys = "archive"
        PROVE  /\ Crx!TypeOK /\ Crx!VarintExact /\ Crx!Unambiguous /\ Crx!MessageWhole
               /\ Crx!RefusedUntouched /\ Crx!WithinLimits /\ Crx!ProvedIsArchive
    <3>1. Parts!ArchiveTrusted
      BY <2>1, Parts!ArchiveVouches, InstancesAssume, SystemsFit DEF PartsInv
    <3> QED
      BY <3>1, CrxIsArchive DEF Parts!ArchiveTrusted
  <2>2. ASSUME sys = "memo" PROVE Memo!TypeOK /\ Memo!Fresh /\ Memo!MemoTrue
    BY <2>2, MemoIsMemo DEF PartsInv, Parts!MemoInv
  <2>3. ASSUME sys = "provenance"
        PROVE  /\ Marker!TypeOK /\ Marker!ReplaceableIsOurs
               /\ Marker!StagedIsSelected /\ Marker!SealedHolds
    BY <2>3, MarkerIsOwner DEF PartsInv, Parts!OwnerInv
  <2> QED
    BY <2>1, <2>2, <2>3 DEF Vouched
<1> QED
  BY <1>1, PartsAlways, PTL

\* What a command says is so: an assessment holds for the files it names and one who is
\* blamed is to blame now, no browser is left out or listed twice, and a removal is summed
\* up as it went (diagnostics/store.rs, diagnostics/collect/; browsers/; migration/mod.rs).
THEOREM AlwaysTold == InstallingSpec => []ToldIsTrue
<1>1. PartsInv => ToldIsTrue
  <2> SUFFICES ASSUME PartsInv PROVE ToldIsTrue
    OBVIOUS
  <2>1. ASSUME sys = "report"
        PROVE  Eme!TypeOK /\ Eme!HitIsExact /\ Eme!BlameIsNow /\ Eme!ReportWhole
    <3>1. Parts!ReportInv
      BY <2>1 DEF PartsInv
    <3> QED
      BY <3>1, Parts!ReportTrue, InstancesAssume, EmeIsReport
  <2>2. ASSUME sys = "discovery" PROVE Found!TypeOK /\ Found!Complete /\ Found!ListedOnce
    <3>1. Parts!FoundInv /\ Parts!Found!TypeOK
      BY <2>2 DEF PartsInv, Parts!FoundInv
    <3>2. Parts!Found!Complete /\ Parts!Found!ListedOnce
      BY <3>1, Parts!FoundAll, Parts!FoundOnce, InstancesAssume, SystemsFit
    <3> QED
      BY <3>1, <3>2, DiscoveryIsFound
  <2>3. ASSUME sys = "legacy" PROVE Removal!TypeOK /\ Removal!SummaryTrue
    <3>1. Parts!LegacyInv
      BY <2>3 DEF PartsInv
    <3> QED
      BY <3>1, Parts!LegacyTrue, InstancesAssume, RemovalIsOld
  <2> QED
    BY <2>1, <2>2, <2>3 DEF ToldIsTrue
<1> QED
  BY <1>1, PartsAlways, PTL

\* What runs ends as it is told: a publication installs its candidate or restores what was
\* there and destroys only what it was granted, a selection changes whole and keeps its
\* versions, a removal spares what a package owns and the CDM, and the exit status of a test
\* is its verdict (patch/macos.rs, patch/windows.rs; widevine/cache/mod.rs;
\* migration/mod.rs; cli/test.rs).
THEOREM AllEndsAsTold == InstallingSpec => EndsAsTold
<1> DEFINE Ends ==
      /\ sys = "macos" => /\ Framework!OnlyGrantedDestroyed /\ Framework!SuccessIsLoaded
                          /\ Framework!ErrorRestores
      /\ sys = "windows" => /\ Registry!Immutable /\ Registry!StateKept
                            /\ Registry!SuccessIsLoaded /\ Registry!ErrorRestores
      /\ sys = "selection" => /\ Cache!SelectedKept
                              /\ Cache!Slots!Next \/ UNCHANGED Cache!Slots!slots
      /\ sys = "legacy" => Removal!PackagedUntouched /\ Removal!CdmKept
      /\ sys = "report" => Eme!ExitIsVerdict
<1>1. ASSUME PartsInv, InstallingNext PROVE Ends
  <2> USE <1>1, PartsMove, InstancesAssume, SystemsFit
  <2>1. ASSUME sys = "macos"
        PROVE  /\ Framework!OnlyGrantedDestroyed /\ Framework!SuccessIsLoaded
               /\ Framework!ErrorRestores
    <3>1. Parts!Mac!Next
      BY <2>1, FrameworkIsMac DEF InstallingNext
    <3> QED
      BY <2>1, <3>1, Parts!MacEnds, FrameworkIsMac DEF PartsInv
  <2>2. ASSUME sys = "windows"
        PROVE  /\ Registry!Immutable /\ Registry!StateKept
               /\ Registry!SuccessIsLoaded /\ Registry!ErrorRestores
    <3>1. Parts!Win!Next
      BY <2>2, RegistryIsWin DEF InstallingNext
    <3> QED
      BY <2>2, <3>1, Parts!WinEnds, RegistryIsWin DEF PartsInv
  <2>3. ASSUME sys = "selection"
        PROVE  Cache!SelectedKept /\ (Cache!Slots!Next \/ UNCHANGED Cache!Slots!slots)
    <3>1. Parts!ReaderInv /\ Parts!ReaderInv' /\ [Parts!File!Next]_(Parts!File!vars)
      BY <2>3, PartsStep DEF PartsInv
    <3>2. Parts!OpInv /\ Parts!Typed /\ Parts!Typed'
      BY <3>1 DEF Parts!ReaderInv, Parts!File!TypeOK, Parts!Typed
    <3>3. None \notin Parts!File!Entry
      BY DEF Parts!Fitting
    <3>4. Parts!File!SelectedKept
      BY <3>1, <3>2, <3>3, Parts!SelectionKeeps
    <3>5. Parts!File!Slots!Next \/ UNCHANGED Parts!File!Slots!slots
      BY <3>1, <3>2, Parts!SelectionMoves
    <3> QED
      BY <3>4, <3>5, CacheIsFile, SlotsAreSlots, Zenon
  <2>4. ASSUME sys = "legacy" PROVE Removal!PackagedUntouched /\ Removal!CdmKept
    BY <2>4, Parts!LegacyEnds, RemovalIsOld DEF PartsInv
  <2>5. ASSUME sys = "report" PROVE Eme!ExitIsVerdict
    <3>1. Parts!Eme!Next
      BY <2>5, EmeIsReport DEF InstallingNext
    <3> QED
      BY <2>5, <3>1, Parts!ReportExit, EmeIsReport DEF PartsInv
  <2> QED
    BY <2>1, <2>2, <2>3, <2>4, <2>5
<1>2. PartsInv /\ [InstallingNext]_<<sys, vars, xs>> => [Ends]_<<sys, vars, xs>>
  BY <1>1
<1> QED
  BY <1>2, PartsAlways, PTL DEF InstallingSpec, EndsAsTold
=============================================================================
