----------------------------- MODULE Provenance -----------------------------
(***************************************************************************)
(* Who owns a CDM (src/src/widevine/ownership.rs): the marker beside a     *)
(* payload, the classification that decides whether it may be replaced,    *)
(* and the copy of a payload from a cache that its user may change         *)
(* meanwhile into a directory that only the elevated child can write.      *)
(***************************************************************************)
EXTENDS Naturals, FiniteSets

CONSTANTS
    Version,    \* what a manifest may say
    Library,    \* what a library may hold; digests are what they are of
    Wanted,     \* the version and library of the candidate's marker
    Nothing,    \* no marker, no library, no manifest
    Broken,     \* a marker or a manifest that is not one
    MaxOutside  \* bound on what others do

Payload == [manifest : Version \cup {Nothing, Broken},
            libraries : SUBSET Library, host : BOOLEAN]
Marker == [version : Version, library : Library]
Directory == [marker : Marker \cup {Nothing, Broken}, payload : Payload, regular : BOOLEAN]

VARIABLES
    job,      \* "stage", "classify" or "seal"
    target,   \* the installed directory, or Nothing
    inode,    \* which one it is
    source,   \* the payload in the cache
    stage,    \* the payload under the trusted parent, or Nothing
    pc,       \* where the job stands
    pinned,   \* the inode captured before the classification
    marker,   \* the marker it has read, Nothing or Broken
    manifest, \* the manifest it has read
    second,   \* classify looks at the payload a second time
    verdict,  \* what the job came to
    outside,  \* counter
    sealed    \* history: what silvervine has sealed

work == <<pc, pinned, marker, manifest, second, verdict>>
vars == <<job, target, inode, source, stage, work, outside, sealed>>

Whole(v, l) == [manifest |-> v, libraries |-> {l}, host |-> TRUE]
Candidate == Whole(Wanted.version, Wanted.library)

Verdict == {"none", "missing", "managed", "legacy", "external", "invalid", "staged",
            "sealed", "error", "changed", "killed"}

TypeOK ==
    /\ job \in {"stage", "classify", "seal"}
    /\ target \in Directory \cup {Nothing} /\ inode \in Nat
    /\ source \in Payload /\ stage \in Payload \cup {Nothing}
    /\ pc \in {"start", "root", "marker", "manifest", "library", "validate",
               "copy", "inspect", "write", "rename", "done"}
    /\ pinned \in Nat /\ marker \in Marker \cup {Nothing, Broken}
    /\ manifest \in Version \cup {Nothing, Broken}
    /\ second \in BOOLEAN /\ verdict \in Verdict
    /\ outside \in 0..MaxOutside
    /\ sealed \subseteq Marker

\* Installed by silvervine, by the browser, half, or not at all; the cache has
\* the candidate or something else.
Init ==
    /\ job \in {"stage", "classify", "seal"}
    /\ target \in {Nothing} \cup
          {[marker |-> m, payload |-> p, regular |-> r] :
              m \in {Wanted, Nothing, Broken}, r \in BOOLEAN,
              p \in {Whole(v, l) : v \in Version, l \in Library}
                     \cup {[Candidate EXCEPT !.libraries = Library],
                           [Candidate EXCEPT !.host = FALSE]}}
    /\ source \in {Candidate, [Candidate EXCEPT !.manifest = Broken]}
    /\ inode = 1 /\ stage = Nothing
    /\ pc = "start" /\ pinned = 0 /\ marker = Nothing /\ manifest = Nothing
    /\ second = FALSE /\ verdict = "none"
    /\ outside = 0 /\ sealed = {Wanted}

-----------------------------------------------------------------------------
Goto(there) == pc' = there /\ UNCHANGED verdict
Ends(result) == pc' = "done" /\ verdict' = result
World == <<job, target, inode, source, stage, outside, sealed>>

\* One library in all, and in this platform's directory.
LibraryOf(p) ==
    IF Cardinality(p.libraries) = 1 /\ p.host THEN CHOOSE l \in p.libraries : TRUE ELSE Nothing

Readable(m) == m \notin {Nothing, Broken}

\* classify, as authorize_candidate_target and diagnostics call it.
Capture ==
    /\ job = "classify" /\ pc = "start" /\ Goto("root") /\ pinned' = inode
    /\ UNCHANGED <<World, marker, manifest, second>>

Root ==
    /\ job = "classify" /\ pc = "root"
    /\ IF target = Nothing THEN Ends("missing")
       ELSE IF ~target.regular THEN Ends("invalid")
       ELSE Goto("marker")
    /\ UNCHANGED <<World, pinned, marker, manifest, second>>

\* The marker is read first, then what it is about.
ReadMarker ==
    /\ job = "classify" /\ pc = "marker"
    /\ marker' = IF target = Nothing THEN Nothing ELSE target.marker
    /\ IF marker' = Broken THEN Ends("invalid") ELSE Goto("manifest")
    /\ UNCHANGED <<World, pinned, manifest, second>>

\* What a payload that cannot be inspected means to its marker.
Unfit == IF marker # Nothing THEN "invalid" ELSE "external"

ReadManifest ==
    /\ job = "classify" /\ pc = "manifest"
    /\ manifest' = IF target = Nothing THEN Nothing ELSE target.payload.manifest
    /\ IF Readable(manifest') THEN Goto("library") ELSE Ends(Unfit)
    /\ UNCHANGED <<World, pinned, marker, second>>

\* A marker agrees with everything it records; without one, all that may be
\* adopted is the candidate itself.
VerdictOf(v, l) ==
    LET found == [version |-> v, library |-> l] IN
    IF marker # Nothing THEN IF marker = found THEN "managed" ELSE "invalid"
    ELSE IF found = Wanted THEN "legacy" ELSE "external"

\* Without a marker the payload is inspected twice, and both must be fit.
ReadLibrary ==
    LET library == IF target = Nothing THEN Nothing ELSE LibraryOf(target.payload) IN
    /\ job = "classify" /\ pc = "library"
    /\ IF library = Nothing THEN Ends(Unfit) /\ UNCHANGED second
       ELSE IF marker = Nothing /\ ~second THEN Goto("manifest") /\ second' = TRUE
       ELSE Ends(VerdictOf(manifest, library)) /\ UNCHANGED second
    /\ UNCHANGED <<World, pinned, marker, manifest>>

-----------------------------------------------------------------------------
(* stage_verified_payload: the child copies what its parent selected.      *)

StageManifest ==
    /\ job = "stage" /\ pc = "start" /\ manifest' = source.manifest
    /\ IF manifest' = Wanted.version
       THEN /\ Goto("copy")
            /\ stage' = [manifest |-> manifest', libraries |-> {}, host |-> TRUE]
       ELSE Ends("error") /\ UNCHANGED stage
    /\ UNCHANGED <<job, target, inode, source, outside, sealed, pinned, marker, second>>

\* The library is hashed as it is copied; an error drops the directory.
CopyLibrary ==
    LET library == LibraryOf(source) IN
    /\ job = "stage" /\ pc = "copy"
    /\ IF library = Wanted.library
       THEN stage' = [stage EXCEPT !.libraries = {library}] /\ Goto("inspect")
       ELSE stage' = Nothing /\ Ends("error")
    /\ UNCHANGED <<job, target, inode, source, outside, sealed, pinned, marker, manifest, second>>

InspectStage ==
    /\ job = "stage" /\ pc = "inspect"
    /\ IF stage = Candidate THEN Ends("staged") /\ UNCHANGED stage
       ELSE Ends("error") /\ stage' = Nothing
    /\ UNCHANGED <<job, target, inode, source, outside, sealed, pinned, marker, manifest, second>>

-----------------------------------------------------------------------------
(* write_marker.                                                           *)

\* Mutant: the payload is not inspected before its marker is written.
SealUnseen ==
    /\ job = "seal" /\ pc = "start" /\ Goto("rename")
    /\ UNCHANGED <<World, pinned, marker, manifest, second>>

SealInspect ==
    /\ job = "seal" /\ pc = "start"
    /\ IF target # Nothing /\ target.regular /\ target.payload = Candidate
       THEN Goto("rename") ELSE Ends("error")
    /\ UNCHANGED <<World, pinned, marker, manifest, second>>

\* A new file takes the marker's name in one step, or its temporary goes.
SealRename ==
    /\ job = "seal" /\ pc = "rename"
    /\ IF target = Nothing THEN Ends("error") /\ UNCHANGED target
       ELSE target' = [target EXCEPT !.marker = Wanted] /\ Ends("sealed")
    /\ UNCHANGED <<job, inode, source, stage, outside, sealed, pinned, marker, manifest, second>>

-----------------------------------------------------------------------------
Outside == outside < MaxOutside /\ outside' = outside + 1 /\ pc # "done"

\* The directory is replaced as a whole, by one that has no marker, or removed.
Replace ==
    /\ job # "seal" /\ Outside
    /\ \E p \in {Candidate} \cup {Whole(v, l) : v \in Version, l \in Library} :
          target' \in {Nothing, [marker |-> Nothing, payload |-> p, regular |-> TRUE]}
    /\ inode' = inode + 1
    /\ UNCHANGED <<job, source, stage, work, sealed>>

\* The user of the cache changes it under the child.
Tamper ==
    /\ job = "stage" /\ Outside
    /\ source' \in {Whole(v, l) : v \in Version, l \in Library}
                   \cup {[Candidate EXCEPT !.libraries = {}]}
    /\ UNCHANGED <<job, target, inode, stage, work, sealed>>

Killed == pc \notin {"start", "done"} /\ Ends("killed")
          /\ UNCHANGED <<World, pinned, marker, manifest, second>>

Next == \/ Capture \/ Root \/ ReadMarker \/ ReadManifest \/ ReadLibrary
        \/ StageManifest \/ CopyLibrary \/ InspectStage \/ SealInspect \/ SealRename
        \/ Replace \/ Tamper \/ Killed

Spec == Init /\ [][Next]_vars

-----------------------------------------------------------------------------
(* Properties.                                                             *)

MarkerHolds(d) == d # Nothing /\ d.marker \in sealed /\ d.payload = Whole(d.marker.version, d.marker.library)

\* A verdict that lets core replace a directory, given while the pinned directory
\* stayed the target, is true of it: it is absent, carries a marker that holds, or
\* is the candidate's payload byte for byte. (Where the directory was exchanged
\* meanwhile, the marker of one and the payload of the other may agree: core
\* compares the directory's identity before it relies on the verdict.)
ReplaceableIsOurs ==
    job = "classify" /\ inode = pinned =>
        /\ verdict = "missing" => target = Nothing
        /\ verdict = "managed" => MarkerHolds(target)
        /\ verdict = "legacy" => target # Nothing /\ target.payload = Candidate

\* What the child takes from a cache that changes under it is the payload its
\* parent selected, whole; after an error nothing of it is left.
StagedIsSelected ==
    /\ verdict = "staged" => stage = Candidate
    /\ verdict = "error" => stage = Nothing

\* A marker is written only beside the payload that it records.
SealedHolds == verdict = "sealed" => MarkerHolds(target)
=============================================================================
