------------------------------ MODULE Selection ------------------------------
(***************************************************************************)
(* The selected CDM where no links can be used (widevine/cache/mod.rs, the *)
(* `not(unix)` half): one file, selection.json, names the current and the  *)
(* previous version.  Ensure, rollback and prune hold the cache's lock and *)
(* are modelled between any two of their file operations, failure and kill *)
(* included; a passive reader (doctor, the diagnostics) takes no lock and  *)
(* checks the selected entry file by file while they run.                  *)
(*                                                                         *)
(* An entry is its library, its root manifest and the digests its metadata *)
(* names; anybody may change the user's files.                             *)
(***************************************************************************)
EXTENDS Naturals, FiniteSets

CONSTANTS Version, None,
          MaxOps,       \* bound on the operations
          MaxReads,     \* bound on the reads
          MaxDrift      \* bound on the changes made by others

VARIABLES file,         \* selection.json: "absent", "good" or "bad"
          current, previous,   \* the versions it names, when it is good
          entry,        \* the directory of each version
          op, arg, pc, doomed,   \* the operation that has the lock
          reader, reading, expected,  \* the passive reader, its version, the metadata it read
          ops, reads, drifts,
          \* History, read by the properties only:
          blemished,    \* versions others changed, or an earlier release left, not replaced since
          whole,        \* the entry was consistent at some moment of the read
          changed,      \* others changed the entry during the read
        cause         \* something gave the read a reason to fail

selection == <<file, current, previous>>
control == <<op, arg, pc, doomed>>
passive == <<reader, reading, expected>>
history == <<blemished, whole, changed, cause>>
vars == <<selection, entry, control, passive, ops, reads, drifts, history>>

Payload == {"vendor", "other", "gone"}
Digests == {"vendor", "other"} \X {"vendor", "other"}
Entry == [lib : Payload, man : Payload, meta : Digests \cup {<<"unusable">>, <<"gone">>}]
Vendor == [lib |-> "vendor", man |-> "vendor", meta |-> <<"vendor", "vendor">>]
Emptied == [lib |-> "gone", man |-> "gone", meta |-> <<"gone">>]

\* verify_cached_integrity succeeds on an entry that does not change meanwhile.
Consistent(e) == e # None /\ e.meta = <<e.lib, e.man>>

TypeOK ==
    /\ file \in {"absent", "good", "bad"}
    /\ current \in Version \cup {None} /\ previous \in Version \cup {None}
    /\ entry \in [Version -> Entry \cup {None}]
    /\ op \in {"none", "ensure", "rollback", "prune"}
    /\ arg \in Version \cup {None}
    /\ pc \in {"idle", "fetch", "compare", "remove", "rename", "advance", "verify", "exchange",
               "list", "delete"}
    /\ doomed \subseteq Version
    /\ reader \in {"idle", "layout", "metadata", "library", "manifest", "accepted", "nothing",
                   "failed"}
    /\ reading \in Version \cup {None}
    /\ expected \in Digests \cup {<<>>}
    /\ ops \in 0..MaxOps /\ reads \in 0..MaxReads /\ drifts \in 0..MaxDrift
    /\ blemished \subseteq Version
    /\ whole \in BOOLEAN /\ changed \in BOOLEAN /\ cause \in BOOLEAN

\* A cache that does not exist yet, or holds an unselected entry of an older release.
Init ==
    /\ file = "absent" /\ current = None /\ previous = None
    /\ \E old \in SUBSET Version :
         /\ Cardinality(old) < 2
         /\ entry = [v \in Version |->
                       IF v \in old THEN [Vendor EXCEPT !.meta = <<"unusable">>] ELSE None]
         /\ blemished = old
    /\ op = "none" /\ arg = None /\ pc = "idle" /\ doomed = {}
    /\ reader = "idle" /\ reading = None /\ expected = <<>>
    /\ ops = 0 /\ reads = 0 /\ drifts = 0
    /\ whole = FALSE /\ changed = FALSE /\ cause = FALSE

-----------------------------------------------------------------------------
(* The selection file.                                                      *)

\* read_selection fails on a file it cannot parse, that is too long or no file.
Readable == file # "bad"
\* A version that is named must be a directory.
Resolves(v) == Readable /\ (v = None \/ entry[v] # None)

\* The file is replaced as a whole (atomic_write).
WriteSelection(c, p) == file' = "good" /\ current' = c /\ previous' = p

Goto(s) == pc' = s /\ UNCHANGED <<op, arg, doomed>>

End == op' = "none" /\ arg' = None /\ pc' = "idle" /\ doomed' = {}

Begin(operation, v, first) ==
    /\ op = "none" /\ ops < MaxOps
    /\ ops' = ops + 1
    /\ op' = operation /\ arg' = v /\ pc' = first /\ doomed' = {}
    /\ UNCHANGED <<selection, entry, passive, reads, drifts, history>>

\* What the history of a read in progress takes from a step, in which others change
\* the entries of D: entry' is known.
Watched(D) ==
    LET v == reading
        active == reader \notin {"idle", "accepted", "nothing", "failed"}
    IN /\ changed' = (changed \/ (active /\ v \in D))
       /\ whole' = (whole \/ (active /\ Consistent(entry'[v])))
       /\ cause' = (cause \/ (active /\ \/ v \in blemished'
                                        \/ v \notin {current', previous'}))

-----------------------------------------------------------------------------
(* The operations, one file operation at a time.                            *)

\* The vendor's archive is fetched, authenticated, extracted and proved, or the
\* operation fails.
Fetched ==
    /\ pc = "fetch"
    /\ Goto("compare") \/ End
    /\ UNCHANGED <<selection, entry, passive, ops, reads, drifts, history>>

\* An entry with the vendor's payload is kept and its metadata refreshed.
Compare ==
    /\ pc = "compare"
    /\ LET e == entry[arg] IN
       IF e # None /\ e.lib = "vendor" /\ e.man = "vendor"
       THEN /\ entry' = [entry EXCEPT ![arg] = Vendor]
            /\ blemished' = blemished \ {arg}
            /\ Goto("advance")
       ELSE Goto("remove") /\ UNCHANGED <<entry, blemished>>
    /\ UNCHANGED <<selection, passive, ops, reads, drifts>>
    /\ Watched({})

\* The files of a tree that is removed go one by one, in any order, then the directory.
Removed(v) ==
    LET e == entry[v] IN
    \/ /\ e \notin {None, Emptied}
       /\ \E part \in {"lib", "man", "meta"} :
            /\ e[part] # Emptied[part]
            /\ entry' = [entry EXCEPT ![v] = [e EXCEPT ![part] = Emptied[part]]]
    \/ e = Emptied /\ entry' = [entry EXCEPT ![v] = None]

RemoveEntry ==
    /\ pc = "remove"
    /\ \/ Removed(arg) /\ UNCHANGED control
       \/ entry[arg] = None /\ entry' = entry /\ Goto("rename")
    /\ UNCHANGED <<selection, passive, ops, reads, drifts, blemished>>
    /\ Watched({})

RenameStaged ==
    /\ pc = "rename"
    /\ entry' = [entry EXCEPT ![arg] = Vendor]
    /\ blemished' = blemished \ {arg}
    /\ Goto("advance")
    /\ UNCHANGED <<selection, passive, ops, reads, drifts>>
    /\ Watched({})

\* advance_current: nothing to do for the selected version; a selection that does
\* not resolve is an error.
AdvanceCurrent ==
    /\ pc = "advance"
    /\ IF Resolves(current) /\ current # arg
       THEN WriteSelection(arg, current)
       ELSE UNCHANGED selection
    /\ End
    /\ UNCHANGED <<entry, passive, ops, reads, drifts, blemished>>
    /\ Watched({})

\* The previous version must agree with its metadata.
RollbackVerify ==
    /\ pc = "verify"
    /\ IF Resolves(previous) /\ previous # None /\ Consistent(entry[previous])
       THEN pc' = "exchange" /\ UNCHANGED <<op, arg, doomed>>
       ELSE End
    /\ UNCHANGED <<selection, entry, passive, ops, reads, drifts, history>>

\* rollback_unlocked reads both again, then writes both.
RollbackExchange ==
    /\ pc = "exchange"
    /\ IF Resolves(previous) /\ previous # None /\ Resolves(current)
       THEN WriteSelection(previous, current)
       ELSE UNCHANGED selection
    /\ End
    /\ UNCHANGED <<entry, passive, ops, reads, drifts, blemished>>
    /\ Watched({})

Spared == {current, previous}

\* Which of the others go depends on their age and on how many to keep.
PruneList ==
    /\ pc = "list"
    /\ IF Resolves(current) /\ Resolves(previous)
       THEN /\ doomed' \in SUBSET ({v \in Version : entry[v] # None} \ Spared)
            /\ pc' = "delete"
            /\ UNCHANGED <<op, arg>>
       ELSE End
    /\ UNCHANGED <<selection, entry, passive, ops, reads, drifts, history>>

PruneDelete ==
    /\ pc = "delete"
    /\ \/ doomed = {} /\ End /\ entry' = entry
       \/ \E v \in doomed :
            /\ Removed(v)
            /\ doomed' = IF entry'[v] = None THEN doomed \ {v} ELSE doomed
            /\ UNCHANGED <<op, arg, pc>>
    /\ UNCHANGED <<selection, passive, ops, reads, drifts, blemished>>
    /\ Watched({})

\* A file operation fails, or the process is killed; the lock is released.
Interrupted ==
    /\ op # "none"
    /\ End
    /\ UNCHANGED <<selection, entry, passive, ops, reads, drifts, history>>

-----------------------------------------------------------------------------
(* The passive reader (validated_current_readonly): no lock.                *)

ReadBegin ==
    /\ reader = "idle" /\ reads < MaxReads
    /\ reads' = reads + 1
    /\ IF ~Resolves(current)
       THEN reader' = "failed" /\ reading' = current
       ELSE IF current = None THEN reader' = "nothing" /\ reading' = None
       ELSE reader' = "layout" /\ reading' = current
    /\ expected' = <<>>
    /\ whole' = (reading' # None /\ Consistent(entry[reading']))
    /\ changed' = FALSE
    /\ cause' = \/ file = "bad" \/ reading' \in blemished
    /\ UNCHANGED <<selection, entry, control, ops, drifts, blemished>>

ReadStep(s, ok, next, meta) ==
    /\ reader = s
    /\ reader' = IF ok THEN next ELSE "failed"
    /\ expected' = IF ok THEN meta ELSE expected
    /\ UNCHANGED <<reading, selection, entry, control, ops, reads, drifts, history>>

\* The layout and the manifest's version (validate_extracted_cdm).
ReadLayout ==
    LET e == entry[reading] IN
    ReadStep("layout", e # None /\ e.lib # "gone" /\ e.man # "gone", "metadata", <<>>)

ReadMetadata ==
    LET e == entry[reading] IN
    ReadStep("metadata", e # None /\ e.meta \in Digests, "library", IF e = None THEN <<>> ELSE e.meta)

ReadLibrary ==
    LET e == entry[reading] IN
    ReadStep("library", e # None /\ e.lib = expected[1], "manifest", expected)

ReadManifest ==
    LET e == entry[reading] IN
    ReadStep("manifest", e # None /\ e.man = expected[2], "accepted", expected)

ReadEnd ==
    /\ reader \in {"accepted", "nothing", "failed"}
    /\ reader' = "idle" /\ reading' = None /\ expected' = <<>>
    /\ whole' = FALSE /\ changed' = FALSE /\ cause' = FALSE
    /\ UNCHANGED <<selection, entry, control, ops, reads, drifts, blemished>>

-----------------------------------------------------------------------------
\* Others change a file of an entry: even the metadata, to fit what is there.
Drift(v) ==
    /\ drifts < MaxDrift /\ entry[v] # None
    /\ drifts' = drifts + 1
    /\ LET e == entry[v] IN
       \E c \in {[e EXCEPT !.lib = "other"], [e EXCEPT !.man = "other"],
                 [e EXCEPT !.meta = <<"unusable">>]}
                 \cup (IF <<e.lib, e.man>> \in Digests
                       THEN {[e EXCEPT !.meta = <<e.lib, e.man>>]} ELSE {}) :
         entry' = [entry EXCEPT ![v] = c]
    /\ blemished' = blemished \cup {v}
    /\ UNCHANGED <<selection, control, passive, ops, reads>>
    /\ Watched({v})

\* ... or make the selection unreadable, or bring it back.
Spoil ==
    /\ drifts < MaxDrift
    /\ drifts' = drifts + 1
    /\ file = "good" /\ file' = "bad"
    /\ UNCHANGED <<current, previous, entry, control, passive, ops, reads, history>>

Restore ==
    /\ file = "bad" /\ file' = "good"
    /\ UNCHANGED <<current, previous, entry, control, passive, ops, reads, drifts, history>>

Operation ==
    \/ \E v \in Version : Begin("ensure", v, "fetch")
    \/ Begin("rollback", None, "verify")
    \/ Begin("prune", None, "list")
    \/ Fetched \/ Compare \/ RemoveEntry \/ RenameStaged \/ AdvanceCurrent
    \/ RollbackVerify \/ RollbackExchange \/ PruneList \/ PruneDelete \/ Interrupted

Read == ReadBegin \/ ReadLayout \/ ReadMetadata \/ ReadLibrary \/ ReadManifest \/ ReadEnd

Next == Operation \/ Read \/ Spoil \/ Restore \/ \E v \in Version : Drift(v)

Spec == Init /\ [][Next]_vars

-----------------------------------------------------------------------------
(* Properties.                                                              *)

Slots == INSTANCE TwoSlots

\* However operations are interrupted, and whenever somebody looks, the selection
\* has changed by whole advances and whole exchanges: never one half of either,
\* and never from a selection that cannot be read (cache/mod.rs:1198-1255; the
\* links of the other platforms take two steps for an advance).
SwitchesWhole == Slots!Spec

\* The version to go back to is still there: only its own replacement, which ends
\* with the vendor's files, or somebody else removes it (prune_unlocked,
\* mod.rs:500-513; remove_cache_entry, mod.rs:365).
SelectedKept ==
    \A v \in {current, previous} \ {None} :
         entry[v] # None /\ entry'[v] = None => op = "ensure" /\ arg = v

\* What a reader accepts without the lock was consistent at some moment of its read,
\* though it looks at three files one after the other while entries are removed and
\* replaced; others' changes apart (mod.rs:397-408, 916-944).
AcceptedWasWhole == reader = "accepted" => whole \/ changed

\* A reader reports a broken cache only when somebody had changed it, or when the
\* version it was reading had been displaced twice: no update of an intact
\* cache raises an alarm (mod.rs:349-363: a matching entry is never replaced).
AlarmHasCause == reader = "failed" => cause
=============================================================================
