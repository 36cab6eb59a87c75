------------------------------ MODULE CdmCache ------------------------------
(***************************************************************************)
(* The Widevine cache (src/src/widevine/cache/mod.rs): versioned           *)
(* directories under one root, the `current` and `previous` links, and the *)
(* operations that change them: ensure, rollback and prune.  The mutation  *)
(* lock lets one operation at a time into the root, so `op` is the one at  *)
(* work; what it leaves behind when its process is killed, or when a file  *)
(* operation fails, is what the next one finds.                            *)
(*                                                                         *)
(* The contents of a directory are abstracted to what the checks tell      *)
(* apart: whose the payload is, and whose digests the integrity metadata   *)
(* names.                                                                  *)
(***************************************************************************)
EXTENDS Integers, Sequences, SequencesExt, FiniteSets

CONSTANTS
    Version,        \* CDM versions
    None,           \* no version, no directory, no link
    Keep,           \* the arguments prune is called with
    MayFail,        \* whether file operations fail and processes are killed
    MaxDrift        \* bound on the changes made behind the cache's back

\* A payload the vendor signed, another one, one whose library was changed within its
\* length and second, an incomplete tree; metadata with the digests of the vendor's
\* payload, of the other, or none that can be used (absent, or an older schema).
Contents == [payload : {"vendor", "drifted", "unnoticed", "partial"},
             meta : {"vendor", "drifted", "unusable"}]
Whole == [payload |-> "vendor", meta |-> "vendor"]
Partial == [payload |-> "partial", meta |-> "unusable"]

ASSUME ConstantsAssumption ==
    /\ None \notin Version
    /\ None \notin Contents
    /\ Keep \subseteq Nat
    /\ MayFail \in BOOLEAN
    /\ MaxDrift \in Nat

VARIABLES
    entry,          \* contents of <root>/<version>
    staging,        \* contents of <root>/.staging-<version>
    order,          \* the version directories, latest modification first
    current,        \* target of the link `current`
    previous,       \* target of the link `previous`
    op,             \* the operation that has the lock
    arg,            \* its version
    step,           \* where it stands
    doomed,         \* versions the prune at work has still to delete
    drifts,         \* changes behind the cache's back so far
    \* History, read by the properties only:
    was,            \* current when the operation began
    intact          \* versions unchanged by anybody else since then

links == <<current, previous>>
control == <<op, arg, step, doomed>>
history == <<was, intact>>
vars == <<entry, staging, order, links, control, drifts, history>>

Steps == {"idle", "begin", "download", "extract", "compare", "unstage",
          "remove", "rename", "advance", "repoint", "verify", "exchange",
          "list", "delete", "sweep", "ok", "failed", "stuck"}
Ended == {"ok", "failed", "stuck"}

TypeOK ==
    /\ entry \in [Version -> Contents \cup {None}]
    /\ staging \in [Version -> Contents \cup {None}]
    /\ order \in Seq(Version) /\ IsInjective(order)
    /\ Range(order) = {v \in Version : entry[v] # None}
    /\ current \in Version \cup {None}
    /\ previous \in Version \cup {None}
    /\ op \in {"none", "ensure", "rollback", "prune"}
    /\ arg \in Version \cup {None}
    /\ step \in Steps
    /\ doomed \subseteq Version
    /\ drifts \in 0 .. MaxDrift
    /\ was \in Version \cup {None}
    /\ intact \subseteq Version

Init ==
    \* An empty root, or what an earlier release left: payloads it downloaded,
    \* with metadata of its own schema.
    /\ \E v \in Version \cup {None} :
         /\ entry = [w \in Version |->
                       IF w = v THEN [Whole EXCEPT !.meta = "unusable"] ELSE None]
         /\ order = IF v = None THEN <<>> ELSE <<v>>
         /\ current = v
    /\ staging = [v \in Version |-> None]
    /\ previous = None
    /\ op = "none" /\ arg = None /\ step = "idle" /\ doomed = {}
    /\ drifts = 0
    /\ was = None /\ intact = Version

(***************************************************************************)
(* Helpers.                                                                *)
(***************************************************************************)

Resolves(link) == IF link = None THEN TRUE ELSE entry[link] # None

\* A change to the top of v's directory makes it the latest.
Forget(v) ==
    IF v \in Range(order) THEN RemoveAt(order, CHOOSE i \in DOMAIN order : order[i] = v) ELSE order
Touch(v) == <<v>> \o Forget(v)

\* The first of a set of versions in the order of the listing.
First(S) ==
    {v \in S : \E i \in DOMAIN order :
                 order[i] = v /\ \A j \in 1 .. (i - 1) : order[j] \notin S}

Begin(operation, v, first) ==
    /\ op = "none"
    /\ op' = operation
    /\ arg' = v
    /\ step' = first
    /\ doomed' = {}
    /\ was' = current
    /\ intact' = Version

At(operation, s) == op = operation /\ step = s

Goto(s) == step' = s /\ UNCHANGED <<op, arg, doomed>>

(***************************************************************************)
(* ensure (ensure_unlocked_with_authenticator).                            *)
(***************************************************************************)

EnsureBegin(v) ==
    /\ Begin("ensure", v, "begin")
    /\ UNCHANGED <<entry, staging, order, links, drifts>>

\* What an interrupted run left in the staging directory goes first.
EnsureClearStaging ==
    /\ At("ensure", "begin")
    /\ staging' = [staging EXCEPT ![arg] = None]
    /\ Goto("download")
    /\ UNCHANGED <<entry, order, links, drifts, history>>

\* download_verified and the authenticator: the vendor's bytes, or an error.
EnsureDownload ==
    /\ At("ensure", "download")
    /\ Goto("extract") \/ Goto("failed")
    /\ UNCHANGED <<entry, staging, order, links, drifts, history>>

\* Extraction, proof against the archive and metadata, all inside staging.
EnsureExtract ==
    /\ At("ensure", "extract")
    /\ staging' = [staging EXCEPT ![arg] = Whole]
    /\ Goto("compare")
    /\ UNCHANGED <<entry, order, links, drifts, history>>

\* Mutant: an entry that is there is reused.
EnsureTrust ==
    /\ At("ensure", "compare")
    /\ IF entry[arg] # None
       THEN /\ entry' = [entry EXCEPT ![arg].meta = "vendor"]
            /\ order' = Touch(arg)
            /\ intact' = intact \cup {arg}
            /\ Goto("unstage")
       ELSE /\ UNCHANGED <<entry, order, intact>>
            /\ Goto("remove")
    /\ UNCHANGED <<staging, links, drifts, was>>

\* cached_matches_archive: the entry is reused, with its metadata refreshed, only
\* if its payload is the vendor's.
EnsureCompare ==
    /\ At("ensure", "compare")
    /\ IF entry[arg] # None /\ entry[arg].payload = "vendor"
       THEN /\ entry' = [entry EXCEPT ![arg] = Whole]
            /\ order' = Touch(arg)
            /\ intact' = intact \cup {arg}
            /\ Goto("unstage")
       ELSE /\ UNCHANGED <<entry, order, intact>>
            /\ Goto("remove")
    /\ UNCHANGED <<staging, links, drifts, was>>

EnsureUnstage ==
    /\ At("ensure", "unstage")
    /\ staging' = [staging EXCEPT ![arg] = None]
    /\ Goto("advance")
    /\ UNCHANGED <<entry, order, links, drifts, history>>

\* The entry that does not match is removed ...
EnsureRemove ==
    /\ At("ensure", "remove")
    /\ entry' = [entry EXCEPT ![arg] = None]
    /\ order' = Forget(arg)
    /\ Goto("rename")
    /\ UNCHANGED <<staging, links, drifts, history>>

\* ... and the staged one takes its name.
EnsureRename ==
    /\ At("ensure", "rename")
    /\ entry' = [entry EXCEPT ![arg] = staging[arg]]
    /\ staging' = [staging EXCEPT ![arg] = None]
    /\ order' = Touch(arg)
    /\ intact' = intact \cup {arg}
    /\ Goto("advance")
    /\ UNCHANGED <<links, drifts, was>>

\* Mutants: `previous` is left as it was; a version that is current already is
\* advanced to all the same.
EnsureAdvanceOnly ==
    /\ At("ensure", "advance")
    /\ IF ~Resolves(current) THEN Goto("stuck")
       ELSE IF current = arg THEN Goto("ok") ELSE Goto("repoint")
    /\ UNCHANGED <<entry, staging, order, links, drifts, history>>

\* advance_current: `previous` takes what `current` resolves to; a link that
\* does not resolve is an error.
EnsureAdvance ==
    /\ At("ensure", "advance")
    /\ \/ /\ ~Resolves(current)
          /\ Goto("stuck")
          /\ previous' = previous
       \/ /\ Resolves(current)
          /\ current = arg
          /\ Goto("ok")
          /\ previous' = previous
       \/ /\ Resolves(current)
          /\ current # arg
          /\ Goto("repoint")
          /\ previous' = current
    /\ UNCHANGED <<entry, staging, order, current, drifts, history>>

EnsureRepoint ==
    /\ At("ensure", "repoint")
    /\ current' = arg
    /\ Goto("ok")
    /\ UNCHANGED <<entry, staging, order, previous, drifts, history>>

(***************************************************************************)
(* rollback (CdmCache::rollback, rollback_unlocked).                       *)
(***************************************************************************)

RollbackBegin ==
    /\ Begin("rollback", None, "verify")
    /\ UNCHANGED <<entry, staging, order, links, drifts>>

\* An entry is checked against its own metadata, whoever wrote them; the memo may
\* still have the library's former digest (verify_cached_integrity, sha512_memoized).
Agrees(c) == c.meta = c.payload \/ (c.payload = "unnoticed" /\ c.meta = "vendor")
Disagrees(c) == c.meta # c.payload

\* Mutant: the previous version has only to be there.
RollbackUnverified ==
    /\ At("rollback", "verify")
    /\ Goto(IF previous # None /\ Resolves(previous) THEN "exchange" ELSE "failed")
    /\ UNCHANGED <<entry, staging, order, links, drifts, history>>

\* The previous version must be there and match its metadata.
RollbackVerify ==
    /\ At("rollback", "verify")
    /\ LET there == previous # None /\ Resolves(previous) IN
       \/ there /\ Agrees(entry[previous]) /\ Goto("exchange")
       \/ (there => Disagrees(entry[previous])) /\ Goto("failed")
    /\ UNCHANGED <<entry, staging, order, links, drifts, history>>

\* One rename: the two links change places, or `previous` becomes `current`.
RollbackExchange ==
    /\ At("rollback", "exchange")
    /\ IF Resolves(current)
       THEN /\ current' = previous
            /\ previous' = current
            /\ Goto("ok")
       ELSE /\ UNCHANGED links
            /\ Goto("stuck")
    /\ UNCHANGED <<entry, staging, order, drifts, history>>

(***************************************************************************)
(* prune (prune_unlocked).                                                 *)
(***************************************************************************)

PruneBegin ==
    /\ Begin("prune", None, "list")
    /\ UNCHANGED <<entry, staging, order, links, drifts>>

\* Mutant: only the latest `keep` versions are kept.
ExpendableByAge(keep) == {order[i] : i \in (keep + 1) .. Len(order)}

\* The latest `keep` versions and what the links resolve to are kept.
Expendable(keep) ==
    {order[i] : i \in (keep + 1) .. Len(order)} \ {current, previous}

AtLeastOne(n) == IF n < 1 THEN 1 ELSE n

PruneList ==
    /\ At("prune", "list")
    /\ UNCHANGED <<op, arg>>
    /\ IF Resolves(current) /\ Resolves(previous)
       THEN /\ \E keep \in Keep : doomed' = Expendable(AtLeastOne(keep))
            /\ step' = "delete"
       ELSE /\ doomed' = {}
            /\ step' = "stuck"
    /\ UNCHANGED <<entry, staging, order, links, drifts, history>>

PruneDelete ==
    /\ At("prune", "delete")
    /\ \/ /\ doomed = {}
          /\ step' = "sweep"
          /\ UNCHANGED <<entry, order, doomed>>
       \/ \E v \in First(doomed) :
            /\ entry' = [entry EXCEPT ![v] = None]
            /\ order' = Forget(v)
            /\ doomed' = doomed \ {v}
            /\ step' = step
    /\ UNCHANGED <<staging, links, op, arg, drifts, history>>

\* Staging directories of interrupted runs.
PruneSweep ==
    /\ At("prune", "sweep")
    /\ \/ \E v \in Version :
            /\ staging[v] # None
            /\ staging' = [staging EXCEPT ![v] = None]
            /\ Goto("sweep")
       \/ /\ \A v \in Version : staging[v] = None
          /\ staging' = staging
          /\ Goto("ok")
    /\ UNCHANGED <<entry, order, links, drifts, history>>

(***************************************************************************)
(* Ends, failures and everybody else.                                      *)
(***************************************************************************)

End == op' = "none" /\ arg' = None /\ step' = "idle" /\ doomed' = {}

\* The result is reported and the lock released.
Return ==
    /\ step \in Ended
    /\ End
    /\ was' = None /\ intact' = Version
    /\ UNCHANGED <<entry, staging, order, links, drifts>>

\* What a tree operation has done when it is interrupted: a removal or an
\* extraction has got some way, anything else is a single system call.
PartlyStaged(v) ==
    /\ staging' = [staging EXCEPT ![v] = Partial]
    /\ UNCHANGED <<entry, order>>

PartlyRemoved(v) ==
    /\ entry' = [entry EXCEPT ![v] = Partial]
    /\ order' \in {order, Touch(v)}
    /\ UNCHANGED staging

Interrupted ==
    \/ UNCHANGED <<entry, staging, order>>
    \/ /\ At("ensure", "begin") \/ At("ensure", "unstage")
       /\ staging[arg] # None
       /\ PartlyStaged(arg)
    \/ At("ensure", "extract") /\ PartlyStaged(arg)
    \/ At("ensure", "remove") /\ entry[arg] # None /\ PartlyRemoved(arg)
    \/ At("prune", "delete") /\ \E v \in First(doomed) : PartlyRemoved(v)
    \/ /\ At("prune", "sweep")
       /\ \E v \in Version : staging[v] # None /\ PartlyStaged(v)

\* A file operation fails and `?` returns its error.
Fail ==
    /\ MayFail
    /\ op # "none"
    /\ step \notin Ended
    /\ Interrupted
    /\ Goto("failed")
    /\ UNCHANGED <<links, drifts, history>>

\* The process is killed; the kernel drops its lock.
Kill ==
    /\ MayFail
    /\ op # "none"
    /\ step \notin Ended
    /\ Interrupted
    /\ End
    /\ was' = None /\ intact' = Version
    /\ UNCHANGED <<links, drifts>>

\* What an entry may become at others' hands: its payload changes, its metadata go,
\* or both are rewritten to agree.
Changed(c) ==
    {[c EXCEPT !.payload = "drifted"], [c EXCEPT !.meta = "unusable"],
     [payload |-> "drifted", meta |-> "drifted"]}
    \cup (IF c.payload = "vendor" THEN {[c EXCEPT !.payload = "unnoticed"]} ELSE {})

\* A file of a cached version changes, or goes, without the cache's doing.
Drift(v) ==
    /\ drifts < MaxDrift
    /\ entry[v] # None
    /\ \E c \in Changed(entry[v]) :
         /\ c # entry[v]
         /\ entry' = [entry EXCEPT ![v] = c]
    /\ drifts' = drifts + 1
    /\ intact' = intact \ {v}
    /\ order' \in {order, Touch(v)}
    /\ UNCHANGED <<staging, links, control, was>>

Ensure ==
    \/ EnsureClearStaging \/ EnsureDownload \/ EnsureExtract \/ EnsureCompare
    \/ EnsureUnstage \/ EnsureRemove \/ EnsureRename \/ EnsureAdvance
    \/ EnsureRepoint

Rollback == RollbackVerify \/ RollbackExchange

Prune == PruneList \/ PruneDelete \/ PruneSweep

Work == Ensure \/ Rollback \/ Prune \/ Return

Next ==
    \/ \E v \in Version : EnsureBegin(v)
    \/ RollbackBegin
    \/ PruneBegin
    \/ Work
    \/ Fail
    \/ Kill
    \/ \E v \in Version : Drift(v)

Spec == Init /\ [][Next]_vars

(***************************************************************************)
(* Properties.                                                             *)
(***************************************************************************)

\* A successful ensure returns the version that is selected, with the vendor's
\* payload and metadata, whatever the entry was before and whatever interrupted
\* operations had left (mod.rs:325-374).
EnsureDelivers ==
    At("ensure", "ok") => current = arg /\ (arg \in intact => entry[arg] = Whole)

\* It leaves the version it displaced selected as the one to roll back to, and
\* in the cache (advance_current, mod.rs:1083-1099).
AdvanceKeepsFallback ==
    At("ensure", "ok") /\ was \notin {None, arg} => previous = was /\ entry[was] # None

\* No step makes a link dangle but the replacement of that very version: prune
\* deletes no version a link names, neither link is ever set to a version that
\* is not there (mod.rs:365-367, 496-513, 1083-1126).
LinksResolve ==
    [][\A l \in {current', previous'} \ {None} :
         entry'[l] = None =>
            \/ l \in {current, previous} /\ entry[l] = None
            \/ op = "ensure" /\ arg = l]_vars

\* A successful rollback selects a version that agrees with its own metadata, so a
\* complete one, whatever interrupted operations have left of it and changes since the
\* check apart; and the one it displaces is the one the next rollback goes back to. It
\* is no claim that the payload is the vendor's: metadata can be rewritten with it, and
\* a library changed within its length and second passes (mod.rs:218-237, 916-944).
RollbackSelectsVerified ==
    At("rollback", "ok") =>
        /\ current \in intact => Agrees(entry[current])
        /\ previous = was

\* As long as nothing fails and nobody is killed, there is something else to roll
\* back to (mod.rs:1083-1099: between the two links of an advance they agree).
LinksDiffer == previous # None /\ step # "repoint" => previous # current

\* ... and no operation is refused for a link that does not resolve.
NeverStuck == step # "stuck"

\* The errors of ensure are those documented at mod.rs:168-172: "the platform is
\* absent from the manifest, the cache lock or filesystem cannot be used, or
\* download, verification, or extraction fails".
EnsureErrorsAsDocumented == ~At("ensure", "stuck")
=============================================================================
