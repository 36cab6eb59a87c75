---------------------------- MODULE Publication ----------------------------
(***************************************************************************)
(* The Linux publication transaction of one browser installation: how      *)
(* `run_patch` (src/src/patch/mod.rs) authorizes the directory             *)
(* <install>/WidevineCdm, and how `replace_cdm_transactionally`            *)
(* (src/src/patch/linux.rs) exchanges it for a staged copy of the cached   *)
(* CDM, with the rollback, the recovery directory, the patch lock, the     *)
(* elevated child and everybody else who writes to the installation.       *)
(*                                                                         *)
(* A directory is an inode.  `live` is the inode the name WidevineCdm      *)
(* resolves to, `staged[p]` the one p holds under its private temporary    *)
(* directory, `kept` those left behind in abandoned temporary directories. *)
(* What a directory holds is abstracted to the payload its files make up   *)
(* and the payload its ownership marker names.                             *)
(***************************************************************************)
EXTENDS Integers, FiniteSets

CONSTANTS
    Patcher,        \* processes that run a patch: CLI invocations, the daemon
    Inode,          \* directory inodes of the file system
    Payload,        \* complete CDM payloads, told apart by their digests
    Absent,         \* no directory entry
    Broken,         \* bytes that are no complete payload
    NoMarker,       \* a directory without silvervine's ownership marker
    Free,           \* the patch lock is not held
    External,       \* the browser's updater, the package manager, the user
    ParentMayDie,   \* whether the parent of an elevated child can be killed
    MaxExternal     \* bound on the external changes of a behaviour

ASSUME ConstantsAssumption ==
    /\ Absent \notin Inode
    /\ Broken \notin Payload
    /\ NoMarker \notin Payload \cup {Broken}
    /\ Free \notin Patcher
    /\ External \notin Patcher
    /\ ParentMayDie \in BOOLEAN
    /\ MaxExternal \in Nat

VARIABLES
    lock,       \* holder of the flock on patch.lock
    pc,         \* where each patcher stands in run_patch
    asRoot,     \* the elevated child of the patcher is at work
    orphan,     \* ... and its parent has been killed
    cand,       \* the payload the patcher installs
    replace,    \* the patcher was given --replace-external-cdm
    auth,       \* TargetAuthorization of the target: a held directory handle
    pub,        \* TargetAuthorization of the staged directory
    staged,     \* the patcher's <tempdir>/WidevineCdm
    live,       \* the installation's WidevineCdm
    kept,       \* directories in temporary directories nobody will remove
    dir,        \* contents of the directory inodes
    moves,      \* external changes so far
    \* History, read by the properties only:
    maker,      \* who created the directory
    edited,     \* directories changed in place by somebody else
    vetted,     \* directories the patcher classified as replaceable
    found,      \* what the name resolved to when the patcher published
    toucher     \* whose run, if it still goes on, last changed what is live

local == <<asRoot, orphan, cand, replace>>
files == <<live, kept, dir>>
history == <<maker, edited, vetted, found, toucher>>
vars == <<lock, pc, local, auth, pub, staged, files, moves, history>>

Steps == {"idle", "lock", "capture", "classify", "revalidate", "preflight",
          "stage", "copy", "seal", "validate", "exchange", "noreplace",
          "displaced", "verify", "close", "rbcheck", "rbrename", "rbmove",
          "rbverify", "rbclose", "childdone", "success", "failed"}

\* Before anything is staged, while the staged directory is still the new one,
\* and once the new one may be live.
Authorizing == {"capture", "classify", "revalidate", "preflight", "stage"}
Staging     == {"copy", "seal", "validate", "exchange", "noreplace"}
Published   == {"displaced", "verify", "close", "rbcheck", "rbrename",
                "rbmove", "rbverify", "rbclose"}
Working     == Authorizing \cup Staging \cup Published
Ended       == {"childdone", "success", "failed"}

Contents == [bytes : Payload \cup {Broken}, marker : Payload \cup {NoMarker}]
Entry == Inode \cup {Absent}

TypeOK ==
    /\ lock \in Patcher \cup {Free}
    /\ pc \in [Patcher -> Steps]
    /\ asRoot \in [Patcher -> BOOLEAN]
    /\ orphan \in [Patcher -> BOOLEAN]
    /\ cand \in [Patcher -> Payload]
    /\ replace \in [Patcher -> BOOLEAN]
    /\ auth \in [Patcher -> Entry]
    /\ pub \in [Patcher -> Entry]
    /\ staged \in [Patcher -> Entry]
    /\ live \in Entry
    /\ kept \subseteq Inode
    /\ dir \in [Inode -> Contents]
    /\ moves \in 0 .. MaxExternal
    /\ maker \in [Inode -> Patcher \cup {External}]
    /\ edited \subseteq Inode
    /\ vetted \in [Patcher -> SUBSET Inode]
    /\ found \in [Patcher -> Entry]
    /\ toucher \in Patcher \cup {External}

(***************************************************************************)
(* Directories.                                                            *)
(***************************************************************************)

\* The directories that exist, and those whose inode number cannot be given to
\* a new one: an open handle keeps a removed directory's inode alive.
Present == ({live} \cup {staged[p] : p \in Patcher} \cup kept) \ {Absent}
\* Mutant: no handle is kept on a directory whose identity was taken.
InUseWithoutHandles == Present

InUse == Present \cup {auth[p] : p \in Patcher} \cup {pub[p] : p \in Patcher}
Fresh == Inode \ InUse

\* A complete payload with the marker that names it.
Sealed(c) == c.bytes \in Payload /\ c.marker = c.bytes

Holds(d, payload) ==
    d # Absent /\ dir[d] = [bytes |-> payload, marker |-> payload]

\* ownership::classify and enforce_ownership: a missing or managed target, an
\* unmarked one with exactly the candidate's bytes (adoption), and with
\* --replace-external-cdm any unmarked one; never one whose marker is invalid.
Replaceable(p, d) ==
    \/ d = Absent
    \/ d \in Inode /\ Sealed(dir[d])
    \/ d \in Inode /\ dir[d].marker = NoMarker
                   /\ (replace[p] \/ dir[d].bytes = cand[p])

\* A new directory i, made by w; what was known of an earlier one is void.
Create(i, w, contents) ==
    /\ dir' = [dir EXCEPT ![i] = contents]
    /\ maker' = [maker EXCEPT ![i] = w]
    /\ edited' = edited \ {i}
    /\ vetted' = [q \in Patcher |-> vetted[q] \ {i}]

(***************************************************************************)
(* Control.                                                                *)
(***************************************************************************)

Goto(p, step) == pc' = [pc EXCEPT ![p] = step]

\* An error before publication returns through `?`, and dropping the TempDir
\* removes the staged directory with it.
FailUnpublished(p) ==
    /\ Goto(p, "failed")
    /\ staged' = [staged EXCEPT ![p] = Absent]

\* A failed rollback keeps the temporary directory for recovery.
KeepAndFail(p) ==
    /\ Goto(p, "failed")
    /\ kept' = kept \cup ({staged[p]} \ {Absent})
    /\ staged' = [staged EXCEPT ![p] = Absent]

\* The process (or the last of the two) is gone: handles close, flock drops.
Reset(p) ==
    /\ Goto(p, "idle")
    /\ lock' = IF lock = p THEN Free ELSE lock
    /\ asRoot' = [asRoot EXCEPT ![p] = FALSE]
    /\ orphan' = [orphan EXCEPT ![p] = FALSE]
    /\ auth' = [auth EXCEPT ![p] = Absent]
    /\ pub' = [pub EXCEPT ![p] = Absent]
    /\ vetted' = [vetted EXCEPT ![p] = {}]
    /\ found' = [found EXCEPT ![p] = Absent]
    /\ toucher' = IF toucher = p THEN External ELSE toucher

Init ==
    /\ lock = Free
    /\ pc = [p \in Patcher |-> "idle"]
    /\ asRoot = [p \in Patcher |-> FALSE]
    /\ orphan = [p \in Patcher |-> FALSE]
    /\ cand \in [Patcher -> Payload]
    /\ replace = [p \in Patcher |-> FALSE]
    /\ auth = [p \in Patcher |-> Absent]
    /\ pub = [p \in Patcher |-> Absent]
    /\ staged = [p \in Patcher |-> Absent]
    /\ live \in Entry
    /\ kept = {}
    /\ \E c \in Contents : dir = [i \in Inode |-> c]
    /\ moves = 0
    /\ maker = [i \in Inode |-> External]
    /\ edited = {}
    /\ vetted = [p \in Patcher |-> {}]
    /\ found = [p \in Patcher |-> Absent]
    /\ toucher = External

(***************************************************************************)
(* Authorization: run_patch up to the write.                               *)
(***************************************************************************)

\* PatchBatch::execute resolves the candidate before it asks for the lock.
Resolve(p) ==
    /\ pc[p] = "idle"
    /\ \E c \in Payload : cand' = [cand EXCEPT ![p] = c]
    /\ \E r \in BOOLEAN : replace' = [replace EXCEPT ![p] = r]
    /\ Goto(p, "lock")
    /\ UNCHANGED <<lock, asRoot, orphan, auth, pub, staged, files, moves, history>>

\* Mutant: the lock file is opened and not locked.
AcquireShared(p) ==
    /\ pc[p] = "lock"
    /\ lock' = p
    /\ Goto(p, "capture")
    /\ UNCHANGED <<local, auth, pub, staged, files, moves, history>>

\* lockfile::with_lock: blocks until the flock is free.
Acquire(p) ==
    /\ pc[p] = "lock"
    /\ lock = Free
    /\ lock' = p
    /\ Goto(p, "capture")
    /\ UNCHANGED <<local, auth, pub, staged, files, moves, history>>

\* authorize_candidate_target opens the target ...
Capture(p) ==
    /\ pc[p] = "capture"
    /\ auth' = [auth EXCEPT ![p] = live]
    /\ Goto(p, "classify")
    /\ UNCHANGED <<lock, local, pub, staged, files, moves, history>>

\* ... classifies whatever the path resolves to by then ...
Classify(p) ==
    /\ pc[p] = "classify"
    /\ IF Replaceable(p, live)
       THEN /\ vetted' = [vetted EXCEPT ![p] = @ \cup ({live} \ {Absent})]
            /\ Goto(p, "revalidate")
       ELSE /\ vetted' = vetted
            /\ Goto(p, "failed")
    /\ UNCHANGED <<lock, local, auth, pub, staged, files, moves,
                   maker, edited, found, toucher>>

\* ... and requires the target to be the one it opened.
Revalidate(p) ==
    /\ pc[p] = "revalidate"
    /\ Goto(p, IF live = auth[p] THEN "preflight" ELSE "failed")
    /\ UNCHANGED <<lock, local, auth, pub, staged, files, moves, history>>

\* The installation is writable, and its browser is closed.
Proceed(p) ==
    /\ pc[p] = "preflight"
    /\ Goto(p, "stage")
    /\ UNCHANGED <<lock, local, auth, pub, staged, files, moves, history>>

\* The installation is not writable: the parent waits, holding the lock, for
\* an elevated child that authorizes the target for itself.
Escalate(p) ==
    /\ pc[p] = "preflight"
    /\ ~asRoot[p]
    /\ asRoot' = [asRoot EXCEPT ![p] = TRUE]
    /\ auth' = [auth EXCEPT ![p] = Absent]
    /\ vetted' = [vetted EXCEPT ![p] = {}]
    /\ Goto(p, "capture")
    /\ UNCHANGED <<lock, orphan, cand, replace, pub, staged, files, moves,
                   maker, edited, found, toucher>>

\* An I/O error, a running browser or a refused elevation, at any point before
\* something is staged.
AuthorizingFails(p) ==
    /\ pc[p] \in Authorizing
    /\ Goto(p, "failed")
    /\ UNCHANGED <<lock, local, auth, pub, staged, files, moves, history>>

(***************************************************************************)
(* Staging: the first half of replace_cdm_transactionally.                 *)
(***************************************************************************)

\* A temporary directory inside the installation, and WidevineCdm in it.
Stage(p) ==
    /\ pc[p] = "stage"
    /\ \E i \in Fresh :
         /\ staged' = [staged EXCEPT ![p] = i]
         /\ Create(i, p, [bytes |-> Broken, marker |-> NoMarker])
    /\ Goto(p, "copy")
    /\ UNCHANGED <<lock, local, auth, pub, live, kept, moves, found, toucher>>

\* copy_recursive reads the cache, whose owner may be replacing it.
Copy(p) ==
    /\ pc[p] = "copy"
    /\ \E b \in Payload \cup {Broken} :
         dir' = [dir EXCEPT ![staged[p]].bytes = b]
    /\ Goto(p, "seal")
    /\ UNCHANGED <<lock, local, auth, pub, staged, live, kept, moves, history>>

\* Mutants: the copy is not compared with the marker; the marker is left for
\* after the publication.
SealUnchecked(p) ==
    /\ pc[p] = "seal"
    /\ dir' = [dir EXCEPT ![staged[p]].marker = cand[p]]
    /\ Goto(p, "validate")
    /\ UNCHANGED <<lock, local, auth, pub, staged, live, kept, moves, history>>

SealPayloadOnly(p) ==
    /\ pc[p] = "seal"
    /\ Goto(p, "validate")
    /\ UNCHANGED <<lock, local, auth, pub, staged, files, moves, history>>

\* The copy must have the payload the marker of the parent selected; only then
\* is that marker written and the staged directory validated.
Seal(p) ==
    /\ pc[p] = "seal"
    /\ IF dir[staged[p]].bytes = cand[p]
       THEN /\ dir' = [dir EXCEPT ![staged[p]].marker = cand[p]]
            /\ Goto(p, "validate")
            /\ staged' = staged
       ELSE /\ FailUnpublished(p)
            /\ dir' = dir
    /\ UNCHANGED <<lock, local, auth, pub, live, kept, moves, history>>

\* authorization.validate(&destination), then the identity of the staged copy.
Validate(p) ==
    /\ pc[p] = "validate"
    /\ IF live = auth[p]
       THEN /\ pub' = [pub EXCEPT ![p] = staged[p]]
            /\ Goto(p, "exchange")
            /\ staged' = staged
       ELSE /\ FailUnpublished(p)
            /\ pub' = pub
    /\ UNCHANGED <<lock, local, auth, files, moves, history>>

StagingFails(p) ==
    /\ pc[p] \in Staging
    /\ FailUnpublished(p)
    /\ UNCHANGED <<lock, local, auth, pub, files, moves, history>>

(***************************************************************************)
(* Publication: the exchange and the validations of what it displaced.     *)
(***************************************************************************)

\* The names of the staged and the live directory change places.
Swap(p) ==
    /\ live' = staged[p]
    /\ staged' = [staged EXCEPT ![p] = live]
    /\ toucher' = p

Publish(p) ==
    /\ Swap(p)
    /\ found' = [found EXCEPT ![p] = live]
    /\ Goto(p, "displaced")

\* Mutant: the old directory is removed, then the new one moved into place.
ExchangeByRemoval(p) ==
    /\ pc[p] = "exchange"
    /\ live' = Absent
    /\ found' = [found EXCEPT ![p] = live]
    /\ toucher' = p
    /\ Goto(p, "noreplace")
    /\ UNCHANGED <<lock, local, auth, pub, staged, kept, dir, moves, maker,
                   edited, vetted>>

\* atomic_rename: RENAME_EXCHANGE; with nothing to exchange with, the kernel
\* answers ENOENT and a second call follows.
Exchange(p) ==
    /\ pc[p] = "exchange"
    /\ IF live # Absent
       THEN Publish(p)
       ELSE Goto(p, "noreplace") /\ UNCHANGED <<live, staged, found, toucher>>
    /\ UNCHANGED <<lock, local, auth, pub, kept, dir, moves, maker, edited, vetted>>

\* RENAME_NOREPLACE: fails when a target has appeared in between.
NoReplace(p) ==
    /\ pc[p] = "noreplace"
    /\ IF live = Absent
       THEN Publish(p)
       ELSE FailUnpublished(p) /\ UNCHANGED <<live, found, toucher>>
    /\ UNCHANGED <<lock, local, auth, pub, kept, dir, moves, maker, edited, vetted>>

\* authorization.validate(&staged): what the exchange displaced must be what
\* was authorized.
Displaced(p) ==
    /\ pc[p] = "displaced"
    /\ Goto(p, IF staged[p] = auth[p] THEN "verify" ELSE "rbcheck")
    /\ UNCHANGED <<lock, local, auth, pub, staged, files, moves, history>>

\* validate_live: the payload and the marker at the live path.
Verify(p) ==
    /\ pc[p] = "verify"
    /\ \/ Holds(live, cand[p]) /\ Goto(p, "close")
       \/ Goto(p, "rbcheck")
    /\ UNCHANGED <<lock, local, auth, pub, staged, files, moves, history>>

\* close_authorized_staging after success: the retired directory goes only
\* while it is the authorized one; what cannot be removed stays behind.
Close(p) ==
    /\ pc[p] = "close"
    /\ IF staged[p] = auth[p]
       THEN /\ staged' = [staged EXCEPT ![p] = Absent]
            /\ kept' \in {kept, kept \cup ({staged[p]} \ {Absent})}
            /\ Goto(p, IF asRoot[p] THEN "childdone" ELSE "success")
       ELSE KeepAndFail(p)
    /\ UNCHANGED <<lock, local, auth, pub, live, dir, moves, history>>

\* run_patch_via_escalation validates what the child installed.
Confirm(p) ==
    /\ pc[p] = "childdone"
    /\ ~orphan[p]
    /\ Goto(p, IF Holds(live, cand[p]) THEN "success" ELSE "failed")
    /\ UNCHANGED <<lock, local, auth, pub, staged, files, moves, history>>

(***************************************************************************)
(* Rollback.                                                               *)
(***************************************************************************)

\* The live directory must still be the published one and, if there was an
\* exchange, the staged one the authorized one.
RollbackCheck(p) ==
    /\ pc[p] = "rbcheck"
    /\ IF /\ live = pub[p]
          /\ staged[p] # Absent => staged[p] = auth[p]
       THEN Goto(p, "rbrename") /\ UNCHANGED <<staged, kept>>
       ELSE KeepAndFail(p)
    /\ UNCHANGED <<lock, local, auth, pub, live, dir, moves, history>>

\* atomic_rename again, whichever way round: an exchange if both names exist.
RollbackRename(p) ==
    /\ pc[p] = "rbrename"
    /\ IF live # Absent /\ staged[p] # Absent
       THEN Swap(p) /\ Goto(p, "rbverify")
       ELSE Goto(p, "rbmove") /\ UNCHANGED <<live, staged, toucher>>
    /\ UNCHANGED <<lock, local, auth, pub, kept, dir, moves, maker, edited,
                   vetted, found>>

\* RENAME_NOREPLACE to the name that must be free: the live one if the target
\* was exchanged, the staged one if it was moved into place.
RollbackMove(p) ==
    /\ pc[p] = "rbmove"
    /\ IF (live = Absent) # (staged[p] = Absent)
       THEN Swap(p) /\ Goto(p, "rbverify") /\ kept' = kept
       ELSE KeepAndFail(p) /\ UNCHANGED <<live, toucher>>
    /\ UNCHANGED <<lock, local, auth, pub, dir, moves, maker, edited, vetted, found>>

RollbackVerify(p) ==
    /\ pc[p] = "rbverify"
    /\ IF live = auth[p] /\ staged[p] = pub[p]
       THEN Goto(p, "rbclose") /\ UNCHANGED <<staged, kept>>
       ELSE KeepAndFail(p)
    /\ UNCHANGED <<lock, local, auth, pub, live, dir, moves, history>>

\* Mutant: the error that led to the rollback is lost.
RollbackCloseOk(p) ==
    /\ pc[p] = "rbclose"
    /\ Goto(p, "success")
    /\ staged' = [staged EXCEPT ![p] = Absent]
    /\ kept' \in {kept, kept \cup {staged[p]}}
    /\ UNCHANGED <<lock, local, auth, pub, live, dir, moves, history>>

\* close_authorized_staging for the directory taken back.
RollbackClose(p) ==
    /\ pc[p] = "rbclose"
    /\ Goto(p, "failed")
    /\ staged' = [staged EXCEPT ![p] = Absent]
    /\ kept' \in {kept, kept \cup {staged[p]}}
    /\ UNCHANGED <<lock, local, auth, pub, live, dir, moves, history>>

\* An I/O error in a rollback keeps the temporary directory.
RollbackFails(p) ==
    /\ pc[p] \in {"rbcheck", "rbrename", "rbmove", "rbverify"}
    /\ KeepAndFail(p)
    /\ UNCHANGED <<lock, local, auth, pub, live, dir, moves, history>>

(***************************************************************************)
(* Ends of a run.                                                          *)
(***************************************************************************)

\* The outcome is reported and the lock released; an orphan has nobody to
\* report to and holds no lock.
Finish(p) ==
    /\ \/ pc[p] \in {"success", "failed"}
       \/ pc[p] = "childdone" /\ orphan[p]
    /\ Reset(p)
    /\ UNCHANGED <<cand, replace, staged, files, moves, maker, edited>>

\* A process without a working child is killed.  Nothing is cleaned up.
Killed(p) ==
    /\ pc[p] # "idle"
    /\ asRoot[p] => pc[p] \in Ended /\ ~orphan[p]
    /\ Reset(p)
    /\ kept' = kept \cup ({staged[p]} \ {Absent})
    /\ staged' = [staged EXCEPT ![p] = Absent]
    /\ UNCHANGED <<cand, replace, live, dir, moves, maker, edited>>

\* The elevated child is killed: its parent, if there is one, sees that.
ChildKilled(p) ==
    /\ asRoot[p]
    /\ pc[p] \in Working
    /\ KeepAndFail(p)
    /\ UNCHANGED <<lock, local, auth, pub, live, dir, moves, history>>

\* The parent of a working child is killed; its flock goes, the child goes on.
ParentKilled(p) ==
    /\ ParentMayDie
    /\ asRoot[p]
    /\ ~orphan[p]
    /\ pc[p] \in Working
    /\ orphan' = [orphan EXCEPT ![p] = TRUE]
    /\ lock' = IF lock = p THEN Free ELSE lock
    /\ UNCHANGED <<pc, asRoot, cand, replace, auth, pub, staged, files, moves, history>>

(***************************************************************************)
(* Everybody else who writes to the installation.                          *)
(***************************************************************************)

ExternalChange ==
    /\ moves < MaxExternal
    /\ moves' = moves + 1
    /\ toucher' = External
    /\ UNCHANGED <<lock, pc, local, auth, pub, staged, kept, found>>

\* A new component directory takes the name.
ExternalInstall ==
    /\ \E i \in Fresh, c \in Contents :
         /\ live' = i
         /\ Create(i, External, c)
    /\ ExternalChange

ExternalRemove ==
    /\ live # Absent
    /\ live' = Absent
    /\ UNCHANGED <<dir, maker, edited, vetted>>
    /\ ExternalChange

\* Files are written inside the directory, which stays the same inode.
ExternalEdit ==
    /\ live # Absent
    /\ \E c \in Contents \ {dir[live]} : dir' = [dir EXCEPT ![live] = c]
    /\ edited' = edited \cup {live}
    /\ UNCHANGED <<live, maker, vetted>>
    /\ ExternalChange

\* One step of the transaction by the process that is at it.
Transaction(p) ==
    \/ Capture(p) \/ Classify(p) \/ Revalidate(p) \/ Proceed(p) \/ Escalate(p)
    \/ AuthorizingFails(p)
    \/ Stage(p) \/ Copy(p) \/ Seal(p) \/ Validate(p) \/ StagingFails(p)
    \/ Exchange(p) \/ NoReplace(p) \/ Displaced(p) \/ Verify(p) \/ Close(p)
    \/ Confirm(p)
    \/ RollbackCheck(p) \/ RollbackRename(p) \/ RollbackMove(p)
    \/ RollbackVerify(p) \/ RollbackClose(p) \/ RollbackFails(p)

PatcherStep(p) == Resolve(p) \/ Acquire(p) \/ Transaction(p) \/ Finish(p)

Kill(p) == Killed(p) \/ ChildKilled(p) \/ ParentKilled(p)

ExternalStep == ExternalInstall \/ ExternalRemove \/ ExternalEdit

Next == (\E p \in Patcher : PatcherStep(p) \/ Kill(p)) \/ ExternalStep

Spec == Init /\ [][Next]_vars

(***************************************************************************)
(* Properties.                                                             *)
(***************************************************************************)

\* The browser never finds a directory built by silvervine under the name
\* WidevineCdm that is not a complete payload with its marker, wherever a
\* process fails or is killed (linux.rs:262-334), unless somebody else has
\* written into it.
LiveSealed ==
    live # Absent /\ maker[live] \in Patcher /\ live \notin edited
        => Sealed(dir[live])

\* What a step of a patcher removes from the file system is a directory it built
\* itself or one it classified.
OnlyVetted ==
    \A p \in Patcher : pc'[p] # pc[p] =>
        \A i \in Present \ Present' : maker[i] = p \/ i \in vetted[p]

\* No step of p leaves the browser without a component when p found one there
\* to publish over: only a first installation may be taken back, to the empty
\* place it found (linux.rs:299-311).
UpdateLeavesNoGap ==
    [][\A p \in Patcher :
         (pc'[p] # pc[p] /\ live # Absent /\ live' = Absent) => found'[p] = Absent]_vars

\* "Returning `true` requires every error path to leave the live browser bundle
\* unchanged or fully valid" (mod.rs:577-579): a failed run that was the last to
\* touch the target leaves what it published over or a sealed component.
ErrorLeavesLiveWhole ==
    \A p \in Patcher :
        (pc[p] = "failed" /\ toucher = p)
            => live = found[p] \/ (live # Absent /\ Sealed(dir[live]))

\* A run that reports success installed its candidate: it is live, under the
\* directory this run staged, unless somebody has touched the target since.
SuccessIsLive ==
    \A p \in Patcher :
        (pc[p] = "success" /\ toucher = p) => live = pub[p] /\ Holds(live, cand[p])

\* Two transactions on one installation never overlap (mod.rs:639, lockfile.rs),
\* an elevated child that takes no lock included: "Skip the lockfile entirely;
\* the parent's lock covers us" (mod.rs:737).  It does while the parent lives.
OneTransaction ==
    \A p, q \in Patcher :
        (pc[p] \in Working /\ pc[q] \in Working /\ ~orphan[p] /\ ~orphan[q]) => p = q
=============================================================================
