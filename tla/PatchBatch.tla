----------------------------- MODULE PatchBatch -----------------------------
(***************************************************************************)
(* The patch pipeline around a platform's publication: run_patch_flow of   *)
(* src/src/cli/patch.rs with its hooks, PatchBatch and run_patch of        *)
(* src/src/patch/mod.rs, the snapshots of src/src/patch/backup.rs, and     *)
(* what an uninstall (src/src/cli/uninstall.rs) removes from under them.   *)
(*                                                                         *)
(* The patcher is transactional, as all three of Silvervine's are (its     *)
(* write is one step here, Publication has the details), or legacy (the    *)
(* core copies the bundle first and puts the copy back when a step fails). *)
(***************************************************************************)
EXTENDS Integers, FiniteSets

CONSTANTS
    Flow,        \* processes that run a batch
    Browser,     \* installations, 1..n in the order they are detected
    Batches,     \* what the flows may be asked to do together
    Installs,    \* what the browsers may have at first
    Nothing,     \* no snapshot, no report
    MaxOutside,  \* bound on what the browsers and their updaters do
    MaxFailures  \* bound on the calls that fail

Content == {"missing", "managed", "external", "invalid", "torn"}
Option == [force : BOOLEAN, replace : BOOLEAN, dry : BOOLEAN]

ASSUME ConstantsAssumption ==
    /\ Cardinality(Browser) \in Nat \ {0} /\ Browser = 1..Cardinality(Browser)
    /\ Batches \subseteq [Flow -> [option : Option, selected : SUBSET Browser]]
    /\ Installs \subseteq [Browser -> Content]
    /\ MaxOutside \in Nat /\ MaxFailures \in Nat
    /\ Nothing \notin Content \cup {"ok", "partial"} \cup Flow

VARIABLES
    mode,      \* "transactional" or "legacy"
    option,    \* force, replace and dry of each flow
    selected,  \* the browsers a flow is to patch
    writable,  \* the publication roots this user may write to
    live,      \* what each browser's CDM directory holds
    inode,     \* which directory it is
    running,   \* the browsers that run
    lockfile,  \* inode of patch.lock
    opened,    \* the inode each flow waits to lock
    held,      \* and the one it holds, 0 if none
    pc, turn,  \* where a flow stands, and for which browser
    seen,      \* the processes it captured
    granted,   \* the content and the directory it authorized
    snapshot,  \* the copy of the bundle, Nothing or "partial"
    report,    \* what each flow says of each browser
    posted,    \* post-patch hooks run
    outside, failures,  \* counters
    history    \* history: of the current turn, and of uninstalls

flowVars == <<pc, turn, opened, held, seen, granted, snapshot, report, posted>>
world == <<live, inode, running, lockfile>>
vars == <<mode, option, selected, writable, world, flowVars, outside, failures, history>>

Done == Cardinality(Browser) + 1
Report == {Nothing, "ok", "dry", "BrowserRunning", "ExternalCdm", "InvalidMarker",
           "StateCorrupted", "PermissionDenied", "Other"}
Locked == {"capture", "authorize", "validate", "closed", "snapshot", "write", "child", "verify", "finalize", "restore"}

TypeOK ==
    /\ mode \in {"transactional", "legacy"}
    /\ option \in [Flow -> Option]
    /\ selected \in [Flow -> SUBSET Browser] /\ writable \in SUBSET Browser
    /\ live \in [Browser -> Content] /\ running \in SUBSET Browser
    /\ inode \in [Browser -> Nat]
    /\ lockfile \in 1..(MaxOutside + 1) /\ {opened, held} \subseteq [Flow -> 0..(MaxOutside + 1)]
    /\ pc \in [Flow -> Locked \cup {"start", "resolve", "lock", "post", "done"}]
    /\ turn \in [Flow -> 1..Done]
    /\ seen \in [Flow -> SUBSET Browser]
    /\ granted \in [Flow -> Content \X Nat]
    /\ snapshot \in [Flow -> Content \cup {Nothing, "partial"}]
    /\ report \in [Flow -> [Browser -> Report]]
    /\ posted \in [Flow -> [Browser -> 0..1]]
    /\ outside \in 0..MaxOutside /\ failures \in 0..MaxFailures
    /\ history \in [before : [Flow -> Content], touched : [Flow -> BOOLEAN],
                    closed : [Flow -> BOOLEAN]]

Init ==
    /\ mode \in {"transactional", "legacy"}
    /\ \E batch \in Batches :
          /\ option = [f \in Flow |-> batch[f].option]
          /\ selected = [f \in Flow |-> batch[f].selected]
    /\ writable \in {{}, Browser}
    /\ live \in Installs /\ running \in {{}, {1}}
    /\ inode = [b \in Browser |-> 0]
    /\ lockfile = 1 /\ held = [f \in Flow |-> 0] /\ opened = held
    /\ pc = [f \in Flow |-> "start"] /\ turn = [f \in Flow |-> Done]
    /\ seen = [f \in Flow |-> {}] /\ granted = [f \in Flow |-> <<"missing", 0>>]
    /\ snapshot = [f \in Flow |-> Nothing]
    /\ report = [f \in Flow |-> [b \in Browser |-> Nothing]]
    /\ posted = [f \in Flow |-> [b \in Browser |-> 0]]
    /\ outside = 0 /\ failures = 0
    /\ history = [before |-> [f \in Flow |-> "missing"], touched |-> [f \in Flow |-> FALSE],
                  closed |-> [f \in Flow |-> FALSE]]

-----------------------------------------------------------------------------
Options == UNCHANGED <<mode, option, selected, writable>>
Fails == failures < MaxFailures /\ failures' = failures + 1
Works == UNCHANGED failures
Goto(f, there) == pc' = [pc EXCEPT ![f] = there]
At(f, here) == pc[f] = here /\ Options /\ UNCHANGED outside

\* The next selected browser from b on.
NextTurn(f, b) ==
    CHOOSE n \in b..Done : (n = Done \/ n \in selected[f]) /\ \A k \in b..(n - 1) : k \notin selected[f]

\* Mutant: the lock is kept.
TurnKeepingLock(f, b) ==
    /\ turn' = [turn EXCEPT ![f] = NextTurn(f, b)]
    /\ Goto(f, IF turn'[f] = Done THEN "post" ELSE "capture")
    /\ UNCHANGED held

\* The turn of browser b or the next begins, or the batch ends and the lock goes.
Turn(f, b) ==
    LET n == NextTurn(f, b) IN
    /\ turn' = [turn EXCEPT ![f] = n]
    /\ Goto(f, IF n = Done THEN "post" ELSE "capture")
    /\ held' = IF n = Done THEN [held EXCEPT ![f] = 0] ELSE held

Stays == UNCHANGED <<turn, held>>

\* The report of the browser whose turn it is; the batch goes on.
Reports(f, r) ==
    /\ report' = [report EXCEPT ![f][turn[f]] = r]
    /\ Turn(f, turn[f] + 1)
    /\ UNCHANGED <<opened, granted, posted>>

\* reports_for_error: the same for all.
ReportsAll(f, r) ==
    report' = [report EXCEPT ![f] = [b \in Browser |-> IF b \in selected[f] THEN r ELSE Nothing]]

Dir(b) == <<live[b], inode[b]>>

-----------------------------------------------------------------------------
(* The batch.                                                              *)

\* The pre-patch hook runs unless it is a dry run; its failure is everybody's.
PrePatch(f) ==
    /\ At(f, "start")
    /\ \/ Works /\ Goto(f, "resolve") /\ UNCHANGED report
       \/ ~option[f].dry /\ selected[f] # {} /\ Fails /\ Goto(f, "done") /\ ReportsAll(f, "Other")
    /\ Stays /\ UNCHANGED <<world, opened, seen, granted, snapshot, posted>>

\* More than one installation is never replaced; a CDM must be at hand; the
\* lock is on the file that the path names when it is opened.
Resolve(f) ==
    LET many == option[f].replace /\ Cardinality(selected[f]) > 1 IN
    /\ At(f, "resolve")
    /\ \/ /\ selected[f] = {} /\ Works /\ Goto(f, "post") /\ UNCHANGED <<report, opened>>
       \/ /\ selected[f] # {} /\ (IF many THEN Works ELSE Fails)
          /\ Goto(f, "post") /\ ReportsAll(f, "Other") /\ UNCHANGED opened
       \/ /\ selected[f] # {} /\ ~many /\ Works /\ Goto(f, "lock")
          /\ opened' = [opened EXCEPT ![f] = lockfile] /\ UNCHANGED report
    /\ Stays /\ UNCHANGED <<world, seen, granted, snapshot, posted>>

\* Mutant: the lock is not waited for.
LockTaken(f) ==
    /\ At(f, "lock") /\ Works
    /\ held' = [held EXCEPT ![f] = opened[f]]
    /\ turn' = [turn EXCEPT ![f] = NextTurn(f, 1)] /\ Goto(f, "capture")
    /\ UNCHANGED <<world, opened, seen, granted, snapshot, report, posted>>

Lock(f) ==
    /\ At(f, "lock") /\ Works /\ \A g \in Flow : held[g] # opened[f]
    /\ held' = [held EXCEPT ![f] = opened[f]]
    /\ turn' = [turn EXCEPT ![f] = NextTurn(f, 1)] /\ Goto(f, "capture")
    /\ UNCHANGED <<world, opened, seen, granted, snapshot, report, posted>>

\* Mutant: the processes are captured once, for the whole batch.
CaptureOnce(f) ==
    /\ At(f, "capture") /\ Goto(f, "authorize") /\ Works /\ Stays
    /\ seen' = [seen EXCEPT ![f] = IF turn[f] # NextTurn(f, 1) \/ option[f].force THEN @ ELSE running]
    /\ UNCHANGED <<world, opened, granted, snapshot, report, posted>>

\* A fresh snapshot of the process table, before each browser.
Capture(f) ==
    /\ At(f, "capture") /\ Goto(f, "authorize") /\ Works /\ Stays
    /\ seen' = [seen EXCEPT ![f] = IF option[f].force THEN {} ELSE running]
    /\ UNCHANGED <<world, opened, granted, snapshot, report, posted>>

\* The directory is pinned and its ownership classified.
Authorize(f) ==
    /\ At(f, "authorize") /\ Goto(f, "validate") /\ Works /\ Stays
    /\ granted' = [granted EXCEPT ![f] = Dir(turn[f])]
    /\ UNCHANGED <<world, opened, seen, snapshot, report, posted>>

\* enforce_ownership; a torn directory has no valid marker.
Enforce(f, content) ==
    IF content \in {"invalid", "torn"} THEN "InvalidMarker"
    ELSE IF content = "external" /\ ~option[f].replace THEN "ExternalCdm" ELSE "ok"

Validate(f) ==
    LET verdict == Enforce(f, granted[f][1])
        same == inode[turn[f]] = granted[f][2] IN
    /\ At(f, "validate") /\ Works /\ UNCHANGED <<world, seen, snapshot>>
    /\ IF verdict = "ok" /\ same
       THEN Goto(f, "closed") /\ Stays /\ UNCHANGED <<opened, granted, report, posted>>
       ELSE Reports(f, IF verdict = "ok" THEN "StateCorrupted" ELSE verdict)

\* require_closed_browser, dry_run, and decide_escalate.
Closed(f) ==
    LET b == turn[f] IN
    /\ At(f, "closed") /\ Works /\ UNCHANGED <<world, seen, snapshot>>
    /\ \/ b \in seen[f] /\ Reports(f, "BrowserRunning")
       \/ b \notin seen[f] /\ option[f].dry /\ Reports(f, "dry")
       \/ /\ b \notin seen[f] /\ ~option[f].dry
          /\ Goto(f, IF b \notin writable THEN "child"
                     ELSE IF mode = "legacy" THEN "snapshot" ELSE "write")
          /\ Stays /\ UNCHANGED <<opened, granted, report, posted>>

\* The bundle is copied; a copy that fails is kept and never looked at again.
Snapshot(f) ==
    /\ At(f, "snapshot") /\ UNCHANGED <<world, seen>>
    /\ \/ /\ Works /\ Goto(f, "write")
          /\ snapshot' = [snapshot EXCEPT ![f] = live[turn[f]]]
          /\ Stays /\ UNCHANGED <<opened, granted, report, posted>>
       \/ Fails /\ snapshot' = [snapshot EXCEPT ![f] = "partial"] /\ Reports(f, "Other")

\* What a publication leaves when it works, and also when it is reported as
\* failed after the exchange.
Publishes(b) ==
    live' = [live EXCEPT ![b] = "managed"] /\ inode' = [inode EXCEPT ![b] = @ + 1]

\* A transactional write replaces what it authorized, whole.  When it fails the
\* directory is as it was, or the new one is in its place: the way back failed,
\* or nothing but the removal of what the new one displaced.
Write(f) ==
    LET b == turn[f] IN
    /\ At(f, "write") /\ mode = "transactional" /\ UNCHANGED <<running, lockfile, seen, snapshot>>
    /\ \/ /\ inode[b] = granted[f][2] /\ Publishes(b)
          /\ \/ Works /\ Reports(f, "ok")
             \/ Fails /\ Reports(f, "StateCorrupted")
       \/ /\ UNCHANGED <<live, inode>>
          /\ IF inode[b] = granted[f][2] THEN Fails ELSE Works
          /\ Reports(f, "StateCorrupted")

\* A legacy write starts in place, after the same check; any error is taken for
\* one that has modified the bundle.
Overwrite(f) ==
    LET b == turn[f] IN
    /\ At(f, "write") /\ mode = "legacy" /\ Stays
    /\ \/ /\ inode[b] = granted[f][2] /\ Works
          /\ live' = [live EXCEPT ![b] = "torn"] /\ Goto(f, "finalize")
       \/ /\ UNCHANGED live /\ Goto(f, "restore")
          /\ IF inode[b] = granted[f][2] THEN Fails ELSE Works
    /\ UNCHANGED <<inode, running, lockfile, opened, seen, granted, snapshot, report, posted>>

\* Payload, marker and live path are checked, and the snapshot goes; when it
\* cannot be removed, the patch that succeeded is reported as a failure.
Finalize(f) ==
    LET b == turn[f] IN
    /\ At(f, "finalize") /\ UNCHANGED <<inode, running, lockfile, seen>>
    /\ \/ /\ live[b] = "torn" /\ live' = [live EXCEPT ![b] = "managed"]
          /\ \/ Works /\ snapshot' = [snapshot EXCEPT ![f] = Nothing] /\ Reports(f, "ok")
             \/ Fails /\ snapshot[f] # Nothing /\ UNCHANGED snapshot /\ Reports(f, "Other")
       \/ /\ (IF live[b] = "torn" THEN Fails ELSE Works) /\ Goto(f, "restore")
          /\ Stays /\ UNCHANGED <<live, opened, granted, snapshot, report, posted>>

\* The snapshot is exchanged with the bundle and what it displaced removed; when
\* only that fails, the restore that succeeded is reported as failed.
Restore(f) ==
    LET b == turn[f] IN
    /\ At(f, "restore") /\ UNCHANGED <<running, lockfile, seen>>
    /\ \/ /\ snapshot[f] # Nothing
          /\ live' = [live EXCEPT ![b] = snapshot[f]] /\ inode' = [inode EXCEPT ![b] = @ + 1]
          /\ \/ /\ Works /\ Reports(f, "InvalidMarker")
                /\ snapshot' = [snapshot EXCEPT ![f] = Nothing]
             \/ /\ Fails /\ Reports(f, "Other")
                /\ snapshot' = [snapshot EXCEPT ![f] = live[b]]
       \/ /\ IF snapshot[f] = Nothing THEN Works ELSE Fails
          /\ UNCHANGED <<live, inode, snapshot>> /\ Reports(f, "Other")

\* run_patch_via_escalation: the child classifies anew, publishes and exits; one
\* that is killed or fails may have published all the same.
Escalate(f) ==
    LET b == turn[f] IN
    /\ At(f, "child") /\ UNCHANGED <<running, lockfile, seen, snapshot>>
    /\ \/ /\ Enforce(f, live[b]) = "ok" /\ Publishes(b)
          /\ \/ /\ Works /\ Goto(f, "verify") /\ Stays
                /\ UNCHANGED <<opened, granted, report, posted>>
             \/ Fails /\ Reports(f, "PermissionDenied")
       \/ /\ IF Enforce(f, live[b]) = "ok" THEN Fails ELSE Works
          /\ UNCHANGED <<live, inode>> /\ Reports(f, "PermissionDenied")

\* The parent looks for itself at what the child installed, if it can.
Verify(f) ==
    /\ At(f, "verify") /\ UNCHANGED <<world, seen, snapshot>>
    /\ \/ Works /\ Reports(f, IF live[turn[f]] = "managed" THEN "ok" ELSE "InvalidMarker")
       \/ Fails /\ Reports(f, "InvalidMarker")

\* Post-patch hooks, one per report; what they say changes nothing.
PostPatch(f) ==
    /\ At(f, "post") /\ Goto(f, "done") /\ Works /\ Stays
    /\ posted' = [posted EXCEPT ![f] =
           [b \in Browser |-> IF option[f].dry \/ report[f][b] = Nothing THEN 0 ELSE 1]]
    /\ UNCHANGED <<world, opened, seen, granted, snapshot, report>>

Step(f) ==
    \/ PrePatch(f) \/ Resolve(f) \/ Lock(f) \/ Capture(f) \/ Authorize(f) \/ Validate(f)
    \/ Closed(f) \/ Snapshot(f) \/ Write(f) \/ Overwrite(f) \/ Finalize(f) \/ Restore(f)
    \/ Escalate(f) \/ Verify(f) \/ PostPatch(f)

-----------------------------------------------------------------------------
(* What goes on meanwhile.                                                 *)

Meanwhile ==
    /\ outside < MaxOutside /\ outside' = outside + 1
    /\ Options /\ Works
    /\ UNCHANGED <<pc, turn, opened, held, seen, granted, report, posted>>

StartOrQuit(b) ==
    /\ running' = (running \ {b}) \cup ({b} \ running)
    /\ Meanwhile /\ UNCHANGED <<live, inode, lockfile, snapshot>>

\* The browser's updater, or its user, replaces the directory.
Replace(b) ==
    /\ \E c \in Content \ {"torn"} : live' = [live EXCEPT ![b] = c]
    /\ inode' = [inode EXCEPT ![b] = @ + 1]
    /\ Meanwhile /\ UNCHANGED <<running, lockfile, snapshot>>

\* ~/.cache/silvervine is removed: patch.lock, the CDM and the backups in it.
Uninstall ==
    /\ lockfile' = lockfile + 1
    /\ snapshot' \in {snapshot, [f \in Flow |-> Nothing]}
    /\ Meanwhile /\ UNCHANGED <<live, inode, running>>

\* The history of each turn.
Remember(f) ==
    LET begins(g) == turn'[g] \in Browser /\ turn'[g] # turn[g]
        b(g) == turn[g] IN
    history' =
      [before |-> [g \in Flow |-> IF begins(g) THEN live'[turn'[g]] ELSE history.before[g]],
       touched |-> [g \in Flow |-> ~begins(g) /\
           \/ history.touched[g]
           \/ /\ f = Nothing \/ (mode = "legacy" /\ g # f)
              /\ b(g) \in Browser /\ <<live'[b(g)], inode'[b(g)]>> # Dir(b(g))],
       closed |-> [g \in Flow |-> IF begins(g) THEN turn'[g] \notin running'
                                  ELSE history.closed[g] \/ turn[g] \notin running']]

Next ==
    \/ \E f \in Flow : Step(f) /\ Remember(f)
    \/ \E b \in Browser : (StartOrQuit(b) \/ Replace(b)) /\ Remember(Nothing)
    \/ Uninstall /\ Remember(Nothing)

Spec == Init /\ [][Next]_vars
FairSpec == Spec /\ \A f \in Flow : SF_vars(Step(f) /\ Remember(f))

-----------------------------------------------------------------------------
(* Properties.                                                             *)

Reported(f, b, r) == report[f][b] = Nothing /\ report'[f][b] = r

\* What a batch reports of a browser is so.  One reported patched has the managed
\* CDM in its directory at that moment.  One reported failed is as it was when its
\* turn began, unless its updater has replaced it meanwhile; or it has the managed
\* CDM, whole, which a publication leaves that failed or was killed after the
\* exchange, and another batch beside this one, which takes the lock away: only an
\* uninstall lets that happen.  A legacy patch whose snapshot cannot be removed is
\* there all the same, and one whose restore failed has left its snapshot, if no
\* uninstall has removed that.
ReportTrue ==
    [][\A f \in Flow, b \in Browser :
        /\ Reported(f, b, "ok") => live'[b] = "managed"
        /\ report[f][b] = Nothing /\ report'[f][b] \notin {Nothing, "ok"} /\ turn[f] = b =>
             \/ live'[b] = history.before[f]
             \/ history.touched[f]
             \/ live'[b] = "managed" /\ (pc[f] \in {"write", "child", "verify"} \/ lockfile > 1)
             \/ mode = "legacy" /\ report'[f][b] = "Other" /\
                \/ pc[f] = "finalize" /\ live'[b] = "managed" /\ snapshot'[f] = history.before[f]
                \/ pc[f] = "restore" /\ (snapshot'[f] = history.before[f] \/ lockfile > 1)]_vars

\* Nothing is changed without leave.  Without --force no browser is changed that
\* has been running from the moment its turn began: earlier patches of the batch
\* take their time.  A directory with a broken marker is never replaced, and an
\* unmarked one only with consent and as the only browser of the batch.
OnlyWithLeave ==
    [][\A f \in Flow : turn[f] \in Browser /\ Step(f) =>
        LET b == turn[f] IN
        live'[b] # live[b] =>
            /\ option[f].force \/ history.closed[f]
            /\ pc[f] = "restore" \/
               /\ live[b] # "invalid"
               /\ live[b] = "external" => option[f].replace /\ selected[f] = {b}]_vars

\* Every batch ends, and has let go of the lock.
BatchesEnd == \A f \in Flow : <>[](pc[f] = "done" /\ held[f] = 0)
=============================================================================
