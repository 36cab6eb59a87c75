------------------------------- MODULE Watcher -------------------------------
(***************************************************************************)
(* The install watcher (src/src/daemon/watcher.rs) with the daemon's patch *)
(* flow (src/src/daemon/mod.rs) as its callback: file-system events are    *)
(* queued, the dispatch thread turns them into per-browser timers, elapsed *)
(* timers into deferrals or callbacks, and runs the callbacks itself.      *)
(*                                                                         *)
(* Time passes in ticks, and only while the dispatch thread is blocked or  *)
(* in a callback: its own bookkeeping takes none.  A timer is the number   *)
(* of ticks until its deadline.                                            *)
(***************************************************************************)
EXTENDS Integers, Sequences, FiniteSets

CONSTANTS
    Browser,        \* installations
    None,           \* no timer, no deferral, no browser
    Wake,           \* the message that makes a blocked thread look at `stop`
    Debounce,       \* ticks of quiet before an event is acted upon
    Poll,           \* ticks between two looks at a deferred browser
    Stable,         \* ticks the installation must have been unchanged
    Limit,          \* ticks after which a deferral is given up
    MayFail,        \* the steps at which a patch fails for reasons of its own
    Rewatch,        \* whether a watched browser is watched again
    Restart,        \* whether a browser that has quit is started again
    MaxWrites       \* bound on the writes by others

\* A deferral: whether the mtime differs from the one it remembers, for how long
\* it has not, how old it is, and when it is looked at next.
Deferral == [moved : BOOLEAN, still : 0 .. Stable, age : 0 .. (Limit + 1), poll : 0 .. Poll]
NewDeferral == [moved |-> FALSE, still |-> 0, age |-> 0, poll |-> Poll]

ASSUME ConstantsAssumption ==
    /\ None \notin Browser \cup {Wake} \cup Int \cup Deferral
    /\ Wake \notin Browser
    /\ Debounce \in Nat \ {0} /\ Poll \in Nat \ {0}
    /\ Stable \in Nat \ {0} /\ Limit \in Nat \ {0}
    /\ MayFail \subseteq {"attempt", "publish"}
    /\ Rewatch \in BOOLEAN /\ Restart \in BOOLEAN
    /\ MaxWrites \in Nat

VARIABLES
    watched,        \* the browsers with an entry
    timer,          \* dispatch_at of the entries
    deferral,       \* their DeferredState
    queue,          \* the event channel
    pc,             \* where the dispatch thread stands
    snap,           \* the browsers it has found running
    promoted,       \* callbacks due because a debounce timer elapsed ...
    released,       \* ... and because a deferral ended, which come after
    current,        \* the browser whose callback is running
    stop,           \* the watcher is shutting down
    running,        \* the browsers that run
    component,      \* what their installations contain
    writes,         \* writes by others so far
    \* History, read by the properties only:
    quiet,          \* ticks since the last write, up to Debounce
    owed            \* written to since a callback last looked

entries == <<watched, timer, deferral>>
firing == <<snap, promoted, released, current>>
world == <<running, component, writes>>
history == <<quiet, owed>>
vars == <<entries, queue, pc, firing, stop, world, history>>

\* In the loop, in a tick, and in a callback.
Steps == {"wait", "check", "tick", "fire", "select", "attempt", "stage",
          "publish", "stopped"}
Callback == {"select", "attempt", "stage", "publish"}

TypeOK ==
    /\ watched \subseteq Browser
    /\ timer \in [Browser -> 0 .. Debounce \cup {None}]
    /\ deferral \in [Browser -> Deferral \cup {None}]
    /\ queue \in Seq(Browser \cup {Wake})
    /\ pc \in Steps
    /\ snap \subseteq Browser
    /\ promoted \subseteq Browser
    /\ released \subseteq Browser
    /\ current \in Browser \cup {None}
    /\ stop \in BOOLEAN
    /\ running \subseteq Browser
    /\ component \in [Browser -> {"missing", "managed", "foreign"}]
    /\ writes \in 0 .. MaxWrites
    /\ quiet \in [Browser -> 0 .. Debounce]
    /\ owed \subseteq Browser

Init ==
    /\ watched = Browser
    /\ timer = [b \in Browser |-> None]
    /\ deferral = [b \in Browser |-> None]
    /\ queue = <<>>
    /\ pc = "wait"
    /\ snap = {} /\ promoted = {} /\ released = {} /\ current = None
    /\ stop = FALSE
    /\ running \in SUBSET Browser
    /\ component \in [Browser -> {"missing", "managed", "foreign"}]
    /\ writes = 0
    /\ quiet = [b \in Browser |-> Debounce]
    /\ owed = {}

(***************************************************************************)
(* The clock.                                                              *)
(***************************************************************************)

\* next_wake_deadline has passed for some entry.
Due == \E b \in Browser :
         timer[b] = 0 \/ (deferral[b] # None /\ deferral[b].poll = 0)

Down(t) == IF t = 0 THEN 0 ELSE t - 1
Up(t, bound) == IF t < bound THEN t + 1 ELSE bound

Later(d) ==
    IF d = None THEN None
    ELSE [moved |-> d.moved, still |-> Up(d.still, Stable),
          age |-> Up(d.age, Limit + 1), poll |-> Down(d.poll)]

Tick ==
    /\ pc \in Callback \/ (pc = "wait" /\ queue = <<>> /\ ~Due)
    /\ timer' = [b \in Browser |-> IF timer[b] = None THEN None ELSE Down(timer[b])]
    /\ deferral' = [b \in Browser |-> Later(deferral[b])]
    /\ quiet' = [b \in Browser |-> Up(quiet[b], Debounce)]
    /\ UNCHANGED <<watched, queue, pc, firing, stop, world, owed>>

(***************************************************************************)
(* The dispatch loop (run_dispatch, handle_fs_event).                      *)
(***************************************************************************)

\* Mutant: only the first event of a storm starts the timer.
HandleFirstEvent(b) ==
    IF b \in watched
    THEN /\ timer' = [timer EXCEPT ![b] = IF @ = None THEN Debounce ELSE @]
         /\ deferral' = [deferral EXCEPT ![b] = None]
    ELSE UNCHANGED <<timer, deferral>>

\* An event (re)starts its browser's timer and ends its deferral.
HandleEvent(b) ==
    IF b \in watched
    THEN /\ timer' = [timer EXCEPT ![b] = Debounce]
         /\ deferral' = [deferral EXCEPT ![b] = None]
    ELSE UNCHANGED <<timer, deferral>>

\* recv_timeout returns a message if there is one, whatever the deadline.
Receive ==
    /\ pc = "wait"
    /\ queue # <<>>
    /\ \/ Head(queue) = Wake /\ UNCHANGED <<timer, deferral>>
       \/ Head(queue) \in Browser /\ HandleEvent(Head(queue))
    /\ queue' = Tail(queue)
    /\ pc' = "check"
    /\ UNCHANGED <<watched, firing, stop, world, history>>

TimeOut ==
    /\ pc = "wait"
    /\ queue = <<>>
    /\ Due
    /\ pc' = "check"
    /\ UNCHANGED <<entries, queue, firing, stop, world, history>>

\* `stop` is looked at first; if work is due, the processes are listed for it.
Check ==
    /\ pc = "check"
    /\ pc' = IF stop THEN "stopped" ELSE IF Due THEN "tick" ELSE "wait"
    /\ snap' = IF ~stop /\ Due THEN running ELSE {}
    /\ UNCHANGED <<entries, queue, promoted, released, current, stop, world, history>>

(***************************************************************************)
(* One tick (handle_tick_with_snapshot), under the lock of the entries.    *)
(***************************************************************************)

Elapsed == {b \in watched : timer[b] = 0}
Polled == {b \in watched : deferral[b] # None /\ deferral[b].poll = 0}

\* Mutant: a deferral is never given up.
ReleaseClosed(d, b) == ~d.moved /\ d.still = Stable /\ b \notin snap

\* The installation has been quiet and the browser is closed, or the deferral
\* is too old.  A deferral that has just seen a new mtime is not looked at.
Release(d, b) ==
    ~d.moved /\ ((d.still = Stable /\ b \notin snap) \/ d.age > Limit)

\* What a look at a deferral leaves of it.
Looked(d, b) ==
    IF Release(d, b) THEN None
    ELSE [moved |-> FALSE, still |-> IF d.moved THEN 0 ELSE d.still,
          age |-> d.age, poll |-> Poll]

HandleTick ==
    /\ pc = "tick"
    /\ timer' = [b \in Browser |-> IF b \in Elapsed THEN None ELSE timer[b]]
    /\ deferral' = [b \in Browser |->
         IF b \in Elapsed /\ b \in snap THEN NewDeferral
         ELSE IF b \in Polled THEN Looked(deferral[b], b) ELSE deferral[b]]
    /\ promoted' = Elapsed \ snap
    /\ released' = {b \in Polled : Release(deferral[b], b)}
    /\ pc' = "fire"
    /\ UNCHANGED <<watched, queue, snap, current, stop, world, history>>

\* Mutant: of the callbacks that are due only one is made.
FireOne ==
    /\ pc = "fire"
    /\ \E b \in IF promoted # {} THEN promoted ELSE released : current' = b
    /\ promoted' = {} /\ released' = {}
    /\ pc' = "select"
    /\ UNCHANGED <<entries, queue, snap, stop, world, history>>

\* The callbacks, one after the other.
Fire ==
    /\ pc = "fire"
    /\ \E b \in IF promoted # {} THEN promoted ELSE released :
         /\ current' = b
         /\ promoted' = promoted \ {b}
         /\ released' = IF promoted # {} THEN released ELSE released \ {b}
    /\ pc' = "select"
    /\ UNCHANGED <<entries, queue, snap, stop, world, history>>

\* The top of the loop looks at `stop` again.
Fired ==
    /\ pc = "fire"
    /\ promoted = {} /\ released = {}
    /\ pc' = IF stop THEN "stopped" ELSE "wait"
    /\ snap' = {}
    /\ UNCHANGED <<entries, queue, promoted, released, current, stop, world, history>>

(***************************************************************************)
(* The callback: drive_patch_flow for one browser.                         *)
(***************************************************************************)

\* A write below b's installation raises an event, unless nobody watches it; the
\* mtime of the installation changes if the entry is at its top.
Written(b, top) ==
    /\ queue' = IF b \in watched /\ ~stop THEN Append(queue, b) ELSE queue
    /\ owed' = IF b \in watched /\ ~stop THEN owed \cup {b} ELSE owed
    /\ quiet' = [quiet EXCEPT ![b] = 0]
    /\ deferral' = IF top /\ deferral[b] # None
                   THEN [deferral EXCEPT ![b].moved = TRUE]
                   ELSE deferral

Return == pc' = "fire" /\ current' = None

\* Mutant: what is installed already is installed again.
SelectAlways ==
    /\ pc = "select"
    /\ owed' = owed \ {current}
    /\ pc' = "attempt" /\ current' = current
    /\ UNCHANGED <<entries, queue, snap, promoted, released, stop, world, quiet>>

\* select_patch_action: a managed component is current, a foreign one preserved.
Select ==
    /\ pc = "select"
    /\ owed' = owed \ {current}
    /\ IF component[current] = "missing"
       THEN pc' = "attempt" /\ current' = current
       ELSE Return
    /\ UNCHANGED <<entries, queue, snap, promoted, released, stop, world, quiet>>

\* The hook, the candidate and the lock, any of which may fail; then run_patch
\* refuses a browser that runs.
Attempt ==
    /\ pc = "attempt"
    /\ \/ current \notin running /\ pc' = "stage" /\ current' = current
       \/ current \in running /\ Return
       \/ "attempt" \in MayFail /\ Return
    /\ UNCHANGED <<entries, queue, snap, promoted, released, stop, world, history>>

\* The temporary directory is created at the top of the installation.
Stage ==
    /\ pc = "stage"
    /\ Written(current, TRUE)
    /\ pc' = "publish"
    /\ UNCHANGED <<watched, timer, firing, stop, world>>

\* The exchange; a target that is no longer the authorized one is an error.
Publish ==
    /\ pc = "publish"
    /\ component[current] = "missing"
    /\ component' = [component EXCEPT ![current] = "managed"]
    /\ Written(current, TRUE)
    /\ Return
    /\ UNCHANGED <<watched, timer, snap, promoted, released, stop, running, writes>>

\* Any error after staging: the temporary directory is removed.
PublishFails ==
    /\ pc = "publish"
    /\ component[current] # "missing" \/ "publish" \in MayFail
    /\ Written(current, TRUE)
    /\ Return
    /\ UNCHANGED <<watched, timer, snap, promoted, released, stop, world>>

(***************************************************************************)
(* The watcher's owner, and everybody else.                                *)
(***************************************************************************)

\* A new entry, in place of the one there is.
Watch(b) ==
    /\ ~stop
    /\ Rewatch \/ b \notin watched
    /\ watched' = watched \cup {b}
    /\ timer' = [timer EXCEPT ![b] = None]
    /\ deferral' = [deferral EXCEPT ![b] = None]
    /\ UNCHANGED <<queue, pc, firing, stop, world, history>>

Unwatch(b) ==
    /\ ~stop
    /\ watched' = watched \ {b}
    /\ timer' = [timer EXCEPT ![b] = None]
    /\ deferral' = [deferral EXCEPT ![b] = None]
    /\ owed' = owed \ {b}
    /\ UNCHANGED <<queue, pc, firing, stop, world, quiet>>

\* Mutant: nothing wakes a blocked dispatch thread.
CloseSilently ==
    /\ ~stop
    /\ stop' = TRUE
    /\ UNCHANGED <<entries, queue, pc, firing, world, history>>

\* shutdown: the backend is dropped, the thread woken; the caller then joins it.
Close ==
    /\ ~stop
    /\ stop' = TRUE
    /\ queue' = Append(queue, Wake)
    /\ UNCHANGED <<entries, pc, firing, world, history>>

\* A browser's updater or the user writes to the installation.
Write(b) ==
    /\ writes < MaxWrites
    /\ writes' = writes + 1
    /\ \E top \in BOOLEAN : Written(b, top)
    /\ \E c \in {"missing", "managed", "foreign"} : component' = [component EXCEPT ![b] = c]
    /\ UNCHANGED <<watched, timer, pc, firing, stop, running>>

StartOrQuit(b) ==
    /\ \/ b \in running /\ running' = running \ {b}
       \/ Restart /\ b \notin running /\ running' = running \cup {b}
    /\ UNCHANGED <<entries, queue, pc, firing, stop, component, writes, history>>

Dispatch ==
    \/ Receive \/ TimeOut \/ Check \/ HandleTick \/ Fire \/ Fired
    \/ Select \/ Attempt \/ Stage \/ Publish \/ PublishFails

Next ==
    \/ Dispatch
    \/ Tick
    \/ Close
    \/ \E b \in Browser : Watch(b) \/ Unwatch(b) \/ Write(b) \/ StartOrQuit(b)

Spec == Init /\ [][Next]_vars

\* The dispatch thread is scheduled, its callbacks return, and time passes.
FairSpec == Spec /\ WF_vars(Dispatch) /\ WF_vars(Tick)

(***************************************************************************)
(* Properties.                                                             *)
(***************************************************************************)

\* A write to a watched installation that no callback has looked at yet is on
\* its way to one: queued, timed, deferred, or about to be called back
\* (watcher.rs:481-573; one entry of the map holds all of it, :145-148).
NothingForgotten ==
    ~stop => \A b \in owed :
        \/ \E i \in DOMAIN queue : queue[i] = b
        \/ timer[b] # None
        \/ deferral[b] # None
        \/ b \in promoted \cup released
        \/ pc = "select" /\ current = b

\* "The user callback only fires once that timer elapses with no new events"
\* (watcher.rs:12-18): when its timer is found elapsed, the last write is a full
\* debounce window back, unless its event is still in the channel: the thread
\* ticks after every event it receives, and promotes an entry although a later
\* write to it waits behind another installation's.  (A write in that very tick
\* cannot be told from a later one.)
FiresOnlyWhenQuiet ==
    [][pc = "tick" /\ pc' = "fire" =>
         \A b \in promoted' : quiet[b] \in 1 .. (Debounce - 1) =>
             \E i \in DOMAIN queue : queue[i] = b]_vars

\* Every write to a watched installation is looked at by a later callback, even
\* if its browser never quits (watcher.rs:553-567), unless the watcher is closed.
AnsweredEventually == \A b \in Browser : b \in owed ~> b \notin owed \/ stop

\* The daemon's own writes do not keep it busy for ever: "breaks the
\* watcher->patch->watcher loop" (daemon/mod.rs:695-698).
Settles == <>[](pc \notin Callback)

\* shutdown joins a dispatch thread that ends (watcher.rs:350-358).
ShutdownEnds == stop ~> pc = "stopped"

\* "The daemon retries deferred work after the browser exits"
\* (docs/troubleshooting.md:25): if the browser of a deferral has quit for good,
\* its missing component is installed.
RetriedAfterExit ==
    \A b \in Browser :
        <>[](b \notin running) =>
            (deferral[b] # None ~> component[b] # "missing" \/ stop \/ b \notin watched)
=============================================================================
