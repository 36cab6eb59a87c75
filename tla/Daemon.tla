------------------------------- MODULE Daemon -------------------------------
(***************************************************************************)
(* The daemon process of src/src/daemon/mod.rs: its event loop, the        *)
(* watcher's dispatch thread, the IPC accept thread (daemon/ipc.rs) and    *)
(* the self-update thread (cli/update_self.rs), the patch lock they and    *)
(* the threads of a second daemon share, the clients of the socket, the    *)
(* service manager that kills and restarts the process, and the orderly    *)
(* shutdown that joins the threads one after the other.                    *)
(*                                                                         *)
(* One browser stands for all; `current` says whether its CDM is the one   *)
(* silvervine manages.  How a patch is carried out is in Publication, how  *)
(* the watcher debounces in Watcher.                                       *)
(***************************************************************************)
EXTENDS Integers, Sequences, SequencesExt

CONSTANTS
    Process,     \* daemon processes, 1..n in the order they are started
    Client,      \* `silvervine` invocations that talk to the socket
    Nobody,      \* no process, no client, no thread
    MaxEvents    \* bound on the clicks, the requests and the browser's updates

ASSUME ConstantsAssumption ==
    /\ MaxEvents \in Nat
    /\ Nobody \notin Process \cup Client

Thread == {"main", "watcher", "ipc", "auto"}

VARIABLES
    phase,     \* "off", "starting", "up" or "dead"
    pc,        \* pc[d][t]: where each of the threads stands
    stop,      \* the flag all threads poll
    ipcStop,   \* the flag of the IPC server
    clicks,    \* commands in the channel from the tray
    changed,   \* the watcher has an event to dispatch
    path,      \* the process whose socket daemon.sock is
    backlog,   \* connections not yet accepted
    serving,   \* the client whose request the accept thread handles
    client,    \* "waiting", or "idle": answered, refused, reset or tired of waiting
    lock,      \* holder of the flock on patch.lock
    current,   \* the CDM in the browser is the managed one
    bounds,    \* counters: events, the requests of each client
    crowded    \* history: two daemons have run side by side

threads == <<pc, stop, ipcStop, clicks>>
socket == <<path, backlog, serving, client>>
files == <<lock, current>>
vars == <<phase, changed, bounds, crowded, threads, socket, files>>

Alive == {d \in Process : phase[d] \in {"starting", "up"}}
Patching == {"wait", "patch"}
Joining == {"joinWatcher", "dropIpc", "joinIpc", "joinRest"}
Place == Patching \cup Joining \cup {"gone", "idle", "update", "restart"}
Free == <<Nobody, Nobody>>

\* The n-th connection of a client; `Empty` is one that sends no request.
Connection == ((Client \cup {Nobody}) \X (0..MaxEvents))
Empty == <<Nobody, 0>>

\* The connection its client still waits on.
Awaited(k) == k[1] # Nobody /\ client[k[1]] = "waiting" /\ bounds.tries[k[1]] = k[2]

TypeOK ==
    /\ phase \in [Process -> {"off", "starting", "up", "dead"}]
    /\ pc \in [Process -> [Thread -> Place]]
    /\ \A f \in {stop, ipcStop, changed} : f \in [Process -> BOOLEAN]
    /\ clicks \in [Process -> Seq({"Quit", "PatchAll", "UpdateWidevine"})]
    /\ path \in Process \cup {Nobody}
    /\ backlog \in [Process -> Seq(Connection)]
    /\ serving \in [Process -> Connection]
    /\ client \in [Client -> {"idle", "waiting"}]
    /\ lock \in (Process \X Thread) \cup {Free}
    /\ current \in BOOLEAN
    /\ bounds \in [events : 0..MaxEvents, tries : [Client -> 0..MaxEvents]]
    /\ crowded \in BOOLEAN

Init ==
    /\ phase = [d \in Process |-> "off"]
    /\ pc = [d \in Process |-> [t \in Thread |-> "gone"]]
    /\ stop = [d \in Process |-> FALSE] /\ ipcStop = stop /\ changed = stop
    /\ clicks = [d \in Process |-> <<>>]
    /\ path = Nobody
    /\ backlog = clicks
    /\ serving = [d \in Process |-> Empty]
    /\ client = [c \in Client |-> "idle"]
    /\ lock = Free
    /\ current \in BOOLEAN
    /\ bounds = [events |-> 0, tries |-> [c \in Client |-> 0]]
    /\ crowded = FALSE

Goto(d, t, there) == pc' = [pc EXCEPT ![d][t] = there]

-----------------------------------------------------------------------------
(* Starting, by the user or by systemd.                                     *)

\* Mutant: the socket left over is not cleared.
LaunchKeepingSocket(d) ==
    /\ phase[d] = "off" /\ \A e \in Process : e < d => phase[e] # "off"
    /\ phase' = [phase EXCEPT ![d] = "starting"]
    /\ crowded' = (crowded \/ Alive # {})
    /\ Goto(d, "watcher", "idle")
    /\ UNCHANGED <<changed, bounds, stop, ipcStop, clicks, socket, files>>

\* The watcher is built first.  Then start_at clears what it takes for a socket
\* left over from a crash.
Launch(d) ==
    /\ phase[d] = "off" /\ \A e \in Process : e < d => phase[e] # "off"
    /\ phase' = [phase EXCEPT ![d] = "starting"]
    /\ crowded' = (crowded \/ Alive # {})
    /\ path' = Nobody
    /\ Goto(d, "watcher", "idle")
    /\ UNCHANGED <<changed, bounds, stop, ipcStop, clicks, backlog, serving, client, files>>

\* The socket is bound and the other threads are spawned; the heartbeat's writes
\* at once.  The watcher may already have a patch in hand.
Bind(d) ==
    /\ phase[d] = "starting" /\ path = Nobody
    /\ path' = d
    /\ phase' = [phase EXCEPT ![d] = "up"]
    /\ pc' = [pc EXCEPT ![d] = [t \in Thread |-> IF t = "watcher" THEN @[t] ELSE "idle"]]
    /\ UNCHANGED <<changed, bounds, crowded, stop, ipcStop, clicks,
                   backlog, serving, client, files>>

\* The connections of a listener that is closed are reset.
Reset(d) ==
    /\ client' = [c \in Client |->
           IF \E k \in ToSet(backlog[d]) \cup {serving[d]} : k[1] = c /\ Awaited(k)
           THEN "idle" ELSE client[c]]
    /\ backlog' = [backlog EXCEPT ![d] = <<>>]
    /\ serving' = [serving EXCEPT ![d] = Empty]

\* The end of a process: the kernel closes its descriptors, the flock with them.
Kill(d, threadsOf) ==
    /\ phase' = [phase EXCEPT ![d] = "dead"]
    /\ pc' = [threadsOf EXCEPT ![d] = [t \in Thread |-> "gone"]]
    /\ stop' = [stop EXCEPT ![d] = FALSE]
    /\ ipcStop' = [ipcStop EXCEPT ![d] = FALSE]
    /\ clicks' = [clicks EXCEPT ![d] = <<>>]
    /\ changed' = [changed EXCEPT ![d] = FALSE]
    /\ Reset(d)

Die(d) ==
    /\ Kill(d, pc)
    /\ lock' = IF lock[1] = d THEN Free ELSE lock

\* SIGTERM, which nothing in the daemon handles, or a crash.
Killed(d) ==
    /\ d \in Alive
    /\ Die(d)
    /\ UNCHANGED <<bounds, crowded, path, current>>

\* Somebody else bound the path in between: the error ends the process, once the
\* watcher, which is joined, is out of the patch it may have in hand.
BindFails(d) ==
    /\ phase[d] = "starting" /\ path # Nobody /\ pc[d]["watcher"] = "idle"
    /\ Die(d)
    /\ UNCHANGED <<bounds, crowded, path, current>>

-----------------------------------------------------------------------------
(* The patch flow, run by whichever thread was asked to.                   *)

\* Mutant: what is managed is patched again.
SelectedAlways == {"wait"}

\* Where select_patch_action sends a thread without a candidate: what is managed is
\* left alone, and so is a CDM that is not silvervine's or cannot be told.  This
\* is read before the lock is taken.
Selections == IF current THEN {"idle"} ELSE {"idle", "wait"}

Acquire(d, t) ==
    /\ pc[d][t] = "wait" /\ lock = Free
    /\ lock' = <<d, t>>
    /\ Goto(d, t, "patch")
    /\ UNCHANGED <<phase, changed, bounds, crowded, stop,
                   ipcStop, clicks, socket, current>>

Answer(d, k) ==
    /\ client' = IF Awaited(k) THEN [client EXCEPT ![k[1]] = "idle"] ELSE client
    /\ serving' = [serving EXCEPT ![d] = Empty]

\* Every watcher there is has something to dispatch.
Seen == changed' = [e \in Process |-> changed[e] \/ pc[e]["watcher"] # "gone"]

\* The patch ends.  It has succeeded; it failed before anything was staged; or it
\* failed later, with the new component live or taken back.  What it staged, the
\* watchers see either way.  The accept thread answers its client, if it still waits.
Patch(d, t) ==
    /\ pc[d][t] = "patch"
    /\ \/ current' \in {current, TRUE} /\ Seen
       \/ UNCHANGED <<current, changed>>
    /\ lock' = Free
    /\ Goto(d, t, "idle")
    /\ IF t = "ipc" THEN Answer(d, serving[d]) ELSE UNCHANGED <<client, serving>>
    /\ UNCHANGED <<phase, bounds, crowded, stop, ipcStop,
                   clicks, path, backlog>>

\* The browser's own update replaces the CDM.
Replace ==
    /\ bounds.events < MaxEvents
    /\ bounds' = [bounds EXCEPT !.events = @ + 1]
    /\ current' = FALSE
    /\ Seen
    /\ UNCHANGED <<phase, crowded, threads, socket, lock>>

WatcherStopped(d) == pc[d]["main"] \in Joining

WatcherFires(d) ==
    /\ pc[d]["watcher"] = "idle" /\ changed[d] /\ ~WatcherStopped(d)
    /\ changed' = [changed EXCEPT ![d] = FALSE]
    /\ \E there \in Selections : Goto(d, "watcher", there)
    /\ UNCHANGED <<phase, bounds, crowded, stop,
                   ipcStop, clicks, socket, files>>

-----------------------------------------------------------------------------
(* The tray and the event loop.                                            *)

Click(d) == \E command \in {"Quit", "PatchAll", "UpdateWidevine"} :
    /\ phase[d] = "up" /\ bounds.events < MaxEvents
    /\ bounds' = [bounds EXCEPT !.events = @ + 1]
    /\ clicks' = [clicks EXCEPT ![d] = Append(@, command)]
    /\ UNCHANGED <<phase, changed, crowded, pc, stop,
                   ipcStop, socket, files>>

\* An update of Widevine hands its candidate to the flow: a CDM that is not
\* the candidate is patched even if it is managed.  Either can fail before.
EventLoop(d) ==
    /\ pc[d]["main"] = "idle" /\ clicks[d] # <<>>
    /\ clicks' = [clicks EXCEPT ![d] = Tail(@)]
    /\ CASE Head(clicks[d]) = "Quit" ->
              Goto(d, "main", "joinWatcher") /\ stop' = [stop EXCEPT ![d] = TRUE]
         [] Head(clicks[d]) = "PatchAll" ->
              (\E there \in Selections : Goto(d, "main", there)) /\ UNCHANGED stop
         [] OTHER ->
              (\E there \in {"idle", "wait"} : Goto(d, "main", there)) /\ UNCHANGED stop
    /\ UNCHANGED <<phase, changed, bounds, crowded,
                   ipcStop, socket, files>>

-----------------------------------------------------------------------------
(* The socket.                                                             *)

Listening(d) == phase[d] = "up" /\ pc[d]["ipc"] # "gone"

Connect(c) ==
    /\ client[c] # "waiting" /\ bounds.events < MaxEvents
    /\ bounds' = [bounds EXCEPT !.events = @ + 1, !.tries[c] = @ + 1]
    /\ IF path # Nobody /\ Listening(path)
       THEN /\ client' = [client EXCEPT ![c] = "waiting"]
            /\ backlog' = [backlog EXCEPT ![path] = Append(@, <<c, bounds.tries[c] + 1>>)]
       ELSE client' = [client EXCEPT ![c] = "idle"] /\ UNCHANGED backlog
    /\ UNCHANGED <<phase, changed, crowded, threads, path, serving, files>>

\* Five seconds without an answer.  The daemon is not told.
GiveUp(c) ==
    /\ client[c] = "waiting"
    /\ client' = [client EXCEPT ![c] = "idle"]
    /\ UNCHANGED <<phase, changed, bounds, crowded, threads, path, backlog,
                   serving, files>>

\* One connection at a time: a request for a patch is carried out before the
\* next is accepted, if there is anything to patch or it is forced; the others are
\* answered at once.
Accept(d) ==
    /\ pc[d]["ipc"] = "idle" /\ ~ipcStop[d] /\ backlog[d] # <<>>
    /\ backlog' = [backlog EXCEPT ![d] = Tail(@)]
    /\ \/ /\ Head(backlog[d]) # Empty                  \* Patch
          /\ Goto(d, "ipc", "wait")
          /\ serving' = [serving EXCEPT ![d] = Head(backlog[d])]
          /\ UNCHANGED client
       \/ /\ Answer(d, Head(backlog[d]))               \* the others, nothing to patch
          /\ UNCHANGED pc
    /\ UNCHANGED <<phase, changed, bounds, crowded, stop,
                   ipcStop, clicks, path, files>>

-----------------------------------------------------------------------------
(* The self-update, if the configuration asks for it.                      *)

\* Mutant: the update does not ask for the lock.
AutoApplyUnlocked(d) ==
    /\ pc[d]["auto"] = "idle" /\ ~stop[d]
    /\ Goto(d, "auto", "update")
    /\ UNCHANGED <<phase, changed, bounds, crowded, stop, ipcStop, clicks, socket, files>>

\* It never waits for the lock: it tries again the next day.
AutoApply(d) ==
    /\ pc[d]["auto"] = "idle" /\ ~stop[d]
    /\ lock = Free
    /\ lock' = <<d, "auto">>
    /\ Goto(d, "auto", "update")
    /\ UNCHANGED <<phase, changed, bounds, crowded, stop,
                   ipcStop, clicks, socket, current>>

\* The sidecar replaces the executable, finds it current, or fails.
Sidecar(d) ==
    /\ pc[d]["auto"] = "update"
    /\ \/ Goto(d, "auto", "restart") /\ UNCHANGED lock
       \/ lock' = Free /\ Goto(d, "auto", "idle")
    /\ UNCHANGED <<phase, changed, bounds, crowded, stop,
                   ipcStop, clicks, socket, current>>

\* systemctl --user try-restart, still under the lock: the service is killed,
\* whichever of the processes it is, this one in the middle of the call, and
\* systemd starts it anew (Launch).  None may be the service; it can fail.
Restart(d) ==
    /\ pc[d]["auto"] = "restart"
    /\ \/ \E e \in Alive : Kill(e, IF e = d THEN pc ELSE [pc EXCEPT ![d]["auto"] = "idle"])
       \/ /\ Goto(d, "auto", "idle")
          /\ UNCHANGED <<phase, changed, stop, ipcStop, clicks, backlog, serving, client>>
    /\ lock' = Free
    /\ UNCHANGED <<bounds, crowded, path, current>>

-----------------------------------------------------------------------------
(* The orderly shutdown, after Quit: one join after the other.             *)

WatcherExits(d) ==
    /\ pc[d]["watcher"] = "idle" /\ WatcherStopped(d)
    /\ Goto(d, "watcher", "gone")
    /\ changed' = [changed EXCEPT ![d] = FALSE]
    /\ UNCHANGED <<phase, bounds, crowded, stop,
                   ipcStop, clicks, socket, files>>

JoinWatcher(d) ==
    /\ pc[d]["main"] = "joinWatcher" /\ pc[d]["watcher"] = "gone"
    /\ Goto(d, "main", "dropIpc")
    /\ UNCHANGED <<phase, changed, bounds, crowded, stop,
                   ipcStop, clicks, socket, files>>

\* The flag is set, and a connection to the path is to wake the accept thread.
DropIpc(d) ==
    /\ pc[d]["main"] = "dropIpc"
    /\ ipcStop' = [ipcStop EXCEPT ![d] = TRUE]
    /\ backlog' = IF path # Nobody /\ Listening(path)
                  THEN [backlog EXCEPT ![path] = Append(@, Empty)] ELSE backlog
    /\ Goto(d, "main", "joinIpc")
    /\ UNCHANGED <<phase, changed, bounds, crowded, stop,
                   clicks, path, serving, client, files>>

\* Mutant: accept blocks, and only a connection makes the thread look at the flag.
IpcExitsAwoken(d) ==
    /\ pc[d]["ipc"] = "idle" /\ ipcStop[d] /\ backlog[d] # <<>>
    /\ Goto(d, "ipc", "gone")
    /\ Reset(d)
    /\ UNCHANGED <<phase, changed, bounds, crowded, stop, ipcStop, clicks, path, files>>

IpcExits(d) ==
    /\ pc[d]["ipc"] = "idle" /\ ipcStop[d]
    /\ Goto(d, "ipc", "gone")
    /\ Reset(d)
    /\ UNCHANGED <<phase, changed, bounds, crowded, stop,
                   ipcStop, clicks, path, files>>

\* The accept thread has ended; whatever the path names now is removed.
JoinIpc(d) ==
    /\ pc[d]["main"] = "joinIpc" /\ pc[d]["ipc"] = "gone"
    /\ path' = Nobody
    /\ Goto(d, "main", "joinRest")
    /\ UNCHANGED <<phase, changed, bounds, crowded, stop,
                   ipcStop, clicks, backlog, serving, client, files>>

AutoExits(d) ==
    /\ pc[d]["auto"] = "idle" /\ stop[d]
    /\ Goto(d, "auto", "gone")
    /\ UNCHANGED <<phase, changed, bounds, crowded, stop,
                   ipcStop, clicks, socket, files>>

\* The last threads are joined, the shutdown is stamped, run_with returns.
Exit(d) ==
    /\ pc[d]["main"] = "joinRest" /\ pc[d]["auto"] = "gone"
    /\ Die(d)
    /\ UNCHANGED <<bounds, crowded, path, current>>

-----------------------------------------------------------------------------
Step(d, t) ==
    \/ Acquire(d, t) \/ Patch(d, t)
    \/ t = "main" /\ (EventLoop(d) \/ JoinWatcher(d) \/ DropIpc(d) \/ JoinIpc(d) \/ Exit(d))
    \/ t = "watcher" /\ (WatcherFires(d) \/ WatcherExits(d))
    \/ t = "ipc" /\ (Accept(d) \/ IpcExits(d))
    \/ t = "auto" /\ (Sidecar(d) \/ Restart(d) \/ AutoExits(d))

Next ==
    \/ \E d \in Process :
         \/ Launch(d) \/ Bind(d) \/ BindFails(d) \/ Killed(d)
         \/ Click(d) \/ AutoApply(d)
         \/ \E t \in Thread : Step(d, t)
    \/ Replace
    \/ \E c \in Client : Connect(c) \/ GiveUp(c)

Spec == Init /\ [][Next]_vars

\* A thread that can go on does.  Nothing makes a user, a client, systemd or
\* the self-update act, and a client may wait for ever.  The flock is granted
\* in no order: its waiter is sure of it only if it is free again and again.
Fairness == \A d \in Process, t \in Thread : SF_vars(Step(d, t))

FairSpec == Spec /\ Fairness

-----------------------------------------------------------------------------
(* Properties.                                                             *)

\* While the executable is swapped or the service restarted, nobody patches,
\* in this daemon or in another ("so we never swap mid-patch").
NeverSwapMidPatch ==
    \A d, e \in Process, t \in Thread :
        pc[d]["auto"] \in {"update", "restart"} => pc[e][t] # "patch"

\* As long as daemons follow one another, whatever ended the previous one, the
\* running daemon is the one a client finds at the path, and none is kept from
\* starting by a socket that was left there.
\* A client that waits is waited for: its connection is in the backlog or in the
\* hands of a process that lives.
Reachable ==
    /\ \A d \in Process : ~crowded =>
         /\ Listening(d) => path = d
         /\ phase[d] = "starting" => path = Nobody
    /\ \A c \in Client : client[c] = "waiting" =>
         \E d \in Alive : \E k \in ToSet(backlog[d]) \cup {serving[d]} : k[1] = c /\ Awaited(k)

\* Whatever the event loop is made to do ends: where it patches it waits for
\* the lock, but it gets back to the tray; and once it is told to quit, the
\* joins come to an end, whoever waits for the lock or holds it.  A client with
\* no timeout of its own is answered or cut off.
NobodyIsLeftWaiting ==
    /\ \A d \in Process : pc[d]["main"] # "idle" ~> pc[d]["main"] \in {"idle", "gone"}
    /\ \A c \in Client : client[c] = "waiting" ~> client[c] # "waiting"

\* A patch that failed after it had staged, and left what was there.
FailsStaged(d, t) == Patch(d, t) /\ ~current /\ ~current' /\ Seen

\* A patch is a change the watcher sees, and a change makes the watcher patch;
\* still the daemons come to rest, unless patches fail after staging again and again:
\* each of those is the change that brings the next.
PatchesSettle ==
    \/ <>[](\A d \in Process, t \in Thread : pc[d][t] # "patch")
    \/ []<><<\E d \in Process, t \in Thread : FailsStaged(d, t)>>_vars
=============================================================================
