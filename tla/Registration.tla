---------------------------- MODULE Registration ----------------------------
(***************************************************************************)
(* The registration of the daemon with systemd                             *)
(* (src/src/daemon/lifecycle/linux.rs): the transactions of `register` and *)
(* `unregister`, each a sequence of systemctl calls and file operations    *)
(* with its rollback, run by CLI invocations and by the tray of a daemon   *)
(* that may itself be the service it stops.                                *)
(***************************************************************************)
EXTENDS Integers, FiniteSets

CONSTANTS
    Cli,         \* invocations of `silvervine setup`, `uninstall` or `migrate`
    Daemon,      \* daemon processes, 1..n in the order they are started
    None,        \* no file, no process
    MaxFailures, \* bound on the calls that fail
    MaxOps       \* bound on the operations

Agent == Cli \cup Daemon
Unit == {"former", "new"}           \* the unit file names this executable or not

VARIABLES
    unit,      \* ~/.config/systemd/user/silvervine.service
    loaded,    \* the unit systemd has read, at its last daemon-reload
    enabled,   \* the symlink of [Install]
    service,   \* the main process of the active service
    alive,     \* the daemon processes that run
    started,   \* how many have been
    menu,      \* whether the tray of a daemon shows "Launch at Login" checked
    at,        \* where each agent stands in its transaction
    op,        \* "register" or "retire"
    prev,      \* what the transaction read before it changed anything
    dirty,     \* a step of its rollback failed
    outcome,   \* what the last transaction of an agent reported
    failures, ops,  \* counters
    mixed      \* history: something else changed meanwhile

world == <<unit, loaded, enabled, service, alive, started, menu>>
local == <<at, op, prev, dirty, outcome>>
vars == <<world, local, failures, ops, mixed>>

Rollback == {"undoDisable", "undoWrite", "undoReload", "undoEnable", "undoStart"}
Working == Rollback \cup {"stop", "write", "reload", "enable", "purge", "disable", "remove", "forget"}
Outcome == {"none", "ok", "error", "dirty", "killed"}
State == [unit |-> unit, service |-> service, enabled |-> enabled]

WorldTypeOK ==
    /\ unit \in Unit \cup {None} /\ loaded \in Unit \cup {None}
    /\ enabled \in BOOLEAN
    /\ alive \subseteq Daemon /\ service \in alive \cup {None}
    /\ started \in 0..Cardinality(Daemon) /\ alive \subseteq 1..started
    /\ menu \in [Daemon -> BOOLEAN]

CallsTypeOK ==
    /\ at \in [Agent -> Working \cup {"idle"}]
    /\ op \in [Agent -> {"register", "retire"}]
    /\ prev \in [Agent -> [unit : Unit \cup {None}, service : Daemon \cup {None},
                         enabled : BOOLEAN]]
    /\ dirty \in [Agent -> BOOLEAN] /\ mixed \in [Agent -> BOOLEAN]
    /\ outcome \in [Agent -> Outcome]
    /\ failures \in 0..MaxFailures /\ ops \in 0..MaxOps

TypeOK == WorldTypeOK /\ CallsTypeOK

\* Never installed, or installed by a former version and running or not.
Init ==
    /\ \/ unit = None /\ enabled = FALSE /\ service = None
       \/ unit = "former" /\ enabled \in BOOLEAN /\ service \in {None, 1}
    /\ loaded = unit
    /\ alive = {service} \ {None}
    /\ started = Cardinality(alive)
    /\ menu = [d \in Daemon |-> d = service]
    /\ at = [a \in Agent |-> "idle"]
    /\ op = [a \in Agent |-> "register"]
    /\ prev = [a \in Agent |-> State]
    /\ dirty = [a \in Agent |-> FALSE] /\ mixed = dirty
    /\ outcome = [a \in Agent |-> "none"]
    /\ failures = 0 /\ ops = 0

-----------------------------------------------------------------------------
(* systemd (systemctl --user).                                             *)

Ended == alive \ alive'

\* A process that ends takes its transaction with it: agent a stands at `there`, unless
\* it ended, and what ended in the middle of its transaction reports nothing.
Continue(a, there, result) ==
    /\ at' = [b \in Agent |-> IF b \in Ended THEN "idle" ELSE IF b = a THEN there ELSE at[b]]
    /\ outcome' = [b \in Agent |->
           IF b \in Ended THEN IF at[b] = "idle" THEN outcome[b] ELSE "killed"
           ELSE IF b = a THEN result ELSE outcome[b]]

Stopped == alive' = alive \ {service} /\ service' = None

\* The tray of a daemon is built from what is registered when it starts.
Started ==
    IF service # None
    THEN UNCHANGED <<service, alive, started, menu>>
    ELSE /\ started + 1 \in Daemon
         /\ service' = started + 1
         /\ alive' = alive \cup {service'}
         /\ started' = started + 1
         /\ menu' = [menu EXCEPT ![started + 1] = unit # None]

\* The call of agent a succeeds and its transaction goes on to `there`.
Goes(a, there) == Continue(a, there, outcome[a]) /\ UNCHANGED <<dirty, failures>>

\* The rollback and the transaction end here.
Ends(a) ==
    /\ Continue(a, "idle", IF at[a] \in Rollback
                           THEN IF dirty[a] THEN "dirty" ELSE "error" ELSE "ok")
    /\ UNCHANGED <<dirty, failures>>

\* The call fails: the transaction is abandoned or rolled back from `there` on;
\* a rollback records the failure and goes on.
Fails(a, there) ==
    /\ failures < MaxFailures /\ failures' = failures + 1
    /\ dirty' = [dirty EXCEPT ![a] = at[a] \in Rollback]
    /\ Continue(a, there, IF there # "idle" THEN outcome[a]
                          ELSE IF at[a] \in Rollback THEN "dirty" ELSE "error")

\* A step of a transaction: nobody chooses anew, the others see a change.
Running(a, step) ==
    /\ at[a] = step
    /\ mixed' = [b \in Agent |-> mixed[b] \/ (b # a /\ at[b] # "idle")]
    /\ UNCHANGED <<op, prev, ops>>

Idle == UNCHANGED <<service, alive, started, menu>>

-----------------------------------------------------------------------------
(* The operations.                                                         *)

Begins(a, o, there) ==
    /\ at[a] = "idle" /\ (a \in Cli \/ a \in alive)
    /\ ops < MaxOps /\ ops' = ops + 1
    /\ op' = [op EXCEPT ![a] = o]
    /\ prev' = [prev EXCEPT ![a] = State]
    /\ dirty' = [dirty EXCEPT ![a] = FALSE]
    /\ mixed' = [mixed EXCEPT ![a] = \E b \in Agent \ {a} : at[b] # "idle"]
    /\ at' = [at EXCEPT ![a] = there]
    /\ UNCHANGED <<world, failures>>

\* The unit file cannot be read, or systemd does not say what it runs: nothing is begun.
Refuses(a) ==
    /\ at[a] = "idle" /\ (a \in Cli \/ a \in alive)
    /\ ops < MaxOps /\ ops' = ops + 1
    /\ failures < MaxFailures /\ failures' = failures + 1
    /\ outcome' = [outcome EXCEPT ![a] = "error"]
    /\ UNCHANGED <<world, at, op, prev, dirty, mixed>>

\* Mutant: a running service is not stopped first.
RegisterRunning(a) == Begins(a, "register", "write") /\ UNCHANGED outcome

\* A service without a unit file is not probed, hence not stopped.
Register(a) ==
    /\ Begins(a, "register", IF unit # None /\ service # None THEN "stop" ELSE "write")
    /\ UNCHANGED outcome

\* unregister: nothing to do without the unit file.
Unregister(a) ==
    LET there == IF unit = None THEN "idle" ELSE "disable" IN
    /\ Begins(a, "retire", there)
    /\ outcome' = [outcome EXCEPT ![a] = IF there = "idle" THEN "ok" ELSE @]

\* unregister_for_rollback: what a failed rollback left loaded is disabled.
RetireStale(a) ==
    /\ a \in Cli /\ unit = None /\ (service # None \/ enabled)
    /\ Begins(a, "retire", "purge")
    /\ UNCHANGED outcome

\* The toggle of the tray asks for the opposite of what its menu shows.
Toggle(d) == d \in alive /\ IF menu[d] THEN Unregister(d) ELSE Register(d)

Stop(a) ==
    /\ Running(a, "stop")
    /\ UNCHANGED <<unit, loaded, enabled, started, menu>>
    /\ \/ Stopped /\ Goes(a, "write")
       \/ UNCHANGED <<service, alive>> /\ Fails(a, "idle")

Write(a) ==
    /\ Running(a, "write") /\ Idle /\ UNCHANGED <<loaded, enabled>>
    /\ \/ unit' = "new" /\ Goes(a, "reload")
       \/ Fails(a, "undoWrite") /\ UNCHANGED unit

Reload(a) ==
    /\ Running(a, "reload") /\ Idle /\ UNCHANGED <<unit, enabled>>
    /\ \/ loaded' = unit /\ Goes(a, "enable")
       \/ Fails(a, "undoWrite") /\ UNCHANGED loaded

\* It may have enabled the unit and then failed to start it.
Enable(a) ==
    /\ Running(a, "enable") /\ UNCHANGED unit
    /\ \/ unit # None /\ enabled' = TRUE /\ loaded' = unit /\ Started /\ Ends(a)
       \/ Idle /\ UNCHANGED loaded /\ enabled' \in {enabled, unit # None}
          /\ Fails(a, "undoDisable")

\* disable --now: forward, in a rollback, or of a unit without a file.
Disable(a, step, next, onError) ==
    /\ Running(a, step) /\ UNCHANGED <<unit, loaded, started, menu>>
    /\ \/ enabled' = FALSE /\ Stopped
          /\ IF next = "idle" THEN Ends(a) ELSE Goes(a, next)
       \/ enabled' \in {enabled, FALSE} /\ UNCHANGED <<service, alive>> /\ Fails(a, onError)

Retire(a) == \/ Disable(a, "disable", "remove", "undoWrite")
             \/ Disable(a, "undoDisable", "undoWrite", "undoWrite")
             \/ Disable(a, "purge", "idle", "idle")

Remove(a) ==
    /\ Running(a, "remove") /\ Idle /\ UNCHANGED <<loaded, enabled>>
    /\ \/ unit' = None /\ Goes(a, "forget")
       \/ Fails(a, "undoWrite") /\ UNCHANGED unit

Forget(a) ==
    /\ Running(a, "forget") /\ Idle /\ UNCHANGED <<unit, enabled>>
    /\ \/ loaded' = unit /\ Ends(a)
       \/ Fails(a, "undoWrite") /\ UNCHANGED loaded

UndoWrite(a) ==
    /\ Running(a, "undoWrite") /\ Idle /\ UNCHANGED <<loaded, enabled>>
    /\ \/ unit' = prev[a].unit /\ Goes(a, "undoReload")
       \/ Fails(a, "undoReload") /\ UNCHANGED unit

UndoReload(a) ==
    LET next == IF prev[a].unit = None THEN "idle" ELSE "undoEnable" IN
    /\ Running(a, "undoReload") /\ Idle /\ UNCHANGED <<unit, enabled>>
    /\ \/ loaded' = unit /\ IF next = "idle" THEN Ends(a) ELSE Goes(a, next)
       \/ Fails(a, next) /\ UNCHANGED loaded

\* restore_service_state: enable or disable, then start or stop.
UndoEnable(a) ==
    /\ Running(a, "undoEnable") /\ Idle /\ UNCHANGED <<unit, loaded>>
    /\ \/ enabled' = prev[a].enabled /\ (enabled' => unit # None) /\ Goes(a, "undoStart")
       \/ Fails(a, "undoStart") /\ UNCHANGED enabled

UndoStart(a) ==
    /\ Running(a, "undoStart") /\ UNCHANGED <<unit, loaded, enabled>>
    /\ \/ (IF prev[a].service # None THEN Started /\ loaded # None ELSE Stopped /\ UNCHANGED <<started, menu>>)
          /\ Ends(a)
       \/ Idle /\ Fails(a, "idle")

-----------------------------------------------------------------------------
(* The session.                                                            *)

Aside == UNCHANGED <<unit, enabled, op, prev, dirty, ops, failures>>

\* A daemon started by hand, which systemd does not know of.
StartByHand ==
    /\ started + 1 \in Daemon
    /\ started' = started + 1 /\ alive' = alive \cup {started'}
    /\ menu' = [menu EXCEPT ![started'] = unit # None]
    /\ UNCHANGED <<loaded, service, at, outcome, mixed>> /\ Aside

\* Quit, a crash, or the end of the session.
DaemonEnds(d) ==
    /\ d \in alive
    /\ alive' = alive \ {d} /\ service' = IF d = service THEN None ELSE service
    /\ mixed' = [b \in Agent |-> mixed[b] \/ at[b] # "idle"]
    /\ Continue(d, "idle", outcome[d])
    /\ UNCHANGED <<loaded, started, menu>> /\ Aside

\* The next session starts what is enabled, or systemd restarts what crashed.
Login ==
    /\ enabled /\ service = None
    /\ loaded' = unit
    /\ started + 1 \in Daemon /\ unit # None
    /\ service' = started + 1 /\ alive' = alive \cup {service'} /\ started' = started + 1
    /\ menu' = [menu EXCEPT ![started'] = TRUE]
    /\ mixed' = [b \in Agent |-> mixed[b] \/ at[b] # "idle"]
    /\ UNCHANGED <<at, outcome>> /\ Aside

Calls(a) ==
    \/ Stop(a) \/ Write(a) \/ Reload(a) \/ Enable(a) \/ Retire(a) \/ Remove(a) \/ Forget(a)
    \/ UndoWrite(a) \/ UndoReload(a) \/ UndoEnable(a) \/ UndoStart(a)

Next ==
    \/ \E c \in Cli : Register(c) \/ Unregister(c) \/ RetireStale(c)
    \/ \E d \in Daemon : Toggle(d) \/ DaemonEnds(d)
    \/ \E a \in Agent : Refuses(a) \/ Calls(a)
    \/ StartByHand \/ Login

Spec == Init /\ [][Next]_vars

-----------------------------------------------------------------------------
(* Properties.                                                             *)

Concludes(a, o, result) ==
    /\ at[a] # "idle" /\ at'[a] = "idle" /\ op[a] = o
    /\ outcome'[a] = result /\ ~mixed[a]

\* When nothing else touched the service meanwhile, a registration that reports
\* success leaves this executable's unit written, read by systemd, enabled and
\* run (by a process started since, where there was a unit), and a retirement
\* that does leaves none of it.
Registered ==
    \A a \in Agent :
        /\ Concludes(a, "register", "ok") =>
             /\ unit' = "new" /\ loaded' = "new" /\ enabled'
             /\ service' # None
             /\ prev[a].unit # None => service' # prev[a].service
        /\ Concludes(a, "retire", "ok") =>
             /\ unit' = None /\ ~enabled' /\ service' = None
             /\ prev[a].unit # None => loaded' = None

\* When nothing else touched the service meanwhile, a rollback that reports no
\* failure of its own has restored the unit file, the one systemd has read, the
\* enablement and the service; where there was no unit, it has added nothing.
RolledBack ==
    \A a \in Agent, o \in {"register", "retire"} :
        Concludes(a, o, "error") /\ at[a] \in Rollback =>
            /\ unit' = prev[a].unit /\ loaded' = unit'
            /\ enabled' => prev[a].enabled
            /\ service' # None => prev[a].service # None
            /\ unit' # None => /\ prev[a].enabled => enabled'
                               /\ prev[a].service # None => service' # None

\* unregister stops the daemon and removes the unit file: a call that ends the
\* daemon's own retirement, without a failure, leaves no unit file behind.
ToggleRemoves ==
    [][\A d \in Daemon : Calls(d) /\ op[d] = "retire" /\ at'[d] = "idle" => unit' = None]_vars

-----------------------------------------------------------------------------
(* The inductive invariant of Registered and RolledBack: what a transaction  *)
(* knows when nothing else touched the service since it began.               *)

\* A transaction of its kind, before anything failed.
Forward(a, o) == op[a] = o /\ enabled = prev[a].enabled

\* The service was stopped if there was a unit; and what there was, still is otherwise.
Halted(a) == service = IF prev[a].unit = None THEN prev[a].service ELSE None

Registers(a) ==
    /\ at[a] = "stop" => Forward(a, "register") /\ unit = prev[a].unit /\ unit # None
    /\ at[a] \in {"write", "reload", "enable"} => Forward(a, "register") /\ Halted(a)
    /\ at[a] = "write" => unit = prev[a].unit
    /\ at[a] \in {"reload", "enable"} => unit = "new"
    /\ at[a] = "enable" => loaded = "new"

Retires(a) ==
    /\ at[a] = "disable" => Forward(a, "retire") /\ unit = prev[a].unit /\ service = prev[a].service
    /\ at[a] \in {"remove", "forget"} => op[a] = "retire" /\ ~enabled /\ service = None
    /\ at[a] = "forget" => unit = None
    /\ at[a] = "purge" => op[a] = "retire" /\ unit = None /\ prev[a].unit = None
    /\ at[a] \in {"disable", "remove", "forget"} => prev[a].unit # None

RollsBack(a) ==
    at[a] \in Rollback /\ ~dirty[a] =>
        /\ service # None => prev[a].service # None
        /\ at[a] \in {"undoWrite", "undoReload"} => (enabled => prev[a].enabled)
        /\ at[a] \in {"undoReload", "undoEnable", "undoStart"} => unit = prev[a].unit
        /\ at[a] \in {"undoEnable", "undoStart"} => unit # None /\ loaded = unit
        /\ at[a] = "undoStart" => enabled = prev[a].enabled

\* A process that was running when a transaction began is not started again.
Earlier == \A a \in Agent : prev[a].service # None => prev[a].service \in 1..started

Knows == \A a \in Agent : ~mixed[a] => Registers(a) /\ Retires(a) /\ RollsBack(a)

IInv == TypeOK /\ Earlier /\ Knows
=============================================================================
