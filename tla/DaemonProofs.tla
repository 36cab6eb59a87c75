----------------------------- MODULE DaemonProofs -----------------------------
(***************************************************************************)
(* For any number of daemons and of clients: the variables stay in their   *)
(* types, the executable is never swapped in the middle of a patch, and    *)
(* clients find the running daemon and are not lost by it.                 *)
(***************************************************************************)
EXTENDS Daemon, TLAPS

\* A client has not connected more often than anything has happened.
Counted == \A c \in Client : bounds.tries[c] <= bounds.events

TypeInv == TypeOK /\ Counted

(***************************************************************************)
(* Lemmas.                                                                 *)
(***************************************************************************)

\* A thread that goes somewhere is there, and the others are where they were.
LEMMA GotoEffect ==
  ASSUME NEW d \in Process, NEW t \in Thread, NEW there \in Place,
         pc \in [Process -> [Thread -> Place]], Goto(d, t, there)
  PROVE /\ pc' \in [Process -> [Thread -> Place]]
        /\ pc'[d][t] = there
        /\ \A e \in Process, u \in Thread : <<e, u>> # <<d, t>> => pc'[e][u] = pc[e][u]
  BY DEF Goto

\* Clients that are reset, and the connections that are left (drop of the listener).
LEMMA ResetType ==
  ASSUME NEW d \in Process, TypeOK, Reset(d)
  PROVE /\ client' \in [Client -> {"idle", "waiting"}]
        /\ backlog' \in [Process -> Seq(Connection)]
        /\ serving' \in [Process -> Connection]
<1>1. Empty \in Connection
  BY ConstantsAssumption DEF Empty, Connection
<1>2. <<>> \in Seq(Connection)
  OBVIOUS
<1> QED
  BY <1>1, <1>2 DEF TypeOK, Reset

\* The end of a process keeps the types.
LEMMA KillType ==
  ASSUME NEW d \in Process, TypeOK, NEW q \in [Process -> [Thread -> Place]], Kill(d, q)
  PROVE /\ phase' \in [Process -> {"off", "starting", "up", "dead"}]
        /\ pc' \in [Process -> [Thread -> Place]]
        /\ \A f \in {stop', ipcStop', changed'} : f \in [Process -> BOOLEAN]
        /\ clicks' \in [Process -> Seq({"Quit", "PatchAll", "UpdateWidevine"})]
        /\ client' \in [Client -> {"idle", "waiting"}]
        /\ backlog' \in [Process -> Seq(Connection)]
        /\ serving' \in [Process -> Connection]
<1>1. [t \in Thread |-> "gone"] \in [Thread -> Place]
  BY DEF Place
<1>2. pc' \in [Process -> [Thread -> Place]]
  BY <1>1 DEF Kill
<1>3. clicks' \in [Process -> Seq({"Quit", "PatchAll", "UpdateWidevine"})]
  <2>1. <<>> \in Seq({"Quit", "PatchAll", "UpdateWidevine"})
    OBVIOUS
  <2> QED
    BY <2>1 DEF Kill, TypeOK
<1>4. phase' \in [Process -> {"off", "starting", "up", "dead"}]
  BY DEF Kill, TypeOK
<1>5. \A f \in {stop', ipcStop', changed'} : f \in [Process -> BOOLEAN]
  BY DEF Kill, TypeOK
<1>6. Reset(d)
  BY DEF Kill
<1> QED
  BY <1>2, <1>3, <1>4, <1>5, <1>6, ResetType

\* An answer keeps the types.
LEMMA AnswerType ==
  ASSUME NEW d \in Process, NEW k \in Connection, TypeOK, Answer(d, k)
  PROVE /\ client' \in [Client -> {"idle", "waiting"}]
        /\ serving' \in [Process -> Connection]
<1>1. Empty \in Connection
  BY ConstantsAssumption DEF Empty, Connection
<1> QED
  BY <1>1 DEF TypeOK, Answer

\* What is counted stays in its bounds.
LEMMA EventType ==
  ASSUME TypeInv, bounds.events < MaxEvents, bounds' = [bounds EXCEPT !.events = @ + 1]
  PROVE /\ bounds' \in [events : 0..MaxEvents, tries : [Client -> 0..MaxEvents]]
        /\ Counted'
<1>1. /\ bounds \in [events : 0..MaxEvents, tries : [Client -> 0..MaxEvents]]
      /\ bounds.events \in 0..MaxEvents
  BY DEF TypeInv, TypeOK
<1>2. bounds.events + 1 \in 0..MaxEvents
  BY <1>1, ConstantsAssumption
<1>3. bounds'.events = bounds.events + 1 /\ bounds'.tries = bounds.tries
  BY <1>1
<1>4. bounds' \in [events : 0..MaxEvents, tries : [Client -> 0..MaxEvents]]
  BY <1>1, <1>2
<1>5. \A c \in Client : bounds.tries[c] \in 0..MaxEvents /\ bounds.tries[c] <= bounds.events
  BY <1>1 DEF TypeInv, Counted
<1> QED
  BY <1>1, <1>3, <1>4, <1>5 DEF Counted

(***************************************************************************)
(* Type correctness.                                                       *)
(***************************************************************************)

LEMMA TypeInit == Init => TypeInv
<1> SUFFICES ASSUME Init PROVE TypeInv
  OBVIOUS
<1>1. /\ pc \in [Process -> [Thread -> Place]]
      /\ \A f \in {stop, ipcStop, changed} : f \in [Process -> BOOLEAN]
  BY DEF Init, Place
<1>2. /\ clicks \in [Process -> Seq({"Quit", "PatchAll", "UpdateWidevine"})]
      /\ backlog \in [Process -> Seq(Connection)]
  BY DEF Init
<1>3. serving \in [Process -> Connection] /\ lock \in (Process \X Thread) \cup {Free}
  BY ConstantsAssumption DEF Init, Empty, Connection
<1>4. bounds \in [events : 0..MaxEvents, tries : [Client -> 0..MaxEvents]] /\ Counted
  BY ConstantsAssumption DEF Init, Counted
<1>5. /\ phase \in [Process -> {"off", "starting", "up", "dead"}]
      /\ path \in Process \cup {Nobody}
      /\ client \in [Client -> {"idle", "waiting"}]
      /\ current \in BOOLEAN /\ crowded \in BOOLEAN
  BY DEF Init
<1> QED
  BY <1>1, <1>2, <1>3, <1>4, <1>5 DEF TypeInv, TypeOK

\* A step of a thread (Step) keeps the types.
LEMMA TypeStep ==
  ASSUME TypeInv, NEW d \in Process, NEW t \in Thread, Step(d, t)
  PROVE TypeInv'
<1> USE DEF TypeInv
<1>1. /\ pc \in [Process -> [Thread -> Place]]
      /\ "idle" \in Place /\ "wait" \in Place /\ "patch" \in Place /\ "gone" \in Place
      /\ Joining \subseteq Place /\ "restart" \in Place /\ Selections \subseteq Place
  BY DEF TypeOK, Place, Patching, Selections
<1>2. /\ t = "main" => t \in Thread
      /\ Empty \in Connection
  BY ConstantsAssumption DEF Empty, Connection
<1>3. CASE Acquire(d, t)
  <2>1. pc' \in [Process -> [Thread -> Place]]
    BY <1>1, <1>3, GotoEffect DEF Acquire
  <2> QED
    BY <2>1, <1>3 DEF Acquire, TypeOK, Counted, socket
<1>4. CASE Patch(d, t)
  <2>1. pc' \in [Process -> [Thread -> Place]]
    BY <1>1, <1>4, GotoEffect DEF Patch
  <2>2. changed' \in [Process -> BOOLEAN] /\ current' \in BOOLEAN
    BY <1>4 DEF Patch, Seen, TypeOK
  <2>3. /\ client' \in [Client -> {"idle", "waiting"}]
        /\ serving' \in [Process -> Connection]
    <3>1. CASE t = "ipc"
      <4>1. serving[d] \in Connection /\ Answer(d, serving[d])
        BY <1>4, <3>1 DEF Patch, TypeOK
      <4> QED
        BY <4>1, AnswerType
    <3>2. CASE t # "ipc"
      BY <1>4, <3>2 DEF Patch, TypeOK
    <3> QED
      BY <3>1, <3>2
  <2>4. lock' = Free /\ UNCHANGED <<phase, bounds, crowded, stop, ipcStop, clicks, path, backlog>>
    BY <1>4 DEF Patch
  <2> QED
    BY <2>1, <2>2, <2>3, <2>4 DEF TypeOK, Counted
<1>5. CASE EventLoop(d)
  <2>1. pc' \in [Process -> [Thread -> Place]]
    <3>1. \E there \in Place : Goto(d, "main", there)
      BY <1>1, <1>5 DEF EventLoop, Joining
    <3> QED
      BY <1>1, <3>1, GotoEffect DEF Thread
  <2>2. stop' \in [Process -> BOOLEAN]
    BY <1>5 DEF EventLoop, TypeOK
  <2>3. clicks' \in [Process -> Seq({"Quit", "PatchAll", "UpdateWidevine"})]
    <3>1. clicks[d] \in Seq({"Quit", "PatchAll", "UpdateWidevine"}) /\ clicks[d] # <<>>
      BY <1>5 DEF EventLoop, TypeOK
    <3>2. Tail(clicks[d]) \in Seq({"Quit", "PatchAll", "UpdateWidevine"})
      BY <3>1
    <3> QED
      BY <1>5, <3>2 DEF EventLoop, TypeOK
  <2>4. UNCHANGED <<phase, changed, bounds, crowded, ipcStop, socket, files>>
    BY <1>5 DEF EventLoop
  <2> QED
    BY <2>1, <2>2, <2>3, <2>4 DEF TypeOK, Counted, socket, files
<1>6. CASE JoinWatcher(d)
  <2>1. pc' \in [Process -> [Thread -> Place]]
    BY <1>1, <1>6, GotoEffect DEF JoinWatcher, Joining, Thread
  <2> QED
    BY <2>1, <1>6 DEF JoinWatcher, TypeOK, Counted, socket, files
<1>7. CASE DropIpc(d)
  <2>1. pc' \in [Process -> [Thread -> Place]]
    BY <1>1, <1>7, GotoEffect DEF DropIpc, Joining, Thread
  <2>2. backlog' \in [Process -> Seq(Connection)]
    <3>1. CASE path # Nobody /\ Listening(path)
      <4>1. path \in Process /\ backlog[path] \in Seq(Connection)
        BY <3>1 DEF TypeOK
      <4>2. Append(backlog[path], Empty) \in Seq(Connection)
        BY <4>1, <1>2
      <4> QED
        BY <1>7, <3>1, <4>1, <4>2 DEF DropIpc, TypeOK
    <3>2. CASE ~(path # Nobody /\ Listening(path))
      BY <1>7, <3>2 DEF DropIpc, TypeOK
    <3> QED
      BY <3>1, <3>2
  <2> QED
    BY <2>1, <2>2, <1>7 DEF DropIpc, TypeOK, Counted, files
<1>8. CASE JoinIpc(d)
  <2>1. pc' \in [Process -> [Thread -> Place]]
    BY <1>1, <1>8, GotoEffect DEF JoinIpc, Joining, Thread
  <2> QED
    BY <2>1, <1>8 DEF JoinIpc, TypeOK, Counted, files
<1>9. CASE Exit(d)
  <2>1. Kill(d, pc)
    BY <1>9 DEF Exit, Die
  <2>2. lock' \in (Process \X Thread) \cup {Free}
    BY <1>9 DEF Exit, Die, TypeOK
  <2> QED
    BY <1>1, <1>9, <2>1, <2>2, KillType DEF Exit, TypeOK, Counted
<1>10. CASE WatcherFires(d)
  <2>1. pc' \in [Process -> [Thread -> Place]]
    <3>1. \E there \in Place : Goto(d, "watcher", there)
      BY <1>1, <1>10 DEF WatcherFires
    <3> QED
      BY <1>1, <3>1, GotoEffect DEF Thread
  <2> QED
    BY <2>1, <1>10 DEF WatcherFires, TypeOK, Counted, socket, files
<1>11. CASE WatcherExits(d)
  <2>1. pc' \in [Process -> [Thread -> Place]]
    BY <1>1, <1>11, GotoEffect DEF WatcherExits, Thread
  <2> QED
    BY <2>1, <1>11 DEF WatcherExits, TypeOK, Counted, socket, files
<1>12. CASE Accept(d)
  <2>1. backlog[d] \in Seq(Connection) /\ backlog[d] # <<>>
    BY <1>12 DEF Accept, TypeOK
  <2>2. Head(backlog[d]) \in Connection /\ Tail(backlog[d]) \in Seq(Connection)
    BY <2>1
  <2>3. backlog' \in [Process -> Seq(Connection)]
    BY <1>12, <2>2 DEF Accept, TypeOK
  <2>4. /\ pc' \in [Process -> [Thread -> Place]]
        /\ client' \in [Client -> {"idle", "waiting"}]
        /\ serving' \in [Process -> Connection]
    <3>1. CASE Answer(d, Head(backlog[d])) /\ UNCHANGED pc
      BY <1>1, <2>2, <3>1, AnswerType
    <3>2. CASE /\ Goto(d, "ipc", "wait")
               /\ serving' = [serving EXCEPT ![d] = Head(backlog[d])]
               /\ UNCHANGED client
      <4>1. pc' \in [Process -> [Thread -> Place]]
        BY <1>1, <3>2, GotoEffect DEF Thread
      <4> QED
        BY <2>2, <3>2, <4>1 DEF TypeOK
    <3> QED
      BY <1>12, <3>1, <3>2 DEF Accept
  <2> QED
    BY <2>3, <2>4, <1>12 DEF Accept, TypeOK, Counted, files
<1>13. CASE IpcExits(d)
  <2>1. pc' \in [Process -> [Thread -> Place]]
    BY <1>1, <1>13, GotoEffect DEF IpcExits, Thread
  <2> QED
    BY <2>1, <1>13, ResetType DEF IpcExits, TypeOK, Counted, files
<1>14. CASE Sidecar(d)
  <2>1. pc' \in [Process -> [Thread -> Place]]
    BY <1>1, <1>14, GotoEffect DEF Sidecar, Thread
  <2> QED
    BY <2>1, <1>14 DEF Sidecar, TypeOK, Counted, socket
<1>15. CASE Restart(d)
  <2>1. CASE \E e \in Alive : Kill(e, IF e = d THEN pc ELSE [pc EXCEPT ![d]["auto"] = "idle"])
    <3>1. PICK e \in Process : Kill(e, IF e = d THEN pc ELSE [pc EXCEPT ![d]["auto"] = "idle"])
      BY <2>1 DEF Alive
    <3>2. (IF e = d THEN pc ELSE [pc EXCEPT ![d]["auto"] = "idle"]) \in [Process -> [Thread -> Place]]
      BY <1>1
    <3> QED
      BY <1>15, <3>1, <3>2, KillType DEF Restart, TypeOK, Counted
  <2>2. CASE /\ Goto(d, "auto", "idle")
             /\ UNCHANGED <<phase, changed, stop, ipcStop, clicks, backlog, serving, client>>
    <3>1. pc' \in [Process -> [Thread -> Place]]
      BY <1>1, <2>2, GotoEffect DEF Thread
    <3> QED
      BY <1>15, <2>2, <3>1 DEF Restart, TypeOK, Counted
  <2> QED
    BY <1>15, <2>1, <2>2 DEF Restart
<1>16. CASE AutoExits(d)
  <2>1. pc' \in [Process -> [Thread -> Place]]
    BY <1>1, <1>16, GotoEffect DEF AutoExits, Thread
  <2> QED
    BY <2>1, <1>16 DEF AutoExits, TypeOK, Counted, socket, files
<1> QED
  BY <1>3, <1>4, <1>5, <1>6, <1>7, <1>8, <1>9, <1>10, <1>11, <1>12, <1>13, <1>14,
     <1>15, <1>16 DEF Step

\* And so does every other.
LEMMA TypeNext == TypeInv /\ [Next]_vars => TypeInv'
<1> SUFFICES ASSUME TypeInv, [Next]_vars PROVE TypeInv'
  OBVIOUS
<1> USE DEF TypeInv
<1>1. ASSUME NEW d \in Process, Launch(d) PROVE TypeInv'
  <2>1. "idle" \in Place /\ "watcher" \in Thread
    BY DEF Place, Thread
  <2>2. pc' \in [Process -> [Thread -> Place]]
    BY <1>1, <2>1, GotoEffect DEF Launch, TypeOK
  <2> QED
    BY <1>1, <2>2 DEF Launch, TypeOK, Counted, files
<1>2. ASSUME NEW d \in Process, Bind(d) PROVE TypeInv'
  <2>1. pc' \in [Process -> [Thread -> Place]]
    BY <1>2 DEF Bind, Place, TypeOK
  <2> QED
    BY <1>2, <2>1 DEF Bind, TypeOK, Counted, files
<1>3. ASSUME NEW d \in Process, BindFails(d) PROVE TypeInv'
  <2>1. Kill(d, pc) /\ pc \in [Process -> [Thread -> Place]]
    BY <1>3 DEF BindFails, Die, TypeOK
  <2>2. lock' \in (Process \X Thread) \cup {Free}
    BY <1>3 DEF BindFails, Die, TypeOK
  <2> QED
    BY <1>3, <2>1, <2>2, KillType DEF BindFails, TypeOK, Counted
<1>4. ASSUME NEW d \in Process, Killed(d) PROVE TypeInv'
  <2>1. Kill(d, pc) /\ pc \in [Process -> [Thread -> Place]]
    BY <1>4 DEF Killed, Die, TypeOK
  <2>2. lock' \in (Process \X Thread) \cup {Free}
    BY <1>4 DEF Killed, Die, TypeOK
  <2> QED
    BY <1>4, <2>1, <2>2, KillType DEF Killed, TypeOK, Counted
<1>5. ASSUME NEW d \in Process, Click(d) PROVE TypeInv'
  <2>1. PICK command \in {"Quit", "PatchAll", "UpdateWidevine"} :
           /\ bounds.events < MaxEvents
           /\ bounds' = [bounds EXCEPT !.events = @ + 1]
           /\ clicks' = [clicks EXCEPT ![d] = Append(@, command)]
    BY <1>5 DEF Click
  <2>2. clicks[d] \in Seq({"Quit", "PatchAll", "UpdateWidevine"})
    BY DEF TypeOK
  <2>3. clicks' \in [Process -> Seq({"Quit", "PatchAll", "UpdateWidevine"})]
    BY <2>1, <2>2 DEF TypeOK
  <2>4. bounds' \in [events : 0..MaxEvents, tries : [Client -> 0..MaxEvents]] /\ Counted'
    BY <2>1, EventType
  <2>5. UNCHANGED <<phase, changed, crowded, pc, stop, ipcStop, socket, files>>
    BY <1>5 DEF Click
  <2> QED
    BY <2>3, <2>4, <2>5 DEF TypeOK, socket, files
<1>6. ASSUME NEW d \in Process, AutoApply(d) PROVE TypeInv'
  <2>1. "update" \in Place /\ "auto" \in Thread
    BY DEF Place, Thread
  <2>2. pc' \in [Process -> [Thread -> Place]]
    BY <1>6, <2>1, GotoEffect DEF AutoApply, TypeOK
  <2> QED
    BY <1>6, <2>1, <2>2 DEF AutoApply, TypeOK, Counted, socket
<1>7. CASE Replace
  <2>1. changed' \in [Process -> BOOLEAN]
    BY <1>7 DEF Replace, Seen, TypeOK
  <2>2. bounds' \in [events : 0..MaxEvents, tries : [Client -> 0..MaxEvents]] /\ Counted'
    BY <1>7, EventType DEF Replace
  <2> QED
    BY ZenonT(30), <1>7, <2>1, <2>2 DEF Replace, TypeOK, threads, socket
<1>8. ASSUME NEW c \in Client, Connect(c) PROVE TypeInv'
  <2>1. bounds' = [bounds EXCEPT !.events = @ + 1, !.tries[c] = @ + 1]
    BY <1>8 DEF Connect
  <2>2. /\ bounds \in [events : 0..MaxEvents, tries : [Client -> 0..MaxEvents]]
        /\ bounds.events \in 0..MaxEvents /\ bounds.tries[c] \in 0..MaxEvents
        /\ bounds.tries[c] <= bounds.events /\ bounds.events < MaxEvents
    BY <1>8 DEF Connect, TypeOK, Counted
  <2>3. bounds.events + 1 \in 0..MaxEvents /\ bounds.tries[c] + 1 \in 0..MaxEvents
    BY <2>2, ConstantsAssumption
  <2>4. bounds' \in [events : 0..MaxEvents, tries : [Client -> 0..MaxEvents]]
    BY <2>1, <2>2, <2>3
  <2>5. Counted'
    BY <2>1, <2>2, ConstantsAssumption DEF Counted
  <2>6. <<c, bounds.tries[c] + 1>> \in Connection
    BY <2>3 DEF Connection
  <2>7. /\ backlog' \in [Process -> Seq(Connection)]
        /\ client' \in [Client -> {"idle", "waiting"}]
    <3>1. CASE path # Nobody /\ Listening(path)
      <4>1. path \in Process /\ backlog[path] \in Seq(Connection)
        BY <3>1 DEF TypeOK
      <4>2. Append(backlog[path], <<c, bounds.tries[c] + 1>>) \in Seq(Connection)
        BY <4>1, <2>6
      <4>3. /\ backlog' = [backlog EXCEPT ![path] = Append(@, <<c, bounds.tries[c] + 1>>)]
            /\ client' = [client EXCEPT ![c] = "waiting"]
        BY <1>8, <3>1 DEF Connect
      <4>4. backlog' \in [Process -> Seq(Connection)]
        BY <4>1, <4>2, <4>3 DEF TypeOK
      <4> QED
        BY <4>3, <4>4 DEF TypeOK
    <3>2. CASE ~(path # Nobody /\ Listening(path))
      BY <1>8, <3>2 DEF Connect, TypeOK
    <3> QED
      BY <3>1, <3>2
  <2>8. UNCHANGED <<phase, changed, crowded, threads, path, serving, files>>
    BY <1>8 DEF Connect
  <2> QED
    BY <2>4, <2>5, <2>7, <2>8 DEF TypeOK, threads, files
<1>9. ASSUME NEW c \in Client, GiveUp(c) PROVE TypeInv'
  BY <1>9 DEF GiveUp, TypeOK, Counted, threads, files
<1>10. CASE UNCHANGED vars
  BY <1>10 DEF TypeOK, Counted, vars, threads, socket, files
<1> QED
  BY <1>1, <1>2, <1>3, <1>4, <1>5, <1>6, <1>7, <1>8, <1>9, <1>10, TypeStep DEF Next

\* The variables stay in their types (src/src/daemon/mod.rs, daemon/ipc.rs).
THEOREM TypeCorrect == Spec => []TypeOK
<1>1. Spec => []TypeInv
  BY TypeInit, TypeNext, PTL DEF Spec
<1>2. TypeInv => TypeOK
  BY DEF TypeInv
<1> QED
  BY <1>1, <1>2, PTL
(***************************************************************************)
(* The lock.  Patching, the swap of the executable and the restart of the  *)
(* service are what the lock is held for; its holder is one thread of one  *)
(* process, so that two of them never go on side by side.                  *)
(***************************************************************************)

Holding == {"patch", "update", "restart"}
HolderHasLock == \A d \in Process, t \in Thread : pc[d][t] \in Holding => lock = <<d, t>>

LockInv == TypeInv /\ HolderHasLock

\* The free lock has no holder.
LEMMA FreeApart == \A d \in Process, t \in Thread : <<d, t>> # Free
  BY ConstantsAssumption DEF Free

\* A thread that goes anywhere else needs no lock.
LEMMA GotoKeeps ==
  ASSUME LockInv, NEW d \in Process, NEW t \in Thread, NEW there \in Place \ Holding,
         Goto(d, t, there), lock' = lock
  PROVE HolderHasLock'
<1>1. /\ pc'[d][t] = there
      /\ \A e \in Process, u \in Thread : <<e, u>> # <<d, t>> => pc'[e][u] = pc[e][u]
  BY GotoEffect DEF LockInv, TypeInv, TypeOK
<1> QED
  BY <1>1 DEF HolderHasLock, LockInv

\* The thread that has the lock takes it when nobody holds it.
LEMMA GotoTakes ==
  ASSUME LockInv, NEW d \in Process, NEW t \in Thread, NEW there \in Place,
         Goto(d, t, there), lock = Free, lock' = <<d, t>>
  PROVE HolderHasLock'
<1>1. /\ pc'[d][t] = there
      /\ \A e \in Process, u \in Thread : <<e, u>> # <<d, t>> => pc'[e][u] = pc[e][u]
  BY GotoEffect DEF LockInv, TypeInv, TypeOK
<1> QED
  BY <1>1, FreeApart DEF HolderHasLock, LockInv

\* And it is the only one when it lets go.
LEMMA GotoReleases ==
  ASSUME LockInv, NEW d \in Process, NEW t \in Thread, pc[d][t] \in Holding,
         NEW there \in Place \ Holding, Goto(d, t, there)
  PROVE HolderHasLock'
<1>1. /\ pc'[d][t] = there
      /\ \A e \in Process, u \in Thread : <<e, u>> # <<d, t>> => pc'[e][u] = pc[e][u]
  BY GotoEffect DEF LockInv, TypeInv, TypeOK
<1>2. \A e \in Process, u \in Thread : <<e, u>> # <<d, t>> => pc[e][u] \notin Holding
  BY DEF HolderHasLock, LockInv
<1> QED
  BY <1>1, <1>2 DEF HolderHasLock

\* A process that ends gives up what it had.
LEMMA DieReleases ==
  ASSUME LockInv, NEW d \in Process, Die(d) PROVE HolderHasLock'
<1>1. pc' = [pc EXCEPT ![d] = [t \in Thread |-> "gone"]]
  BY DEF Die, Kill
<1>2. pc \in [Process -> [Thread -> Place]]
  BY DEF LockInv, TypeInv, TypeOK
<1>3. SUFFICES ASSUME NEW e \in Process, NEW u \in Thread, pc'[e][u] \in Holding
               PROVE lock' = <<e, u>>
  BY DEF HolderHasLock
<1>4. e # d /\ pc[e][u] \in Holding
  BY <1>1, <1>2, <1>3 DEF Holding
<1>5. lock = <<e, u>>
  BY <1>4 DEF LockInv, HolderHasLock
<1>6. lock[1] # d
  BY <1>4, <1>5
<1> QED
  BY <1>5, <1>6 DEF Die

\* A step that leaves the threads and the lock alone.
LEMMA LockFrame ==
  ASSUME LockInv, UNCHANGED <<pc, lock>> PROVE HolderHasLock'
  BY DEF LockInv, HolderHasLock

LEMMA LockStep ==
  ASSUME LockInv, NEW d \in Process, NEW t \in Thread, Step(d, t)
  PROVE HolderHasLock'
<1> DEFINE Else == Place \ Holding
<1>1. /\ "idle" \in Else /\ "wait" \in Else /\ "gone" \in Else /\ Joining \subseteq Else
      /\ Selections \subseteq Else /\ "patch" \in Place /\ "restart" \in Place
      /\ "main" \in Thread /\ "watcher" \in Thread /\ "ipc" \in Thread /\ "auto" \in Thread
  BY DEF Place, Patching, Joining, Holding, Selections, Thread
<1>2. CASE Acquire(d, t)
  BY <1>1, <1>2, GotoTakes DEF Acquire
<1>3. CASE Patch(d, t)
  <2>1. pc[d][t] \in Holding /\ Goto(d, t, "idle")
    BY <1>3 DEF Patch, Holding
  <2> QED
    BY <1>1, <2>1, GotoReleases
<1>4. CASE EventLoop(d)
  <2>1. \E there \in Else : Goto(d, "main", there)
    BY <1>1, <1>4 DEF EventLoop, Joining
  <2>2. lock' = lock
    BY <1>4 DEF EventLoop, files
  <2> QED
    BY <1>1, <2>1, <2>2, GotoKeeps
<1>5. CASE JoinWatcher(d)
  BY <1>1, <1>5, GotoKeeps DEF JoinWatcher, Joining, files
<1>6. CASE DropIpc(d)
  BY <1>1, <1>6, GotoKeeps DEF DropIpc, Joining, files
<1>7. CASE JoinIpc(d)
  BY <1>1, <1>7, GotoKeeps DEF JoinIpc, Joining, files
<1>8. CASE Exit(d)
  BY <1>8, DieReleases DEF Exit
<1>9. CASE WatcherFires(d)
  <2>1. \E there \in Else : Goto(d, "watcher", there)
    BY <1>1, <1>9 DEF WatcherFires
  <2>2. lock' = lock
    BY <1>9 DEF WatcherFires, files
  <2> QED
    BY <1>1, <2>1, <2>2, GotoKeeps
<1>10. CASE WatcherExits(d)
  BY <1>1, <1>10, GotoKeeps DEF WatcherExits, files
<1>11. CASE Accept(d)
  <2>1. lock' = lock
    BY <1>11 DEF Accept, files
  <2>2. CASE Goto(d, "ipc", "wait")
    BY <1>1, <2>1, <2>2, GotoKeeps
  <2>3. CASE UNCHANGED pc
    BY <2>1, <2>3, LockFrame
  <2> QED
    BY <1>11, <2>2, <2>3 DEF Accept
<1>12. CASE IpcExits(d)
  BY <1>1, <1>12, GotoKeeps DEF IpcExits, files
<1>13. CASE Sidecar(d)
  <2>1. CASE Goto(d, "auto", "restart") /\ UNCHANGED lock
    <3>1. pc \in [Process -> [Thread -> Place]] /\ pc[d]["auto"] \in Holding
      BY <1>13 DEF Sidecar, Holding, LockInv, TypeInv, TypeOK
    <3>2. \A e \in Process, u \in Thread : <<e, u>> # <<d, "auto">> => pc'[e][u] = pc[e][u]
      BY <1>1, <2>1, <3>1, GotoEffect
    <3> QED
      BY <1>1, <2>1, <3>1, <3>2 DEF HolderHasLock, LockInv
  <2>2. CASE Goto(d, "auto", "idle")
    <3>1. pc[d]["auto"] \in Holding
      BY <1>13 DEF Sidecar, Holding
    <3> QED
      BY <1>1, <2>2, <3>1, GotoReleases
  <2> QED
    BY <1>13, <2>1, <2>2 DEF Sidecar
<1>14. CASE Restart(d)
  <2>1. pc[d]["auto"] \in Holding
    BY <1>14 DEF Restart, Holding
  <2>2. \A e \in Process, u \in Thread : <<e, u>> # <<d, "auto">> => pc[e][u] \notin Holding
    BY <1>1, <2>1 DEF HolderHasLock, LockInv
  <2>3. CASE \E e \in Alive : Kill(e, IF e = d THEN pc ELSE [pc EXCEPT ![d]["auto"] = "idle"])
    <3>1. PICK e \in Process :
             pc' = [(IF e = d THEN pc ELSE [pc EXCEPT ![d]["auto"] = "idle"])
                      EXCEPT ![e] = [u \in Thread |-> "gone"]]
      BY <2>3 DEF Alive, Kill
    <3>2. pc \in [Process -> [Thread -> Place]]
      BY DEF LockInv, TypeInv, TypeOK
    <3>3. \A f \in Process, u \in Thread : pc'[f][u] \notin Holding
      <4> TAKE f \in Process, u \in Thread
      <4>1. CASE e = d
        BY <2>2, <3>1, <3>2, <4>1 DEF Holding
      <4>2. CASE e # d
        BY <1>1, <2>2, <3>1, <3>2, <4>2 DEF Holding
      <4> QED
        BY <4>1, <4>2
    <3> QED
      BY <3>3 DEF HolderHasLock
  <2>4. CASE Goto(d, "auto", "idle")
    BY <1>1, <2>1, <2>4, GotoReleases
  <2> QED
    BY <1>14, <2>3, <2>4 DEF Restart
<1>15. CASE AutoExits(d)
  BY <1>1, <1>15, GotoKeeps DEF AutoExits, files
<1> QED
  BY <1>2, <1>3, <1>4, <1>5, <1>6, <1>7, <1>8, <1>9, <1>10, <1>11, <1>12, <1>13, <1>14,
     <1>15 DEF Step

LEMMA LockNext == LockInv /\ [Next]_vars => HolderHasLock'
<1> SUFFICES ASSUME LockInv, [Next]_vars PROVE HolderHasLock'
  OBVIOUS
<1>1. ASSUME NEW d \in Process, Launch(d) PROVE HolderHasLock'
  <2>1. "idle" \in Place \ Holding /\ "watcher" \in Thread
    BY DEF Place, Holding, Thread
  <2> QED
    BY <1>1, <2>1, GotoKeeps DEF Launch, files
<1>2. ASSUME NEW d \in Process, Bind(d) PROVE HolderHasLock'
  <2>1. /\ pc' = [pc EXCEPT ![d] = [t \in Thread |-> IF t = "watcher" THEN @[t] ELSE "idle"]]
        /\ lock' = lock
    BY <1>2 DEF Bind, files
  <2>2. \A e \in Process, t \in Thread : pc'[e][t] \in Holding => pc'[e][t] = pc[e][t]
    BY <2>1 DEF Holding, LockInv, TypeInv, TypeOK
  <2> QED
    BY <2>1, <2>2 DEF HolderHasLock, LockInv
<1>3. ASSUME NEW d \in Process, BindFails(d) PROVE HolderHasLock'
  BY <1>3, DieReleases DEF BindFails
<1>4. ASSUME NEW d \in Process, Killed(d) PROVE HolderHasLock'
  BY <1>4, DieReleases DEF Killed
<1>5. ASSUME NEW d \in Process, Click(d) PROVE HolderHasLock'
  BY <1>5, LockFrame DEF Click, files
<1>6. ASSUME NEW d \in Process, AutoApply(d) PROVE HolderHasLock'
  <2>1. "update" \in Place /\ "auto" \in Thread
    BY DEF Place, Thread
  <2> QED
    BY <1>6, <2>1, GotoTakes DEF AutoApply
<1>7. CASE Replace
  BY <1>7, LockFrame DEF Replace, threads
<1>8. ASSUME NEW c \in Client, Connect(c) PROVE HolderHasLock'
  BY <1>8, LockFrame DEF Connect, threads, files
<1>9. ASSUME NEW c \in Client, GiveUp(c) PROVE HolderHasLock'
  BY <1>9, LockFrame DEF GiveUp, threads, files
<1>10. CASE UNCHANGED vars
  BY <1>10, LockFrame DEF vars, threads, files
<1> QED
  BY <1>1, <1>2, <1>3, <1>4, <1>5, <1>6, <1>7, <1>8, <1>9, <1>10, LockStep DEF Next

\* The executable is not swapped, nor the service restarted, while any thread of any
\* daemon patches (cli/update_self.rs:229-240, lockfile.rs: "so we never swap mid-patch").
THEOREM NoSwapMidPatch == Spec => []NeverSwapMidPatch
<1>1. Init => LockInv
  <2>1. Init => HolderHasLock
    BY DEF Init, HolderHasLock, Holding
  <2> QED
    BY <2>1, TypeInit DEF LockInv
<1>2. LockInv /\ [Next]_vars => LockInv'
  BY TypeNext, LockNext DEF LockInv
<1>3. LockInv => NeverSwapMidPatch
  <2> SUFFICES ASSUME LockInv, NEW d \in Process, NEW e \in Process, NEW t \in Thread,
                      pc[d]["auto"] \in {"update", "restart"}, pc[e][t] = "patch"
               PROVE FALSE
    BY DEF NeverSwapMidPatch
  <2>1. lock = <<d, "auto">> /\ lock = <<e, t>>
    BY DEF LockInv, HolderHasLock, Holding, Thread
  <2> QED
    BY <2>1
<1> QED
  BY <1>1, <1>2, <1>3, PTL DEF Spec
(***************************************************************************)
(* The socket.                                                             *)
(***************************************************************************)

\* A process that is not up has no connections, and at most the watcher runs.
Down == \A d \in Process : phase[d] # "up" =>
           /\ \A t \in Thread \ {"watcher"} : pc[d][t] = "gone"
           /\ backlog[d] = <<>> /\ serving[d] = Empty

\* The accept thread has nobody in hand when it turns to the next connection.
HandsFree == \A d \in Process : pc[d]["ipc"] = "idle" => serving[d] = Empty

\* As long as daemons follow one another there is one, and the path is its own.
Alone == ~crowded => \A d, e \in Alive : d = e
OwnPath == ~crowded => \A d \in Process :
              /\ Listening(d) => path = d
              /\ phase[d] = "starting" => path = Nobody

\* A client that waits is waited for.
Connections(d) == ToSet(backlog[d]) \cup {serving[d]}
Kept == \A c \in Client : client[c] = "waiting" =>
           \E d \in Alive : \E k \in Connections(d) : k[1] = c /\ Awaited(k)

SocketInv == TypeInv /\ Down /\ HandsFree /\ Alone /\ OwnPath /\ Kept

\* Nobody waits on an empty connection.
LEMMA EmptyUnawaited == ~Awaited(Empty)
  BY DEF Awaited, Empty

\* What a connection that comes or goes makes of the backlog.
LEMMA BacklogEffect ==
  ASSUME NEW s \in Seq(Connection), NEW k \in Connection
  PROVE /\ ToSet(<<>>) = {}
        /\ k \in ToSet(Append(s, k)) /\ ToSet(s) \subseteq ToSet(Append(s, k))
        /\ s # <<>> => ToSet(s) \subseteq ToSet(Tail(s)) \cup {Head(s)}
<1>1. ToSet(<<>>) = {}
  BY DEF ToSet
<1>2. k \in ToSet(Append(s, k))
  <2>1. Len(s) + 1 \in DOMAIN Append(s, k) /\ Append(s, k)[Len(s) + 1] = k
    OBVIOUS
  <2> QED
    BY <2>1 DEF ToSet
<1>3. ToSet(s) \subseteq ToSet(Append(s, k))
  <2>1. \A i \in DOMAIN s : i \in DOMAIN Append(s, k) /\ Append(s, k)[i] = s[i]
    OBVIOUS
  <2> QED
    BY <2>1 DEF ToSet
<1>4. s # <<>> => ToSet(s) \subseteq ToSet(Tail(s)) \cup {Head(s)}
  <2> SUFFICES ASSUME s # <<>>, NEW i \in DOMAIN s, i # 1
               PROVE \E j \in DOMAIN Tail(s) : Tail(s)[j] = s[i]
    BY DEF ToSet
  <2>1. i - 1 \in DOMAIN Tail(s) /\ Tail(s)[i - 1] = s[i]
    OBVIOUS
  <2> QED
    BY <2>1
<1> QED
  BY <1>1, <1>2, <1>3, <1>4

\* Clients are kept when each one that waits on is still in a living daemon's hands.
LEMMA KeptStays ==
  ASSUME Kept,
         \A c \in Client : client'[c] = "waiting" =>
            /\ client[c] = "waiting" /\ bounds'.tries[c] = bounds.tries[c]
            /\ \A d \in Alive : \A k \in Connections(d) :
                  k[1] = c /\ Awaited(k) => \E e \in Alive' : k \in Connections(e)'
  PROVE Kept'
<1> SUFFICES ASSUME NEW c \in Client, client'[c] = "waiting"
             PROVE \E e \in Alive' : \E k \in Connections(e)' : k[1] = c /\ Awaited(k)'
  BY DEF Kept
<1>1. PICK d \in Alive : \E k \in Connections(d) : k[1] = c /\ Awaited(k)
  BY DEF Kept
<1>2. PICK k \in Connections(d) : k[1] = c /\ Awaited(k)
  BY <1>1
<1>3. PICK e \in Alive' : k \in Connections(e)'
  BY <1>2
<1>4. Awaited(k)'
  BY <1>2 DEF Awaited
<1> QED
  BY <1>2, <1>3, <1>4

\* ... in particular when nothing happens to the connections.
LEMMA KeptFrame ==
  ASSUME Kept, UNCHANGED <<client, backlog, serving>>, bounds'.tries = bounds.tries,
         Alive \subseteq Alive'
  PROVE Kept'
  BY KeptStays DEF Connections

\* ... or when those of one daemon are reset, which may end with it.
LEMMA KeptReset ==
  ASSUME SocketInv, NEW d \in Process, Reset(d), bounds'.tries = bounds.tries,
         \A e \in Alive : e # d => e \in Alive'
  PROVE Kept'
<1> SUFFICES ASSUME NEW c \in Client, client'[c] = "waiting"
             PROVE /\ client[c] = "waiting"
                   /\ \A e \in Alive : \A k \in Connections(e) :
                         k[1] = c /\ Awaited(k) => e # d /\ k \in Connections(e)'
  BY KeptStays DEF SocketInv
<1>1. ~(\E k \in Connections(d) : k[1] = c /\ Awaited(k)) /\ client[c] = "waiting"
  BY DEF Reset, Connections, SocketInv, TypeInv, TypeOK
<1>2. \A e \in Process : e # d => Connections(e)' = Connections(e)
  BY DEF Reset, Connections, SocketInv, TypeInv, TypeOK
<1> QED
  BY <1>1, <1>2 DEF Alive

\* The path stays a daemon's own when no daemon comes and nobody touches it.
LEMMA PathStays ==
  ASSUME Alone, OwnPath, crowded' = crowded, path' = path,
         \A d \in Process : /\ phase'[d] \in {"starting", "up"} => phase'[d] = phase[d]
                            /\ Listening(d)' => Listening(d)
  PROVE Alone' /\ OwnPath'
  BY DEF Alone, OwnPath, Alive

\* A thread that goes anywhere does not listen anew.
LEMMA GotoListens ==
  ASSUME TypeOK, NEW d \in Process, NEW t \in Thread, NEW there \in Place,
         Goto(d, t, there), pc[d][t] # "gone", phase' = phase
  PROVE \A e \in Process : Listening(e)' => Listening(e)
<1>1. \A e \in Process, u \in Thread : <<e, u>> # <<d, t>> => pc'[e][u] = pc[e][u]
  BY GotoEffect DEF TypeOK
<1> QED
  BY <1>1 DEF Listening, Thread

\* Nor does it leave one that is not up with threads.
LEMMA GotoDown ==
  ASSUME SocketInv, NEW d \in Process, NEW t \in Thread, NEW there \in Place,
         Goto(d, t, there), pc[d][t] # "gone", phase' = phase,
         t = "watcher" => serving' = serving /\ backlog' = backlog,
         \A e \in Process : e # d => backlog'[e] = backlog[e] \/ phase[e] = "up",
         \A e \in Process : e # d => serving'[e] = serving[e]
  PROVE Down'
<1>1. \A e \in Process, u \in Thread : <<e, u>> # <<d, t>> => pc'[e][u] = pc[e][u]
  BY ZenonT(30), GotoEffect DEF SocketInv, TypeInv, TypeOK
<1>2. t = "watcher" \/ phase[d] = "up"
  BY DEF SocketInv, Down
<1> QED
  BY <1>1, <1>2 DEF SocketInv, Down

\* The end of a process.
LEMMA KillSocket ==
  ASSUME SocketInv, NEW d \in Process, NEW q \in [Process -> [Thread -> Place]], Kill(d, q),
         \A e \in Process, t \in Thread : e # d /\ t # "auto" => q[e][t] = pc[e][t],
         \A e \in Process : e # d /\ phase[e] # "up" => q[e]["auto"] = pc[e]["auto"],
         UNCHANGED <<bounds, crowded, path>>
  PROVE Down' /\ HandsFree' /\ Alone' /\ OwnPath' /\ Kept'
<1>1. /\ phase' = [phase EXCEPT ![d] = "dead"]
      /\ pc' = [q EXCEPT ![d] = [t \in Thread |-> "gone"]]
      /\ backlog' = [backlog EXCEPT ![d] = <<>>] /\ serving' = [serving EXCEPT ![d] = Empty]
      /\ Reset(d)
  BY DEF Kill, Reset
<1>2. /\ phase \in [Process -> {"off", "starting", "up", "dead"}]
      /\ backlog \in [Process -> Seq(Connection)] /\ serving \in [Process -> Connection]
      /\ "ipc" \in Thread
  BY DEF SocketInv, TypeInv, TypeOK, Thread
<1>3. /\ phase'[d] = "dead" /\ backlog'[d] = <<>> /\ serving'[d] = Empty
      /\ \A t \in Thread : pc'[d][t] = "gone"
      /\ \A e \in Process : e # d => /\ phase'[e] = phase[e] /\ pc'[e] = q[e]
                                     /\ backlog'[e] = backlog[e] /\ serving'[e] = serving[e]
  BY <1>1, <1>2
<1>4. Down'
  BY <1>3 DEF SocketInv, Down
<1>5. HandsFree'
  <2>1. \A e \in Process : e # d => pc'[e]["ipc"] = pc[e]["ipc"]
    BY ZenonT(30), <1>2, <1>3
  <2> QED
    BY <1>3, <2>1 DEF SocketInv, HandsFree
<1>6. Alone' /\ OwnPath'
  BY <1>2, <1>3, PathStays DEF SocketInv, Listening
<1>7. Kept'
  BY <1>1, <1>3, KeptReset DEF Alive
<1> QED
  BY <1>4, <1>5, <1>6, <1>7
\* A thread that goes somewhere and touches no connection.
LEMMA GotoSocket ==
  ASSUME SocketInv, NEW d \in Process, NEW t \in Thread, NEW there \in Place,
         Goto(d, t, there), pc[d][t] # "gone", t = "ipc" => there # "idle",
         UNCHANGED <<phase, client, backlog, serving, crowded, path>>,
         bounds'.tries = bounds.tries
  PROVE Down' /\ HandsFree' /\ Alone' /\ OwnPath' /\ Kept'
<1>1. Down'
  BY GotoDown
<1>2. HandsFree'
  <2>1. \A e \in Process, u \in Thread : <<e, u>> # <<d, t>> => pc'[e][u] = pc[e][u]
    BY ZenonT(30), GotoEffect DEF SocketInv, TypeInv, TypeOK
  <2>2. pc'[d][t] = there /\ "ipc" \in Thread
    BY GotoEffect DEF SocketInv, TypeInv, TypeOK, Thread
  <2> QED
    BY <2>1, <2>2 DEF SocketInv, HandsFree
<1>3. Alone' /\ OwnPath'
  BY GotoListens, PathStays DEF SocketInv, TypeInv
<1>4. Kept'
  BY KeptFrame DEF SocketInv, Alive
<1> QED
  BY <1>1, <1>2, <1>3, <1>4

\* Nothing of all this is touched.
LEMMA SocketFrame ==
  ASSUME SocketInv, UNCHANGED <<phase, pc, client, backlog, serving, crowded, path>>,
         bounds'.tries = bounds.tries
  PROVE Down' /\ HandsFree' /\ Alone' /\ OwnPath' /\ Kept'
<1>1. Kept'
  BY KeptFrame DEF SocketInv, Alive
<1> QED
  BY <1>1 DEF SocketInv, Down, HandsFree, Alone, OwnPath, Alive, Listening

LEMMA SocketStep ==
  ASSUME SocketInv, NEW d \in Process, NEW t \in Thread, Step(d, t)
  PROVE Down' /\ HandsFree' /\ Alone' /\ OwnPath' /\ Kept'
<1>1. /\ "idle" \in Place /\ "wait" \in Place /\ "patch" \in Place /\ "gone" \in Place
      /\ Joining \subseteq Place /\ "restart" \in Place
      /\ Selections \subseteq Place
      /\ "main" \in Thread /\ "watcher" \in Thread /\ "ipc" \in Thread /\ "auto" \in Thread
  BY DEF Place, Patching, Selections, Thread
<1>2. /\ pc \in [Process -> [Thread -> Place]]
      /\ backlog \in [Process -> Seq(Connection)] /\ serving \in [Process -> Connection]
      /\ client \in [Client -> {"idle", "waiting"}]
      /\ Empty \in Connection
  BY ConstantsAssumption DEF SocketInv, TypeInv, TypeOK, Empty, Connection
<1>3. CASE Acquire(d, t)
  BY <1>1, <1>3, GotoSocket DEF Acquire, socket
<1>4. CASE Patch(d, t)
  <2>1. /\ Goto(d, t, "idle") /\ pc[d][t] = "patch"
        /\ UNCHANGED <<phase, bounds, crowded, path, backlog>>
    BY <1>4 DEF Patch
  <2>2. CASE t # "ipc"
    <3>1. UNCHANGED <<client, serving>>
      BY <1>4, <2>2 DEF Patch
    <3> QED
      BY <1>1, <2>1, <2>2, <3>1, GotoSocket
  <2>3. CASE t = "ipc"
    <3>1. Answer(d, serving[d])
      BY <1>4, <2>3 DEF Patch
    <3>2. /\ serving'[d] = Empty
          /\ \A e \in Process : e # d => serving'[e] = serving[e]
      BY <1>2, <3>1 DEF Answer
    <3>3. Down'
      BY <1>1, <2>1, <2>3, <3>2, GotoDown
    <3>4. HandsFree'
      <4>1. \A e \in Process : e # d => pc'[e]["ipc"] = pc[e]["ipc"]
        BY <1>1, <1>2, <2>1, GotoEffect
      <4> QED
        BY <3>2, <4>1 DEF SocketInv, HandsFree
    <3>5. Alone' /\ OwnPath'
      BY <1>1, <2>1, GotoListens, PathStays DEF SocketInv, TypeInv
    <3>6. Kept'
      <4> SUFFICES ASSUME NEW c \in Client, client'[c] = "waiting"
                   PROVE /\ client[c] = "waiting"
                         /\ \A e \in Alive : \A k \in Connections(e) :
                               k[1] = c /\ Awaited(k) => k \in Connections(e)'
        BY <2>1, KeptStays DEF SocketInv, Alive
      <4>1. client[c] = "waiting" /\ ~(serving[d][1] = c /\ Awaited(serving[d]))
        BY <1>2, <3>1 DEF Answer
      <4>2. \A e \in Alive : e \in Process
        BY DEF Alive
      <4> QED
        BY <2>1, <3>2, <4>1, <4>2 DEF Connections
    <3> QED
      BY <3>3, <3>4, <3>5, <3>6
  <2> QED
    BY <2>2, <2>3
<1>5. CASE EventLoop(d)
  <2>1. \E there \in Place : Goto(d, "main", there)
    BY <1>1, <1>5 DEF EventLoop, Joining
  <2>2. /\ pc[d]["main"] # "gone"
        /\ UNCHANGED <<phase, client, backlog, serving, crowded, path, bounds>>
    BY <1>5 DEF EventLoop, socket
  <2> QED
    BY <1>1, <2>1, <2>2, GotoSocket
<1>6. CASE JoinWatcher(d)
  BY <1>1, <1>6, GotoSocket DEF JoinWatcher, Joining, socket
<1>7. CASE DropIpc(d)
  <2>1. /\ Goto(d, "main", "joinIpc") /\ pc[d]["main"] # "gone" /\ "joinIpc" \in Place
        /\ UNCHANGED <<phase, bounds, crowded, path, serving, client>>
    BY <1>1, <1>7 DEF DropIpc, Joining
  <2>2. \A e \in Process :
           /\ ToSet(backlog[e]) \subseteq ToSet(backlog'[e])
           /\ backlog'[e] = backlog[e] \/ phase[e] = "up"
    <3>1. CASE path # Nobody /\ Listening(path)
      <4>1. path \in Process
        BY <3>1 DEF SocketInv, TypeInv, TypeOK
      <4>2. /\ backlog'[path] = Append(backlog[path], Empty)
            /\ \A e \in Process : e # path => backlog'[e] = backlog[e]
        BY <1>2, <1>7, <3>1, <4>1 DEF DropIpc
      <4>3. ToSet(backlog[path]) \subseteq ToSet(Append(backlog[path], Empty))
        BY <1>2, <4>1, BacklogEffect
      <4> QED
        BY <3>1, <4>2, <4>3 DEF Listening
    <3>2. CASE ~(path # Nobody /\ Listening(path))
      BY <1>7, <3>2 DEF DropIpc
    <3> QED
      BY <3>1, <3>2
  <2>3. Down'
    BY <1>1, <2>1, <2>2, GotoDown
  <2>4. HandsFree'
    <3>1. \A e \in Process : pc'[e]["ipc"] = pc[e]["ipc"]
      BY <1>1, <1>2, <2>1, GotoEffect
    <3> QED
      BY <2>1, <3>1 DEF SocketInv, HandsFree
  <2>5. Alone' /\ OwnPath'
    BY <1>1, <2>1, GotoListens, PathStays DEF SocketInv, TypeInv
  <2>6. Kept'
    <3>1. \A e \in Alive : Connections(e) \subseteq Connections(e)' /\ e \in Alive'
      BY <2>1, <2>2 DEF Connections, Alive
    <3> QED
      BY <2>1, <3>1, KeptStays DEF SocketInv
  <2> QED
    BY <2>3, <2>4, <2>5, <2>6
<1>8. CASE JoinIpc(d)
  <2>1. /\ Goto(d, "main", "joinRest") /\ pc[d]["main"] # "gone" /\ "joinRest" \in Place
        /\ pc[d]["ipc"] = "gone" /\ path' = Nobody
        /\ UNCHANGED <<phase, bounds, crowded, backlog, serving, client>>
    BY <1>1, <1>8 DEF JoinIpc, Joining
  <2>2. \A e \in Process : pc'[e]["ipc"] = pc[e]["ipc"]
    BY <1>1, <1>2, <2>1, GotoEffect
  <2>3. Down'
    BY <1>1, <2>1, GotoDown
  <2>4. phase[d] = "up"
    BY <1>1, <2>1 DEF SocketInv, Down
  <2>5. Alone' /\ OwnPath'
    BY <2>1, <2>2, <2>4 DEF SocketInv, Alone, OwnPath, Alive, Listening
  <2>6. HandsFree'
    BY <2>1, <2>2 DEF SocketInv, HandsFree
  <2>7. Kept'
    BY <2>1, KeptFrame DEF SocketInv, Alive
  <2> QED
    BY <2>3, <2>5, <2>6, <2>7
<1>9. CASE Exit(d)
  BY <1>2, <1>9, KillSocket DEF Exit, Die
<1>10. CASE WatcherFires(d)
  <2>1. \E there \in Place : Goto(d, "watcher", there)
    BY <1>1, <1>10 DEF WatcherFires
  <2>2. /\ pc[d]["watcher"] # "gone"
        /\ UNCHANGED <<phase, client, backlog, serving, crowded, path, bounds>>
    BY <1>10 DEF WatcherFires, socket
  <2> QED
    BY <1>1, <2>1, <2>2, GotoSocket
<1>11. CASE WatcherExits(d)
  BY <1>1, <1>11, GotoSocket DEF WatcherExits, socket
<1>12. CASE Accept(d)
  <2> DEFINE k == Head(backlog[d])
  <2>1. /\ pc[d]["ipc"] = "idle" /\ backlog[d] # <<>>
        /\ backlog' = [backlog EXCEPT ![d] = Tail(@)]
        /\ UNCHANGED <<phase, bounds, crowded, path>>
    BY <1>12 DEF Accept
  <2>2. serving[d] = Empty /\ phase[d] = "up"
    BY <2>1 DEF SocketInv, HandsFree, Down
  <2>3. /\ ToSet(backlog[d]) \subseteq ToSet(backlog'[d]) \cup {k}
        /\ \A e \in Process : e # d => backlog'[e] = backlog[e]
    BY <1>2, <2>1, BacklogEffect
  <2>4. CASE Answer(d, k) /\ UNCHANGED pc
    <3>1. /\ serving'[d] = Empty
          /\ \A e \in Process : e # d => serving'[e] = serving[e]
      BY <1>2, <2>4 DEF Answer
    <3>2. Down' /\ HandsFree'
      BY <2>1, <2>2, <2>3, <2>4, <3>1 DEF SocketInv, Down, HandsFree
    <3>3. Alone' /\ OwnPath'
      BY <2>1, <2>4, PathStays DEF SocketInv, Listening
    <3>4. Kept'
      <4> SUFFICES ASSUME NEW c \in Client, client'[c] = "waiting"
                   PROVE /\ client[c] = "waiting"
                         /\ \A e \in Alive : \A l \in Connections(e) :
                               l[1] = c /\ Awaited(l) => l \in Connections(e)'
        BY <2>1, KeptStays DEF SocketInv, Alive
      <4>1. client[c] = "waiting" /\ ~(k[1] = c /\ Awaited(k))
        BY <1>2, <2>4 DEF Answer
      <4>2. \A e \in Alive : e \in Process
        BY DEF Alive
      <4> HIDE DEF k
      <4> QED
        BY <2>2, <2>3, <3>1, <4>1, <4>2, EmptyUnawaited DEF Connections
    <3> QED
      BY <3>2, <3>3, <3>4
  <2>5. CASE Goto(d, "ipc", "wait") /\ serving' = [serving EXCEPT ![d] = k] /\ UNCHANGED client
    <3>1. /\ serving'[d] = k
          /\ \A e \in Process : e # d => serving'[e] = serving[e]
      BY <1>2, <2>5
    <3>2. Down'
      BY <1>1, <2>1, <2>3, <2>5, <3>1, GotoDown
    <3>3. HandsFree'
      <4>1. /\ pc'[d]["ipc"] = "wait"
            /\ \A e \in Process : e # d => pc'[e]["ipc"] = pc[e]["ipc"]
        BY <1>1, <1>2, <2>5, GotoEffect
      <4> QED
        BY <3>1, <4>1 DEF SocketInv, HandsFree
    <3>4. Alone' /\ OwnPath'
      BY <1>1, <2>1, <2>5, GotoListens, PathStays DEF SocketInv, TypeInv
    <3>5. Kept'
      <4> SUFFICES \A e \in Alive : \A l \in Connections(e) :
                      Awaited(l) => l \in Connections(e)'
        BY <2>1, <2>5, KeptStays DEF SocketInv, Alive
      <4>1. \A e \in Alive : e \in Process
        BY DEF Alive
      <4> HIDE DEF k
      <4> QED
        BY <2>2, <2>3, <3>1, <4>1, EmptyUnawaited DEF Connections
    <3> QED
      BY <3>2, <3>3, <3>4, <3>5
  <2> QED
    BY <1>12, <2>4, <2>5 DEF Accept
<1>13. CASE IpcExits(d)
  <2>1. /\ Goto(d, "ipc", "gone") /\ pc[d]["ipc"] = "idle" /\ Reset(d)
        /\ UNCHANGED <<phase, bounds, crowded, path>>
    BY <1>13 DEF IpcExits
  <2>2. \A e \in Process : /\ e # d => serving'[e] = serving[e] /\ backlog'[e] = backlog[e]
                           /\ e = d => serving'[e] = Empty
    BY <1>2, <2>1 DEF Reset
  <2>3. Down'
    BY <1>1, <2>1, <2>2, GotoDown
  <2>4. HandsFree'
    <3>1. \A e \in Process : e # d => pc'[e]["ipc"] = pc[e]["ipc"]
      BY <1>1, <1>2, <2>1, GotoEffect
    <3> QED
      BY <2>2, <3>1 DEF SocketInv, HandsFree
  <2>5. Alone' /\ OwnPath'
    BY <1>1, <2>1, GotoListens, PathStays DEF SocketInv, TypeInv
  <2>6. Kept'
    BY <2>1, KeptReset DEF Alive
  <2> QED
    BY <2>3, <2>4, <2>5, <2>6
<1>14. CASE Sidecar(d)
  BY <1>1, <1>14, GotoSocket DEF Sidecar, socket
<1>15. CASE Restart(d)
  <2>1. pc[d]["auto"] = "restart" /\ phase[d] = "up"
    BY <1>1, <1>15 DEF Restart, SocketInv, Down
  <2>2. ASSUME NEW e \in Alive, Kill(e, IF e = d THEN pc ELSE [pc EXCEPT ![d]["auto"] = "idle"])
        PROVE Down' /\ HandsFree' /\ Alone' /\ OwnPath' /\ Kept'
    <3> DEFINE q == IF e = d THEN pc ELSE [pc EXCEPT ![d]["auto"] = "idle"]
    <3>1. q \in [Process -> [Thread -> Place]] /\ e \in Process
      BY <1>1, <1>2 DEF Alive
    <3>2. /\ \A f \in Process, u \in Thread : f # e /\ u # "auto" => q[f][u] = pc[f][u]
          /\ \A f \in Process : f # e /\ phase[f] # "up" => q[f]["auto"] = pc[f]["auto"]
      BY <1>1, <1>2, <2>1
    <3>3. UNCHANGED <<bounds, crowded, path>>
      BY <1>15 DEF Restart
    <3>4. Kill(e, q)
      BY <2>2
    <3> HIDE DEF q
    <3> QED
      BY <3>1, <3>2, <3>3, <3>4, KillSocket
  <2>3. CASE /\ Goto(d, "auto", "idle")
             /\ UNCHANGED <<phase, changed, stop, ipcStop, clicks, backlog, serving, client>>
    BY <1>1, <1>15, <2>1, <2>3, GotoSocket DEF Restart
  <2> QED
    BY <1>15, <2>2, <2>3 DEF Restart
<1>16. CASE AutoExits(d)
  BY <1>1, <1>16, GotoSocket DEF AutoExits, socket
<1> QED
  BY <1>3, <1>4, <1>5, <1>6, <1>7, <1>8, <1>9, <1>10, <1>11, <1>12, <1>13, <1>14, <1>15,
     <1>16 DEF Step
LEMMA SocketNext == SocketInv /\ [Next]_vars => Down' /\ HandsFree' /\ Alone' /\ OwnPath' /\ Kept'
<1> SUFFICES ASSUME SocketInv, [Next]_vars
             PROVE Down' /\ HandsFree' /\ Alone' /\ OwnPath' /\ Kept'
  OBVIOUS
<1>1. /\ pc \in [Process -> [Thread -> Place]]
      /\ phase \in [Process -> {"off", "starting", "up", "dead"}]
      /\ backlog \in [Process -> Seq(Connection)] /\ serving \in [Process -> Connection]
      /\ client \in [Client -> {"idle", "waiting"}]
      /\ "auto" \in Thread /\ "ipc" \in Thread /\ "update" \in Place
  BY DEF SocketInv, TypeInv, TypeOK, Thread, Place
<1>2. ASSUME NEW d \in Process, Launch(d)
      PROVE Down' /\ HandsFree' /\ Alone' /\ OwnPath' /\ Kept'
  <2>1. /\ phase[d] = "off" /\ phase' = [phase EXCEPT ![d] = "starting"]
        /\ crowded' = (crowded \/ Alive # {}) /\ path' = Nobody
        /\ Goto(d, "watcher", "idle")
        /\ UNCHANGED <<bounds, backlog, serving, client>>
    BY <1>2 DEF Launch
  <2>2. \A e \in Process, t \in Thread : t # "watcher" => pc'[e][t] = pc[e][t]
    <3>1. "idle" \in Place /\ "watcher" \in Thread /\ pc \in [Process -> [Thread -> Place]]
      BY DEF Place, Thread, SocketInv, TypeInv, TypeOK
    <3> QED
      BY <2>1, <3>1, GotoEffect
  <2>3. Down' /\ HandsFree'
    <3>1. "ipc" \in Thread
      BY DEF Thread
    <3>2. \A e \in Process : phase'[e] # "up" => phase[e] # "up"
      BY <1>1, <2>1
    <3>3. Down'
      BY <2>1, <2>2, <3>2 DEF SocketInv, Down
    <3>4. HandsFree'
      BY <2>1, <2>2, <3>1 DEF SocketInv, HandsFree
    <3> QED
      BY <3>3, <3>4
  <2>5. Alone' /\ OwnPath'
    <3>1. "ipc" \in Thread
      BY DEF Thread
    <3> QED
      BY <1>1, <2>1, <2>2, <3>1 DEF Alone, OwnPath, Alive, Listening
  <2>4. Kept'
    <3>1. Alive \subseteq Alive'
      BY <1>1, <2>1 DEF Alive
    <3> QED
      BY <2>1, <3>1, KeptFrame DEF SocketInv
  <2> QED
    BY <2>3, <2>4, <2>5
<1>3. ASSUME NEW d \in Process, Bind(d)
      PROVE Down' /\ HandsFree' /\ Alone' /\ OwnPath' /\ Kept'
  <2>1. /\ phase[d] = "starting" /\ path = Nobody /\ path' = d
        /\ phase' = [phase EXCEPT ![d] = "up"]
        /\ pc' = [pc EXCEPT ![d] = [t \in Thread |-> IF t = "watcher" THEN @[t] ELSE "idle"]]
        /\ UNCHANGED <<bounds, crowded, backlog, serving, client>>
    BY <1>3 DEF Bind
  <2>2. Down' /\ HandsFree'
    BY <1>1, <2>1 DEF SocketInv, Down, HandsFree
  <2>3. Alone' /\ OwnPath'
    BY <1>1, <2>1 DEF SocketInv, Alone, OwnPath, Alive, Listening
  <2>4. Kept'
    <3>1. Alive \subseteq Alive'
      BY <1>1, <2>1 DEF Alive
    <3> QED
      BY <2>1, <3>1, KeptFrame DEF SocketInv
  <2> QED
    BY <2>2, <2>3, <2>4
<1>4. ASSUME NEW d \in Process, BindFails(d)
      PROVE Down' /\ HandsFree' /\ Alone' /\ OwnPath' /\ Kept'
  BY <1>1, <1>4, KillSocket DEF BindFails, Die
<1>5. ASSUME NEW d \in Process, Killed(d)
      PROVE Down' /\ HandsFree' /\ Alone' /\ OwnPath' /\ Kept'
  BY <1>1, <1>5, KillSocket DEF Killed, Die
<1>6. ASSUME NEW d \in Process, Click(d)
      PROVE Down' /\ HandsFree' /\ Alone' /\ OwnPath' /\ Kept'
  <2>1. bounds' = [bounds EXCEPT !.events = @ + 1]
    BY <1>6 DEF Click
  <2>2. bounds'.tries = bounds.tries
    BY <2>1 DEF SocketInv, TypeInv, TypeOK
  <2> QED
    BY <1>6, <2>2, SocketFrame DEF Click, socket
<1>7. ASSUME NEW d \in Process, AutoApply(d)
      PROVE Down' /\ HandsFree' /\ Alone' /\ OwnPath' /\ Kept'
  BY <1>1, <1>7, GotoSocket DEF AutoApply, socket
<1>8. CASE Replace
  <2>1. bounds' = [bounds EXCEPT !.events = @ + 1]
    BY <1>8 DEF Replace
  <2>2. bounds'.tries = bounds.tries
    BY <2>1 DEF SocketInv, TypeInv, TypeOK
  <2> QED
    BY <1>8, <2>2, SocketFrame DEF Replace, socket, threads
<1>9. ASSUME NEW c \in Client, Connect(c)
      PROVE Down' /\ HandsFree' /\ Alone' /\ OwnPath' /\ Kept'
  <2> DEFINE k == <<c, bounds.tries[c] + 1>>
  <2>1. /\ client[c] # "waiting"
        /\ bounds' = [bounds EXCEPT !.events = @ + 1, !.tries[c] = @ + 1]
        /\ UNCHANGED <<phase, pc, crowded, path, serving>>
    BY <1>9 DEF Connect, threads
  <2>2. /\ bounds'.tries[c] = bounds.tries[c] + 1
        /\ \A b \in Client : b # c => bounds'.tries[b] = bounds.tries[b]
    BY <2>1 DEF SocketInv, TypeInv, TypeOK
  <2>3. CASE path # Nobody /\ Listening(path)
    <3>1. path \in Process /\ phase[path] = "up" /\ path \in Alive /\ path \in Alive'
      BY <2>1, <2>3 DEF SocketInv, TypeInv, TypeOK, Listening, Alive
    <3>2. /\ client' = [client EXCEPT ![c] = "waiting"]
          /\ backlog'[path] = Append(backlog[path], k)
          /\ \A e \in Process : e # path => backlog'[e] = backlog[e]
      BY <1>1, <1>9, <2>3, <3>1 DEF Connect
    <3>3. k \in Connection
      <4>1. TypeOK'
        BY TypeNext DEF SocketInv, TypeInv
      <4>2. bounds'.tries[c] \in 0..MaxEvents
        BY <4>1 DEF TypeOK
      <4> QED
        BY <2>2, <4>2 DEF Connection
    <3>4. k \in ToSet(backlog'[path]) /\ ToSet(backlog[path]) \subseteq ToSet(backlog'[path])
      BY <1>1, <3>1, <3>2, <3>3, BacklogEffect
    <3>5. Down' /\ HandsFree'
      BY <2>1, <3>1, <3>2 DEF SocketInv, Down, HandsFree
    <3>6. Alone' /\ OwnPath'
      BY <2>1, PathStays DEF SocketInv, Listening
    <3>7. Kept'
      <4> SUFFICES ASSUME NEW b \in Client, client'[b] = "waiting"
                   PROVE \E d \in Alive' : \E l \in Connections(d)' : l[1] = b /\ Awaited(l)'
        BY DEF Kept
      <4>1. CASE b = c
        <5>1. PICK l : l = k
          OBVIOUS
        <5>2. PICK d \in Process : d = path
          BY <3>1
        <5>3. l \in Connections(d)' /\ d \in Alive'
          BY <3>1, <3>4, <5>1, <5>2 DEF Connections
        <5>4. l[1] = c /\ l[2] = bounds'.tries[c] /\ c # Nobody
          BY <2>2, <5>1, ConstantsAssumption
        <5>5. Awaited(l)'
          BY <4>1, <5>4 DEF Awaited
        <5> QED
          BY <4>1, <5>3, <5>4, <5>5
      <4>2. CASE b # c
        <5>1. client[b] = "waiting"
          BY <1>1, <3>2, <4>2
        <5>2. PICK d \in Alive : \E l \in Connections(d) : l[1] = b /\ Awaited(l)
          BY <5>1 DEF SocketInv, Kept
        <5>3. PICK l \in Connections(d) : l[1] = b /\ Awaited(l)
          BY <5>2
        <5>4. d \in Alive' /\ l \in Connections(d)'
          BY <2>1, <3>2, <3>4 DEF Connections, Alive
        <5>5. Awaited(l)'
          BY <2>2, <4>2, <5>3 DEF Awaited
        <5> QED
          BY <5>3, <5>4, <5>5
      <4> QED
        BY <4>1, <4>2
    <3> QED
      BY <3>5, <3>6, <3>7
  <2>4. CASE ~(path # Nobody /\ Listening(path))
    <3>1. client' = [client EXCEPT ![c] = "idle"] /\ UNCHANGED backlog
      BY <1>9, <2>4 DEF Connect
    <3>2. Down' /\ HandsFree' /\ Alone' /\ OwnPath'
      BY <2>1, <3>1 DEF SocketInv, Down, HandsFree, Alone, OwnPath, Alive, Listening
    <3>3. Kept'
      <4>1. \A b \in Client : client'[b] = "waiting" => b # c /\ client[b] = "waiting"
        BY <1>1, <3>1
      <4>2. \A e \in Alive : e \in Alive' /\ Connections(e)' = Connections(e)
        BY <2>1, <3>1 DEF Alive, Connections
      <4> QED
        BY <2>2, <4>1, <4>2, KeptStays DEF SocketInv
    <3> QED
      BY <3>2, <3>3
  <2> QED
    BY <2>3, <2>4
<1>10. ASSUME NEW c \in Client, GiveUp(c)
       PROVE Down' /\ HandsFree' /\ Alone' /\ OwnPath' /\ Kept'
  <2>1. /\ client' = [client EXCEPT ![c] = "idle"]
        /\ UNCHANGED <<phase, pc, bounds, crowded, path, backlog, serving>>
    BY <1>10 DEF GiveUp, threads
  <2>2. Down' /\ HandsFree' /\ Alone' /\ OwnPath'
    BY <2>1 DEF SocketInv, Down, HandsFree, Alone, OwnPath, Alive, Listening
  <2>3. \A b \in Client : client'[b] = "waiting" => client[b] = "waiting"
    BY <1>1, <2>1
  <2>4. \A e \in Alive : e \in Alive' /\ Connections(e)' = Connections(e)
    BY <2>1 DEF Alive, Connections
  <2>5. Kept'
    BY <2>1, <2>3, <2>4, KeptStays DEF SocketInv
  <2> QED
    BY <2>2, <2>5
<1>11. CASE UNCHANGED vars
  BY <1>11, SocketFrame DEF vars, socket, threads
<1> QED
  BY <1>2, <1>3, <1>4, <1>5, <1>6, <1>7, <1>8, <1>9, <1>10, <1>11, SocketStep DEF Next

\* As long as daemons follow one another the path is the running daemon's, and no
\* client that waits is forgotten by all of them (daemon/ipc.rs:260-330: the socket
\* left by a crash is removed; the listener takes its connections with it).
THEOREM DaemonReachable == Spec => []Reachable
<1>1. Init => SocketInv
  <2> SUFFICES ASSUME Init PROVE SocketInv
    OBVIOUS
  <2>1. Down /\ HandsFree /\ Alone /\ OwnPath
    BY DEF Init, Down, HandsFree, Alone, OwnPath, Alive, Listening
  <2>2. Kept
    BY DEF Init, Kept
  <2> QED
    BY <2>1, <2>2, TypeInit DEF SocketInv
<1>2. SocketInv /\ [Next]_vars => SocketInv'
  BY TypeNext, SocketNext DEF SocketInv
<1>3. SocketInv => Reachable
  BY DEF SocketInv, Reachable, OwnPath, Kept, Connections
<1> QED
  BY <1>1, <1>2, <1>3, PTL DEF Spec
=============================================================================
