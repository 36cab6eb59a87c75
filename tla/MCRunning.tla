------------------------------ MODULE MCRunning -----------------------------
(***************************************************************************)
(* What is waited for, system by system: the watcher's thread, over one    *)
(* installation or two, the self-update and a script.  Each behaviour is   *)
(* one of the system that `sys` names; the last two share the variables    *)
(* they are kept in.                                                       *)
(***************************************************************************)
EXTENDS Watcher

CONSTANTS b1, b2, c1

VARIABLES
    sys,   \* the system of this behaviour
    x1, x2, x3, x4, x5, x6, x7, x8, x9, x10, x11, x12, x13, x14, x15, x16,
    x17, x18    \* its state

xs == <<x1, x2, x3, x4, x5, x6, x7, x8, x9, x10, x11, x12, x13, x14, x15,
        x16, x17, x18>>

(***************************************************************************)
(* The systems: constants, and the variable each of theirs is kept in.     *)
(***************************************************************************)

Updater == INSTANCE SelfUpdate WITH
    MaxVersion <- 2, MaxRuns <- 2, MaxFaults <- 2, windows <- x1, exe <- x2,
    receipt <- x3, latest <- x4, kept <- x5, daemon <- x6, holder <- x7,
    pc <- x8, backup <- x9, before <- x10, result <- x11, runs <- x12,
    faults <- x13, overlapped <- x14, killed <- x15, told <- x16

Hook == INSTANCE Subprocess WITH
    Child <- {c1}, Cap <- 1, Limit <- 1, MaxSent <- 2, MaxTries <- 1,
    unix <- x1, script <- x2, writer <- x3, tries <- x4, pc <- x5,
    late <- x6, proc <- x7, group <- x8, holds <- x9, sent <- x10,
    buf <- x11, got <- x12, eof <- x13, code <- x14, cut <- x15,
    outcome <- x16, reused <- x17, hit <- x18

(***************************************************************************)
(* Their behaviours.                                                       *)
(***************************************************************************)

\* The variables from x_n on are not needed.
Spare(n) ==
    /\ n <= 1 => x1 = "spare"
    /\ n <= 2 => x2 = "spare"
    /\ n <= 3 => x3 = "spare"
    /\ n <= 4 => x4 = "spare"
    /\ n <= 5 => x5 = "spare"
    /\ n <= 6 => x6 = "spare"
    /\ n <= 7 => x7 = "spare"
    /\ n <= 8 => x8 = "spare"
    /\ n <= 9 => x9 = "spare"
    /\ n <= 10 => x10 = "spare"
    /\ n <= 11 => x11 = "spare"
    /\ n <= 12 => x12 = "spare"
    /\ n <= 13 => x13 = "spare"
    /\ n <= 14 => x14 = "spare"
    /\ n <= 15 => x15 = "spare"
    /\ n <= 16 => x16 = "spare"
    /\ n <= 17 => x17 = "spare"
    /\ n <= 18 => x18 = "spare"

Browsers == {b1, b2}
FailEarly == {"attempt"}

\* What an installation that nobody touches looks like.
Untouched(b) == b \in watched /\ b \notin running /\ component[b] = "managed" /\ b \notin owed

\* One installation whose browser starts and quits while it is written to and
\* unwatched, two installations whose entries share the thread, or none.
Within ==
    CASE sys = "alone" -> Untouched(b2)
      [] sys = "pair" -> watched = Browser /\ writes <= 2
      [] OTHER -> \A b \in Browser : Untouched(b)

Watching == sys \in {"alone", "pair"}

RunningInit ==
    /\ Init
    /\ \/ sys \in {"alone", "pair"} /\ Spare(1)
       \/ sys = "update" /\ Updater!Init /\ Spare(17)
       \/ sys = "hook" /\ Hook!Init
    /\ Within

RunningNext ==
    /\ UNCHANGED sys
    /\ \/ /\ Watching /\ Next /\ UNCHANGED xs
          /\ Within' /\ (sys = "pair" /\ ~stop => UNCHANGED running)
       \/ sys = "update" /\ Updater!Next /\ UNCHANGED <<x17, x18>> /\ UNCHANGED vars
       \/ sys = "hook" /\ Hook!Next /\ UNCHANGED vars

\* What each module assumes of the scheduler: whoever runs goes on, time passes.
Proceeds ==
    \/ Watching /\ Dispatch /\ UNCHANGED xs
    \/ sys = "update" /\ Updater!Step("cli") /\ UNCHANGED <<vars, x17, x18>>
    \/ sys = "hook" /\ Hook!Caller /\ UNCHANGED vars

Elsewhere ==
    \/ Watching /\ Tick /\ UNCHANGED xs
    \/ sys = "update" /\ Updater!Step("auto") /\ UNCHANGED <<vars, x17, x18>>
    \/ sys = "hook" /\ Hook!Tick /\ UNCHANGED vars

RunningSpec ==
    /\ RunningInit /\ [][RunningNext]_<<sys, vars, xs>>
    /\ WF_<<vars, xs>>(Proceeds) /\ WF_<<vars, xs>>(Elsewhere)
    /\ \A s \in Hook!Stream : WF_(Hook!vars)(sys = "hook" /\ Hook!Read(s))

(***************************************************************************)
(* What they promise.                                                      *)
(***************************************************************************)

\* Whatever waits, and what it waits for: a full pipe of a script or its caller, an
\* update that has to restart the daemon (platform/process.rs, cli/update_self.rs).
Pending(k) ==
    \/ sys = "hook" /\ (IF k = "caller" THEN Hook!Started ELSE Hook!Full("err"))
    \/ sys = "update" /\ Updater!AutoRecorded

Settled(k) ==
    \/ sys = "hook" /\ (IF k = "caller" THEN Hook!Done \/ Hook!HeldOpen ELSE ~Hook!Full("err"))
    \/ sys = "update" /\ Updater!CaughtUp

\* Nothing waits for ever.
EachEnds == \A k \in {"caller", "pipe"} : Pending(k) ~> Settled(k)

=============================================================================
