----------------------------- MODULE Subprocess -----------------------------
(***************************************************************************)
(* A hook or a version query run as a bounded subprocess                   *)
(* (src/hooks.rs, src/platform/process.rs): the script is looked up and    *)
(* started in a process group of its own, two threads drain its output,    *)
(* the caller polls for its end and kills the group at the deadline, then  *)
(* waits for both threads.  The script starts further processes, which     *)
(* inherit its output, may leave its group and may outlive it.             *)
(***************************************************************************)
EXTENDS Naturals

CONSTANTS Child,      \* the processes the script may start
          Cap,        \* what a pipe holds, in blocks
          Limit,      \* what a reader retains of a stream, in blocks
          MaxSent,    \* bound on the blocks written
          MaxTries    \* attempts to start a script that is open for writing

VARIABLES unix,            \* the host is not Windows
          script,          \* what is found at the path looked up
          writer,          \* the script is open for writing
          tries, pc,       \* of the caller
          late,            \* the deadline has passed
          proc, group,     \* each process, and the script's process group
          holds,           \* the streams each process has open
          sent, buf,       \* what was written to each stream, and is not read yet
          got, eof,        \* what each reader has retained, and whether it has outcome
          code, cut,       \* the script's exit, and whether the group was signalled
          outcome,
          reused, hit      \* the script's process ID names a stranger; the stranger was killed

Script == "script"
Proc == {Script} \cup Child
Stream == {"out", "err"}
look == <<unix, script, writer>>
family == <<proc, group, holds>>
streams == <<sent, buf, got, eof>>
vars == <<look, tries, pc, late, family, streams, code, cut, outcome, reused, hit>>

AtMost(a, b) == IF a <= b THEN a ELSE b
Alive(p) == proc[p] = "run"
Holders(s) == {p \in Proc : s \in holds[p]}

CallerTypeOK ==
    /\ unix \in BOOLEAN
    /\ script \in {"unknown", "none", "plain", "executable"} /\ writer \in BOOLEAN
    /\ tries \in 0..MaxTries
    /\ pc \in {"resolve", "check", "spawn", "poll", "deadline", "kill", "wait", "join", "done"}
    /\ late \in BOOLEAN
    /\ code \in {"none", "zero", "failed", "signal"} /\ cut \in BOOLEAN
    /\ outcome \in {"none", "unconfigured", "ran", "expired", "error"}
    /\ reused \in BOOLEAN /\ hit \in BOOLEAN
FamilyTypeOK ==
    /\ proc \in [Proc -> {"none", "run", "zombie", "gone"}]
    /\ group \subseteq Proc /\ holds \in [Proc -> SUBSET Stream]
    /\ sent \in [Stream -> 0..MaxSent] /\ buf \in [Stream -> 0..Cap]
    /\ got \in [Stream -> 0..Limit] /\ eof \in [Stream -> BOOLEAN]
TypeOK == CallerTypeOK /\ FamilyTypeOK

Init ==
    /\ unix \in BOOLEAN
    /\ script = "unknown" /\ writer \in BOOLEAN
    /\ tries = 0 /\ pc = "resolve" /\ late = FALSE
    /\ proc = [p \in Proc |-> "none"] /\ group = {} /\ holds = [p \in Proc |-> {}]
    /\ sent = [s \in Stream |-> 0] /\ buf = [s \in Stream |-> 0]
    /\ got = [s \in Stream |-> 0] /\ eof = [s \in Stream |-> FALSE]
    /\ code = "none" /\ cut = FALSE /\ outcome = "none"
    /\ reused = FALSE /\ hit = FALSE

-----------------------------------------------------------------------------
(* What the caller makes of the outcome.                                    *)

\* A patch goes on after its pre-patch hook only if there is none or it ended by
\* itself, and well.  A version is read off the same; nothing that a post-patch hook
\* does changes the finished patch.
Accepts(o) == o = "unconfigured" \/ (o = "ran" /\ code = "zero")

Return(o) == pc' = "done" /\ outcome' = o

-----------------------------------------------------------------------------
(* Finding and starting the script.                                         *)

\* The file of the hooks directory, or the one the configuration names; one named
\* below the former configuration directory is looked for there first, then at the
\* place it was moved to.
Named(config, former, current) ==
    IF config = "former" /\ former # "none" THEN former ELSE current

\* The configuration is read for every run; one that cannot be read is an error.
Resolve ==
    /\ pc = "resolve"
    /\ \E config \in {"absent", "current", "former", "malformed"},
          former \in {"none", "executable"}, current \in {"none", "plain", "executable"} :
          IF config = "malformed"
          THEN Return("error") /\ UNCHANGED script
          ELSE script' = Named(config, former, current) /\ pc' = "check" /\ UNCHANGED outcome
    /\ UNCHANGED <<unix, writer, tries, late, family, streams, code, cut, reused, hit>>

\* What is missing or not executable is no hook; Windows has no such bit.
CheckExecutable ==
    /\ pc = "check"
    /\ IF script = "executable" \/ (~unix /\ script = "plain")
       THEN pc' = "spawn" /\ UNCHANGED outcome
       ELSE Return("unconfigured")
    /\ UNCHANGED <<look, tries, late, family, streams, code, cut, reused, hit>>

\* A script somebody has open for writing cannot be started; that is tried again a few
\* times.  Any other failure is final.
Spawn ==
    /\ pc = "spawn"
    /\ \/ /\ writer
          /\ tries' = tries + 1
          /\ IF tries' = MaxTries THEN Return("error") ELSE UNCHANGED <<pc, outcome>>
          /\ UNCHANGED family
       \/ Return("error") /\ UNCHANGED <<tries, family>>
       \/ /\ ~writer
          /\ proc' = [proc EXCEPT ![Script] = "run"]
          /\ group' = {Script}
          /\ holds' = [holds EXCEPT ![Script] = Stream]
          /\ pc' = "poll"
          /\ UNCHANGED <<tries, outcome>>
    /\ UNCHANGED <<look, late, streams, code, cut, reused, hit>>

WriterCloses ==
    /\ writer /\ writer' = FALSE
    /\ UNCHANGED <<unix, script, tries, pc, late, family, streams, code, cut, outcome, reused, hit>>

-----------------------------------------------------------------------------
(* The script and the processes it starts.                                  *)

Fork(p, c) ==
    /\ Alive(p) /\ proc[c] = "none"
    /\ proc' = [proc EXCEPT ![c] = "run"]
    /\ holds' = [holds EXCEPT ![c] = holds[p]]
    /\ group' = IF p \in group THEN group \cup {c} ELSE group
    /\ UNCHANGED <<look, tries, pc, late, streams, code, cut, outcome, reused, hit>>

LeaveGroup(c) ==
    /\ Alive(c) /\ c \in group
    /\ group' = group \ {c}
    /\ UNCHANGED <<look, tries, pc, late, proc, holds, streams, code, cut, outcome, reused, hit>>

\* A full pipe makes its writer wait.
Write(p, s) ==
    /\ p \in Holders(s) /\ sent["out"] + sent["err"] < MaxSent /\ buf[s] < Cap
    /\ sent' = [sent EXCEPT ![s] = @ + 1]
    /\ buf' = [buf EXCEPT ![s] = @ + 1]
    /\ UNCHANGED <<look, tries, pc, late, family, got, eof, code, cut, outcome, reused, hit>>

Close(p, s) ==
    /\ p \in Holders(s)
    /\ holds' = [holds EXCEPT ![p] = @ \ {s}]
    /\ UNCHANGED <<look, tries, pc, late, proc, group, streams, code, cut, outcome, reused, hit>>

Exit(p) ==
    /\ Alive(p)
    /\ IF p = Script
       THEN /\ proc' = [proc EXCEPT ![p] = "zombie"]
            /\ code' \in {"zero", "failed"}
       ELSE proc' = [proc EXCEPT ![p] = "gone"] /\ UNCHANGED code
    /\ holds' = [holds EXCEPT ![p] = {}]
    /\ UNCHANGED <<look, tries, pc, late, group, streams, cut, outcome, reused, hit>>

\* Once nothing of the group is left and the script was waited for, its process ID
\* may be given to a stranger.
Reuse ==
    /\ proc[Script] = "gone" /\ ~reused
    /\ \A c \in group : ~Alive(c)
    /\ reused' = TRUE
    /\ UNCHANGED <<look, tries, pc, late, family, streams, code, cut, outcome, hit>>

-----------------------------------------------------------------------------
(* The threads that drain the two streams.                                  *)

\* Mutant: one thread drains the streams one after the other.
ReadInTurn(s) ==
    /\ proc[Script] # "none" /\ ~eof[s]
    /\ s = "err" => eof["out"]
    /\ IF buf[s] > 0
       THEN /\ buf' = [buf EXCEPT ![s] = @ - 1]
            /\ got' = [got EXCEPT ![s] = AtMost(@ + 1, Limit)]
            /\ UNCHANGED eof
       ELSE /\ Holders(s) = {}
            /\ eof' = [eof EXCEPT ![s] = TRUE]
            /\ UNCHANGED <<buf, got>>
    /\ UNCHANGED <<look, tries, pc, late, family, sent, code, cut, outcome, reused, hit>>

\* It reads to the end of the stream and retains the first part; the stream ends when
\* nobody has it open any more.
Read(s) ==
    /\ proc[Script] # "none" /\ ~eof[s]
    /\ IF buf[s] > 0
       THEN /\ buf' = [buf EXCEPT ![s] = @ - 1]
            /\ got' = [got EXCEPT ![s] = AtMost(@ + 1, Limit)]
            /\ UNCHANGED eof
       ELSE /\ Holders(s) = {}
            /\ eof' = [eof EXCEPT ![s] = TRUE]
            /\ UNCHANGED <<buf, got>>
    /\ UNCHANGED <<look, tries, pc, late, family, sent, code, cut, outcome, reused, hit>>

-----------------------------------------------------------------------------
(* The caller's loop.                                                       *)

Tick ==
    /\ pc \in {"poll", "deadline"} /\ ~late
    /\ late' = TRUE
    /\ UNCHANGED <<look, tries, pc, family, streams, code, cut, outcome, reused, hit>>

TryWait ==
    /\ pc = "poll"
    /\ IF proc[Script] = "zombie"
       THEN proc' = [proc EXCEPT ![Script] = "gone"] /\ pc' = "join"
       ELSE pc' = "deadline" /\ UNCHANGED proc
    /\ UNCHANGED <<look, tries, late, group, holds, streams, code, cut, outcome, reused, hit>>

Deadline ==
    /\ pc = "deadline"
    /\ pc' = IF late THEN "kill" ELSE "poll"
    /\ UNCHANGED <<look, tries, late, family, streams, code, cut, outcome, reused, hit>>

\* Mutant: only the script itself is killed.
KillScript ==
    /\ pc = "kill"
    /\ proc' = IF Alive(Script) THEN [proc EXCEPT ![Script] = "zombie"] ELSE proc
    /\ holds' = [holds EXCEPT ![Script] = {}]
    /\ code' = IF Alive(Script) THEN "signal" ELSE code
    /\ cut' = TRUE /\ hit' = (hit \/ reused)
    /\ pc' = "wait"
    /\ UNCHANGED <<look, tries, late, group, streams, outcome, reused>>

\* The signal goes to the whole group, on Windows to the script only; the script may
\* have ended since it was last polled.  The host may refuse.
Kill ==
    /\ pc = "kill"
    /\ LET victims == {p \in Proc : Alive(p) /\ (p = Script \/ (unix /\ p \in group))} IN
       \/ /\ proc' = [p \in Proc |-> IF p \notin victims THEN proc[p]
                                     ELSE IF p = Script THEN "zombie" ELSE "gone"]
          /\ holds' = [p \in Proc |-> IF p \in victims THEN {} ELSE holds[p]]
          /\ code' = IF Script \in victims THEN "signal" ELSE code
          /\ cut' = TRUE /\ hit' = (hit \/ reused)
          /\ pc' = "wait" /\ UNCHANGED outcome
       \/ /\ Return("error")
          /\ UNCHANGED <<proc, holds, code, cut, hit>>
    /\ UNCHANGED <<look, tries, late, group, streams, reused>>

Wait ==
    /\ pc = "wait" /\ proc[Script] = "zombie"
    /\ proc' = [proc EXCEPT ![Script] = "gone"]
    /\ pc' = "join"
    /\ UNCHANGED <<look, tries, late, group, holds, streams, code, cut, outcome, reused, hit>>

\* Both readers are waited for, without a deadline.
Join ==
    /\ pc = "join" /\ \A s \in Stream : eof[s]
    /\ Return(IF cut THEN "expired" ELSE "ran")
    /\ UNCHANGED <<look, tries, late, family, streams, code, cut, reused, hit>>

Caller == Resolve \/ CheckExecutable \/ Spawn \/ TryWait \/ Deadline \/ Kill \/ Wait \/ Join

Next ==
    \/ Caller \/ Tick \/ WriterCloses \/ Reuse
    \/ \E s \in Stream : Read(s) \/ \E p \in Proc : Write(p, s) \/ Close(p, s)
    \/ \E c \in Child : LeaveGroup(c) \/ \E p \in Proc : Fork(p, c)
    \/ \E p \in Proc : Exit(p)

Spec == Init /\ [][Next]_vars

\* The caller and its threads go on and time passes; of the script nothing is assumed.
FairSpec == Spec /\ WF_vars(Caller) /\ WF_vars(Tick) /\ \A s \in Stream : WF_vars(Read(s))

-----------------------------------------------------------------------------
(* Properties.                                                              *)

\* What a patch or a version rests on is a script that ended by itself and well,
\* also when it ends between the last poll and the kill, and the start of all that
\* it and its descendants wrote (hooks.rs:150-171, runtime.rs:159, process.rs:183-195).
UsedIsWhole ==
    pc = "done" /\ Accepts(outcome) /\ outcome # "unconfigured" =>
        /\ code = "zero" /\ ~cut
        /\ \A s \in Stream : got[s] = AtMost(sent[s], Limit)

\* After a timeout nothing of the group is left running on Unix, whatever it started
\* before or while it was killed (process.rs:167-181).
GroupGone ==
    unix /\ outcome = "expired" => \A p \in group : ~Alive(p)

\* The kill never reaches a process that has come by the script's ID since
\* (process.rs:109-116: the script is not waited for before its group is killed).
NoStrangerKilled == ~hit

\* A full pipe: its writer waits (process.rs:105-106).
Full(s) == buf[s] = Cap

\* An output is kept open by a process that has left the group, or on Windows, or by
\* one that has outlived a script which ended by itself (process.rs:108-121).
HeldOpen ==
    \E s \in Stream, c \in Child :
        c \in Holders(s) /\ (~unix \/ c \notin group \/ (code # "none" /\ ~cut))

\* A hook is over when its time is: "Maximum wall-clock time a hook subprocess may run
\* before it is killed" (hooks.rs:60), by "Bounded subprocess execution" (process.rs:1).
Started == pc = "poll"
Done == pc = "done"
Bounded == Started ~> Done

-----------------------------------------------------------------------------
(* The inductive invariant of the safety properties.                        *)

\* Before the script is started nothing has happened.
Unstarted ==
    pc \in {"resolve", "check", "spawn"} =>
        tries < MaxTries /\ (\A p \in Proc : proc[p] = "none") /\ \A s \in Stream : ~eof[s]

\* The script keeps its ID until the caller has waited for it.
IdKept ==
    /\ pc \in {"poll", "deadline", "kill", "wait"} => proc[Script] \in {"run", "zombie"}
    /\ reused => proc[Script] = "gone"

\* A group that was killed stays dead: only its members add to it.
GroupKept ==
    /\ \A p \in group : proc[p] # "none"
    /\ cut => pc \in {"wait", "join", "done"} /\ (unix => \A p \in group : ~Alive(p))

\* What a reader retains is the start of what it has taken out of the pipe, and what
\* has ended has no writer any more.
Drained ==
    \A s \in Stream :
        /\ buf[s] <= sent[s] /\ got[s] = AtMost(sent[s] - buf[s], Limit)
        /\ eof[s] => buf[s] = 0 /\ Holders(s) = {}

\* What the caller says rests on the readers' end and on the signal it sent.
Said ==
    /\ pc # "done" => outcome = "none"
    /\ outcome = "expired" => cut
    /\ outcome = "ran" => ~cut /\ \A s \in Stream : eof[s]

IInv == TypeOK /\ Unstarted /\ IdKept /\ GroupKept /\ Drained /\ Said /\ NoStrangerKilled
=============================================================================
