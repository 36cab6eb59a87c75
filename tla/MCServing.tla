------------------------------ MODULE MCServing -----------------------------
(***************************************************************************)
(* What serves the user, system by system: the migration of a former       *)
(* installation, the registration of the daemon with systemd and launchd,  *)
(* the tray, the control panel, the self-update, a script, the probe of a  *)
(* browser and a download.  Each behaviour is one of the system that `sys` *)
(* names; the systems but the migration share the variables they are kept  *)
(* in.                                                                     *)
(***************************************************************************)
EXTENDS Migration, Sequences

CONSTANTS
    Invocations, Processes, CallFailures, Operations,   \* of Systemd
    AgentCalls, AgentFaults, AgentChanges,              \* of LaunchAgent
    Catalogue, Clicks, TrayChanges,         \* of Menu
    OnWindows, Switches, Scripts, Preferences, Garbled, Customs, Detections,
    FileEdits, MostCustoms, PanelFaults,                \* of Panel
    Releases, Updates, UpdateFaults,                    \* of Updater
    Children, PipeSize, Retained, Written, Attempts,    \* of Hook
    Patience, ReadPatience, SlowReads, RequestLimit, Connections,   \* of Eme
    PlatformKeys, ThisPlatform, Archive, Garbage, UrlChain, AliasLimit,
    RedirectLimit, Downloads                            \* of Download

\* What is counted is a number; a script is not its child; what a manifest may say
\* of a platform is one of three different things.
ASSUME ServingAssumption ==
    /\ {CallFailures, Operations, AgentCalls, AgentFaults, AgentChanges,
        Clicks, TrayChanges, Switches, Scripts, FileEdits, MostCustoms, PanelFaults,
        Releases, Updates, UpdateFaults, PipeSize, Retained, Written, Patience, ReadPatience,
        Connections, RequestLimit, RedirectLimit} \subseteq Nat
    /\ {Processes, Attempts, SlowReads, AliasLimit, Downloads} \subseteq Nat \ {0}
    /\ None \notin {"former", "new"} /\ \A p \in 1..Processes : p # None
    /\ "script" \notin Children
    /\ Switches + Scripts > 0 /\ \A found \in Detections : Len(found) \in Nat
    /\ ThisPlatform \in PlatformKeys /\ IsFiniteSet(PlatformKeys)
    /\ Cardinality(PlatformKeys) <= AliasLimit
    /\ Archive # None /\ Garbage \notin {Archive, None} /\ {Archive, None} \cap PlatformKeys = {}
    /\ UrlChain \in Seq({"cdn", "foreign"}) /\ UrlChain # <<>>

VARIABLES
    sys,   \* the system of this behaviour
    x1, x2, x3, x4, x5, x6, x7, x8, x9, x10, x11, x12, x13, x14, x15, x16,
    x17, x18    \* its state

xs == <<x1, x2, x3, x4, x5, x6, x7, x8, x9, x10, x11, x12, x13, x14, x15,
        x16, x17, x18>>

(***************************************************************************)
(* The systems: constants, and the variable each of theirs is kept in.     *)
(***************************************************************************)

Systemd == INSTANCE Registration WITH
    Cli <- Invocations, Daemon <- 1..Processes, None <- None,
    MaxFailures <- CallFailures, MaxOps <- Operations,
    unit <- x1, loaded <- x2, enabled <- x3, service <- x4, alive <- x5,
    started <- x6, menu <- x7, at <- x8, op <- x9, prev <- x10, dirty <- x11,
    outcome <- x12, failures <- x13, ops <- x14, mixed <- x15

LaunchAgent == INSTANCE Agent WITH
    MaxCalls <- AgentCalls, MaxFaults <- AgentFaults,
    MaxChanges <- AgentChanges, plist <- x1, job <- x2,
    op <- x3, pc <- x4, before <- x5, loaded <- x6, stopped <- x7,
    undone <- x8, calm <- x9, alone <- x10, result <- x11, stuck <- x12,
    calls <- x13, faults <- x14, changes <- x15

Menu == INSTANCE Tray WITH
    Browser <- Catalogue, MaxClicks <- Clicks, MaxChanges <- TrayChanges,
    backend <- x1, cdm <- x2, login <- x3, shared <- x4, shown <- x5,
    events <- x6, queue <- x7, pc <- x8, command <- x9, over <- x10,
    needs <- x11, failed <- x12, touched <- x13, toast <- x14,
    clicks <- x15, changes <- x16

Panel == INSTANCE Tui WITH
    Windows <- OnWindows, Toggles <- Switches, Hooks <- Scripts,
    Pref <- Preferences, None <- None, Torn <- Garbled, Entry <- Customs,
    Detected <- Detections, MaxEdits <- FileEdits,
    MaxEntries <- MostCustoms, MaxFaults <- PanelFaults, file <- x1,
    original <- x2, read <- x3, draft <- x4, dirty <- x5, screen <- x6,
    browsers <- x7, installed <- x8, input <- x9, pending <- x10, run <- x11,
    pc <- x12, term <- x13, faults <- x14, edits <- x15, base <- x16,
    late <- x17

Updater == INSTANCE SelfUpdate WITH
    MaxVersion <- Releases, MaxRuns <- Updates,
    MaxFaults <- UpdateFaults, windows <- x1, exe <- x2,
    receipt <- x3, latest <- x4, kept <- x5, daemon <- x6, holder <- x7,
    pc <- x8, backup <- x9, before <- x10, result <- x11, runs <- x12,
    faults <- x13, overlapped <- x14, killed <- x15, told <- x16

Hook == INSTANCE Subprocess WITH
    Child <- Children, Cap <- PipeSize, Limit <- Retained,
    MaxSent <- Written, MaxTries <- Attempts,
    unix <- x1, script <- x2, writer <- x3, tries <- x4, pc <- x5,
    late <- x6, proc <- x7, group <- x8, holds <- x9, sent <- x10,
    buf <- x11, got <- x12, eof <- x13, code <- x14, cut <- x15,
    outcome <- x16, reused <- x17, hit <- x18

Eme == INSTANCE Probe WITH
    Timeout <- Patience, ReadLimit <- ReadPatience, Reads <- SlowReads,
    MaxRequests <- RequestLimit, MaxOpen <- Connections,
    clock <- x1, line <- x2, current <- x3, limit <- x4, requests <- x5,
    opened <- x6, page <- x7, answer <- x8, shown <- x9, end <- x10,
    outcome <- x11

Download == INSTANCE Fetch WITH
    Key <- PlatformKeys, Host <- ThisPlatform, Listed <- Archive,
    Other <- Garbage, Nothing <- None, Chain <- UrlChain,
    MaxHops <- AliasLimit, MaxRedirects <- RedirectLimit,
    MaxRuns <- Downloads, sources <- x1, pc <- x2, at <- x3, host <- x4,
    hops <- x5, manifest <- x6, key <- x7, file <- x8, temp <- x9,
    bytes <- x10, verdict <- x11, runs <- x12, asked <- x13, offered <- x14

(***************************************************************************)
(* Their behaviours.                                                       *)
(***************************************************************************)

\* The variables from x_n on are not needed.
Spare(n) ==
    /\ n <= 1 => x1 = "spare"
    /\ n <= 2 => x2 = "spare"
    /\ n <= 3 => x3 = "spare"
    /\ n <= 4 => x4 = "spare"
    /\ n <= 5 => x5 = "spare"
    /\ n <= 6 => x6 = "spare"
    /\ n <= 7 => x7 = "spare"
    /\ n <= 8 => x8 = "spare"
    /\ n <= 9 => x9 = "spare"
    /\ n <= 10 => x10 = "spare"
    /\ n <= 11 => x11 = "spare"
    /\ n <= 12 => x12 = "spare"
    /\ n <= 13 => x13 = "spare"
    /\ n <= 14 => x14 = "spare"
    /\ n <= 15 => x15 = "spare"
    /\ n <= 16 => x16 = "spare"
    /\ n <= 17 => x17 = "spare"
    /\ n <= 18 => x18 = "spare"

\* The migration of a host nobody migrates.
AtRest ==
    /\ Init
    /\ legacy = [d \in Dir |-> None] /\ current = [d \in Dir |-> None]
    /\ ~stray /\ unit["neon"] /\ enabled["neon"] /\ active["neon"]

ServingInit ==
    \/ sys = "migration" /\ Init /\ Spare(1)
    \/ /\ AtRest
       /\ \/ sys = "registration" /\ Systemd!Init /\ Spare(16)
          \/ sys = "agent" /\ LaunchAgent!Init /\ Spare(16)
          \/ sys = "tray" /\ Menu!Init /\ Spare(17)
          \/ sys = "panel" /\ Panel!Init /\ Spare(18)
          \/ sys = "update" /\ Updater!Init /\ Spare(17)
          \/ sys = "hook" /\ Hook!Init
          \/ sys = "probe" /\ Eme!Init /\ Spare(12)
          \/ sys = "fetch" /\ Download!Init /\ Spare(15)

ServingNext ==
    /\ UNCHANGED sys
    /\ \/ sys = "migration" /\ Next /\ UNCHANGED xs
       \/ sys = "registration" /\ Systemd!Next /\ UNCHANGED <<x16, x17, x18>> /\ UNCHANGED vars
       \/ sys = "agent" /\ LaunchAgent!Next /\ UNCHANGED <<x16, x17, x18>> /\ UNCHANGED vars
       \/ sys = "tray" /\ Menu!Next /\ UNCHANGED <<x17, x18>> /\ UNCHANGED vars
       \/ sys = "panel" /\ Panel!Next /\ UNCHANGED x18 /\ UNCHANGED vars
       \/ sys = "update" /\ Updater!Next /\ UNCHANGED <<x17, x18>> /\ UNCHANGED vars
       \/ sys = "hook" /\ Hook!Next /\ UNCHANGED vars
       \/ sys = "probe" /\ Eme!Next /\ UNCHANGED <<x12, x13, x14, x15, x16, x17, x18>> /\ UNCHANGED vars
       \/ sys = "fetch" /\ Download!Next /\ UNCHANGED <<x15, x16, x17, x18>> /\ UNCHANGED vars

ServingSpec == ServingInit /\ [][ServingNext]_<<sys, vars, xs>>

(***************************************************************************)
(* What they promise.                                                      *)
(***************************************************************************)

\* However an update ends, the executable is in its place or where a rollback
\* finds it, and the receipt is not ahead of it (cli/update_self.rs).
UpdateSafe ==
    sys = "update" => /\ Updater!TypeOK /\ Updater!ExecutableSomewhere
                      /\ Updater!AllOrNothing /\ Updater!ReceiptNotAhead

\* A script's output is used whole or not at all, and its time limit ends its
\* group and nobody else (platform/process.rs, hooks.rs).
ScriptSafe ==
    sys = "hook" => Hook!TypeOK /\ Hook!UsedIsWhole /\ Hook!GroupGone /\ Hook!NoStrangerKilled

\* What the tray tells of the browsers is true of them, and of all of them; the control
\* panel marks what is to be saved, points at what there is, and gives the
\* terminal back (daemon/tray.rs, daemon/mod.rs; cli/tui/mod.rs).
MenusHonest ==
    /\ sys = "tray" => Menu!TypeOK /\ Menu!ToastTrue /\ Menu!UpdateCoversInstalled
    /\ sys = "panel" => /\ Panel!TypeOK /\ Panel!DirtyTrue /\ Panel!IndexesHold
                        /\ Panel!TerminalRestored

\* What a download delivers is what the manifest lists, from a host it may come
\* from, and what it keeps is verified (widevine/manifest.rs, widevine/download.rs).
FetchSafe ==
    sys = "fetch" => /\ Download!TypeOK /\ Download!OriginsKept /\ Download!DeliversListed
                     /\ Download!KeptIsVerified /\ Download!GivesUpRightly

\* A probe has one verdict, and it is the browser's own within the time there is
\* (eme/browser_probe.rs, eme/probe.rs).
ProbeSafe ==
    sys = "probe" => /\ Eme!TypeOK /\ Eme!OneVerdict /\ Eme!MatrixExact
                     /\ Eme!VerdictFits /\ Eme!DeadlineHolds

\* A registration that was refused can be asked for again, and a rollback of it
\* stops what it started (daemon/lifecycle/macos.rs).
RetriesWork ==
    /\ sys = "agent" => LaunchAgent!TypeOK /\ LaunchAgent!RetryRegisters /\ LaunchAgent!RollbackStops
    /\ sys = "registration" => Systemd!TypeOK

\* A registration or its removal is done, or taken back; a request of a stranger
\* ends no probe; and the panel saves over nobody's edit and drops none of the user's
\* without asking (daemon/lifecycle/; eme/browser_probe.rs; cli/tui/mod.rs).
StepsRight ==
    [][/\ sys = "registration" => Systemd!Registered /\ Systemd!RolledBack
       /\ sys = "agent" => LaunchAgent!RegisterWhole
       /\ sys = "probe" => Eme!StrangersEndNothing
       /\ sys = "panel" => Panel!SaveKeepsOthers /\ Panel!QuitAsks]_<<sys, vars, xs>>

\* The values of constants that a configuration cannot write.
CdnForeign == <<"cdn", "foreign", "cdn">>
NoneOrTwo == {<<>>, <<"b1", "b2">>}

=============================================================================
