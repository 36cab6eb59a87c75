-------------------------------- MODULE Tui ---------------------------------
(***************************************************************************)
(* src/src/cli/tui/: the control panel.  It keeps a draft of the           *)
(* configuration that it has read, edits it by keys, dialogues and         *)
(* confirmations, saves it if the file is still the one that was read, and *)
(* runs the program's own commands with the terminal given back to them;   *)
(* every two seconds it looks for the browsers again.  Meanwhile others    *)
(* edit the file and install browsers.  Views, reports, filters and what   *)
(* is drawn are left out.                                                  *)
(***************************************************************************)
EXTENDS Integers, SequencesExt

CONSTANTS
    Windows,    \* cfg!(windows): a browser is asked for its profile, too
    Toggles,    \* how many settings are switched by a key (4)
    Hooks,      \* how many are typed (3)
    Pref,       \* the values of all of them together
    None,       \* no dialogue, no confirmation, no command
    Torn,       \* a file that does not parse
    Entry,      \* the configured browsers, with name, path and profile
    Detected,   \* the lists of installed browsers
    MaxEdits,   \* bound on what others do
    MaxEntries, \* bound on the configured browsers
    MaxFaults   \* bound on the calls that fail

SETTINGS == Toggles + Hooks
LastStep == IF Windows THEN 2 ELSE 1

VARIABLES
    file,       \* the configuration file
    original,   \* its bytes as they were read or written last
    read,       \* its bytes as a load in progress has read them
    draft,      \* the configuration as edited
    dirty,      \* the draft is to be saved
    screen,     \* view, selected browser and selected setting
    browsers,   \* the browsers as found last
    installed,  \* the browsers there are
    input,      \* the dialogue
    pending,    \* the confirmation
    run,        \* the command that is executed
    pc,
    term,       \* raw mode, what TerminalState knows of it, and whether its
                \* drop could not leave it
    faults,     \* counter
    edits,      \* counter
    base,       \* history: the configuration that was loaded or saved last
    late        \* history: whether the file was edited after the last check

vars == <<file, original, read, draft, dirty, screen, browsers,
          installed, input, pending, run, pc, term, faults, edits, base, late>>

Config == [prefs : Pref, browsers : SeqOf(Entry, MaxEntries)]

\* What is typed is accepted or not: a name must not be empty, a path and a profile
\* be absolute.  A browser is asked for in up to three steps.
Dialogue == [kind : {"hook"}, good : BOOLEAN]
    \cup [kind : {"browser"}, good : BOOLEAN, step : 0..2, editing : 0..MaxEntries]

FilesTypeOK ==
    /\ dirty \in BOOLEAN /\ late \in BOOLEAN
    /\ file \in Config \cup {Torn} /\ original \in Config \cup {Torn} /\ read \in Config \cup {Torn, None}
    /\ draft \in Config /\ base \in Config
    /\ faults \in 0..MaxFaults /\ edits \in 0..MaxEdits

PanelTypeOK ==
    /\ screen \in [tab : 0..5, selected : Nat, setting : Nat]
    /\ browsers \in Detected \cup {<<>>} /\ installed \in Detected
    /\ run \in {"none", "stays", "closes"}
    /\ pc \in {"load", "parse", "open", "keys", "reload", "reparse", "compare", "recheck",
               "persist", "suspend", "child", "resume", "refresh", "leave", "exit"}
    /\ term \in [raw : BOOLEAN, active : BOOLEAN, stuck : BOOLEAN]

DialoguesTypeOK ==
    /\ input \in Dialogue \cup {None}
    /\ pending \in [kind : {"command"}, closes : BOOLEAN] \cup [kind : {"quit"}]
                   \cup [kind : {"remove"}, index : Nat] \cup {None}

TypeOK == FilesTypeOK /\ PanelTypeOK /\ DialoguesTypeOK

Fault == faults < MaxFaults /\ faults' = faults + 1
Sound == UNCHANGED faults
Held(condition) == condition /\ Sound
Refuted(condition) == IF condition THEN Fault ELSE Sound

Default == [prefs |-> CHOOSE p \in Pref : TRUE, browsers |-> <<>>]

Init ==
    /\ file \in Config
    /\ original = file /\ read = None
    /\ draft = Default /\ base = Default
    /\ dirty = FALSE /\ late = FALSE
    /\ screen = [tab |-> 0, selected |-> 0, setting |-> 0]
    /\ installed \in Detected /\ browsers = <<>>
    /\ input = None /\ pending = None /\ run = "none" /\ pc = "load"
    /\ term = [raw |-> FALSE, active |-> FALSE, stuck |-> FALSE]
    /\ faults = 0 /\ edits = 0

-----------------------------------------------------------------------------
(* App::load, TerminalState                                                *)

World == <<file, installed, edits, late>>
Dialogues == <<input, pending>>
Kept == <<original, draft, dirty, base>>

\* read_config: the bytes, before the configuration is loaded from them anew.
Load ==
    /\ pc \in {"load", "reload"}
    /\ \/ Sound /\ read' = file /\ pc' = IF pc = "load" THEN "parse" ELSE "reparse"
       \/ Fault /\ pc' = (IF pc = "load" THEN "exit" ELSE "keys") /\ UNCHANGED read
    /\ UNCHANGED <<World, Kept, screen, browsers, Dialogues, run, term>>

\* load_config_from, detect_browsers: a new panel, which after R shows the settings.
Parse ==
    /\ pc \in {"parse", "reparse"}
    /\ \/ /\ Held(file # Torn)
          /\ original' = read /\ draft' = file /\ base' = file /\ dirty' = FALSE
          /\ browsers' = installed /\ input' = None /\ pending' = None
          /\ screen' = [tab |-> IF pc = "parse" THEN 0 ELSE 5, selected |-> 0, setting |-> 0]
          /\ pc' = IF pc = "parse" THEN "open" ELSE "keys"
       \/ /\ Refuted(file # Torn) /\ pc' = (IF pc = "parse" THEN "exit" ELSE "keys")
          /\ UNCHANGED <<Kept, browsers, Dialogues, screen>>
    /\ read' = None /\ UNCHANGED <<World, run, term>>

\* TerminalState::resume: raw mode, noted before the alternate screen is entered.
Resume ==
    \/ /\ Sound /\ term' = [term EXCEPT !.raw = TRUE, !.active = TRUE]
       /\ pc' = (IF pc = "resume" THEN "refresh" ELSE "keys") /\ UNCHANGED run
    \/ /\ Fault /\ pc' = (IF pc = "resume" THEN "keys" ELSE "leave") /\ run' = "none"
       /\ term' \in {term, [term EXCEPT !.raw = TRUE, !.active = TRUE]}

\* TerminalState::new
Open ==
    /\ pc = "open" /\ Resume
    /\ UNCHANGED <<World, Kept, read, screen, browsers, Dialogues>>

\* TerminalState::drop, however the panel ends: raw mode is left if it was entered.
Leave ==
    /\ pc = "leave" /\ pc' = "exit"
    /\ \/ Sound /\ term' = [term EXCEPT !.raw = term.raw /\ ~term.active, !.active = FALSE]
       \/ term.active /\ Fault /\ term' = [term EXCEPT !.stuck = TRUE]
    /\ UNCHANGED <<World, Kept, read, screen, browsers, Dialogues, run>>

\* run: the terminal cannot be drawn to or read from.
Broken ==
    /\ pc = "keys" /\ Fault /\ pc' = "leave"
    /\ UNCHANGED <<World, Kept, read, screen, browsers, Dialogues, run, term>>

-----------------------------------------------------------------------------
(* Keys, when no dialogue and no confirmation is open.                     *)

Calm == pc = "keys" /\ input = None /\ pending = None
Still == Sound /\ UNCHANGED <<World, read, run, term>>

LastOf(n) == IF n = 0 THEN 0 ELSE n - 1
AtMost(a, b) == IF a < b THEN a ELSE b

\* App::refresh: the browsers as they are now, and the selection within them.
Refreshed(s) ==
    /\ browsers' = installed
    /\ screen' = [s EXCEPT !.selected = AtMost(@, LastOf(Len(installed)))]

\* Every two seconds.
Refresh ==
    /\ pc = "keys" /\ Refreshed(screen)
    /\ Still /\ UNCHANGED <<Kept, Dialogues, pc>>

\* Tab, BackTab, 1 to 6: the view changes whether or not the refresh works.
View(t) ==
    /\ Calm
    /\ \/ Refreshed([screen EXCEPT !.tab = t]) /\ Sound
       \/ screen' = [screen EXCEPT !.tab = t] /\ UNCHANGED browsers /\ Fault
    /\ UNCHANGED <<World, read, run, term, Kept, Dialogues, pc>>

\* navigate
Navigate(down) ==
    LET Moved(i, n) == IF down THEN AtMost(i + 1, LastOf(n)) ELSE LastOf(i) IN
    /\ Calm /\ screen.tab \in {0, 1, 5}
    /\ screen' = IF screen.tab = 5
                 THEN [screen EXCEPT !.setting = Moved(@, SETTINGS + Len(draft.browsers))]
                 ELSE [screen EXCEPT !.selected = Moved(@, Len(browsers))]
    /\ Still /\ UNCHANGED <<Kept, browsers, Dialogues, pc>>

\* browser_name: a browser is selected, and it alone has its name.
Named ==
    /\ screen.selected < Len(browsers)
    /\ \A i \in DOMAIN browsers :
          browsers[i] = browsers[screen.selected + 1] => i = screen.selected + 1

Asks(question) ==
    /\ Calm /\ pending' = question
    /\ Still /\ UNCHANGED <<Kept, screen, browsers, input, pc>>

\* p, t, l act on the selected browser; w, i, u and r, g, z on none; u closes the panel.
AskCommand(closes) == Asks([kind |-> "command", closes |-> closes])
AskBrowser == Named /\ AskCommand(FALSE)

\* request_quit
AskQuit ==
    \/ dirty /\ Asks([kind |-> "quit"])
    \/ /\ Calm /\ ~dirty /\ pc' = "leave"
       /\ Still /\ UNCHANGED <<Kept, screen, browsers, Dialogues>>

\* v in the view of updates runs without a confirmation.
DryRun ==
    /\ Calm /\ screen.tab = 3 /\ pc' = "suspend" /\ run' = "stays"
    /\ Sound /\ UNCHANGED <<World, read, term, Kept, screen, browsers, Dialogues>>

-----------------------------------------------------------------------------
(* settings_key, edit_setting                                              *)

Setting == Calm /\ screen.tab = 5 /\ Still /\ UNCHANGED <<original, base, browsers>>

\* Enter on a setting that is switched.
Toggle ==
    /\ Setting /\ screen.setting < Toggles
    /\ \E p \in Pref \ {draft.prefs} : draft' = [draft EXCEPT !.prefs = p]
    /\ dirty' = TRUE /\ UNCHANGED <<screen, Dialogues, pc>>

\* Enter on a hook, on a configured browser, or a for a new one.
EditHook ==
    /\ Setting /\ screen.setting \in Toggles..(SETTINGS - 1)
    /\ input' = [kind |-> "hook", good |-> TRUE]
    /\ UNCHANGED <<draft, dirty, screen, pending, pc>>

Asking(step, good, editing) ==
    [kind |-> "browser", good |-> good, step |-> step, editing |-> editing]

EditBrowser ==
    LET index == screen.setting - SETTINGS + 1 IN
    /\ Setting /\ index \in DOMAIN draft.browsers /\ input' = Asking(0, TRUE, index)
    /\ UNCHANGED <<draft, dirty, screen, pending, pc>>

AddBrowser ==
    /\ Setting /\ input' = Asking(0, FALSE, 0)
    /\ UNCHANGED <<draft, dirty, screen, pending, pc>>

AskRemove ==
    /\ screen.tab = 5 /\ screen.setting >= SETTINGS
    /\ Asks([kind |-> "remove", index |-> screen.setting - SETTINGS + 1])

\* R loads the panel anew, without asking; s saves the draft.
Goes(key, next) ==
    /\ Setting /\ pc' = next
    /\ UNCHANGED <<draft, dirty, screen, Dialogues>>

-----------------------------------------------------------------------------
(* input_key, accept_input, browser_input                                  *)

Dialog(kind) == pc = "keys" /\ input # None /\ input.kind = kind
Unasked == Still /\ UNCHANGED <<original, base, browsers, screen, pending, pc>>

\* Characters and Backspace.
Type ==
    /\ pc = "keys" /\ input # None /\ input' = [input EXCEPT !.good = ~@]
    /\ Unasked /\ UNCHANGED <<draft, dirty>>

Cancel ==
    /\ pc = "keys" /\ input # None /\ input' = None
    /\ Unasked /\ UNCHANGED <<draft, dirty>>

AcceptHook ==
    /\ Dialog("hook") /\ input' = None /\ dirty' = TRUE
    /\ \E p \in Pref : draft' = [draft EXCEPT !.prefs = p]
    /\ Unasked

\* The entry in place of the one that is edited, or at the end, if the whole
\* configuration still parses (store_browser).
Store ==
    /\ input' = None
    /\ \/ /\ input.good /\ dirty' = TRUE
          /\ \E e \in Entry : draft' = [draft EXCEPT !.browsers =
                IF input.editing # 0 THEN [@ EXCEPT ![input.editing] = e] ELSE Append(@, e)]
       \/ ~input.good /\ UNCHANGED <<draft, dirty>>

\* The name, the path and on Windows the profile, each offered as the edited entry
\* has it; an error closes the dialogue.
AcceptBrowser ==
    /\ Dialog("browser") /\ Unasked
    /\ input.editing = 0 => Len(draft.browsers) < MaxEntries
    /\ \/ ~input.good /\ input.step < 2 /\ input' = None /\ UNCHANGED <<draft, dirty>>
       \/ /\ input.good /\ input.step < LastStep
          /\ input' = Asking(input.step + 1, input.step = 1 \/ input.editing # 0, input.editing)
          /\ UNCHANGED <<draft, dirty>>
       \/ input.step = LastStep /\ (input.step = 1 => input.good) /\ Store

-----------------------------------------------------------------------------
(* confirmation_key                                                        *)

Confirms(kind) == pc = "keys" /\ input = None /\ pending # None /\ pending.kind = kind

Decline ==
    /\ pc = "keys" /\ input = None /\ pending # None /\ pending' = None
    /\ Still /\ UNCHANGED <<Kept, screen, browsers, input, pc>>

ConfirmQuit ==
    /\ Confirms("quit") /\ pending' = None /\ pc' = "leave"
    /\ Still /\ UNCHANGED <<Kept, screen, browsers, input>>

ConfirmRemove ==
    /\ Confirms("remove") /\ pending' = None /\ pending.index <= Len(draft.browsers)
    /\ draft' = [draft EXCEPT !.browsers = RemoveAt(@, pending.index)] /\ dirty' = TRUE
    /\ screen' = [screen EXCEPT !.setting = LastOf(@)]
    /\ Still /\ UNCHANGED <<original, base, browsers, input, pc>>

ConfirmCommand ==
    /\ Confirms("command") /\ pending' = None /\ pc' = "suspend"
    /\ run' = IF pending.closes THEN "closes" ELSE "stays"
    /\ Sound /\ UNCHANGED <<World, read, term, Kept, screen, browsers, input>>

-----------------------------------------------------------------------------
(* App::execute: what fails on the way leaves the rest undone.             *)

Executing == UNCHANGED <<World, read, Kept, Dialogues>>

Suspend ==
    /\ pc = "suspend" /\ Executing /\ UNCHANGED <<screen, browsers>>
    /\ \/ /\ Sound /\ term' = [term EXCEPT !.raw = @ /\ ~term.active, !.active = FALSE]
          /\ pc' = "child" /\ UNCHANGED run
       \/ /\ term.active /\ Fault /\ pc' = "keys" /\ run' = "none"
          /\ term' \in {term, [term EXCEPT !.raw = FALSE, !.active = FALSE]}

\* The command ends, and the user returns to the panel.
Child ==
    /\ pc = "child" /\ Executing /\ UNCHANGED <<term, screen, browsers>>
    /\ (Sound /\ pc' = "resume" /\ UNCHANGED run) \/ (Fault /\ pc' = "keys" /\ run' = "none")

ResumePanel == pc = "resume" /\ Resume /\ Executing /\ UNCHANGED <<screen, browsers>>

\* The browsers are looked for; a self-update closes the panel, if all of it worked.
Finish ==
    /\ pc = "refresh" /\ Executing /\ run' = "none" /\ UNCHANGED term
    /\ \/ Sound /\ Refreshed(screen) /\ pc' = IF run = "closes" THEN "leave" ELSE "keys"
       \/ Fault /\ pc' = "keys" /\ UNCHANGED <<screen, browsers>>

-----------------------------------------------------------------------------
(* save_config                                                             *)

Saving == UNCHANGED <<installed, edits, read, screen, browsers, Dialogues, run, term>>

\* The file is what was read last; the draft is written to a file beside it.
Compare ==
    /\ pc = "compare" /\ Saving /\ UNCHANGED <<file, Kept, late>>
    /\ \/ Held(file = original) /\ pc' = "recheck"
       \/ Refuted(file = original) /\ pc' = "keys"

\* It still is.
Recheck ==
    /\ pc = "recheck" /\ Saving /\ late' = FALSE /\ UNCHANGED <<file, Kept>>
    /\ \/ Held(file = original) /\ pc' = "persist"
       \/ Refuted(file = original) /\ pc' = "keys"

Persist ==
    /\ pc = "persist" /\ Saving /\ pc' = "keys" /\ late' = FALSE /\ UNCHANGED draft
    /\ \/ Sound /\ file' = draft /\ original' = draft /\ base' = draft /\ dirty' = FALSE
       \/ Fault /\ UNCHANGED <<file, original, base, dirty>>

-----------------------------------------------------------------------------
(* Others.                                                                 *)

Elsewhere ==
    /\ pc # "exit" /\ edits < MaxEdits /\ edits' = edits + 1
    /\ UNCHANGED <<Kept, read, screen, browsers, Dialogues, run, pc, term, faults>>

EditFile ==
    /\ \E f \in {[Default EXCEPT !.prefs = p] : p \in Pref} \cup {Torn} : f # file /\ file' = f
    /\ late' = (late \/ pc = "persist") /\ UNCHANGED installed /\ Elsewhere

Install ==
    /\ \E d \in Detected \ {installed} : installed' = d
    /\ UNCHANGED <<file, late>> /\ Elsewhere

Next ==
    \/ Load \/ Parse \/ Open \/ Leave \/ Broken \/ Refresh
    \/ \E t \in {0, 3, 5} : View(t)
    \/ \E d \in BOOLEAN : Navigate(d) \/ AskCommand(d)
    \/ AskBrowser \/ AskQuit \/ DryRun
    \/ Toggle \/ EditHook \/ EditBrowser \/ AddBrowser \/ AskRemove
    \/ Goes("R", "reload") \/ Goes("s", "compare")
    \/ Type \/ Cancel \/ AcceptHook \/ AcceptBrowser
    \/ Decline \/ ConfirmQuit \/ ConfirmRemove \/ ConfirmCommand
    \/ Suspend \/ Child \/ ResumePanel \/ Finish \/ Compare \/ Recheck \/ Persist
    \/ EditFile \/ Install

Spec == Init /\ [][Next]_vars

-----------------------------------------------------------------------------
(* Properties.                                                             *)

\* What differs from the configuration loaded or saved last is marked as to be
\* saved, whichever key or dialogue has changed it (edit_setting, accept_input,
\* store_browser, confirmation_key).
DirtyTrue == pc \notin {"load", "parse"} /\ draft # base => dirty

\* What a dialogue edits and a confirmation removes is in the draft, and the
\* cursors are on a row, after any sequence of removals, reloads and refreshes: no
\* index is out of bounds (edit_setting, store_browser, navigate, refresh).
IndexesHold ==
    /\ input # None /\ input.kind = "browser" /\ input.editing # 0 =>
          input.editing \in DOMAIN draft.browsers
    /\ pending # None /\ pending.kind = "remove" => pending.index \in DOMAIN draft.browsers
    /\ screen.setting < SETTINGS + Len(draft.browsers)
    /\ screen.selected <= LastOf(Len(browsers))

\* A command never runs in raw mode, and the panel ends with the terminal as it
\* was, unless leaving raw mode itself failed (TerminalState).
TerminalRestored ==
    /\ pc = "child" => ~term.raw
    /\ pc = "exit" => ~term.raw \/ term.stuck

\* A save replaces the bytes that the draft was loaded with or a later edit of the
\* last moment, never what somebody has written since the load (save_config).
SaveKeepsOthers == pc = "persist" /\ file' = draft /\ file' # file => late \/ file = original

\* The panel is not left with unsaved settings without a question, the one to
\* discard them or the one of the self-update (request_quit, confirmation_key).
QuitAsks ==
    pc \in {"keys", "refresh"} /\ pc' = "leave" /\ draft # base /\ faults' = faults =>
        run = "closes" \/ (pending # None /\ pending.kind = "quit")

-----------------------------------------------------------------------------
(* The inductive invariant.                                                 *)

BytesRead == pc \in {"parse", "reparse"} => read \in Config \cup {Torn}

DraftNoted == draft # base => dirty

\* A dialogue and a confirmation are never open together, so that neither changes
\* what the other is about.
OneQuestion == input = None \/ pending = None

\* What is in raw mode is known to be, and nothing is before the panel opens.
RawKnown == (term.raw => term.active) /\ (pc \in {"load", "parse", "open"} => ~term.raw)

EditNoted == pc = "persist" => late \/ file = original

IInv == /\ TypeOK /\ BytesRead /\ DraftNoted /\ IndexesHold /\ OneQuestion /\ RawKnown /\ TerminalRestored
        /\ EditNoted
=============================================================================
