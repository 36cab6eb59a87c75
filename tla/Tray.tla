-------------------------------- MODULE Tray --------------------------------
(***************************************************************************)
(* The tray and the event loop it feeds (src/daemon/tray.rs,               *)
(* src/daemon/mod.rs).  The menu is drawn once, when the daemon starts,    *)
(* and never again; a click is a command in a queue.  The loop takes one   *)
(* command at a time: it selects the browsers that have to be patched,     *)
(* patches them one after the other and says how it went, or changes the   *)
(* registration.  Meanwhile browsers come, go and are patched by others,   *)
(* and another program changes the registration.                           *)
(***************************************************************************)
EXTENDS Naturals, Sequences, SequencesExt

CONSTANTS Browser,         \* the browsers of the host
          MaxClicks,       \* bound on the clicks
          MaxChanges       \* bound on what others change

VARIABLES backend,    \* who delivers clicks: "ksni", "pumped" (AppKit, Windows) or "headless"
          cdm,        \* what each browser has: "gone" if there is no browser
          login,      \* whether the daemon is registered
          shared, shown,   \* the browsers and the registration found when the daemon started
          events,     \* clicks the platform has not delivered
          queue,      \* the commands sent to the loop
          pc,         \* where the loop stands
          command,    \* the command it works on
          over, needs, failed,   \* the browsers of the patch flow, those to patch, those that failed
          touched,    \* history: the browsers others have changed since the flow began
          toast,      \* the last notification, or Nil
          clicks, changes

host == <<cdm, login>>
menu == <<backend, shared, shown>>
flow == <<over, needs, failed>>
vars == <<host, menu, events, queue, pc, command, flow, touched, toast, clicks, changes>>

Nil == [kind |-> "none"]
Cmd(k, v) == [kind |-> k, arg |-> v]
NoArg == ""

\* No browser; nothing in it, or what a former installation left; silvervine's own, of
\* an older version or of the newest it has heard of; what is not its own or cannot be
\* told.
Cdms == {"gone", "missing", "outdated", "current", "foreign"}
Installed == {b \in Browser : cdm[b] # "gone"}

\* Where the platform's tray cannot be had, nothing is drawn and the loop goes on.
Init ==
    /\ backend \in {"ksni", "pumped", "headless"}
    /\ cdm \in [Browser -> Cdms]
    /\ login \in BOOLEAN
    /\ shared = Installed /\ shown = login
    /\ events = <<>> /\ queue = <<>>
    /\ pc = "wait" /\ command = Nil /\ toast = Nil
    /\ over = {} /\ needs = {} /\ failed = {} /\ touched = {}
    /\ clicks = 0 /\ changes = 0

-----------------------------------------------------------------------------
(* The menu.                                                               *)

\* The commands of the entries.  The toggle's is the opposite of what was found.
MenuLayout ==
    {Cmd("PatchOne", b) : b \in shared}
    \cup {Cmd(k, NoArg) : k \in {"PatchAll", "UpdateWidevine", "Quit"}}
    \cup {Cmd("ToggleLaunchAtLogin", ~shown)}

\* The desktop's service calls the entry's own callback, on a thread of its own; the
\* other platforms' events name the entry and wait for the loop to pump them.
Click ==
    /\ backend # "headless" /\ pc # "stopped"
    /\ clicks < MaxClicks /\ clicks' = clicks + 1
    /\ \E c \in MenuLayout :
         \/ backend = "ksni" /\ queue' = Append(queue, c) /\ UNCHANGED events
         \/ backend = "pumped" /\ events' = Append(events, c) /\ UNCHANGED queue
    /\ UNCHANGED <<host, menu, pc, command, flow, touched, toast, changes>>

\* With nothing to do, the loop dispatches the platform's events: the entry an event
\* names is looked up among the routes.
PumpEvents ==
    /\ pc = "wait" /\ queue = <<>> /\ events # <<>>
    /\ queue' = <<Head(events)>> /\ events' = Tail(events)
    /\ UNCHANGED <<host, menu, pc, command, flow, touched, toast, clicks, changes>>

-----------------------------------------------------------------------------
(* The loop.                                                               *)

Receive ==
    /\ pc = "wait" /\ queue # <<>>
    /\ command' = Head(queue) /\ queue' = Tail(queue) /\ pc' = "work"
    /\ UNCHANGED <<host, menu, events, flow, touched, toast, clicks, changes>>

Fresh == command.kind = "UpdateWidevine"

\* A flow begins, over the given browsers.
BeginFlow(browsers) ==
    /\ over' = browsers /\ needs' = {} /\ failed' = {} /\ touched' = {}
    /\ toast' = Nil /\ pc' = "select"
    /\ UNCHANGED command

\* "Patch" is about the browsers the daemon found when it started.
PatchRequested ==
    /\ pc = "work"
    /\ \/ command.kind = "PatchAll" /\ BeginFlow(shared)
       \/ command.kind = "PatchOne" /\ BeginFlow(shared \cap {command.arg})
    /\ UNCHANGED <<host, menu, events, queue, clicks, changes>>

\* The vendor may have a newer CDM than the one silvervine knew of.
Heard == {cdm, [b \in Browser |-> IF cdm[b] = "current" THEN "outdated" ELSE cdm[b]]}

Failure ==
    /\ toast' = [kind |-> "failure"]
    /\ pc' = "wait" /\ command' = Nil
    /\ UNCHANGED <<flow, touched>>

\* An update fetches the CDM, and looks for the browsers again; either can fail.
UpdateWidevine ==
    /\ pc = "work" /\ Fresh
    /\ cdm' \in Heard
    /\ Failure \/ BeginFlow(Installed)
    /\ UNCHANGED <<login, menu, events, queue, clicks, changes>>

\* Mutant: the managed CDM is not compared with the one that was fetched.
SelectPatchActionUncompared(b) ==
    CASE cdm[b] \in {"outdated", "current"} -> "skip"
      [] cdm[b] = "foreign" -> "preserve"
      [] OTHER -> "patch"

\* Without a fetched CDM, whatever silvervine manages is left as it is.
SelectPatchAction(b) ==
    CASE cdm[b] = "current" \/ (cdm[b] = "outdated" /\ ~Fresh) -> "skip"
      [] cdm[b] = "foreign" -> "preserve"
      [] OTHER -> "patch"

Selected(action) == {b \in over : SelectPatchAction(b) = action}

\* What is left alone counts as a success, what is preserved does not.  Without a
\* patcher nothing succeeds, and the hook can forbid the patches.
Select ==
    /\ pc = "select" /\ pc' = "patch"
    /\ \/ needs' = Selected("patch") /\ failed' = Selected("preserve")
       \/ needs' = {} /\ failed' = Selected("patch") \cup Selected("preserve")
       \/ needs' = {} /\ failed' = over
    /\ UNCHANGED <<host, menu, events, queue, command, over, touched, toast, clicks, changes>>

\* One turn of the batch.  The CDM is fetched for it unless the update has brought it.
\* A failure may come after the publication.
Turn == \E b \in needs :
    /\ pc = "patch"
    /\ needs' = needs \ {b}
    /\ \E known \in (IF Fresh THEN {cdm} ELSE Heard) :
         \/ /\ known[b] \notin {"gone", "foreign"}
            /\ cdm' = [known EXCEPT ![b] = "current"]
            /\ failed' \in {failed, failed \cup {b}}
         \/ cdm' = known /\ failed' = failed \cup {b}
    /\ UNCHANGED <<login, menu, events, queue, pc, command, over, touched, toast, clicks, changes>>

\* summarize_patch_results: how many were patched, and which were not.
Summarize ==
    /\ pc = "patch" /\ needs = {}
    /\ toast' = [kind |-> "summary", over |-> over, failed |-> failed, fresh |-> Fresh]
    /\ pc' = "wait" /\ command' = Nil
    /\ UNCHANGED <<host, menu, events, queue, flow, touched, clicks, changes>>

Toggle ==
    /\ pc = "work" /\ command.kind = "ToggleLaunchAtLogin"
    /\ \/ login' = command.arg /\ toast' = [kind |-> "login", on |-> command.arg]
          /\ pc' = "wait" /\ command' = Nil /\ UNCHANGED <<flow, touched>>
       \/ Failure /\ UNCHANGED login
    /\ UNCHANGED <<cdm, menu, events, queue, clicks, changes>>

Quit ==
    /\ pc = "work" /\ command.kind = "Quit"
    /\ pc' = "stopped"
    /\ UNCHANGED <<host, menu, events, queue, command, flow, touched, toast, clicks, changes>>

-----------------------------------------------------------------------------
(* The others.                                                             *)

\* Browsers are installed, updated and removed, and patched from a terminal.
Elsewhere ==
    /\ changes < MaxChanges /\ changes' = changes + 1
    /\ \/ \E b \in Browser : \E what \in Cdms \ {cdm[b]} :
            /\ cdm' = [cdm EXCEPT ![b] = what]
            /\ touched' = touched \cup {b} /\ UNCHANGED login
       \/ login' = ~login /\ UNCHANGED <<cdm, touched>>
    /\ UNCHANGED <<menu, events, queue, pc, command, flow, toast, clicks>>

Loop ==
    \/ Receive \/ PumpEvents \/ PatchRequested \/ UpdateWidevine \/ Select
    \/ Turn \/ Summarize \/ Toggle \/ Quit
Next == Loop \/ Click \/ Elsewhere

Spec == Init /\ [][Next]_vars

-----------------------------------------------------------------------------
(* Properties.                                                             *)

Commands == {Cmd(k, NoArg) : k \in {"PatchAll", "UpdateWidevine", "Quit"}}
            \cup {Cmd("PatchOne", b) : b \in Browser}
            \cup {Cmd("ToggleLaunchAtLogin", v) : v \in BOOLEAN}

\* The variables' types.
TypeOK ==
    /\ backend \in {"ksni", "pumped", "headless"}
    /\ cdm \in [Browser -> Cdms] /\ login \in BOOLEAN /\ shown \in BOOLEAN
    /\ \A s \in {shared, over, needs, failed, touched} : s \subseteq Browser
    /\ events \in Seq(Commands) /\ queue \in Seq(Commands)
    /\ pc \in {"wait", "work", "select", "patch", "stopped"}
    /\ command \in Commands \cup {Nil}
    /\ toast.kind = "summary" => toast.over \subseteq Browser

\* What a success may be claimed of.
Served(b, fresh) == cdm[b] = "current" \/ (cdm[b] = "outdated" /\ ~fresh)

\* A notification that browsers are patched is true of every browser it is about that
\* it does not name as failed, unless somebody changed it since the flow began: its
\* CDM is silvervine's, and after an update it is the one that was fetched.  Another
\* browser was patched in between, and a newer CDM may have been found for it
\* (drive_patch_flow, summarize_patch_results).
ToastTrue ==
    toast.kind = "summary" =>
        \A b \in toast.over \ (toast.failed \cup touched) : Served(b, toast.fresh)

\* An update tells of every browser that is there, also of one installed since the
\* daemon started, unless it came while the update went on (handle_update_widevine).
UpdateCoversInstalled ==
    toast.kind = "summary" /\ toast.fresh => Installed \subseteq toast.over \cup touched

-----------------------------------------------------------------------------
(* The inductive invariant.                                                 *)

\* While a flow goes on: nothing is told, what was selected is known, and what was
\* neither put off nor failed is served.
FlowRight ==
    /\ pc \in {"select", "patch"} =>
         /\ toast = Nil /\ command.kind \in {"PatchAll", "PatchOne", "UpdateWidevine"}
         /\ Fresh => Installed \subseteq over \cup touched
    /\ pc = "patch" => \A b \in over \ (needs \cup failed \cup touched) : Served(b, Fresh)

IInv == TypeOK /\ FlowRight /\ ToastTrue /\ UpdateCoversInstalled
=============================================================================
