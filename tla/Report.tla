------------------------------- MODULE Report -------------------------------
(***************************************************************************)
(* The cached report of a live probe (src/cli/test.rs, src/diagnostics/    *)
(* collect, src/diagnostics/store.rs, src/cli/doctor.rs).  The test takes  *)
(* the exact fingerprint of the browser and of every component it may      *)
(* load, launches the browser, takes the fingerprint again, and keeps the  *)
(* report only when both agree; the doctor takes the fingerprint once more *)
(* and shows the report only when it is the one the report was kept under. *)
(* Meanwhile browsers and components are updated, and the browser that     *)
(* answers may have been running since before.  A fingerprint has of every *)
(* file the digest the memo gives (module FileMemo): where a file of one   *)
(* length and second was hashed at its path before, the digest of that.    *)
(***************************************************************************)
EXTENDS Naturals, FiniteSets

CONSTANTS Profile,      \* profile directories of the user data directory
          MaxProfiles,  \* profile directories that are scanned (16)
          Build,        \* the bytes a browser or a component may have
          Absent,       \* no component
          Torn,         \* a component without a library or a version
          MaxChanges,   \* bound on the changes of the files
          MaxTests      \* bound on the tests

VARIABLES exe,      \* the browser's executable
          cdm,      \* the component at its target
          owner,    \* who put it there: "managed", "external", "missing"
          dir,      \* what each profile's entry is: "none", "dir" or "link"
          comp,     \* the component in each profile
          local,    \* the profiles the metadata names, or what cannot be parsed
          running,  \* the files the running browser was loaded from, or Nil
          pc,       \* where the test stands
          pre,      \* the fingerprint before the launch, or Nil
          half,     \* what a fingerprint being taken has of the components
          raw,      \* what the browser answered, and the files it was loaded from
          exit,     \* how the last test ended: "none", "ok", "failed", "error"
          temp,     \* whether a temporary report file is there
          report,   \* the report file
          doctor,   \* what the doctor shows, until another step is taken
          touched,  \* the files changed during the test, and whether one changed twice
          changes, tests

files == <<exe, cdm, owner, dir, comp, local>>
test == <<pc, pre, half, raw, exit>>
store == <<temp, report>>
vars == <<files, running, test, store, doctor, touched, changes, tests>>

Nil == [kind |-> "none"]

\* A file, and the digest the memo gives for it.
File == [bytes : Build, digest : Build]

Honest(f) == f.bytes = f.digest

Told(f) == IF f = Torn THEN Torn ELSE f.digest

ToldOf(entries) == {<<e[1], Told(e[2])>> : e \in entries}

-----------------------------------------------------------------------------
(* Collecting the components a browser may load.                           *)

Dirs == {p \in Profile : dir[p] = "dir"}
Named == local \cap Profile
Garbled == {"garbled"}

\* Every component the browser may load was looked at: the metadata parses, every
\* profile it names is there, no profile is a link, and there were not too many.
ScopeComplete ==
    /\ local # Garbled
    /\ Named \subseteq Dirs
    /\ \A p \in Profile : dir[p] # "link"
    /\ Cardinality(Dirs) <= MaxProfiles

\* The profiles that were looked at; where there are more than the limit, some.
Inspected == CHOOSE s \in SUBSET Dirs : Cardinality(s) = IF Cardinality(Dirs) <= MaxProfiles
                                                         THEN Cardinality(Dirs) ELSE MaxProfiles

AtTarget == {<<"target", cdm>> : x \in IF cdm = Absent THEN {} ELSE {1}}

\* The components that were found, each with where it is and its digest.
Entries == ToldOf(AtTarget \cup {<<p, comp[p]>> : p \in {q \in Inspected : comp[q] # Absent}})

\* An exact fingerprint needs one component at least, and the digest of each.
Exact(entries) == entries # {} /\ \A e \in entries : e[2] # Torn

\* The components' part of a fingerprint, or Nil.  There is none either while the
\* current component of the cache does not validate.
Components == IF ScopeComplete /\ Exact(Entries)
              THEN [kind |-> "components", entries |-> Entries]
              ELSE Nil

Fingerprint(components, e) ==
    IF components = Nil THEN Nil
    ELSE [kind |-> "fingerprint", exe |-> Told(e), entries |-> components.entries]

\* What a browser started now is loaded from.
Loaded == [kind |-> "loaded", exe |-> exe,
           entries |-> AtTarget
                       \cup {<<p, comp[p]>> : p \in {q \in Profile : dir[q] # "none" /\ comp[q] # Absent}}]

-----------------------------------------------------------------------------
(* The assessment, as far as this module tells results apart.              *)

Assess(plays, o) == [status |-> IF plays THEN "pass" ELSE "fail",
                     domain |-> IF ~plays /\ o # "managed" THEN "silvervine" ELSE "browser"]

-----------------------------------------------------------------------------
Untouched == [parts |-> {}, twice |-> FALSE]

Component == File \cup {Absent, Torn}

Init ==
    /\ exe = CHOOSE f \in File : Honest(f)
    /\ cdm \in {Absent, exe} /\ owner = IF cdm = Absent THEN "missing" ELSE "managed"
    /\ dir \in [Profile -> {"none", "dir"}]
    /\ comp \in [Profile -> {Absent, exe}]
    /\ \A p \in Profile : dir[p] = "none" => comp[p] = Absent
    /\ local = {}
    /\ running = Nil
    /\ pc = "idle" /\ pre = Nil /\ half = Nil /\ raw = Nil /\ exit = "none"
    /\ temp = FALSE /\ report \in {Nil, [kind |-> "unsafe"]}
    /\ doctor = Nil
    /\ touched = Untouched
    /\ changes = 0 /\ tests = 0

Changed(part) ==
    /\ changes < MaxChanges /\ changes' = changes + 1
    /\ touched' = IF pc = "idle" THEN touched
                  ELSE [parts |-> touched.parts \cup {part},
                        twice |-> touched.twice \/ part \in touched.parts]
    /\ UNCHANGED <<running, test, store, tests>>

\* The browser is updated; the running one keeps what it was loaded from.
UpdateBrowser == /\ exe' \in File \ {exe}
                 /\ Changed("exe")
                 /\ UNCHANGED <<cdm, owner, dir, comp, local>>

\* The component at the target is patched, replaced or removed.
ChangeTarget == /\ cdm' \in (File \cup {Absent}) \ {cdm}
                /\ owner' \in IF cdm' = Absent THEN {"missing"} ELSE {"managed", "external"}
                /\ Changed("target")
                /\ UNCHANGED <<exe, dir, comp, local>>

\* The marker is written or lost; the bytes stay.
ChangeOwner == /\ cdm # Absent /\ owner' \in {"managed", "external"} \ {owner}
               /\ Changed("owner")
               /\ UNCHANGED <<exe, cdm, dir, comp, local>>

\* The browser's own updater changes a component in a profile.  Of whatever is put
\* at a path the memo may have a digest already, and it may lose the one it has.
ChangeComponent(p) == /\ dir[p] # "none"
                      /\ comp' \in {[comp EXCEPT ![p] = c] : c \in Component \ {comp[p]}}
                      /\ Changed(p)
                      /\ UNCHANGED <<exe, cdm, owner, dir, local>>

\* A profile is made, or a link to one.
MakeProfile(p) == /\ dir[p] = "none" /\ dir' \in {[dir EXCEPT ![p] = d] : d \in {"dir", "link"}}
                  /\ Changed(p)
                  /\ UNCHANGED <<exe, cdm, owner, comp, local>>

\* The browser writes its profile metadata.
WriteLocal == /\ local' \in ({{}, Garbled} \cup {{p} : p \in Profile}) \ {local}
              /\ Changed("local")
              /\ UNCHANGED <<exe, cdm, owner, dir, comp>>

\* The user opens or closes the browser.
Browse == /\ running' = IF running = Nil THEN Loaded ELSE Nil
          /\ changes < MaxChanges /\ changes' = changes + 1
          /\ UNCHANGED <<files, test, store, touched, tests>>

-----------------------------------------------------------------------------
(* silvervine test.                                                        *)

Goes(from, to) == pc = from /\ pc' = to

Begin == /\ Goes("idle", "pre") /\ tests < MaxTests /\ tests' = tests + 1
         /\ half' \in {Components, Nil}
         /\ exit' = "none"
         /\ UNCHANGED <<files, running, pre, raw, store, touched, changes>>

\* The executable's digest is taken last.
PreTaken == /\ Goes("pre", "launch")
            /\ pre' = Fingerprint(half, exe)
            /\ UNCHANGED <<files, running, half, raw, exit, store, touched, changes, tests>>

\* The browser is launched; one that runs already opens the page instead.
Launch == /\ Goes("launch", "wait")
          /\ running' = IF running = Nil THEN Loaded ELSE running
          /\ raw' = [kind |-> "asked", warm |-> running # Nil, owner |-> owner]
          /\ UNCHANGED <<files, pre, half, exit, store, touched, changes, tests>>

\* The page posts its result (module Probe).
Answer == /\ Goes("wait", "answered") /\ running # Nil
          /\ \E plays \in BOOLEAN :
                raw' = [kind |-> "raw", plays |-> plays, seen |-> running,
                        warm |-> raw.warm, owner |-> raw.owner]
          /\ UNCHANGED <<files, running, pre, half, exit, store, touched, changes, tests>>

Stop(how) == /\ pc' = "idle" /\ exit' = how /\ pre' = Nil /\ half' = Nil /\ raw' = Nil
             /\ touched' = Untouched

\* No valid result came, or the browser could not be launched.
NoAnswer == /\ pc \in {"launch", "wait"} /\ Stop("error")
            /\ UNCHANGED <<files, running, store, changes, tests>>

PostHalf == /\ Goes("answered", "post")
            /\ half' \in {Components, Nil}
            /\ UNCHANGED <<files, running, pre, raw, exit, store, touched, changes, tests>>

\* The report is kept when the fingerprint was exact and is what it was.
Keeps(before, after) == before # Nil /\ after = before

ExitOf(r) == IF r.plays THEN "ok" ELSE "failed"

\* A target that is not a regular file is not written to.
PostTaken ==
    /\ pc = "post"
    /\ LET after == Fingerprint(half, exe) IN
       IF Keeps(pre, after) /\ report.kind # "unsafe"
       THEN /\ pc' = "write" /\ pre' = after
            /\ UNCHANGED <<half, raw, exit, touched>>
       ELSE Stop(ExitOf(raw))
    /\ UNCHANGED <<files, running, store, changes, tests>>

\* The temporary file, or the failure to write it; the report file is not touched.
WriteTemp ==
    /\ pc = "write"
    /\ \/ pc' = "rename" /\ temp' = TRUE /\ UNCHANGED <<pre, half, raw, exit, report, touched>>
       \/ Stop(ExitOf(raw)) /\ UNCHANGED <<temp, report>>
    /\ UNCHANGED <<files, running, changes, tests>>

\* The rename; where it fails the temporary file is removed.
Rename ==
    /\ pc = "rename" /\ temp' = FALSE
    /\ \/ report' = [kind |-> "report", fingerprint |-> pre, raw |-> raw,
                     assessment |-> Assess(raw.plays, raw.owner), twice |-> touched.twice]
       \/ UNCHANGED report
    /\ Stop(ExitOf(raw))
    /\ UNCHANGED <<files, running, changes, tests>>

\* The test is killed; its temporary file stays.
Killed == /\ pc # "idle" /\ Stop("none")
          /\ UNCHANGED <<files, running, store, changes, tests>>

-----------------------------------------------------------------------------
(* silvervine doctor --media-stack.                                        *)

\* A report that is shown is assessed again, with who owns the component now.
Review(r) == Assess(r.raw.plays, owner)

Hit(fp) == report.kind = "report" /\ fp # Nil /\ report.fingerprint = fp

\* Where it is not, the doctor names the reason and shows no evidence.
Examine ==
    /\ LET fp == Fingerprint(Components, exe) IN
       doctor' = IF Hit(fp)
                 THEN [kind |-> "hit", fingerprint |-> fp, raw |-> report.raw, twice |-> report.twice,
                       verdict |-> Review(report), owner |-> owner, there |-> Loaded]
                 ELSE Nil
    /\ UNCHANGED <<files, running, test, store, touched, changes, tests>>

-----------------------------------------------------------------------------
Files == UpdateBrowser \/ ChangeTarget \/ ChangeOwner \/ WriteLocal
         \/ \E p \in Profile : ChangeComponent(p) \/ MakeProfile(p)

Test == Begin \/ PreTaken \/ Launch \/ Answer \/ NoAnswer \/ PostHalf \/ PostTaken
        \/ WriteTemp \/ Rename \/ Killed

Next == ((Files \/ Browse \/ Test) /\ doctor' = Nil) \/ Examine

Spec == Init /\ [][Next]_vars

-----------------------------------------------------------------------------
IsFingerprint(f) == f = Nil \/ (f.kind = "fingerprint" /\ f.exe \in Build /\ Exact(f.entries))

\* Types; a fingerprint is exact, and what is being written was answered.
TypeOK ==
    /\ exe \in File /\ cdm \in File \cup {Absent} /\ owner \in {"managed", "external", "missing"}
    /\ dir \in [Profile -> {"none", "dir", "link"}] /\ comp \in [Profile -> Component]
    /\ pc \in {"idle", "pre", "launch", "wait", "answered", "post", "write", "rename"}
    /\ IsFingerprint(pre) /\ exit \in {"none", "ok", "failed", "error"}
    /\ pc \in {"answered", "post", "write", "rename"} => raw.kind = "raw"
    /\ pc \in {"write", "rename"} => pre # Nil

\* What the digests tell apart is the same.
Same(f, g) ==
    \/ f = g
    \/ Torn \notin {f, g} /\ (Honest(f) /\ Honest(g) => f.bytes = g.bytes)

Covers(seen, there) ==
    \A e \in seen : \E f \in there : f[1] = e[1] /\ Same(e[2], f[2])

\* What the doctor shows as exact evidence was reported by a browser loaded from
\* the very files that are there when it is shown: the executable, the component at
\* the target and every component of a profile, no more and no fewer.  Not so for a
\* browser that was already running when the test began, where a file changed twice
\* during the test, nor of a file of which the memo keeps the digest of another of
\* its length and second, as the test store.rs:800-820 wants it
\* (resolve_live_probe_identity, collect_browser_at, load_report).
HitIsExact ==
    doctor.kind = "hit" /\ ~doctor.raw.warm /\ ~doctor.twice =>
        /\ Same(doctor.raw.seen.exe, doctor.there.exe)
        /\ Covers(doctor.raw.seen.entries, doctor.there.entries)
        /\ Covers(doctor.there.entries, doctor.raw.seen.entries)

\* Who is blamed is who is to blame now, not who was when the browser was probed
\* (cache_hit).
BlameIsNow ==
    doctor.kind = "hit" /\ doctor.verdict.domain = "silvervine" =>
        doctor.verdict.status = "fail" /\ doctor.owner # "managed"

\* A kill or a failed write never leaves a part of a report where it is read
\* (atomic_write_report).
ReportWhole == report.kind # "part"

\* A report that cannot be kept never turns a passing test into a failing one, nor
\* the other way round (persist_report, run_automated).
ExitIsVerdict ==
    pc # "idle" /\ exit' \in {"ok", "failed"} =>
         raw.kind = "raw" /\ (exit' = "ok") = raw.plays
=============================================================================
