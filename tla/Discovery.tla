----------------------------- MODULE Discovery ------------------------------
(***************************************************************************)
(* Finding the browsers of the host (src/browsers/): the known ones, those *)
(* a walk of the installation roots comes upon, and those the user has     *)
(* configured, each listed under the path it was reached by; and the check *)
(* that a listed browser is not running, by the paths of the executables   *)
(* of the process table.  A root may be another name of a directory, and   *)
(* a directory may hold another name of one.                               *)
(***************************************************************************)
EXTENDS Naturals, Sequences, SequencesExt, FiniteSets

CONSTANTS N,         \* the directories are 1..N, each below one of a lower number or outside
          MaxDepth,  \* how far below a root the walk of Windows goes
          Known      \* the directories whose names are those of known browsers

VARIABLES os, parent, layout,    \* the host, where each directory is, what each looks like
          where, target,         \* the directory an alias is in, and the one it names
          roots,                 \* the roots that are walked, in order
          pc, pending, seen,     \* the walk: what is left of it, and what it has visited
          out                    \* what is listed

Dir == 1..N
Alias == N + 1
Node == Dir \cup {Alias}
Outside == 0

\* A path is the nodes it names, from a root on.
Path == UNION {[1..k -> Node] : k \in 1..(MaxDepth + 2)}
world == <<os, parent, layout, where, target, roots>>
vars == <<world, pc, pending, seen, out>>

Real(n) == IF n = Alias THEN target ELSE n
Leaf(p) == Real(Last(p))
Holder(n) == IF n = Alias THEN where ELSE parent[n]
Entries(d) == {n \in Node : Holder(n) = d}
Children(d) == {c \in Dir : parent[c] = d}

\* A directory and those above it: no set that has it, and with a directory the one
\* above, is without them.
Ancestors(d) ==
    {a \in Dir : \A s \in SUBSET Dir :
        d \in s /\ (\A c \in s : parent[c] \in s \cup {Outside}) => a \in s}
Below(d, top) == top \in Ancestors(d)

TypeOK ==
    /\ os \in {"linux", "macos", "windows"}
    /\ parent \in [Dir -> {Outside} \cup Dir] /\ layout \in [Dir -> {"none", "partial", "whole"}]
    /\ where \in {Outside} \cup Dir /\ target \in {Outside} \cup Dir
    /\ roots \in Seq(Node)
    /\ pc \in {"known", "walk", "custom", "done"}
    /\ pending \in Seq(Path)
    /\ seen \subseteq Dir
    /\ out \subseteq [path : Path, kind : {"known", "detected", "custom"}]

Init ==
    /\ os \in {"linux", "macos", "windows"}
    /\ parent \in {f \in [Dir -> {Outside} \cup Dir] : \A d \in Dir : f[d] < d}
    /\ layout \in [Dir -> {"none", "partial", "whole"}]
    /\ where \in {Outside, 1} /\ target \in {Outside} \cup Dir
    /\ roots \in {<<1>>, <<1, 2>>, <<2, 1>>} \cup
                 (IF os = "macos" THEN {} ELSE {<<Alias>>, <<1, Alias>>, <<Alias, 1>>})
    /\ pc = "known" /\ pending = <<>> /\ seen = {} /\ out = {}

-----------------------------------------------------------------------------
(* What is listed: the first entry of a path stays.                         *)

Listed(p) == \E e \in out : e.path = p

\* The entries of one search have paths of their own.
Push(entries) == out' = out \cup {e \in entries : ~Listed(e.path)}

Entry(p, kind) == [path |-> p, kind |-> kind]

\* On Windows an installation is a directory that holds both an executable of a
\* browser's name and its library, or whose Application directory (the last one) does.
\* It is listed by its canonical path.
Installation(d) ==
    IF d = Outside THEN {}
    ELSE IF layout[d] = "whole" THEN {d}
    ELSE {c \in Children(d) : c = N /\ layout[c] = "whole"}

Installations(p) == {Entry(<<d>>, "known") : d \in Installation(Leaf(p))}

-----------------------------------------------------------------------------
(* The known browsers.                                                      *)

Exists(r, k) == Real(r) # Outside /\ Holder(k) = Real(r)
Places(k) == {i \in DOMAIN roots : Exists(roots[i], k)}

\* Of the places of a known browser the first that exists is listed, whatever is there;
\* on Windows every one that is an installation.
KnownEntries(k) ==
    IF os = "windows" THEN UNION {Installations(<<roots[i], k>>) : i \in Places(k)}
    ELSE {Entry(<<roots[i], k>>, "known") :
            i \in {i \in Places(k) : \A j \in Places(k) : i <= j}}

FindKnown ==
    /\ pc = "known"
    /\ Push(UNION {KnownEntries(k) : k \in Known})
    /\ pc' = "walk"
    /\ pending' = [i \in DOMAIN roots |-> <<roots[i]>>]
    /\ UNCHANGED <<world, seen>>

-----------------------------------------------------------------------------
(* The walk of the roots.                                                   *)

\* What is found: the sandbox helper alone is some other application's.
Chromium(d) == layout[d] = "whole"

\* One level below each root, in the order of the roots; an alias of a directory is
\* followed, a root that is an alias of an earlier one is skipped (macOS has one root).
WalkUnix ==
    /\ os # "windows"
    /\ pc = "walk" /\ pending # <<>>
    /\ LET root == Head(pending)[1] IN
       /\ IF Real(root) = Outside \/ (os = "linux" /\ Real(root) \in seen)
          THEN UNCHANGED out
          ELSE Push({Entry(<<root, n>>, "detected") :
                        n \in {n \in Entries(Real(root)) :
                                  Real(n) # Outside /\ Chromium(Real(n))}})
       /\ seen' = seen \cup ({Real(root)} \ {Outside})
    /\ pending' = Tail(pending)
    /\ UNCHANGED <<world, pc>>

\* Down to MaxDepth, never below a browser, never into a directory twice; the entries of
\* a directory come in any order and aliases among them are not followed.
WalkWindows ==
    /\ os = "windows"
    /\ pc = "walk" /\ pending # <<>>
    /\ LET p == Last(pending)
           d == Leaf(p) IN
       IF d = Outside \/ d \in seen
       THEN pending' = Front(pending) /\ UNCHANGED <<seen, out>>
       ELSE /\ seen' = seen \cup {d}
            /\ IF Chromium(d)
               THEN Push({Entry(<<d>>, "detected")}) /\ pending' = Front(pending)
               ELSE /\ UNCHANGED out
                    /\ IF Len(p) > MaxDepth
                       THEN pending' = Front(pending)
                       ELSE \E order \in SetToSeqs(Children(d)) :
                               pending' = Front(pending) \o
                                          [i \in DOMAIN order |-> Append(p, order[i])]
    /\ UNCHANGED <<world, pc>>

WalkEnds ==
    /\ pc = "walk" /\ pending = <<>>
    /\ pc' = "custom"
    /\ UNCHANGED <<world, pending, seen, out>>

-----------------------------------------------------------------------------
(* The configured browsers.                                                 *)

\* Elsewhere than on Windows the path is taken as it is written.
Custom ==
    /\ pc = "custom"
    /\ \E n \in Node :
          Push(IF os # "windows" THEN {Entry(<<n>>, "custom")}
               ELSE {Entry(<<d>>, "custom") : d \in Installation(Real(n))})
    /\ pc' = "done"
    /\ UNCHANGED <<world, pending, seen>>

NoCustom ==
    /\ pc = "custom"
    /\ pc' = "done"
    /\ UNCHANGED <<world, pending, seen, out>>

Next == FindKnown \/ WalkUnix \/ WalkWindows \/ WalkEnds \/ Custom \/ NoCustom

Spec == Init /\ [][Next]_vars

-----------------------------------------------------------------------------
(* Whether a listed browser runs.                                           *)

\* The process table names an executable by its canonical path.  Windows compares it
\* with the canonical path of the browser, the other hosts with the path it is listed
\* under.
SeenRunning(p, d) ==
    /\ Leaf(p) # Outside
    /\ Below(d, Leaf(p))
    /\ os = "windows" \/ \A i \in DOMAIN p : p[i] # Alias

-----------------------------------------------------------------------------
(* Properties.                                                              *)

Nested == \E i, j \in DOMAIN roots :
    /\ Real(roots[i]) # Outside /\ Real(roots[j]) # Outside /\ Real(roots[i]) # Real(roots[j])
    /\ Below(Real(roots[i]), Real(roots[j]))

\* The directories between a root and one below it, both included.
Chain(d, root) == {c \in Ancestors(d) : Below(c, root)}

\* Whatever the order in which directories are read, every browser the walk is meant to
\* come upon is listed: one level below a root, on Windows MaxDepth levels but not
\* inside another browser, unless one root lies inside another
\* (discovery.rs:96-131, windows.rs:240-282).
Complete ==
    pc = "done" /\ ~(os = "windows" /\ Nested) =>
        \A i \in DOMAIN roots, d \in Dir :
            LET root == Real(roots[i]) IN
            /\ root # Outside /\ Chromium(d)
            /\ IF os = "windows"
               THEN /\ Below(d, root)
                    /\ \A c \in Chain(d, root) : c # d => ~Chromium(c)
                    /\ Cardinality(Chain(d, root)) <= MaxDepth + 1
               ELSE parent[d] = root
            => \E e \in out : Leaf(e.path) = d

\* A browser is listed once, also when two roots are the same directory, or a known
\* place is, unless an alias of its own or the configuration names it another way
\* (discovery.rs:101-105, 133-136, mod.rs:227-233).
ListedOnce ==
    \A e, f \in out :
        e # f /\ Leaf(e.path) = Leaf(f.path) /\ os # "macos"
        => os # "windows" /\ \E g \in {e, f} : Last(g.path) = Alias \/ g.kind = "custom"

\* "Returns `true` when this snapshot contains an executable below the browser
\* installation root" (discovery.rs:280-281).
RunningSeen ==
    pc = "done" =>
        \A e \in out, d \in Dir :
            Leaf(e.path) # Outside /\ Below(d, Leaf(e.path)) => SeenRunning(e.path, d)
=============================================================================
