------------------------------ MODULE FileMemo ------------------------------
(***************************************************************************)
(* The digest memo (src/src/file_memo.rs): the SHA-512 of a CDM library or *)
(* of a browser's executable is kept on disk and reused for a file of the  *)
(* same canonical path, length and modification time in whole seconds,     *)
(* while packages, updaters and silvervine itself replace the file.        *)
(***************************************************************************)
EXTENDS Integers

CONSTANTS
    Reader,     \* processes that ask for the digest
    Content,    \* what the file may hold; a digest is the content it is of
    Length,     \* the length of each content
    Torn,       \* the digest of bytes of two contents
    None,       \* no memo, no digest
    MaxFile,    \* bound on how often a file is put at the path or written there
    MaxSecond   \* bound on the clock

File == 1..MaxFile
Second == 0..MaxSecond

VARIABLES
    now,     \* the clock
    made,    \* how often a file was put at the path or written there
    path,    \* the file at the path: the change that put it there
    data,    \* content and modification time of each
    memo,    \* the memo of the path: length, second and digest
    pc,      \* where each reader stands
    opened,  \* the file it has open
    stamp,   \* the length and second it observed
    read,    \* what it has read so far
    answer,  \* what it returned
    held,    \* history: the contents the path held during the call
    used,    \* history: the contents that had each length and second
    spoiled  \* history: the stamps of files that were written while they were hashed

vars == <<now, made, data, path, memo, pc, opened, stamp, read, answer, held, used, spoiled>>

Stamp == {Length[c] : c \in Content} \X Second
Digest == Content \cup {Torn, None}

TypeOK ==
    /\ now \in Second /\ made \in File /\ path \in 1..made
    /\ data \in [File -> Content \X Second]
    /\ memo \in [stamp : Stamp, digest : Digest \ {None}] \cup {None}
    /\ pc \in [Reader -> {"idle", "load", "begin", "finish", "store", "done"}]
    /\ opened \in [Reader -> File]
    /\ stamp \in [Reader -> Stamp]
    /\ read \in [Reader -> Digest] /\ answer \in [Reader -> Digest]
    /\ held \in [Reader -> SUBSET Content]
    /\ used \in [Stamp -> SUBSET Content] /\ spoiled \subseteq Stamp

StampOf(f) == <<Length[data[f][1]], data[f][2]>>

Init ==
    /\ now = 0 /\ made = 1 /\ path = 1
    /\ \E c \in Content :
          /\ data = [f \in File |-> <<c, 0>>]
          /\ used = [s \in Stamp |-> IF s = <<Length[c], 0>> THEN {c} ELSE {}]
          /\ stamp = [r \in Reader |-> <<Length[c], 0>>]
    /\ memo = None
    /\ pc = [r \in Reader |-> "idle"] /\ opened = [r \in Reader |-> 1]
    /\ read = [r \in Reader |-> None] /\ answer = [r \in Reader |-> None]
    /\ held = [r \in Reader |-> {}] /\ spoiled = {}

-----------------------------------------------------------------------------
World == <<now, made, data, path, held, used, spoiled>>
At(r, here, there) == pc[r] = here /\ pc' = [pc EXCEPT ![r] = there]

\* load_digest: the memo is for this length and this second.
Matches(m, s) == m # None /\ m.stamp = s

\* open_identity: one open, and the metadata of what was opened.
Open(r) ==
    /\ At(r, "idle", "load") \/ At(r, "done", "load")
    /\ opened' = [opened EXCEPT ![r] = path]
    /\ stamp' = [stamp EXCEPT ![r] = StampOf(path)]
    /\ held' = [held EXCEPT ![r] = {data[path][1]}]
    /\ read' = [read EXCEPT ![r] = None] /\ answer' = [answer EXCEPT ![r] = None]
    /\ UNCHANGED <<now, made, data, path, memo, used, spoiled>>

Load(r) ==
    /\ UNCHANGED <<World, memo, opened, stamp, read>>
    /\ \/ At(r, "load", "done") /\ Matches(memo, stamp[r])
          /\ answer' = [answer EXCEPT ![r] = memo.digest]
       \/ At(r, "load", "begin") /\ ~Matches(memo, stamp[r]) /\ UNCHANGED answer

\* sha512_reader: what is open is read through, not at once.
Begin(r) ==
    /\ At(r, "begin", "finish") /\ read' = [read EXCEPT ![r] = data[opened[r]][1]]
    /\ UNCHANGED <<World, memo, opened, stamp, answer>>

Finish(r) ==
    LET digest == IF read[r] = data[opened[r]][1] THEN read[r] ELSE Torn IN
    /\ At(r, "finish", "store") /\ read' = [read EXCEPT ![r] = digest]
    /\ UNCHANGED <<World, memo, opened, stamp, answer>>

\* store_digest replaces the memo in one rename. Its failure is ignored, and an
\* elevated patch child does not write at all.
Store(r) ==
    /\ At(r, "store", "done") /\ answer' = [answer EXCEPT ![r] = read[r]]
    /\ memo' \in {memo, [stamp |-> stamp[r], digest |-> read[r]]}
    /\ UNCHANGED <<World, opened, stamp, read>>

-----------------------------------------------------------------------------
(* The file.                                                               *)

Busy(r) == pc[r] \notin {"idle", "done"}
Readers == <<memo, pc, opened, stamp, read, answer>>

\* The path has content c, modified at second s.
Puts(c, s) ==
    /\ held' = [r \in Reader |-> IF Busy(r) THEN held[r] \cup {c} ELSE held[r]]
    /\ used' = [used EXCEPT ![<<Length[c], s>>] = @ \cup {c}]

\* A new file is renamed over it, now or with the time a package gives it.
Replace(c, s) ==
    /\ s <= now /\ made < MaxFile /\ made' = made + 1 /\ path' = made + 1
    /\ data' = [data EXCEPT ![made + 1] = <<c, s>>]
    /\ Puts(c, s)
    /\ UNCHANGED <<now, spoiled, Readers>>

\* It is written in place, also under a reader that has seen its length and second and
\* has not read it to the end.
Reading(r) == pc[r] \in {"load", "begin", "finish"}
Overwrite(c) ==
    /\ made < MaxFile /\ made' = made + 1
    /\ data[path] # <<c, now>> /\ data' = [data EXCEPT ![path] = <<c, now>>]
    /\ spoiled' = spoiled \cup {stamp[r] : r \in {q \in Reader : Reading(q) /\ opened[q] = path}}
    /\ Puts(c, now)
    /\ UNCHANGED <<now, path, Readers>>

Tick ==
    /\ now < MaxSecond /\ now' = now + 1
    /\ UNCHANGED <<made, data, path, held, used, spoiled, Readers>>

\* The cache is cleared, or what is in it cannot be read.
Clear == memo # None /\ memo' = None /\ UNCHANGED <<World, pc, opened, stamp, read, answer>>

Next ==
    \/ \E r \in Reader : Open(r) \/ Load(r) \/ Begin(r) \/ Finish(r) \/ Store(r)
    \/ \E c \in Content : Overwrite(c) \/ \E s \in Second : Replace(c, s)
    \/ Tick \/ Clear

Spec == Init /\ [][Next]_vars

-----------------------------------------------------------------------------
(* Properties.                                                             *)

\* A digest that is returned is of a content that had the length and second of the file
\* that was opened, and of one the path held during the call where no two contents had
\* them, however the calls overlap with each other and with replacements, also by files
\* older than the one they replace. Two contents of one length and second are not told
\* apart (file_memo.rs:336-353), and nothing is said of a file that is written while it
\* is hashed.
Fresh == \A r \in Reader :
    answer[r] # None /\ stamp[r] \notin spoiled =>
        /\ answer[r] \in used[stamp[r]]
        /\ used[stamp[r]] = {answer[r]} => answer[r] \in held[r]

\* So is the digest that is kept for as long as the length and the second are seen.
MemoTrue == memo # None /\ memo.stamp \notin spoiled => memo.digest \in used[memo.stamp]
=============================================================================
