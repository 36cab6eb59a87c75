------------------------------ MODULE Archive ------------------------------
(***************************************************************************)
(* From the archive's bytes to files (src/src/widevine/crx3.rs, extract.rs *)
(* and the proof of cache/mod.rs): the varints and fields of the signature *)
(* envelope, the signed message built in the buffer that holds the         *)
(* archive, the entries vetted before anything is written and watched      *)
(* while they stream, and the files hashed against them.                   *)
(***************************************************************************)
EXTENDS Integers, Sequences, FiniteSets

CONSTANTS
    GroupBits,  \* payload bits of a varint byte (7)
    Width,      \* bits of the integer it is read into (64)
    Fixed,      \* bytes of the fixed CRX header (12)
    Context,    \* bytes of the signature context and length (20)
    MaxPart,    \* bound on the bytes of each part of a CRX
    Path,       \* normalized paths of the entries
    Library,    \* the path of the library
    Manifest,   \* the path of the root manifest
    MaxEntry,   \* limit on one entry (256 MiB)
    MaxTotal,   \* limit on all of them (512 MiB)
    MaxEntries  \* limit on their number (256)

\* The powers of two, and the sums of the first members of a sequence.
Pow[n \in Nat] == IF n = 0 THEN 1 ELSE 2 * Pow[n - 1]

Sums(f) ==
    LET sum[n \in Nat] == IF n = 0 THEN 0 ELSE sum[n - 1] + (IF n \in DOMAIN f THEN f[n] ELSE 0)
    IN sum

Byte == 0 .. 2 * Pow[GroupBits] - 1
MaxBytes == (Width + GroupBits - 1) \div GroupBits

VARIABLES
    job,      \* "varint", "fields", "message" or "zip"
    input,    \* what it is given
    pc,       \* where the extraction stands
    at,       \* the entry it is at
    written,  \* bytes written of it
    disk,     \* path -> entry and bytes on disk
    verdict   \* how the extraction ended

vars == <<job, input, pc, at, written, disk, verdict>>

Size == 0 .. MaxEntry + 1
Entry == [path : Path, kind : {"file", "dir", "link"}, declared : Size, actual : Size]
\* Streams of a file that is not what it declares are a byte off.
Entries == {e \in Entry : IF e.kind = "file" THEN e.actual - e.declared \in -1..1
                          ELSE e.declared = 0 /\ e.actual = 0}
\* A library and a manifest as they should be.
Package == <<[path |-> Library, kind |-> "file", declared |-> 1, actual |-> 1],
             [path |-> Manifest, kind |-> "file", declared |-> 1, actual |-> 1]>>
Field == {"pinned", "proof", "header", "other", "broken"}
Files == [Path -> (1..MaxEntries) \X Size \cup {<<>>}]

Init ==
    /\ pc = "vet" /\ at = 1 /\ written = 0
    /\ disk = [p \in Path |-> <<>>] /\ verdict = "none"
    /\ \/ job = "varint" /\ \E n \in 0 .. MaxBytes + 1 : input \in [1..n -> Byte]
       \/ job = "fields" /\ \E n \in 0..4 : input \in [1..n -> Field]
       \/ job = "message" /\ input \in [header : 0..MaxPart, signed : 0..MaxPart, archive : 0..MaxPart]
       \/ /\ job = "zip"
          /\ \/ \E n \in 1..2 : input \in [1..n -> Entries]
             \/ \E e, f \in Entries : input \in {<<e>> \o Package, Package \o <<e>>, Package \o <<e, f>>}

TypeOK ==
    /\ job \in {"varint", "fields", "message", "zip"}
    /\ pc \in {"vet", "open", "stream", "prove", "done"}
    /\ at \in 1 .. MaxEntries + 1 /\ written \in 0 .. MaxEntry + 1
    /\ disk \in Files /\ verdict \in {"none", "ok", "refused", "broken", "io"}

-----------------------------------------------------------------------------
(* The envelope.                                                           *)

Payload(b) == b % Pow[GroupBits]
Goes(b) == b >= Pow[GroupBits]

\* What the groups of each byte and those before it say.
Groups(bytes) == Sums([i \in DOMAIN bytes |-> Payload(bytes[i]) * Pow[GroupBits * (i - 1)]])

\* The bytes that end an integer: at most one.
Ending(bytes) == {i \in DOMAIN bytes : ~Goes(bytes[i]) /\ \A j \in 1 .. i - 1 : Goes(bytes[j])}

\* read_varint: groups of seven bits, the lowest first; the tenth byte has room
\* for the topmost bit alone and no successor. -1 stands for an error.
ReadVarint(bytes) ==
    LET end == Ending(bytes) \cap 1 .. MaxBytes
        last == CHOOSE i \in end : TRUE
        fits == last < MaxBytes \/ bytes[last] < Pow[Width - GroupBits * (MaxBytes - 1)]
    IN IF end = {} THEN -1 ELSE IF fits THEN Groups(bytes)[last] % Pow[Width] ELSE -1

Count(s, x) == Cardinality({i \in DOMAIN s : s[i] = x})

\* parse_signature_material: field by field, the first that is wrong decides.
Material(fields) ==
    LET wrong == {i \in DOMAIN fields :
                    LET before == SubSeq(fields, 1, i - 1) IN
                    \/ fields[i] = "broken"
                    \/ fields[i] \in {"pinned", "header"} /\ Count(before, fields[i]) > 0}
    IN IF wrong # {} \/ Count(fields, "header") = 0 THEN "malformed"
       ELSE IF Count(fields, "pinned") = 0 THEN "unauthenticated" ELSE "ok"

Part(name, n) == [i \in 1..n |-> <<name, i>>]

\* The bytes of a CRX: what of the header is signed comes last in it.
Crx(in) == Part("fixed", Fixed) \o Part("header", in.header)
           \o Part("signed", in.signed) \o Part("archive", in.archive)

\* copy_within, which may overlap.
CopyWithin(s, from, to) ==
    [i \in DOMAIN s |-> IF i > to /\ i - to + from <= Len(s) THEN s[i - to + from] ELSE s[i]]

\* authenticate_crx_with_key: the archive moves over the envelope, the buffer is
\* cut behind it, and the prefix is written before it.
Message(in) ==
    LET offset == Fixed + in.header + in.signed
        prefix == Context + in.signed
        moved == SubSeq(CopyWithin(Crx(in), offset, prefix), 1, prefix + in.archive)
    IN IF prefix > offset THEN <<>>
       ELSE Part("context", Context) \o Part("signed", in.signed) \o SubSeq(moved, prefix + 1, Len(moved))

-----------------------------------------------------------------------------
(* extract_zip_body.                                                       *)

Ends(result) == pc' = "done" /\ verdict' = result
Goto(there) == pc' = there /\ UNCHANGED verdict

Total(entries) == Sums([i \in DOMAIN entries |-> entries[i].declared])[Len(entries)]

\* What an entry may be, from the central directory alone.
Unfit(e) == e.kind = "link" \/ e.declared > MaxEntry

\* The two entries that are hashed have something in them, and what they declare.
Digestible(entries) ==
    \A p \in {Library, Manifest} :
        \E i \in DOMAIN entries :
            /\ entries[i].path = p /\ entries[i].kind = "file"
            /\ entries[i].declared > 0 /\ entries[i].actual = entries[i].declared

\* authenticated_payload_digests_from_zip and validate_archive_metadata.
Vetted(entries) ==
    /\ Len(entries) <= MaxEntries
    /\ \A i \in DOMAIN entries : ~Unfit(entries[i])
    /\ Total(entries) <= MaxTotal
    /\ \A i, j \in DOMAIN entries : entries[i].path = entries[j].path => i = j
    /\ Digestible(entries)

Vet ==
    /\ job = "zip" /\ pc = "vet"
    /\ IF Vetted(input) THEN Goto("open") ELSE Ends("refused")
    /\ UNCHANGED <<job, input, at, written, disk>>

NextEntry ==
    IF at < Len(input) THEN at' = at + 1 /\ Goto("open") ELSE UNCHANGED at /\ Goto("prove")

\* A directory is made, a file created; both are looked at again.
Open ==
    LET e == input[at] IN
    /\ job = "zip" /\ pc = "open" /\ written' = 0
    /\ \/ e.kind = "dir" /\ NextEntry /\ UNCHANGED disk
       \/ e.kind = "link" /\ Ends("broken") /\ UNCHANGED <<at, disk>>
       \/ e.kind = "file" /\ Goto("stream") /\ disk' = [disk EXCEPT ![e.path] = <<at, 0>>] /\ UNCHANGED at
    /\ UNCHANGED <<job, input>>

\* What streams is counted before it is written, and compared at its end.
Stream ==
    LET e == input[at] IN
    /\ job = "zip" /\ pc = "stream" /\ UNCHANGED <<job, input>>
    /\ IF written < e.actual
       THEN IF written + 1 > e.declared
            THEN Ends("broken") /\ UNCHANGED <<at, written, disk>>
            ELSE /\ written' = written + 1 /\ disk' = [disk EXCEPT ![e.path] = <<at, written'>>]
                 /\ UNCHANGED <<at, pc, verdict>>
       ELSE /\ IF written = e.declared THEN NextEntry ELSE Ends("broken") /\ UNCHANGED at
            /\ UNCHANGED <<written, disk>>

\* prove_extracted_matches_archive: size and digest of library and manifest.
Prove ==
    LET proved(p) == \E i \in DOMAIN input : input[i].path = p /\ disk[p] = <<i, input[i].declared>>
    IN /\ job = "zip" /\ pc = "prove"
       /\ IF proved(Library) /\ proved(Manifest) THEN Ends("ok") ELSE Ends("broken")
       /\ UNCHANGED <<job, input, at, written, disk>>

\* The disk is full, or the process is killed.
Fails ==
    /\ job = "zip" /\ pc \notin {"vet", "done"} /\ Ends("io")
    /\ UNCHANGED <<job, input, at, written, disk>>

\* Somebody else touches the staging directory.
Tamper(p) ==
    /\ job = "zip" /\ pc = "prove" /\ disk[p] # <<>> /\ disk' = [disk EXCEPT ![p] = <<>>]
    /\ UNCHANGED <<job, input, pc, at, written, verdict>>

Next == Vet \/ Open \/ Stream \/ Prove \/ Fails \/ \E p \in Path : Tamper(p)

Spec == Init /\ [][Next]_vars

-----------------------------------------------------------------------------
(* Properties.                                                             *)

\* A varint is read exactly as its groups say or not at all: never wrapped, never
\* cut off, and every integer of the width has an encoding that is read.
VarintExact ==
    job = "varint" =>
        LET ends == Ending(input)
            meant == IF ends = {} THEN -1 ELSE Groups(input)[CHOOSE i \in ends : TRUE]
            short == ends \subseteq 1 .. MaxBytes
        IN ReadVarint(input) = IF meant < Pow[Width] /\ short THEN meant ELSE -1

\* An envelope is accepted only with one proof of the pinned key and one signed
\* header, in whatever order its fields come.
Unambiguous ==
    job = "fields" /\ Material(input) = "ok" => Count(input, "pinned") = 1 /\ Count(input, "header") = 1

\* The message that is verified is the context, the signed header and the whole
\* archive, although it is built over the archive it is read from.
MessageWhole ==
    job = "message" =>
        \/ Message(input) = Part("context", Context) \o Part("signed", input.signed)
                              \o Part("archive", input.archive)
        \/ Message(input) = <<>> /\ Context > Fixed + input.header

\* An archive with one bad entry, or with too much in all, leaves nothing behind,
\* wherever in it that entry is.
RefusedUntouched ==
    job = "zip" /\ (Total(input) > MaxTotal \/ \E i \in DOMAIN input : Unfit(input[i])) =>
        \A p \in Path : disk[p] = <<>>

\* Bytes of an entry on disk.
OnDisk(i) ==
    LET d == disk[input[i].path] IN IF d = <<>> THEN 0 ELSE IF d[1] = i THEN d[2] ELSE 0

\* What is on disk is of the entries and never exceeds what was vetted, whatever the
\* streams yield.
WithinLimits ==
    job = "zip" =>
        /\ Sums([i \in DOMAIN input |-> OnDisk(i)])[Len(input)] <= MaxTotal
        /\ \A p \in Path : disk[p] # <<>> =>
              /\ disk[p][1] \in DOMAIN input /\ input[disk[p][1]].path = p
              /\ disk[p][2] <= input[disk[p][1]].declared

\* What is handed on has the library and the manifest of the archive, each the
\* only one of its name there and whole.
ProvedIsArchive ==
    verdict = "ok" =>
        \A p \in {Library, Manifest} :
            \E i \in DOMAIN input :
                /\ disk[p] = <<i, input[i].actual>>
                /\ \A j \in DOMAIN input : input[j].path = p => j = i
=============================================================================
