------------------------------- MODULE Fetch -------------------------------
(***************************************************************************)
(* From the manifest to the archive (src/src/widevine/manifest.rs,         *)
(* download.rs and the origin rules of mod.rs): sources asked in order,    *)
(* redirects, aliases, the chain of download URLs, the archive kept from   *)
(* an earlier run, and its replacement by a verified temporary file.       *)
(***************************************************************************)
EXTENDS Naturals, Sequences, FiniteSets

CONSTANTS
    Key,          \* platform keys of the manifest
    Host,         \* the key of this machine
    Listed,       \* an entry, and the archive whose hash and size it gives
    Other,        \* bytes of another hash or size
    Nothing,      \* no entry, no archive
    Chain,        \* the URLs of the entry: "cdn" or "foreign"
    MaxHops,      \* lookups of resolve_platform_key (8)
    MaxRedirects, \* redirects that are followed (10)
    MaxRuns       \* bound on the runs

Official == {"official", "mirror"}
Origin == Official \cup {"custom", "local"}

VARIABLES
    sources,  \* the manifest's sources, in order
    pc,       \* where the run stands
    at,       \* the source or the URL it is at
    host,     \* who is being asked
    hops,     \* redirects, then aliases followed
    manifest, \* the platforms of the manifest it has, or Nothing
    key,      \* the platform it looks up
    file,     \* the archive kept under the hash's prefix: bytes and who put it there
    temp,     \* the private temporary file
    bytes,    \* what the run has in memory
    verdict,  \* how the run ended
    runs,     \* counter
    asked,    \* history of the run: the requests sent
    offered   \* history of the run: sources and URLs that had what was wanted

vars == <<sources, pc, at, host, hops, manifest, key, file, temp, bytes, verdict, runs, asked, offered>>

Platforms == [Key -> Key \cup {Listed, Nothing}]
Bytes == {Listed, Other, Nothing}
Verdict == {"none", "ok", "nowhere", "unsupported", "malformed", "network", "mismatch", "io", "killed"}

TypeOK ==
    /\ sources \in Seq(Origin)
    /\ pc \in {"source", "answer", "resolve", "kept", "url", "body", "verify", "persist", "done"}
    /\ at \in Nat \ {0} /\ host \in Origin \cup {"cdn"}
    /\ hops \in 0..MaxRedirects \cup 0..MaxHops
    /\ manifest \in Platforms \cup {Nothing} /\ key \in Key
    /\ file \in Bytes \X {"us", "others"} /\ temp \in Bytes /\ bytes \in Bytes
    /\ verdict \in Verdict /\ runs \in 1..MaxRuns
    /\ asked \subseteq (Origin \cup {"cdn"}) \X (Origin \cup {"cdn"})
    /\ offered \subseteq {"manifest", "archive"}

Init ==
    /\ sources \in {<<"official", "mirror">>, <<"custom">>, <<"local", "custom">>}
    /\ pc = "source" /\ at = 1 /\ host = sources[1] /\ hops = 0
    /\ manifest = Nothing /\ key = Host /\ file \in {<<Nothing, "others">>, <<Other, "others">>}
    /\ temp = Nothing /\ bytes = Nothing
    /\ verdict = "none" /\ runs = 1 /\ asked = {} /\ offered = {}

-----------------------------------------------------------------------------
(* fetch_manifest_with.                                                    *)

Goto(there) == pc' = there /\ UNCHANGED verdict
Ends(result) == pc' = "done" /\ verdict' = result
Network == <<sources, runs>>
Disk == <<file, temp>>

\* ensure_manifest_source_url: the fixed origins, or any that is not local.
Allowed(source) == source # "local"

\* manifest_redirect_policy.
Follows(source, target) ==
    IF source \in Official THEN target \in Official ELSE Allowed(target) /\ target = source

\* Every failure of a source leads to the next.
NextSource ==
    IF at < Len(sources)
    THEN at' = at + 1 /\ host' = sources[at + 1] /\ hops' = 0 /\ Goto("source")
    ELSE UNCHANGED <<at, host, hops>> /\ Ends("nowhere")

Ask ==
    /\ pc = "source" /\ UNCHANGED <<Network, manifest, key, Disk, bytes, offered>>
    /\ IF Allowed(sources[at])
       THEN Goto("answer") /\ asked' = asked \cup {<<sources[at], host>>} /\ UNCHANGED <<at, host, hops>>
       ELSE NextSource /\ UNCHANGED asked

Redirect(target) ==
    /\ pc = "answer" /\ UNCHANGED <<Network, manifest, key, Disk, bytes, offered>>
    /\ IF Follows(sources[at], target) /\ hops < MaxRedirects
       THEN /\ host' = target /\ asked' = asked \cup {<<sources[at], target>>}
            /\ hops' = hops + 1 /\ Goto("answer") /\ UNCHANGED at
       ELSE NextSource /\ UNCHANGED asked

\* No answer, a status, a body over the limit, or one that is not a manifest.
Refuse ==
    /\ pc = "answer" /\ NextSource
    /\ UNCHANGED <<Network, manifest, key, Disk, bytes, asked, offered>>

\* The first that parses is taken; the snapshot of it is never read.
Answer(platforms) ==
    /\ pc = "answer" /\ Goto("resolve") /\ manifest' = platforms
    /\ offered' = offered \cup {"manifest"} /\ key' = Host /\ hops' = 0
    /\ UNCHANGED <<Network, at, host, Disk, bytes, asked>>

\* resolve_platform_key: one turn of its loop, which follows MaxHops aliases.
Resolve ==
    /\ pc = "resolve"
    /\ \/ manifest[key] = Listed /\ Goto("kept") /\ UNCHANGED <<key, hops>>
       \/ manifest[key] = Nothing /\ Ends("unsupported") /\ UNCHANGED <<key, hops>>
       \/ /\ manifest[key] \in Key /\ key' = manifest[key] /\ hops' = hops + 1
          /\ IF hops' < MaxHops THEN Goto("resolve") ELSE Ends("malformed")
    /\ UNCHANGED <<Network, at, host, manifest, Disk, bytes, asked, offered>>

-----------------------------------------------------------------------------
(* download_verified.                                                      *)

\* What is kept is read and hashed; when it is not the listed archive, or cannot
\* be read, it goes, and when it cannot be removed the run ends.
Kept ==
    /\ pc = "kept" /\ at' = 1
    /\ \/ file[1] = Listed /\ bytes' = Listed /\ Ends("ok") /\ UNCHANGED file
       \/ file' = <<Nothing, "us">> /\ Goto("url") /\ UNCHANGED bytes
       \/ file[1] # Nothing /\ Ends("io") /\ UNCHANGED <<file, bytes>>
    /\ UNCHANGED <<Network, host, hops, manifest, key, temp, asked, offered>>

NextUrl ==
    /\ UNCHANGED <<Network, hops, manifest, key, file, bytes, offered>>
    /\ IF at < Len(Chain) THEN at' = at + 1 /\ Goto("url") ELSE UNCHANGED at /\ Ends("network")

\* A URL outside the fixed origins is passed over.
Pass == pc = "url" /\ Chain[at] = "foreign" /\ NextUrl /\ UNCHANGED <<host, temp, asked>>

\* One request, no redirects.
Get ==
    /\ pc = "url" /\ Chain[at] = "cdn"
    /\ host' = "cdn" /\ asked' = asked \cup {<<"cdn", "cdn">>} /\ Goto("body")
    /\ UNCHANGED <<Network, at, hops, manifest, key, Disk, bytes, offered>>

\* No answer, a status, a redirect, or a body that breaks off.
Unreachable == pc = "body" /\ NextUrl /\ temp' = Nothing /\ UNCHANGED <<host, asked>>

\* More than the limit, declared or sent, ends the chain; so does the disk.
Abort(why) ==
    /\ pc = "body" /\ temp' = Nothing /\ Ends(why)
    /\ UNCHANGED <<Network, at, host, hops, manifest, key, file, bytes, asked, offered>>

\* Mutant: the archive is put in place before it is verified.
BodyInPlace(b) ==
    /\ pc = "body" /\ temp' = b /\ Goto("verify") /\ file' = <<b, "us">>
    /\ offered' = IF b = Listed THEN offered \cup {"archive"} ELSE offered
    /\ UNCHANGED <<Network, at, host, hops, manifest, key, bytes, asked>>

Body(b) ==
    /\ pc = "body" /\ temp' = b /\ Goto("verify")
    /\ offered' = IF b = Listed THEN offered \cup {"archive"} ELSE offered
    /\ UNCHANGED <<Network, at, host, hops, manifest, key, file, bytes, asked>>

\* The open temporary file is read back; a wrong one ends the chain.
Verify ==
    /\ pc = "verify"
    /\ IF temp = Listed THEN bytes' = temp /\ Goto("persist") /\ UNCHANGED temp
       ELSE temp' = Nothing /\ Ends("mismatch") /\ UNCHANGED bytes
    /\ UNCHANGED <<Network, at, host, hops, manifest, key, file, asked, offered>>

Persist ==
    /\ pc = "persist" /\ temp' = Nothing
    /\ \/ file' = <<temp, "us">> /\ Ends("ok")
       \/ UNCHANGED file /\ Ends("io")
    /\ UNCHANGED <<Network, at, host, hops, manifest, key, bytes, asked, offered>>

-----------------------------------------------------------------------------
\* Killed anywhere; the temporary file stays and nobody looks at it again.
Killed ==
    /\ pc # "done" /\ runs < MaxRuns /\ Ends("killed")
    /\ UNCHANGED <<Network, at, host, hops, manifest, key, Disk, bytes, asked, offered>>

\* The next run knows the kept archive and nothing else.
Again ==
    /\ pc = "done" /\ runs < MaxRuns /\ runs' = runs + 1
    /\ pc' = "source" /\ verdict' = "none" /\ at' = 1 /\ host' = sources[1] /\ hops' = 0
    /\ manifest' = Nothing /\ key' = Host /\ temp' = Nothing /\ bytes' = Nothing
    /\ asked' = {} /\ offered' = {}
    /\ UNCHANGED <<sources, file>>

\* The cache is the user's.
Tamper(b) ==
    /\ file' = <<b, "others">> /\ file # file'
    /\ UNCHANGED <<Network, pc, at, host, hops, manifest, key, temp, bytes, verdict, asked, offered>>

Fetching ==
    \/ Ask \/ Refuse \/ Resolve
    \/ \E o \in Origin : Redirect(o)
    \/ \E p \in Platforms : Answer(p)

Downloading ==
    \/ Kept \/ Pass \/ Get \/ Unreachable \/ Verify \/ Persist
    \/ \E why \in {"mismatch", "io"} : Abort(why)
    \/ \E b \in {Listed, Other} : Body(b)

Next == Fetching \/ Downloading \/ Killed \/ Again \/ \E b \in Bytes : Tamper(b)

Spec == Init /\ [][Next]_vars

-----------------------------------------------------------------------------
(* Properties.                                                             *)

\* Wherever redirects lead, a chain that starts at Mozilla stays there, one that
\* starts elsewhere stays at that origin, and archives come from the CDN alone.
OriginsKept ==
    \A request \in asked :
        IF request[1] \in Official THEN request[2] \in Official ELSE request[2] = request[1]

\* What a run hands on is the archive listed by a manifest fetched in this run,
\* whatever becomes of the file it keeps, before, during or after.
DeliversListed == verdict = "ok" => bytes = Listed /\ "manifest" \in offered

\* A file that silvervine put under the hash's prefix is the listed archive,
\* after a kill and after a failure too.
KeptIsVerified == file[2] = "us" => file[1] \in {Listed, Nothing}

\* Reaches(p): following aliases from this machine's key meets an entry.
Trails == UNION {[1..n -> Key] : n \in 1..Cardinality(Key)}
Leads(p, trail) ==
    /\ trail[1] = Host /\ p[trail[Len(trail)]] = Listed
    /\ \A i \in 1..(Len(trail) - 1) : p[trail[i]] = trail[i + 1]
Reaches(p) == \E trail \in Trails : Leads(p, trail)

\* A run only gives up on what nobody offered: no manifest when no source had
\* one, no entry when no alias leads to one, no archive when no URL had it.
NoManifest == verdict = "nowhere" => "manifest" \notin offered /\ at = Len(sources)
NoEntry == verdict \in {"unsupported", "malformed"} => ~Reaches(manifest)
NoArchive ==
    /\ verdict \in {"network", "mismatch"} => "archive" \notin offered
    /\ verdict = "network" => at = Len(Chain)
GivesUpRightly == NoManifest /\ NoEntry /\ NoArchive

-----------------------------------------------------------------------------
(* The inductive invariant of the safety properties.                        *)

\* A request goes where the run stands in its list of sources.
SourceRight ==
    /\ Len(sources) # 0
    /\ pc \in {"source", "answer"} => at <= Len(sources) /\ offered = {}
    /\ pc = "source" => host = sources[at]

\* The run has a manifest, offers no archive until it has got one, and has not ended
\* before it is done.
ChainRight ==
    /\ pc \in {"resolve", "kept", "url", "body", "verify", "persist"} => "manifest" \in offered
    /\ pc \in {"resolve", "kept", "url", "body"} => "archive" \notin offered
    /\ pc \in {"url", "body"} => at <= Len(Chain)
    /\ pc # "done" => verdict = "none"

\* The private file is the archive that was offered, and verified before its use.
TempRight ==
    /\ pc = "verify" => ("archive" \in offered <=> temp = Listed)
    /\ pc = "persist" => temp = Listed /\ bytes = Listed

\* Every trail that leads from this machine's key to an entry passes through the key
\* that is looked up, as many aliases from its start as were followed.
OnTrail ==
    pc = "resolve" =>
        /\ hops < MaxHops /\ manifest \in Platforms
        /\ \A trail \in Trails :
              Leads(manifest, trail) => hops < Len(trail) /\ key = trail[hops + 1]

IInv == TypeOK /\ SourceRight /\ ChainRight /\ TempRight /\ OnTrail
        /\ OriginsKept /\ DeliversListed /\ KeptIsVerified /\ GivesUpRightly
=============================================================================
