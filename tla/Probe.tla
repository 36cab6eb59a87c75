------------------------------- MODULE Probe -------------------------------
(***************************************************************************)
(* The live probe of a browser (src/eme/browser_probe.rs and probe.rs): a  *)
(* server on the loopback serves one page to the browser it launched,      *)
(* waits for the page's one result, assesses it, and answers the page and  *)
(* the command line with the same assessment.  The server takes one        *)
(* connection at a time, so whoever connects may hold it up: other pages   *)
(* of the browser, other programs, and the page reloaded by its user.      *)
(***************************************************************************)
EXTENDS Naturals, FiniteSetsExt, Sequences

CONSTANTS Timeout,      \* ticks the server waits for a result
          ReadLimit,    \* ticks one read may last
          Reads,        \* reads a slow client makes the server do
          MaxRequests,  \* connections accepted before the probe gives up
          MaxOpen       \* bound: connections opened

VARIABLES clock,     \* ticks since the server started to wait
          line,      \* connections not yet accepted
          current,   \* the request being served, or Nil
          limit,     \* ticks left to the current read
          requests,  \* connections accepted
          opened,    \* connections opened so far
          page,      \* "closed", "loaded", "posted", "gone": the probe's page
          answer,    \* the assessment on its way to the page, or Nil
          shown,     \* the assessment the page shows, or Nil
          end,       \* how the server ended: Waiting, or an error, or "result"
          outcome    \* the assessment the command line got, or Nil

vars == <<clock, line, current, limit, requests, opened, page, answer, shown, end, outcome>>

Nil == [kind |-> "none"]
Waiting == "waiting"

-----------------------------------------------------------------------------
(* The result and its assessment.                                          *)

\* "rejected" stands for an error too, "managed" for a component without a marker
\* that Silvervine knows, "missing" for an invalid marker too.
Baseline == {"supported", "rejected", "unavailable"}
Ownership == {"managed", "missing"}
Soft == {"soft", "softer"}
Required == Soft \cup {"hard"}
Row == [key : Required \cup {"foreign"}, accepted : BOOLEAN]
\* Mutant: the keys that occur are approved ones, and their number is not compared.
ApprovedRows(rows) == {r.key : r \in rows} \subseteq Required

\* The matrix has as many rows as there are keys, no foreign one and no key twice.
Complete(rows) == Cardinality(rows) = Cardinality(Required) /\ {r.key : r \in rows} = Required

\* The results the server accepts; the order of the rows tells nothing.
Raw == [api : BOOLEAN, baseline : Baseline, owner : Ownership,
        rows : {m \in UNION {kSubset(n, Row) : n \in 2..3} : Complete(m)},
        codec : {"mse", "optional", "none"}]

SoftAccepted(raw) == \E r \in raw.rows : r.key \in Soft /\ r.accepted

RequiredOk(raw) ==
    /\ raw.api
    /\ raw.baseline = "supported"
    /\ SoftAccepted(raw)
    /\ raw.codec = "mse"

Status(raw) ==
    CASE RequiredOk(raw) -> "pass"
      [] ~RequiredOk(raw) /\ (~raw.api \/ raw.baseline = "unavailable") -> "unavailable"
      [] OTHER -> "fail"

Domain(raw) ==
    IF /\ ~RequiredOk(raw)
       /\ raw.owner = "missing"
       /\ ~raw.api \/ raw.baseline # "supported"
    THEN "silvervine" ELSE "browser"

\* The status of the check made of one row of the matrix.
RungCheck(raw, row) ==
    CASE row.accepted -> "pass"
      [] ~row.accepted /\ row.key \in Soft /\ ~SoftAccepted(raw) -> "fail"
      [] OTHER -> "warn"

Checks(raw) ==
    [api |-> IF raw.api THEN "pass" ELSE "unavailable",
     baseline |-> CASE raw.baseline = "supported" -> "pass"
                    [] raw.baseline = "unavailable" -> "unavailable"
                    [] OTHER -> "fail",
     rungs |-> [row \in raw.rows |-> RungCheck(raw, row)],
     codec |-> IF raw.codec = "none" THEN "unavailable" ELSE "pass"]

Assess(raw) == [kind |-> "assessment", raw |-> raw, status |-> Status(raw),
                domain |-> Domain(raw), checks |-> Checks(raw)]

-----------------------------------------------------------------------------
(* The clients.                                                            *)

Init == /\ clock = 0 /\ line = <<>> /\ current = Nil /\ limit = 0 /\ requests = 0
        /\ opened = 0 /\ page = "closed" /\ answer = Nil /\ shown = Nil
        /\ end = Waiting /\ outcome = Nil

Connect(request) ==
    /\ end = Waiting /\ opened < MaxOpen
    /\ opened' = opened + 1
    /\ line' = Append(line, request)
    /\ UNCHANGED <<clock, current, limit, requests, answer, shown, end, outcome>>

Slow(left, each) == [kind |-> "slow", left |-> left, each |-> each]

\* What other clients send; all are answered with an error and the server goes on.
\* "other" is a request with another host, origin, content type, path or method,
\* too long, cut short or without a length.
Stranger == /\ \/ Connect([kind |-> "other"])
               \/ Connect(Slow(Reads, 0))
            /\ UNCHANGED page

\* The browser opens the page; its user may load it again.
Open == page \in {"closed", "loaded", "posted"} /\ Connect([kind |-> "page"]) /\ UNCHANGED page

\* The script posts its result; what is in it is looked at when it is served.
Post == /\ page = "loaded"
        /\ Connect([kind |-> "post"])
        /\ page' = "posted"

BrowserGone == /\ page # "gone" /\ page' = "gone"
               /\ UNCHANGED <<clock, line, current, limit, requests, opened, answer, shown, end, outcome>>

\* The page receives the answer and shows it.
Told == /\ answer # Nil /\ page # "gone"
        /\ shown' = answer /\ answer' = Nil
        /\ UNCHANGED <<clock, line, current, limit, requests, opened, page, end, outcome>>

-----------------------------------------------------------------------------
(* The server.                                                             *)

Ended(how) == /\ end' = how /\ line' = <<>> /\ current' = Nil
              /\ UNCHANGED <<clock, limit, requests, opened, page, answer, shown>>

\* The deadline is looked at between two requests only.
TimedOut == /\ end = Waiting /\ current = Nil /\ clock >= Timeout
            /\ Ended("timeout") /\ UNCHANGED outcome

Smaller(a, b) == IF a < b THEN a ELSE b

\* The time a read may last: never past the deadline as it was when the client came.
ReadTime == Smaller(Timeout - clock, ReadLimit)

Accept ==
    /\ end = Waiting /\ current = Nil /\ clock < Timeout /\ line # <<>>
    /\ requests' = requests + 1
    /\ IF requests + 1 > MaxRequests
       THEN /\ end' = "tooMany" /\ line' = <<>>
            /\ UNCHANGED <<current, limit>>
       ELSE /\ current' = IF Head(line).kind = "slow" THEN Slow(Reads, ReadTime) ELSE Head(line)
            /\ line' = Tail(line)
            /\ limit' = ReadTime
            /\ UNCHANGED end
    /\ UNCHANGED <<clock, opened, page, answer, shown, outcome>>

\* The deadline passes between the check and the timeout set from it: a zero
\* timeout is refused, and the probe ends.
AcceptLate ==
    /\ end = Waiting /\ current = Nil /\ clock + 1 = Timeout /\ line # <<>>
    /\ requests < MaxRequests
    /\ requests' = requests + 1 /\ clock' = Timeout
    /\ end' = "io" /\ line' = <<>>
    /\ UNCHANGED <<current, limit, opened, page, answer, shown, outcome>>

Answered == /\ current' = Nil
            /\ UNCHANGED <<clock, line, limit, requests, opened, shown>>

ServePage == /\ current.kind = "page" /\ end = Waiting
             /\ Answered
             /\ page' = IF page \in {"closed", "posted"} THEN "loaded" ELSE page
             /\ UNCHANGED <<answer, end, outcome>>

\* A request that is not the page's is answered with an error.
Reject == /\ current.kind = "other" /\ end = Waiting
          /\ Answered
          /\ UNCHANGED <<page, answer, end, outcome>>

\* The slow client sends a little, and the next read has its whole time again.
Drip == /\ current.kind = "slow" /\ end = Waiting /\ current.left > 1
        /\ current' = [current EXCEPT !.left = @ - 1]
        /\ limit' = current.each
        /\ UNCHANGED <<clock, line, requests, opened, page, answer, shown, end, outcome>>

\* The read times out; the request counts as malformed.
ReadTimesOut == /\ current.kind = "slow" /\ end = Waiting /\ limit = 0
                /\ Answered
                /\ UNCHANGED <<page, answer, end, outcome>>

\* A result of the page that does not parse or is not the whole matrix ends the probe.
BadResult == /\ end = Waiting
             /\ current.kind = "post"
             /\ Ended("malformed") /\ UNCHANGED outcome

\* The assessment is written to the page first; only then is it the outcome.
Result == /\ end = Waiting /\ current.kind = "post"
          /\ \E raw \in Raw : answer' = Assess(raw) /\ outcome' = Assess(raw)
          /\ end' = "result" /\ current' = Nil /\ line' = <<>>
          /\ UNCHANGED <<clock, limit, requests, opened, page, shown>>

\* The browser has gone before the assessment could be written.
ResultUnread == /\ end = Waiting /\ current.kind = "post" /\ page = "gone"
                /\ Ended("unread") /\ UNCHANGED outcome

\* Time passes while the server sleeps, or waits for a client that sends nothing.
Tick == /\ end = Waiting
        /\ \/ current = Nil /\ line = <<>> /\ clock < Timeout /\ UNCHANGED limit
           \/ current.kind = "slow" /\ limit > 0 /\ limit' = limit - 1
        /\ clock' = clock + 1
        /\ UNCHANGED <<line, current, requests, opened, page, answer, shown, end, outcome>>

Serve == TimedOut \/ Accept \/ AcceptLate \/ ServePage \/ Reject \/ Drip \/ ReadTimesOut
         \/ BadResult \/ Result \/ ResultUnread

Next == Stranger \/ Open \/ Post \/ BrowserGone \/ Told \/ Serve \/ Tick

Spec == Init /\ [][Next]_vars
-----------------------------------------------------------------------------

Ends == {Waiting, "timeout", "tooMany", "io", "malformed", "unread", "result"}
Request == [kind : {"other", "page", "post", "none"}]
           \cup [kind : {"slow"}, left : 0..Reads, each : 0..ReadLimit]

ServerTypeOK ==
    /\ clock \in Nat /\ limit \in 0..ReadLimit
    /\ requests \in 0..(MaxRequests + 1) /\ opened \in 0..MaxOpen
    /\ page \in {"closed", "loaded", "posted", "gone"} /\ end \in Ends

ClientTypeOK ==
    /\ Len(line) <= MaxOpen /\ \A i \in DOMAIN line : line[i] \in Request
    /\ current \in Request
    /\ \A a \in {answer, shown, outcome} \ {Nil} : a = Assess(a.raw)

\* A server that has ended serves nobody.
EndRight == end # Waiting => current = Nil

\* The variables' types.
TypeOK == ServerTypeOK /\ ClientTypeOK /\ EndRight

\* What the page shows is what the command line reports: an assessment is never
\* shown while the server goes on to accept another one (handle_result_post).
OneVerdict == shown # Nil => shown = outcome /\ end = "result"

\* Every required key has exactly one row in an accepted matrix: no rung is both
\* accepted and refused (validate_live_matrix).
MatrixExact ==
    outcome # Nil =>
        \A k \in Required : Cardinality({r \in outcome.raw.rows : r.key = k}) = 1

\* The assessment agrees with its own checks: a baseline that passed has no failed
\* check of the browser, whatever optional rungs were refused, and Silvervine is
\* blamed only where its component is not in place and the key system is not
\* granted (assess_with_baseline, select_domain, build_checks).
VerdictFits ==
    outcome # Nil =>
        /\ outcome.status = "pass" =>
             /\ outcome.checks.api = "pass" /\ outcome.checks.baseline = "pass"
             /\ outcome.checks.codec = "pass"
             /\ \A row \in outcome.raw.rows : outcome.checks.rungs[row] # "fail"
        /\ outcome.domain = "silvervine" =>
             outcome.status # "pass" /\ outcome.raw.owner # "managed"

\* A client that is not the page can delay the probe but not end it with a result
\* or with a malformed one (handle, handle_result_post).
StrangersEndNothing ==
    end = Waiting /\ end' \in {"result", "malformed", "unread"}
         => current.kind = "post"

\* The probe runs past its deadline by no more than the reads a slow client makes
\* it repeat (set_read_timeout in wait_for_result).
DeadlineHolds == clock <= Timeout + (Reads - 1) * ReadLimit

-----------------------------------------------------------------------------
(* The inductive invariant.                                                 *)

\* A slow client has no more time than the reads it has left, the current one included.
ClockRight ==
    /\ current.kind # "slow" => DeadlineHolds
    /\ current.kind = "slow" =>
          /\ current.left \in 1..Reads
          /\ clock + limit + (current.left - 1) * current.each <= Timeout + (Reads - 1) * ReadLimit

\* Whoever stands in line has connected, and the probe gives up in time.
LineRight == line \in Seq(Request) /\ Len(line) <= opened
CountRight == end = Waiting => requests <= MaxRequests

\* There is one assessment, of an accepted result.
AnswerRight == answer # Nil => answer = outcome /\ end = "result"
OutcomeRight == outcome # Nil => outcome.raw \in Raw /\ outcome = Assess(outcome.raw)

IInv == TypeOK /\ ClockRight /\ LineRight /\ CountRight /\ AnswerRight /\ OutcomeRight /\ OneVerdict
=============================================================================
