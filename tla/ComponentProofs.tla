--------------------------- MODULE ComponentProofs ---------------------------
(***************************************************************************)
(* What the components of an installation promise, proved for every set of *)
(* versions, every number of operations, failures, kills and changes       *)
(* behind their back.  First the places that hold a component: the cache   *)
(* whose links select a version (CdmCache), the component of a browser on  *)
(* macOS (MacosPatcher) and on Windows (WindowsPatcher), and the cache     *)
(* where a file selects the version (Selection).  Then what they rely on   *)
(* and what is said of them: the digest memo (FileMemo), the ownership of  *)
(* a component (Provenance), the report of a test (Report), the removal of *)
(* the first version (Legacy), the vetting of a download (Archive) and the *)
(* list of the browsers of the host (Discovery).                           *)
(*                                                                         *)
(* The inductive invariant of the links says, for each step of an          *)
(* operation, what the steps before it have established: the staged tree   *)
(* is whole until it is published, what ensure publishes is whole until    *)
(* somebody else changes it, what rollback has checked agrees with its     *)
(* metadata likewise, and what prune has listed is named by no link.       *)
(***************************************************************************)
EXTENDS CdmCache, SequenceTheorems, FiniteSetTheorems, WellFoundedInduction, TLAPS

Types ==
    /\ entry \in [Version -> Contents \cup {None}]
    /\ staging \in [Version -> Contents \cup {None}]
    /\ current \in Version \cup {None}
    /\ previous \in Version \cup {None}
    /\ was \in Version \cup {None}
    /\ op = "ensure" => arg \in Version

\* What is left of a whole entry that only others may have changed.
Trusted(v) == entry[v] # None /\ (v \in intact => entry[v] = Whole)

Staged == op = "ensure" /\ step \in {"compare", "remove", "rename"} => staging[arg] = Whole

Published ==
    op = "ensure" /\ step \in {"unstage", "advance", "repoint", "ok"} => Trusted(arg)

Selected ==
    op = "ensure" =>
        /\ step \notin {"repoint", "ok", "failed", "stuck"} => current = was
        /\ step = "repoint" =>
             /\ previous = was
             /\ was # arg
             /\ was # None => entry[was] # None
        /\ step = "ok" =>
             /\ current = arg
             /\ was \notin {None, arg} => previous = was /\ entry[was] # None

\* What is left of an entry that agreed with its metadata.
Kept(v) == entry[v] # None /\ (v \in intact => Agrees(entry[v]))

Verified ==
    op = "rollback" =>
        /\ step \in {"verify", "exchange"} => current = was
        /\ step = "exchange" => previous # None /\ Kept(previous)
        /\ step = "ok" => current # None /\ Kept(current) /\ previous = was

Spared == doomed \cap {current, previous} = {} /\ (op # "prune" => doomed = {})

\* At no step but those of its own operation.
InStep ==
    /\ op = "none" => step = "idle"
    /\ op = "rollback" => step \in {"verify", "exchange", "ok", "failed", "stuck"}
    /\ op = "prune" => step \in {"list", "delete", "sweep", "ok", "failed", "stuck"}

CacheInv == Types /\ Staged /\ Published /\ Selected /\ Verified /\ Spared /\ InStep

\* The cache starts with no operation at work.
LEMMA CacheInvInit == ASSUME Init PROVE CacheInv
<1>1. Whole \in Contents /\ [Whole EXCEPT !.meta = "unusable"] \in Contents
  BY DEF Whole, Contents
<1>2. Types
  BY <1>1 DEF Init, Types
<1>3. QED
  BY <1>2 DEF Init, CacheInv, Staged, Published, Selected, Verified, Spared, InStep

\* Every step of an operation, every failure and every change from outside keeps
\* the invariant.
LEMMA CacheInvStep == ASSUME CacheInv, [Next]_vars PROVE CacheInv'
<1> USE ConstantsAssumption DEF links, control, history, At, Goto, Begin
<1>0. Whole \in Contents /\ Partial \in Contents
  BY DEF Whole, Partial, Contents
<1>1. ASSUME NEW v \in Version, EnsureBegin(v) PROVE CacheInv'
  BY <1>1 DEF EnsureBegin, CacheInv, Types, Staged, Published, Selected, Verified,
     Spared, InStep, Trusted, Kept
<1>2. CASE RollbackBegin
  BY <1>0, <1>2 DEF RollbackBegin, CacheInv, Types, Staged, Published, Selected,
     Verified, Spared, InStep, Trusted, Kept
<1>3. CASE PruneBegin
  BY <1>0, <1>3 DEF PruneBegin, CacheInv, Types, Staged, Published, Selected,
     Verified, Spared, InStep, Trusted, Kept
<1>4. CASE EnsureClearStaging
  BY <1>0, <1>4 DEF EnsureClearStaging, CacheInv, Types, Staged, Published, Selected,
     Verified, Spared, InStep, Trusted, Kept
<1>5. CASE EnsureDownload
  BY <1>0, <1>5 DEF EnsureDownload, CacheInv, Types, Staged, Published, Selected,
     Verified, Spared, InStep, Trusted, Kept
<1>6. CASE EnsureExtract
  BY <1>0, <1>6 DEF EnsureExtract, CacheInv, Types, Staged, Published, Selected,
     Verified, Spared, InStep, Trusted, Kept
<1>7. CASE EnsureCompare
  <2>1. /\ op = "ensure" /\ op' = op /\ step = "compare"
        /\ arg \in Version /\ arg' = arg
        /\ staging' = staging /\ current' = current /\ previous' = previous
        /\ was' = was /\ doomed' = doomed
        /\ \/ /\ entry' = [entry EXCEPT ![arg] = Whole]
              /\ step' = "unstage"
           \/ /\ entry' = entry /\ step' = "remove"
    BY <1>7 DEF EnsureCompare, CacheInv, Types
  <2>2. Types'
    BY <1>0, <2>1 DEF CacheInv, Types
  <2>3. Staged'
    BY <1>0, <2>1 DEF CacheInv, Staged
  <2>4. Published'
    BY <1>0, <2>1 DEF CacheInv, Types, Published, Trusted
  <2>5. Selected'
    BY <1>0, <2>1 DEF CacheInv, Selected
  <2>6. Verified'
    BY <1>0, <2>1 DEF CacheInv, Verified, Kept
  <2>7. Spared'
    BY <1>0, <2>1 DEF CacheInv, Spared
  <2>8. InStep'
    BY <1>0, <2>1 DEF CacheInv, InStep
  <2>9. QED
    BY <2>2, <2>3, <2>4, <2>5, <2>6, <2>7, <2>8 DEF CacheInv
<1>8. CASE EnsureUnstage
  BY <1>0, <1>8 DEF EnsureUnstage, CacheInv, Types, Staged, Published, Selected,
     Verified, Spared, InStep, Trusted, Kept
<1>9. CASE EnsureRemove
  BY <1>0, <1>9 DEF EnsureRemove, CacheInv, Types, Staged, Published, Selected,
     Verified, Spared, InStep, Trusted, Kept
<1>10. CASE EnsureRename
  <2>1. /\ op = "ensure" /\ op' = op /\ step = "rename" /\ step' = "advance"
        /\ arg \in Version /\ arg' = arg
        /\ entry' = [entry EXCEPT ![arg] = staging[arg]]
        /\ staging' = [staging EXCEPT ![arg] = None]
        /\ current' = current /\ previous' = previous
        /\ was' = was /\ doomed' = doomed
    BY <1>10 DEF EnsureRename, CacheInv, Types
  <2>2. Types'
    BY <1>0, <2>1 DEF CacheInv, Types
  <2>3. Staged'
    BY <1>0, <2>1 DEF CacheInv, Staged
  <2>4. Published'
    BY <1>0, <2>1 DEF CacheInv, Types, Staged, Published, Trusted
  <2>5. Selected'
    BY <1>0, <2>1 DEF CacheInv, Selected
  <2>6. Verified'
    BY <1>0, <2>1 DEF CacheInv, Verified, Kept
  <2>7. Spared'
    BY <1>0, <2>1 DEF CacheInv, Spared
  <2>8. InStep'
    BY <1>0, <2>1 DEF CacheInv, InStep
  <2>9. QED
    BY <2>2, <2>3, <2>4, <2>5, <2>6, <2>7, <2>8 DEF CacheInv
<1>11. CASE EnsureAdvance
  BY <1>0, <1>11 DEF EnsureAdvance, CacheInv, Types, Staged, Published, Selected,
     Verified, Spared, InStep, Trusted, Kept,
     Resolves
<1>12. CASE EnsureRepoint
  BY <1>0, <1>12 DEF EnsureRepoint, CacheInv, Types, Staged, Published, Selected,
     Verified, Spared, InStep, Trusted, Kept
<1>13. CASE RollbackVerify
  BY <1>0, <1>13 DEF RollbackVerify, CacheInv, Types, Staged, Published, Selected,
     Verified, Spared, InStep, Trusted, Kept,
     Resolves
<1>14. CASE RollbackExchange
  BY <1>0, <1>14 DEF RollbackExchange, CacheInv, Types, Staged, Published, Selected,
     Verified, Spared, InStep, Trusted, Kept,
     Resolves
<1>15. CASE PruneList
  BY <1>0, <1>15 DEF PruneList, CacheInv, Types, Staged, Published, Selected,
     Verified, Spared, InStep, Trusted, Kept,
     Expendable, Resolves
<1>16. CASE PruneDelete
  BY <1>0, <1>16 DEF PruneDelete, CacheInv, Types, Staged, Published, Selected,
     Verified, Spared, InStep, Trusted, Kept,
     First
<1>17. CASE PruneSweep
  BY <1>0, <1>17 DEF PruneSweep, CacheInv, Types, Staged, Published, Selected,
     Verified, Spared, InStep, Trusted, Kept
<1>18. CASE Return
  BY <1>0, <1>18 DEF Return, CacheInv, Types, Staged, Published, Selected, Verified,
     Spared, InStep, Trusted, Kept,
     End, Ended
<1>19. CASE Fail
  BY <1>0, <1>19 DEF Fail, Interrupted, PartlyStaged, PartlyRemoved, Ended, CacheInv,
     Types, Staged, Published, Selected, Verified, Spared, InStep, Trusted, Kept
<1>20. CASE Kill
  BY <1>0, <1>20 DEF Kill, End, Interrupted, PartlyStaged, PartlyRemoved, Ended,
     CacheInv, Types, Staged, Published, Selected, Verified, Spared, InStep, Trusted, Kept
<1>21. ASSUME NEW v \in Version, Drift(v) PROVE CacheInv'
  <2>1. /\ op' = op /\ step' = step /\ arg' = arg /\ doomed' = doomed
        /\ staging' = staging /\ current' = current /\ previous' = previous
        /\ was' = was /\ intact' = intact \ {v} /\ entry[v] # None
    BY <1>21 DEF Drift
  <2>2. PICK c \in Changed(entry[v]) : entry' = [entry EXCEPT ![v] = c]
    BY <1>21 DEF Drift
  <2>3. c \in Contents
    BY <2>1, <2>2 DEF CacheInv, Types, Contents, Changed
  <2>4. c # None
    BY <2>3
  <2>5. Types'
    BY <2>1, <2>2, <2>3, <2>4 DEF CacheInv, Types
  <2>6. Staged'
    BY <2>1, <2>2, <2>3, <2>4 DEF CacheInv, Staged
  <2>7. Published'
    BY <2>1, <2>2, <2>3, <2>4 DEF CacheInv, Published, Trusted
  <2>8. Selected'
    BY <2>1, <2>2, <2>3, <2>4 DEF CacheInv, Selected
  <2>9. Verified'
    BY <2>1, <2>2, <2>3, <2>4 DEF CacheInv, Verified, Kept
  <2>10. Spared'
    BY <2>1, <2>2, <2>3, <2>4 DEF CacheInv, Spared
  <2>11. InStep'
    BY <2>1, <2>2, <2>3, <2>4 DEF CacheInv, InStep
  <2>12. QED
    BY <2>5, <2>6, <2>7, <2>8, <2>9, <2>10, <2>11 DEF CacheInv
<1>22. CASE UNCHANGED vars
  BY <1>22 DEF vars, CacheInv, Types, Staged, Published, Selected, Verified, Spared,
     InStep, Trusted, Kept
<1>23. QED
  BY <1>1, <1>2, <1>3, <1>4, <1>5, <1>6, <1>7, <1>8, <1>9, <1>10, <1>11, <1>12,
     <1>13, <1>14, <1>15, <1>16, <1>17, <1>18, <1>19, <1>20, <1>21, <1>22
     DEF Next, Work, Ensure, Rollback, Prune

\* The invariant holds in every reachable state.
LEMMA CacheInvAlways == Spec => []CacheInv
  BY CacheInvInit, CacheInvStep, PTL DEF Spec

\* Whatever is interrupted, fails or is changed from outside, a successful ensure
\* has selected the version asked for, with the vendor's payload and metadata.
THEOREM EnsureAlwaysDelivers == Spec => []EnsureDelivers
<1>1. CacheInv => EnsureDelivers
  BY DEF CacheInv, Published, Selected, Trusted, EnsureDelivers, At
<1>2. QED
  BY <1>1, CacheInvAlways, PTL

\* ... and has left the version it displaced as the one to roll back to.
THEOREM AdvanceAlwaysKeepsFallback == Spec => []AdvanceKeepsFallback
<1>1. CacheInv => AdvanceKeepsFallback
  BY DEF CacheInv, Selected, AdvanceKeepsFallback, At
<1>2. QED
  BY <1>1, CacheInvAlways, PTL

\* A successful rollback has selected what it has checked against its metadata, and can be
\* taken back by another.
THEOREM RollbackAlwaysVerified == Spec => []RollbackSelectsVerified
<1>1. CacheInv => RollbackSelectsVerified
  BY DEF CacheInv, Verified, Kept, RollbackSelectsVerified, At
<1>2. QED
  BY <1>1, CacheInvAlways, PTL

\* A step makes a link dangle only where ensure replaces the version it names:
\* what prune deletes is listed, and what is listed is named by no link.
LEMMA LinkStep ==
    ASSUME CacheInv, [Next]_vars,
           NEW l \in {current', previous'} \ {None}, entry'[l] = None
    PROVE  \/ l \in {current, previous} /\ entry[l] = None
           \/ op = "ensure" /\ arg = l
<1> USE ConstantsAssumption
<1> DEFINE Dangled == \/ l \in {current, previous} /\ entry[l] = None
                      \/ op = "ensure" /\ arg = l
<1>0. Partial # None /\ Whole # None
  BY DEF Partial, Whole, Contents
<1>1. CASE entry' = entry /\ links' = links
  BY <1>1 DEF links
<1>2. CASE \E v \in Version : EnsureBegin(v)
  BY <1>1, <1>2 DEF EnsureBegin, links
<1>3. CASE Ensure
  <2>1. CASE EnsureCompare \/ EnsureRemove \/ EnsureRename
    BY <2>1, <1>0 DEF EnsureCompare, EnsureRemove, EnsureRename, At, Goto, links,
       CacheInv, Types
  <2>2. CASE EnsureAdvance
    BY <2>2 DEF EnsureAdvance, Resolves
  <2>3. CASE EnsureRepoint
    BY <2>3 DEF EnsureRepoint, At
  <2>4. QED
    BY <1>1, <1>3, <2>1, <2>2, <2>3
       DEF Ensure, EnsureClearStaging, EnsureDownload, EnsureExtract, EnsureUnstage
<1>4. CASE Rollback
  BY <1>1, <1>4 DEF Rollback, RollbackVerify, RollbackExchange, Resolves, At, links
<1>5. CASE Prune
  <2>1. CASE PruneDelete
    BY <1>1, <2>1 DEF PruneDelete, First, At, links, CacheInv, Spared, Types
  <2>2. QED
    BY <1>1, <1>5, <2>1 DEF Prune, PruneList, PruneSweep
<1>6. CASE Fail \/ Kill
  BY <1>0, <1>1, <1>6 DEF Fail, Kill, Interrupted, PartlyStaged, PartlyRemoved,
     links, CacheInv, Types
<1>7. ASSUME NEW v \in Version, Drift(v) PROVE Dangled
  BY <1>7 DEF Drift, Changed, Contents, links, CacheInv, Types
<1>8. QED
  BY <1>1, <1>2, <1>3, <1>4, <1>5, <1>6, <1>7
     DEF Next, Work, RollbackBegin, PruneBegin, Return, vars

\* Neither prune nor any change of the links makes a link dangle: only a killed or
\* failed replacement of the version a link names does.
THEOREM LinksAlwaysResolve == Spec => LinksResolve
<1>1. CacheInv /\ [Next]_vars =>
        [\A l \in {current', previous'} \ {None} :
           entry'[l] = None =>
              \/ l \in {current, previous} /\ entry[l] = None
              \/ op = "ensure" /\ arg = l]_vars
  BY LinkStep
<1>2. QED
  BY <1>1, CacheInvAlways, PTL DEF Spec, LinksResolve

(***************************************************************************)
(* The types, with the listing of the directories in step with them.       *)
(***************************************************************************)

\* A listing without one of its entries.
LEMMA Taken ==
  ASSUME NEW S, NEW s \in Seq(S), IsInjective(s), NEW k \in DOMAIN s
  PROVE  /\ RemoveAt(s, k) \in Seq(S) /\ IsInjective(RemoveAt(s, k))
         /\ Range(RemoveAt(s, k)) = Range(s) \ {s[k]}
<1> DEFINE a == SubSeq(s, 1, k - 1)
           b == SubSeq(s, k + 1, Len(s))
           r == a \o b
<1>0. Len(s) \in Nat /\ k \in 1..Len(s) /\ DOMAIN s = 1..Len(s) /\ \A i \in 1..Len(s) : s[i] \in S
  OBVIOUS
<1>1. a \in Seq(S) /\ Len(a) = k - 1 /\ \A i \in 1..(k - 1) : a[i] = s[i]
  <2>1. /\ SubSeq(s, 1, k - 1) \in Seq(S)
        /\ Len(SubSeq(s, 1, k - 1)) = IF 1 <= k - 1 THEN (k - 1) - 1 + 1 ELSE 0
        /\ \A i \in 1..((k - 1) - 1 + 1) : SubSeq(s, 1, k - 1)[i] = s[1 + i - 1]
    BY <1>0, SubSeqProperties
  <2> QED
    BY <1>0, <2>1
<1>2. b \in Seq(S) /\ Len(b) = Len(s) - k /\ \A i \in 1..(Len(s) - k) : b[i] = s[k + i]
  <2>1. /\ SubSeq(s, k + 1, Len(s)) \in Seq(S)
        /\ Len(SubSeq(s, k + 1, Len(s))) = IF k + 1 <= Len(s) THEN Len(s) - (k + 1) + 1 ELSE 0
        /\ \A i \in 1..(Len(s) - (k + 1) + 1) : SubSeq(s, k + 1, Len(s))[i] = s[k + 1 + i - 1]
    BY <1>0, SubSeqProperties
  <2> QED
    BY <1>0, <2>1
<1> HIDE DEF a, b
<1>3. /\ r \in Seq(S) /\ Len(r) = Len(s) - 1
      /\ \A i \in 1..(Len(s) - 1) : r[i] = IF i < k THEN s[i] ELSE s[i + 1]
  <2>1. /\ a \o b \in Seq(S) /\ Len(a \o b) = Len(a) + Len(b)
        /\ \A i \in 1..(Len(a) + Len(b)) : (a \o b)[i] = IF i <= Len(a) THEN a[i] ELSE b[i - Len(a)]
    BY <1>1, <1>2, ConcatProperties
  <2>2. Len(a) = k - 1 /\ Len(b) = Len(s) - k /\ Len(r) = Len(s) - 1 /\ r \in Seq(S)
    BY <1>0, <1>1, <1>2, <2>1
  <2>3. ASSUME NEW i \in 1..(Len(s) - 1) PROVE r[i] = IF i < k THEN s[i] ELSE s[i + 1]
    <3>1. r[i] = IF i <= k - 1 THEN a[i] ELSE b[i - (k - 1)]
      BY <1>0, <2>1, <2>2, <2>3
    <3>2. CASE i < k
      BY <1>0, <1>1, <2>3, <3>1, <3>2
    <3>3. CASE ~(i < k)
      <4>1. i - (k - 1) \in 1..(Len(s) - k) /\ k + (i - (k - 1)) = i + 1 /\ ~(i <= k - 1)
        BY <1>0, <2>3, <3>3
      <4> QED
        BY <1>2, <3>1, <3>3, <4>1
    <3> QED
      BY <3>2, <3>3
  <2> QED
    BY <2>2, <2>3
<1>4. RemoveAt(s, k) = r
  BY DEF RemoveAt, a, b
<1> HIDE DEF r
<1>5. DOMAIN r = 1..(Len(s) - 1)
  BY <1>3
<1>6. IsInjective(r)
  BY <1>0, <1>3, <1>5 DEF IsInjective
<1>7. Range(r) = Range(s) \ {s[k]}
  <2>1. ASSUME NEW i \in DOMAIN r PROVE r[i] \in Range(s) \ {s[k]}
    BY <1>0, <1>3, <1>5, <2>1 DEF Range, IsInjective
  <2>2. ASSUME NEW i \in DOMAIN s, i # k PROVE s[i] \in Range(r)
    <3>1. CASE i < k
      BY <1>0, <1>3, <1>5, <2>2, <3>1 DEF Range
    <3>2. CASE i > k
      <4>1. i - 1 \in DOMAIN r /\ r[i - 1] = s[i]
        BY <1>0, <1>3, <1>5, <2>2, <3>2
      <4> QED
        BY <4>1 DEF Range
    <3> QED
      BY <1>0, <2>2, <3>1, <3>2
  <2> QED
    BY <2>1, <2>2 DEF Range
<1> QED
  BY <1>3, <1>4, <1>6, <1>7

\* A listing with a new first entry.
LEMMA Headed ==
  ASSUME NEW S, NEW s \in Seq(S), IsInjective(s), NEW v \in S, v \notin Range(s)
  PROVE  /\ <<v>> \o s \in Seq(S) /\ IsInjective(<<v>> \o s)
         /\ Range(<<v>> \o s) = Range(s) \cup {v}
<1> DEFINE r == <<v>> \o s
<1>0. Len(s) \in Nat /\ DOMAIN s = 1..Len(s) /\ \A i \in 1..Len(s) : s[i] \in S
  OBVIOUS
<1>1. /\ r \in Seq(S) /\ Len(r) = Len(s) + 1
      /\ \A i \in 1..(Len(s) + 1) : r[i] = IF i = 1 THEN v ELSE s[i - 1]
  <2>1. <<v>> \in Seq(S) /\ Len(<<v>>) = 1 /\ <<v>>[1] = v
    OBVIOUS
  <2>2. /\ <<v>> \o s \in Seq(S) /\ Len(<<v>> \o s) = Len(<<v>>) + Len(s)
        /\ \A i \in 1..(Len(<<v>>) + Len(s)) :
              (<<v>> \o s)[i] = IF i <= Len(<<v>>) THEN <<v>>[i] ELSE s[i - Len(<<v>>)]
    BY <2>1, ConcatProperties
  <2> QED
    BY <1>0, <2>1, <2>2
<1> HIDE DEF r
<1>2. DOMAIN r = 1..(Len(s) + 1)
  BY <1>0, <1>1
<1>3. IsInjective(r)
  <2>1. \A i \in 1..Len(s) : s[i] # v
    BY <1>0 DEF Range
  <2>2. ASSUME NEW i \in DOMAIN r, NEW j \in DOMAIN r, r[i] = r[j] PROVE i = j
    <3>1. CASE i = 1 \/ j = 1
      BY <1>0, <1>1, <1>2, <2>1, <2>2, <3>1
    <3>2. CASE i # 1 /\ j # 1
      <4>1. /\ i - 1 \in 1..Len(s) /\ j - 1 \in 1..Len(s) /\ s[i - 1] = s[j - 1]
            /\ (i - 1 = j - 1 => i = j)
        BY <1>0, <1>1, <1>2, <2>2, <3>2
      <4> QED
        BY <1>0, <4>1 DEF IsInjective
    <3> QED
      BY <3>1, <3>2
  <2> QED
    BY <2>2 DEF IsInjective
<1>4. Range(r) = Range(s) \cup {v}
  <2>1. ASSUME NEW i \in DOMAIN r PROVE r[i] \in Range(s) \cup {v}
    BY <1>0, <1>1, <1>2, <2>1 DEF Range
  <2>2. ASSUME NEW i \in DOMAIN s PROVE s[i] \in Range(r)
    <3>1. i + 1 \in DOMAIN r /\ r[i + 1] = s[i]
      BY <1>0, <1>1, <1>2, <2>2
    <3> QED
      BY <3>1 DEF Range
  <2>3. v \in Range(r)
    <3>1. 1 \in DOMAIN r /\ r[1] = v
      BY <1>0, <1>1, <1>2
    <3> QED
      BY <3>1 DEF Range
  <2> QED
    BY <2>1, <2>2, <2>3 DEF Range
<1> QED
  BY <1>1, <1>3, <1>4 DEF r

Listing == order \in Seq(Version) /\ IsInjective(order)

LEMMA ForgetLists ==
  ASSUME Listing, NEW v \in Version
  PROVE  /\ Forget(v) \in Seq(Version) /\ IsInjective(Forget(v))
         /\ Range(Forget(v)) = Range(order) \ {v}
<1>1. CASE v \in Range(order)
  <2> DEFINE k == CHOOSE i \in DOMAIN order : order[i] = v
  <2>1. k \in DOMAIN order /\ order[k] = v
    BY <1>1 DEF Range
  <2>2. Forget(v) = RemoveAt(order, k)
    BY <1>1 DEF Forget
  <2> HIDE DEF k
  <2> QED
    BY <2>1, <2>2, Taken DEF Listing
<1>2. CASE v \notin Range(order)
  BY <1>2 DEF Forget, Listing
<1> QED
  BY <1>1, <1>2

LEMMA TouchLists ==
  ASSUME Listing, NEW v \in Version
  PROVE  /\ Touch(v) \in Seq(Version) /\ IsInjective(Touch(v))
         /\ Range(Touch(v)) = Range(order) \cup {v}
BY ForgetLists, Headed DEF Touch

\* The listing names the directories that are there.
Listed == Listing /\ Range(order) = {v \in Version : entry[v] # None}

\* What prune comes upon first is one of the versions it removes, and is there.
LEMMA First1 ==
  ASSUME Listed, NEW v \in First(doomed)
  PROVE  v \in doomed /\ v \in Version /\ entry[v] # None
<1>1. PICK i \in DOMAIN order : order[i] = v
  BY DEF First
<1>2. v \in Range(order)
  BY <1>1 DEF Range
<1> QED
  BY <1>2 DEF First, Listed

\* What a step does to the directories it does to the listing.
LEMMA ListedStep ==
  ASSUME CacheInv, CacheInv', Listed, [Next]_vars
  PROVE  Listed'
<1> USE ConstantsAssumption DEF At, Goto
<1>0. Whole # None /\ Partial # None
  BY DEF Whole, Partial, Contents
<1>t. entry \in [Version -> Contents \cup {None}] /\ (op = "ensure" => arg \in Version)
  BY DEF CacheInv, Types
<1>1. ASSUME NEW v \in Version, order' = Forget(v), entry' = [entry EXCEPT ![v] = None]
      PROVE  Listed'
  <2>1. /\ order' \in Seq(Version) /\ IsInjective(order')
        /\ Range(order') = Range(order) \ {v}
    BY <1>1, ForgetLists DEF Listed
  <2>2. {u \in Version : entry'[u] # None} = {u \in Version : entry[u] # None} \ {v}
    BY <1>1, <1>t
  <2> QED
    BY <2>1, <2>2 DEF Listed, Listing
<1>2. ASSUME NEW v \in Version, NEW c, c # None, entry' = [entry EXCEPT ![v] = c],
             order' = Touch(v)
      PROVE  Listed'
  <2>1. /\ order' \in Seq(Version) /\ IsInjective(order')
        /\ Range(order') = Range(order) \cup {v}
    BY <1>2, TouchLists DEF Listed
  <2>2. {u \in Version : entry'[u] # None} = {u \in Version : entry[u] # None} \cup {v}
    BY <1>2, <1>t
  <2> QED
    BY <2>1, <2>2 DEF Listed, Listing
<1>3. ASSUME NEW v \in Version, NEW c, c # None, entry[v] # None,
             entry' = [entry EXCEPT ![v] = c], order' \in {order, Touch(v)}
      PROVE  Listed'
  <2>1. {u \in Version : entry'[u] # None} = {u \in Version : entry[u] # None}
    BY <1>3, <1>t
  <2> QED
    BY <1>2, <1>3, <2>1 DEF Listed, Listing
<1>4. CASE UNCHANGED <<entry, order>>
  BY <1>4 DEF Listed, Listing
<1>5. CASE EnsureCompare
  BY <1>0, <1>2, <1>4, <1>5, <1>t DEF EnsureCompare
<1>6. CASE EnsureRemove
  BY <1>1, <1>6, <1>t DEF EnsureRemove
<1>7. CASE EnsureRename
  <2>1. staging[arg] = Whole
    BY <1>7 DEF EnsureRename, CacheInv, Staged
  <2> QED
    BY <1>0, <1>2, <1>7, <1>t, <2>1 DEF EnsureRename
<1>8. CASE PruneDelete
  BY <1>1, <1>4, <1>8, First1 DEF PruneDelete
<1>9. ASSUME Interrupted PROVE Listed'
  <2>1. ASSUME NEW v \in Version, entry[v] # None, PartlyRemoved(v) PROVE Listed'
    BY <1>0, <1>3, <2>1 DEF PartlyRemoved
  <2>2. ASSUME NEW v \in First(doomed) PROVE v \in Version /\ entry[v] # None
    BY <2>2, First1 DEF Listed
  <2> QED
    BY <1>4, <1>9, <1>t, <2>1, <2>2 DEF Interrupted, PartlyStaged
<1>10. ASSUME NEW v \in Version, Drift(v) PROVE Listed'
  <2>1. PICK c \in Changed(entry[v]) : entry' = [entry EXCEPT ![v] = c]
    BY <1>10 DEF Drift
  <2>2. entry[v] # None /\ order' \in {order, Touch(v)}
    BY <1>10 DEF Drift
  <2>3. c # None
    BY <1>t, <2>1, <2>2 DEF Contents, Changed
  <2> QED
    BY <1>3, <2>1, <2>2, <2>3
<1>11. CASE \/ \E v \in Version : EnsureBegin(v)
            \/ RollbackBegin \/ PruneBegin \/ EnsureClearStaging \/ EnsureDownload \/ EnsureExtract
            \/ EnsureUnstage \/ EnsureAdvance \/ EnsureRepoint \/ Rollback \/ PruneList
            \/ PruneSweep \/ Return \/ UNCHANGED vars
  BY <1>4, <1>11 DEF EnsureBegin, RollbackBegin, PruneBegin, EnsureClearStaging, EnsureDownload,
     EnsureExtract, EnsureUnstage, EnsureAdvance, EnsureRepoint, Rollback, RollbackVerify,
     RollbackExchange, PruneList, PruneSweep, Return, vars
<1> QED
  BY <1>5, <1>6, <1>7, <1>8, <1>9, <1>10, <1>11 DEF Next, Work, Ensure, Prune, Fail, Kill

\* The types hold in every state, and prune lists versions.
LEMMA CacheTypeInit == Init => TypeOK
<1> SUFFICES ASSUME Init PROVE TypeOK
  OBVIOUS
<1> USE ConstantsAssumption
<1>1. Types
  BY CacheInvInit DEF CacheInv
<1>2. Listed
  <2>1. PICK v \in Version \cup {None} :
          /\ entry = [w \in Version |-> IF w = v THEN [Whole EXCEPT !.meta = "unusable"] ELSE None]
          /\ order = IF v = None THEN <<>> ELSE <<v>>
    BY DEF Init
  <2>2. [Whole EXCEPT !.meta = "unusable"] # None
    BY DEF Whole, Contents
  <2>3. CASE v = None
    BY <2>1, <2>3 DEF Listed, Listing, IsInjective, Range
  <2>4. CASE v # None
    <3>1. order = <<v>> /\ DOMAIN order = {1} /\ order[1] = v
      BY <2>1, <2>4
    <3>2. {u \in Version : entry[u] # None} = {v}
      BY <2>1, <2>2, <2>4
    <3> QED
      BY <3>1, <3>2, <2>1, <2>4 DEF Listed, Listing, IsInjective, Range
  <2> QED
    BY <2>3, <2>4
<1> QED
  BY <1>1, <1>2 DEF Init, TypeOK, Types, Listed, Listing, Steps

LEMMA CacheTypeStep ==
  ASSUME CacheInv, CacheInv', TypeOK, [Next]_vars
  PROVE  TypeOK'
<1> USE ConstantsAssumption DEF At, Goto, Begin
<1>1. Listed'
  BY ListedStep DEF TypeOK, Listed, Listing
<1>2. Types'
  BY DEF CacheInv
<1>3. /\ op' \in {"none", "ensure", "rollback", "prune"} /\ arg' \in Version \cup {None}
      /\ step' \in Steps
  BY DEF TypeOK, Steps, Ended, Next, Work, Ensure, Rollback, Prune, EnsureBegin, RollbackBegin,
     PruneBegin, EnsureClearStaging, EnsureDownload, EnsureExtract, EnsureCompare, EnsureUnstage,
     EnsureRemove, EnsureRename, EnsureAdvance, EnsureRepoint, RollbackVerify, RollbackExchange,
     PruneList, PruneDelete, PruneSweep, Return, End, Fail, Kill, Drift, control, vars
<1>4. doomed' \subseteq Version
  <2>1. ASSUME NEW keep \in Keep PROVE Expendable(AtLeastOne(keep)) \subseteq Version
    <3>1. order \in Seq(Version) /\ AtLeastOne(keep) \in Nat
      BY <2>1 DEF TypeOK, AtLeastOne
    <3> QED
      BY <3>1 DEF Expendable
  <2>2. CASE PruneList
    BY <2>1, <2>2 DEF PruneList
  <2>3. CASE PruneDelete
    BY <2>3 DEF PruneDelete, TypeOK
  <2>4. CASE doomed' \in {doomed, {}}
    BY <2>4 DEF TypeOK
  <2> QED
    BY <2>2, <2>3, <2>4 DEF Next, Work, Ensure, Rollback, Prune, EnsureBegin, RollbackBegin,
       PruneBegin, EnsureClearStaging, EnsureDownload, EnsureExtract, EnsureCompare, EnsureUnstage,
       EnsureRemove, EnsureRename, EnsureAdvance, EnsureRepoint, RollbackVerify, RollbackExchange,
       PruneSweep, Return, End, Fail, Kill, Drift, control, vars
<1>5. drifts' \in 0..MaxDrift
  <2>1. drifts' = drifts \/ (drifts < MaxDrift /\ drifts' = drifts + 1)
    BY DEF Next, Work, Ensure, Rollback, Prune, EnsureBegin, RollbackBegin,
       PruneBegin, EnsureClearStaging, EnsureDownload, EnsureExtract, EnsureCompare, EnsureUnstage,
       EnsureRemove, EnsureRename, EnsureAdvance, EnsureRepoint, RollbackVerify, RollbackExchange,
       PruneList, PruneDelete, PruneSweep, Return, Fail, Kill, Drift, vars
  <2> QED
    BY <2>1 DEF TypeOK
<1>6. intact' \subseteq Version
  <2>0. intact \subseteq Version
    BY DEF TypeOK
  <2>1. CASE EnsureCompare \/ EnsureRename
    <3>1. op = "ensure" /\ arg \in Version
      BY <2>1 DEF EnsureCompare, EnsureRename, CacheInv, Types
    <3> QED
      BY <2>0, <2>1, <3>1 DEF EnsureCompare, EnsureRename
  <2>2. ASSUME NEW v \in Version, Drift(v) PROVE intact' \subseteq Version
    BY <2>0, <2>2 DEF Drift
  <2>3. CASE intact' \in {intact, Version}
    BY <2>0, <2>3
  <2> QED
    BY <2>1, <2>2, <2>3 DEF Next, Work, Ensure, Rollback, Prune, EnsureBegin, RollbackBegin,
       PruneBegin, EnsureClearStaging, EnsureDownload, EnsureExtract, EnsureUnstage, EnsureRemove,
       EnsureAdvance, EnsureRepoint, RollbackVerify, RollbackExchange, PruneList, PruneDelete,
       PruneSweep, Return, Fail, Kill, history, vars
<1> QED
  BY <1>1, <1>2, <1>3, <1>4, <1>5, <1>6 DEF TypeOK, Types, Listed, Listing

(***************************************************************************)
(* As long as nothing fails.                                               *)
(***************************************************************************)

\* What a link names is there, but while ensure replaces it.
LinksStand ==
  \A l \in {current, previous} \ {None} :
      entry[l] # None \/ (op = "ensure" /\ step = "rename" /\ arg = l)

CalmInv == CacheInv /\ TypeOK /\ LinksStand /\ LinksDiffer /\ NeverStuck

LEMMA CalmInit == Init => CalmInv
<1> SUFFICES ASSUME Init PROVE CalmInv
  OBVIOUS
<1>1. [Whole EXCEPT !.meta = "unusable"] # None
  BY ConstantsAssumption DEF Whole, Contents
<1>2. LinksStand /\ LinksDiffer /\ NeverStuck
  BY <1>1 DEF Init, LinksStand, LinksDiffer, NeverStuck
<1> QED
  BY <1>2, CacheInvInit, CacheTypeInit DEF CalmInv

\* Without a failure or a kill every advance takes both of its steps and every
\* replacement ends.
LEMMA CalmStep ==
  ASSUME ~MayFail, CalmInv, [Next]_vars
  PROVE  CalmInv'
<1>1. CacheInv'
  BY CacheInvStep DEF CalmInv
<1>2. TypeOK'
  BY <1>1, CacheTypeStep DEF CalmInv
<1>3. \A l \in {current', previous'} \ {None} : entry'[l] = None =>
         \/ l \in {current, previous} /\ entry[l] = None
         \/ op = "ensure" /\ arg = l
  BY LinkStep DEF CalmInv
<1> USE ConstantsAssumption DEF CalmInv, At, Goto, Begin
<1>4. LinksStand'
  <2>0. Whole # None /\ entry \in [Version -> Contents \cup {None}]
    BY DEF Whole, Contents, TypeOK
  <2> SUFFICES ASSUME NEW l \in {current', previous'} \ {None}, entry'[l] = None
               PROVE  op' = "ensure" /\ step' = "rename" /\ arg' = l
    BY DEF LinksStand
  <2>1. op = "ensure" /\ arg = l
    BY <1>3 DEF LinksStand
  <2>2. arg \in Version
    BY <2>1 DEF CacheInv, Types
  <2>3. CASE EnsureRemove
    BY <2>1, <2>3 DEF EnsureRemove
  <2>4. CASE EnsureRename
    <3>1. staging[arg] = Whole
      BY <2>4 DEF EnsureRename, CacheInv, Staged
    <3> QED
      BY <2>0, <2>1, <2>2, <2>4, <3>1 DEF EnsureRename
  <2>5. CASE EnsureCompare
    BY <2>0, <2>1, <2>2, <2>5 DEF EnsureCompare, LinksStand, links
  <2>6. CASE EnsureAdvance \/ EnsureRepoint
    <3>1. entry' = entry /\ step # "rename"
      BY <2>6 DEF EnsureAdvance, EnsureRepoint
    <3>2. step \in {"advance", "repoint"} => entry[arg] # None
      BY <2>1 DEF CacheInv, Published, Trusted
    <3> QED
      BY <2>1, <2>6, <3>1, <3>2 DEF EnsureAdvance, EnsureRepoint
  <2>7. CASE EnsureClearStaging \/ EnsureDownload \/ EnsureExtract \/ EnsureUnstage
    BY <2>1, <2>7 DEF EnsureClearStaging, EnsureDownload, EnsureExtract, EnsureUnstage, LinksStand,
       links
  <2>8. CASE Return
    BY <2>1, <2>8 DEF Return, Ended, LinksStand, links
  <2>9. ASSUME NEW v \in Version, Drift(v) PROVE op' = "ensure" /\ step' = "rename" /\ arg' = l
    <3>1. entry[l] = None
      BY <2>0, <2>1, <2>2, <2>9 DEF Drift, Changed, Contents
    <3> QED
      BY <2>1, <2>9, <3>1 DEF Drift, LinksStand, control, links
  <2>10. CASE UNCHANGED vars
    BY <2>10 DEF vars, LinksStand, control, links
  <2> QED
    BY <2>1, <2>3, <2>4, <2>5, <2>6, <2>7, <2>8, <2>9, <2>10 DEF Next, Work, Ensure, Rollback,
       Prune, EnsureBegin, RollbackBegin, PruneBegin, RollbackVerify, RollbackExchange, PruneList,
       PruneDelete, PruneSweep, Fail, Kill
<1>5. Resolves(current) \/ (op = "ensure" /\ step = "rename")
  BY DEF LinksStand, Resolves
<1>6. Resolves(previous) \/ (op = "ensure" /\ step = "rename")
  BY DEF LinksStand, Resolves
<1>7. NeverStuck'
  BY <1>5, <1>6 DEF NeverStuck, Ended, Next, Work, Ensure, Rollback, Prune, EnsureBegin,
     RollbackBegin, PruneBegin, EnsureClearStaging, EnsureDownload, EnsureExtract, EnsureCompare,
     EnsureUnstage, EnsureRemove, EnsureRename, EnsureAdvance, EnsureRepoint, RollbackVerify,
     RollbackExchange, PruneList, PruneDelete, PruneSweep, Return, End, Fail, Kill, Drift, control,
     vars
<1>8. LinksDiffer'
  <2>1. CASE EnsureAdvance
    BY <1>5, <2>1 DEF EnsureAdvance, LinksDiffer
  <2>2. CASE EnsureRepoint
    <3>1. previous = was /\ was # arg
      BY <2>2 DEF EnsureRepoint, CacheInv, Selected
    <3> QED
      BY <2>2, <3>1 DEF EnsureRepoint, LinksDiffer
  <2>3. CASE RollbackExchange
    BY <2>3 DEF RollbackExchange, LinksDiffer, links
  <2>4. CASE UNCHANGED links /\ step # "repoint"
    BY <2>4 DEF LinksDiffer, links
  <2>5. step = "repoint" => op = "ensure"
    BY DEF CacheInv, InStep, TypeOK
  <2> QED
    BY <2>1, <2>2, <2>3, <2>4, <2>5 DEF LinksDiffer, Next, Work, Ensure, Rollback, Prune,
       EnsureBegin, RollbackBegin, PruneBegin, EnsureClearStaging, EnsureDownload, EnsureExtract,
       EnsureCompare, EnsureUnstage, EnsureRemove, EnsureRename, RollbackVerify, PruneList,
       PruneDelete, PruneSweep, Return, Ended, Fail, Kill, Drift, control, links, vars
<1> QED
  BY <1>1, <1>2, <1>4, <1>7, <1>8 DEF CalmInv

\* As long as nothing fails and nothing is killed, whatever others change, there
\* is another version to roll back to, and no link that does not resolve (cache/mod.rs).
THEOREM CalmCacheNeverSticks ==
  ASSUME ~MayFail PROVE Spec => [](LinksDiffer /\ NeverStuck)
<1>1. Init => CalmInv
  BY CalmInit
<1>2. CalmInv /\ [Next]_vars => CalmInv'
  BY CalmStep
<1>3. CalmInv => LinksDiffer /\ NeverStuck
  BY DEF CalmInv
<1> QED
  BY <1>1, <1>2, <1>3, PTL DEF Spec

(***************************************************************************)
(* What follows needs of sets of numbers.                                  *)
(***************************************************************************)

\* A set of numbers up to a bound has a least and a greatest one.
LEMMA LeastAndGreatest ==
  ASSUME NEW n \in Nat, NEW S \in SUBSET (1..n), S # {}
  PROVE  (\E x \in S : \A y \in S : x <= y) /\ (\E x \in S : \A y \in S : x >= y)
<1> DEFINE Order == StrictSubsetOrdering(1..n)
           Below == {{y \in S : y < x} : x \in S}
           Above == {{y \in S : y > x} : x \in S}
<1>1. Below \subseteq FiniteSubsetsOf(1..n) /\ Above \subseteq FiniteSubsetsOf(1..n)
  <2>1. IsFiniteSet(1..n)
    BY FS_Interval
  <2>2. \A T \in SUBSET (1..n) : IsFiniteSet(T)
    BY <2>1, FS_Subset
  <2> QED
    BY <2>2 DEF FiniteSubsetsOf
<1>2. IsWellFoundedOn(Order, FiniteSubsetsOf(1..n))
  BY FS_StrictSubsetOrderingWellFounded
<1>3. \E x \in S : \A y \in S : x <= y
  <2>1. PICK least \in Below : \A B \in Below : ~ (<<B, least>> \in Order)
    <3>1. Below # {}
      OBVIOUS
    <3> QED
      BY <1>1, <1>2, <3>1, WFMin
  <2>2. PICK x \in S : least = {y \in S : y < x}
    BY <2>1
  <2>3. ASSUME NEW y \in S, y < x PROVE FALSE
    <3>1. {z \in S : z < y} \in Below
      OBVIOUS
    <3>2. \A z : z \in least <=> z \in S /\ z < x
      BY <2>2
    <3>3. \A z \in S : z \in Int /\ z \in 1..n
      OBVIOUS
    <3>4. y \in least /\ y \notin {z \in S : z < y}
      BY <2>3, <3>2, <3>3
    <3>5. ASSUME NEW z \in S, z < y PROVE z \in least
      <4>1. x \in Int /\ y \in Int /\ z \in Int
        BY <3>3
      <4>2. z < x
        BY <2>3, <3>5, <4>1
      <4> QED
        BY <3>2, <4>2
    <3>6. least \subseteq 1..n
      BY <3>2, <3>3
    <3> QED
      BY <2>1, <3>1, <3>3, <3>4, <3>5, <3>6 DEF StrictSubsetOrdering
  <2> QED
    BY <2>3
<1>4. \E x \in S : \A y \in S : x >= y
  <2>1. PICK least \in Above : \A B \in Above : ~ (<<B, least>> \in Order)
    <3>1. Above # {}
      OBVIOUS
    <3> QED
      BY <1>1, <1>2, <3>1, WFMin
  <2>2. PICK x \in S : least = {y \in S : y > x}
    BY <2>1
  <2>3. ASSUME NEW y \in S, y > x PROVE FALSE
    <3>1. {z \in S : z > y} \in Above
      OBVIOUS
    <3>2. \A z : z \in least <=> z \in S /\ z > x
      BY <2>2
    <3>3. \A z \in S : z \in Int /\ z \in 1..n
      OBVIOUS
    <3>4. y \in least /\ y \notin {z \in S : z > y}
      BY <2>3, <3>2, <3>3
    <3>5. ASSUME NEW z \in S, z > y PROVE z \in least
      <4>1. x \in Int /\ y \in Int /\ z \in Int
        BY <3>3
      <4>2. z > x
        BY <2>3, <3>5, <4>1
      <4> QED
        BY <3>2, <4>2
    <3>6. least \subseteq 1..n
      BY <3>2, <3>3
    <3> QED
      BY <2>1, <3>1, <3>3, <3>4, <3>5, <3>6 DEF StrictSubsetOrdering
  <2> QED
    BY <2>3
<1> QED
  BY <1>3, <1>4

(***************************************************************************)
(* The publications have constants and variables of the same names.        *)
(***************************************************************************)
CONSTANTS Numbers, Candidate, Plists, Unsafe, Absent, Torn, MaxInode, MaxWrites, MaxFaults
VARIABLES plist, level, dir, content, staged, kept, job, target, granted, published, exchanged,
          pc, result, faults, before, deeds, taken, moved, root, payload, local, opened, writes,
          late

(***************************************************************************)
(* On macOS the versions are directories in the profile of a browser, and  *)
(* a publication exchanges one of them (patch/macos.rs).                   *)
(***************************************************************************)
Mac == INSTANCE MacosPatcher WITH Version <- Numbers

\* Versions are numbers, and the first directories are those of the versions.
Numbered ==
    /\ Numbers \subseteq 1..MaxInode /\ Candidate \in Numbers /\ Absent \notin 1..MaxInode
    /\ MaxInode \in Nat /\ MaxFaults \in Nat

LEMMA MacLatest ==
  ASSUME Numbered, NEW d
  PROVE  IF Mac!Versions(d) = {} THEN Mac!Latest(d) = Absent
         ELSE /\ Mac!Latest(d) \in Mac!Versions(d) /\ Mac!Latest(d) # Absent
              /\ \A v \in Mac!Versions(d) : v <= Mac!Latest(d)
<1> DEFINE S == Mac!Versions(d)
<1>1. S \in SUBSET (1..MaxInode)
  BY DEF Numbered, Mac!Versions
<1>2. CASE S = {}
  BY <1>2 DEF Mac!Latest
<1>3. CASE S # {}
  <2>1. \E x \in S : \A y \in S : x >= y
    BY <1>1, <1>3, LeastAndGreatest DEF Numbered
  <2>2. Mac!Latest(d) = CHOOSE x \in S : \A y \in S : x >= y
    BY <1>3 DEF Mac!Latest, Mac!Max
  <2> HIDE DEF S
  <2>3. Mac!Latest(d) \in S /\ \A y \in S : Mac!Latest(d) >= y
    BY <2>1, <2>2
  <2> QED
    BY <1>1, <1>3, <2>3 DEF S, Numbered
<1> QED
  BY <1>2, <1>3

LEMMA MacFresh ==
  ASSUME Numbered
  PROVE  /\ Mac!Fresh # {} => Mac!Min(Mac!Fresh) \in Mac!Fresh
         /\ \A n \in Nat : Mac!Cardinality(Mac!Fresh) > n => Mac!Fresh # {}
<1>1. Mac!Fresh \in SUBSET (1..MaxInode)
  BY DEF Mac!Fresh, Mac!Inode
<1>2. ASSUME Mac!Fresh # {} PROVE Mac!Min(Mac!Fresh) \in Mac!Fresh
  <2> DEFINE S == Mac!Fresh
  <2>1. \E x \in S : \A y \in S : x <= y
    BY <1>1, <1>2, LeastAndGreatest DEF Numbered
  <2> HIDE DEF S
  <2>2. (CHOOSE x \in S : \A y \in S : x =< y) \in S
    BY <2>1
  <2> QED
    BY <2>2 DEF S, Mac!Min
<1>3. Mac!Cardinality({}) = 0
  <2>1. Mac!Cardinality({}) = Cardinality({})
    BY DEF Mac!Cardinality, Cardinality, Mac!IsFiniteSet, IsFiniteSet
  <2> QED
    BY <2>1, FS_EmptySet
<1> QED
  BY <1>2, <1>3

\* The copy is on its way into the profile; it has been there.
Leaving == {"mark", "resolve", "authorize", "pin", "swap", "move"}
Judging == {"verify", "named", "active", "close", "undo", "reswap", "unmove", "restored"}

\* A copy of the run's own is none of the directories that others know, and is whole
\* before it goes where a browser looks.
MacCopy ==
    /\ pc \in {"idle", "capture", "check", "ensure", "open"} => staged = Absent
    /\ pc \in {"copy"} \cup Leaving =>
          /\ staged \in Mac!Inode /\ staged # granted
          /\ \A v \in Numbers : staged # before[v]
    /\ pc \in Leaving => Mac!Whole(staged)

\* Whatever is or was in the profile has been made.
MacMade ==
    /\ pc # "done" => result = "none"
    /\ pc \in {"idle", "capture"} => granted = Absent
    /\ granted # Absent => content[granted] # "none"
    /\ staged # Absent => content[staged] # "none"
    /\ \A v \in Numbers : /\ dir[v] # Absent => content[dir[v]] # "none"
                          /\ before[v] # Absent => content[before[v]] # "none"

\* There was something to load, and others have removed nothing.
MacLoadable ==
    /\ pc # "idle" /\ "removed" \notin deeds
    /\ Mac!Latest(before) # Absent /\ Mac!Whole(before[Mac!Latest(before)])

\* Then others have only added versions, or replaced them, by whole ones;
MacOthers ==
    MacLoadable => \A v \in Numbers \ {Candidate} :
        /\ before[v] # Absent => dir[v] # Absent
        /\ dir[v] # Absent => dir[v] = before[v] \/ Mac!Whole(dir[v])

\* if a browser would load it, what the run exchanges is whole, whichever way;
MacExchanged ==
    MacLoadable /\ Candidate >= Mac!Latest(before) =>
        /\ dir[Candidate] = Absent \/ Mac!Whole(dir[Candidate])
        /\ pc \in {"displaced"} \cup Judging => staged = Absent \/ Mac!Whole(staged)

\* and what a browser loaded is there from the beginning to the end.
MacNoGap ==
    MacLoadable /\ Candidate = Mac!Latest(before) =>
        /\ dir[Candidate] # Absent
        /\ pc \notin {"move", "unmove"}
        /\ pc \in {"displaced"} \cup Judging => staged # Absent
        /\ pc \in Judging => exchanged

MacInv ==
    /\ Mac!TypeOK /\ MacCopy /\ MacMade /\ MacOthers /\ MacExchanged /\ MacNoGap
    /\ Mac!GrantedSurvives

LEMMA MacInit == Numbered /\ Mac!Init => MacInv
<1> SUFFICES ASSUME Numbered, Mac!Init PROVE MacInv
  OBVIOUS
<1> USE DEF Numbered, Mac!Inode
<1>1. PICK S \in SUBSET Numbers : dir = [v \in Numbers |-> IF v \in S THEN v ELSE Absent]
  BY DEF Mac!Init
<1>2. PICK c \in Mac!Content \ {"none"} :
         content = [i \in Mac!Inode |-> IF i \notin Numbers THEN "none"
                                        ELSE IF i = Candidate THEN c ELSE "plain"]
  BY DEF Mac!Init
<1>3. dir \in [Numbers -> Mac!Inode \cup {Absent}] /\ content \in [Mac!Inode -> Mac!Content]
  BY <1>1, <1>2 DEF Mac!Content
<1>4. level \in [Mac!Level -> {"absent", "directory", "other"}]
  <2>1. CASE level = [l \in Mac!Level |-> "directory"]
    BY <2>1
  <2>2. CASE level \in [Mac!Level -> {"absent", "directory", "other"}]
    BY <2>2
  <2> QED
    BY <2>1, <2>2, Zenon DEF Mac!Init
<1>5. Mac!TypeOK
  <2>1. /\ plist \in Plists \cup {Absent} /\ kept \in BOOLEAN /\ exchanged \in BOOLEAN
        /\ before \in [Numbers -> Mac!Inode \cup {Absent}]
        /\ deeds = {} /\ taken = {} /\ faults = 0
        /\ staged = Absent /\ granted = Absent /\ published = Absent
    BY <1>3 DEF Mac!Init
  <2>2. /\ pc = "idle" /\ result = "none"
        /\ job \in [write : {"plain", "managed"}, payload : {"broken", "foreign", "selected"},
                    root : BOOLEAN]
    BY DEF Mac!Init
  <2> QED
    BY <1>3, <1>4, <2>1, <2>2 DEF Mac!TypeOK, Mac!Unpublished
<1>6. MacMade
  BY <1>1, <1>2 DEF MacMade, Mac!Init
<1>7. MacCopy /\ ~MacLoadable /\ Mac!GrantedSurvives
  BY DEF MacCopy, MacLoadable, Leaving, Mac!GrantedSurvives, Mac!Init
<1> QED
  BY <1>5, <1>6, <1>7 DEF MacInv, MacOthers, MacExchanged, MacNoGap

\* Every step keeps the types.
LEMMA MacTypes ==
  ASSUME Numbered, MacInv, Mac!Next
  PROVE  Mac!TypeOK'
<1> USE DEF Numbered, Mac!Inode, Mac!TypeOK, Mac!Unpublished, Mac!Fault, Mac!Sound, Mac!Held,
   Mac!Refuted, Mac!Goto, Mac!Ends, Mac!World, Mac!Asked, Mac!Found, Mac!Drop, Mac!Preserve,
   Mac!Roll, Mac!Check
<1>t. Mac!TypeOK /\ MacCopy
  BY DEF MacInv
<1>k. kept' \in BOOLEAN
  <2>1. kept' = kept \/ kept' = TRUE
    BY Zenon DEF Mac!Next, Mac!Run, Mac!WriteCdm, Mac!SelectTarget, Mac!Capture, Mac!CheckTarget,
       Mac!EnsureDirectory, Mac!Ensured, Mac!OpenStaging, Mac!Copy, Mac!Mark, Mac!Resolve,
       Mac!Authorize, Mac!Pin, Mac!Swap, Mac!Move, Mac!Displaced, Mac!Verify, Mac!Named,
       Mac!Active, Mac!Undo, Mac!Reswap, Mac!Unmove, Mac!Restored, Mac!Close, Mac!Replace,
       Mac!Update, Mac!Remove, Mac!Outside
  <2> QED
    BY <1>t, <2>1
<1>1. CASE Mac!WriteCdm
  BY <1>t, <1>k, <1>1 DEF Mac!WriteCdm
<1>2. CASE Mac!SelectTarget
  BY <1>t, <1>k, <1>2 DEF Mac!SelectTarget
<1>3. CASE Mac!Capture
  BY <1>t, <1>k, <1>3 DEF Mac!Capture
<1>4. CASE Mac!CheckTarget
  BY <1>t, <1>k, <1>4 DEF Mac!CheckTarget
<1>5. CASE Mac!EnsureDirectory
  BY <1>t, <1>k, <1>5 DEF Mac!EnsureDirectory
<1>6. CASE Mac!Ensured
  BY <1>t, <1>k, <1>6 DEF Mac!Ensured
<1>7. CASE Mac!OpenStaging
  <2>1. CASE Mac!Fresh # {}
    <3>1. Mac!Min(Mac!Fresh) \in Mac!Inode
      BY <2>1, MacFresh DEF Mac!Fresh
    <3> QED
      BY <1>t, <1>k, <1>7, <3>1 DEF Mac!OpenStaging, Mac!Content
  <2>2. CASE Mac!Fresh = {}
    BY <1>t, <1>k, <1>7, <2>2 DEF Mac!OpenStaging
  <2> QED
    BY <2>1, <2>2
<1>8. CASE Mac!Copy
  <2>1. pc' \in {"mark", "resolve", "done"} /\ result' \in {result, "error"}
        /\ staged' \in {staged, Absent} /\ faults' \in 0..MaxFaults
    BY <1>t, <1>8 DEF Mac!Copy
  <2>2. content' = content \/ content' = [content EXCEPT ![staged] = "plain"]
    BY <1>8 DEF Mac!Copy
  <2> QED
    BY <1>t, <1>k, <1>8, <2>1, <2>2 DEF Mac!Copy, Mac!Content
<1>9. CASE Mac!Mark
  BY <1>t, <1>k, <1>9 DEF Mac!Mark, Mac!Content
<1>10. CASE Mac!Resolve
  BY <1>t, <1>k, <1>10 DEF Mac!Resolve
<1>11. CASE Mac!Authorize
  BY <1>t, <1>k, <1>11 DEF Mac!Authorize
<1>12. CASE Mac!Pin
  BY <1>t, <1>k, <1>12 DEF Mac!Pin
<1>13. CASE Mac!Swap
  BY <1>t, <1>k, <1>13 DEF Mac!Swap
<1>14. CASE Mac!Move
  BY <1>t, <1>k, <1>14 DEF Mac!Move
<1>15. CASE Mac!Displaced
  BY <1>t, <1>k, <1>15 DEF Mac!Displaced
<1>16. CASE Mac!Verify
  BY <1>t, <1>k, <1>16 DEF Mac!Verify
<1>17. CASE Mac!Named
  BY <1>t, <1>k, <1>17 DEF Mac!Named
<1>18. CASE Mac!Active
  BY <1>t, <1>k, <1>18 DEF Mac!Active
<1>19. CASE Mac!Undo
  BY <1>t, <1>k, <1>19 DEF Mac!Undo
<1>20. CASE Mac!Reswap
  BY <1>t, <1>k, <1>20 DEF Mac!Reswap
<1>21. CASE Mac!Unmove
  BY <1>t, <1>k, <1>21 DEF Mac!Unmove
<1>22. CASE Mac!Restored
  BY <1>t, <1>k, <1>22 DEF Mac!Restored
<1>23. CASE Mac!Close
  BY <1>t, <1>k, <1>23 DEF Mac!Close
<1>24. CASE Mac!Replace
  BY <1>t, <1>k, <1>24 DEF Mac!Replace, Mac!Outside
<1>25. ASSUME NEW v \in Numbers, Mac!Update(v) PROVE Mac!TypeOK'
  <2>1. Mac!Min(Mac!Fresh) \in Mac!Inode
    BY <1>25, MacFresh DEF Mac!Update, Mac!Fresh
  <2>2. taken' \subseteq Mac!Inode /\ deeds' \subseteq {"updated", "removed", "renamed"}
    BY <1>t, <1>25 DEF Mac!Update, Mac!Outside
  <2> QED
    BY <1>t, <1>k, <1>25, <2>1, <2>2 DEF Mac!Update, Mac!Outside, Mac!Content
<1>26. ASSUME NEW v \in Numbers, Mac!Remove(v) PROVE Mac!TypeOK'
  <2>1. taken' \subseteq Mac!Inode /\ deeds' \subseteq {"updated", "removed", "renamed"}
    BY <1>t, <1>26 DEF Mac!Remove, Mac!Outside
  <2> QED
    BY <1>t, <1>k, <1>26, <2>1 DEF Mac!Remove, Mac!Outside
<1> QED
  BY <1>1, <1>2, <1>3, <1>4, <1>5, <1>6, <1>7, <1>8, <1>9, <1>10, <1>11, <1>12, <1>13, <1>14, <1>15,
     <1>16, <1>17, <1>18, <1>19, <1>20, <1>21, <1>22, <1>23, <1>24, <1>25, <1>26 DEF Mac!Next,
     Mac!Run

\* What is written in a directory: a new one is made, the copy becomes whole and is
\* marked, and nothing whole is spoilt.
LEMMA MacContents ==
  ASSUME Numbered, MacInv, Mac!Next
  PROVE  \A i \in Mac!Inode :
            /\ content[i] \notin {"none", "broken"} => content'[i] \notin {"none", "broken"}
            /\ content[i] # "none" => content'[i] # "none"
            /\ \/ content'[i] = content[i] \/ content[i] = "none"
               \/ i = staged /\ pc \in {"copy", "mark"}
<1>t. content \in [Mac!Inode -> Mac!Content]
  BY DEF MacInv, Mac!TypeOK
<1>m. ASSUME Mac!Fresh # {} PROVE content[Mac!Min(Mac!Fresh)] = "none"
  BY <1>m, MacFresh DEF Mac!Fresh
<1>1. CASE Mac!OpenStaging
  BY <1>t, <1>m, <1>1 DEF Mac!OpenStaging
<1>2. CASE Mac!Copy \/ Mac!Mark
  BY <1>t, <1>2 DEF Mac!Copy, Mac!Mark
<1>3. ASSUME NEW v \in Numbers, Mac!Update(v)
      PROVE  Mac!Fresh # {} /\ content' = [content EXCEPT ![Mac!Min(Mac!Fresh)] = "plain"]
  BY <1>3, MacFresh DEF Mac!Update
<1>4. CASE \E v \in Numbers : Mac!Update(v)
  BY <1>t, <1>m, <1>3, <1>4
<1>5. CASE content' = content
  BY <1>t, <1>5
<1> QED
  BY <1>1, <1>2, <1>4, <1>5 DEF Mac!Next, Mac!Run, Mac!WriteCdm, Mac!SelectTarget, Mac!Capture,
     Mac!CheckTarget, Mac!EnsureDirectory, Mac!Ensured, Mac!Resolve, Mac!Authorize, Mac!Pin,
     Mac!Swap, Mac!Move, Mac!Displaced, Mac!Verify, Mac!Named, Mac!Active, Mac!Undo, Mac!Reswap,
     Mac!Unmove, Mac!Restored, Mac!Close, Mac!Replace, Mac!Remove, Mac!Check, Mac!World

\* The steps of a run by what they do to the directories and to what it remembers: it
\* begins, is authorized, opens its staging directory, exchanges two directories, or
\* does none of this.
MacBegins ==
    /\ pc = "idle" /\ pc' \in {"capture", "done"}
    /\ before' = dir /\ deeds' = {} /\ taken' = {}
    /\ pc' = "capture" => result' = result
    /\ UNCHANGED <<dir, content, staged, granted>>

MacAuthorized ==
    /\ pc = "capture" /\ pc' \in {"check", "ensure", "done"}
    /\ granted' \in {dir[Candidate], granted}
    /\ UNCHANGED <<dir, content, staged, before, deeds, taken>>
    /\ result' = IF pc' = "done" THEN "error" ELSE result

MacOpens ==
    /\ pc = "open" /\ pc' = "copy"
    /\ Mac!Fresh # {} /\ staged' = Mac!Min(Mac!Fresh)
    /\ content' = [content EXCEPT ![Mac!Min(Mac!Fresh)] = "broken"]
    /\ UNCHANGED <<dir, granted, before, deeds, taken, result>>

MacExchanges ==
    /\ pc \in {"swap", "move", "reswap", "unmove"}
    /\ pc' = IF pc \in {"swap", "move"} THEN "displaced" ELSE "restored"
    /\ dir' = [dir EXCEPT ![Candidate] = staged] /\ staged' = dir[Candidate]
    /\ pc = "move" => dir[Candidate] = Absent
    /\ pc = "unmove" => (exchanged <=> dir[Candidate] = Absent)
    /\ UNCHANGED <<content, granted, before, deeds, taken, exchanged, result>>

MacRests ==
    /\ pc \notin {"idle", "capture", "done"} /\ pc' \notin {"idle", "capture", "copy", "displaced"}
    /\ UNCHANGED <<dir, granted, before, deeds, taken>>
    /\ staged' \in {staged, Absent}
    /\ pc' # "done" => staged' = staged /\ result' = result
    /\ pc' = "done" => \/ staged' = staged \/ result' = "ok"
                       \/ pc \in {"check", "ensure", "open", "copy"} \cup Leaving
                       \/ pc = "restored" /\ dir[Candidate] = granted
    /\ pc' \in {"check", "ensure", "open"} => pc \in {"check", "ensure"}
    /\ pc' \in Leaving => /\ pc \in {"copy"} \cup Leaving
                          /\ pc = "copy" => content' = [content EXCEPT ![staged] = "plain"]
    /\ pc' = "move" => pc = "swap" /\ dir[Candidate] = Absent
    /\ pc' = "unmove" => pc = "reswap" /\ (~exchanged \/ dir[Candidate] = Absent)
    /\ pc' \in Judging => \/ pc = "displaced" /\ (exchanged' <=> staged # Absent)
                          \/ pc \in Judging /\ (exchanged' <=> exchanged)

LEMMA MacSteps ==
  ASSUME Mac!Run
  PROVE  MacBegins \/ MacAuthorized \/ MacOpens \/ MacExchanges \/ MacRests
<1> USE DEF Mac!Fault, Mac!Sound, Mac!Held, Mac!Refuted, Mac!Goto, Mac!Ends, Mac!World, Mac!Asked,
   Mac!Found, Mac!Drop, Mac!Preserve, Mac!Roll, Mac!Check
<1>1. CASE Mac!WriteCdm \/ Mac!SelectTarget
  BY <1>1 DEF Mac!WriteCdm, Mac!SelectTarget, MacBegins
<1>2. CASE Mac!Capture
  BY <1>2 DEF Mac!Capture, MacAuthorized
<1>3. CASE Mac!CheckTarget \/ Mac!EnsureDirectory \/ Mac!Ensured
  BY <1>3 DEF Mac!CheckTarget, Mac!EnsureDirectory, Mac!Ensured, MacRests, Leaving, Judging
<1>4. CASE Mac!OpenStaging
  BY <1>4 DEF Mac!OpenStaging, MacOpens, MacRests, Leaving, Judging
<1>5. CASE Mac!Copy \/ Mac!Mark
  BY <1>5 DEF Mac!Copy, Mac!Mark, MacRests, Leaving, Judging
<1>6. CASE Mac!Resolve \/ Mac!Authorize \/ Mac!Pin
  BY <1>6 DEF Mac!Resolve, Mac!Authorize, Mac!Pin, MacRests, Leaving, Judging
<1>7. CASE Mac!Swap
  BY <1>7 DEF Mac!Swap, MacExchanges, MacRests, Leaving, Judging
<1>8. CASE Mac!Move
  BY <1>8 DEF Mac!Move, MacExchanges, MacRests, Leaving, Judging
<1>9. CASE Mac!Displaced
  BY <1>9 DEF Mac!Displaced, MacRests, Leaving, Judging
<1>10. CASE Mac!Verify \/ Mac!Named \/ Mac!Active \/ Mac!Undo \/ Mac!Close
  BY <1>10 DEF Mac!Verify, Mac!Named, Mac!Active, Mac!Undo, Mac!Close, MacRests, Leaving, Judging
<1>11. CASE Mac!Reswap
  BY <1>11 DEF Mac!Reswap, MacExchanges, MacRests, Leaving, Judging
<1>12. CASE Mac!Unmove
  BY <1>12 DEF Mac!Unmove, MacExchanges, MacRests, Leaving, Judging
<1>13. CASE Mac!Restored
  BY <1>13 DEF Mac!Restored, MacRests, Leaving, Judging
<1> QED
  BY <1>1, <1>2, <1>3, <1>4, <1>5, <1>6, <1>7, <1>8, <1>9, <1>10, <1>11, <1>12, <1>13 DEF Mac!Run

\* The steps of others leave the run where it is.
LEMMA MacOutside ==
  ASSUME Numbered, Mac!Next, ~Mac!Run
  PROVE  /\ pc \notin {"idle", "done"}
         /\ UNCHANGED <<pc, staged, granted, exchanged, result, before>>
         /\ deeds \subseteq deeds' /\ taken \subseteq taken'
         /\ \/ UNCHANGED <<dir, content>>
            \/ \E v \in Numbers : /\ Mac!Fresh # {} /\ dir' = [dir EXCEPT ![v] = Mac!Min(Mac!Fresh)]
                                  /\ content' = [content EXCEPT ![Mac!Min(Mac!Fresh)] = "plain"]
                                  /\ taken' = taken \cup ({dir[v]} \ {Absent})
            \/ \E v \in Numbers : /\ dir' = [dir EXCEPT ![v] = Absent] /\ UNCHANGED content
                                  /\ "removed" \in deeds' /\ taken' = taken \cup {dir[v]}
<1> USE DEF Mac!Outside, Mac!Asked, Mac!Found
<1>1. CASE Mac!Replace
  BY <1>1 DEF Mac!Replace
<1>2. ASSUME NEW v \in Numbers, Mac!Update(v)
      PROVE  /\ pc \notin {"idle", "done"}
             /\ UNCHANGED <<pc, staged, granted, exchanged, result, before>>
             /\ deeds \subseteq deeds' /\ taken \subseteq taken'
             /\ Mac!Fresh # {} /\ dir' = [dir EXCEPT ![v] = Mac!Min(Mac!Fresh)]
             /\ content' = [content EXCEPT ![Mac!Min(Mac!Fresh)] = "plain"]
             /\ taken' = taken \cup ({dir[v]} \ {Absent})
  BY <1>2, MacFresh DEF Mac!Update
<1>3. ASSUME NEW v \in Numbers, Mac!Remove(v)
      PROVE  /\ pc \notin {"idle", "done"}
             /\ UNCHANGED <<pc, staged, granted, exchanged, result, before>>
             /\ deeds \subseteq deeds' /\ taken \subseteq taken'
             /\ dir' = [dir EXCEPT ![v] = Absent] /\ UNCHANGED content
             /\ "removed" \in deeds' /\ taken' = taken \cup {dir[v]}
  BY <1>3 DEF Mac!Remove
<1> QED
  BY <1>1, <1>2, <1>3 DEF Mac!Next

\* The copy, and that what is in the profile has been made.
LEMMA MacCopyStep ==
  ASSUME Numbered, MacInv, Mac!Next
  PROVE  MacCopy' /\ MacMade'
<1> USE DEF Mac!Whole
<1>t. /\ Candidate \in Numbers /\ Absent \notin Mac!Inode
      /\ dir \in [Numbers -> Mac!Inode \cup {Absent}]
      /\ before \in [Numbers -> Mac!Inode \cup {Absent}]
      /\ staged \in Mac!Inode \cup {Absent} /\ granted \in Mac!Inode \cup {Absent}
      /\ content \in [Mac!Inode -> Mac!Content] /\ MacCopy /\ MacMade
  BY DEF MacInv, Mac!TypeOK, Numbered, Mac!Inode
<1>c. \A i \in Mac!Inode :
         /\ content[i] \notin {"none", "broken"} => content'[i] \notin {"none", "broken"}
         /\ content[i] # "none" => content'[i] # "none"
  BY MacContents
<1>m. Mac!Fresh # {} => /\ Mac!Min(Mac!Fresh) \in Mac!Inode
                        /\ content[Mac!Min(Mac!Fresh)] = "none"
  BY MacFresh DEF Mac!Fresh
<1>1. CASE MacBegins
  BY <1>t, <1>1 DEF MacBegins, MacCopy, MacMade, Leaving
<1>2. CASE MacAuthorized
  BY <1>t, <1>2 DEF MacAuthorized, MacCopy, MacMade, Leaving
<1>3. CASE MacOpens
  <2>1. \A v \in Numbers : before[v] # Absent => content[before[v]] # "none"
    BY <1>t DEF MacMade
  <2>2. granted # Absent => content[granted] # "none"
    BY <1>t DEF MacMade
  <2>3. MacCopy'
    BY <1>t, <1>m, <1>3, <2>1, <2>2 DEF MacOpens, MacCopy, Leaving
  <2>4. MacMade'
    BY <1>t, <1>c, <1>m, <1>3 DEF MacOpens, MacMade
  <2> QED
    BY <2>3, <2>4
<1>4. CASE MacExchanges
  <2>1. MacCopy'
    BY <1>t, <1>4 DEF MacExchanges, MacCopy, Leaving
  <2> QED
    BY <1>t, <1>4, <2>1 DEF MacExchanges, MacMade
<1>5. CASE MacRests
  <2>1. MacCopy'
    BY <1>t, <1>c, <1>5 DEF MacRests, MacCopy, Leaving
  <2>2. MacMade'
    BY <1>t, <1>c, <1>5 DEF MacRests, MacMade
  <2> QED
    BY <2>1, <2>2
<1>6. CASE ~Mac!Run
  <2>1. MacCopy'
    BY <1>t, <1>c, <1>6, MacOutside DEF MacCopy, Leaving
  <2>2. MacMade'
    BY <1>t, <1>c, <1>m, <1>6, MacOutside DEF MacMade
  <2> QED
    BY <2>1, <2>2
<1> QED
  BY <1>1, <1>2, <1>3, <1>4, <1>5, <1>6, MacSteps

\* What makes a browser's component loadable was so a step before.
LEMMA MacLoadableBefore ==
  ASSUME Numbered, MacInv, Mac!Next, ~MacBegins, MacLoadable'
  PROVE  MacLoadable /\ before' = before
<1> DEFINE m == Mac!Latest(before)
<1>1. before' = before /\ deeds \subseteq deeds' /\ pc # "idle"
  <2>1. CASE Mac!Run
    BY <2>1, MacSteps DEF MacAuthorized, MacOpens, MacExchanges, MacRests
  <2>2. CASE ~Mac!Run
    BY <2>2, MacOutside
  <2> QED
    BY <2>1, <2>2
<1>2. Mac!Latest(before)' = m
  BY <1>1 DEF Mac!Latest, Mac!Versions
<1>3. m # Absent /\ before[m] # Absent /\ content'[before[m]] \notin {"none", "broken"}
  BY <1>1, <1>2 DEF MacLoadable, Mac!Whole
<1>4. m \in Numbers /\ before[m] \in Mac!Inode
  <2>1. m \in Mac!Versions(before)
    BY <1>3, MacLatest
  <2> HIDE DEF m
  <2> QED
    BY <2>1 DEF Mac!Versions, MacInv, Mac!TypeOK
<1> HIDE DEF m
<1>5. content[before[m]] # "none"
  BY <1>3, <1>4 DEF MacInv, MacMade
<1>6. ~(before[m] = staged /\ pc \in {"copy", "mark"})
  BY <1>4 DEF MacInv, MacCopy, Leaving
<1>7. content[before[m]] \notin {"none", "broken"}
  BY <1>3, <1>4, <1>5, <1>6, MacContents
<1>8. "removed" \notin deeds
  BY <1>1 DEF MacLoadable
<1> QED
  BY <1>1, <1>3, <1>7, <1>8 DEF MacLoadable, Mac!Whole, m

\* What was to be replaced is where it was, or is held.
LEMMA MacGranted ==
  ASSUME Numbered, MacInv, Mac!Next
  PROVE  Mac!GrantedSurvives'
<1> USE DEF Mac!GrantedSurvives, Mac!Range
<1>t. /\ Candidate \in Numbers /\ Absent \notin Mac!Inode
      /\ dir \in [Numbers -> Mac!Inode \cup {Absent}]
      /\ Mac!GrantedSurvives /\ MacCopy /\ MacMade
  BY DEF MacInv, Mac!TypeOK, Numbered, Mac!Inode
<1>1. CASE MacBegins
  BY <1>t, <1>1 DEF MacBegins, MacMade
<1>2. CASE MacAuthorized
  BY <1>t, <1>2 DEF MacAuthorized, MacMade
<1>3. CASE MacOpens
  BY <1>t, <1>3 DEF MacOpens, MacMade, MacCopy
<1>4. CASE MacExchanges
  BY <1>t, <1>4 DEF MacExchanges, MacMade
<1>5. CASE MacRests
  <2>1. result = "none"
    BY <1>t, <1>5 DEF MacRests, MacMade
  <2>2. pc \in {"check", "ensure", "open", "copy"} \cup Leaving =>
           staged = Absent \/ staged # granted
    BY <1>t DEF MacCopy
  <2> QED
    BY <1>t, <1>5, <2>1, <2>2 DEF MacRests
<1>6. CASE ~Mac!Run
  BY <1>t, <1>6, MacOutside
<1> QED
  BY <1>1, <1>2, <1>3, <1>4, <1>5, <1>6, MacSteps

\* What a browser can load.
LEMMA MacLoads ==
  ASSUME Numbered, MacInv, Mac!Next
  PROVE  MacOthers' /\ MacExchanged' /\ MacNoGap'
<1> DEFINE m == Mac!Latest(before)
<1>0. CASE MacBegins
  <2> SUFFICES ASSUME MacLoadable'
               PROVE  MacOthers' /\ MacExchanged' /\ MacNoGap'
    BY DEF MacOthers, MacExchanged, MacNoGap
  <2>1. before' = dir' /\ pc' \in {"capture", "done"}
    BY <1>0 DEF MacBegins
  <2>2. /\ Mac!Latest(before)' # Absent
        /\ before'[Mac!Latest(before)'] # Absent
        /\ content'[before'[Mac!Latest(before)']] \notin {"none", "broken"}
    BY DEF MacLoadable, Mac!Whole
  <2>3. Mac!Latest(before)' = Mac!Latest(dir')
    BY <2>1 DEF Mac!Latest, Mac!Versions
  <2>4. /\ Mac!Latest(dir') \in Numbers
        /\ \A v \in Numbers : dir'[v] # Absent => v <= Mac!Latest(dir')
    BY <2>2, <2>3, MacLatest DEF Mac!Versions
  <2>5. Candidate \in Numbers /\ Numbers \subseteq Int
    BY DEF Numbered
  <2>6. MacOthers'
    BY <2>1 DEF MacOthers
  <2>7. MacExchanged'
    <3> SUFFICES ASSUME Candidate >= Mac!Latest(before)'
                 PROVE  dir'[Candidate] = Absent \/ Mac!Whole(dir[Candidate])'
      BY <2>1 DEF MacExchanged, Judging
    <3>1. dir'[Candidate] # Absent => Candidate = Mac!Latest(before)'
      <4>1. /\ Mac!Latest(before)' \in Int /\ Candidate \in Int
            /\ dir'[Candidate] # Absent => Candidate <= Mac!Latest(before)'
        BY <2>3, <2>4, <2>5
      <4> QED
        BY <4>1
    <3> QED
      BY <2>1, <2>2, <3>1 DEF Mac!Whole
  <2>8. MacNoGap'
    BY <2>1, <2>2, <2>3 DEF MacNoGap, Judging
  <2> QED
    BY <2>6, <2>7, <2>8
<1> SUFFICES ASSUME ~MacBegins, MacLoadable'
             PROVE  MacOthers' /\ MacExchanged' /\ MacNoGap'
  BY <1>0 DEF MacOthers, MacExchanged, MacNoGap
<1>1. MacLoadable /\ before' = before
  BY MacLoadableBefore
<1>2. Mac!Latest(before)' = m
  BY <1>1 DEF Mac!Latest, Mac!Versions
<1> HIDE DEF m
<1>t. /\ Candidate \in Numbers /\ Absent \notin Mac!Inode
      /\ dir \in [Numbers -> Mac!Inode \cup {Absent}]
      /\ staged \in Mac!Inode \cup {Absent}
      /\ content \in [Mac!Inode -> Mac!Content] /\ MacCopy
  BY DEF MacInv, Mac!TypeOK, Numbered, Mac!Inode
<1>c. \A i \in Mac!Inode :
         content[i] \notin {"none", "broken"} => content'[i] \notin {"none", "broken"}
  BY MacContents
<1>m. Mac!Fresh # {} => Mac!Min(Mac!Fresh) \in Mac!Inode
  BY MacFresh DEF Mac!Fresh
<1>n. "removed" \notin deeds'
  BY DEF MacLoadable
<1>3. MacOthers'
  <2>0. \A v \in Numbers \ {Candidate} :
          /\ before[v] # Absent => dir[v] # Absent
          /\ dir[v] # Absent => dir[v] = before[v] \/ Mac!Whole(dir[v])
    BY <1>1 DEF MacInv, MacOthers
  <2>1. CASE Mac!Run
    <3>1. \A v \in Numbers \ {Candidate} : dir'[v] = dir[v]
      BY <1>t, <2>1, MacSteps DEF MacAuthorized, MacOpens, MacExchanges, MacRests
    <3> QED
      BY <1>1, <1>c, <1>t, <2>0, <3>1 DEF MacOthers, Mac!Whole
  <2>2. CASE ~Mac!Run
    BY <1>1, <1>c, <1>t, <1>m, <1>n, <2>0, <2>2, MacOutside DEF MacOthers, Mac!Whole
  <2> QED
    BY <2>1, <2>2
<1>4. MacExchanged'
  <2> SUFFICES ASSUME Candidate >= m
               PROVE  /\ dir'[Candidate] = Absent \/ Mac!Whole(dir[Candidate])'
                      /\ pc' \in {"displaced"} \cup Judging =>
                            staged' = Absent \/ Mac!Whole(staged)'
    BY <1>2 DEF MacExchanged
  <2>0. /\ dir[Candidate] = Absent \/ Mac!Whole(dir[Candidate])
        /\ pc \in {"displaced"} \cup Judging => staged = Absent \/ Mac!Whole(staged)
    BY <1>1 DEF MacInv, MacExchanged, m
  <2>1. CASE MacAuthorized
    BY <1>t, <2>0, <2>1 DEF MacAuthorized, Mac!Whole, Judging
  <2>2. CASE MacOpens
    BY <1>c, <1>t, <2>0, <2>2 DEF MacOpens, Mac!Whole, Judging
  <2>3. CASE MacExchanges
    <3>1. staged = Absent \/ Mac!Whole(staged)
      BY <1>t, <2>0, <2>3 DEF MacExchanges, MacCopy, Leaving, Judging
    <3> QED
      BY <1>t, <2>0, <2>3, <3>1 DEF MacExchanges, Mac!Whole
  <2>4. CASE MacRests
    BY <1>c, <1>t, <2>0, <2>4 DEF MacRests, Mac!Whole
  <2>5. CASE ~Mac!Run
    BY <1>c, <1>t, <1>m, <2>0, <2>5, MacOutside DEF Mac!Whole
  <2> QED
    BY <2>1, <2>2, <2>3, <2>4, <2>5, MacSteps
<1>5. MacNoGap'
  <2> SUFFICES ASSUME Candidate = m
               PROVE  /\ dir'[Candidate] # Absent
                      /\ pc' \notin {"move", "unmove"}
                      /\ pc' \in {"displaced"} \cup Judging => staged' # Absent
                      /\ pc' \in Judging => exchanged'
    BY <1>2 DEF MacNoGap
  <2>0. /\ dir[Candidate] # Absent
        /\ pc \notin {"move", "unmove"}
        /\ pc \in {"displaced"} \cup Judging => staged # Absent
        /\ pc \in Judging => exchanged
    BY <1>1 DEF MacInv, MacNoGap, m
  <2>1. CASE MacAuthorized
    BY <2>0, <2>1 DEF MacAuthorized, Judging
  <2>2. CASE MacOpens
    BY <2>0, <2>2 DEF MacOpens, Judging
  <2>3. CASE MacExchanges
    <3>1. staged # Absent
      BY <1>t, <2>0, <2>3 DEF MacExchanges, MacCopy, Leaving, Judging
    <3> QED
      BY <1>t, <2>0, <2>3, <3>1 DEF MacExchanges, Judging
  <2>4. CASE MacRests
    BY <2>0, <2>4 DEF MacRests, Judging
  <2>5. CASE ~Mac!Run
    BY <1>t, <1>m, <1>n, <2>0, <2>5, MacOutside
  <2> QED
    BY <2>1, <2>2, <2>3, <2>4, <2>5, MacSteps
<1> QED
  BY <1>3, <1>4, <1>5

LEMMA MacStep ==
  ASSUME Numbered, MacInv, [Mac!Next]_(Mac!vars)
  PROVE  MacInv'
<1>1. CASE Mac!Next
  BY <1>1, MacTypes, MacCopyStep, MacLoads, MacGranted DEF MacInv
<1>2. CASE UNCHANGED Mac!vars
  BY <1>2 DEF Mac!vars, MacInv, Mac!TypeOK, MacCopy, MacMade, MacLoadable, MacOthers, MacExchanged,
     MacNoGap, Mac!GrantedSurvives, Mac!Whole, Mac!Latest, Mac!Versions
<1> QED
  BY <1>1, <1>2

\* Of what is there the greatest version is loaded, and it is whole.
LEMMA MacLoadsWhole == Numbered /\ MacInv => Mac!AlwaysLoadable
<1> SUFFICES ASSUME Numbered, MacInv, MacLoadable
             PROVE  Mac!Latest(dir) # Absent /\ Mac!Whole(dir[Mac!Latest(dir)])
  BY DEF Mac!AlwaysLoadable, MacLoadable
<1> DEFINE m == Mac!Latest(before)
           l == Mac!Latest(dir)
<1>1. /\ m \in Numbers /\ before[m] # Absent /\ Mac!Whole(before[m])
      /\ \A v \in Numbers : before[v] # Absent => v <= m
  <2>1. m # Absent /\ Mac!Whole(before[m])
    BY DEF MacLoadable
  <2> QED
    BY <2>1, MacLatest DEF Mac!Versions
<1>2. MacOthers /\ MacExchanged /\ MacNoGap /\ Numbers \subseteq Int /\ Candidate \in Numbers
  BY DEF MacInv, Numbered
<1>3. dir[m] # Absent
  BY <1>1, <1>2 DEF MacOthers, MacNoGap
<1>4. /\ l \in Numbers /\ dir[l] # Absent /\ l # Absent
      /\ \A v \in Numbers : dir[v] # Absent => v <= l
  BY <1>1, <1>3, MacLatest DEF Mac!Versions
<1>5. m <= l /\ m \in Int /\ l \in Int
  BY <1>1, <1>2, <1>3, <1>4
<1>e. Candidate >= m => dir[Candidate] = Absent \/ Mac!Whole(dir[Candidate])
  BY <1>2 DEF MacExchanged
<1> HIDE DEF l, m
<1>6. CASE l = Candidate
  <2>1. Candidate >= m
    BY <1>5, <1>6
  <2> QED
    BY <1>4, <1>6, <1>e, <2>1 DEF l
<1>7. CASE l # Candidate
  <2>1. dir[l] = before[l] \/ Mac!Whole(dir[l])
    BY <1>2, <1>4, <1>7 DEF MacOthers
  <2>2. dir[l] = before[l] => l = m
    <3>1. dir[l] = before[l] => l <= m
      BY <1>1, <1>4
    <3> QED
      BY <1>5, <3>1
  <2> QED
    BY <1>1, <1>4, <2>1, <2>2 DEF l
<1> QED
  BY <1>4, <1>6, <1>7 DEF l

\* On macOS a browser that had a whole component to load keeps one in every state of
\* a run, for any number of versions, failures and updates meanwhile
\* (replace_version_transactionally).
THEOREM MacBrowserKeepsItsComponent ==
  ASSUME Numbered
  PROVE  Mac!Spec => []Mac!AlwaysLoadable
<1>1. Mac!Init => MacInv
  BY MacInit
<1>2. MacInv /\ [Mac!Next]_(Mac!vars) => MacInv'
  BY MacStep
<1>3. MacInv => Mac!AlwaysLoadable
  BY MacLoadsWhole
<1> QED
  BY <1>1, <1>2, <1>3, PTL DEF Mac!Spec

\* What a run was authorized to replace exists until the run has succeeded or others
\* take it away (replace_version_transactionally, close_authorized_staging).
THEOREM MacReplacedSurvives ==
  ASSUME Numbered
  PROVE  Mac!Spec => []Mac!GrantedSurvives
<1>1. Mac!Init => MacInv
  BY MacInit
<1>2. MacInv /\ [Mac!Next]_(Mac!vars) => MacInv'
  BY MacStep
<1>3. MacInv => Mac!GrantedSurvives
  BY DEF MacInv
<1> QED
  BY <1>1, <1>2, <1>3, PTL DEF Mac!Spec

\* What a run knows of the directories if nobody interferes: they are as they were until
\* its copy is exchanged, and then but for the version that it publishes; and what its
\* checks have found.
MacTold ==
    /\ pc = "idle" => deeds = {}
    /\ pc \in {"swap", "move"} => staged = published
    /\ deeds = {} =>
         /\ \A v \in Numbers \ {Candidate} : dir[v] = before[v]
         /\ pc \in Mac!Unpublished => dir[Candidate] = before[Candidate]
         /\ pc \notin {"idle", "capture", "done"} => granted = before[Candidate]
         /\ pc \in {"displaced", "verify", "named", "active", "close"} => dir[Candidate] = published
         /\ pc \in {"named", "active", "close"} =>
              /\ Mac!Whole(published)
              /\ job.write = "managed" => content[published] = "selected"
         /\ pc = "close" => Mac!Latest(dir) = Candidate

LEMMA MacToldInit ==
  ASSUME Numbered, Mac!Init
  PROVE  MacTold
BY DEF MacTold, Mac!Init, Mac!Unpublished

LEMMA MacToldStep ==
  ASSUME Numbered, MacInv, MacTold, [Mac!Next]_(Mac!vars)
  PROVE  MacTold'
<1> USE DEF Mac!Sound, Mac!Held, Mac!Goto, Mac!Ends, Mac!World, Mac!Asked, Mac!Found, Mac!Drop,
   Mac!Preserve, Mac!Roll, Mac!Check
<1>t. /\ pc \in Mac!Unpublished \cup {"displaced", "verify", "named", "active", "close", "undo",
                                      "reswap", "unmove", "restored", "done"}
      /\ dir \in [Numbers -> Mac!Inode \cup {Absent}] /\ Candidate \in Numbers
  BY DEF MacInv, Mac!TypeOK, Numbered
<1>1. CASE Mac!WriteCdm \/ Mac!SelectTarget
  <2>1. before' = dir /\ dir' = dir /\ deeds' = {} /\ pc' \in {"capture", "done"}
    BY <1>1 DEF Mac!WriteCdm, Mac!SelectTarget
  <2> QED
    BY <2>1 DEF MacTold, Mac!Unpublished
<1>2. CASE Mac!Capture
  <2>1. /\ UNCHANGED <<dir, before, deeds>> /\ pc = "capture" /\ pc' \in {"ensure", "check", "done"}
        /\ pc' # "done" => granted' = dir[Candidate]
    BY <1>2 DEF Mac!Capture
  <2> QED
    BY <2>1 DEF MacTold, Mac!Unpublished
<1>3. CASE Mac!CheckTarget \/ Mac!EnsureDirectory \/ Mac!Ensured \/ Mac!OpenStaging \/ Mac!Copy
           \/ Mac!Mark \/ Mac!Resolve \/ Mac!Authorize
  <2>1. /\ UNCHANGED <<dir, before, deeds, granted>>
        /\ pc \in {"check", "ensure", "open", "copy", "mark", "resolve", "authorize"}
        /\ pc' \in {"check", "ensure", "open", "copy", "mark", "resolve", "authorize", "pin", "done"}
    BY <1>3 DEF Mac!CheckTarget, Mac!EnsureDirectory, Mac!Ensured, Mac!OpenStaging, Mac!Copy,
       Mac!Mark, Mac!Resolve, Mac!Authorize
  <2> QED
    BY <2>1 DEF MacTold, Mac!Unpublished
<1>4. CASE Mac!Pin
  BY <1>4 DEF Mac!Pin, MacTold, Mac!Unpublished
<1>5. CASE Mac!Swap \/ Mac!Move
  <2>1. /\ UNCHANGED <<before, deeds, granted, published, content, job>>
        /\ pc \in {"swap", "move"}
        /\ \/ pc' = "displaced" /\ dir' = [dir EXCEPT ![Candidate] = staged]
           \/ pc' \in {"move", "done"} /\ dir' = dir /\ (pc' = "move" => staged' = staged)
    BY <1>5 DEF Mac!Swap, Mac!Move
  <2>2. CASE pc' = "displaced" /\ dir' = [dir EXCEPT ![Candidate] = staged]
    BY <1>t, <2>1, <2>2 DEF MacTold, Mac!Unpublished
  <2>3. CASE pc' \in {"move", "done"} /\ dir' = dir /\ (pc' = "move" => staged' = staged)
    BY <2>1, <2>3 DEF MacTold, Mac!Unpublished
  <2> QED
    BY <2>1, <2>2, <2>3
<1>6. CASE Mac!Displaced
  BY <1>6 DEF Mac!Displaced, MacTold, Mac!Unpublished
<1>7. CASE Mac!Verify
  <2>1. /\ pc = "verify" /\ pc' \in {"named", "undo"}
        /\ UNCHANGED <<dir, content, before, deeds, granted, published, job>>
        /\ pc' = "named" => /\ Mac!Whole(dir[Candidate])
                            /\ job.write = "managed" => content[dir[Candidate]] = "selected"
    BY <1>7 DEF Mac!Verify
  <2> QED
    BY <2>1 DEF MacTold, Mac!Unpublished, Mac!Whole
<1>8. CASE Mac!Named
  BY <1>8 DEF Mac!Named, MacTold, Mac!Unpublished, Mac!Whole
<1>9. CASE Mac!Active
  <2>1. /\ pc = "active" /\ pc' \in {"close", "undo"}
        /\ UNCHANGED <<dir, content, before, deeds, granted, published, job>>
        /\ pc' = "close" => Mac!Latest(dir) = Candidate
    BY <1>9 DEF Mac!Active
  <2>2. Mac!Latest(dir') = Mac!Latest(dir)
    BY <2>1
  <2> QED
    BY <2>1, <2>2 DEF MacTold, Mac!Unpublished, Mac!Whole
<1>10. CASE Mac!Undo
  BY <1>10 DEF Mac!Undo, MacTold, Mac!Unpublished
<1>11. CASE Mac!Reswap \/ Mac!Unmove
  <2>1. /\ UNCHANGED <<before, deeds, granted>> /\ pc \in {"reswap", "unmove"}
        /\ pc' \in {"unmove", "restored", "done"}
        /\ dir' \in {dir, [dir EXCEPT ![Candidate] = staged]}
    BY <1>11 DEF Mac!Reswap, Mac!Unmove
  <2> QED
    BY <1>t, <2>1 DEF MacTold, Mac!Unpublished
<1>12. CASE Mac!Restored \/ Mac!Close
  BY <1>12 DEF Mac!Restored, Mac!Close, MacTold, Mac!Unpublished
<1>13. ASSUME NEW d, Mac!Outside(d) PROVE MacTold'
  <2>1. pc # "idle" /\ UNCHANGED <<pc, staged, published>> /\ deeds' # {}
    BY <1>13 DEF Mac!Outside
  <2> QED
    BY <2>1 DEF MacTold
<1>14. CASE Mac!Replace \/ \E v \in Numbers : Mac!Update(v) \/ Mac!Remove(v)
  BY <1>13, <1>14 DEF Mac!Replace, Mac!Update, Mac!Remove
<1>15. CASE UNCHANGED Mac!vars
  <2>1. UNCHANGED <<pc, deeds, staged, published, dir, before, granted, job, content>>
    BY <1>15 DEF Mac!vars
  <2>2. Mac!Latest(dir') = Mac!Latest(dir)
    BY <2>1
  <2> QED
    BY <2>1, <2>2 DEF MacTold, Mac!Whole
<1> QED
  BY <1>1, <1>2, <1>3, <1>4, <1>5, <1>6, <1>7, <1>8, <1>9, <1>10, <1>11, <1>12, <1>14, <1>15
     DEF Mac!Next, Mac!Run

\* What a step promises.
LEMMA MacEnds ==
  ASSUME Numbered, MacInv, MacTold, Mac!Next
  PROVE  Mac!OnlyGrantedDestroyed /\ Mac!SuccessIsLoaded /\ Mac!ErrorRestores
<1> USE DEF Mac!Sound, Mac!Held, Mac!Goto, Mac!Ends, Mac!World, Mac!Asked, Mac!Found, Mac!Drop,
   Mac!Preserve, Mac!Roll, Mac!Check
<1>t. /\ dir \in [Numbers -> Mac!Inode \cup {Absent}] /\ before \in [Numbers -> Mac!Inode \cup {Absent}]
      /\ Candidate \in Numbers
  BY DEF MacInv, Mac!TypeOK, Numbered
<1>a. ASSUME UNCHANGED result PROVE Mac!SuccessIsLoaded /\ Mac!ErrorRestores
  BY <1>a DEF Mac!SuccessIsLoaded, Mac!ErrorRestores
<1>b. ASSUME UNCHANGED <<dir, staged>> PROVE Mac!OnlyGrantedDestroyed
  BY <1>b DEF Mac!OnlyGrantedDestroyed, Mac!Range
<1>c. ASSUME dir' = [dir EXCEPT ![Candidate] = staged], staged' = dir[Candidate]
      PROVE  Mac!OnlyGrantedDestroyed
  <2>1. ASSUME NEW v \in Numbers PROVE dir[v] \in Mac!Range(dir') \cup {staged'}
    BY <1>t, <1>c DEF Mac!Range
  <2>2. staged \in Mac!Range(dir')
    BY <1>t, <1>c DEF Mac!Range
  <2>3. Mac!Range(dir) = {dir[v] : v \in Numbers}
    BY <1>t DEF Mac!Range
  <2> QED
    BY <2>1, <2>2, <2>3 DEF Mac!OnlyGrantedDestroyed
<1>d. ASSUME dir' = dir, pc \in Mac!Unpublished \/ staged \in {granted, published}
      PROVE  Mac!OnlyGrantedDestroyed
  BY <1>d DEF Mac!OnlyGrantedDestroyed, Mac!Range
<1>e. ASSUME pc \in Mac!Unpublished, dir' = dir, result' = "error" PROVE Mac!ErrorRestores
  <2> SUFFICES ASSUME deeds = {} PROVE dir = before
    BY <1>e DEF Mac!ErrorRestores
  <2>1. \A v \in Numbers : dir[v] = before[v]
    BY <1>e DEF MacTold
  <2> QED
    BY <1>t, <2>1
<1>f. ASSUME result' \notin {"ok"} PROVE Mac!SuccessIsLoaded
  BY <1>f DEF Mac!SuccessIsLoaded
<1>g. ASSUME result' \notin {"error"} PROVE Mac!ErrorRestores
  BY <1>g DEF Mac!ErrorRestores
<1>1. CASE Mac!WriteCdm \/ Mac!SelectTarget \/ Mac!Capture \/ Mac!CheckTarget
           \/ Mac!EnsureDirectory \/ Mac!Ensured \/ Mac!OpenStaging \/ Mac!Copy
           \/ Mac!Mark \/ Mac!Resolve \/ Mac!Authorize \/ Mac!Pin
  <2>1. /\ dir' = dir /\ pc \in Mac!Unpublished /\ (result' = result \/ result' = "error")
    BY <1>1 DEF Mac!WriteCdm, Mac!SelectTarget, Mac!Capture, Mac!CheckTarget, Mac!EnsureDirectory,
       Mac!Ensured, Mac!OpenStaging, Mac!Copy, Mac!Mark, Mac!Resolve, Mac!Authorize, Mac!Pin,
       Mac!Unpublished
  <2> QED
    BY <1>a, <1>d, <1>e, <1>f, <2>1
<1>2. CASE Mac!Swap \/ Mac!Move
  <2>1. \/ /\ dir' = [dir EXCEPT ![Candidate] = staged] /\ staged' = dir[Candidate]
           /\ result' = result
        \/ dir' = dir /\ pc \in Mac!Unpublished /\ (result' = result \/ result' = "error")
    BY <1>2 DEF Mac!Swap, Mac!Move, Mac!Unpublished
  <2> QED
    BY <1>a, <1>c, <1>d, <1>e, <1>f, <2>1
<1>3. CASE Mac!Displaced \/ Mac!Verify \/ Mac!Named \/ Mac!Active \/ Mac!Undo
  <2>1. UNCHANGED <<dir, staged>> /\ result' \in {result, "recovery"}
    BY <1>3 DEF Mac!Displaced, Mac!Verify, Mac!Named, Mac!Active, Mac!Undo
  <2> QED
    BY <1>a, <1>b, <1>f, <1>g, <2>1
<1>4. CASE Mac!Reswap \/ Mac!Unmove
  <2>1. \/ /\ dir' = [dir EXCEPT ![Candidate] = staged] /\ staged' = dir[Candidate]
           /\ result' = result
        \/ UNCHANGED <<dir, staged>> /\ result' \in {result, "recovery"}
    BY <1>4 DEF Mac!Reswap, Mac!Unmove
  <2> QED
    BY <1>a, <1>b, <1>c, <1>f, <1>g, <2>1
<1>5. CASE Mac!Restored
  <2>1. CASE result' = "recovery" /\ UNCHANGED <<dir, staged>>
    BY <1>b, <1>f, <1>g, <2>1
  <2>2. CASE dir[Candidate] = granted /\ staged = published /\ dir' = dir /\ result' = "error"
    <3>1. Mac!OnlyGrantedDestroyed /\ Mac!SuccessIsLoaded
      BY <1>d, <1>f, <2>2
    <3>2. ASSUME deeds = {} PROVE dir' = before
      <4>1. \A v \in Numbers : dir[v] = before[v]
        BY <1>5, <2>2, <3>2 DEF MacTold, Mac!Restored
      <4> QED
        BY <1>t, <2>2, <4>1
    <3> QED
      BY <3>1, <3>2 DEF Mac!ErrorRestores
  <2> QED
    BY <1>5, <2>1, <2>2 DEF Mac!Restored
<1>6. CASE Mac!Close
  <2>1. CASE result' = "recovery" /\ UNCHANGED <<dir, staged>>
    BY <1>b, <1>f, <1>g, <2>1
  <2>2. CASE staged = granted /\ result' = "ok" /\ dir' = dir
    <3>1. Mac!OnlyGrantedDestroyed /\ Mac!ErrorRestores
      BY <1>d, <1>g, <2>2
    <3>2. Mac!SuccessIsLoaded
      BY <1>6, <2>2 DEF Mac!SuccessIsLoaded, MacTold, Mac!Close
    <3> QED
      BY <3>1, <3>2
  <2> QED
    BY <1>6, <2>1, <2>2 DEF Mac!Close
<1>7. ASSUME NEW d, Mac!Outside(d), ~Mac!Run
      PROVE  Mac!OnlyGrantedDestroyed /\ Mac!SuccessIsLoaded /\ Mac!ErrorRestores
  <2>1. Mac!OnlyGrantedDestroyed
    BY <1>7 DEF Mac!OnlyGrantedDestroyed
  <2> QED
    BY <1>7, <1>a, <2>1 DEF Mac!Outside
<1> QED
  BY <1>1, <1>2, <1>3, <1>4, <1>5, <1>6, <1>7
     DEF Mac!Next, Mac!Run, Mac!Replace, Mac!Update, Mac!Remove

\* A publication on macOS installs its whole copy or restores what was there, and
\* destroys nothing but what it was authorized to replace.
THEOREM MacEndsAsTold ==
  ASSUME Numbered
  PROVE  Mac!Spec => [][/\ Mac!OnlyGrantedDestroyed /\ Mac!SuccessIsLoaded
                        /\ Mac!ErrorRestores]_(Mac!vars)
<1>1. Mac!Init => MacInv /\ MacTold
  BY MacInit, MacToldInit
<1>2. MacInv /\ MacTold /\ [Mac!Next]_(Mac!vars) => MacInv' /\ MacTold'
  BY MacStep, MacToldStep
<1>3. MacInv /\ MacTold /\ [Mac!Next]_(Mac!vars)
        => [/\ Mac!OnlyGrantedDestroyed /\ Mac!SuccessIsLoaded /\ Mac!ErrorRestores]_(Mac!vars)
  BY MacEnds
<1> QED
  BY <1>1, <1>2, <1>3, PTL DEF Mac!Spec

(***************************************************************************)
(* On Windows a publication adds a version and registers it with the       *)
(* browser (patch/windows.rs, patch/windows_registration.rs).              *)
(***************************************************************************)
Win == INSTANCE WindowsPatcher WITH Version <- Numbers

Registrable == Numbered /\ Torn \notin Numbers /\ MaxWrites \in Nat \ {0}

LEMMA WinLoaded ==
  ASSUME Registrable, NEW d, NEW pv
  PROVE  /\ Win!Loaded(d, pv) \in Numbers \cup {Absent}
         /\ Win!Loaded(d, pv) = Absent <=> Win!Versions(d) = {}
         /\ Win!Loaded(d, pv) # Absent => d[Win!Loaded(d, pv)] # Absent
         /\ pv \in Numbers /\ d[pv] # Absent => Win!Loaded(d, pv) = pv
         /\ ~(pv \in Numbers /\ d[pv] # Absent) =>
               \A v \in Numbers : d[v] # Absent => v <= Win!Loaded(d, pv)
<1> DEFINE S == Win!Versions(d)
<1>1. S \in SUBSET (1..MaxInode) /\ S \subseteq Numbers /\ Absent \notin Numbers
  BY DEF Registrable, Numbered, Win!Versions
<1>2. \A v \in Numbers : v \in S <=> d[v] # Absent
  BY DEF Win!Versions
<1>3. CASE S = {}
  BY <1>1, <1>2, <1>3 DEF Win!Loaded, Win!Latest
<1>4. CASE S # {}
  <2>1. \E x \in S : \A y \in S : x >= y
    BY <1>1, <1>4, LeastAndGreatest DEF Registrable, Numbered
  <2>2. Win!Latest(d) = CHOOSE x \in S : \A y \in S : x >= y
    BY <1>4 DEF Win!Latest, Win!Max
  <2>3. Win!Loaded(d, pv) = IF pv \in S THEN pv ELSE Win!Latest(d)
    BY DEF Win!Loaded
  <2> HIDE DEF S
  <2>4. Win!Latest(d) \in S /\ \A y \in S : Win!Latest(d) >= y
    BY <2>1, <2>2
  <2>5. \A y \in S : y <= Win!Latest(d)
    BY <1>1, <2>4 DEF Registrable, Numbered
  <2> QED
    BY <1>1, <1>2, <1>4, <2>3, <2>4, <2>5 DEF S
<1> QED
  BY <1>3, <1>4

LEMMA WinFresh ==
  ASSUME Registrable
  PROVE  /\ Win!Fresh # {} => Win!Min(Win!Fresh) \in Win!Fresh
         /\ \A n \in Nat : Win!Cardinality(Win!Fresh) > n => Win!Fresh # {}
<1>1. Win!Fresh \in SUBSET (1..MaxInode)
  BY DEF Win!Fresh, Win!Inode
<1>2. ASSUME Win!Fresh # {} PROVE Win!Min(Win!Fresh) \in Win!Fresh
  <2> DEFINE S == Win!Fresh
  <2>1. \E x \in S : \A y \in S : x <= y
    BY <1>1, <1>2, LeastAndGreatest DEF Registrable, Numbered
  <2> HIDE DEF S
  <2>2. (CHOOSE x \in S : \A y \in S : x =< y) \in S
    BY <2>1
  <2> QED
    BY <2>2 DEF S, Win!Min
<1>3. Win!Cardinality({}) = 0
  <2>1. Win!Cardinality({}) = Cardinality({})
    BY DEF Win!Cardinality, Cardinality, Win!IsFiniteSet, IsFiniteSet
  <2> QED
    BY <2>1, FS_EmptySet
<1> QED
  BY <1>2, <1>3

\* All versions but the candidate are whole, and what is or was there has been made.
WinMade ==
    /\ \A v \in Numbers \ {Candidate} : dir[v] # Absent => Win!Whole(dir[v])
    /\ \A v \in Numbers : /\ dir[v] # Absent => content[dir[v]] # "none"
                          /\ before[1][v] # Absent => content[before[1][v]] # "none"

\* What is staged is whole.
WinStaged ==
    /\ pc \in {"reauthorize", "rename"} => Win!Whole(staged)
    /\ pc = "idle" => published = Absent

\* Nothing has been removed by others; then
WinUndisturbed == pc # "idle" /\ "removed" \notin deeds

\* the versions of others stay,
WinOthers ==
    WinUndisturbed =>
        \A v \in Numbers \ {Candidate} : before[1][v] # Absent => dir[v] # Absent

\* a candidate that was there is never published, nor taken back,
WinFound ==
    WinUndisturbed /\ before[1][Candidate] # Absent =>
        /\ dir[Candidate] # Absent /\ published = Absent
        /\ pc \notin {"older", "stage", "reauthorize", "rename", "validate", "undo", "unname"}

\* and the candidate that is registered is whole.
WinRegistered ==
    WinUndisturbed /\ pc \in {"open", "write", "compare", "persist"} => Win!Whole(dir[Candidate])

WinInv ==
    /\ Win!TypeOK /\ WinMade /\ WinStaged /\ WinOthers /\ WinFound /\ WinRegistered
    /\ Win!AlwaysLoadable

LEMMA WinInit == Registrable /\ Win!Init => WinInv
<1> SUFFICES ASSUME Registrable, Win!Init PROVE WinInv
  OBVIOUS
<1> USE DEF Registrable, Numbered, Win!Inode
<1>1. PICK S \in SUBSET Numbers :
        /\ dir = [v \in Numbers |-> IF v \in S THEN v ELSE Absent]
        /\ \/ \E pv \in S \cup {Absent, Torn} : local = [id |-> 1, pv |-> pv, seen |-> 1]
           \/ local = [id |-> 0, pv |-> Absent, seen |-> 0]
  BY DEF Win!Init
<1>2. PICK c \in Win!Content \ {"none"} :
         content = [i \in Win!Inode |-> IF i \notin Numbers THEN "none"
                                        ELSE IF i = Candidate THEN c ELSE "plain"]
  BY DEF Win!Init
<1>3. dir \in [Numbers -> Win!Inode \cup {Absent}] /\ content \in [Win!Inode -> Win!Content]
  BY <1>1, <1>2 DEF Win!Content
<1>4. local \in Win!File
  BY <1>1 DEF Win!File
<1>5. Win!TypeOK
  <2>1. /\ moved = FALSE /\ late = FALSE /\ root \in {"absent", "directory", "reparse"}
        /\ deeds = {} /\ faults = 0 /\ writes = 1 /\ opened = local
        /\ staged = Absent /\ granted = Absent /\ published = Absent
        /\ payload \in {"broken", "selected"} /\ pc = "idle" /\ result = "none"
    BY DEF Win!Init
  <2>2. before \in [Numbers -> Win!Inode \cup {Absent}] \X (Numbers \cup {Absent, Torn})
    BY <1>3, <1>4 DEF Win!Init, Win!File
  <2> QED
    <3>1. faults \in 0..MaxFaults /\ writes \in 0..MaxWrites
      BY <2>1
    <3>2. {staged, granted, published} \subseteq Win!Inode \cup {Absent}
      BY <2>1
    <3> QED
      BY <1>3, <1>4, <2>1, <2>2, <3>1, <3>2 DEF Win!TypeOK
<1>6. WinMade
  BY <1>1, <1>2 DEF WinMade, Win!Init, Win!Whole
<1>7. WinStaged /\ ~WinUndisturbed /\ Win!AlwaysLoadable
  BY DEF WinStaged, WinUndisturbed, Win!AlwaysLoadable, Win!Init
<1> QED
  BY <1>5, <1>6, <1>7 DEF WinInv, WinOthers, WinFound, WinRegistered

\* Every step keeps the types.
LEMMA WinTypes ==
  ASSUME Registrable, WinInv, Win!Next
  PROVE  Win!TypeOK'
<1> USE DEF Registrable, Numbered, Win!Inode, Win!TypeOK, Win!Fault, Win!Sound, Win!Held,
   Win!Refuted, Win!Goto, Win!Ends, Win!World, Win!State, Win!Mine, Win!Drop, Win!Check,
   Win!Unregistered
<1>t. Win!TypeOK
  BY DEF WinInv
<1>m. Win!Fresh # {} => Win!Min(Win!Fresh) \in Win!Inode
  BY WinFresh DEF Win!Fresh
<1>b. late' \in BOOLEAN /\ moved' \in BOOLEAN
  <2>1. /\ late' = late \/ late' = FALSE \/ late' = (late \/ pc = "persist")
        /\ moved' = moved \/ moved' = TRUE
    BY Zenon DEF Win!Next, Win!Run, Win!SelectTarget, Win!Capture, Win!CheckTarget,
       Win!PinDirectories, Win!Authorize, Win!Exists, Win!Older, Win!Stage, Win!Reauthorize,
       Win!Rename, Win!Validate, Win!Undo, Win!Unname, Win!OpenState, Win!WriteState, Win!Compare,
       Win!Persist, Win!Write, Win!Replace, Win!Update, Win!Remove
  <2> QED
    BY <1>t, <2>1
<1>1. CASE Win!SelectTarget
  <2>1. before' \in [Numbers -> Win!Inode \cup {Absent}] \X (Numbers \cup {Absent, Torn})
    BY <1>t, <1>1 DEF Win!SelectTarget, Win!File
  <2> QED
    BY <1>t, <1>b, <1>1, <2>1 DEF Win!SelectTarget
<1>2. CASE Win!Capture
  BY <1>t, <1>b, <1>2 DEF Win!Capture
<1>3. CASE Win!CheckTarget
  BY <1>t, <1>b, <1>3 DEF Win!CheckTarget
<1>4. CASE Win!PinDirectories
  BY <1>t, <1>b, <1>4 DEF Win!PinDirectories
<1>5. CASE Win!Authorize
  BY <1>t, <1>b, <1>5 DEF Win!Authorize
<1>6. CASE Win!Exists
  <2>1. /\ pc' \in {"older", "open", "done"} /\ result' \in {result, "error", "refused"}
        /\ staged' \in {staged, Absent} /\ faults' \in 0..MaxFaults
    BY <1>t, <1>6 DEF Win!Exists
  <2>2. UNCHANGED <<moved, root, dir, content, payload, granted, published, local, opened, writes,
                    before, deeds>>
    BY <1>6 DEF Win!Exists
  <2> QED
    BY <1>t, <1>b, <2>1, <2>2
<1>7. CASE Win!Older
  BY <1>t, <1>b, <1>7 DEF Win!Older
<1>8. CASE Win!Stage
  BY <1>t, <1>b, <1>m, <1>8 DEF Win!Stage, Win!Content
<1>9. CASE Win!Reauthorize
  BY <1>t, <1>b, <1>9 DEF Win!Reauthorize
<1>10. CASE Win!Rename
  BY <1>t, <1>b, <1>10 DEF Win!Rename
<1>11. CASE Win!Validate
  BY <1>t, <1>b, <1>11 DEF Win!Validate
<1>12. CASE Win!Undo
  BY <1>t, <1>b, <1>12 DEF Win!Undo
<1>13. CASE Win!Unname
  BY <1>t, <1>b, <1>13 DEF Win!Unname
<1>14. CASE Win!OpenState
  BY <1>t, <1>b, <1>14 DEF Win!OpenState
<1>15. CASE Win!WriteState
  BY <1>t, <1>b, <1>15 DEF Win!WriteState
<1>16. CASE Win!Compare
  BY <1>t, <1>b, <1>16 DEF Win!Compare
<1>17. CASE Win!Persist
  <2>1. local' \in Win!File /\ writes' \in 0..MaxWrites
    BY <1>t, <1>17 DEF Win!Persist, Win!File
  <2> QED
    BY <1>t, <1>b, <1>17, <2>1 DEF Win!Persist
<1>18. CASE Win!Write
  <2>1. Win!Loaded(dir, local.pv) \in Numbers \cup {Absent}
    BY WinLoaded
  <2>2. local' \in Win!File /\ writes' \in 0..MaxWrites
    BY <1>t, <1>18, <2>1 DEF Win!Write, Win!File
  <2> QED
    BY <1>t, <1>b, <1>18, <2>2 DEF Win!Write, Win!Outside
<1>19. CASE Win!Replace
  BY <1>t, <1>b, <1>19 DEF Win!Replace, Win!Outside
<1>20. ASSUME NEW v \in Numbers, Win!Update(v) PROVE Win!TypeOK'
  <2>1. Win!Min(Win!Fresh) \in Win!Inode
    BY <1>m, <1>20, WinFresh DEF Win!Update
  <2> QED
    BY <1>t, <1>b, <1>20, <2>1 DEF Win!Update, Win!Outside, Win!Content
<1>21. ASSUME NEW v \in Numbers, Win!Remove(v) PROVE Win!TypeOK'
  BY <1>t, <1>b, <1>21 DEF Win!Remove, Win!Outside
<1> QED
  BY <1>1, <1>2, <1>3, <1>4, <1>5, <1>6, <1>7, <1>8, <1>9, <1>10, <1>11, <1>12, <1>13, <1>14, <1>15,
     <1>16, <1>17, <1>18, <1>19, <1>20, <1>21 DEF Win!Next, Win!Run

\* A new directory is made, and nothing whole is spoilt.
LEMMA WinContents ==
  ASSUME Registrable, WinInv, Win!Next
  PROVE  \A i \in Win!Inode :
            content'[i] = content[i]
              \/ (content[i] = "none" /\ content'[i] \notin {"none", "broken"})
<1>t. content \in [Win!Inode -> Win!Content]
  BY DEF WinInv, Win!TypeOK
<1>m. ASSUME Win!Fresh # {} PROVE content[Win!Min(Win!Fresh)] = "none"
  BY <1>m, WinFresh DEF Win!Fresh
<1>1. ASSUME NEW v \in Numbers, Win!Update(v)
      PROVE  Win!Fresh # {} /\ content' = [content EXCEPT ![Win!Min(Win!Fresh)] = "plain"]
  BY <1>1, WinFresh DEF Win!Update
<1>2. CASE \E v \in Numbers : Win!Update(v)
  BY <1>t, <1>m, <1>1, <1>2
<1>3. CASE Win!Stage
  BY <1>t, <1>m, <1>3 DEF Win!Stage, Win!Held
<1>4. CASE content' = content
  BY <1>4
<1> QED
  BY <1>2, <1>3, <1>4 DEF Win!Next, Win!Run, Win!SelectTarget, Win!Capture, Win!CheckTarget,
     Win!PinDirectories, Win!Authorize, Win!Exists, Win!Older, Win!Reauthorize, Win!Rename,
     Win!Validate, Win!Undo, Win!Unname, Win!OpenState, Win!WriteState, Win!Compare, Win!Persist,
     Win!Write, Win!Replace, Win!Remove, Win!Check, Win!World

\* The steps of a run by what they do to the versions and to their registration.
WinBegins ==
    /\ pc = "idle" /\ pc' \in {"capture", "done"}
    /\ before' = <<dir, local.pv>> /\ deeds' = {}
    /\ UNCHANGED <<dir, content, staged, published, local>>

WinStages ==
    /\ pc = "stage" /\ pc' = "reauthorize"
    /\ Win!Fresh # {} /\ staged' = Win!Min(Win!Fresh)
    /\ content' = [content EXCEPT ![Win!Min(Win!Fresh)] = "selected"]
    /\ UNCHANGED <<dir, local, before, deeds>>

WinRenames ==
    /\ pc = "rename" /\ pc' = "validate"
    /\ dir[Candidate] = Absent /\ dir' = [dir EXCEPT ![Candidate] = staged]
    /\ UNCHANGED <<content, published, local, before, deeds>>

WinUnnames ==
    /\ pc = "unname" /\ pc' = "done" /\ dir' = [dir EXCEPT ![Candidate] = Absent]
    /\ UNCHANGED <<content, published, local, before, deeds>>

WinRegisters ==
    /\ pc = "persist" /\ pc' = "done" /\ local'.pv = Candidate
    /\ UNCHANGED <<dir, content, published, before, deeds>>

WinRests ==
    /\ pc \notin {"idle", "done"} /\ pc' # "idle"
    /\ UNCHANGED <<dir, content, published, local, before, deeds>>
    /\ pc' \in {"reauthorize", "rename"} => pc = "reauthorize" /\ staged' = staged
    /\ pc' = "open" => pc \in {"exists", "validate"} /\ Win!IsCandidate
    /\ pc' \in {"write", "compare", "persist"} => pc \in {"open", "write", "compare"}
    /\ pc' = "older" => pc = "exists" /\ dir[Candidate] = Absent
    /\ pc' = "stage" => pc = "older"
    /\ pc' = "undo" => pc = "validate" \/ published # Absent
    /\ pc' = "unname" => pc = "undo"
    /\ pc' # "validate"

LEMMA WinSteps ==
  ASSUME Win!Run
  PROVE  WinBegins \/ WinStages \/ WinRenames \/ WinUnnames \/ WinRegisters \/ WinRests
<1> USE DEF Win!Fault, Win!Sound, Win!Held, Win!Refuted, Win!Goto, Win!Ends, Win!World, Win!State,
   Win!Mine, Win!Drop, Win!Check, Win!Unregistered
<1>1. CASE Win!SelectTarget
  BY <1>1 DEF Win!SelectTarget, WinBegins
<1>2. CASE Win!Capture \/ Win!CheckTarget \/ Win!PinDirectories \/ Win!Authorize
  BY <1>2 DEF Win!Capture, Win!CheckTarget, Win!PinDirectories, Win!Authorize, WinRests
<1>3. CASE Win!Exists
  BY <1>3 DEF Win!Exists, WinRests
<1>4. CASE Win!Older \/ Win!Reauthorize
  BY <1>4 DEF Win!Older, Win!Reauthorize, WinRests
<1>5. CASE Win!Stage
  BY <1>5 DEF Win!Stage, WinStages, WinRests
<1>6. CASE Win!Rename
  BY <1>6 DEF Win!Rename, WinRenames, WinRests
<1>7. CASE Win!Validate \/ Win!Undo
  BY <1>7 DEF Win!Validate, Win!Undo, WinRests
<1>8. CASE Win!Unname
  BY <1>8 DEF Win!Unname, WinUnnames, WinRests
<1>9. CASE Win!OpenState \/ Win!WriteState \/ Win!Compare
  BY <1>9 DEF Win!OpenState, Win!WriteState, Win!Compare, WinRests
<1>10. CASE Win!Persist
  BY <1>10 DEF Win!Persist, WinRegisters, WinRests
<1> QED
  BY <1>1, <1>2, <1>3, <1>4, <1>5, <1>6, <1>7, <1>8, <1>9, <1>10 DEF Win!Run

\* The steps of others leave the run where it is.
LEMMA WinOutside ==
  ASSUME Registrable, Win!Next, ~Win!Run
  PROVE  /\ pc \notin {"idle", "done"} /\ deeds \subseteq deeds'
         /\ UNCHANGED <<pc, staged, published, before>>
         /\ \/ UNCHANGED <<dir, content>> /\ local'.pv \in {local.pv, Win!Loaded(dir, local.pv)}
            \/ UNCHANGED local /\ \E v \in Numbers :
                  /\ Win!Fresh # {} /\ dir' = [dir EXCEPT ![v] = Win!Min(Win!Fresh)]
                  /\ content' = [content EXCEPT ![Win!Min(Win!Fresh)] = "plain"]
            \/ UNCHANGED <<local, content>> /\ "removed" \in deeds'
               /\ \E v \in Numbers : dir' = [dir EXCEPT ![v] = Absent]
<1> USE DEF Win!Outside, Win!Mine
<1>1. CASE Win!Replace
  BY <1>1 DEF Win!Replace
<1>2. CASE Win!Write
  BY <1>2 DEF Win!Write
<1>3. ASSUME NEW v \in Numbers, Win!Update(v)
      PROVE  /\ pc \notin {"idle", "done"} /\ deeds \subseteq deeds'
             /\ UNCHANGED <<pc, staged, published, before, local>>
             /\ Win!Fresh # {} /\ dir' = [dir EXCEPT ![v] = Win!Min(Win!Fresh)]
             /\ content' = [content EXCEPT ![Win!Min(Win!Fresh)] = "plain"]
  BY <1>3, WinFresh DEF Win!Update
<1>4. ASSUME NEW v \in Numbers, Win!Remove(v)
      PROVE  /\ pc \notin {"idle", "done"} /\ deeds \subseteq deeds'
             /\ UNCHANGED <<pc, staged, published, before, local, content>>
             /\ "removed" \in deeds' /\ dir' = [dir EXCEPT ![v] = Absent]
  BY <1>4 DEF Win!Remove
<1> QED
  BY <1>1, <1>2, <1>3, <1>4 DEF Win!Next

\* What is there, and what is staged.
LEMMA WinMadeStep ==
  ASSUME Registrable, WinInv, Win!Next
  PROVE  WinMade' /\ WinStaged'
<1> USE DEF Win!Whole
<1>t. /\ Candidate \in Numbers /\ Absent \notin Win!Inode
      /\ dir \in [Numbers -> Win!Inode \cup {Absent}]
      /\ \A v \in Numbers : before[1][v] \in Win!Inode \cup {Absent}
      /\ staged \in Win!Inode \cup {Absent}
      /\ content \in [Win!Inode -> Win!Content] /\ WinMade /\ WinStaged
  BY DEF WinInv, Win!TypeOK, Registrable, Numbered, Win!Inode
<1>c. \A i \in Win!Inode :
         /\ content[i] \notin {"none", "broken"} => content'[i] \notin {"none", "broken"}
         /\ content[i] # "none" => content'[i] # "none"
  BY WinContents
<1>m. Win!Fresh # {} => Win!Min(Win!Fresh) \in Win!Inode
  BY WinFresh DEF Win!Fresh
<1>1. CASE WinBegins
  BY <1>t, <1>1 DEF WinBegins, WinMade, WinStaged
<1>2. CASE WinStages
  <2>1. WinMade'
    BY <1>t, <1>c, <1>2 DEF WinStages, WinMade
  <2>2. WinStaged'
    BY <1>t, <1>m, <1>2 DEF WinStages, WinStaged
  <2> QED
    BY <2>1, <2>2
<1>3. CASE WinRenames
  BY <1>t, <1>3 DEF WinRenames, WinMade, WinStaged
<1>4. CASE WinUnnames \/ WinRegisters
  BY <1>t, <1>4 DEF WinUnnames, WinRegisters, WinMade, WinStaged
<1>5. CASE WinRests
  BY <1>t, <1>5 DEF WinRests, WinMade, WinStaged
<1>6. CASE ~Win!Run
  <2>1. WinMade'
    BY <1>t, <1>c, <1>m, <1>6, WinOutside DEF WinMade
  <2>2. WinStaged'
    BY <1>t, <1>c, <1>6, WinOutside DEF WinStaged
  <2> QED
    BY <2>1, <2>2
<1> QED
  BY <1>1, <1>2, <1>3, <1>4, <1>5, <1>6, WinSteps

\* The versions that were there, and the one that is published or registered.
LEMMA WinOthersStep ==
  ASSUME Registrable, WinInv, Win!Next
  PROVE  WinOthers' /\ WinFound' /\ WinRegistered'
<1> USE DEF Win!Whole, WinUndisturbed
<1>t. /\ Candidate \in Numbers /\ Absent \notin Win!Inode
      /\ dir \in [Numbers -> Win!Inode \cup {Absent}]
      /\ staged \in Win!Inode \cup {Absent}
      /\ content \in [Win!Inode -> Win!Content]
      /\ WinStaged /\ WinOthers /\ WinFound /\ WinRegistered
  BY DEF WinInv, Win!TypeOK, Registrable, Numbered, Win!Inode
<1>c. \A i \in Win!Inode :
         content[i] \notin {"none", "broken"} => content'[i] \notin {"none", "broken"}
  BY WinContents
<1>m. Win!Fresh # {} => Win!Min(Win!Fresh) \in Win!Inode
  BY WinFresh DEF Win!Fresh
<1>1. CASE WinBegins
  BY <1>t, <1>1 DEF WinBegins, WinStaged, WinOthers, WinFound, WinRegistered
<1>2. CASE WinStages \/ WinRenames
  BY <1>t, <1>2 DEF WinStages, WinRenames, WinOthers, WinFound, WinRegistered
<1>3. CASE WinUnnames \/ WinRegisters
  BY <1>t, <1>3 DEF WinUnnames, WinRegisters, WinOthers, WinFound, WinRegistered
<1>4. CASE WinRests
  <2>1. WinOthers'
    BY <1>t, <1>4 DEF WinRests, WinOthers
  <2>2. WinFound'
    BY <1>t, <1>4 DEF WinRests, WinFound
  <2>3. WinRegistered'
    BY <1>t, <1>4 DEF WinRests, WinRegistered, Win!IsCandidate
  <2> QED
    BY <2>1, <2>2, <2>3
<1>5. CASE ~Win!Run
  <2>1. WinOthers'
    BY <1>t, <1>m, <1>5, WinOutside DEF WinOthers
  <2>2. WinFound'
    BY <1>t, <1>m, <1>5, WinOutside DEF WinFound
  <2>3. WinRegistered'
    BY <1>t, <1>c, <1>m, <1>5, WinOutside DEF WinRegistered
  <2> QED
    BY <2>1, <2>2, <2>3
<1> QED
  BY <1>1, <1>2, <1>3, <1>4, <1>5, WinSteps

\* Whatever the browser loads, it is whole if it was when the run began.
LEMMA WinLoadableBefore ==
  ASSUME Registrable, WinInv, Win!Next, UNCHANGED before, pc # "idle", deeds \subseteq deeds',
         pc' # "idle", "removed" \notin deeds',
         Win!Loaded(before'[1], before'[2]) # Absent,
         Win!Whole(before[1][Win!Loaded(before[1], before[2])])'
  PROVE  /\ Win!Loaded(before[1], before[2]) # Absent
         /\ Win!Loaded(dir, local.pv) # Absent /\ Win!Whole(dir[Win!Loaded(dir, local.pv)])
<1> DEFINE had == Win!Loaded(before[1], before[2])
<1>1. had \in Numbers /\ had # Absent /\ before[1][had] # Absent
  BY WinLoaded
<1> HIDE DEF had
<1>2. content[before[1][had]] # "none" /\ before[1][had] \in Win!Inode
  <2>1. before[1] \in [Numbers -> Win!Inode \cup {Absent}]
    BY DEF WinInv, Win!TypeOK
  <2> QED
    BY <1>1, <2>1 DEF WinInv, WinMade
<1>3. content'[before[1][had]] \notin {"none", "broken"}
  BY DEF had, Win!Whole
<1>4. Win!Whole(before[1][had])
  BY <1>1, <1>2, <1>3, WinContents DEF Win!Whole
<1>5. Win!AlwaysLoadable
  BY DEF WinInv
<1> QED
  BY <1>1, <1>4, <1>5 DEF had, Win!AlwaysLoadable

\* If something is there, what the browser loads is whole unless it is the candidate.
LEMMA WinLoadable ==
  ASSUME Registrable, NEW s, s = Win!Loaded(dir, local.pv)', WinMade', s # Absent,
         s = Candidate => Win!Whole(dir[Candidate])'
  PROVE  s # Absent /\ Win!Whole(dir[s])'
<1>1. s \in Numbers /\ dir'[s] # Absent
  BY WinLoaded
<1> QED
  BY <1>1 DEF WinMade

LEMMA WinLoadableStep ==
  ASSUME Registrable, WinInv, Win!Next,
         pc' # "idle", "removed" \notin deeds',
         Win!Loaded(before'[1], before'[2]) # Absent,
         Win!Whole(before[1][Win!Loaded(before[1], before[2])])'
  PROVE  /\ Win!Loaded(dir', local'.pv) # Absent
         /\ Win!Whole(dir[Win!Loaded(dir, local.pv)])'
<1> DEFINE is == Win!Loaded(dir, local.pv)
           had == Win!Loaded(before[1], before[2])
           next == Win!Loaded(dir', local'.pv)
<1>t. /\ Candidate \in Numbers /\ Absent \notin Win!Inode /\ Numbers \subseteq 1..MaxInode
      /\ dir \in [Numbers -> Win!Inode \cup {Absent}]
      /\ staged \in Win!Inode \cup {Absent}
      /\ content \in [Win!Inode -> Win!Content]
      /\ WinStaged /\ WinOthers /\ WinFound /\ WinRegistered
  BY DEF WinInv, Win!TypeOK, Registrable, Numbered, Win!Inode
<1>c. \A i \in Win!Inode :
         content[i] \notin {"none", "broken"} => content'[i] \notin {"none", "broken"}
  BY WinContents
<1>n. WinMade'
  BY WinMadeStep
<1>l. /\ is \in Numbers \cup {Absent}
      /\ is = Absent <=> Win!Versions(dir) = {}
      /\ is # Absent => dir[is] # Absent
      /\ local.pv \in Numbers /\ dir[local.pv] # Absent => is = local.pv
      /\ ~(local.pv \in Numbers /\ dir[local.pv] # Absent) =>
            \A v \in Numbers : dir[v] # Absent => v <= is
  BY WinLoaded
<1>k. /\ next \in Numbers \cup {Absent}
      /\ next = Absent <=> Win!Versions(dir') = {}
      /\ next # Absent => dir'[next] # Absent
      /\ local'.pv \in Numbers /\ dir'[local'.pv] # Absent => next = local'.pv
      /\ ~(local'.pv \in Numbers /\ dir'[local'.pv] # Absent) =>
            \A v \in Numbers : dir'[v] # Absent => v <= next
  BY WinLoaded
<1>v. Win!Versions(dir) = {v \in Numbers : dir[v] # Absent}
      /\ Win!Versions(dir') = {v \in Numbers : dir'[v] # Absent}
  BY DEF Win!Versions
<1>w. before' = before /\ pc # "idle" /\ deeds \subseteq deeds' =>
         had # Absent /\ is # Absent /\ Win!Whole(dir[is])
  BY WinLoadableBefore
<1>1. CASE WinBegins
  <2>1. before'[1] = dir /\ before'[2] = local.pv /\ dir' = dir /\ local' = local
    BY <1>1 DEF WinBegins
  <2> QED
    BY <2>1
<1> SUFFICES ASSUME ~WinBegins
             PROVE  next # Absent /\ (next = Candidate => Win!Whole(dir[Candidate])')
  BY <1>1, <1>n, WinLoadable
<1>2. CASE WinStages \/ WinRests
  <2>1. UNCHANGED <<dir, local, before>> /\ pc # "idle" /\ deeds \subseteq deeds'
    BY <1>2 DEF WinStages, WinRests
  <2>2. next = is /\ is # Absent /\ Win!Whole(dir[is])
    BY <1>w, <2>1
  <2>3. Win!Whole(dir[is])'
    <3>1. is \in Numbers /\ dir[is] \in Win!Inode
      BY <1>t, <1>l, <2>2 DEF Win!Whole
    <3> HIDE DEF is
    <3> QED
      BY <1>c, <2>1, <2>2, <3>1 DEF Win!Whole, is
  <2> QED
    BY <2>1, <2>2, <2>3
<1>3. CASE WinRenames
  <2>1. dir'[Candidate] = staged /\ Win!Whole(staged) /\ content' = content
    BY <1>t, <1>3 DEF WinRenames, WinStaged
  <2>2. Win!Whole(dir[Candidate])'
    BY <2>1 DEF Win!Whole
  <2>3. Win!Versions(dir') # {}
    BY <1>t, <1>v, <2>2 DEF Win!Whole
  <2> QED
    BY <1>k, <2>2, <2>3
<1>4. CASE WinUnnames
  <2>1. before' = before /\ pc = "unname" /\ "removed" \notin deeds /\ pc # "idle"
        /\ dir' = [dir EXCEPT ![Candidate] = Absent] /\ deeds \subseteq deeds'
    BY <1>4 DEF WinUnnames
  <2>2. dir'[Candidate] = Absent
    BY <1>t, <2>1
  <2>3. before[1][Candidate] = Absent /\ \A v \in Numbers \ {Candidate} :
           before[1][v] # Absent => dir[v] # Absent
    BY <1>t, <2>1 DEF WinFound, WinOthers, WinUndisturbed
  <2>4. had \in Numbers /\ before[1][had] # Absent
    BY <1>w, <2>1, WinLoaded
  <2> HIDE DEF had, next, is
  <2>5. dir'[had] # Absent
    BY <1>t, <2>1, <2>3, <2>4
  <2> QED
    BY <1>k, <1>v, <2>2, <2>4, <2>5
<1>5. CASE WinRegisters
  <2>1. /\ UNCHANGED <<dir, content, before>> /\ pc = "persist" /\ local'.pv = Candidate
        /\ "removed" \notin deeds
    BY <1>5 DEF WinRegisters
  <2>2. Win!Whole(dir[Candidate])
    BY <1>t, <2>1 DEF WinRegistered, WinUndisturbed
  <2>3. dir'[Candidate] # Absent /\ Win!Whole(dir[Candidate])'
    BY <2>1, <2>2 DEF Win!Whole
  <2> HIDE DEF next
  <2>4. next = Candidate
    BY <1>t, <1>k, <2>1, <2>3
  <2>5. Candidate # Absent
    BY DEF Registrable, Numbered
  <2> QED
    BY <2>3, <2>4, <2>5
<1>6. CASE ~Win!Run
  <2>1. /\ pc # "idle" /\ before' = before /\ deeds \subseteq deeds'
        /\ \/ UNCHANGED <<dir, content>> /\ local'.pv \in {local.pv, is}
           \/ UNCHANGED local /\ \E v \in Numbers :
                 /\ Win!Fresh # {} /\ dir' = [dir EXCEPT ![v] = Win!Min(Win!Fresh)]
                 /\ content' = [content EXCEPT ![Win!Min(Win!Fresh)] = "plain"]
    BY <1>6, WinOutside
  <2>2. is # Absent /\ Win!Whole(dir[is])
    BY <1>w, <2>1
  <2>3. is \in Numbers /\ dir[is] \in Win!Inode
    BY <1>t, <1>l, <2>2 DEF Win!Whole
  <2>4. CASE UNCHANGED <<dir, content>> /\ local'.pv \in {local.pv, is}
    <3>1. next = is
      <4>1. CASE local'.pv = local.pv
        BY <2>4, <4>1
      <4>2. CASE local'.pv = is
        <5> HIDE DEF is, next
        <5> QED
          BY <1>k, <2>2, <2>3, <2>4, <4>2 DEF Win!Whole
      <4> QED
        BY <2>4, <4>1, <4>2
    <3> HIDE DEF is, next
    <3> QED
      BY <2>2, <2>3, <2>4, <3>1 DEF Win!Whole
  <2>5. ASSUME UNCHANGED local, NEW v \in Numbers, Win!Fresh # {},
               dir' = [dir EXCEPT ![v] = Win!Min(Win!Fresh)],
               content' = [content EXCEPT ![Win!Min(Win!Fresh)] = "plain"]
        PROVE  next # Absent /\ (next = Candidate => Win!Whole(dir[Candidate])')
    <3>1. Win!Min(Win!Fresh) \in Win!Inode
      BY <2>5, WinFresh DEF Win!Fresh
    <3> HIDE DEF is, next
    <3>2. dir'[v] # Absent /\ \A w \in Numbers \ {v} : dir'[w] = dir[w]
      BY <1>t, <2>5, <3>1
    <3>3. next # Absent
      BY <1>k, <1>v, <3>2
    <3>4. CASE v = Candidate
      BY <1>t, <2>5, <3>1, <3>3, <3>4 DEF Win!Whole
    <3>5. CASE v # Candidate /\ next = Candidate
      <4>1. dir'[Candidate] = dir[Candidate] /\ dir[Candidate] # Absent
        BY <1>t, <1>k, <3>2, <3>5, <3>3
      <4>2. is = Candidate
        <5>1. CASE local.pv \in Numbers /\ dir[local.pv] # Absent
          <6>1. dir'[local.pv] # Absent
            BY <3>2, <5>1
          <6> QED
            BY <1>k, <1>l, <2>5, <3>5, <5>1, <6>1
        <5>2. CASE ~(local.pv \in Numbers /\ dir[local.pv] # Absent)
          <6>1. \A w \in Numbers : dir[w] # Absent => w <= is
            BY <1>l, <5>2
          <6>2. Candidate <= is
            BY <1>t, <4>1, <6>1
          <6>3. CASE local.pv \in Numbers /\ dir'[local.pv] # Absent
            BY <1>k, <2>5, <3>2, <3>5, <5>2, <6>3
          <6>4. CASE ~(local.pv \in Numbers /\ dir'[local.pv] # Absent)
            <7>1. \A w \in Numbers : dir'[w] # Absent => w <= next
              BY <1>k, <2>5, <6>4
            <7>2. dir'[is] # Absent
              BY <2>3, <3>2, <2>2 DEF Win!Whole
            <7>3. is <= Candidate
              BY <2>3, <3>5, <7>1, <7>2
            <7>4. is \in Int /\ Candidate \in Int
              BY <1>t, <2>3
            <7> QED
              BY <6>2, <7>3, <7>4
          <6> QED
            BY <6>3, <6>4
        <5> QED
          BY <5>1, <5>2
      <4> QED
        BY <1>c, <2>2, <2>3, <3>3, <4>1, <4>2 DEF Win!Whole
    <3> QED
      BY <3>3, <3>4, <3>5
  <2> QED
    BY <2>1, <2>4, <2>5
<1> QED
  BY <1>2, <1>3, <1>4, <1>5, <1>6, WinSteps

LEMMA WinStep ==
  ASSUME Registrable, WinInv, [Win!Next]_Win!vars
  PROVE  WinInv'
<1>1. CASE Win!Next
  <2>1. Win!TypeOK' /\ WinMade' /\ WinStaged' /\ WinOthers' /\ WinFound' /\ WinRegistered'
    BY <1>1, WinTypes, WinMadeStep, WinOthersStep
  <2>2. Win!AlwaysLoadable'
    BY <1>1, WinLoadableStep DEF Win!AlwaysLoadable
  <2> QED
    BY <2>1, <2>2 DEF WinInv
<1>2. CASE UNCHANGED Win!vars
  <2> USE <1>2 DEF Win!vars
  <2>1. Win!TypeOK'
    BY DEF WinInv, Win!TypeOK
  <2>2. WinMade' /\ WinStaged' /\ WinOthers' /\ WinFound' /\ WinRegistered'
    BY DEF WinInv, WinMade, WinStaged, WinOthers, WinFound, WinRegistered, WinUndisturbed, Win!Whole
  <2>3. Win!AlwaysLoadable'
    BY DEF WinInv, Win!AlwaysLoadable, Win!Whole
  <2> QED
    BY <2>1, <2>2, <2>3 DEF WinInv
<1> QED
  BY <1>1, <1>2

\* On Windows too: whatever the updater installs and the browser writes while a
\* version is added, registered or taken back, a browser that had a whole
\* component to load has one, unless others have removed a version.
THEOREM WindowsBrowserKeepsItsComponent ==
  ASSUME Registrable
  PROVE  Win!Spec => []Win!AlwaysLoadable
<1>1. Win!Init => WinInv
  BY WinInit
<1>2. WinInv /\ [Win!Next]_Win!vars => WinInv'
  BY WinStep
<1>3. WinInv => Win!AlwaysLoadable
  BY DEF WinInv
<1> QED
  BY <1>1, <1>2, <1>3, PTL DEF Win!Spec

\* Whatever is registered has an identity, and no two states of the file have one. What a
\* run knows if nobody interferes: the versions and their registration are as they were but
\* for the candidate that it has published, which is what it has looked at.
WinTold ==
    /\ pc = "idle" => deeds = {}
    /\ pc \in {"idle", "capture", "check", "pin", "authorize", "exists", "older", "stage"} =>
         published = Absent
    /\ pc \in {"reauthorize", "rename", "validate", "undo", "unname"} => published # Absent
    /\ pc \in {"reauthorize", "rename"} => staged = published
    /\ local.id <= writes /\ opened.id <= writes /\ (opened.id = local.id => opened = local)
    /\ pc = "persist" => late \/ opened = local
    /\ deeds = {} /\ pc # "done" =>
         /\ local.pv = before[2]
         /\ \A v \in Numbers \ {Candidate} : dir[v] = before[1][v]
         /\ IF pc \in {"validate", "undo", "unname"}
                \/ (pc \in {"open", "write", "compare", "persist"} /\ published # Absent)
            THEN before[1][Candidate] = Absent
            ELSE dir[Candidate] = before[1][Candidate]
         /\ pc \in {"open", "write", "compare", "persist"} => Win!IsCandidate

LEMMA WinToldInit ==
  ASSUME Registrable, Win!Init
  PROVE  WinTold
<1>1. /\ pc = "idle" /\ deeds = {} /\ published = Absent /\ opened = local /\ writes = 1
      /\ before = <<dir, local.pv>> /\ local.id \in {0, 1}
  BY DEF Win!Init
<1> QED
  BY <1>1 DEF WinTold

LEMMA WinToldStep ==
  ASSUME Registrable, WinInv, WinTold, [Win!Next]_(Win!vars)
  PROVE  WinTold'
<1> USE DEF Win!Sound, Win!Held, Win!Goto, Win!Ends, Win!World, Win!State, Win!Mine, Win!Drop,
   Win!Check
<1> DEFINE Absenting == {"validate", "undo", "unname"}
           Registering == {"open", "write", "compare", "persist"}
<1>t. /\ pc \in {"idle", "capture", "check", "pin", "authorize", "exists", "older", "stage",
                 "reauthorize", "rename", "validate", "open", "write", "compare", "persist",
                 "undo", "unname", "done"}
      /\ dir \in [Numbers -> Win!Inode \cup {Absent}] /\ Candidate \in Numbers
      /\ before \in [Numbers -> Win!Inode \cup {Absent}] \X (Numbers \cup {Absent, Torn})
      /\ local \in Win!File /\ opened \in Win!File /\ writes \in 0..MaxWrites /\ MaxWrites \in Nat
      /\ late \in BOOLEAN /\ staged \in Win!Inode \cup {Absent} /\ Absent \notin Win!Inode
  BY DEF WinInv, Win!TypeOK, Registrable, Numbered, Win!Inode
<1>f. local.id \in 0..MaxWrites /\ opened.id \in 0..MaxWrites
  BY <1>t DEF Win!File
<1>i. UNCHANGED <<dir, content>> => (Win!IsCandidate' <=> Win!IsCandidate)
  BY DEF Win!IsCandidate, Win!Latest, Win!Versions
<1>1. CASE Win!SelectTarget
  <2>1. /\ before' = <<dir, local.pv>> /\ deeds' = {} /\ pc' \in {"capture", "done"}
        /\ UNCHANGED <<dir, local, opened, writes, late, published, staged>> /\ pc = "idle"
    BY <1>1 DEF Win!SelectTarget
  <2> QED
    BY <2>1 DEF WinTold
<1>2. CASE Win!Capture \/ Win!CheckTarget \/ Win!PinDirectories \/ Win!Authorize \/ Win!Older
  <2>1. /\ pc \in {"capture", "check", "pin", "authorize", "older"}
        /\ pc' \in {"check", "pin", "authorize", "exists", "stage", "done"}
        /\ UNCHANGED <<dir, before, deeds, local, opened, writes, late, published>>
    BY <1>2 DEF Win!Capture, Win!CheckTarget, Win!PinDirectories, Win!Authorize, Win!Older
  <2> QED
    BY <2>1 DEF WinTold
<1>3. CASE Win!Exists
  <2>1. /\ pc = "exists" /\ pc' \in {"older", "open", "done"}
        /\ pc' = "open" => Win!IsCandidate
        /\ UNCHANGED <<dir, content, before, deeds, local, opened, writes, late, published>>
    BY <1>3 DEF Win!Exists
  <2> QED
    BY <1>i, <2>1 DEF WinTold
<1>4. CASE Win!Stage
  <2>1. /\ pc = "stage" /\ pc' \in {"reauthorize", "done"}
        /\ pc' = "reauthorize" => staged' = published' /\ published' # Absent
        /\ UNCHANGED <<dir, before, deeds, local, opened, writes, late>>
    BY <1>4, <1>t, WinFresh DEF Win!Stage, Win!Fresh
  <2> QED
    BY <2>1 DEF WinTold
<1>5. CASE Win!Reauthorize
  BY <1>5 DEF Win!Reauthorize, WinTold
<1>6. CASE Win!Rename
  <2>1. /\ pc = "rename"
        /\ \/ /\ pc' = "validate" /\ dir[Candidate] = Absent
              /\ dir' = [dir EXCEPT ![Candidate] = staged]
           \/ pc' = "done" /\ dir' = dir
        /\ UNCHANGED <<before, deeds, local, opened, writes, late, published>>
    BY <1>6 DEF Win!Rename
  <2> QED
    BY <1>t, <2>1 DEF WinTold
<1>7. CASE Win!Validate
  <2>1. /\ pc = "validate" /\ pc' \in {"open", "undo"}
        /\ pc' = "open" => Win!IsCandidate
        /\ UNCHANGED <<dir, content, before, deeds, local, opened, writes, late, published>>
    BY <1>7 DEF Win!Validate
  <2>2. deeds = {} => before[1][Candidate] = Absent
    BY <2>1 DEF WinTold
  <2> QED
    BY <1>i, <2>1, <2>2 DEF WinTold
<1>8. CASE Win!Undo \/ Win!Unname
  <2>1. /\ pc \in {"undo", "unname"} /\ pc' \in {"unname", "done"}
        /\ pc' = "unname" => UNCHANGED dir
        /\ UNCHANGED <<before, deeds, local, opened, writes, late, published>>
    BY <1>8 DEF Win!Undo, Win!Unname
  <2> QED
    BY <2>1 DEF WinTold
<1>u. ASSUME Win!Unregistered, UNCHANGED <<dir, before, deeds, local, opened, writes, published>>,
             pc \in Registering
      PROVE  WinTold'
  <2>1. \/ published = Absent /\ pc' = "done"
        \/ published # Absent /\ pc' = "undo"
    BY <1>u DEF Win!Unregistered
  <2> QED
    BY <1>u, <2>1 DEF WinTold
<1>9. CASE Win!OpenState
  <2>1. /\ pc = "open" /\ UNCHANGED <<dir, content, before, deeds, local, writes, published, late>>
        /\ \/ pc' = "write" /\ opened' = local
           \/ Win!Unregistered /\ UNCHANGED opened
    BY <1>9 DEF Win!OpenState
  <2>2. CASE pc' = "write" /\ opened' = local
    BY <1>i, <2>1, <2>2 DEF WinTold
  <2>3. CASE Win!Unregistered /\ UNCHANGED opened
    BY <1>u, <2>1, <2>3
  <2> QED
    BY <2>1, <2>2, <2>3
<1>10. CASE Win!WriteState
  <2>1. /\ pc = "write" /\ UNCHANGED <<dir, content, before, deeds, local, writes, published, opened, late>>
        /\ pc' = "compare" \/ Win!Unregistered
    BY <1>10, Zenon DEF Win!WriteState
  <2>2. CASE pc' = "compare"
    BY <1>i, <2>1, <2>2 DEF WinTold
  <2> QED
    BY <1>u, <2>1, <2>2
<1>11. CASE Win!Compare
  <2>1. /\ pc = "compare" /\ UNCHANGED <<dir, content, before, deeds, local, writes, published, opened>>
        /\ \/ pc' = "persist" /\ local.id = opened.id
           \/ Win!Unregistered
    BY <1>11 DEF Win!Compare
  <2>2. CASE pc' = "persist" /\ local.id = opened.id
    BY <1>i, <2>1, <2>2 DEF WinTold
  <2> QED
    BY <1>u, <2>1, <2>2
<1>12. CASE Win!Persist
  <2>1. /\ pc = "persist" /\ UNCHANGED <<dir, content, before, deeds, published, opened, late>>
        /\ \/ /\ pc' = "done" /\ writes' = writes + 1
              /\ local' = [id |-> writes + 1, pv |-> Candidate, seen |-> opened.seen]
           \/ Win!Unregistered /\ UNCHANGED <<local, writes>>
    BY <1>12 DEF Win!Persist
  <2>2. CASE /\ pc' = "done" /\ writes' = writes + 1
             /\ local' = [id |-> writes + 1, pv |-> Candidate, seen |-> opened.seen]
    <3>1. /\ local'.id = writes + 1 /\ opened.id <= writes /\ opened.id \in Nat /\ writes \in Nat
          /\ opened' = opened
      BY <1>f, <1>t, <2>1, <2>2 DEF WinTold
    <3>2. local'.id <= writes' /\ opened'.id <= writes' /\ opened'.id # local'.id
      BY <2>2, <3>1
    <3> QED
      BY <2>2, <3>2 DEF WinTold
  <2>3. CASE Win!Unregistered /\ UNCHANGED <<local, writes>>
    BY <1>u, <2>1, <2>3
  <2> QED
    BY <2>1, <2>2, <2>3
<1>13. ASSUME NEW d, Win!Outside(d) PROVE /\ pc # "idle" /\ deeds' # {}
                                          /\ UNCHANGED <<staged, published, opened, pc>>
  BY <1>13 DEF Win!Outside
<1>14. CASE Win!Replace \/ \E v \in Numbers : Win!Update(v) \/ Win!Remove(v)
  <2>1. /\ pc # "idle" /\ deeds' # {} /\ UNCHANGED <<staged, published, opened, pc>>
        /\ UNCHANGED <<local, writes, late>>
    BY <1>13, <1>14 DEF Win!Replace, Win!Update, Win!Remove
  <2> QED
    BY <2>1 DEF WinTold
<1>15. CASE Win!Write
  <2>1. /\ pc # "idle" /\ deeds' # {} /\ UNCHANGED <<staged, published, opened, pc>>
        /\ writes' = writes + 1 /\ local'.id = writes + 1 /\ late' = (late \/ pc = "persist")
    BY <1>13, <1>15 DEF Win!Write
  <2>2. opened.id <= writes /\ opened.id \in Nat /\ writes \in Nat
    BY <1>f, <1>t DEF WinTold
  <2>3. local'.id <= writes' /\ opened'.id <= writes' /\ opened'.id # local'.id
    BY <2>1, <2>2
  <2> QED
    BY <2>1, <2>3 DEF WinTold
<1>16. CASE UNCHANGED Win!vars
  BY <1>i, <1>16 DEF Win!vars, WinTold
<1> QED
  BY <1>1, <1>2, <1>3, <1>4, <1>5, <1>6, <1>7, <1>8, <1>9, <1>10, <1>11, <1>12, <1>14, <1>15, <1>16
     DEF Win!Next, Win!Run

\* What a step promises.
LEMMA WinEnds ==
  ASSUME Registrable, WinInv, WinTold, Win!Next
  PROVE  Win!Immutable /\ Win!StateKept /\ Win!SuccessIsLoaded /\ Win!ErrorRestores
<1> USE DEF Win!Sound, Win!Held, Win!Goto, Win!Ends, Win!World, Win!State, Win!Mine, Win!Drop,
   Win!Check
<1>t. /\ dir \in [Numbers -> Win!Inode \cup {Absent}] /\ Candidate \in Numbers
      /\ before \in [Numbers -> Win!Inode \cup {Absent}] \X (Numbers \cup {Absent, Torn})
  BY DEF WinInv, Win!TypeOK, Registrable, Numbered
<1>a. ASSUME UNCHANGED dir PROVE Win!Immutable
  BY <1>a DEF Win!Immutable
<1>b. ASSUME UNCHANGED local PROVE Win!StateKept
  BY <1>b DEF Win!StateKept
<1>c. ASSUME result' # "ok" \/ result = "ok" PROVE Win!SuccessIsLoaded
  BY <1>c DEF Win!SuccessIsLoaded
<1>d. ASSUME result' \notin {"error", "refused"} \/ result # "none" \/ deeds # {} PROVE Win!ErrorRestores
  BY <1>d DEF Win!ErrorRestores
<1>e. ASSUME UNCHANGED <<dir, local>>, deeds = {}, pc # "done", dir[Candidate] = before[1][Candidate]
      PROVE  Win!ErrorRestores
  <2>1. \A v \in Numbers : dir[v] = before[1][v]
    BY <1>e DEF WinTold
  <2>2. dir = before[1] /\ local.pv = before[2]
    BY <1>e, <1>t, <2>1 DEF WinTold
  <2> QED
    BY <1>e, <1>t, <2>2 DEF Win!ErrorRestores
<1>u. ASSUME Win!Unregistered, UNCHANGED <<dir, local>>, pc \in {"open", "write", "compare", "persist"}
      PROVE  Win!Immutable /\ Win!StateKept /\ Win!SuccessIsLoaded /\ Win!ErrorRestores
  <2>1. \/ published = Absent /\ result' = "error"
        \/ result' = result
    BY <1>u DEF Win!Unregistered
  <2>2. published = Absent /\ deeds = {} => dir[Candidate] = before[1][Candidate]
    BY <1>u DEF WinTold
  <2>3. result' = result => Win!ErrorRestores
    BY <1>d
  <2>4. Win!ErrorRestores
    BY <1>d, <1>e, <1>u, <2>1, <2>2, <2>3
  <2> QED
    BY <1>a, <1>b, <1>c, <1>u, <2>1, <2>4
<1>1. CASE Win!SelectTarget \/ Win!Capture \/ Win!CheckTarget \/ Win!PinDirectories \/ Win!Authorize
           \/ Win!Exists \/ Win!Older \/ Win!Stage \/ Win!Reauthorize
  <2>1. /\ UNCHANGED <<dir, local>> /\ result' \in {result, "error", "refused"}
        /\ pc \in {"idle", "capture", "check", "pin", "authorize", "exists", "older", "stage",
                   "reauthorize"}
    BY <1>1 DEF Win!SelectTarget, Win!Capture, Win!CheckTarget, Win!PinDirectories, Win!Authorize,
       Win!Exists, Win!Older, Win!Stage, Win!Reauthorize
  <2>2. deeds = {} => dir[Candidate] = before[1][Candidate]
    BY <2>1 DEF WinTold
  <2>3. Win!ErrorRestores
    BY <1>d, <1>e, <2>1, <2>2
  <2> QED
    BY <1>a, <1>b, <1>c, <2>1, <2>3
<1>2. CASE Win!Rename
  <2>1. CASE dir' = dir /\ result' = "error" /\ local' = local /\ pc = "rename"
    <3>1. deeds = {} => dir[Candidate] = before[1][Candidate]
      BY <2>1 DEF WinTold
    <3> QED
      BY <1>a, <1>b, <1>c, <1>d, <1>e, <2>1, <3>1
  <2>2. CASE /\ dir[Candidate] = Absent /\ dir' = [dir EXCEPT ![Candidate] = staged]
             /\ result' = result /\ local' = local /\ pc = "rename"
    <3>1. staged = published
      BY <2>2 DEF WinTold
    <3>2. Win!Immutable
      BY <1>t, <2>2, <3>1 DEF Win!Immutable
    <3> QED
      BY <1>b, <1>c, <1>d, <2>2, <3>2
  <2> QED
    BY <1>2, <2>1, <2>2 DEF Win!Rename
<1>3. CASE Win!Validate \/ Win!Undo
  <2>1. UNCHANGED <<dir, local>> /\ result' \in {result, "stuck"}
    BY <1>3 DEF Win!Validate, Win!Undo
  <2> QED
    BY <1>a, <1>b, <1>c, <1>d, <2>1
<1>4. CASE Win!Unname
  <2>1. Win!Immutable /\ Win!StateKept /\ Win!SuccessIsLoaded
    BY <1>b, <1>c, <1>4 DEF Win!Unname, Win!Immutable
  <2>2. ASSUME result' = "error", deeds = {} PROVE <<dir', local'.pv>> = before
    <3>1. pc = "unname" /\ dir' = [dir EXCEPT ![Candidate] = Absent] /\ local' = local
      BY <1>4, <2>2 DEF Win!Unname
    <3>2. before[1][Candidate] = Absent /\ \A v \in Numbers \ {Candidate} : dir[v] = before[1][v]
      BY <2>2, <3>1 DEF WinTold
    <3>3. local.pv = before[2]
      BY <2>2, <3>1 DEF WinTold
    <3>4. dir' = before[1]
      BY <1>t, <3>1, <3>2
    <3> QED
      BY <1>t, <3>1, <3>3, <3>4
  <2>3. (result' \in {result, "error", "stuck"} /\ result' # "refused") \/ result = "refused"
    BY <1>4 DEF Win!Unname
  <2>4. Win!ErrorRestores
    BY <2>2, <2>3 DEF Win!ErrorRestores
  <2> QED
    BY <2>1, <2>4
<1>5. CASE Win!OpenState \/ Win!WriteState \/ Win!Compare
  <2>1. /\ UNCHANGED <<dir, local>> /\ pc \in {"open", "write", "compare"}
        /\ result' = result \/ Win!Unregistered
    BY <1>5, Zenon DEF Win!OpenState, Win!WriteState, Win!Compare
  <2> QED
    BY <1>a, <1>b, <1>c, <1>d, <1>u, <2>1
<1>6. CASE Win!Persist
  <2>1. CASE Win!Unregistered /\ UNCHANGED <<dir, local>> /\ pc = "persist"
    BY <1>u, <2>1
  <2>2. CASE /\ local' = [id |-> writes + 1, pv |-> Candidate, seen |-> opened.seen]
             /\ UNCHANGED <<dir, content>> /\ result' = "ok" /\ pc = "persist"
    <3>1. Win!StateKept
      BY <2>2 DEF WinTold, Win!StateKept
    <3>2. ASSUME deeds = {}
          PROVE  Win!Loaded(dir', local'.pv) = Candidate /\ content[dir'[Candidate]] = "selected"
      <4>1. dir[Candidate] # Absent /\ content[dir[Candidate]] = "selected"
        BY <2>2, <3>2 DEF WinTold, Win!IsCandidate
      <4>2. local'.pv = Candidate /\ Candidate \in Win!Versions(dir')
        BY <1>t, <2>2, <4>1 DEF Win!Versions
      <4> QED
        BY <2>2, <4>1, <4>2 DEF Win!Loaded
    <3>3. Win!SuccessIsLoaded
      BY <3>2 DEF Win!SuccessIsLoaded
    <3> QED
      BY <1>a, <1>d, <2>2, <3>1, <3>3
  <2> QED
    BY <1>6, <2>1, <2>2 DEF Win!Persist
<1>7. ASSUME NEW d, Win!Outside(d), ~Win!Run
      PROVE  Win!Immutable /\ Win!StateKept /\ Win!SuccessIsLoaded /\ Win!ErrorRestores
  <2>1. Win!Immutable /\ Win!StateKept
    BY <1>7 DEF Win!Immutable, Win!StateKept
  <2>2. result' = result
    BY <1>7 DEF Win!Outside
  <2> QED
    BY <1>c, <1>d, <2>1, <2>2
<1> QED
  BY <1>1, <1>2, <1>3, <1>4, <1>5, <1>6, <1>7
     DEF Win!Next, Win!Run, Win!Write, Win!Replace, Win!Update, Win!Remove

\* A publication on Windows replaces no version, loses nothing that the browser has written,
\* and registers what it has published or takes it back.
THEOREM WindowsEndsAsTold ==
  ASSUME Registrable
  PROVE  Win!Spec => [][/\ Win!Immutable /\ Win!StateKept /\ Win!SuccessIsLoaded
                        /\ Win!ErrorRestores]_(Win!vars)
<1>1. Win!Init => WinInv /\ WinTold
  BY WinInit, WinToldInit
<1>2. WinInv /\ WinTold /\ [Win!Next]_(Win!vars) => WinInv' /\ WinTold'
  BY WinStep, WinToldStep
<1>3. WinInv /\ WinTold /\ [Win!Next]_(Win!vars)
        => [Win!Immutable /\ Win!StateKept /\ Win!SuccessIsLoaded /\ Win!ErrorRestores]_(Win!vars)
  BY WinEnds
<1> QED
  BY <1>1, <1>2, <1>3, PTL DEF Win!Spec

(***************************************************************************)
(* Where links cannot be used one file selects the versions.  Its          *)
(* operations, entries and versions are read from variables of the same    *)
(* names; the passive reader has some of its own.                          *)
(***************************************************************************)
CONSTANTS Selectable, MaxSpoils, MaxOps, MaxReads

VARIABLES file, reader, reading, expected, ops, reads, blemished, whole, changed, cause

File == INSTANCE Selection WITH Version <- Selectable, MaxDrift <- MaxSpoils

USE DEF File!selection, File!control, File!passive, File!history

\* What an operation has decided and the lock keeps true.  Its argument is a
\* version; whatever prune is removing, the selection does not name.
OpInv ==
    /\ current \in Selectable \cup {None} /\ previous \in Selectable \cup {None}
    /\ pc \in {"fetch", "compare", "remove", "rename", "advance"} =>
         op = "ensure" /\ arg \in Selectable
    /\ op = "none" => pc = "idle"
    /\ pc = "delete" => doomed \subseteq Selectable \ {current, previous}

LEMMA OpInvInit == File!Init => OpInv
  BY DEF File!Init, OpInv

LEMMA OpInvStep == OpInv /\ [File!Next]_(File!vars) => OpInv'
<1> SUFFICES ASSUME OpInv, [File!Next]_(File!vars) PROVE OpInv'
  OBVIOUS
<1> USE DEF OpInv, File!Goto, File!End, File!WriteSelection
<1>1. CASE UNCHANGED File!vars
  BY <1>1 DEF File!vars
<1>2. ASSUME NEW v \in Selectable, File!Begin("ensure", v, "fetch") PROVE OpInv'
  BY <1>2 DEF File!Begin
<1>3. CASE File!Begin("rollback", None, "verify") \/ File!Begin("prune", None, "list")
  BY <1>3 DEF File!Begin
<1>4. CASE File!Fetched \/ File!Compare \/ File!RemoveEntry \/ File!RenameStaged
  BY <1>4 DEF File!Fetched, File!Compare, File!RemoveEntry, File!RenameStaged
<1>5. CASE File!AdvanceCurrent
  BY <1>5 DEF File!AdvanceCurrent
<1>6. CASE File!RollbackVerify \/ File!RollbackExchange
  BY <1>6 DEF File!RollbackVerify, File!RollbackExchange, File!Resolves
<1>7. CASE File!PruneList
  BY <1>7 DEF File!PruneList, File!Spared
<1>8. CASE File!PruneDelete
  BY <1>8 DEF File!PruneDelete
<1>9. CASE File!Interrupted
  BY <1>9 DEF File!Interrupted
<1>10. CASE File!Read
  BY <1>10 DEF File!Read, File!ReadBegin, File!ReadLayout, File!ReadMetadata, File!ReadLibrary,
     File!ReadManifest, File!ReadStep,
     File!ReadEnd
<1>11. CASE File!Spoil \/ File!Restore \/ \E v \in Selectable : File!Drift(v)
  BY <1>11 DEF File!Spoil, File!Restore, File!Drift
<1> QED
  BY <1>1, <1>2, <1>3, <1>4, <1>5, <1>6, <1>7, <1>8, <1>9, <1>10, <1>11 DEF File!Next,
     File!Operation

LEMMA Decided == File!Spec => []OpInv
  BY OpInvInit, OpInvStep, PTL DEF File!Spec

\* A step of the cache advances, exchanges or leaves alone what is selected.
LEMMA SelectionMoves ==
  ASSUME OpInv, [File!Next]_(File!vars)
  PROVE  File!Slots!Next \/ UNCHANGED File!Slots!slots
<1> USE DEF File!Slots!slots, File!Goto, File!End, File!WriteSelection
<1>1. CASE File!AdvanceCurrent
  BY <1>1 DEF File!AdvanceCurrent, OpInv, File!Slots!Next, File!Slots!Advance
<1>2. CASE File!RollbackExchange
  BY <1>2 DEF File!RollbackExchange, File!Slots!Next, File!Slots!Exchange
<1>3. CASE \/ \E v \in Selectable : File!Begin("ensure", v, "fetch")
           \/ File!Begin("rollback", None, "verify") \/ File!Begin("prune", None, "list")
           \/ File!Fetched \/ File!Compare \/ File!RemoveEntry \/ File!RenameStaged
           \/ File!RollbackVerify
           \/ File!PruneList \/ File!PruneDelete \/ File!Interrupted
  BY <1>3 DEF File!Begin, File!Fetched, File!Compare, File!RemoveEntry, File!RenameStaged,
     File!RollbackVerify, File!PruneList,
     File!PruneDelete, File!Interrupted
<1>4. CASE File!Read
  BY <1>4 DEF File!Read, File!ReadBegin, File!ReadLayout, File!ReadMetadata, File!ReadLibrary,
     File!ReadManifest, File!ReadStep,
     File!ReadEnd
<1>5. CASE File!Spoil \/ File!Restore \/ (\E v \in Selectable : File!Drift(v)) \/ UNCHANGED File!vars
  BY <1>5 DEF File!Spoil, File!Restore, File!Drift, File!vars
<1> QED
  BY <1>1, <1>2, <1>3, <1>4, <1>5 DEF File!Next, File!Operation

\* The selection file implements TwoSlots: interrupted anywhere, read at any moment,
\* it has changed by whole advances and whole exchanges (cache/mod.rs:1198-1255).
THEOREM SelectionSwitchesWhole == File!Spec => File!SwitchesWhole
<1>1. File!Init => File!Slots!Init
  BY DEF File!Init, File!Slots!Init
<1>2. OpInv /\ [File!Next]_(File!vars) => [File!Slots!Next]_(File!Slots!slots)
  BY SelectionMoves
<1> QED
  BY <1>1, <1>2, Decided, PTL DEF File!Spec, File!SwitchesWhole, File!Slots!Spec

\* What others leave of an entry is still one.
LEMMA DriftWrites ==
  ASSUME entry \in [Selectable -> File!Entry \cup {None}], NEW u \in Selectable, File!Drift(u)
  PROVE  \E c \in File!Entry : entry' = [entry EXCEPT ![u] = c]
<1>1. entry[u] \in File!Entry
  BY DEF File!Drift
<1>2. /\ [entry[u] EXCEPT !.lib = "other"] \in File!Entry
      /\ [entry[u] EXCEPT !.man = "other"] \in File!Entry
      /\ [entry[u] EXCEPT !.meta = <<"unusable">>] \in File!Entry
  BY <1>1 DEF File!Entry, File!Payload
<1>3. ASSUME <<entry[u].lib, entry[u].man>> \in File!Digests
      PROVE  [entry[u] EXCEPT !.meta = <<entry[u].lib, entry[u].man>>] \in File!Entry
  BY <1>1, <1>3 DEF File!Entry
<1> QED
  BY <1>2, <1>3 DEF File!Drift

\* An entry is a directory, whole or not, or there is none.
Typed == entry \in [Selectable -> File!Entry \cup {None}]

LEMMA Entries ==
    /\ File!Vendor \in File!Entry /\ File!Emptied \in File!Entry
     /\ [File!Vendor EXCEPT !.meta = <<"unusable">>] \in File!Entry
    /\ File!Consistent(File!Vendor) <=> File!Vendor # None
BY DEF File!Vendor, File!Emptied, File!Entry, File!Payload, File!Digests, File!Consistent

LEMMA EntryInit == File!Init => Typed
  BY Entries DEF File!Init, Typed

\* A removal leaves what is an entry still.
LEMMA RemovedType ==
  ASSUME Typed, NEW v \in Selectable, File!Removed(v)
  PROVE  Typed'
<1> USE DEF Typed
<1>1. CASE entry[v] = File!Emptied /\ entry' = [entry EXCEPT ![v] = None]
  BY <1>1
<1>2. ASSUME entry[v] \notin {None, File!Emptied}, NEW part \in {"lib", "man", "meta"},
             entry' = [entry EXCEPT ![v] = [entry[v] EXCEPT ![part] = File!Emptied[part]]]
      PROVE  Typed'
  <2>1. entry[v] \in File!Entry
    BY <1>2
  <2>2. [entry[v] EXCEPT ![part] = File!Emptied[part]] \in File!Entry
    <3>1. CASE part = "lib"
      BY <2>1, <3>1 DEF File!Entry, File!Emptied, File!Payload
    <3>2. CASE part = "man"
      BY <2>1, <3>2 DEF File!Entry, File!Emptied, File!Payload
    <3>3. CASE part = "meta"
      BY <2>1, <3>3 DEF File!Entry, File!Emptied, File!Payload
    <3> QED
      BY <3>1, <3>2, <3>3
  <2> QED
    BY <1>2, <2>2
<1> QED
  BY <1>1, <1>2 DEF File!Removed

LEMMA EntryStep ==
  ASSUME Typed, OpInv, [File!Next]_(File!vars)
  PROVE  Typed'
<1> USE DEF Typed
<1>1. CASE File!Compare \/ File!RenameStaged
  BY Entries, <1>1 DEF File!Compare, File!RenameStaged, OpInv
<1>2. CASE File!RemoveEntry
  BY RemovedType, <1>2 DEF File!RemoveEntry, OpInv
<1>3. CASE File!PruneDelete
  BY RemovedType, <1>3 DEF File!PruneDelete, OpInv
<1>4. ASSUME NEW u \in Selectable, File!Drift(u) PROVE Typed'
  BY <1>4, DriftWrites
<1>5. CASE \/ \E u \in Selectable : File!Begin("ensure", u, "fetch")
           \/ File!Begin("rollback", None, "verify") \/ File!Begin("prune", None, "list")
           \/ File!Fetched \/ File!AdvanceCurrent \/ File!RollbackVerify \/ File!RollbackExchange
           \/ File!PruneList \/ File!Interrupted
  BY <1>5 DEF File!Begin, File!Fetched, File!AdvanceCurrent, File!RollbackVerify,
     File!RollbackExchange, File!PruneList,
     File!Interrupted
<1>6. CASE File!Read
  BY <1>6 DEF File!Read, File!ReadBegin, File!ReadLayout, File!ReadMetadata, File!ReadLibrary,
     File!ReadManifest,
     File!ReadStep, File!ReadEnd
<1>7. CASE File!Spoil \/ File!Restore \/ UNCHANGED File!vars
  BY <1>7 DEF File!Spoil, File!Restore, File!vars
<1> QED
  BY <1>1, <1>2, <1>3, <1>4, <1>5, <1>6, <1>7 DEF File!Next, File!Operation

LEMMA EntryType == File!Spec => []Typed
  BY EntryInit, EntryStep, Decided, PTL DEF File!Spec

\* A step that is not the ensure of a version, nor others', keeps what is selected.
LEMMA SelectionKeeps ==
  ASSUME None \notin File!Entry, Typed, Typed', OpInv, [File!Next]_(File!vars)
  PROVE  File!SelectedKept
<1> SUFFICES ASSUME NEW v \in {current, previous} \ {None}, entry[v] # None, entry'[v] = None
             PROVE  op = "ensure" /\ arg = v
  BY DEF File!SelectedKept
<1> USE DEF File!Goto, File!End, Typed
<1>0. v \in Selectable
  BY DEF OpInv
<1>v. File!Vendor \in File!Entry /\ File!Vendor # None
  BY DEF File!Vendor, File!Entry, File!Payload, File!Digests
<1>1. CASE File!Compare \/ File!RemoveEntry \/ File!RenameStaged
  BY <1>0, <1>v, <1>1 DEF File!Compare, File!RemoveEntry, File!RenameStaged, File!Removed, OpInv
<1>2. CASE File!PruneDelete
  BY <1>0, <1>2 DEF File!PruneDelete, File!Removed, OpInv
<1>3. ASSUME NEW u \in Selectable, File!Drift(u) PROVE FALSE
  BY <1>0, <1>3, DriftWrites
<1>4. CASE \/ \E u \in Selectable : File!Begin("ensure", u, "fetch")
           \/ File!Begin("rollback", None, "verify") \/ File!Begin("prune", None, "list")
           \/ File!Fetched \/ File!AdvanceCurrent \/ File!RollbackVerify \/ File!RollbackExchange
           \/ File!PruneList \/ File!Interrupted
  BY <1>4 DEF File!Begin, File!Fetched, File!AdvanceCurrent, File!RollbackVerify,
     File!RollbackExchange, File!PruneList,
     File!Interrupted
<1>5. CASE File!Read
  BY <1>5 DEF File!Read, File!ReadBegin, File!ReadLayout, File!ReadMetadata, File!ReadLibrary,
     File!ReadManifest, File!ReadStep,
     File!ReadEnd
<1>6. CASE File!Spoil \/ File!Restore \/ UNCHANGED File!vars
  BY <1>6 DEF File!Spoil, File!Restore, File!vars
<1> QED
  BY <1>1, <1>2, <1>3, <1>4, <1>5, <1>6 DEF File!Next, File!Operation

\* A version that is selected, or that a rollback would select, stays in the cache:
\* only an ensure of that version, or somebody else, removes it
\* (cache/mod.rs:365, 500-513).
THEOREM SelectionKept ==
  ASSUME None \notin File!Entry
  PROVE  File!Spec => [][File!SelectedKept]_(File!vars)
<1>1. Typed /\ Typed' /\ OpInv /\ [File!Next]_(File!vars) => [File!SelectedKept]_(File!vars)
  BY SelectionKeeps
<1> QED
  BY <1>1, Decided, EntryType, PTL DEF File!Spec

(***************************************************************************)
(* The reader that takes no lock.                                          *)
(***************************************************************************)

\* What the theorems below ask of the constants.
Fitting ==
    /\ None \notin Selectable /\ None \notin File!Entry
    /\ MaxOps \in Nat /\ MaxReads \in Nat /\ MaxSpoils \in Nat

Active == reader \in {"layout", "metadata", "library", "manifest"}

\* A selected version is the vendor's unless others have changed it; a version that
\* is about to be selected likewise; and of the selected ones only those that others
\* have changed are removed to be replaced.
SelectedWhole ==
    /\ \A v \in Selectable : v \in {current, previous} /\ v \notin blemished => entry[v] = File!Vendor
    /\ pc = "advance" /\ arg \notin blemished => entry[arg] = File!Vendor
    /\ pc = "remove" /\ arg \in {current, previous} => arg \in blemished

\* The reader notices an entry that agrees with its metadata.  If it has not, and
\* nobody else has written, the files it has still to look at differ from the
\* metadata it has read.
Suspicious ==
    /\ Active => reading \in Selectable
    /\ Active /\ File!Consistent(entry[reading]) => whole
    /\ reader \in {"library", "manifest"} => expected \in File!Digests
    /\ reader = "library" /\ ~whole /\ ~changed =>
         \/ entry[reading] = None
         \/ entry[reading].lib # expected[1] \/ entry[reading].man # expected[2]
    /\ reader = "manifest" /\ ~whole /\ ~changed =>
         entry[reading] = None \/ entry[reading].man # expected[2]

\* Without a cause the version is still selected and as the vendor made it.
Trusting ==
    /\ Active /\ ~cause => reading \in {current, previous} \ blemished
    /\ reader \in {"library", "manifest"} /\ ~cause => expected = <<"vendor", "vendor">>

ReaderInv ==
    File!TypeOK /\ OpInv /\ SelectedWhole /\ Suspicious /\ Trusting
      /\ File!AcceptedWasWhole /\ File!AlarmHasCause

Counters == ops \in 0..MaxOps /\ reads \in 0..MaxReads /\ drifts \in 0..MaxSpoils

LEMMA ReaderInit == Fitting /\ File!Init => ReaderInv
<1> SUFFICES ASSUME Fitting, File!Init PROVE ReaderInv
    OBVIOUS
<1>1. entry \in [Selectable -> File!Entry \cup {None}] /\ blemished \subseteq Selectable
    BY Entries DEF File!Init
<1>2. File!TypeOK
    <2>1. Counters
        BY DEF File!Init, Counters, Fitting
    <2> QED
        BY <1>1, <2>1 DEF File!Init, File!TypeOK, Counters
<1>3. OpInv
    BY OpInvInit
<1> QED
    BY <1>2, <1>3 DEF File!Init, ReaderInv, SelectedWhole, Suspicious, Trusting, Active,
       File!AcceptedWasWhole, File!AlarmHasCause, Fitting

\* Every step keeps the types.
LEMMA TypeStep ==
  ASSUME Fitting, File!TypeOK, OpInv, [File!Next]_(File!vars)
  PROVE  File!TypeOK'
<1>1. Typed'
  BY EntryStep DEF File!TypeOK, Typed
<1>2. Counters'
  <2> USE DEF Counters, File!TypeOK, Fitting
  <2>1. CASE File!Operation
    BY <2>1 DEF File!Operation, File!Begin, File!Fetched, File!Compare, File!RemoveEntry,
       File!RenameStaged, File!AdvanceCurrent,
       File!RollbackVerify, File!RollbackExchange, File!PruneList, File!PruneDelete,
       File!Interrupted
  <2>2. CASE File!Read
    <3>1. /\ ops' = ops /\ drifts' = drifts
          /\ reads' = reads \/ (reads < MaxReads /\ reads' = reads + 1)
      <4> HIDE DEF Counters, File!TypeOK, Fitting
      <4> QED
        BY <2>2 DEF File!Read, File!ReadBegin, File!ReadLayout, File!ReadMetadata,
           File!ReadLibrary, File!ReadManifest,
           File!ReadStep, File!ReadEnd
    <3> QED
      BY <3>1
  <2>3. CASE File!Spoil \/ File!Restore \/ (\E v \in Selectable : File!Drift(v)) \/ UNCHANGED File!vars
    <3>1. /\ ops' = ops /\ reads' = reads
          /\ drifts' = drifts \/ (drifts < MaxSpoils /\ drifts' = drifts + 1)
      <4> HIDE DEF Counters, File!TypeOK, Fitting
      <4> QED
        BY <2>3 DEF File!Spoil, File!Restore, File!Drift, File!vars
    <3> QED
      BY <3>1
  <2> QED
    BY <2>1, <2>2, <2>3 DEF File!Next
<1> USE DEF File!Goto, File!End, File!WriteSelection, File!Watched
<1>3. ASSUME File!Operation PROVE File!TypeOK'
  <2>1. UNCHANGED File!passive
    BY <1>3 DEF File!Operation, File!Begin, File!Fetched, File!Compare, File!RemoveEntry,
       File!RenameStaged, File!AdvanceCurrent,
       File!RollbackVerify, File!RollbackExchange, File!PruneList, File!PruneDelete,
       File!Interrupted
  <2>2. /\ file' \in {"absent", "good", "bad"}
        /\ current' \in Selectable \cup {None} /\ previous' \in Selectable \cup {None}
    BY <1>3 DEF File!TypeOK, OpInv, File!Operation, File!Begin, File!Fetched, File!Compare,
       File!RemoveEntry, File!RenameStaged,
       File!AdvanceCurrent, File!RollbackVerify, File!RollbackExchange, File!PruneList,
       File!PruneDelete, File!Interrupted
  <2>3. /\ op' \in {"none", "ensure", "rollback", "prune"} /\ arg' \in Selectable \cup {None}
        /\ pc' \in {"idle", "fetch", "compare", "remove", "rename", "advance", "verify",
                    "exchange", "list", "delete"}
    BY <1>3 DEF File!TypeOK, File!Operation, File!Begin, File!Fetched, File!Compare,
       File!RemoveEntry, File!RenameStaged,
       File!AdvanceCurrent, File!RollbackVerify, File!RollbackExchange, File!PruneList,
       File!PruneDelete, File!Interrupted
  <2>4. doomed' \subseteq Selectable
    BY <1>3 DEF File!TypeOK, File!Operation, File!Begin, File!Fetched, File!Compare,
       File!RemoveEntry, File!RenameStaged,
       File!AdvanceCurrent, File!RollbackVerify, File!RollbackExchange, File!PruneList,
       File!PruneDelete, File!Interrupted
  <2>5. blemished' \subseteq Selectable
    BY <1>3 DEF File!TypeOK, File!Operation, File!Begin, File!Fetched, File!Compare,
       File!RemoveEntry, File!RenameStaged,
       File!AdvanceCurrent, File!RollbackVerify, File!RollbackExchange, File!PruneList,
       File!PruneDelete, File!Interrupted
  <2>6. whole' \in BOOLEAN /\ changed' \in BOOLEAN /\ cause' \in BOOLEAN
    BY ZenonT(30), <1>3 DEF File!TypeOK, File!Operation, File!Begin, File!Fetched, File!Compare,
       File!RemoveEntry, File!RenameStaged,
       File!AdvanceCurrent, File!RollbackVerify, File!RollbackExchange, File!PruneList,
       File!PruneDelete, File!Interrupted
  <2> QED
    BY <1>1, <1>2, <2>1, <2>2, <2>3, <2>4, <2>5, <2>6 DEF File!TypeOK, Typed, Counters
<1>4. ASSUME File!Read PROVE File!TypeOK'
  <2>1. /\ reader' \in {"idle", "layout", "metadata", "library", "manifest", "accepted", "nothing",
                        "failed"}
        /\ reading' \in Selectable \cup {None}
    BY <1>4 DEF File!TypeOK, File!Read, File!ReadBegin, File!ReadLayout, File!ReadMetadata,
       File!ReadLibrary, File!ReadManifest,
       File!ReadStep, File!ReadEnd
  <2>2. expected' \in File!Digests \cup {<<>>}
    BY <1>4 DEF File!TypeOK, File!Read, File!ReadBegin, File!ReadLayout, File!ReadMetadata,
       File!ReadLibrary, File!ReadManifest,
       File!ReadStep, File!ReadEnd
  <2>3. whole' \in BOOLEAN /\ changed' \in BOOLEAN /\ cause' \in BOOLEAN
    BY <1>4 DEF File!TypeOK, File!Read, File!ReadBegin, File!ReadLayout, File!ReadMetadata,
       File!ReadLibrary, File!ReadManifest,
       File!ReadStep, File!ReadEnd
  <2>4. UNCHANGED <<File!selection, entry, File!control, blemished>>
    BY <1>4 DEF File!Read, File!ReadBegin, File!ReadLayout, File!ReadMetadata, File!ReadLibrary,
       File!ReadManifest,
       File!ReadStep, File!ReadEnd
  <2> QED
    BY <1>1, <1>2, <2>1, <2>2, <2>3, <2>4 DEF File!TypeOK, Typed, Counters
<1>5. ASSUME NEW v \in Selectable, File!Drift(v) PROVE File!TypeOK'
  <2>1. whole' \in BOOLEAN /\ changed' \in BOOLEAN /\ cause' \in BOOLEAN
    BY <1>5 DEF File!TypeOK, File!Drift
  <2>2. UNCHANGED <<File!selection, File!control, File!passive>> /\ blemished' = blemished \cup {v}
    BY <1>5 DEF File!Drift
  <2> QED
    BY <1>1, <1>2, <2>1, <2>2 DEF File!TypeOK, Typed, Counters
<1>6. CASE File!Spoil \/ File!Restore \/ UNCHANGED File!vars
  <2>1. /\ UNCHANGED <<current, previous, entry, File!control, File!passive, File!history>>
        /\ file' \in {"absent", "good", "bad"}
    BY <1>6 DEF File!Spoil, File!Restore, File!vars, File!TypeOK
  <2> QED
    BY <1>1, <1>2, <2>1 DEF File!TypeOK, Typed, Counters
<1> QED
  BY <1>3, <1>4, <1>5, <1>6 DEF File!Next

\* What is selected is as the vendor made it, or others have changed it: an operation
\* removes a selected version only if it was changed, and selects what it has made.
LEMMA SelectedStep ==
  ASSUME Fitting, File!TypeOK, OpInv, SelectedWhole, [File!Next]_(File!vars)
  PROVE  SelectedWhole'
<1> USE DEF File!Goto, File!End, File!WriteSelection, SelectedWhole
<1>e. entry \in [Selectable -> File!Entry \cup {None}] /\ blemished \subseteq Selectable
  BY DEF File!TypeOK
<1>v. None \notin Selectable /\ File!Vendor # None /\ File!Vendor.lib = "vendor"
      /\ File!Vendor.man = "vendor"
  BY Entries DEF Fitting, File!Vendor
<1>1. CASE \/ \E v \in Selectable : File!Begin("ensure", v, "fetch")
           \/ File!Begin("rollback", None, "verify") \/ File!Begin("prune", None, "list")
           \/ File!Fetched \/ File!RollbackVerify \/ File!PruneList \/ File!Interrupted
  BY <1>1 DEF File!Begin, File!Fetched, File!RollbackVerify, File!PruneList, File!Interrupted
<1>2. CASE File!Compare
  <2>1. arg \in Selectable
    BY <1>2 DEF File!Compare, OpInv
  <2>2. CASE entry[arg] # None /\ entry[arg].lib = "vendor" /\ entry[arg].man = "vendor"
    BY <1>e, <1>2, <2>1, <2>2 DEF File!Compare
  <2>3. CASE ~(entry[arg] # None /\ entry[arg].lib = "vendor" /\ entry[arg].man = "vendor")
    BY <1>v, <1>2, <2>1, <2>3 DEF File!Compare
  <2> QED
    BY <2>2, <2>3
<1>3. CASE File!RemoveEntry
  <2>1. arg \in Selectable /\ (arg \in {current, previous} => arg \in blemished)
    BY <1>3 DEF File!RemoveEntry, OpInv
  <2>2. \A v \in Selectable \ {arg} : entry'[v] = entry[v]
    BY <1>3, <1>e DEF File!RemoveEntry, File!Removed
  <2>3. UNCHANGED <<current, previous, blemished, arg>> /\ pc' \in {"remove", "rename"}
    BY <1>3 DEF File!RemoveEntry
  <2>4. pc = "remove"
    BY <1>3 DEF File!RemoveEntry
  <2> QED
    BY <2>1, <2>2, <2>3, <2>4
<1>4. CASE File!RenameStaged
  BY <1>e, <1>4 DEF File!RenameStaged, OpInv
<1>5. CASE File!AdvanceCurrent
  BY <1>5 DEF File!AdvanceCurrent, OpInv
<1>6. CASE File!RollbackExchange
  BY <1>6 DEF File!RollbackExchange
<1>7. CASE File!PruneDelete
  <2>1. \A v \in Selectable \cap {current, previous} : entry'[v] = entry[v]
    BY <1>7, <1>e DEF File!PruneDelete, File!Removed, OpInv
  <2>2. UNCHANGED <<current, previous, blemished>> /\ pc' \in {"delete", "idle"}
    BY <1>7 DEF File!PruneDelete
  <2> QED
    BY <2>1, <2>2
<1>8. CASE File!Read \/ File!Spoil \/ File!Restore \/ UNCHANGED File!vars
  <2>1. UNCHANGED <<current, previous, entry, blemished, pc, arg>>
    BY <1>8 DEF File!Read, File!ReadBegin, File!ReadLayout, File!ReadMetadata, File!ReadLibrary,
       File!ReadManifest, File!ReadStep,
       File!ReadEnd, File!Spoil, File!Restore, File!vars
  <2> QED
    BY <2>1
<1>9. ASSUME NEW u \in Selectable, File!Drift(u) PROVE SelectedWhole'
  <2>1. /\ UNCHANGED <<current, previous, pc, arg>> /\ blemished' = blemished \cup {u}
        /\ \A v \in Selectable \ {u} : entry'[v] = entry[v]
    BY <1>9, <1>e DEF File!Drift
  <2>2. pc = "advance" => arg \in Selectable
    BY DEF OpInv
  <2> QED
    BY <2>1, <2>2
<1> QED
  BY <1>1, <1>2, <1>3, <1>4, <1>5, <1>6, <1>7, <1>8, <1>9 DEF File!Next, File!Operation

\* What may become of an entry that the reader is looking at, while D is changed by
\* others: it stays, loses a file, goes, or is made anew.
Worn(v, D) ==
  \/ entry'[v] = entry[v] \/ entry'[v] = None \/ File!Consistent(entry'[v]) \/ v \in D
  \/ /\ entry[v] \in File!Entry
     /\ \E part \in {"lib", "man", "meta"} :
           entry'[v] = [entry[v] EXCEPT ![part] = File!Emptied[part]]

\* Files that are gone are none that the metadata describes.
LEMMA WornUnlike ==
  ASSUME NEW e \in File!Entry, NEW part \in {"lib", "man", "meta"}, NEW x \in File!Digests
  PROVE  /\ e.lib # x[1] => [e EXCEPT ![part] = File!Emptied[part]].lib # x[1]
         /\ e.man # x[2] => [e EXCEPT ![part] = File!Emptied[part]].man # x[2]
<1>1. CASE part = "lib"
  BY <1>1 DEF File!Entry, File!Emptied, File!Payload, File!Digests
<1>2. CASE part = "man"
  BY <1>2 DEF File!Entry, File!Emptied, File!Payload, File!Digests
<1>3. CASE part = "meta"
  BY <1>3 DEF File!Entry, File!Emptied, File!Payload, File!Digests
<1> QED
  BY <1>1, <1>2, <1>3

\* A read in progress under the changes of others.
LEMMA WatchedStep ==
  ASSUME Fitting, ReaderInv, NEW D, File!Watched(D), UNCHANGED File!passive,
         Active => Worn(reading, D)
  PROVE  Suspicious' /\ Trusting' /\ File!AcceptedWasWhole' /\ File!AlarmHasCause'
<1> USE DEF ReaderInv, File!Watched
<1>1. Active <=> reader \notin {"idle", "accepted", "nothing", "failed"}
  BY DEF Active, File!TypeOK
<1>2. (Active' <=> Active) /\ UNCHANGED <<reader, reading, expected>>
  BY DEF Active
<1>3. /\ whole => whole'
      /\ changed => changed'
      /\ cause => cause'
  OBVIOUS
<1>4. File!AcceptedWasWhole' /\ File!AlarmHasCause'
  BY <1>2, <1>3 DEF File!AcceptedWasWhole, File!AlarmHasCause
<1>5. Trusting'
  BY <1>1, <1>2, <1>3 DEF Trusting, Active
<1>6. Active /\ ~whole' /\ ~changed' => reading \notin D /\ ~File!Consistent(entry'[reading])
  BY <1>1
<1>7. ASSUME reader \in {"library", "manifest"}, ~whole', ~changed',
             entry'[reading] # None
      PROVE  /\ reader = "library" => \/ entry'[reading].lib # expected[1]
                                      \/ entry'[reading].man # expected[2]
             /\ reader = "manifest" => entry'[reading].man # expected[2]
  <2>0. Active /\ reading \in Selectable /\ expected \in File!Digests
    BY <1>7 DEF Active, Suspicious
  <2>1. ~whole /\ ~changed
    BY <1>3, <1>7
  <2>2. /\ reader = "library" => \/ entry[reading] = None
                                 \/ entry[reading].lib # expected[1]
                                 \/ entry[reading].man # expected[2]
        /\ reader = "manifest" => entry[reading] = None \/ entry[reading].man # expected[2]
    BY <1>7, <2>1 DEF Suspicious
  <2>3. CASE entry'[reading] = entry[reading]
    BY <1>7, <2>2, <2>3
  <2>4. CASE /\ entry[reading] \in File!Entry
             /\ \E part \in {"lib", "man", "meta"} :
                    entry'[reading] = [entry[reading] EXCEPT ![part] = File!Emptied[part]]
    <3>1. entry[reading] # None
      BY <2>4 DEF Fitting
    <3>2. PICK part \in {"lib", "man", "meta"} :
               entry'[reading] = [entry[reading] EXCEPT ![part] = File!Emptied[part]]
      BY <2>4
    <3>3. /\ entry[reading].lib # expected[1] => entry'[reading].lib # expected[1]
          /\ entry[reading].man # expected[2] => entry'[reading].man # expected[2]
      BY <2>0, <2>4, <3>2, WornUnlike
    <3> QED
      BY <2>2, <3>1, <3>3
  <2> QED
    BY <1>6, <1>7, <2>0, <2>3, <2>4 DEF Worn
<1>8. Suspicious'
  BY <1>1, <1>2, <1>3, <1>6, <1>7 DEF Suspicious, Active
<1> QED
  BY <1>4, <1>5, <1>8

\* Each step keeps what the reader relies on.
LEMMA ReaderStep ==
  ASSUME Fitting, ReaderInv, SelectedWhole', [File!Next]_(File!vars)
  PROVE  Suspicious' /\ Trusting' /\ File!AcceptedWasWhole' /\ File!AlarmHasCause'
<1> DEFINE Goal == Suspicious' /\ Trusting' /\ File!AcceptedWasWhole' /\ File!AlarmHasCause'
<1> USE DEF File!Goto, File!End
<1>e. entry \in [Selectable -> File!Entry \cup {None}] /\ (Active => reading \in Selectable)
  BY DEF ReaderInv, File!TypeOK, Suspicious
<1>v. File!Consistent(File!Vendor) /\ Fitting
  BY Entries DEF Fitting
<1>1. ASSUME NEW v \in Selectable, File!Removed(v), Active PROVE Worn(reading, {})
  BY <1>e, <1>1 DEF File!Removed, Worn
<1>2. CASE \/ \E v \in Selectable : File!Begin("ensure", v, "fetch")
           \/ File!Begin("rollback", None, "verify") \/ File!Begin("prune", None, "list")
           \/ File!Fetched \/ File!RollbackVerify \/ File!PruneList \/ File!Interrupted
           \/ UNCHANGED File!vars
  <2>1. UNCHANGED <<File!selection, entry, File!passive, File!history>>
    BY <1>2 DEF File!Begin, File!Fetched, File!RollbackVerify, File!PruneList, File!Interrupted,
       File!vars
  <2> QED
    BY <2>1 DEF ReaderInv, Suspicious, Trusting, File!AcceptedWasWhole, File!AlarmHasCause, Active,
       File!Consistent
<1>3. CASE File!Compare \/ File!RenameStaged
  <2>1. arg \in Selectable
    BY <1>3 DEF File!Compare, File!RenameStaged, OpInv, ReaderInv
  <2>2. entry' = entry \/ entry' = [entry EXCEPT ![arg] = File!Vendor]
    BY <1>3 DEF File!Compare, File!RenameStaged
  <2>3. Active => Worn(reading, {})
    BY <1>e, <1>v, <2>1, <2>2 DEF Worn
  <2>4. File!Watched({}) /\ UNCHANGED File!passive
    BY <1>3 DEF File!Compare, File!RenameStaged
  <2> QED
    BY <1>v, <2>3, <2>4, WatchedStep
<1>4. CASE File!RemoveEntry \/ File!PruneDelete
  <2>1. Active => Worn(reading, {})
    <3>1. entry' = entry \/ \E v \in Selectable : File!Removed(v)
      BY <1>4 DEF File!RemoveEntry, File!PruneDelete, OpInv, ReaderInv
    <3> QED
      BY <1>1, <3>1 DEF Worn
  <2>2. File!Watched({}) /\ UNCHANGED File!passive
    BY <1>4 DEF File!RemoveEntry, File!PruneDelete
  <2> QED
    BY <1>v, <2>1, <2>2, WatchedStep
<1>5. CASE File!AdvanceCurrent \/ File!RollbackExchange
  <2>1. File!Watched({}) /\ UNCHANGED <<File!passive, entry>>
    BY <1>5 DEF File!AdvanceCurrent, File!RollbackExchange
  <2> QED
    BY <1>v, <2>1, WatchedStep DEF Worn
<1>6. ASSUME NEW v \in Selectable, File!Drift(v) PROVE Goal
  <2>1. File!Watched({v}) /\ UNCHANGED File!passive
    BY <1>6 DEF File!Drift
  <2>2. Active => Worn(reading, {v})
    BY <1>e, <1>6 DEF File!Drift, Worn
  <2> QED
    BY <1>v, <2>1, <2>2, WatchedStep
<1>7. CASE File!Spoil \/ File!Restore
  <2>1. UNCHANGED <<current, previous, entry, File!passive, File!history>>
    BY <1>7 DEF File!Spoil, File!Restore
  <2> QED
    BY <2>1 DEF ReaderInv, Suspicious, Trusting, File!AcceptedWasWhole, File!AlarmHasCause, Active,
       File!Consistent
<1>8. CASE File!ReadBegin
  <2>1. UNCHANGED <<File!selection, entry, blemished>> /\ reading' \in {current, None}
    BY <1>8 DEF File!ReadBegin
  <2>2. CASE ~File!Resolves(current)
    <3>1. file = "bad" \/ (current \in Selectable /\ entry[current] = None)
      BY <2>2 DEF File!Resolves, File!Readable, ReaderInv, File!TypeOK
    <3>2. current \in Selectable /\ entry[current] = None => current \in blemished
      BY <1>v, Entries DEF ReaderInv, SelectedWhole, Fitting
    <3>3. reader' = "failed" /\ cause'
      BY <1>8, <2>2, <3>1, <3>2 DEF File!ReadBegin
    <3> QED
      BY <3>3 DEF Suspicious, Trusting, File!AcceptedWasWhole, File!AlarmHasCause, Active
  <2>3. CASE File!Resolves(current) /\ current = None
    <3>1. reader' = "nothing"
      BY <1>8, <2>3 DEF File!ReadBegin
    <3> QED
      BY <3>1 DEF Suspicious, Trusting, File!AcceptedWasWhole, File!AlarmHasCause, Active
  <2>4. CASE File!Resolves(current) /\ current # None
    <3>1. reader' = "layout" /\ reading' = current /\ current \in Selectable
      BY <1>8, <2>4 DEF File!ReadBegin, ReaderInv, File!TypeOK
    <3>2. ~cause' => current \notin blemished
      BY <1>8, <3>1 DEF File!ReadBegin
    <3>3. File!Consistent(entry[current]) => whole'
      BY <1>8, <2>4, <3>1 DEF File!ReadBegin
    <3> QED
      BY <2>1, <3>1, <3>2, <3>3 DEF Suspicious, Trusting, File!AcceptedWasWhole,
         File!AlarmHasCause, Active, File!Consistent
  <2> QED
    BY <2>2, <2>3, <2>4
<1>9. ASSUME File!ReadLayout \/ File!ReadMetadata \/ File!ReadLibrary \/ File!ReadManifest
   PROVE Goal
  <2>1. UNCHANGED <<reading, File!selection, entry, File!history>>
    BY <1>9 DEF File!ReadLayout, File!ReadMetadata, File!ReadLibrary, File!ReadManifest,
       File!ReadStep
  <2>2. Active /\ reading \in Selectable
    BY <1>9 DEF File!ReadLayout, File!ReadMetadata, File!ReadLibrary, File!ReadManifest,
       File!ReadStep, Active, ReaderInv,
       Suspicious
  <2>3. ~cause => entry[reading] = File!Vendor /\ entry[reading] # None
    BY <1>v, <2>2, Entries DEF ReaderInv, Trusting, SelectedWhole, Fitting
  <2>4. File!Vendor.lib = "vendor" /\ File!Vendor.man = "vendor" /\ File!Vendor.meta = <<"vendor",
  "vendor">>
        /\ <<"vendor", "vendor">> \in File!Digests
    BY DEF File!Vendor, File!Digests
  <2>5. File!Consistent(entry[reading]) => whole
    BY <2>2 DEF ReaderInv, Suspicious
  <2>6. ASSUME reader' \in {"layout", "metadata", "library", "manifest"}, ~cause
        PROVE  reading \in {current, previous} \ blemished
    BY <2>2, <2>6 DEF ReaderInv, Trusting
  <2>7. CASE File!ReadLayout
    <3>1. reader' \in {"metadata", "failed"} /\ (reader' = "failed" => cause)
      BY <2>3, <2>4, <2>7 DEF File!ReadLayout, File!ReadStep
    <3> QED
      BY <2>1, <2>2, <2>5, <2>6, <3>1 DEF Suspicious, Trusting, File!AcceptedWasWhole,
         File!AlarmHasCause,
         Active, File!Consistent
  <2>8. CASE File!ReadMetadata
    <3>1. reader' \in {"library", "failed"} /\ (reader' = "failed" => cause)
      BY <2>3, <2>4, <2>8 DEF File!ReadMetadata, File!ReadStep
    <3>2. reader' = "library" =>
             expected' = entry[reading].meta /\ entry[reading].meta \in File!Digests
                                 /\ entry[reading] # None
      BY <2>8 DEF File!ReadMetadata, File!ReadStep
    <3>3. reader' = "library" /\ ~whole => \/ entry[reading].lib # expected'[1]
                                           \/ entry[reading].man # expected'[2]
      <4>1. \A d \in File!Digests : d = <<d[1], d[2]>>
        BY DEF File!Digests
      <4> QED
        BY <2>5, <3>2, <4>1 DEF File!Consistent
    <3> QED
      BY <2>1, <2>2, <2>3, <2>4, <2>5, <2>6, <3>1, <3>2, <3>3 DEF Suspicious, Trusting,
         File!AcceptedWasWhole, File!AlarmHasCause, Active, File!Consistent
  <2>9. CASE File!ReadLibrary
    <3>1. /\ reader = "library" /\ reader' \in {"manifest", "failed"}
          /\ reader' = "manifest" => /\ expected' = expected /\ entry[reading] # None
                                     /\ entry[reading].lib = expected[1]
      BY <2>9 DEF File!ReadLibrary, File!ReadStep
    <3>2. reader' = "failed" => cause
      <4>1. ~cause => expected[1] = "vendor"
        BY <3>1 DEF ReaderInv, Trusting
      <4> QED
        BY <2>3, <2>4, <2>9, <4>1 DEF File!ReadLibrary, File!ReadStep
    <3>3. reader' = "manifest" /\ ~whole /\ ~changed => entry[reading].man # expected[2]
      BY <3>1 DEF ReaderInv, Suspicious
    <3>4. /\ expected \in File!Digests
          /\ ~cause => expected = <<"vendor", "vendor">>
      BY <3>1 DEF ReaderInv, Suspicious, Trusting
    <3> QED
      BY <2>1, <2>2, <2>5, <2>6, <3>1, <3>2, <3>3, <3>4 DEF Suspicious, Trusting,
         File!AcceptedWasWhole, File!AlarmHasCause, Active, File!Consistent
  <2>10. CASE File!ReadManifest
    <3>1. /\ reader = "manifest" /\ reader' \in {"accepted", "failed"}
          /\ reader' = "accepted" => entry[reading] # None /\ entry[reading].man = expected[2]
      BY <2>10 DEF File!ReadManifest, File!ReadStep
    <3>2. reader' = "failed" => cause
      <4>1. ~cause => expected[2] = "vendor"
        BY <3>1 DEF ReaderInv, Trusting
      <4> QED
        BY <2>3, <2>4, <2>10, <4>1 DEF File!ReadManifest, File!ReadStep
    <3>3. reader' = "accepted" => whole \/ changed
      BY <3>1 DEF ReaderInv, Suspicious
    <3> QED
      BY <2>1, <3>1, <3>2, <3>3 DEF Suspicious, Trusting, File!AcceptedWasWhole,
         File!AlarmHasCause, Active
  <2> QED
    BY <1>9, <2>7, <2>8, <2>9, <2>10
<1>10. CASE File!ReadEnd
  <2>1. reader' = "idle"
    BY <1>10 DEF File!ReadEnd
  <2> QED
    BY <2>1 DEF Suspicious, Trusting, File!AcceptedWasWhole, File!AlarmHasCause, Active
<1> QED
  BY <1>2, <1>3, <1>4, <1>5, <1>6, <1>7, <1>8, <1>9, <1>10 DEF File!Next, File!Operation, File!Read

LEMMA ReaderInvStep ==
  ASSUME Fitting, ReaderInv, [File!Next]_(File!vars)
  PROVE  ReaderInv'
BY TypeStep, OpInvStep, SelectedStep, ReaderStep DEF ReaderInv

LEMMA ReaderInvariant == Fitting => (File!Spec => []ReaderInv)
<1> SUFFICES ASSUME Fitting PROVE File!Spec => []ReaderInv
  OBVIOUS
<1>1. File!Init => ReaderInv
  BY ReaderInit
<1>2. ReaderInv /\ [File!Next]_(File!vars) => ReaderInv'
  BY ReaderInvStep
<1> QED
  BY <1>1, <1>2, PTL DEF File!Spec

\* What a reader accepts without the lock was consistent at some moment of its read,
\* others' changes apart (cache/mod.rs:397-408, 916-944).
THEOREM AcceptedEntriesWereWhole ==
  ASSUME Fitting PROVE File!Spec => []File!AcceptedWasWhole
<1>1. ReaderInv => File!AcceptedWasWhole
  BY DEF ReaderInv
<1> QED
  BY <1>1, ReaderInvariant, PTL

\* A reader reports a broken cache only when others have changed it, or when the
\* version it was reading is no longer selected (cache/mod.rs:349-363).
THEOREM AlarmsHaveCauses ==
  ASSUME Fitting PROVE File!Spec => []File!AlarmHasCause
<1>1. ReaderInv => File!AlarmHasCause
  BY DEF ReaderInv
<1> QED
  BY <1>1, ReaderInvariant, PTL

-----------------------------------------------------------------------------
(***************************************************************************)
(* The digest memo (file_memo.rs).                                         *)
(***************************************************************************)
CONSTANTS Reader, Content, Length, MaxFile, MaxSecond

VARIABLES now, made, data, path, memo, stamp, read, answer, held, used, spoiled

Memo == INSTANCE FileMemo

\* What is put in the place of a content or a memo is none, and the bounds leave room
\* for the file that is there.
Memorable ==
    /\ Torn \notin Content /\ None \notin Content /\ None # Torn
    /\ None \notin [stamp : Memo!Stamp, digest : Memo!Digest \ {None}]
    /\ MaxFile \in Nat \ {0} /\ MaxSecond \in Nat

\* The content of every file is one of those that had its length and second.
StampsTrue == \A f \in Memo!File : data[f][1] \in used[Memo!StampOf(f)]

\* Unless it was written meanwhile: what a reader has open is what it has looked at, and
\* one of the contents the path held; what it has read is all of it.
MemoReads ==
    \A r \in Reader :
        /\ opened[r] \in 1..made
        /\ pc[r] \in {"finish", "store"} => read[r] # None
        /\ pc[r] # "done" => answer[r] = None
        /\ stamp[r] \notin spoiled =>
             /\ Memo!Reading(r) =>
                  stamp[r] = Memo!StampOf(opened[r]) /\ data[opened[r]][1] \in held[r]
             /\ pc[r] = "finish" => read[r] = data[opened[r]][1]
             /\ pc[r] = "store" => read[r] \in used[stamp[r]] /\ read[r] \in held[r]

MemoInv == Memo!TypeOK /\ StampsTrue /\ MemoReads /\ Memo!Fresh /\ Memo!MemoTrue

LEMMA MemoInit == Memorable /\ Memo!Init => MemoInv
<1> SUFFICES ASSUME Memorable, Memo!Init PROVE MemoInv
  OBVIOUS
<1> USE DEF Memo!File, Memo!Second, Memo!Stamp, Memo!Digest
<1>1. PICK c \in Content :
        /\ data = [f \in Memo!File |-> <<c, 0>>]
        /\ used = [s \in Memo!Stamp |-> IF s = <<Length[c], 0>> THEN {c} ELSE {}]
        /\ stamp = [r \in Reader |-> <<Length[c], 0>>]
  BY DEF Memo!Init
<1>2. /\ now = 0 /\ made = 1 /\ path = 1 /\ memo = None /\ spoiled = {}
      /\ pc = [r \in Reader |-> "idle"] /\ opened = [r \in Reader |-> 1]
      /\ read = [r \in Reader |-> None] /\ answer = [r \in Reader |-> None]
      /\ held = [r \in Reader |-> {}]
  BY DEF Memo!Init
<1>3. <<Length[c], 0>> \in Memo!Stamp /\ 1 \in Memo!File /\ 0 \in Memo!Second
  BY DEF Memorable
<1>4. Memo!TypeOK
  BY <1>1, <1>2, <1>3 DEF Memo!TypeOK, Memorable
<1>5. StampsTrue
  BY <1>1, <1>3 DEF StampsTrue, Memo!StampOf
<1>6. MemoReads /\ Memo!Fresh /\ Memo!MemoTrue
  BY <1>2 DEF MemoReads, Memo!Fresh, Memo!MemoTrue, Memo!Reading
<1> QED
  BY <1>4, <1>5, <1>6 DEF MemoInv

\* A reader's step leaves the files alone.
LEMMA MemoReaderStep ==
  ASSUME Memorable, MemoInv, NEW r \in Reader,
         Memo!Open(r) \/ Memo!Load(r) \/ Memo!Begin(r) \/ Memo!Finish(r) \/ Memo!Store(r)
  PROVE  MemoInv'
<1> USE DEF Memo!File, Memo!Reading, Memo!At, Memo!World
<1>t. /\ now \in Memo!Second /\ made \in Memo!File /\ path \in 1..made /\ MaxFile \in Nat
      /\ data \in [Memo!File -> Content \X Memo!Second]
      /\ memo \in [stamp : Memo!Stamp, digest : Memo!Digest \ {None}] \cup {None}
      /\ pc \in [Reader -> {"idle", "load", "begin", "finish", "store", "done"}]
      /\ opened \in [Reader -> Memo!File] /\ stamp \in [Reader -> Memo!Stamp]
      /\ read \in [Reader -> Memo!Digest] /\ answer \in [Reader -> Memo!Digest]
      /\ held \in [Reader -> SUBSET Content]
      /\ used \in [Memo!Stamp -> SUBSET Content] /\ spoiled \subseteq Memo!Stamp
  BY DEF MemoInv, Memo!TypeOK, Memorable
<1>i. StampsTrue /\ MemoReads /\ Memo!Fresh /\ Memo!MemoTrue
  BY DEF MemoInv
<1>d. /\ Content \subseteq Memo!Digest /\ Torn \in Memo!Digest /\ None \in Memo!Digest
      /\ \A f \in Memo!File :
            /\ data[f][1] \in Content /\ data[f][2] \in Memo!Second
            /\ Memo!StampOf(f) \in Memo!Stamp
      /\ \A c \in Content : c # None
      /\ Torn # None
  BY <1>t DEF Memo!Digest, Memo!Stamp, Memo!StampOf, Memorable
<1>u. /\ UNCHANGED <<now, made, data, path, used, spoiled>>
      /\ \A q \in Reader \ {r} :
            /\ pc'[q] = pc[q] /\ opened'[q] = opened[q] /\ stamp'[q] = stamp[q]
            /\ read'[q] = read[q] /\ answer'[q] = answer[q] /\ held'[q] = held[q]
  BY <1>t DEF Memo!Open, Memo!Load, Memo!Begin, Memo!Finish, Memo!Store
<1>s. StampsTrue' /\ \A f \in Memo!File : Memo!StampOf(f)' = Memo!StampOf(f)
  BY <1>i, <1>u DEF StampsTrue, Memo!StampOf
\* What has to be shown of the reader that has made the step.
<1> DEFINE Right ==
      /\ opened'[r] \in 1..made
      /\ pc'[r] \in {"finish", "store"} => read'[r] # None
      /\ pc'[r] # "done" => answer'[r] = None
      /\ stamp'[r] \notin spoiled =>
           /\ pc'[r] \in {"load", "begin", "finish"} =>
                stamp'[r] = Memo!StampOf(opened'[r]) /\ data[opened'[r]][1] \in held'[r]
           /\ pc'[r] = "finish" => read'[r] = data[opened'[r]][1]
           /\ pc'[r] = "store" => read'[r] \in used[stamp'[r]] /\ read'[r] \in held'[r]
           /\ answer'[r] # None =>
                /\ answer'[r] \in used[stamp'[r]]
                /\ used[stamp'[r]] = {answer'[r]} => answer'[r] \in held'[r]
<1>r. ASSUME Memo!TypeOK', Memo!MemoTrue', Right PROVE MemoInv'
  <2>1. ASSUME NEW q \in Reader
        PROVE  /\ opened'[q] \in 1..made'
               /\ pc'[q] \in {"finish", "store"} => read'[q] # None
               /\ pc'[q] # "done" => answer'[q] = None
               /\ stamp'[q] \notin spoiled' =>
                    /\ Memo!Reading(q)' =>
                         stamp'[q] = Memo!StampOf(opened[q])' /\ data'[opened'[q]][1] \in held'[q]
                    /\ pc'[q] = "finish" => read'[q] = data'[opened'[q]][1]
                    /\ pc'[q] = "store" => read'[q] \in used'[stamp'[q]] /\ read'[q] \in held'[q]
                    /\ answer'[q] # None =>
                         /\ answer'[q] \in used'[stamp'[q]]
                         /\ used'[stamp'[q]] = {answer'[q]} => answer'[q] \in held'[q]
    <3>1. CASE q = r
      BY <1>r, <1>s, <1>u, <3>1 DEF Memo!StampOf
    <3>2. CASE q # r
      BY <1>i, <1>u, <3>2 DEF MemoReads, Memo!Fresh, Memo!StampOf
    <3> QED
      BY <3>1, <3>2
  <2>2. MemoReads'
    BY <2>1 DEF MemoReads
  <2>3. Memo!Fresh'
    BY <2>1 DEF Memo!Fresh
  <2> QED
    BY <1>r, <1>s, <2>2, <2>3 DEF MemoInv
<1>1. CASE Memo!Open(r)
  <2>1. Memo!TypeOK' /\ Memo!MemoTrue'
    <3>1. /\ pc' = [pc EXCEPT ![r] = "load"] /\ memo' = memo
          /\ opened' = [opened EXCEPT ![r] = path] /\ path \in Memo!File
          /\ stamp' = [stamp EXCEPT ![r] = Memo!StampOf(path)]
          /\ held' = [held EXCEPT ![r] = {data[path][1]}]
          /\ read' = [read EXCEPT ![r] = None] /\ answer' = [answer EXCEPT ![r] = None]
      BY <1>t, <1>1 DEF Memo!Open
    <3>2. Memo!TypeOK'
      BY <1>t, <1>d, <1>u, <3>1 DEF Memo!TypeOK
    <3> QED
      BY <1>i, <1>u, <3>1, <3>2 DEF Memo!MemoTrue
  <2>2. Right
    BY <1>t, <1>d, <1>1 DEF Memo!Open, Memo!StampOf
  <2> QED
    BY <1>r, <2>1, <2>2
<1>2. CASE Memo!Load(r)
  <2>1. /\ UNCHANGED <<memo, used, spoiled, opened, stamp, read, held>>
        /\ pc[r] = "load" /\ pc' = [pc EXCEPT ![r] = pc'[r]] /\ pc'[r] \in {"begin", "done"}
        /\ \/ pc'[r] = "begin" /\ answer' = answer
           \/ /\ pc'[r] = "done" /\ answer' = [answer EXCEPT ![r] = memo.digest]
              /\ memo # None /\ memo.stamp = stamp[r]
    BY <1>t, <1>2 DEF Memo!Load, Memo!Matches
  <2>2. memo # None => memo.digest \in Memo!Digest
    BY <1>t
  <2>3. Memo!TypeOK'
    <3>1. pc' \in [Reader -> {"idle", "load", "begin", "finish", "store", "done"}]
      BY <1>t, <2>1
    <3>2. answer' \in [Reader -> Memo!Digest]
      BY <1>t, <2>1, <2>2
    <3> QED
      BY <1>t, <1>u, <2>1, <3>1, <3>2 DEF Memo!TypeOK
  <2>4. Memo!MemoTrue'
    BY <1>i, <2>1 DEF Memo!MemoTrue
  <2>5. /\ answer[r] = None /\ opened[r] \in 1..made /\ opened[r] \in Memo!File
        /\ stamp[r] \notin spoiled =>
              stamp[r] = Memo!StampOf(opened[r]) /\ data[opened[r]][1] \in held[r]
    BY <1>t, <1>i, <2>1 DEF MemoReads
  <2>6. stamp[r] \notin spoiled => data[opened[r]][1] \in used[stamp[r]]
    BY <1>i, <2>5 DEF StampsTrue
  <2>7. ASSUME pc'[r] = "begin" PROVE Right
    BY <1>t, <2>1, <2>5, <2>7
  <2>8. ASSUME pc'[r] = "done" PROVE Right
    <3>1. answer'[r] = memo.digest
      BY <1>t, <2>1, <2>8
    <3>2. stamp[r] \notin spoiled => memo.digest \in used[stamp[r]]
      BY <1>i, <2>1, <2>8 DEF Memo!MemoTrue
    <3>3. stamp[r] \notin spoiled /\ used[stamp[r]] = {memo.digest} => memo.digest \in held[r]
      BY <2>5, <2>6
    <3> QED
      BY <1>t, <2>1, <2>5, <2>8, <3>1, <3>2, <3>3
  <2>9. Right
    BY <2>1, <2>7, <2>8
  <2> QED
    BY <1>r, <2>3, <2>4, <2>9
<1>3. CASE Memo!Begin(r)
  <2>1. Memo!TypeOK' /\ Memo!MemoTrue'
    BY <1>t, <1>d, <1>i, <1>3 DEF Memo!Begin, Memo!TypeOK, Memo!MemoTrue
  <2>2. Right
    BY <1>t, <1>d, <1>i, <1>3 DEF Memo!Begin, MemoReads
  <2> QED
    BY <1>r, <2>1, <2>2
<1>4. CASE Memo!Finish(r)
  <2> DEFINE digest == IF read[r] = data[opened[r]][1] THEN read[r] ELSE Torn
  <2>1. /\ pc[r] = "finish" /\ pc' = [pc EXCEPT ![r] = "store"]
        /\ read' = [read EXCEPT ![r] = digest]
        /\ UNCHANGED <<memo, opened, stamp, answer, held>>
    BY <1>4 DEF Memo!Finish
  <2>2. digest \in Memo!Digest /\ digest # None
    BY <1>t, <1>d, <1>i, <2>1 DEF MemoReads
  <2>3. Memo!TypeOK'
    BY <1>t, <1>u, <2>1, <2>2 DEF Memo!TypeOK
  <2>4. Memo!MemoTrue'
    BY <1>i, <1>u, <2>1 DEF Memo!MemoTrue
  <2>5. /\ opened[r] \in 1..made /\ opened[r] \in Memo!File /\ answer[r] = None
        /\ stamp[r] \notin spoiled =>
             /\ stamp[r] = Memo!StampOf(opened[r]) /\ data[opened[r]][1] \in held[r]
             /\ digest = data[opened[r]][1]
    BY <1>t, <1>i, <2>1 DEF MemoReads
  <2>6. stamp[r] \notin spoiled => digest \in used[stamp[r]] /\ digest \in held[r]
    BY <1>i, <2>5 DEF StampsTrue
  <2>7. pc'[r] = "store" /\ read'[r] = digest
    BY <1>t, <2>1
  <2> HIDE DEF digest
  <2>8. Right
    BY <2>1, <2>2, <2>5, <2>6, <2>7
  <2> QED
    BY <1>r, <2>3, <2>4, <2>8
<1>5. CASE Memo!Store(r)
  <2>1. /\ read[r] # None /\ read[r] \in Memo!Digest /\ opened[r] \in 1..made
        /\ stamp[r] \notin spoiled => read[r] \in used[stamp[r]] /\ read[r] \in held[r]
    BY <1>t, <1>i, <1>5 DEF Memo!Store, MemoReads
  <2>2. Memo!TypeOK'
    BY <1>t, <1>d, <1>5, <2>1 DEF Memo!Store, Memo!TypeOK
  <2>3. Memo!MemoTrue'
    BY <1>t, <1>i, <1>5, <2>1 DEF Memo!Store, Memo!MemoTrue
  <2>4. Right
    BY <1>t, <1>5, <2>1 DEF Memo!Store
  <2> QED
    BY <1>r, <2>2, <2>3, <2>4
<1> QED
  BY <1>1, <1>2, <1>3, <1>4, <1>5

\* Whatever is done to the file, what a reader has open stays as it was read, or the stamp
\* it has looked at is spoiled.
LEMMA MemoFileStep ==
  ASSUME Memorable, MemoInv, NEW c \in Content, NEW s \in Memo!Second,
         Memo!Replace(c, s) \/ (Memo!Overwrite(c) /\ s = now)
  PROVE  MemoInv'
<1> USE DEF Memo!File, Memo!Readers
<1>t. /\ now \in Memo!Second /\ made \in Memo!File /\ path \in 1..made /\ MaxFile \in Nat
      /\ data \in [Memo!File -> Content \X Memo!Second]
      /\ opened \in [Reader -> Memo!File] /\ stamp \in [Reader -> Memo!Stamp]
      /\ held \in [Reader -> SUBSET Content]
      /\ used \in [Memo!Stamp -> SUBSET Content] /\ spoiled \subseteq Memo!Stamp
      /\ Memo!TypeOK
  BY DEF MemoInv, Memo!TypeOK, Memorable
<1>i. StampsTrue /\ MemoReads /\ Memo!Fresh /\ Memo!MemoTrue
  BY DEF MemoInv
<1>d. /\ \A f \in Memo!File : data[f][1] \in Content /\ Memo!StampOf(f) \in Memo!Stamp
      /\ <<Length[c], s>> \in Memo!Stamp
  BY <1>t DEF Memo!Stamp, Memo!StampOf, Memorable
<1>p. PICK f \in Memo!File :
        /\ data' = [data EXCEPT ![f] = <<c, s>>]
        /\ \A r \in Reader : Memo!Reading(r) /\ opened[r] = f => stamp[r] \in spoiled'
        /\ spoiled \subseteq spoiled' /\ spoiled' \subseteq Memo!Stamp
        /\ made' \in Memo!File /\ made <= made' /\ path' \in 1..made'
  <2>1. CASE Memo!Replace(c, s)
    <3>1. \A r \in Reader : opened[r] # made + 1
      BY <1>t, <1>i DEF MemoReads
    <3>2. /\ made' = made + 1 /\ path' = made + 1 /\ made < MaxFile
          /\ data' = [data EXCEPT ![made + 1] = <<c, s>>] /\ spoiled' = spoiled
      BY <2>1 DEF Memo!Replace
    <3>3. made + 1 \in Memo!File /\ made <= made + 1 /\ made + 1 \in 1..(made + 1)
      BY <1>t, <3>2
    <3> QED
      BY <1>t, <3>1, <3>2, <3>3
  <2>2. CASE Memo!Overwrite(c) /\ s = now
    <3>1. /\ made' = made + 1 /\ made < MaxFile /\ path' = path /\ path \in Memo!File
          /\ data' = [data EXCEPT ![path] = <<c, s>>]
          /\ spoiled' = spoiled \cup
                        {stamp[r] : r \in {q \in Reader : Memo!Reading(q) /\ opened[q] = path}}
      BY <1>t, <2>2 DEF Memo!Overwrite
    <3>2. \A r \in Reader : Memo!Reading(r) /\ opened[r] = path => stamp[r] \in spoiled'
      BY <3>1
    <3>3. spoiled \subseteq spoiled' /\ spoiled' \subseteq Memo!Stamp
      BY <1>t, <3>1
    <3>4. made + 1 \in Memo!File /\ made <= made + 1 /\ path \in 1..(made + 1)
      BY <1>t, <3>1
    <3> QED
      BY <1>t, <3>1, <3>2, <3>3, <3>4
  <2> QED
    BY <2>1, <2>2
<1>u. /\ used' = [used EXCEPT ![<<Length[c], s>>] = @ \cup {c}]
      /\ held' = [r \in Reader |-> IF Memo!Busy(r) THEN held[r] \cup {c} ELSE held[r]]
      /\ UNCHANGED <<now, memo, pc, opened, stamp, read, answer>>
  BY DEF Memo!Replace, Memo!Overwrite, Memo!Puts
<1>1. Memo!TypeOK'
  BY <1>t, <1>d, <1>p, <1>u DEF Memo!TypeOK
<1>2. /\ \A x \in Memo!Stamp : used[x] \subseteq used'[x]
      /\ \A r \in Reader : held[r] \subseteq held'[r]
      /\ \A r \in Reader : ~Memo!Busy(r) => held'[r] = held[r]
      /\ c \in used'[<<Length[c], s>>]
  BY <1>t, <1>d, <1>u
<1>3. StampsTrue'
  <2>1. ASSUME NEW g \in Memo!File PROVE data'[g][1] \in used'[Memo!StampOf(g)']
    <3>1. CASE g = f
      BY <1>t, <1>2, <1>p, <3>1 DEF Memo!StampOf
    <3>2. CASE g # f
      <4>1. data'[g] = data[g] /\ Memo!StampOf(g)' = Memo!StampOf(g)
        BY <1>t, <1>p, <3>2 DEF Memo!StampOf
      <4> QED
        BY <1>i, <1>d, <1>2, <4>1 DEF StampsTrue
    <3> QED
      BY <3>1, <3>2
  <2> QED
    BY <2>1 DEF StampsTrue
<1>4. ASSUME NEW r \in Reader, Memo!Reading(r), stamp[r] \notin spoiled'
      PROVE  data'[opened[r]] = data[opened[r]] /\ Memo!StampOf(opened[r])' = Memo!StampOf(opened[r])
  BY <1>t, <1>p, <1>u, <1>4 DEF Memo!StampOf
<1>5. MemoReads'
  <2>1. ASSUME NEW r \in Reader
        PROVE  /\ opened'[r] \in 1..made'
               /\ pc'[r] \in {"finish", "store"} => read'[r] # None
               /\ pc'[r] # "done" => answer'[r] = None
    BY <1>t, <1>i, <1>p, <1>u DEF MemoReads
  <2>2. ASSUME NEW r \in Reader, stamp[r] \notin spoiled'
        PROVE  /\ Memo!Reading(r)' =>
                    stamp'[r] = Memo!StampOf(opened[r])' /\ data'[opened'[r]][1] \in held'[r]
               /\ pc'[r] = "finish" => read'[r] = data'[opened'[r]][1]
               /\ pc'[r] = "store" => read'[r] \in used'[stamp'[r]] /\ read'[r] \in held'[r]
    <3>1. /\ Memo!Reading(r) =>
               stamp[r] = Memo!StampOf(opened[r]) /\ data[opened[r]][1] \in held[r]
          /\ pc[r] = "finish" => read[r] = data[opened[r]][1]
          /\ pc[r] = "store" => read[r] \in used[stamp[r]] /\ read[r] \in held[r]
      BY <1>i, <1>p, <2>2 DEF MemoReads
    <3>2. stamp[r] \in Memo!Stamp
      BY <1>t
    <3>3. CASE Memo!Reading(r)
      <4>1. data'[opened[r]] = data[opened[r]] /\ Memo!StampOf(opened[r])' = Memo!StampOf(opened[r])
        BY <1>4, <2>2, <3>3
      <4>2. opened'[r] = opened[r]
        BY <1>u
      <4> QED
        BY <1>2, <1>u, <3>1, <3>3, <4>1, <4>2 DEF Memo!Reading
    <3>4. CASE ~Memo!Reading(r)
      BY <1>2, <1>u, <3>1, <3>2, <3>4 DEF Memo!Reading
    <3> QED
      BY <3>3, <3>4
  <2> QED
    BY <1>u, <2>1, <2>2 DEF MemoReads
<1>6. Memo!Fresh'
  <2>1. ASSUME NEW r \in Reader, answer[r] # None, stamp[r] \notin spoiled'
        PROVE  /\ answer[r] \in used'[stamp[r]]
               /\ used'[stamp[r]] = {answer[r]} => answer[r] \in held'[r]
    <3>1. /\ answer[r] \in used[stamp[r]]
          /\ used[stamp[r]] = {answer[r]} => answer[r] \in held[r]
      BY <1>i, <1>p, <2>1 DEF Memo!Fresh
    <3>2. used[stamp[r]] \subseteq used'[stamp[r]] /\ held[r] \subseteq held'[r]
      BY <1>t, <1>2
    <3> QED
      BY <3>1, <3>2
  <2> QED
    BY <1>u, <2>1 DEF Memo!Fresh
<1>7. Memo!MemoTrue'
  <2>1. memo # None => memo.stamp \in Memo!Stamp
    BY <1>t DEF Memo!TypeOK
  <2> QED
    BY <1>i, <1>2, <1>p, <1>u, <2>1 DEF Memo!MemoTrue
<1> QED
  BY <1>1, <1>3, <1>5, <1>6, <1>7 DEF MemoInv

LEMMA MemoStep ==
  ASSUME Memorable, MemoInv, [Memo!Next]_(Memo!vars)
  PROVE  MemoInv'
<1> USE DEF Memo!Readers, Memo!World
<1>1. CASE \E r \in Reader :
             Memo!Open(r) \/ Memo!Load(r) \/ Memo!Begin(r) \/ Memo!Finish(r) \/ Memo!Store(r)
  BY <1>1, MemoReaderStep
<1>2. CASE \E c \in Content : Memo!Overwrite(c) \/ \E s \in Memo!Second : Memo!Replace(c, s)
  <2>1. now \in Memo!Second
    BY DEF MemoInv, Memo!TypeOK
  <2> QED
    BY <1>2, <2>1, MemoFileStep
<1>3. CASE Memo!Tick \/ Memo!Clear \/ UNCHANGED Memo!vars
  <2>1. /\ memo' \in {memo, None} /\ now' \in Memo!Second
        /\ UNCHANGED <<made, data, path, pc, opened, stamp, read, answer, held, used, spoiled>>
    BY <1>3 DEF Memo!Tick, Memo!Clear, Memo!vars, MemoInv, Memo!TypeOK, Memo!Second, Memorable
  <2>2. Memo!TypeOK'
    BY <2>1 DEF MemoInv, Memo!TypeOK
  <2>3. StampsTrue' /\ MemoReads'
    BY <2>1 DEF MemoInv, StampsTrue, MemoReads, Memo!StampOf, Memo!Reading
  <2>4. Memo!Fresh' /\ Memo!MemoTrue'
    BY <2>1 DEF MemoInv, Memo!Fresh, Memo!MemoTrue
  <2> QED
    BY <2>2, <2>3, <2>4 DEF MemoInv
<1> QED
  BY <1>1, <1>2, <1>3 DEF Memo!Next

\* However many processes ask for the digest of a file, and whoever replaces it in the
\* meantime, each is told the digest of something that had the length and second it has
\* seen, and that was there during its call where nothing else had them; and so is what is
\* kept for later. Not so for a file that was written while it was hashed
\* (sha512_memoized, load_digest, store_digest).
THEOREM DigestsAreFresh ==
  ASSUME Memorable
  PROVE  Memo!Spec => [](Memo!Fresh /\ Memo!MemoTrue)
<1>1. Memo!Init => MemoInv
  BY MemoInit
<1>2. MemoInv /\ [Memo!Next]_(Memo!vars) => MemoInv'
  BY MemoStep
<1>3. MemoInv => Memo!Fresh /\ Memo!MemoTrue
  BY DEF MemoInv
<1> QED
  BY <1>1, <1>2, <1>3, PTL DEF Memo!Spec

-----------------------------------------------------------------------------
(***************************************************************************)
(* Who owns a CDM (widevine/ownership.rs).                                 *)
(***************************************************************************)
CONSTANTS Marked, Library, Wanted, Nothing, Broken, MaxOutside

VARIABLES inode, source, stage, pinned, marker, manifest, second, verdict, outside, sealed

Owner == INSTANCE Provenance WITH Version <- Marked

\* What stands for nothing, or for what cannot be read, is nothing else.
Markable ==
    /\ Wanted \in Owner!Marker /\ Nothing # Broken /\ IsFiniteSet(Library) /\ MaxOutside \in Nat
    /\ {Nothing, Broken} \cap (Marked \cup Library \cup Owner!Marker) = {}
    /\ Nothing \notin Owner!Payload /\ Nothing \notin Owner!Directory

\* Whatever carries a readable marker carries the one silvervine has sealed.
OneSeal ==
    sealed = {Wanted} /\ (target # Nothing => target.marker \in {Wanted, Nothing, Broken})

\* What a classification has read is what is there, as long as the directory it has
\* captured is.
Looking ==
    job = "classify" =>
        /\ pc \in {"start", "root", "marker", "manifest", "library", "done"}
        /\ pinned <= inode /\ (pc = "start" => pinned < inode)
        /\ inode = pinned =>
             /\ pc \in {"marker", "manifest", "library"} => target # Nothing /\ target.regular
             /\ pc \in {"manifest", "library"} => marker = target.marker /\ marker # Broken
             /\ pc = "library" =>
                  manifest = target.payload.manifest /\ Owner!Readable(manifest)

\* What is staged is at each step a part of what was selected.
Staging ==
    IF job = "stage"
    THEN /\ pc \in {"start", "copy", "inspect", "done"}
         /\ pc = "start" => stage = Nothing
         /\ pc = "copy" => stage = [manifest |-> Wanted.version, libraries |-> {}, host |-> TRUE]
         /\ pc = "inspect" => stage = Owner!Candidate
    ELSE stage = Nothing /\ verdict # "staged"

\* Between the inspection and the seal nothing changes.
Sealing ==
    IF job = "seal"
    THEN /\ pc \in {"start", "rename", "done"}
         /\ pc = "rename" => target # Nothing /\ target.payload = Owner!Candidate
    ELSE verdict # "sealed"

OwnerInv ==
    /\ Owner!TypeOK /\ OneSeal /\ Looking /\ Staging /\ Sealing
    /\ (pc # "done" <=> verdict = "none")
    /\ Owner!ReplaceableIsOurs /\ Owner!StagedIsSelected /\ Owner!SealedHolds

\* The one library that a payload has.
LEMMA OwnerLibrary ==
  ASSUME Markable, NEW p \in Owner!Payload, Owner!LibraryOf(p) # Nothing
  PROVE  /\ Owner!LibraryOf(p) \in Library
         /\ p = Owner!Whole(p.manifest, Owner!LibraryOf(p))
<1> DEFINE l == Owner!LibraryOf(p)
<1>1. p.libraries \subseteq Library /\ IsFiniteSet(p.libraries)
  BY FS_Subset DEF Owner!Payload, Markable
<1>2. /\ Owner!Cardinality(p.libraries) = 1 /\ p.host = TRUE
      /\ l = CHOOSE x \in p.libraries : TRUE
  BY DEF Owner!LibraryOf, Owner!Payload
<1>3. Owner!Cardinality(p.libraries) = Cardinality(p.libraries)
  BY DEF Owner!Cardinality, Cardinality, Owner!IsFiniteSet, IsFiniteSet
<1>4. PICK x : p.libraries = {x}
  BY <1>1, <1>2, <1>3, FS_Singleton
<1>5. l = x
  BY <1>2, <1>4
<1> HIDE DEF l
<1>6. p = [manifest |-> p.manifest, libraries |-> p.libraries, host |-> p.host]
  BY DEF Owner!Payload
<1> QED
  BY <1>1, <1>2, <1>4, <1>5, <1>6 DEF l, Owner!Whole

\* The payloads that there are at the start, or that others put there.
LEMMA OwnerWholes ==
  ASSUME Markable
  PROVE  /\ \A v \in Marked, l \in Library : Owner!Whole(v, l) \in Owner!Payload
         /\ Owner!Candidate \in Owner!Payload
         /\ [Owner!Candidate EXCEPT !.manifest = Broken] \in Owner!Payload
         /\ [Owner!Candidate EXCEPT !.libraries = Library] \in Owner!Payload
         /\ [Owner!Candidate EXCEPT !.libraries = {}] \in Owner!Payload
         /\ [Owner!Candidate EXCEPT !.host = FALSE] \in Owner!Payload
         /\ \A m \in {Wanted, Nothing, Broken}, p \in Owner!Payload, r \in BOOLEAN :
               [marker |-> m, payload |-> p, regular |-> r] \in Owner!Directory
<1> Wanted.version \in Marked /\ Wanted.library \in Library /\ Wanted \in Owner!Marker
  BY DEF Markable, Owner!Marker
<1> QED
  BY DEF Owner!Payload, Owner!Whole, Owner!Candidate, Owner!Directory

LEMMA OwnerStart ==
  ASSUME Markable, NEW p,
         \/ \E v \in Marked, l \in Library : p = Owner!Whole(v, l)
         \/ p = [Owner!Candidate EXCEPT !.libraries = Library]
         \/ p = [Owner!Candidate EXCEPT !.host = FALSE]
  PROVE  p \in Owner!Payload
<1>1. Wanted.version \in Marked /\ Wanted.library \in Library
  BY DEF Markable, Owner!Marker
<1>2. CASE \E v \in Marked, l \in Library : p = Owner!Whole(v, l)
  BY <1>2, OwnerWholes
<1>3. CASE p = [Owner!Candidate EXCEPT !.libraries = Library]
  BY <1>1, <1>3 DEF Owner!Payload, Owner!Whole, Owner!Candidate
<1>4. CASE p = [Owner!Candidate EXCEPT !.host = FALSE]
  BY <1>1, <1>4 DEF Owner!Payload, Owner!Whole, Owner!Candidate
<1> QED
  BY <1>2, <1>3, <1>4

LEMMA OwnerInit == Markable /\ Owner!Init => OwnerInv
<1> SUFFICES ASSUME Markable, Owner!Init PROVE OwnerInv
  OBVIOUS
<1>1. /\ job \in {"stage", "classify", "seal"} /\ inode = 1 /\ stage = Nothing /\ pc = "start"
      /\ pinned = 0 /\ marker = Nothing /\ manifest = Nothing /\ second = FALSE
      /\ verdict = "none" /\ outside = 0 /\ sealed = {Wanted}
  BY DEF Owner!Init
<1>2. source \in Owner!Payload
  BY OwnerWholes DEF Owner!Init
<1>3. target = Nothing \/ (target \in Owner!Directory /\ target.marker \in {Wanted, Nothing, Broken})
  <2>1. target = Nothing \/ \E m \in {Wanted, Nothing, Broken}, r \in BOOLEAN, p \in Owner!Payload :
           target = [marker |-> m, payload |-> p, regular |-> r]
    <3>1. \/ target = Nothing
          \/ \E m \in {Wanted, Nothing, Broken}, r \in BOOLEAN,
                p \in {Owner!Whole(v, l) : v \in Marked, l \in Library}
                       \cup {[Owner!Candidate EXCEPT !.libraries = Library],
                             [Owner!Candidate EXCEPT !.host = FALSE]} :
                target = [marker |-> m, payload |-> p, regular |-> r]
      BY DEF Owner!Init
    <3>2. CASE target # Nothing
      <4>1. PICK m \in {Wanted, Nothing, Broken}, r \in BOOLEAN,
                 p \in {Owner!Whole(v, l) : v \in Marked, l \in Library}
                        \cup {[Owner!Candidate EXCEPT !.libraries = Library],
                              [Owner!Candidate EXCEPT !.host = FALSE]} :
                 target = [marker |-> m, payload |-> p, regular |-> r]
        BY <3>1, <3>2
      <4>2. p \in Owner!Payload
        <5>1. \/ \E v \in Marked, l \in Library : p = Owner!Whole(v, l)
              \/ p = [Owner!Candidate EXCEPT !.libraries = Library]
              \/ p = [Owner!Candidate EXCEPT !.host = FALSE]
          BY <4>1
        <5> QED
          BY <5>1, OwnerStart
      <4> QED
        BY <4>1, <4>2
    <3> QED
      BY <3>2
  <2> QED
    BY <2>1, OwnerWholes
<1>4. Owner!TypeOK
  <2>1. outside \in 0..MaxOutside /\ inode \in Nat /\ pinned \in Nat /\ sealed \subseteq Owner!Marker
    BY <1>1 DEF Markable
  <2>2. second \in BOOLEAN /\ verdict \in Owner!Verdict
    BY <1>1 DEF Owner!Verdict
  <2> QED
    BY <1>1, <1>2, <1>3, <2>1, <2>2 DEF Owner!TypeOK
<1>5. OneSeal /\ Looking /\ Staging /\ Sealing
  BY <1>1, <1>3 DEF OneSeal, Looking, Staging, Sealing
<1>6. Owner!ReplaceableIsOurs /\ Owner!StagedIsSelected /\ Owner!SealedHolds
  BY <1>1 DEF Owner!ReplaceableIsOurs, Owner!StagedIsSelected, Owner!SealedHolds
<1> QED
  BY <1>1, <1>4, <1>5, <1>6 DEF OwnerInv

LEMMA OwnerTypes ==
  ASSUME Markable, OwnerInv, Owner!Next
  PROVE  Owner!TypeOK'
<1> USE DEF Owner!Goto, Owner!Ends, Owner!World, Owner!Verdict, Owner!work
<1>t. Owner!TypeOK /\ Nothing # Broken /\ MaxOutside \in Nat /\ Wanted \in Owner!Marker
  BY DEF OwnerInv, Markable
<1>d. target # Nothing => target \in Owner!Directory /\ target.marker \in Owner!Marker \cup {Nothing, Broken}
                          /\ target.payload \in Owner!Payload
                          /\ target.payload.manifest \in Marked \cup {Nothing, Broken}
  BY <1>t DEF Owner!TypeOK, Owner!Directory, Owner!Payload
<1>s. source \in Owner!Payload /\ source.manifest \in Marked \cup {Nothing, Broken}
  BY <1>t DEF Owner!TypeOK, Owner!Payload
<1>1. CASE Owner!Capture
  BY <1>t, <1>1 DEF Owner!Capture, Owner!TypeOK
<1>2. CASE Owner!Root
  BY <1>t, <1>2 DEF Owner!Root, Owner!TypeOK
<1>3. CASE Owner!ReadMarker
  BY <1>t, <1>d, <1>3 DEF Owner!ReadMarker, Owner!TypeOK
<1>4. CASE Owner!ReadManifest
  BY <1>t, <1>d, <1>4 DEF Owner!ReadManifest, Owner!TypeOK, Owner!Unfit
<1>5. CASE Owner!ReadLibrary
  <2>1. second' \in BOOLEAN
    BY <1>t, <1>5, Zenon DEF Owner!ReadLibrary, Owner!TypeOK
  <2>2. /\ UNCHANGED <<job, target, inode, source, stage, outside, sealed, pinned, marker, manifest>>
        /\ pc' \in {"manifest", "done"}
        /\ verdict' \in {verdict, Owner!Unfit,
                         Owner!VerdictOf(manifest, Owner!LibraryOf(target.payload))}
    BY <1>5 DEF Owner!ReadLibrary
  <2>3. verdict' \in Owner!Verdict
    BY <1>t, <2>2 DEF Owner!Unfit, Owner!VerdictOf, Owner!TypeOK
  <2> HIDE DEF Owner!Verdict
  <2> QED
    BY <1>t, <2>1, <2>2, <2>3 DEF Owner!TypeOK
<1>6. CASE Owner!StageManifest
  <2>1. stage' \in Owner!Payload \cup {Nothing}
    <3>1. stage' = stage \/ stage' = [manifest |-> Wanted.version, libraries |-> {}, host |-> TRUE]
      BY <1>6 DEF Owner!StageManifest
    <3>2. Wanted.version \in Marked
      BY <1>t DEF Owner!Marker
    <3>3. [manifest |-> Wanted.version, libraries |-> {}, host |-> TRUE] \in Owner!Payload
      BY <3>2 DEF Owner!Payload
    <3> QED
      BY <1>t, <3>1, <3>3 DEF Owner!TypeOK
  <2> QED
    BY <1>t, <1>s, <1>6, <2>1 DEF Owner!StageManifest, Owner!TypeOK
<1>7. CASE Owner!CopyLibrary
  <2>1. stage' \in Owner!Payload \cup {Nothing}
    <3>1. Wanted.library \in Library
      BY <1>t DEF Owner!Marker
    <3>2. stage \in Owner!Payload
      <4>1. stage = [manifest |-> Wanted.version, libraries |-> {}, host |-> TRUE]
        BY <1>7 DEF Owner!CopyLibrary, OwnerInv, Staging
      <4>2. Wanted.version \in Marked
        BY <1>t DEF Owner!Marker
      <4> QED
        BY <4>1, <4>2 DEF Owner!Payload
    <3> QED
      BY <1>7, <3>1, <3>2 DEF Owner!CopyLibrary, Owner!Payload
  <2> QED
    BY <1>t, <1>7, <2>1 DEF Owner!CopyLibrary, Owner!TypeOK
<1>8. CASE Owner!InspectStage
  BY <1>t, <1>8 DEF Owner!InspectStage, Owner!TypeOK
<1>9. CASE Owner!SealInspect
  BY <1>t, <1>9 DEF Owner!SealInspect, Owner!TypeOK
<1>10. CASE Owner!SealRename
  <2>1. target' \in Owner!Directory \cup {Nothing}
    BY <1>t, <1>d, <1>10 DEF Owner!SealRename, Owner!Directory
  <2> QED
    BY <1>t, <1>10, <2>1 DEF Owner!SealRename, Owner!TypeOK
<1>11. CASE Owner!Replace
  <2>1. target' \in Owner!Directory \cup {Nothing}
    <3> DEFINE P == {Owner!Candidate} \cup {Owner!Whole(v, l) : v \in Marked, l \in Library}
    <3>w. Owner!Candidate \in Owner!Payload
          /\ \A v \in Marked, l \in Library : Owner!Whole(v, l) \in Owner!Payload
      BY OwnerWholes
    <3>1. \A p \in P : p \in Owner!Payload
      BY <3>w
    <3>2. \E p \in P :
             target' \in {Nothing, [marker |-> Nothing, payload |-> p, regular |-> TRUE]}
      BY <1>11 DEF Owner!Replace
    <3> HIDE DEF P
    <3> QED
      BY <3>1, <3>2, OwnerWholes
  <2> QED
    BY <1>t, <1>11, <2>1 DEF Owner!Replace, Owner!Outside, Owner!TypeOK
<1>12. CASE Owner!Tamper
  <2>1. source' \in Owner!Payload
    BY <1>12, OwnerWholes DEF Owner!Tamper
  <2> QED
    BY <1>t, <1>12, <2>1 DEF Owner!Tamper, Owner!Outside, Owner!TypeOK
<1>13. CASE Owner!Killed
  BY <1>t, <1>13 DEF Owner!Killed, Owner!TypeOK
<1> QED
  BY <1>1, <1>2, <1>3, <1>4, <1>5, <1>6, <1>7, <1>8, <1>9, <1>10, <1>11, <1>12, <1>13
     DEF Owner!Next

\* A classification reads the directory it has captured.
LEMMA OwnerLooks ==
  ASSUME Markable, OwnerInv, Owner!Next, job = "classify"
  PROVE  /\ job' = job /\ stage' = Nothing /\ verdict' \notin {"staged", "sealed"}
         /\ (pc' # "done" <=> verdict' = "none")
         /\ OneSeal' /\ Looking' /\ Owner!ReplaceableIsOurs'
<1> USE DEF Owner!Goto, Owner!Ends, Owner!World, Owner!work
<1>t. Owner!TypeOK /\ OneSeal /\ Looking /\ stage = Nothing /\ verdict \notin {"staged", "sealed"}
      /\ (pc # "done" <=> verdict = "none") /\ Nothing # Broken /\ inode \in Nat /\ pinned \in Nat
      /\ Owner!ReplaceableIsOurs
  BY DEF OwnerInv, Staging, Sealing, Owner!TypeOK, Markable
<1>1. CASE Owner!Capture
  BY <1>t, <1>1 DEF Owner!Capture, OneSeal, Looking, Owner!ReplaceableIsOurs
<1>2. CASE Owner!Root
  BY <1>t, <1>2 DEF Owner!Root, OneSeal, Looking, Owner!ReplaceableIsOurs
<1>3. CASE Owner!ReadMarker
  BY <1>t, <1>3 DEF Owner!ReadMarker, OneSeal, Looking, Owner!ReplaceableIsOurs
<1>4. CASE Owner!ReadManifest
  BY <1>t, <1>4 DEF Owner!ReadManifest, OneSeal, Looking, Owner!ReplaceableIsOurs, Owner!Unfit
<1>5. CASE Owner!ReadLibrary
  <2> DEFINE l == Owner!LibraryOf(target.payload)
  <2>1. /\ UNCHANGED <<job, target, inode, source, stage, outside, sealed, pinned, marker, manifest>>
        /\ pc = "library"
        /\ \/ pc' = "manifest" /\ verdict' = verdict
           \/ pc' = "done" /\ verdict' = Owner!Unfit
           \/ /\ pc' = "done" /\ verdict' = Owner!VerdictOf(manifest, l)
              /\ target # Nothing => l # Nothing
    BY <1>5 DEF Owner!ReadLibrary
  <2>2. OneSeal' /\ Looking'
    BY <1>t, <2>1 DEF OneSeal, Looking
  <2>3. verdict' \notin {"staged", "sealed"} /\ (pc' # "done" <=> verdict' = "none")
    BY <1>t, <2>1 DEF Owner!Unfit, Owner!VerdictOf
  <2>4. ASSUME inode = pinned, verdict' \in {"missing", "managed", "legacy"}
        PROVE  /\ verdict' # "missing"
               /\ verdict' = "managed" => Owner!MarkerHolds(target)
               /\ verdict' = "legacy" => target # Nothing /\ target.payload = Owner!Candidate
    <3>1. target # Nothing /\ marker = target.marker /\ manifest = target.payload.manifest
      BY <1>t, <2>1, <2>4, <1>5 DEF Looking
    <3>2. verdict' = Owner!VerdictOf(manifest, l) /\ l # Nothing
      BY <1>t, <2>1, <2>4, <3>1 DEF Owner!Unfit
    <3>3. target.payload \in Owner!Payload
      BY <1>t, <3>1 DEF Owner!TypeOK, Owner!Directory
    <3>4. target.payload = Owner!Whole(manifest, l)
      BY <3>1, <3>2, <3>3, OwnerLibrary
    <3> HIDE DEF l
    <3>5. verdict' = "managed" => marker = [version |-> manifest, library |-> l] /\ marker # Nothing
      BY <3>2 DEF Owner!VerdictOf
    <3>6. verdict' = "legacy" => Wanted = [version |-> manifest, library |-> l]
      BY <3>2 DEF Owner!VerdictOf
    <3>7. verdict' # "missing"
      BY <3>2 DEF Owner!VerdictOf
    <3>8. ASSUME marker = [version |-> manifest, library |-> l], marker # Nothing
          PROVE  Owner!MarkerHolds(target)
      <4>1. marker \in {Wanted, Broken} /\ marker # Broken
        BY <1>t, <1>5, <2>1, <2>4, <3>1, <3>8 DEF OneSeal, Looking
      <4>2. marker \in sealed /\ marker.version = manifest /\ marker.library = l
        BY <1>t, <3>8, <4>1 DEF OneSeal
      <4> QED
        BY <3>1, <3>4, <4>2 DEF Owner!MarkerHolds
    <3> QED
      BY <3>1, <3>4, <3>5, <3>6, <3>7, <3>8 DEF Owner!Candidate
  <2>5. Owner!ReplaceableIsOurs'
    BY <2>1, <2>4 DEF Owner!ReplaceableIsOurs, Owner!MarkerHolds
  <2> QED
    BY <1>t, <2>1, <2>2, <2>3, <2>5
<1>6. CASE Owner!Replace
  <2>1. OneSeal'
    BY <1>t, <1>6 DEF Owner!Replace, OneSeal
  <2>2. /\ inode' = inode + 1 /\ pc # "done" /\ outside' = outside + 1
        /\ UNCHANGED <<job, source, stage, pc, pinned, marker, manifest, second, verdict, sealed>>
    BY <1>6 DEF Owner!Replace, Owner!Outside
  <2> QED
    BY <1>t, <2>1, <2>2 DEF Looking, Owner!ReplaceableIsOurs
<1>7. CASE Owner!Killed
  BY <1>t, <1>7 DEF Owner!Killed, OneSeal, Looking, Owner!ReplaceableIsOurs
<1> QED
  BY <1>t, <1>1, <1>2, <1>3, <1>4, <1>5, <1>6, <1>7 DEF Owner!Next, Owner!StageManifest,
     Owner!CopyLibrary, Owner!InspectStage, Owner!SealInspect, Owner!SealRename, Owner!Tamper

\* A staging copies what was selected, or leaves nothing.
LEMMA OwnerStages ==
  ASSUME Markable, OwnerInv, Owner!Next, job = "stage"
  PROVE  /\ job' = job /\ verdict' # "sealed" /\ (pc' # "done" <=> verdict' = "none")
         /\ OneSeal' /\ Staging' /\ Owner!StagedIsSelected'
<1> USE DEF Owner!Goto, Owner!Ends, Owner!World, Owner!work
<1>t. OneSeal /\ Staging /\ verdict # "sealed" /\ (pc # "done" <=> verdict = "none")
      /\ Owner!StagedIsSelected
  BY DEF OwnerInv, Sealing
<1>1. CASE Owner!StageManifest
  BY <1>t, <1>1 DEF Owner!StageManifest, OneSeal, Staging, Owner!StagedIsSelected
<1>2. CASE Owner!CopyLibrary
  BY <1>t, <1>2 DEF Owner!CopyLibrary, OneSeal, Staging, Owner!StagedIsSelected, Owner!Candidate,
     Owner!Whole
<1>3. CASE Owner!InspectStage
  BY <1>t, <1>3 DEF Owner!InspectStage, OneSeal, Staging, Owner!StagedIsSelected
<1>4. CASE Owner!Replace
  <2>1. OneSeal'
    BY <1>t, <1>4 DEF Owner!Replace, OneSeal
  <2> QED
    BY <1>t, <1>4, <2>1 DEF Owner!Replace, Staging, Owner!StagedIsSelected
<1>5. CASE Owner!Tamper \/ Owner!Killed
  BY <1>t, <1>5 DEF Owner!Tamper, Owner!Killed, OneSeal, Staging, Owner!StagedIsSelected
<1> QED
  BY <1>t, <1>1, <1>2, <1>3, <1>4, <1>5 DEF Owner!Next, Owner!Capture, Owner!Root,
     Owner!ReadMarker, Owner!ReadManifest, Owner!ReadLibrary, Owner!SealInspect, Owner!SealRename

\* A seal is put beside the payload that was inspected.
LEMMA OwnerSeals ==
  ASSUME Markable, OwnerInv, Owner!Next, job = "seal"
  PROVE  /\ job' = job /\ stage' = Nothing /\ verdict' # "staged"
         /\ (pc' # "done" <=> verdict' = "none")
         /\ OneSeal' /\ Sealing' /\ Owner!SealedHolds'
<1> USE DEF Owner!Goto, Owner!Ends, Owner!World, Owner!work
<1>t. OneSeal /\ Sealing /\ stage = Nothing /\ verdict # "staged"
      /\ (pc # "done" <=> verdict = "none") /\ Owner!SealedHolds
  BY DEF OwnerInv, Staging
<1>1. CASE Owner!SealInspect
  BY <1>t, <1>1 DEF Owner!SealInspect, OneSeal, Sealing, Owner!SealedHolds
<1>2. CASE Owner!SealRename
  <2>1. target # Nothing /\ target.payload = Owner!Candidate /\ target \in Owner!Directory
    BY <1>t, <1>2 DEF Owner!SealRename, Sealing, OwnerInv, Owner!TypeOK
  <2>2. /\ target' = [target EXCEPT !.marker = Wanted] /\ pc' = "done" /\ verdict' = "sealed"
        /\ UNCHANGED <<job, stage, sealed>>
    BY <1>2, <2>1 DEF Owner!SealRename
  <2>3. target'.marker = Wanted /\ target'.payload = Owner!Candidate /\ target' # Nothing
    <3>1. target' \in Owner!Directory
      BY <2>1, <2>2 DEF Owner!Directory, Markable
    <3> QED
      BY <2>1, <2>2, <3>1 DEF Owner!Directory, Markable
  <2> QED
    BY <1>t, <2>2, <2>3 DEF OneSeal, Sealing, Owner!SealedHolds, Owner!MarkerHolds,
       Owner!Candidate
<1>3. CASE Owner!Killed
  BY <1>t, <1>3 DEF Owner!Killed, OneSeal, Sealing, Owner!SealedHolds
<1> QED
  BY <1>t, <1>1, <1>2, <1>3 DEF Owner!Next, Owner!Capture, Owner!Root, Owner!ReadMarker,
     Owner!ReadManifest, Owner!ReadLibrary, Owner!StageManifest, Owner!CopyLibrary,
     Owner!InspectStage, Owner!Replace, Owner!Tamper

LEMMA OwnerStep ==
  ASSUME Markable, OwnerInv, [Owner!Next]_(Owner!vars)
  PROVE  OwnerInv'
<1>1. CASE Owner!Next
  <2>1. Owner!TypeOK'
    BY <1>1, OwnerTypes
  <2>2. job \in {"stage", "classify", "seal"}
    BY DEF OwnerInv, Owner!TypeOK
  <2>3. CASE job = "classify"
    BY <1>1, <2>1, <2>3, OwnerLooks
       DEF OwnerInv, Staging, Sealing, Owner!StagedIsSelected, Owner!SealedHolds
  <2>4. CASE job = "stage"
    BY <1>1, <2>1, <2>4, OwnerStages
       DEF OwnerInv, Looking, Sealing, Owner!ReplaceableIsOurs, Owner!SealedHolds
  <2>5. CASE job = "seal"
    BY <1>1, <2>1, <2>5, OwnerSeals
       DEF OwnerInv, Looking, Staging, Owner!ReplaceableIsOurs, Owner!StagedIsSelected
  <2> QED
    BY <2>2, <2>3, <2>4, <2>5
<1>2. CASE UNCHANGED Owner!vars
  <2> USE <1>2 DEF Owner!vars, Owner!work
  <2>1. Owner!TypeOK'
    BY DEF OwnerInv, Owner!TypeOK
  <2>2. OneSeal' /\ Looking' /\ Staging' /\ Sealing' /\ (pc' # "done" <=> verdict' = "none")
    BY DEF OwnerInv, OneSeal, Looking, Staging, Sealing
  <2>3. Owner!ReplaceableIsOurs' /\ Owner!StagedIsSelected' /\ Owner!SealedHolds'
    BY DEF OwnerInv, Owner!ReplaceableIsOurs, Owner!StagedIsSelected, Owner!SealedHolds,
       Owner!MarkerHolds
  <2> QED
    BY <2>1, <2>2, <2>3 DEF OwnerInv
<1> QED
  BY <1>1, <1>2

\* Whatever others do meanwhile: a verdict that lets a directory be replaced is true of
\* the directory that was captured, what is staged is what was selected, and a marker is
\* put beside nothing but the payload it records (classify, stage_verified_payload,
\* write_marker).
THEOREM OwnershipIsTrue ==
  ASSUME Markable
  PROVE  Owner!Spec =>
            [](Owner!ReplaceableIsOurs /\ Owner!StagedIsSelected /\ Owner!SealedHolds)
<1>1. Owner!Init => OwnerInv
  BY OwnerInit
<1>2. OwnerInv /\ [Owner!Next]_(Owner!vars) => OwnerInv'
  BY OwnerStep
<1>3. OwnerInv => Owner!ReplaceableIsOurs /\ Owner!StagedIsSelected /\ Owner!SealedHolds
  BY DEF OwnerInv
<1> QED
  BY <1>1, <1>2, <1>3, PTL DEF Owner!Spec

-----------------------------------------------------------------------------
(***************************************************************************)
(* The cached report of a live probe (diagnostics/).                       *)
(***************************************************************************)
CONSTANTS Profile, MaxProfiles, Build, MaxChanges, MaxTests

VARIABLES exe, cdm, owner, comp, running, pre, half, raw, exit, temp, report, doctor, touched,
          changes, tests

Eme == INSTANCE Report

\* The parts of what a browser loads are told apart, and so are files and what is none.
Reportable ==
    /\ IsFiniteSet(Profile) /\ Profile \cap {"exe", "target", "owner", "local"} = {}
    /\ Build # {} /\ Torn \notin Build /\ Torn \notin Eme!File
    /\ MaxProfiles \in Nat

\* What is told of what a browser loads at the target, and from each profile.
Part(k) ==
    IF k = "target" THEN {<<"target", Eme!Told(cdm)>> : x \in IF cdm = Absent THEN {} ELSE {1}}
    ELSE {<<k, Eme!Told(comp[k])>> : x \in IF comp[k] = Absent THEN {} ELSE {1}}

PartIn(entries, k) == {e \in entries : e[1] = k}

Parts == Profile \cup {"target"}

\* Entries of the parts, and of nothing else.
OfParts(entries) == entries \subseteq Parts \X (Build \cup {Absent, Torn})

\* A part that was not changed is what it was.
Drifts(entries) ==
    ~touched.twice => \A k \in Parts \ touched.parts : Part(k) = PartIn(entries, k)

\* What was loaded since is of a part what it was or what it is.
Between(entries, seen) ==
    /\ OfParts(seen)
    /\ ~touched.twice =>
         \A k \in Parts : PartIn(seen, k) \in {PartIn(entries, k), Part(k)}

FilesOK ==
    /\ exe \in Eme!File /\ cdm \in Eme!File \cup {Absent}
    /\ owner \in {"managed", "external", "missing"}
    /\ dir \in [Profile -> {"none", "dir", "link"}]
    /\ comp \in [Profile -> Eme!File \cup {Absent, Torn}]
    /\ \A p \in Profile : dir[p] = "none" => comp[p] = Absent
    /\ touched.twice \in BOOLEAN
    /\ running = Eme!Nil \/ (running.kind = "loaded" /\ OfParts(Eme!ToldOf(running.entries)))

\* The components of a fingerprint, and where the test compares them with.
TakenAs(f, kind) ==
    f = Eme!Nil \/ (f.kind = kind /\ Eme!Exact(f.entries) /\ OfParts(f.entries))

\* An executable that is not what it was was changed.
ExeTold == (~touched.twice /\ Eme!Told(exe) # pre.exe) => "exe" \in touched.parts

ExeBetween(seen) == ~touched.twice => seen \in {pre.exe, Eme!Told(exe)}

\* What is told of what a browser was loaded from.
SeenOf(b) == Eme!ToldOf(b.entries)

\* From the first fingerprint to the launch.
Preparing ==
    /\ pc = "pre" /\ half # Eme!Nil => Drifts(half.entries)
    /\ pc = "launch" /\ pre # Eme!Nil => Drifts(pre.entries) /\ ExeTold

\* While the browser is asked: what it was loaded from, if the test launched it.
Asking ==
    /\ pc = "wait" /\ pre # Eme!Nil => Drifts(pre.entries) /\ ExeTold
    /\ pc = "wait" /\ pre # Eme!Nil /\ ~raw.warm /\ running # Eme!Nil =>
         Between(pre.entries, SeenOf(running)) /\ ExeBetween(Eme!Told(running.exe))

Answered ==
    /\ pc = "answered" /\ pre # Eme!Nil => Drifts(pre.entries) /\ ExeTold
    /\ pc = "answered" /\ pre # Eme!Nil /\ ~raw.warm =>
         Between(pre.entries, SeenOf(raw.seen)) /\ ExeBetween(Eme!Told(raw.seen.exe))

\* Whoever finds the components as they were has found those that were loaded.
Comparing ==
    /\ pc = "post" /\ pre # Eme!Nil => ExeTold
    /\ pc = "post" /\ pre # Eme!Nil /\ ~raw.warm =>
         /\ ExeBetween(Eme!Told(raw.seen.exe))
         /\ ~touched.twice /\ half # Eme!Nil /\ half.entries = pre.entries =>
              SeenOf(raw.seen) = pre.entries

\* A result with the fingerprint of what was loaded.
Matches(f, r, twice) ==
    ~r.warm /\ ~twice => Eme!Told(r.seen.exe) = f.exe /\ SeenOf(r.seen) = f.entries

Keeping ==
    /\ pc \in {"write", "rename"} =>
         pre # Eme!Nil /\ Matches(pre, raw, touched.twice) 
    /\ report.kind \in {"none", "unsafe", "report"}
    /\ report.kind = "report" => Matches(report.fingerprint, report.raw, report.twice)

TestSteps == {"idle", "pre", "launch", "wait", "answered", "post", "write", "rename"}

ReportInv ==
    /\ FilesOK /\ pc \in TestSteps /\ exit \in {"none", "ok", "failed", "error"}
    /\ pc # "idle" => exit = "none"
    /\ TakenAs(pre, "fingerprint") /\ TakenAs(half, "components")
    /\ pre # Eme!Nil => pre.exe \in Build
    /\ pc \in {"answered", "post", "write", "rename"} =>
         raw.kind = "raw" /\ raw.plays \in BOOLEAN
    /\ Preparing /\ Asking /\ Answered /\ Comparing /\ Keeping
    /\ Eme!HitIsExact /\ Eme!BlameIsNow

LEMMA ReportTold ==
  ASSUME Reportable
  PROVE  /\ \A f \in Eme!File : Eme!Told(f) = f.digest /\ Eme!Told(f) \in Build
         /\ Eme!Told(Torn) = Torn
<1>1. \A f \in Eme!File : f # Torn /\ f.digest \in Build
  BY DEF Reportable, Eme!File
<1> QED
  BY <1>1 DEF Eme!Told

LEMMA ReportParts ==
  ASSUME Reportable, FilesOK
  PROVE  /\ \A k \in Parts : PartIn(SeenOf(Eme!Loaded), k) = Part(k)
         /\ OfParts(SeenOf(Eme!Loaded)) /\ Eme!Loaded.kind = "loaded" /\ Eme!Loaded.exe = exe
         /\ Eme!ScopeComplete => Eme!Entries = SeenOf(Eme!Loaded)
<1> DEFINE P == {<<p, comp[p]>> : p \in {q \in Profile : dir[q] # "none" /\ comp[q] # Absent}}
<1>0. "target" \notin Profile
  BY DEF Reportable
<1>1. Eme!Loaded = [kind |-> "loaded", exe |-> exe, entries |-> Eme!AtTarget \cup P]
  BY DEF Eme!Loaded
<1>2. \A x : x \in Eme!AtTarget <=> cdm # Absent /\ x = <<"target", cdm>>
  BY DEF Eme!AtTarget
<1>3. \A x : x \in P <=> \E p \in Profile : comp[p] # Absent /\ x = <<p, comp[p]>>
  BY DEF FilesOK
<1>4. \A x : x \in SeenOf(Eme!Loaded) <=>
               \/ cdm # Absent /\ x = <<"target", Eme!Told(cdm)>>
               \/ \E p \in Profile : comp[p] # Absent /\ x = <<p, Eme!Told(comp[p])>>
  <2>1. \A x : x \in SeenOf(Eme!Loaded) <=>
                 \E e \in Eme!AtTarget \cup P : x = <<e[1], Eme!Told(e[2])>>
    BY <1>1 DEF SeenOf, Eme!ToldOf
  <2>2. ASSUME NEW x, x \in SeenOf(Eme!Loaded)
        PROVE  \/ cdm # Absent /\ x = <<"target", Eme!Told(cdm)>>
               \/ \E p \in Profile : comp[p] # Absent /\ x = <<p, Eme!Told(comp[p])>>
    <3>1. PICK e \in Eme!AtTarget \cup P : x = <<e[1], Eme!Told(e[2])>>
      BY <2>1, <2>2
    <3>2. CASE e \in Eme!AtTarget
      BY <1>2, <3>1, <3>2
    <3>3. CASE e \in P
      BY <1>3, <3>1, <3>3
    <3> QED
      BY <3>1, <3>2, <3>3
  <2>3. ASSUME cdm # Absent PROVE <<"target", Eme!Told(cdm)>> \in SeenOf(Eme!Loaded)
    <3>1. <<"target", cdm>> \in Eme!AtTarget \cup P
      BY <1>2, <2>3
    <3> QED
      BY <2>1, <3>1
  <2>4. ASSUME NEW p \in Profile, comp[p] # Absent
        PROVE  <<p, Eme!Told(comp[p])>> \in SeenOf(Eme!Loaded)
    <3>1. <<p, comp[p]>> \in Eme!AtTarget \cup P
      BY <1>3, <2>4
    <3> QED
      BY <2>1, <3>1
  <2> QED
    BY <2>2, <2>3, <2>4
<1>5. OfParts(SeenOf(Eme!Loaded))
  <2>1. /\ cdm # Absent => Eme!Told(cdm) \in Build
        /\ \A p \in Profile : comp[p] # Absent => Eme!Told(comp[p]) \in Build \cup {Torn}
    BY ReportTold DEF FilesOK
  <2> QED
    BY <1>4, <2>1 DEF OfParts, Parts
<1>6. PartIn(SeenOf(Eme!Loaded), "target") = Part("target")
  <2>1. \A x : x \in Part("target") <=> cdm # Absent /\ x = <<"target", Eme!Told(cdm)>>
    BY DEF Part
  <2>2. \A x : x \in PartIn(SeenOf(Eme!Loaded), "target") <=>
                 x \in SeenOf(Eme!Loaded) /\ x[1] = "target"
    BY DEF PartIn
  <2> QED
    BY <1>0, <1>4, <2>1, <2>2
<1>7. ASSUME NEW k \in Profile PROVE PartIn(SeenOf(Eme!Loaded), k) = Part(k)
  <2>1. \A x : x \in Part(k) <=> comp[k] # Absent /\ x = <<k, Eme!Told(comp[k])>>
    BY <1>0, <1>7 DEF Part
  <2>2. \A x : x \in PartIn(SeenOf(Eme!Loaded), k) <=>
                 x \in SeenOf(Eme!Loaded) /\ x[1] = k
    BY DEF PartIn
  <2> QED
    BY <1>0, <1>4, <1>7, <2>1, <2>2
<1>8. ASSUME Eme!ScopeComplete PROVE Eme!Entries = SeenOf(Eme!Loaded)
  <2>1. IsFiniteSet(Eme!Dirs)
    BY FS_Subset DEF Eme!Dirs, Reportable
  <2>2. \A s \in SUBSET Eme!Dirs : Eme!Cardinality(s) = Eme!Cardinality(Eme!Dirs) => s = Eme!Dirs
    <3>1. \A s : Eme!Cardinality(s) = Cardinality(s)
      BY DEF Eme!Cardinality, Cardinality, Eme!IsFiniteSet, IsFiniteSet
    <3> QED
      BY <2>1, <3>1, FS_Subset
  <2>3. Eme!Inspected = Eme!Dirs
    BY <1>8, <2>2 DEF Eme!Inspected, Eme!ScopeComplete
  <2>4. Eme!Dirs = {p \in Profile : dir[p] # "none"}
    BY <1>8 DEF Eme!Dirs, Eme!ScopeComplete, FilesOK
  <2>5. P = {<<p, comp[p]>> : p \in {q \in Eme!Inspected : comp[q] # Absent}}
    BY <2>3, <2>4
  <2> HIDE DEF P
  <2>6. Eme!Loaded.entries = Eme!AtTarget \cup P
    BY <1>1
  <2> QED
    BY <2>5, <2>6 DEF Eme!Entries, SeenOf
<1> HIDE DEF P
<1> QED
  BY <1>1, <1>5, <1>6, <1>7, <1>8 DEF Parts

\* What a change of the files does to a part, and to what a browser has loaded.
Changing(k) ==
    /\ k \in Parts \cup {"exe", "owner", "local"}
    /\ pc = "idle" => touched' = touched
    /\ pc # "idle" => /\ touched'.parts = touched.parts \cup {k}
                      /\ touched'.twice = (touched.twice \/ k \in touched.parts)
    /\ \A j \in Parts \ {k} : Part(j)' = Part(j)
    /\ k # "exe" => exe' = exe
    /\ UNCHANGED <<running, pc, pre, half, raw, exit, temp, report>>
    /\ FilesOK'

LEMMA ReportChanges ==
  ASSUME Reportable, FilesOK, Eme!Files
  PROVE  \E k : Changing(k)
<1> USE DEF Eme!Changed, Eme!test, Eme!store
<1>0. "target" \notin Profile /\ "exe" \notin Parts /\ "owner" \notin Parts /\ "local" \notin Parts
  BY DEF Reportable, Parts
<1>t. /\ exe \in Eme!File /\ cdm \in Eme!File \cup {Absent}
      /\ owner \in {"managed", "external", "missing"}
      /\ dir \in [Profile -> {"none", "dir", "link"}]
      /\ comp \in [Profile -> Eme!File \cup {Absent, Torn}]
      /\ \A p \in Profile : dir[p] = "none" => comp[p] = Absent
      /\ touched.twice \in BOOLEAN
  BY DEF FilesOK
<1>r. running = Eme!Nil \/ (running.kind = "loaded" /\ OfParts(Eme!ToldOf(running.entries)))
  BY DEF FilesOK
<1>p. /\ cdm' = cdm => Part("target")' = Part("target")
      /\ \A p \in Profile : comp'[p] = comp[p] => Part(p)' = Part(p)
  BY <1>0, Zenon DEF Part
<1>f. UNCHANGED running =>
        running' = Eme!Nil \/ (running'.kind = "loaded" /\ OfParts(Eme!ToldOf(running.entries))')
  BY <1>r DEF OfParts, Parts, Eme!ToldOf, Eme!Told
<1>g. \A k : LET u == IF pc = "idle" THEN touched
                      ELSE [parts |-> touched.parts \cup {k},
                            twice |-> touched.twice \/ k \in touched.parts] IN
             /\ u.twice \in BOOLEAN
             /\ pc = "idle" => u = touched
             /\ pc # "idle" => /\ u.parts = touched.parts \cup {k}
                               /\ u.twice = (touched.twice \/ k \in touched.parts)
  BY <1>t
<1>1. CASE Eme!UpdateBrowser
  <2>1. FilesOK'
    BY <1>t, <1>f, <1>1 DEF Eme!UpdateBrowser, FilesOK
  <2> QED
    BY <1>0, <1>p, <1>1, <2>1 DEF Eme!UpdateBrowser, Changing, Parts
<1>2. CASE Eme!ChangeTarget
  <2>1. FilesOK'
    BY <1>t, <1>f, <1>2 DEF Eme!ChangeTarget, FilesOK
  <2>2. Changing("target")
    BY <1>0, <1>p, <1>2, <2>1 DEF Eme!ChangeTarget, Changing, Parts
  <2> QED
    BY <2>2
<1>3. CASE Eme!ChangeOwner
  <2>1. FilesOK'
    BY <1>t, <1>f, <1>3 DEF Eme!ChangeOwner, FilesOK
  <2>2. Changing("owner")
    BY <1>0, <1>p, <1>3, <2>1 DEF Eme!ChangeOwner, Changing, Parts
  <2> QED
    BY <2>2
<1>4. CASE Eme!WriteLocal
  <2>1. FilesOK'
    BY <1>t, <1>f, <1>4 DEF Eme!WriteLocal, FilesOK
  <2>2. Changing("local")
    BY <1>0, <1>p, <1>4, <2>1 DEF Eme!WriteLocal, Changing, Parts
  <2> QED
    BY <2>2
<1>5. ASSUME NEW p \in Profile, Eme!ChangeComponent(p) PROVE \E k : Changing(k)
  <2>1. PICK c \in (Eme!File \cup {Absent, Torn}) \ {comp[p]} : comp' = [comp EXCEPT ![p] = c]
    BY <1>5 DEF Eme!ChangeComponent, Eme!Component
  <2>2. FilesOK'
    BY <1>t, <1>f, <1>5, <2>1 DEF Eme!ChangeComponent, FilesOK
  <2>3. comp'[p] # comp[p] /\ \A q \in Profile \ {p} : comp'[q] = comp[q]
    BY <1>t, <2>1
  <2>4. Changing(p)
    BY <1>0, <1>p, <1>5, <2>2, <2>3 DEF Eme!ChangeComponent, Changing, Parts
  <2> QED
    BY <2>4
<1>6. ASSUME NEW p \in Profile, Eme!MakeProfile(p) PROVE \E k : Changing(k)
  <2>1. PICK d \in {"dir", "link"} : dir' = [dir EXCEPT ![p] = d]
    BY <1>6 DEF Eme!MakeProfile
  <2>2. FilesOK'
    BY <1>t, <1>f, <1>6, <2>1 DEF Eme!MakeProfile, FilesOK
  <2>3. comp[p] = Absent /\ comp'[p] = Absent
    BY <1>t, <1>6 DEF Eme!MakeProfile
  <2>4. Changing(p)
    BY <1>0, <1>p, <1>6, <2>2, <2>3 DEF Eme!MakeProfile, Changing, Parts
  <2> QED
    BY <2>4
<1> QED
  BY <1>1, <1>2, <1>3, <1>4, <1>5, <1>6 DEF Eme!Files

\* What is known of a test's files outlives a change of them.
LEMMA ReportDrifts ==
  ASSUME Reportable, FilesOK, pc # "idle", NEW k, Changing(k), NEW e, Drifts(e)
  PROVE  Drifts(e)' /\ \A seen : Between(e, seen) => Between(e, seen)'
<1>1. CASE k \in touched.parts
  <2>1. touched'.twice
    BY <1>1 DEF Changing
  <2> QED
    BY <2>1 DEF Drifts, Between, OfParts
<1>2. CASE k \notin touched.parts
  <2>1. ASSUME ~touched'.twice PROVE ~touched.twice
    BY <2>1 DEF Changing
  <2>2. ASSUME ~touched'.twice, NEW j \in Parts \ touched'.parts PROVE Part(j)' = PartIn(e, j)
    BY <2>1, <2>2 DEF Changing, Drifts
  <2>3. Drifts(e)'
    BY <2>2 DEF Drifts, PartIn
  <2>4. ASSUME NEW seen, Between(e, seen), ~touched'.twice, NEW j \in Parts
        PROVE  PartIn(seen, j) \in {PartIn(e, j), Part(j)'}
    <3>1. CASE j = k
      BY <1>2, <2>1, <2>4, <3>1 DEF Drifts, Between
    <3>2. CASE j # k
      BY <2>1, <2>4, <3>2 DEF Changing, Between
    <3> QED
      BY <3>1, <3>2
  <2>5. ASSUME NEW seen, Between(e, seen) PROVE Between(e, seen)'
    BY <2>4, <2>5 DEF Between, OfParts, PartIn
  <2> QED
    BY <2>3, <2>5
<1> QED
  BY <1>1, <1>2

LEMMA ReportExe ==
  ASSUME Reportable, FilesOK, pc # "idle", NEW k, Changing(k), ExeTold, UNCHANGED pre
  PROVE  ExeTold' /\ \A seen : ExeBetween(seen) => ExeBetween(seen)'
<1>1. CASE k \in touched.parts
  BY <1>1 DEF Changing, ExeTold, ExeBetween
<1>2. CASE k \notin touched.parts
  BY <1>2 DEF Changing, ExeTold, ExeBetween
<1> QED
  BY <1>1, <1>2

\* A doctor that shows nothing shows nothing false.
LEMMA ReportSilent ==
  ASSUME doctor' = Eme!Nil
  PROVE  Eme!HitIsExact' /\ Eme!BlameIsNow'
BY DEF Eme!Nil, Eme!HitIsExact, Eme!BlameIsNow

LEMMA ReportFiles ==
  ASSUME Reportable, ReportInv, NEW k, Changing(k), doctor' = Eme!Nil
  PROVE  ReportInv'
<1>1. FilesOK /\ FilesOK' /\ (touched.twice => touched'.twice)
  BY DEF Changing, ReportInv
<1>2. UNCHANGED <<running, pc, pre, half, raw, exit, temp, report>>
  BY DEF Changing
<1>3. Preparing' /\ Asking' /\ Answered'
  BY <1>1, <1>2, ReportDrifts, ReportExe DEF ReportInv, Preparing, Asking, Answered
<1>4. Comparing'
  BY <1>1, <1>2, ReportExe DEF ReportInv, Comparing
<1>5. Keeping'
  BY <1>1, <1>2 DEF ReportInv, Keeping, Matches, SeenOf, Eme!ToldOf, Eme!Told
<1>6. Eme!HitIsExact' /\ Eme!BlameIsNow'
  BY ReportSilent
<1>7. TakenAs(pre, "fingerprint")' /\ TakenAs(half, "components")'
  BY <1>2 DEF ReportInv, TakenAs, OfParts, Eme!Exact, Parts
<1> QED
  BY <1>1, <1>2, <1>3, <1>4, <1>5, <1>6, <1>7 DEF ReportInv

\* What the test has when it has taken the components.
LEMMA ReportTaken ==
  ASSUME Reportable, FilesOK
  PROVE  /\ TakenAs(Eme!Components, "components")
         /\ Eme!Components # Eme!Nil =>
              \A k \in Parts : PartIn(Eme!Components.entries, k) = Part(k)
         /\ \A f, e : /\ (Eme!Fingerprint(f, e) = Eme!Nil <=> f = Eme!Nil)
                      /\ f # Eme!Nil => /\ Eme!Fingerprint(f, e).kind = "fingerprint"
                                        /\ Eme!Fingerprint(f, e).exe = Eme!Told(e)
                                        /\ Eme!Fingerprint(f, e).entries = f.entries
<1>1. Eme!Components = Eme!Nil \/ (/\ Eme!ScopeComplete /\ Eme!Exact(Eme!Entries)
                                   /\ Eme!Components = [kind |-> "components",
                                                        entries |-> Eme!Entries])
  BY DEF Eme!Components
<1>2. TakenAs(Eme!Components, "components")
  BY <1>1, ReportParts DEF TakenAs
<1>3. Eme!Components # Eme!Nil => \A k \in Parts : PartIn(Eme!Components.entries, k) = Part(k)
  BY <1>1, ReportParts
<1>4. ASSUME NEW f, NEW e
      PROVE  /\ (Eme!Fingerprint(f, e) = Eme!Nil <=> f = Eme!Nil)
             /\ f # Eme!Nil => /\ Eme!Fingerprint(f, e).kind = "fingerprint"
                               /\ Eme!Fingerprint(f, e).exe = Eme!Told(e)
                               /\ Eme!Fingerprint(f, e).entries = f.entries
  <2>1. f # Eme!Nil => Eme!Fingerprint(f, e) = [kind |-> "fingerprint", exe |-> Eme!Told(e),
                                                entries |-> f.entries]
    BY DEF Eme!Fingerprint
  <2>2. f = Eme!Nil => Eme!Fingerprint(f, e) = Eme!Nil
    BY DEF Eme!Fingerprint
  <2>3. f # Eme!Nil => Eme!Fingerprint(f, e).kind # Eme!Nil.kind
    BY <2>1 DEF Eme!Nil
  <2> QED
    BY <2>1, <2>2, <2>3
<1> QED
  BY <1>2, <1>3, <1>4

\* Entries whose parts agree are the same.
LEMMA ReportSame ==
  ASSUME NEW e, NEW f, OfParts(e), OfParts(f), \A k \in Parts : PartIn(e, k) = PartIn(f, k)
  PROVE  e = f
<1>1. ASSUME NEW g, NEW h, OfParts(g), \A k \in Parts : PartIn(g, k) = PartIn(h, k), NEW x \in g
      PROVE  x \in h
  <2>1. x[1] \in Parts
    BY <1>1 DEF OfParts
  <2>2. x \in PartIn(g, x[1])
    BY DEF PartIn
  <2>3. x \in PartIn(h, x[1])
    BY <1>1, <2>1, <2>2
  <2> QED
    BY <2>3 DEF PartIn
<1> QED
  BY <1>1

LEMMA ReportKept ==
  ASSUME UNCHANGED <<Eme!files, touched>>
  PROVE  /\ \A k : Part(k)' = Part(k)
         /\ \A e : Drifts(e) => Drifts(e)'
         /\ \A e, seen : Between(e, seen) => Between(e, seen)'
<1> USE DEF Eme!files
<1>1. \A k : Part(k)' = Part(k)
  BY DEF Part
<1>2. ASSUME NEW e, Drifts(e) PROVE Drifts(e)'
  BY <1>1, <1>2 DEF Drifts, PartIn, Parts
<1>3. ASSUME NEW e, NEW seen, Between(e, seen) PROVE Between(e, seen)'
  BY <1>1, <1>3 DEF Between, PartIn, Parts, OfParts
<1> QED
  BY <1>1, <1>2, <1>3

LEMMA ReportTest ==
  ASSUME Reportable, ReportInv, Eme!Test, doctor' = Eme!Nil
  PROVE  ReportInv'
<1> USE DEF Eme!Goes, Eme!Stop, Eme!store
<1>i. /\ FilesOK /\ pc \in TestSteps /\ exit \in {"none", "ok", "failed", "error"}
      /\ (pc # "idle" => exit = "none")
      /\ TakenAs(pre, "fingerprint") /\ TakenAs(half, "components")
      /\ (pre # Eme!Nil => pre.exe \in Build)
      /\ (pc \in {"answered", "post", "write", "rename"} => raw.kind = "raw" /\ raw.plays \in BOOLEAN)
      /\ Preparing /\ Asking /\ Answered /\ Comparing /\ Keeping
      /\ Eme!HitIsExact /\ Eme!BlameIsNow
  BY DEF ReportInv
<1>f. UNCHANGED Eme!files
  BY DEF Eme!Test, Eme!Begin, Eme!PreTaken, Eme!Launch, Eme!Answer, Eme!NoAnswer, Eme!PostHalf,
     Eme!PostTaken, Eme!WriteTemp, Eme!Rename, Eme!Killed
<1>d. Eme!HitIsExact' /\ Eme!BlameIsNow'
  BY ReportSilent
<1>k. UNCHANGED touched =>
        /\ \A k : Part(k)' = Part(k)
        /\ \A e : Drifts(e) => Drifts(e)'
        /\ \A e, seen : Between(e, seen) => Between(e, seen)'
  BY <1>f, ReportKept
<1>t. \A f, kind : TakenAs(f, kind) => TakenAs(f, kind)'
  BY DEF TakenAs, OfParts, Parts, Eme!Exact
<1>o. UNCHANGED running /\ touched' \in {touched, Eme!Untouched} => FilesOK'
  <2>1. Eme!Untouched.twice \in BOOLEAN
    BY DEF Eme!Untouched
  <2>2. UNCHANGED running =>
          running' = Eme!Nil \/ (running'.kind = "loaded" /\ OfParts(Eme!ToldOf(running'.entries)))
    BY <1>i DEF FilesOK
  <2> QED
    BY <1>i, <1>f, <2>1, <2>2 DEF FilesOK, Eme!files, OfParts, Parts
<1>n. TakenAs(Eme!Nil, "fingerprint") /\ TakenAs(Eme!Nil, "components")
  BY DEF TakenAs
<1>z. \A r : Eme!ExitOf(r) \in {"ok", "failed"}
  BY DEF Eme!ExitOf
<1>s. ASSUME pc' = "idle", pre' = Eme!Nil, half' = Eme!Nil, exit' \in {"none", "ok", "failed", "error"},
             touched' = Eme!Untouched, UNCHANGED running, Keeping'
      PROVE  ReportInv'
  <2>1. Preparing' /\ Asking' /\ Answered' /\ Comparing' /\ pc' \in TestSteps
    BY <1>s DEF Preparing, Asking, Answered, Comparing, TestSteps
  <2>2. TakenAs(pre, "fingerprint")' /\ TakenAs(half, "components")'
    BY <1>n, <1>s, <1>t
  <2> QED
    BY <1>d, <1>o, <1>s, <2>1, <2>2 DEF ReportInv
<1>1. CASE Eme!Begin
  <2>1. FilesOK'
    BY <1>i, <1>f, <1>1 DEF Eme!Begin, FilesOK, Eme!files, OfParts, Parts
  <2>2. TakenAs(half, "components")' /\ TakenAs(pre, "fingerprint")'
    BY <1>i, <1>n, <1>t, <1>1, ReportTaken DEF Eme!Begin
  <2>3. half' # Eme!Nil => Drifts(half.entries)'
    <3>1. \A k : Part(k)' = Part(k)
      BY <1>f DEF Part, Eme!files
    <3> QED
      BY <1>i, <1>1, <3>1, ReportTaken DEF Eme!Begin, Drifts, PartIn, Parts
  <2>4. Preparing' /\ Asking' /\ Answered' /\ Comparing' /\ pc' \in TestSteps
    BY <1>1, <2>3 DEF Eme!Begin, Preparing, Asking, Answered, Comparing, TestSteps
  <2>5. Keeping'
    BY <1>i, <1>1 DEF Eme!Begin, Keeping, Matches
  <2> QED
    BY <1>d, <1>i, <1>1, <2>1, <2>2, <2>4, <2>5 DEF ReportInv, Eme!Begin
<1>2. CASE Eme!PreTaken
  <2>1. TakenAs(pre, "fingerprint")' /\ TakenAs(half, "components")' /\ (pre' # Eme!Nil => pre'.exe = Eme!Told(exe))
    BY <1>i, <1>t, <1>2, ReportTaken DEF Eme!PreTaken, TakenAs
  <2>2. pre' # Eme!Nil => Drifts(pre.entries)' /\ ExeTold'
    <3>1. pre' # Eme!Nil => half # Eme!Nil /\ pre'.entries = half.entries
      BY <1>i, <1>2, ReportTaken DEF Eme!PreTaken
    <3>2. pre' # Eme!Nil => Drifts(half.entries)'
      BY <1>i, <1>k, <1>2, <3>1 DEF Eme!PreTaken, Preparing
    <3>3. half' = half
      BY <1>2 DEF Eme!PreTaken
    <3>4. pre' # Eme!Nil => Drifts(pre.entries)'
      BY <3>1, <3>2, <3>3 DEF Drifts, PartIn, Part, Parts
    <3> QED
      BY <1>f, <2>1, <3>4 DEF ExeTold, Eme!files
  <2>3. Preparing' /\ Asking' /\ Answered' /\ Comparing' /\ pc' \in TestSteps
    BY <1>2, <2>2 DEF Eme!PreTaken, Preparing, Asking, Answered, Comparing, TestSteps
  <2>4. Keeping'
    BY <1>i, <1>2 DEF Eme!PreTaken, Keeping, Matches
  <2>5. Eme!Told(exe) \in Build
    BY <1>i, ReportTold DEF FilesOK
  <2> QED
    BY <1>d, <1>i, <1>o, <1>2, <2>1, <2>3, <2>4, <2>5 DEF ReportInv, Eme!PreTaken
<1>3. CASE Eme!Launch
  <2>1. FilesOK'
    <3>1. running' = Eme!Nil \/ (running'.kind = "loaded" /\ OfParts(Eme!ToldOf(running'.entries)))
      BY <1>i, <1>3, ReportParts DEF Eme!Launch, FilesOK, SeenOf
    <3> QED
      BY <1>i, <1>f, <1>3, <3>1 DEF Eme!Launch, FilesOK, Eme!files, OfParts, Parts
  <2>2. TakenAs(pre, "fingerprint")' /\ TakenAs(half, "components")'
    BY <1>i, <1>t, <1>3 DEF Eme!Launch
  <2>3. pre # Eme!Nil => Drifts(pre.entries)' /\ ExeTold'
    BY <1>i, <1>k, <1>f, <1>3 DEF Eme!Launch, Preparing, ExeTold, Eme!files
  <2>4. pre # Eme!Nil /\ ~raw'.warm => Between(pre.entries, SeenOf(running))' /\ ExeBetween(Eme!Told(running.exe))'
    <3>0. UNCHANGED <<exe, cdm, comp, pre, touched>>
      BY <1>f, <1>3 DEF Eme!Launch, Eme!files
    <3>1. ~raw'.warm => running' = Eme!Loaded
      BY <1>3 DEF Eme!Launch
    <3>2. Between(pre.entries, SeenOf(Eme!Loaded)) /\ Eme!Loaded.exe = exe
      BY <1>i, ReportParts DEF Between
    <3>3. ~raw'.warm => Between(pre.entries, SeenOf(running')) /\ running'.exe = exe
      BY <3>1, <3>2
    <3>4. ~raw'.warm => Between(pre.entries, SeenOf(running))'
      BY <3>0, <3>3 DEF Between, OfParts, PartIn, Part, Parts
    <3> QED
      BY <3>0, <3>3, <3>4 DEF ExeBetween
  <2>5. Preparing' /\ Asking' /\ Answered' /\ Comparing' /\ pc' \in TestSteps
    BY <1>3, <2>3, <2>4 DEF Eme!Launch, Preparing, Asking, Answered, Comparing, TestSteps
  <2>6. Keeping'
    BY <1>i, <1>3 DEF Eme!Launch, Keeping, Matches
  <2> QED
    BY <1>d, <1>i, <1>3, <2>1, <2>2, <2>5, <2>6 DEF ReportInv, Eme!Launch
<1>4. CASE Eme!Answer
  <2>1. PICK plays \in BOOLEAN :
           raw' = [kind |-> "raw", plays |-> plays, seen |-> running,
                   warm |-> raw.warm, owner |-> raw.owner]
    BY <1>4 DEF Eme!Answer
  <2>2. TakenAs(pre, "fingerprint")' /\ TakenAs(half, "components")'
    BY <1>i, <1>t, <1>4 DEF Eme!Answer
  <2>3. Answered'
    <3>1. pre # Eme!Nil => Drifts(pre.entries)' /\ ExeTold'
      BY <1>i, <1>k, <1>f, <1>4 DEF Eme!Answer, Asking, ExeTold, Eme!files
    <3>2. pre # Eme!Nil /\ ~raw.warm => Between(pre.entries, SeenOf(running))' /\ ExeBetween(Eme!Told(running.exe))'
      BY <1>i, <1>k, <1>f, <1>4 DEF Eme!Answer, Asking, ExeBetween, Eme!files
    <3> QED
      BY <1>4, <2>1, <3>1, <3>2 DEF Eme!Answer, Answered, Between, ExeBetween
  <2>4. Preparing' /\ Asking' /\ Comparing' /\ pc' \in TestSteps
    BY <1>4 DEF Eme!Answer, Preparing, Asking, Comparing, TestSteps
  <2>5. Keeping'
    BY <1>i, <1>4 DEF Eme!Answer, Keeping, Matches
  <2> QED
    BY <1>d, <1>i, <1>o, <1>4, <2>1, <2>2, <2>3, <2>4, <2>5 DEF ReportInv, Eme!Answer
<1>5. CASE Eme!NoAnswer \/ Eme!Killed
  <2>1. Keeping'
    BY <1>i, <1>5 DEF Eme!NoAnswer, Eme!Killed, Keeping, Matches
  <2> QED
    BY <1>s, <1>5, <2>1 DEF Eme!NoAnswer, Eme!Killed
<1>6. CASE Eme!PostHalf
  <2>1. TakenAs(half, "components")' /\ TakenAs(pre, "fingerprint")'
    BY <1>i, <1>n, <1>t, <1>6, ReportTaken DEF Eme!PostHalf
  <2>2. ASSUME pre # Eme!Nil PROVE ExeTold' /\ (~raw.warm => ExeBetween(Eme!Told(raw.seen.exe))')
    BY <1>i, <1>f, <1>6, <2>2 DEF Eme!PostHalf, Answered, ExeTold, ExeBetween, Eme!files
  <2>3. ASSUME pre # Eme!Nil, ~raw.warm, ~touched.twice, half' # Eme!Nil, half'.entries = pre.entries
        PROVE  SeenOf(raw.seen) = pre.entries
    <3>1. \A k \in Parts : PartIn(pre.entries, k) = Part(k)
      BY <1>i, <1>6, <2>3, ReportTaken DEF Eme!PostHalf
    <3>2. Between(pre.entries, SeenOf(raw.seen)) /\ OfParts(pre.entries)
      BY <1>i, <1>6, <2>3 DEF Eme!PostHalf, Answered, TakenAs
    <3>3. \A k \in Parts : PartIn(SeenOf(raw.seen), k) = PartIn(pre.entries, k)
      BY <2>3, <3>1, <3>2 DEF Between
    <3> QED
      BY <3>2, <3>3, ReportSame DEF Between
  <2>4. Comparing'
    BY <1>6, <2>2, <2>3 DEF Eme!PostHalf, Comparing, ExeBetween
  <2>5. Preparing' /\ Asking' /\ Answered' /\ pc' \in TestSteps
    BY <1>6 DEF Eme!PostHalf, Preparing, Asking, Answered, TestSteps
  <2>6. Keeping'
    BY <1>i, <1>6 DEF Eme!PostHalf, Keeping, Matches
  <2> QED
    BY <1>d, <1>i, <1>o, <1>6, <2>1, <2>4, <2>5, <2>6 DEF ReportInv, Eme!PostHalf
<1>7. CASE Eme!PostTaken
  <2> DEFINE after == Eme!Fingerprint(half, exe)
  <2>1. CASE Eme!Keeps(pre, after) /\ report.kind # "unsafe"
    <3>1. pre # Eme!Nil /\ after = pre /\ pc = "post" /\ pc' = "write" /\ pre' = pre
          /\ UNCHANGED <<half, raw, exit, running, report, touched>>
      BY <1>7, <2>1 DEF Eme!PostTaken, Eme!Keeps
    <3>2. half # Eme!Nil /\ half.entries = pre.entries /\ pre.exe = Eme!Told(exe)
      BY <1>i, <3>1, ReportTaken
    <3>3. Matches(pre, raw, touched.twice)
      BY <1>i, <3>1, <3>2 DEF Comparing, ExeBetween, Matches
    <3>4. Keeping'
      BY <1>i, <3>1, <3>3 DEF Keeping, Matches
    <3>5. Preparing' /\ Asking' /\ Answered' /\ Comparing' /\ pc' \in TestSteps
      BY <3>1 DEF Preparing, Asking, Answered, Comparing, TestSteps
    <3>6. TakenAs(pre, "fingerprint")' /\ TakenAs(half, "components")'
      BY <1>i, <1>t, <3>1
    <3> QED
      BY <1>d, <1>i, <1>o, <3>1, <3>4, <3>5, <3>6 DEF ReportInv
  <2>2. CASE ~(Eme!Keeps(pre, after) /\ report.kind # "unsafe")
    <3>1. Keeping'
      BY <1>i, <1>7, <2>2 DEF Eme!PostTaken, Keeping, Matches
    <3> QED
      BY <1>s, <1>7, <1>z, <2>2, <3>1 DEF Eme!PostTaken
  <2> QED
    BY <2>1, <2>2
<1>8. CASE Eme!WriteTemp
  <2>1. CASE pc' = "rename"
    <3>1. pc = "write" /\ UNCHANGED <<pre, half, raw, exit, report, running, touched>>
      BY <1>8, <2>1 DEF Eme!WriteTemp
    <3>2. Keeping'
      BY <1>i, <2>1, <3>1 DEF Keeping, Matches
    <3>3. Preparing' /\ Asking' /\ Answered' /\ Comparing' /\ pc' \in TestSteps
      BY <2>1 DEF Preparing, Asking, Answered, Comparing, TestSteps
    <3>4. TakenAs(pre, "fingerprint")' /\ TakenAs(half, "components")'
      BY <1>i, <1>t, <3>1
    <3> QED
      BY <1>d, <1>i, <1>o, <2>1, <3>1, <3>2, <3>3, <3>4 DEF ReportInv
  <2>2. CASE pc' # "rename"
    <3>1. Keeping'
      BY <1>i, <1>8, <2>2 DEF Eme!WriteTemp, Keeping, Matches
    <3> QED
      BY <1>s, <1>8, <1>z, <2>2, <3>1 DEF Eme!WriteTemp
  <2> QED
    BY <2>1, <2>2
<1>9. CASE Eme!Rename
  <2>1. Keeping'
    BY <1>i, <1>9 DEF Eme!Rename, Keeping, Matches
  <2> QED
    BY <1>s, <1>9, <1>z, <2>1 DEF Eme!Rename
<1> QED
  BY <1>1, <1>2, <1>3, <1>4, <1>5, <1>6, <1>7, <1>8, <1>9 DEF Eme!Test

LEMMA ReportBrowse ==
  ASSUME Reportable, ReportInv, Eme!Browse, doctor' = Eme!Nil
  PROVE  ReportInv'
<1>1. UNCHANGED <<exe, cdm, owner, dir, comp, local, pc, pre, half, raw, exit, temp, report, touched>>
  BY DEF Eme!Browse, Eme!files, Eme!test, Eme!store
<1>2. running' \in {Eme!Nil, Eme!Loaded}
  BY DEF Eme!Browse
<1>3. FilesOK
  BY DEF ReportInv
<1>4. FilesOK'
  <2>1. running' = Eme!Nil \/ (running'.kind = "loaded" /\ OfParts(Eme!ToldOf(running'.entries)))
    BY <1>2, <1>3, ReportParts DEF SeenOf
  <2> QED
    BY <1>1, <1>3, <2>1 DEF FilesOK, OfParts, Parts
<1>5. /\ \A e : Drifts(e) => Drifts(e)'
      /\ \A e, seen : Between(e, seen) => Between(e, seen)'
  BY <1>1, ReportKept DEF Eme!files
<1>6. Preparing' /\ Answered' /\ Comparing' /\ Keeping'
  BY <1>1, <1>5 DEF ReportInv, Preparing, Answered, Comparing, Keeping, Matches, ExeTold, ExeBetween
<1>7. Asking'
  <2>1. ASSUME pc = "wait", pre # Eme!Nil, ~raw.warm, running' # Eme!Nil
        PROVE  Between(pre.entries, SeenOf(running))' /\ ExeBetween(Eme!Told(running.exe))'
    <3>1. running' = Eme!Loaded
      BY <1>2, <2>1
    <3>2. Between(pre.entries, SeenOf(Eme!Loaded)) /\ Eme!Loaded.exe = exe
      BY <1>3, ReportParts DEF Between
    <3>3. Between(pre.entries, SeenOf(running')) /\ running'.exe = exe
      BY <3>1, <3>2
    <3>4. Between(pre.entries, SeenOf(running))'
      BY <1>1, <3>3 DEF Between, OfParts, PartIn, Part, Parts
    <3> QED
      BY <1>1, <3>3, <3>4 DEF ExeBetween
  <2>2. pc = "wait" /\ pre # Eme!Nil => Drifts(pre.entries)' /\ ExeTold'
    BY <1>1, <1>5 DEF ReportInv, Asking, ExeTold
  <2> QED
    BY <1>1, <2>1, <2>2 DEF Asking
<1>8. Eme!HitIsExact' /\ Eme!BlameIsNow'
  BY ReportSilent
<1>9. TakenAs(pre, "fingerprint")' /\ TakenAs(half, "components")'
  BY <1>1 DEF ReportInv, TakenAs, OfParts, Parts, Eme!Exact
<1> QED
  BY <1>1, <1>4, <1>6, <1>7, <1>8, <1>9 DEF ReportInv

\* Files of one digest, which is one, are the same as far as the digests tell.
LEMMA ReportAlike ==
  ASSUME NEW f, NEW g, Eme!Told(f) = Eme!Told(g), Eme!Told(f) # Torn
  PROVE  Eme!Same(f, g)
<1>1. f # Torn /\ g # Torn
  BY DEF Eme!Told
<1>2. f.digest = g.digest
  BY <1>1 DEF Eme!Told
<1> QED
  BY <1>1, <1>2 DEF Eme!Same, Eme!Honest

LEMMA ReportCovered ==
  ASSUME NEW s, NEW u, Eme!ToldOf(s) = Eme!ToldOf(u), Eme!Exact(Eme!ToldOf(s))
  PROVE  Eme!Covers(s, u)
<1> SUFFICES ASSUME NEW e \in s PROVE \E f \in u : f[1] = e[1] /\ Eme!Same(e[2], f[2])
  BY DEF Eme!Covers
<1>1. <<e[1], Eme!Told(e[2])>> \in Eme!ToldOf(s)
  BY DEF Eme!ToldOf
<1>2. PICK f \in u : <<e[1], Eme!Told(e[2])>> = <<f[1], Eme!Told(f[2])>>
  BY <1>1 DEF Eme!ToldOf
<1>3. Eme!Told(e[2]) # Torn
  BY <1>1 DEF Eme!Exact
<1>4. Eme!Same(e[2], f[2])
  BY <1>2, <1>3, ReportAlike
<1> QED
  BY <1>2, <1>4

LEMMA ReportExamine ==
  ASSUME Reportable, ReportInv, Eme!Examine
  PROVE  ReportInv'
<1> DEFINE fp == Eme!Fingerprint(Eme!Components, exe)
<1>1. UNCHANGED <<exe, cdm, owner, dir, comp, local, running, pc, pre, half, raw, exit, temp, report,
                  touched>>
  BY DEF Eme!Examine, Eme!files, Eme!test, Eme!store
<1>f. FilesOK
  BY DEF ReportInv
<1>2. ASSUME doctor'.kind = "hit" PROVE Eme!HitIsExact' /\ Eme!BlameIsNow'
  <2>1. /\ report.kind = "report" /\ report.fingerprint = fp
        /\ doctor' = [kind |-> "hit", fingerprint |-> fp, raw |-> report.raw,
                      twice |-> report.twice, verdict |-> Eme!Review(report), owner |-> owner,
                      there |-> Eme!Loaded]
        /\ fp # Eme!Nil
    BY <1>2 DEF Eme!Examine, Eme!Hit, Eme!Nil
  <2>2. Matches(report.fingerprint, report.raw, report.twice)
    BY <2>1 DEF ReportInv, Keeping
  <2>3. Eme!HitIsExact'
    <3>1. /\ fp.exe = Eme!Told(Eme!Loaded.exe) /\ fp.entries = Eme!ToldOf(Eme!Loaded.entries)
          /\ Eme!Exact(fp.entries) /\ fp.exe # Torn
      BY <1>f, <2>1, ReportTaken, ReportParts, ReportTold DEF Eme!Components, SeenOf, FilesOK, Reportable
    <3>2. ASSUME ~report.raw.warm, ~report.twice
          PROVE  /\ Eme!Told(report.raw.seen.exe) = fp.exe
                 /\ Eme!ToldOf(report.raw.seen.entries) = fp.entries
      BY <2>1, <2>2, <3>2 DEF Matches, SeenOf
    <3>3. ASSUME ~report.raw.warm, ~report.twice
          PROVE  /\ Eme!Same(report.raw.seen.exe, Eme!Loaded.exe)
                 /\ Eme!Covers(report.raw.seen.entries, Eme!Loaded.entries)
                 /\ Eme!Covers(Eme!Loaded.entries, report.raw.seen.entries)
      BY <3>1, <3>2, <3>3, ReportAlike, ReportCovered
    <3> HIDE DEF fp
    <3>4. /\ doctor'.raw = report.raw /\ doctor'.twice = report.twice
          /\ doctor'.there = Eme!Loaded
      BY <2>1
    <3> QED
      BY <3>3, <3>4 DEF Eme!HitIsExact, Eme!Covers, Eme!Same, Eme!Honest
  <2>4. Eme!BlameIsNow'
    BY <2>1 DEF Eme!BlameIsNow, Eme!Review, Eme!Assess
  <2> QED
    BY <2>3, <2>4
<1>3. ASSUME doctor'.kind # "hit" PROVE Eme!HitIsExact' /\ Eme!BlameIsNow'
  BY <1>3 DEF Eme!HitIsExact, Eme!BlameIsNow
<1>4. FilesOK' /\ Keeping'
  BY <1>1 DEF ReportInv, FilesOK, Keeping, Matches, OfParts, Parts
<1>5. /\ \A e : Drifts(e) => Drifts(e)'
      /\ \A e, seen : Between(e, seen) => Between(e, seen)'
  BY <1>1, ReportKept DEF Eme!files
<1>6. Preparing' /\ Asking' /\ Answered' /\ Comparing'
  BY <1>1, <1>5 DEF ReportInv, Preparing, Asking, Answered, Comparing, ExeTold, ExeBetween
<1>7. TakenAs(pre, "fingerprint")' /\ TakenAs(half, "components")'
  BY <1>1 DEF ReportInv, TakenAs, OfParts, Parts, Eme!Exact
<1>8. Eme!HitIsExact' /\ Eme!BlameIsNow'
  BY <1>2, <1>3
<1> QED
  BY <1>1, <1>4, <1>6, <1>7, <1>8 DEF ReportInv

LEMMA ReportInit ==
  ASSUME Reportable, Eme!Init
  PROVE  ReportInv
<1>1. exe \in Eme!File
  <2>1. PICK b \in Build : TRUE
    BY DEF Reportable
  <2>2. [bytes |-> b, digest |-> b] \in Eme!File /\ Eme!Honest([bytes |-> b, digest |-> b])
    BY DEF Eme!File, Eme!Honest
  <2> QED
    BY <2>2 DEF Eme!Init
<1>2. FilesOK
  BY <1>1 DEF Eme!Init, FilesOK, Eme!Untouched
<1>3. Preparing /\ Asking /\ Answered /\ Comparing /\ pc \in TestSteps
  BY DEF Eme!Init, Preparing, Asking, Answered, Comparing, TestSteps
<1>4. Keeping
  BY DEF Eme!Init, Keeping, Eme!Nil
<1>5. Eme!HitIsExact /\ Eme!BlameIsNow
  BY DEF Eme!Init, Eme!HitIsExact, Eme!BlameIsNow, Eme!Nil
<1> QED
  BY <1>2, <1>3, <1>4, <1>5 DEF Eme!Init, ReportInv, TakenAs

LEMMA ReportStep ==
  ASSUME Reportable, ReportInv, [Eme!Next]_(Eme!vars)
  PROVE  ReportInv'
<1>1. CASE Eme!Files /\ doctor' = Eme!Nil
  BY <1>1, ReportChanges, ReportFiles DEF ReportInv
<1>2. CASE Eme!Browse /\ doctor' = Eme!Nil
  BY <1>2, ReportBrowse
<1>3. CASE Eme!Test /\ doctor' = Eme!Nil
  BY <1>3, ReportTest
<1>4. CASE Eme!Examine
  BY <1>4, ReportExamine
<1>5. CASE UNCHANGED Eme!vars
  <2>1. UNCHANGED <<exe, cdm, owner, dir, comp, local, running, pc, pre, half, raw, exit, temp, report,
                    doctor, touched>>
    BY <1>5 DEF Eme!vars, Eme!files, Eme!test, Eme!store
  <2>2. FilesOK' /\ Keeping' /\ Eme!HitIsExact' /\ Eme!BlameIsNow'
    BY <2>1 DEF ReportInv, FilesOK, Keeping, Matches, OfParts, Parts, Eme!HitIsExact, Eme!BlameIsNow
  <2>3. /\ \A e : Drifts(e) => Drifts(e)'
        /\ \A e, seen : Between(e, seen) => Between(e, seen)'
    BY <2>1, ReportKept DEF Eme!files
  <2>4. Preparing' /\ Asking' /\ Answered' /\ Comparing'
    BY <2>1, <2>3 DEF ReportInv, Preparing, Asking, Answered, Comparing, ExeTold, ExeBetween
  <2>5. TakenAs(pre, "fingerprint")' /\ TakenAs(half, "components")'
    BY <2>1 DEF ReportInv, TakenAs, OfParts, Parts, Eme!Exact
  <2> QED
    BY <2>1, <2>2, <2>4, <2>5 DEF ReportInv
<1> QED
  BY <1>1, <1>2, <1>3, <1>4, <1>5 DEF Eme!Next

LEMMA ReportTrue ==
  ASSUME ReportInv
  PROVE  Eme!TypeOK /\ Eme!HitIsExact /\ Eme!BlameIsNow /\ Eme!ReportWhole
<1>1. Eme!IsFingerprint(pre)
  BY DEF ReportInv, TakenAs, Eme!IsFingerprint
<1>2. Eme!TypeOK
  BY <1>1 DEF ReportInv, FilesOK, TestSteps, Keeping, Eme!TypeOK, Eme!Component
<1> QED
  BY <1>2 DEF ReportInv, Keeping, Eme!ReportWhole

\* What the doctor shows as exact evidence was reported by a browser loaded from the very
\* files that are there, as far as the digests of the memo tell files apart, the one who is
\* blamed is to blame now, and a kill never leaves a part of a report where it is read.
THEOREM ReportsAreTrue ==
  ASSUME Reportable
  PROVE  Eme!Spec => [](Eme!TypeOK /\ Eme!HitIsExact /\ Eme!BlameIsNow /\ Eme!ReportWhole)
<1>1. Eme!Init => ReportInv
  BY ReportInit
<1>2. ReportInv /\ [Eme!Next]_(Eme!vars) => ReportInv'
  BY ReportStep
<1>3. ReportInv => Eme!TypeOK /\ Eme!HitIsExact /\ Eme!BlameIsNow /\ Eme!ReportWhole
  BY ReportTrue
<1> QED
  BY <1>1, <1>2, <1>3, PTL DEF Eme!Spec

\* A test that ends has put away its verdict, and exits with it.
LEMMA ReportExit ==
  ASSUME Reportable, ReportInv, Eme!Next
  PROVE  Eme!ExitIsVerdict
<1>1. /\ pc # "idle" => exit = "none"
      /\ pc \in {"answered", "post", "write", "rename"} =>
           raw.kind = "raw" /\ raw.plays \in BOOLEAN
  BY DEF ReportInv
<1>2. /\ raw.plays = TRUE => Eme!ExitOf(raw) = "ok"
      /\ raw.plays = FALSE => Eme!ExitOf(raw) = "failed"
  BY DEF Eme!ExitOf
<1>3. ASSUME UNCHANGED exit PROVE Eme!ExitIsVerdict
  BY <1>1, <1>3 DEF Eme!ExitIsVerdict
<1>4. CASE Eme!Files
  <2>1. UNCHANGED exit
    BY <1>4, ReportChanges DEF ReportInv, Changing
  <2> QED
    BY <1>3, <2>1
<1>5. CASE Eme!Browse \/ Eme!Examine
  <2>1. UNCHANGED exit
    BY <1>5 DEF Eme!Browse, Eme!Examine, Eme!test
  <2> QED
    BY <1>3, <2>1
<1>6. CASE Eme!Test
  <2> USE DEF Eme!Goes, Eme!Stop
  <2>1. CASE UNCHANGED exit
    BY <1>3, <2>1
  <2>2. ASSUME exit' \in {"none", "error"} PROVE Eme!ExitIsVerdict
    BY <2>2 DEF Eme!ExitIsVerdict
  <2>3. ASSUME pc \in {"post", "write", "rename"}, exit' = Eme!ExitOf(raw)
        PROVE  Eme!ExitIsVerdict
    <3>0. raw.plays \in BOOLEAN
      BY <1>1, <2>3
    <3>1. CASE raw.plays = TRUE
      <4>1. exit' = "ok"
        BY <1>2, <2>3, <3>1
      <4> QED
        BY <1>1, <2>3, <3>1, <4>1, Zenon DEF Eme!ExitIsVerdict
    <3>2. CASE raw.plays = FALSE
      <4>1. exit' = "failed"
        BY <1>2, <2>3, <3>2
      <4>2. (exit' = "ok") = FALSE
        BY <4>1
      <4> QED
        BY <1>1, <2>3, <3>2, <4>2, Zenon DEF Eme!ExitIsVerdict
    <3> QED
      BY <3>0, <3>1, <3>2
  <2>4. CASE Eme!PostTaken
    BY <2>1, <2>3, <2>4 DEF Eme!PostTaken
  <2>5. CASE Eme!WriteTemp
    BY <2>1, <2>3, <2>5 DEF Eme!WriteTemp
  <2>6. CASE Eme!Rename
    BY <2>3, <2>6 DEF Eme!Rename
  <2>7. CASE Eme!Begin
    BY <1>1, <2>2, <2>7 DEF Eme!Begin
  <2>8. CASE Eme!NoAnswer \/ Eme!Killed
    BY <2>2, <2>8 DEF Eme!NoAnswer, Eme!Killed
  <2>9. CASE Eme!PreTaken \/ Eme!Launch \/ Eme!Answer \/ Eme!PostHalf
    BY <1>3, <2>9 DEF Eme!PreTaken, Eme!Launch, Eme!Answer, Eme!PostHalf
  <2> QED
    BY <1>6, <2>4, <2>5, <2>6, <2>7, <2>8, <2>9 DEF Eme!Test
<1> QED
  BY <1>4, <1>5, <1>6 DEF Eme!Next

\* A report that cannot be kept never turns a passing test into a failing one, nor the
\* other way round.
THEOREM ReportExitIsVerdict ==
  ASSUME Reportable
  PROVE  Eme!Spec => [][Eme!ExitIsVerdict]_(Eme!vars)
<1>1. ReportInv /\ [Eme!Next]_(Eme!vars) => [Eme!ExitIsVerdict]_(Eme!vars)
  BY ReportExit
<1> QED
  BY <1>1, ReportInit, ReportStep, PTL DEF Eme!Spec

(***************************************************************************)
(* Removing what an older product left (migration/mod.rs).                 *)
(***************************************************************************)
CONSTANTS Units, MaxRuns, MaxOthers

VARIABLES fs, merged, found, script, status, removed, migrated, skipped, runs

Old == INSTANCE Legacy WITH MaxChanges <- MaxOthers

PathsOf(s) == {a.path : a \in s}

\* Where an artifact was found says who removes it.
Catalogue ==
    {Old!Artifact(Old!Daemon, TRUE, FALSE), Old!Artifact(Old!Packaged, TRUE, TRUE)}
        \cup {Old!Artifact(p, FALSE, FALSE) : p \in Old!UserPath}
        \cup {Old!Artifact(p, TRUE, p[1] # "etc") : p \in Old!UnitPath}

\* The package manager owns what is marked so, and the rest is the user's or needs privileges.
Sorted(a) ==
    /\ a.root \in BOOLEAN /\ a.packaged \in BOOLEAN
    /\ a.packaged = TRUE <=> a.path \in Old!PackageOwned
    /\ a.root = TRUE <=> a.path \notin Old!UserPath
    /\ a.packaged = TRUE => a.root = TRUE

\* What a removal has reported is some of what it has found, each in one way; whatever
\* needs privileges once the script has ended; and a cache that is to be dropped has its
\* successor in place.
LegacyInv ==
    /\ Old!TypeOK /\ changes \in Nat
    /\ found \subseteq Catalogue /\ script \subseteq Old!Pending
    /\ pc \notin {"prompt", "script"} => script = {}
    /\ pc # "off" => result = "none"
    /\ pc = "elevate" => skipped = {}
    /\ pc \in {"elevate", "prompt", "script"} => removed = {} /\ migrated = {}
    /\ pc \in {"prompt", "script"} => skipped = Old!PackagedFound
    /\ pc \in {"user", "drop", "move"} => Old!PackagedFound \cup Old!Pending \subseteq Old!Reported
    /\ Old!Reported \subseteq PathsOf(found)
    /\ removed \cap skipped = {} /\ removed \cap migrated = {} /\ migrated \cap skipped = {}
    /\ pc \in {"drop", "move"} => Old!LegacyCdm \in Old!UserLeft
    /\ pc = "drop" => fs[Old!Destination] # "absent"
    /\ \A p \in removed \cup migrated : fs[p] = "absent" \/ p \in touched
    /\ result = "ok" => Old!Reported = PathsOf(found)

\* The paths of the artifacts are not the new cache's, and those that a package owns
\* are no others'.
LEMMA PathsApart ==
  /\ PathsOf(Catalogue) \subseteq Old!Path \ {Old!Destination}
  /\ \A a \in Catalogue : Sorted(a)
  /\ Old!UserPath \cap Old!PackageOwned = {} /\ Old!Destination \notin Old!PackageOwned
  /\ Old!LegacyCdm \in Old!UserPath /\ Old!Destination # Old!LegacyCdm
  /\ Old!UserPath \subseteq Old!Path /\ Old!PackageOwned \subseteq Old!Path
  /\ Old!Destination \in Old!Path /\ Old!Canonical(Old!Destination) = Old!Destination
<1>1. \A p \in Old!UnitPath : p[1] \in {"etc", "usr", "lib"} /\ p = <<p[1], p[2]>>
  BY DEF Old!UnitPath, Old!Dir
<1>2. \A p \in Old!UserPath : p[1] = "home"
  BY DEF Old!UserPath
<1>3. /\ Old!Daemon[1] = "root" /\ Old!Packaged[1] = "root" /\ Old!Destination[1] = "home"
      /\ Old!Destination[2] = "v2cdm" /\ Old!Daemon[2] = "daemon" /\ Old!Packaged[2] = "package"
      /\ \A p \in Old!UserPath : p[2] \in {"agent", "autostart", "cdm"}
  BY DEF Old!Daemon, Old!Packaged, Old!Destination, Old!UserPath
<1>4. Old!LegacyCdm \in Old!UserPath
  BY DEF Old!LegacyCdm, Old!UserPath
<1>5. Old!Destination \notin Old!UserPath \cup Old!UnitPath \cup {Old!Daemon, Old!Packaged}
  BY <1>1, <1>2, <1>3
<1>6. Old!UserPath \cap Old!UnitPath = {} /\ Old!Daemon \notin Old!UserPath \cup Old!UnitPath
  BY <1>1, <1>2, <1>3
<1>7. Old!Packaged \notin Old!UserPath \cup Old!UnitPath /\ Old!Packaged # Old!Daemon
  BY <1>1, <1>2, <1>3
<1>8. \A a \in Catalogue : Sorted(a) /\ a.path \in Old!Path \ {Old!Destination}
  <2> SUFFICES ASSUME NEW a \in Catalogue
               PROVE  Sorted(a) /\ a.path \in Old!Path \ {Old!Destination}
    OBVIOUS
  <2>1. CASE a = Old!Artifact(Old!Daemon, TRUE, FALSE)
    BY <2>1, <1>5, <1>6, <1>7 DEF Old!Artifact, Old!PackageOwned, Old!Path, Sorted
  <2>2. CASE a = Old!Artifact(Old!Packaged, TRUE, TRUE)
    BY <2>2, <1>5, <1>6, <1>7 DEF Old!Artifact, Old!PackageOwned, Old!Path, Sorted
  <2>3. ASSUME NEW p \in Old!UserPath, a = Old!Artifact(p, FALSE, FALSE)
        PROVE  Sorted(a) /\ a.path \in Old!Path \ {Old!Destination}
    BY <2>3, <1>5, <1>6, <1>7 DEF Old!Artifact, Old!PackageOwned, Old!Path, Sorted
  <2>4. ASSUME NEW p \in Old!UnitPath, a = Old!Artifact(p, TRUE, p[1] # "etc")
        PROVE  Sorted(a) /\ a.path \in Old!Path \ {Old!Destination}
    BY <2>4, <1>5, <1>6, <1>7 DEF Old!Artifact, Old!PackageOwned, Old!Path, Sorted
  <2> QED
    BY <2>1, <2>2, <2>3, <2>4 DEF Catalogue
<1>9. Old!Canonical(Old!Destination) = Old!Destination
  BY <1>5 DEF Old!Canonical
<1> QED
  BY <1>4, <1>5, <1>6, <1>7, <1>8, <1>9 DEF PathsOf, Old!PackageOwned, Old!Path

\* Detection finds artifacts of the catalogue.
LEMMA DetectsArtifacts ==
  Old!Detect \subseteq Catalogue
BY DEF Old!Detect, Catalogue

LEMMA CatalogueArtifacts == Catalogue \subseteq Old!Artifacts
<1> SUFFICES ASSUME NEW a \in Catalogue PROVE a \in Old!Artifacts
  OBVIOUS
<1>1. a.path \in Old!Path
  BY PathsApart DEF PathsOf
<1>2. \E r \in BOOLEAN, k \in BOOLEAN : a = Old!Artifact(a.path, r, k)
  <2>1. ASSUME NEW p \in Old!UnitPath, a = Old!Artifact(p, TRUE, p[1] # "etc")
        PROVE  \E k \in BOOLEAN : a = Old!Artifact(a.path, TRUE, k)
    <3>1. a.path = p
      BY <2>1 DEF Old!Artifact
    <3>2. (p[1] # "etc") \in BOOLEAN
      OBVIOUS
    <3> QED
      BY <2>1, <3>1, <3>2
  <2>2. ASSUME NEW p \in Old!UserPath, a = Old!Artifact(p, FALSE, FALSE)
        PROVE  a = Old!Artifact(a.path, FALSE, FALSE)
    BY <2>2 DEF Old!Artifact
  <2>3. CASE a = Old!Artifact(Old!Daemon, TRUE, FALSE)
    <3>1. a = Old!Artifact(a.path, TRUE, FALSE)
      BY <2>3 DEF Old!Artifact
    <3> QED
      BY <3>1
  <2>4. CASE a = Old!Artifact(Old!Packaged, TRUE, TRUE)
    <3>1. a = Old!Artifact(a.path, TRUE, TRUE)
      BY <2>4 DEF Old!Artifact
    <3> QED
      BY <3>1
  <2> QED
    BY <2>1, <2>2, <2>3, <2>4 DEF Catalogue
<1> QED
  BY <1>1, <1>2 DEF Old!Artifacts

\* Artifacts of the catalogue are artifacts; what is pending and what the packages own
\* are apart and are what needs privileges.
LEMMA ArtifactsSorted ==
  ASSUME found \subseteq Catalogue
  PROVE  /\ found \subseteq Old!Artifacts
         /\ Old!Pending \cap Old!PackagedFound = {} /\ Old!Pending \cap Old!PackageOwned = {}
         /\ Old!Pending \cup Old!PackagedFound \subseteq PathsOf(found) \ Old!UserPath
         /\ PathsOf(found) \subseteq Old!Path \ {Old!Destination}
         /\ Old!UserLeft = (PathsOf(found) \ (Old!Pending \cup Old!PackagedFound)) \ Old!Reported
<1>1. \A a \in Catalogue : Sorted(a)
  BY PathsApart
<1>2. \A a \in Catalogue : a.path \in Old!Path \ {Old!Destination}
  BY PathsApart DEF PathsOf
<1>3. found \subseteq Old!Artifacts
  BY CatalogueArtifacts
<1>4. /\ Old!Pending \cap Old!PackagedFound = {} /\ Old!Pending \cap Old!PackageOwned = {}
      /\ Old!Pending \cup Old!PackagedFound \subseteq PathsOf(found) \ Old!UserPath
  BY <1>1 DEF Old!Pending, Old!PackagedFound, PathsOf, Sorted
<1>5. Old!UserLeft = (PathsOf(found) \ (Old!Pending \cup Old!PackagedFound)) \ Old!Reported
  BY <1>1 DEF Old!UserLeft, Old!Pending, Old!PackagedFound, PathsOf, Sorted
<1> QED
  BY <1>2, <1>3, <1>4, <1>5 DEF PathsOf

LEMMA LegacyInit == Old!Init => LegacyInv
BY DEF Old!Init, LegacyInv, Old!TypeOK, Old!Pending, Old!Reported, PathsOf

LEMMA LegacyStep ==
  ASSUME LegacyInv, [Old!Next]_(Old!vars)
  PROVE  LegacyInv'
<1> USE DEF Old!host, Old!run, Old!outcome, Old!Elsewhere
<1>s. /\ found \subseteq Old!Artifacts
      /\ Old!Pending \cap Old!PackagedFound = {} /\ Old!Pending \cap Old!PackageOwned = {}
      /\ Old!Pending \cup Old!PackagedFound \subseteq PathsOf(found) \ Old!UserPath
      /\ PathsOf(found) \subseteq Old!Path \ {Old!Destination}
      /\ Old!UserLeft = (PathsOf(found) \ (Old!Pending \cup Old!PackagedFound)) \ Old!Reported
  BY ArtifactsSorted DEF LegacyInv
<1>p. /\ Old!LegacyCdm \in Old!UserPath /\ Old!Destination # Old!LegacyCdm
      /\ Old!Destination \notin Old!PackageOwned
      /\ Old!UserPath \subseteq Old!Path /\ Old!PackageOwned \subseteq Old!Path
      /\ Old!Destination \in Old!Path /\ Old!Canonical(Old!Destination) = Old!Destination
  BY PathsApart
<1>f. ASSUME found' = found
      PROVE  /\ Old!Pending' = Old!Pending /\ Old!PackagedFound' = Old!PackagedFound
             /\ PathsOf(found)' = PathsOf(found)
             /\ Old!UserLeft' = (PathsOf(found) \ (Old!Pending \cup Old!PackagedFound)) \ Old!Reported'
  <2>1. found' \subseteq Catalogue'
    BY <1>f DEF LegacyInv, Catalogue, Old!Artifact, Old!Daemon, Old!Packaged, Old!UserPath,
       Old!UnitPath, Old!Dir, Old!Unit
  <2>2. /\ Old!Pending' = Old!Pending /\ Old!PackagedFound' = Old!PackagedFound
        /\ PathsOf(found)' = PathsOf(found)
    BY <1>f DEF Old!Pending, Old!PackagedFound, PathsOf
  <2>3. Old!UserLeft' = {a.path : a \in {b \in found : ~b.root}} \ Old!Reported'
    BY <1>f DEF Old!UserLeft
  <2>4. {a.path : a \in {b \in found : ~b.root}} =
          PathsOf(found) \ (Old!Pending \cup Old!PackagedFound)
    <3>1. \A a \in Catalogue : Sorted(a)
      BY PathsApart
    <3> QED
      BY <3>1 DEF LegacyInv, Old!Pending, Old!PackagedFound, PathsOf, Sorted
  <2> QED
    BY <2>2, <2>3, <2>4
<1> DEFINE Bound == (PathsOf(found) \ (Old!Pending \cup Old!PackagedFound))
<1>1. CASE Old!Begin
  <2>1. found' \subseteq Catalogue
    BY <1>1, DetectsArtifacts DEF Old!Begin
  <2>2. found' \subseteq Old!Artifacts
    BY <2>1, CatalogueArtifacts
  <2> QED
    BY <1>1, <2>1, <2>2 DEF Old!Begin, LegacyInv, Old!TypeOK, Old!Reported
<1>2. CASE Old!Compose
  BY <1>2, <1>s, <1>f DEF Old!Compose, LegacyInv, Old!TypeOK, Old!Reported
<1>3. CASE Old!Refuse
  BY <1>3, <1>s, <1>f DEF Old!Refuse, LegacyInv, Old!TypeOK, Old!Reported
<1>4. CASE Old!Accept
  BY <1>4, <1>s, <1>f DEF Old!Accept, LegacyInv, Old!TypeOK, Old!Reported
<1>5. CASE Old!RunCommand
  BY <1>5, <1>s, <1>f DEF Old!RunCommand, LegacyInv, Old!TypeOK, Old!Reported
<1>6. CASE Old!ScriptEnds
  BY <1>6, <1>s, <1>f DEF Old!ScriptEnds, Old!Record, Old!Gone, LegacyInv, Old!TypeOK, Old!Reported
<1>7. CASE Old!RemoveUser
  BY <1>7, <1>s, <1>p, <1>f DEF Old!RemoveUser, Old!AtUser, Old!Leads, LegacyInv, Old!TypeOK, Old!Reported
<1>8. CASE Old!Inspect
  BY <1>8, <1>s, <1>p, <1>f DEF Old!Inspect, Old!AtUser, Old!Leads, Old!Choose, Old!Exists, LegacyInv,
     Old!TypeOK, Old!Reported
<1>9. CASE Old!DropCdm
  BY <1>9, <1>s, <1>p, <1>f DEF Old!DropCdm, LegacyInv, Old!TypeOK, Old!Reported
<1>10. CASE Old!MoveCdm
  BY <1>10, <1>s, <1>p, <1>f DEF Old!MoveCdm, LegacyInv, Old!TypeOK, Old!Reported
<1>11. CASE Old!UserFails
  <2>1. fs' \in [Old!Path -> {"absent", "file", "link", "half"}]
    BY <1>11, <1>p DEF Old!UserFails, LegacyInv, Old!TypeOK
  <2>2. /\ result' = "err" /\ pc' = "off" /\ found' = {} /\ removed' = {} /\ migrated' = {}
        /\ skipped' = {} /\ script = {} /\ UNCHANGED <<merged, changes, script, status, touched>>
    BY <1>11 DEF Old!UserFails, Old!AtUser, LegacyInv
  <2> QED
    BY <2>1, <2>2 DEF LegacyInv, Old!TypeOK, Old!Reported, Old!Pending
<1>12. CASE Old!Finish
  BY <1>12, <1>s, <1>f DEF Old!Finish, LegacyInv, Old!TypeOK, Old!Reported
<1>13. CASE Old!Kill
  BY <1>13 DEF Old!Kill, LegacyInv, Old!TypeOK, Old!Reported, Old!Pending
<1>14. ASSUME NEW p \in Old!Path \ {Old!Destination}, Old!Elsewhere(p),
              fs' = [fs EXCEPT ![p] = IF @ = "absent" THEN "file" ELSE "absent"]
       PROVE  LegacyInv'
  BY <1>14, <1>s, <1>p, <1>f DEF LegacyInv, Old!TypeOK, Old!Reported
<1>15. CASE Old!OtherMoves
  BY <1>15, <1>s, <1>p, <1>f DEF Old!OtherMoves, LegacyInv, Old!TypeOK, Old!Reported
<1>16. CASE Old!PackageChange \/ Old!HostChange
  BY <1>14, <1>16, <1>p DEF Old!PackageChange, Old!HostChange
<1>17. CASE UNCHANGED Old!vars
  BY <1>17, <1>s, <1>f DEF Old!vars, LegacyInv, Old!TypeOK, Old!Reported
<1> QED
  BY <1>1, <1>2, <1>3, <1>4, <1>5, <1>6, <1>7, <1>8, <1>9, <1>10, <1>11, <1>12, <1>13, <1>15, <1>16,
     <1>17 DEF Old!Next

\* The packages' files and the old cache in a step.
LEMMA LegacyEnds ==
  ASSUME LegacyInv, [Old!Next]_(Old!vars)
  PROVE  Old!PackagedUntouched /\ Old!CdmKept
<1> USE DEF Old!host, Old!run, Old!outcome, Old!Elsewhere, Old!PackagedUntouched, Old!CdmKept
<1>s. Old!Pending \cap Old!PackageOwned = {} /\ Old!Pending \cap Old!UserPath = {}
  BY ArtifactsSorted DEF LegacyInv
<1>p. /\ Old!LegacyCdm \in Old!UserPath /\ Old!Destination # Old!LegacyCdm
      /\ Old!UserPath \cap Old!PackageOwned = {} /\ Old!Destination \notin Old!PackageOwned
      /\ Old!UserPath \subseteq Old!Path /\ Old!PackageOwned \subseteq Old!Path
      /\ Old!Destination \in Old!Path
  BY PathsApart
<1>t. fs \in [Old!Path -> {"absent", "file", "link", "half"}] /\ script \subseteq Old!Pending
      /\ changes \in Nat
  BY DEF LegacyInv, Old!TypeOK
<1>1. CASE Old!RunCommand
  BY <1>1, <1>s, <1>p, <1>t DEF Old!RunCommand, Old!Leads
<1>2. CASE Old!RemoveUser
  BY <1>2, <1>p, <1>t DEF Old!RemoveUser, Old!LegacyCdm
<1>3. CASE Old!DropCdm
  BY <1>3, <1>p, <1>t DEF Old!DropCdm, LegacyInv
<1>4. CASE Old!MoveCdm
  BY <1>4, <1>p, <1>t DEF Old!MoveCdm
<1>5. CASE Old!UserFails
  BY <1>5, <1>p, <1>t DEF Old!UserFails, LegacyInv
<1>6. CASE Old!PackageChange \/ Old!HostChange \/ Old!OtherMoves
  BY <1>6, <1>p, <1>t DEF Old!PackageChange, Old!HostChange, Old!OtherMoves
<1>7. ASSUME UNCHANGED fs PROVE Old!PackagedUntouched /\ Old!CdmKept
  BY <1>7
<1>8. CASE \/ Old!Begin \/ Old!Compose \/ Old!Refuse \/ Old!Accept \/ Old!ScriptEnds \/ Old!Inspect
           \/ Old!Finish \/ Old!Kill \/ UNCHANGED Old!vars
  BY <1>7, <1>8 DEF Old!Begin, Old!Compose, Old!Refuse, Old!Accept, Old!ScriptEnds, Old!Inspect,
     Old!Finish, Old!Kill, Old!vars
<1> QED
  BY <1>1, <1>2, <1>3, <1>4, <1>5, <1>6, <1>8 DEF Old!Next

LEMMA LegacyTrue ==
  ASSUME LegacyInv
  PROVE  Old!TypeOK /\ Old!SummaryTrue
BY DEF LegacyInv, Old!SummaryTrue, Old!Gone, PathsOf

\* The summary of a removal that returned tells of every artifact it has found, of each
\* once, and what it calls removed is gone unless somebody put it back
\* (record_elevated_cleanup_postconditions, MigrationOutcome).
THEOREM RemovalsAreTold == Old!Spec => []Old!SummaryTrue
<1>1. Old!Init => LegacyInv
  BY LegacyInit
<1>2. LegacyInv /\ [Old!Next]_(Old!vars) => LegacyInv'
  BY LegacyStep
<1>3. LegacyInv => Old!SummaryTrue
  BY LegacyTrue
<1> QED
  BY <1>1, <1>2, <1>3, PTL DEF Old!Spec

\* A removal leaves what the package manager owns to it, and the old cache goes only
\* where its successor is (remove_elevated_legacy, migrate_legacy_cdm).
THEOREM RemovalsSpare == Old!Spec => [][Old!PackagedUntouched /\ Old!CdmKept]_(Old!vars)
<1>1. Old!Init => LegacyInv
  BY LegacyInit
<1>2. LegacyInv /\ [Old!Next]_(Old!vars) => LegacyInv'
  BY LegacyStep
<1>3. LegacyInv /\ [Old!Next]_(Old!vars) => [Old!PackagedUntouched /\ Old!CdmKept]_(Old!vars)
  BY LegacyEnds
<1> QED
  BY <1>1, <1>2, <1>3, PTL DEF Old!Spec

(***************************************************************************)
(* From the archive's bytes to files (widevine/crx3.rs, extract.rs,        *)
(* cache/mod.rs): first what the sums and powers are that the lengths and  *)
(* limits are reckoned with.                                               *)
(***************************************************************************)
CONSTANTS GroupBits, Width, Fixed, Context, MaxPart, Path, LibraryPath, Manifest, MaxEntry,
          MaxTotal, MaxEntries

VARIABLES input, at, written, disk

Arc == INSTANCE Archive WITH Library <- LibraryPath

\* A set of natural numbers has a least one.
LEMMA LeastNatural ==
  ASSUME NEW S \in SUBSET Nat, S # {}
  PROVE  \E n \in S : \A m \in S : n <= m
<1>1. PICK x \in S : TRUE
  OBVIOUS
<1> DEFINE T == {n + 1 : n \in {m \in S : m <= x}}
<1>2. T \subseteq 1 .. (x + 1) /\ T # {} /\ x + 1 \in Nat
  OBVIOUS
<1>3. PICK y \in T : \A z \in T : y <= z
  BY <1>2, LeastAndGreatest
<1>4. PICK n \in S : y = n + 1 /\ n <= x
  BY <1>3
<1>5. \A m \in S : n <= m
  <2> SUFFICES ASSUME NEW m \in S, ~(n <= m) PROVE FALSE
    OBVIOUS
  <2>1. m <= x /\ m \in Nat /\ n \in Nat /\ x \in Nat
    BY <1>4
  <2>2. m + 1 \in T
    BY <2>1
  <2>3. y <= m + 1
    BY <1>3, <2>2
  <2> QED
    BY <1>4, <2>1, <2>3
<1> QED
  BY <1>5

\* A function is defined by its value at zero and how each value follows from the one before.
Follows(g, n, b, h) == g[0] = b /\ \A k \in 1..n : g[k] = h[k][g[k - 1]]

LEMMA FollowsUnique ==
  ASSUME NEW n \in Nat, NEW m \in Nat, NEW b, NEW h, NEW f, NEW g,
         Follows(f, n, b, h), Follows(g, m, b, h), NEW k \in Nat, k <= n, k <= m
  PROVE  f[k] = g[k]
<1> DEFINE S == {i \in 0..k : f[i] # g[i]}
<1> SUFFICES S = {}
  OBVIOUS
<1> SUFFICES ASSUME S # {} PROVE FALSE
  OBVIOUS
<1>0. S \in SUBSET Nat
  OBVIOUS
<1>1. PICK i \in S : \A j \in S : i <= j
  BY <1>0, LeastNatural
<1>2. i # 0
  BY <1>1 DEF Follows
<1>3. i \in 1..n /\ i \in 1..m /\ i - 1 \in 0..k /\ i - 1 \notin S
  BY <1>1, <1>2
<1>4. f[i - 1] = g[i - 1]
  BY <1>3
<1> QED
  BY <1>1, <1>3, <1>4 DEF Follows

LEMMA FollowsFinitely ==
  ASSUME NEW V, NEW b \in V, NEW h \in [Nat -> [V -> V]], NEW n \in Nat
  PROVE  \E g \in [0..n -> V] : Follows(g, n, b, h)
<1> DEFINE S == {k \in Nat : ~ \E g \in [0..k -> V] : Follows(g, k, b, h)}
<1> SUFFICES S = {}
  OBVIOUS
<1> SUFFICES ASSUME S # {} PROVE FALSE
  OBVIOUS
<1>1. PICK k \in S : \A j \in S : k <= j
  BY LeastNatural
<1>2. k # 0
  <2>1. [i \in 0..0 |-> b] \in [0..0 -> V] /\ Follows([i \in 0..0 |-> b], 0, b, h)
    BY DEF Follows
  <2> QED
    BY <1>1, <2>1
<1>3. k - 1 \in Nat /\ k - 1 \notin S /\ k \in Nat
  BY <1>1, <1>2
<1>4. PICK g \in [0..(k - 1) -> V] : Follows(g, k - 1, b, h)
  BY <1>3
<1> DEFINE f == [i \in 0..k |-> IF i = k THEN h[k][g[k - 1]] ELSE g[i]]
<1>5. f \in [0..k -> V]
  BY <1>3
<1>6. ASSUME NEW i \in 1..k PROVE f[i] = h[i][f[i - 1]]
  <2>1. i - 1 \in 0..k /\ i - 1 # k /\ f[i - 1] = g[i - 1]
    BY <1>3
  <2>2. CASE i = k
    BY <2>1, <2>2
  <2>3. CASE i # k
    <3>1. i \in 1..(k - 1) /\ i \in 0..k
      BY <1>3, <2>3
    <3> QED
      BY <1>4, <2>1, <2>3, <3>1 DEF Follows
  <2> QED
    BY <2>2, <2>3
<1>7. Follows(f, k, b, h)
  <2>1. f[0] = b
    BY <1>2, <1>3, <1>4 DEF Follows
  <2> QED
    BY <1>6, <2>1 DEF Follows
<1> QED
  BY <1>1, <1>5, <1>7

Recurs(f, b, h) == f[0] = b /\ \A n \in Nat : n # 0 => f[n] = h[n][f[n - 1]]

LEMMA FollowsForever ==
  ASSUME NEW V, NEW b \in V, NEW h \in [Nat -> [V -> V]]
  PROVE  \E f \in [Nat -> V] : Recurs(f, b, h)
<1> DEFINE Good(n) == {g \in [0..n -> V] : Follows(g, n, b, h)}
           Some(n) == CHOOSE g \in Good(n) : TRUE
           f == [n \in Nat |-> Some(n)[n]]
<1>1. \A n \in Nat : Some(n) \in Good(n)
  <2> SUFFICES ASSUME NEW n \in Nat PROVE \E g : g \in Good(n)
    OBVIOUS
  <2> QED
    BY FollowsFinitely
<1> HIDE DEF Some
<1>2. \A n \in Nat : Some(n) \in [0..n -> V] /\ Follows(Some(n), n, b, h)
  BY <1>1
<1>3. f \in [Nat -> V]
  BY <1>2
<1>4. ASSUME NEW n \in Nat PROVE f[n] = IF n = 0 THEN b ELSE h[n][f[n - 1]]
  <2>1. CASE n = 0
    BY <1>2, <2>1 DEF Follows
  <2>2. CASE n # 0
    <3>1. n - 1 \in Nat /\ n \in 1..n /\ n - 1 <= n /\ n - 1 <= n - 1
      BY <2>2
    <3>2. Follows(Some(n), n, b, h) /\ Follows(Some(n - 1), n - 1, b, h)
      BY <1>2, <3>1
    <3>3. Some(n)[n - 1] = Some(n - 1)[n - 1]
      BY <3>1, <3>2, FollowsUnique
    <3>4. Some(n)[n] = h[n][Some(n)[n - 1]]
      BY <3>1, <3>2 DEF Follows
    <3>5. f[n] = Some(n)[n] /\ f[n - 1] = Some(n - 1)[n - 1]
      BY <3>1
    <3> QED
      BY <2>2, <3>3, <3>4, <3>5
  <2> QED
    BY <2>1, <2>2
<1> HIDE DEF f
<1>5. Recurs(f, b, h)
  BY <1>4 DEF Recurs
<1> QED
  BY <1>3, <1>5

\* The powers of two.
LEMMA PowSteps ==
  /\ Arc!Pow \in [Nat -> Nat] /\ Arc!Pow[0] = 1
  /\ \A n \in Nat : Arc!Pow[n + 1] = 2 * Arc!Pow[n]
<1> DEFINE h == [n \in Nat |-> [v \in Nat |-> 2 * v]]
<1>1. h \in [Nat -> [Nat -> Nat]]
  OBVIOUS
<1>h. \A n \in Nat, v \in Nat : h[n][v] = 2 * v
  OBVIOUS
<1> HIDE DEF h
<1>2. PICK f \in [Nat -> Nat] : Recurs(f, 1, h)
  <2>1. 1 \in Nat
    OBVIOUS
  <2> QED
    BY <1>1, <2>1, FollowsForever, Zenon
<1>3. f = [n \in Nat |-> IF n = 0 THEN 1 ELSE 2 * f[n - 1]]
  <2>1. \A n \in Nat : f[n] = IF n = 0 THEN 1 ELSE 2 * f[n - 1]
    <3> SUFFICES ASSUME NEW n \in Nat, n # 0 PROVE f[n] = 2 * f[n - 1]
      BY <1>2 DEF Recurs
    <3>1. n - 1 \in Nat
      OBVIOUS
    <3> QED
      BY <1>h, <1>2, <3>1 DEF Recurs
  <2>2. f = [n \in Nat |-> f[n]]
    OBVIOUS
  <2> QED
    BY <2>1, <2>2
<1>4. Arc!Pow = [n \in Nat |-> IF n = 0 THEN 1 ELSE 2 * Arc!Pow[n - 1]]
  BY <1>3, Zenon DEF Arc!Pow
<1>5. Arc!Pow[0] = 1
  BY <1>4
<1>6. \A n \in Nat : Arc!Pow[n + 1] = 2 * Arc!Pow[n]
  <2> SUFFICES ASSUME NEW n \in Nat PROVE Arc!Pow[n + 1] = 2 * Arc!Pow[n]
    OBVIOUS
  <2>1. n + 1 \in Nat /\ n + 1 # 0 /\ (n + 1) - 1 = n
    OBVIOUS
  <2>2. Arc!Pow[n + 1] = 2 * Arc!Pow[(n + 1) - 1]
    BY <1>4, <2>1
  <2> QED
    BY <2>1, <2>2
<1>7. \A n \in Nat : Arc!Pow[n] \in Nat
  <2> DEFINE S == {n \in Nat : Arc!Pow[n] \notin Nat}
  <2> SUFFICES ASSUME S # {} PROVE FALSE
    OBVIOUS
  <2>1. PICK n \in S : \A m \in S : n <= m
    BY LeastNatural
  <2>2. n # 0
    BY <1>5, <2>1
  <2>3. n - 1 \in Nat /\ n - 1 \notin S /\ (n - 1) + 1 = n
    BY <2>1, <2>2
  <2>4. Arc!Pow[n - 1] \in Nat /\ Arc!Pow[n] = 2 * Arc!Pow[n - 1]
    BY <1>6, <2>3
  <2> QED
    BY <2>1, <2>4
<1>8. Arc!Pow \in [Nat -> Nat]
  <2>1. Arc!Pow = [n \in Nat |-> Arc!Pow[n]]
    BY <1>4
  <2> QED
    BY <1>7, <2>1
<1> QED
  BY <1>5, <1>6, <1>8

LEMMA PowPositive ==
  ASSUME NEW n \in Nat PROVE Arc!Pow[n] \in Nat \ {0}
<1> DEFINE S == {k \in Nat : Arc!Pow[k] = 0}
<1> SUFFICES ASSUME S # {} PROVE FALSE
  BY PowSteps
<1>1. PICK k \in S : \A m \in S : k <= m
  BY LeastNatural
<1>2. k # 0
  BY <1>1, PowSteps
<1>3. k - 1 \in Nat /\ k - 1 \notin S /\ (k - 1) + 1 = k
  BY <1>1, <1>2
<1>4. Arc!Pow[k - 1] \in Nat /\ Arc!Pow[k] = 2 * Arc!Pow[k - 1]
  BY <1>3, PowSteps
<1> QED
  BY <1>1, <1>3, <1>4

LEMMA PowAdds ==
  ASSUME NEW m \in Nat, NEW n \in Nat PROVE Arc!Pow[m + n] = Arc!Pow[m] * Arc!Pow[n]
<1> DEFINE S == {k \in Nat : Arc!Pow[m + k] # Arc!Pow[m] * Arc!Pow[k]}
<1> SUFFICES ASSUME S # {} PROVE FALSE
  OBVIOUS
<1>1. PICK k \in S : \A i \in S : k <= i
  BY LeastNatural
<1>2. k # 0
  BY <1>1, PowSteps
<1> DEFINE j == k - 1
<1>3. j \in Nat /\ j \notin S /\ j + 1 = k /\ m + k = (m + j) + 1 /\ m + j \in Nat
  BY <1>1, <1>2
<1> HIDE DEF j
<1>4. Arc!Pow[m + j] = Arc!Pow[m] * Arc!Pow[j]
  BY <1>3
<1>5. Arc!Pow[k] = 2 * Arc!Pow[j] /\ Arc!Pow[m + k] = 2 * Arc!Pow[m + j]
  BY <1>3, PowSteps
<1>6. Arc!Pow[m] \in Nat /\ Arc!Pow[j] \in Nat
  BY <1>3, PowSteps
<1>7. \A x, y \in Nat : 2 * (x * y) = x * (2 * y)
  OBVIOUS
<1> QED
  BY <1>1, <1>4, <1>5, <1>6, <1>7

LEMMA PowGrows ==
  ASSUME NEW m \in Nat, NEW n \in Nat, m <= n PROVE Arc!Pow[m] <= Arc!Pow[n]
<1>1. n - m \in Nat /\ m + (n - m) = n
  OBVIOUS
<1>2. Arc!Pow[n] = Arc!Pow[m] * Arc!Pow[n - m]
  BY <1>1, PowAdds
<1>3. Arc!Pow[m] \in Nat /\ Arc!Pow[n - m] \in Nat /\ Arc!Pow[n - m] >= 1
  BY <1>1, PowPositive
<1>4. \A x, y \in Nat : y >= 1 => x <= x * y
  OBVIOUS
<1> QED
  BY <1>2, <1>3, <1>4

\* The sums of the members of a sequence of numbers, which may be negative.
LEMMA SumSteps ==
  ASSUME NEW n \in Nat, NEW f \in [1..n -> Int]
  PROVE  /\ Arc!Sums(f) \in [Nat -> Int] /\ Arc!Sums(f)[0] = 0
         /\ \A k \in 1..n : Arc!Sums(f)[k] = Arc!Sums(f)[k - 1] + f[k]
<1> DEFINE a(k) == IF k \in DOMAIN f THEN f[k] ELSE 0
           h == [k \in Nat |-> [v \in Int |-> v + a(k)]]
<1>0. \A k \in Nat : a(k) \in Int
  OBVIOUS
<1> HIDE DEF a
<1>1. h \in [Nat -> [Int -> Int]]
  BY <1>0
<1>h. \A k \in Nat, v \in Int : h[k][v] = v + a(k)
  OBVIOUS
<1> HIDE DEF h
<1>2. PICK g \in [Nat -> Int] : Recurs(g, 0, h)
  <2>1. 0 \in Int
    OBVIOUS
  <2> QED
    BY <1>1, <2>1, FollowsForever, Zenon
<1>3. g = [k \in Nat |-> IF k = 0 THEN 0 ELSE g[k - 1] + a(k)]
  <2>1. \A k \in Nat : g[k] = IF k = 0 THEN 0 ELSE g[k - 1] + a(k)
    <3> SUFFICES ASSUME NEW k \in Nat, k # 0 PROVE g[k] = g[k - 1] + a(k)
      BY <1>2 DEF Recurs
    <3>1. k - 1 \in Nat
      OBVIOUS
    <3> QED
      BY <1>h, <1>2, <3>1 DEF Recurs
  <2>2. g = [k \in Nat |-> g[k]]
    OBVIOUS
  <2> QED
    BY <2>1, <2>2
<1> DEFINE s == Arc!Sums(f)
<1>4. s = [k \in Nat |-> IF k = 0 THEN 0 ELSE s[k - 1] + a(k)]
  BY <1>3, Zenon DEF Arc!Sums, a
<1> HIDE DEF s
<1>5. s[0] = 0
  BY <1>4
<1>6. \A k \in Nat : k # 0 => s[k] = s[k - 1] + a(k)
  BY <1>4
<1>7. \A k \in Nat : s[k] \in Int
  <2> DEFINE S == {k \in Nat : s[k] \notin Int}
  <2> SUFFICES ASSUME S # {} PROVE FALSE
    OBVIOUS
  <2>1. PICK k \in S : \A m \in S : k <= m
    BY LeastNatural
  <2>2. k # 0
    BY <1>5, <2>1
  <2>3. k - 1 \in Nat /\ k - 1 \notin S
    BY <2>1, <2>2
  <2>4. s[k - 1] \in Int /\ s[k] = s[k - 1] + a(k) /\ a(k) \in Int
    BY <1>0, <1>6, <2>2, <2>3
  <2> QED
    BY <2>1, <2>4
<1>8. s \in [Nat -> Int]
  <2>1. s = [k \in Nat |-> s[k]]
    BY <1>4
  <2> QED
    BY <1>7, <2>1
<1>9. \A k \in 1..n : s[k] = s[k - 1] + f[k]
  BY <1>6 DEF a
<1> QED
  BY <1>5, <1>8, <1>9 DEF s

\* Smaller members have smaller sums.
LEMMA SumsCompare ==
  ASSUME NEW n \in Nat, NEW f \in [1..n -> Int], NEW g \in [1..n -> Int],
         \A k \in 1..n : f[k] <= g[k]
  PROVE  Arc!Sums(f)[n] <= Arc!Sums(g)[n]
<1> DEFINE F == Arc!Sums(f)
           G == Arc!Sums(g)
           S == {k \in Nat : k <= n /\ ~(F[k] <= G[k])}
<1>1. /\ F \in [Nat -> Int] /\ F[0] = 0 /\ \A k \in 1..n : F[k] = F[k - 1] + f[k]
      /\ G \in [Nat -> Int] /\ G[0] = 0 /\ \A k \in 1..n : G[k] = G[k - 1] + g[k]
  BY SumSteps
<1> HIDE DEF F, G
<1>2. S = {}
  <2> SUFFICES ASSUME S # {} PROVE FALSE
    OBVIOUS
  <2>1. PICK k \in S : \A m \in S : k <= m
    BY LeastNatural
  <2>2. k # 0
    BY <1>1, <2>1
  <2>3. k - 1 \in Nat /\ k - 1 \notin S /\ k - 1 <= n /\ k \in 1..n
    BY <2>1, <2>2
  <2>4. F[k - 1] <= G[k - 1]
    BY <2>3
  <2>5. F[k - 1] \in Int /\ G[k - 1] \in Int /\ f[k] \in Int /\ g[k] \in Int
    BY <1>1, <2>3
  <2>6. F[k] = F[k - 1] + f[k] /\ G[k] = G[k - 1] + g[k] /\ f[k] <= g[k]
    BY <1>1, <2>3
  <2> QED
    BY <2>1, <2>4, <2>5, <2>6
<1> QED
  BY <1>2 DEF F, G

\* What a decoder and an extraction ask of their constants.
Bounded ==
    /\ GroupBits \in Nat \ {0} /\ Width \in Nat \ {0} /\ Fixed \in Nat /\ Context \in Nat
    /\ MaxPart \in Nat /\ LibraryPath \in Path /\ Manifest \in Path
    /\ MaxEntry \in Nat \ {0} /\ MaxTotal \in Nat /\ MaxEntries \in Nat

LEMMA Remainders ==
  ASSUME NEW x \in Nat, NEW y \in Nat \ {0}
  PROVE  x % y \in 0 .. (y - 1) /\ (x < y => x % y = x)
OBVIOUS

LEMMA Rounding ==
  ASSUME Bounded
  PROVE  /\ Arc!MaxBytes \in Nat /\ GroupBits * (Arc!MaxBytes - 1) < Width
         /\ Width - GroupBits * (Arc!MaxBytes - 1) \in Nat
<1> DEFINE a == Width + GroupBits - 1
           q == a \div GroupBits
<1>1. a \in Nat /\ GroupBits \in Nat \ {0} /\ Width \in Nat
  BY DEF Bounded
<1>2. \A x \in Nat, y \in Nat \ {0} : x \div y \in Nat /\ y * (x \div y) <= x
  OBVIOUS
<1>3. q \in Nat /\ GroupBits * q <= a
  BY <1>1, <1>2
<1>4. GroupBits * (q - 1) = GroupBits * q - GroupBits
  <2>1. \A x, y \in Nat : x * (y - 1) = x * y - x
    OBVIOUS
  <2> QED
    BY <1>1, <1>3, <2>1
<1>5. GroupBits * q \in Nat
  BY <1>1, <1>3
<1>6. q = Arc!MaxBytes
  BY DEF Arc!MaxBytes
<1> HIDE DEF q
<1>7. GroupBits * q - GroupBits < Width
  BY <1>1, <1>3, <1>5
<1> QED
  BY <1>1, <1>3, <1>4, <1>5, <1>6, <1>7

\* Each group is less than the power that its bits can hold, and so are all before it.
LEMMA GroupsHeld ==
  ASSUME Bounded, NEW n \in Nat, NEW in \in [1..n -> Arc!Byte], NEW k \in 0..n
  PROVE  /\ Arc!Groups(in)[k] \in Nat /\ Arc!Groups(in)[k] < Arc!Pow[GroupBits * k]
         /\ k # 0 => /\ Arc!Payload(in[k]) \in 0 .. (Arc!Pow[GroupBits] - 1)
                     /\ Arc!Groups(in)[k] = Arc!Groups(in)[k - 1]
                                              + Arc!Payload(in[k]) * Arc!Pow[GroupBits * (k - 1)]
<1> DEFINE G == Arc!Groups(in)
           P == Arc!Pow[GroupBits]
           term(i) == Arc!Payload(in[i]) * Arc!Pow[GroupBits * (i - 1)]
           f == [i \in 1..n |-> term(i)]
<1>1. GroupBits \in Nat \ {0} /\ P \in Nat \ {0}
  BY PowPositive DEF Bounded
<1>2. \A i \in 1..n : Arc!Payload(in[i]) \in 0 .. (P - 1)
  <2> SUFFICES ASSUME NEW i \in 1..n PROVE Arc!Payload(in[i]) \in 0 .. (P - 1)
    OBVIOUS
  <2>1. in[i] \in Nat
    BY <1>1 DEF Arc!Byte
  <2> QED
    BY <1>1, <2>1, Remainders DEF Arc!Payload
<1>3. \A i \in Nat : GroupBits * i \in Nat
  BY <1>1
<1>4. \A i \in Nat : Arc!Pow[GroupBits * i] \in Nat \ {0}
  BY <1>3, PowPositive
<1>5. \A i \in 1..n : i - 1 \in Nat
  OBVIOUS
<1>6. \A i \in 1..n : term(i) \in Nat
  <2> SUFFICES ASSUME NEW i \in 1..n PROVE term(i) \in Nat
    OBVIOUS
  <2> DEFINE j == i - 1
  <2>0. j \in Nat
    OBVIOUS
  <2> HIDE DEF j
  <2>1. Arc!Payload(in[i]) \in Nat
    BY <1>1, <1>2
  <2>2. Arc!Pow[GroupBits * j] \in Nat
    BY <1>4, <2>0
  <2> USE DEF j
  <2> QED
    BY <2>1, <2>2
<1>7. f \in [1..n -> Int]
  BY <1>6
<1>8. G = Arc!Sums(f)
  BY Zenon DEF Arc!Groups
<1>9. /\ G \in [Nat -> Int] /\ G[0] = 0
      /\ \A i \in 1..n : G[i] = G[i - 1] + f[i]
  BY <1>7, <1>8, SumSteps
<1>10. \A i \in 1..n : f[i] = term(i)
  OBVIOUS
<1> HIDE DEF G, P, f
<1>11. \A i \in 1..n : G[i] = G[i - 1] + term(i)
  BY <1>9, <1>10
<1> DEFINE S == {i \in Nat : i <= n /\ ~ (G[i] \in Nat /\ G[i] < Arc!Pow[GroupBits * i])}
<1>12. S = {}
  <2> SUFFICES ASSUME S # {} PROVE FALSE
    OBVIOUS
  <2>0. S \in SUBSET Nat
    OBVIOUS
  <2>1. PICK i \in S : \A j \in S : i <= j
    BY <2>0, LeastNatural
  <2>2. i # 0
    <3>1. GroupBits * 0 = 0
      BY <1>1
    <3>2. Arc!Pow[GroupBits * 0] = 1
      BY <3>1, PowSteps
    <3>3. 0 \notin S
      BY <1>9, <3>2
    <3> QED
      BY <2>1, <3>3
  <2> DEFINE j == i - 1
             X == Arc!Pow[GroupBits * j]
             y == Arc!Payload(in[i])
  <2>3. j \in Nat /\ j \notin S /\ j <= n /\ i \in 1..n /\ i = j + 1
    BY <2>1, <2>2
  <2>4. G[j] \in Nat /\ G[j] < X
    BY <2>3
  <2>5. y \in 0 .. (P - 1) /\ X \in Nat \ {0} /\ P \in Nat \ {0}
    BY <1>1, <1>2, <1>4, <2>3
  <2>6. G[i] = G[j] + y * X
    BY <1>11, <2>3
  <2>7. Arc!Pow[GroupBits * i] = X * P
    <3>1. GroupBits * i = GroupBits * j + GroupBits
      <4>1. \A u, v \in Nat : u * (v + 1) = u * v + u
        OBVIOUS
      <4> QED
        BY <1>1, <2>3, <4>1
    <3> QED
      BY <1>1, <1>3, <2>3, <3>1, PowAdds DEF P
  <2> HIDE DEF j, X, y
  <2>8. y * X \in Nat /\ y * X <= X * P - X
    <3>1. \A u, v, w \in Nat : u <= w - 1 => u * v \in Nat /\ u * v <= v * w - v
      <4> SUFFICES ASSUME NEW u \in Nat, NEW v \in Nat, NEW w \in Nat, u <= w - 1
                   PROVE  u * v \in Nat /\ u * v <= v * w - v
        OBVIOUS
      <4>1. w - 1 - u \in Nat
        OBVIOUS
      <4>2. (w - 1 - u) * v >= 0
        BY <4>1
      <4>3. (w - 1 - u) * v = v * w - v - u * v
        OBVIOUS
      <4> QED
        BY <4>2, <4>3
    <3> QED
      BY <2>5, <3>1
  <2>9. X * P \in Nat
    BY <2>5
  <2>10. G[i] \in Nat /\ G[i] < X * P
    BY <2>4, <2>5, <2>6, <2>8, <2>9
  <2> QED
    BY <2>1, <2>3, <2>7, <2>10
<1>13. k \in Nat /\ k <= n /\ k \notin S
  BY <1>12
<1>14. G[k] \in Nat /\ G[k] < Arc!Pow[GroupBits * k]
  BY <1>13
<1>15. k # 0 => k \in 1..n
  OBVIOUS
<1> QED
  BY <1>2, <1>11, <1>14, <1>15 DEF G, P

\* The decoder reads what the groups of an integer say or nothing.
LEMMA VarintsRead ==
  ASSUME Bounded, NEW n \in Nat, NEW in \in [1..n -> Arc!Byte]
  PROVE  LET ends == Arc!Ending(in)
             meant == IF ends = {} THEN -1 ELSE Arc!Groups(in)[CHOOSE i \in ends : TRUE]
             short == ends \subseteq 1 .. Arc!MaxBytes
         IN Arc!ReadVarint(in) = IF meant < Arc!Pow[Width] /\ short THEN meant ELSE -1
<1> DEFINE E == Arc!Ending(in)
           M == Arc!MaxBytes
           G == Arc!Groups(in)
           rest == Width - GroupBits * (M - 1)
           top == Arc!Pow[rest]
           W == Arc!Pow[Width]
           one == CHOOSE i \in E : TRUE
           last == CHOOSE i \in E \cap 1 .. M : TRUE
           fits == last < M \/ in[last] < top
<1>1. E \subseteq 1..n /\ \A i, j \in E : i = j
  BY DEF Arc!Ending
<1>2. /\ GroupBits \in Nat \ {0} /\ M \in Nat /\ rest \in Nat /\ Width \in Nat
      /\ GroupBits * (M - 1) < Width
  BY Rounding DEF Bounded
<1>3. W \in Nat \ {0} /\ top \in Nat \ {0}
  BY <1>2, PowPositive
<1>4. Arc!ReadVarint(in) = IF E \cap 1 .. M = {} THEN -1 ELSE IF fits THEN G[last] % W ELSE -1
  BY DEF Arc!ReadVarint
<1>5. SUFFICES Arc!ReadVarint(in) =
          IF (IF E = {} THEN -1 ELSE G[one]) < W /\ E \subseteq 1 .. M
          THEN (IF E = {} THEN -1 ELSE G[one]) ELSE -1
  OBVIOUS
<1> HIDE DEF E, M, G, top, W, one, last
<1>6. CASE E = {}
  BY <1>3, <1>4, <1>6
<1>7. ASSUME NEW e \in E PROVE Arc!ReadVarint(in) =
          IF (IF E = {} THEN -1 ELSE G[one]) < W /\ E \subseteq 1 .. M
          THEN (IF E = {} THEN -1 ELSE G[one]) ELSE -1
  <2>1. E = {e} /\ e \in 1..n
    BY <1>1, <1>7
  <2>2. one = e
    BY <2>1 DEF one
  <2>3. CASE e \notin 1 .. M
    BY <1>4, <2>1, <2>3
  <2>4. CASE e \in 1 .. M
    <3>1. E \cap 1 .. M = {e}
      BY <2>1, <2>4
    <3>2. last = e
      BY <3>1 DEF last
    <3>3. /\ G[e] \in Nat /\ G[e] < Arc!Pow[GroupBits * e] /\ G[e - 1] \in Nat
          /\ G[e - 1] < Arc!Pow[GroupBits * (e - 1)]
          /\ Arc!Payload(in[e]) \in 0 .. (Arc!Pow[GroupBits] - 1)
          /\ G[e] = G[e - 1] + Arc!Payload(in[e]) * Arc!Pow[GroupBits * (e - 1)]
      <4>1. e \in 0..n /\ e # 0 /\ e - 1 \in 0..n
        BY <2>1
      <4> QED
        BY <4>1, GroupsHeld DEF G
    <3>4. G[e] < W <=> fits
      <4>1. CASE e < M
        <5>1. GroupBits * e <= Width /\ GroupBits * e \in Nat
          <6>1. \A u, v, w \in Nat : v <= w => u * v <= u * w /\ u * v \in Nat
            OBVIOUS
          <6>2. e <= M - 1 /\ M - 1 \in Nat /\ e \in Nat
            BY <1>2, <2>1, <4>1
          <6>3. GroupBits * e <= GroupBits * (M - 1) /\ GroupBits * e \in Nat
                /\ GroupBits * (M - 1) \in Nat
            BY <1>2, <6>1, <6>2
          <6> QED
            BY <1>2, <6>3
        <5>2. Arc!Pow[GroupBits * e] <= W
          BY <1>2, <5>1, PowGrows DEF W
        <5>3. Arc!Pow[GroupBits * e] \in Nat
          BY <5>1, PowSteps
        <5> QED
          BY <1>3, <3>2, <3>3, <4>1, <5>2, <5>3
      <4>2. CASE e = M
        <5> DEFINE y == Arc!Payload(in[e])
                   X == Arc!Pow[GroupBits * (M - 1)]
        <5>1. GroupBits * (M - 1) \in Nat
          BY <1>2, <2>4, <4>2
        <5>2. X \in Nat \ {0} /\ W = X * top
          <6>1. X \in Nat \ {0}
            BY <5>1, PowPositive
          <6>2. Width = GroupBits * (M - 1) + rest
            BY <1>2, <5>1
          <6> QED
            BY <1>2, <5>1, <6>1, <6>2, PowAdds DEF W, top
        <5>3. in[e] \in Nat /\ in[e] < Arc!Pow[GroupBits] /\ y = in[e]
          <6>1. Arc!Pow[GroupBits] \in Nat \ {0}
            BY <1>2, PowPositive
          <6>2. in[e] \in Nat
            BY <2>1, <6>1 DEF Arc!Byte
          <6>3. in[e] < Arc!Pow[GroupBits]
            BY <1>7, <6>1, <6>2 DEF E, Arc!Ending, Arc!Goes
          <6> QED
            BY <6>1, <6>2, <6>3, Remainders DEF Arc!Payload
        <5>4. G[e] = G[e - 1] + y * X /\ G[e - 1] \in Nat /\ G[e - 1] < X
          BY <3>3, <4>2
        <5> HIDE DEF y, X
        <5>5. \A a, u, x, t \in Nat : a < x => (a + u * x < x * t <=> u < t)
          <6> SUFFICES ASSUME NEW a \in Nat, NEW u \in Nat, NEW x \in Nat, NEW t \in Nat, a < x
                       PROVE  a + u * x < x * t <=> u < t
            OBVIOUS
          <6>0. u * x \in Nat /\ x * t \in Nat /\ x * t - u * x = x * (t - u)
            OBVIOUS
          <6>1. CASE u < t
            <7>1. t - u - 1 >= 0 /\ t - u - 1 \in Nat
              BY <6>1
            <7>2. x * (t - u - 1) >= 0
              BY <7>1
            <7>3. x * (t - u - 1) = x * t - u * x - x
              OBVIOUS
            <7> QED
              BY <6>0, <6>1, <7>2, <7>3
          <6>2. CASE ~(u < t)
            <7>1. u - t \in Nat
              BY <6>2
            <7>2. x * (u - t) >= 0
              BY <7>1
            <7>3. x * (u - t) = u * x - x * t
              OBVIOUS
            <7> QED
              BY <6>0, <6>2, <7>2, <7>3
          <6> QED
            BY <6>1, <6>2
        <5>6. G[e] < W <=> y < top
          BY <1>3, <5>2, <5>3, <5>4, <5>5
        <5>7. ~(last < M)
          BY <1>2, <3>2, <4>2
        <5> QED
          BY <3>2, <5>3, <5>6, <5>7
      <4> QED
        BY <1>2, <2>4, <4>1, <4>2
    <3>5. G[e] < W => G[e] % W = G[e]
      BY <1>3, <3>3, Remainders
    <3>6. Arc!ReadVarint(in) = IF G[e] < W THEN G[e] ELSE -1
      <4>1. Arc!ReadVarint(in) = IF fits THEN G[last] % W ELSE -1
        BY <1>4, <3>1
      <4> QED
        BY <3>2, <3>4, <3>5, <4>1
    <3>7. E # {} /\ E \subseteq 1 .. M
      BY <2>1, <2>4
    <3> QED
      BY <2>2, <3>6, <3>7
  <2> QED
    BY <2>3, <2>4
<1> QED
  BY <1>6, <1>7

\* An accepted envelope has one header and one proof of the pinned key.
LEMMA FieldsCounted ==
  ASSUME NEW n \in Nat, NEW fields \in [1..n -> Arc!Field], NEW x
  PROVE  /\ Arc!Count(fields, x) \in Nat
         /\ Arc!Count(fields, x) = 0 <=> \A i \in 1..n : fields[i] # x
         /\ Arc!Count(fields, x) > 1 => \E i, j \in 1..n : i < j /\ fields[i] = x /\ fields[j] = x
<1> DEFINE S == {i \in 1..n : fields[i] = x}
<1>1. IsFiniteSet(S)
  <2>1. IsFiniteSet(1..n)
    BY FS_Interval
  <2> QED
    BY <2>1, FS_Subset
<1>2. Arc!Count(fields, x) = Cardinality(S)
  BY DEF Arc!Count, Arc!Cardinality, Cardinality, Arc!IsFiniteSet, IsFiniteSet
<1>3. Cardinality(S) \in Nat /\ (Cardinality(S) = 0 <=> S = {})
  BY <1>1, FS_CardinalityType, FS_EmptySet
<1>4. ASSUME Cardinality(S) > 1 PROVE \E i, j \in 1..n : i < j /\ fields[i] = x /\ fields[j] = x
  <2>1. PICK i \in S : TRUE
    BY <1>3, <1>4
  <2>2. S # {i}
    <3>1. Cardinality({i}) = 1
      BY FS_Singleton
    <3> HIDE DEF S
    <3> QED
      BY <1>4, <3>1
  <2>3. PICK j \in S : j # i
    BY <2>1, <2>2
  <2>4. i < j \/ j < i
    BY <2>1, <2>3
  <2> QED
    BY <2>1, <2>3, <2>4
<1> QED
  BY <1>2, <1>3, <1>4

LEMMA EnvelopesUnambiguous ==
  ASSUME NEW n \in Nat, NEW fields \in [1..n -> Arc!Field], Arc!Material(fields) = "ok"
  PROVE  Arc!Count(fields, "pinned") = 1 /\ Arc!Count(fields, "header") = 1
<1>1. Arc!Count(fields, "header") # 0 /\ Arc!Count(fields, "pinned") # 0
  BY DEF Arc!Material
<1>2. \A i \in 1..n : ~(fields[i] \in {"pinned", "header"}
                          /\ Arc!Count(SubSeq(fields, 1, i - 1), fields[i]) > 0)
  BY DEF Arc!Material
<1>3. ASSUME NEW x \in {"pinned", "header"}, Arc!Count(fields, x) > 1 PROVE FALSE
  <2>1. PICK i \in 1..n, j \in 1..n : i < j /\ fields[i] = x /\ fields[j] = x
    BY <1>3, FieldsCounted
  <2> DEFINE prior == SubSeq(fields, 1, j - 1)
  <2>2. j - 1 \in Nat /\ i \in 1..(j - 1)
    BY <2>1
  <2>3. prior \in [1..(j - 1) -> Arc!Field] /\ prior[i] = fields[i]
    <3>1. \A k \in 1..(j - 1) : fields[k] \in Arc!Field
      OBVIOUS
    <3>2. /\ prior \in Seq(Arc!Field) /\ Len(prior) = (IF 1 <= j - 1 THEN (j - 1) - 1 + 1 ELSE 0)
          /\ \A k \in 1..((j - 1) - 1 + 1) : prior[k] = fields[1 + k - 1]
      BY <2>2, <3>1, SubSeqProperties
    <3>3. Len(prior) = j - 1
      BY <2>2, <3>2
    <3>4. prior \in [1..(j - 1) -> Arc!Field]
      BY <3>2, <3>3, LenProperties
    <3> QED
      BY <2>2, <3>2, <3>4
  <2> HIDE DEF prior
  <2>4. Arc!Count(prior, x) > 0
    BY <2>1, <2>2, <2>3, FieldsCounted
  <2> QED
    BY <1>2, <2>1, <2>4 DEF prior
<1>4. Arc!Count(fields, "header") \in Nat /\ Arc!Count(fields, "pinned") \in Nat
  BY FieldsCounted
<1> QED
  BY <1>1, <1>3, <1>4

LEMMA CutWhole ==
  ASSUME NEW B, NEW body \in Seq(B), NEW prefix \in Nat, NEW shifted,
         Len(shifted) = prefix + Len(body),
         \A i \in 1..Len(body) : shifted[prefix + i] = body[i]
  PROVE  SubSeq(shifted, prefix + 1, Len(shifted)) = body
<1>0. PICK a \in Nat, m \in Int, n \in Int : a = Len(body) /\ m = prefix + 1 /\ n = prefix + a
  BY LenProperties
<1>1. \A i \in m..n : shifted[i] \in B
  <2> SUFFICES ASSUME NEW i \in m..n PROVE shifted[i] \in B
    OBVIOUS
  <2>1. i - prefix \in 1..a /\ prefix + (i - prefix) = i
    BY <1>0
  <2>2. shifted[i] = body[i - prefix]
    BY <1>0, <2>1
  <2> QED
    BY <1>0, <2>1, <2>2, ElementOfSeq
<1>2. /\ SubSeq(shifted, m, n) \in Seq(B)
      /\ Len(SubSeq(shifted, m, n)) = IF m <= n THEN n - m + 1 ELSE 0
      /\ \A i \in 1 .. n - m + 1 : SubSeq(shifted, m, n)[i] = shifted[m + i - 1]
  BY <1>1, SubSeqProperties
<1> DEFINE rest == SubSeq(shifted, m, n)
<1> HIDE DEF rest
<1>3. rest \in Seq(B) /\ Len(rest) = a
  BY <1>0, <1>2 DEF rest
<1>4. \A i \in 1..a : rest[i] = body[i]
  <2> SUFFICES ASSUME NEW i \in 1..a PROVE rest[i] = body[i]
    OBVIOUS
  <2>1. i \in 1 .. n - m + 1 /\ m + i - 1 = prefix + i
    BY <1>0
  <2>2. rest[i] = shifted[prefix + i]
    BY <1>2, <2>1 DEF rest
  <2> QED
    BY <1>0, <2>2
<1>5. rest = body
  <2>1. Len(rest) = Len(body) /\ \A i \in 1..Len(rest) : rest[i] = body[i]
    BY <1>0, <1>3, <1>4
  <2> QED
    BY <1>3, <2>1, SeqEqual
<1> QED
  BY <1>0, <1>5 DEF rest

\* What moves over what is before it is whole there, although it overlaps.
Over(front, body, prefix) ==
    SubSeq(Arc!CopyWithin(front \o body, Len(front), prefix), 1, prefix + Len(body))

LEMMA MovedWhole ==
  ASSUME NEW B, NEW front \in Seq(B), NEW body \in Seq(B),
         NEW prefix \in Nat, prefix <= Len(front)
  PROVE  SubSeq(Over(front, body, prefix), prefix + 1, Len(Over(front, body, prefix))) = body
<1> DEFINE copied == Arc!CopyWithin(front \o body, Len(front), prefix)
           shifted == Over(front, body, prefix)
<1>0. PICK o \in Nat, a \in Nat : o = Len(front) /\ a = Len(body)
  BY LenProperties
<1>1. \A i \in 1..a : copied[prefix + i] = body[i]
  <2>1. /\ front \o body \in Seq(B) /\ Len(front \o body) = o + a
        /\ \A i \in 1 .. o + a :
              (front \o body)[i] = IF i <= o THEN front[i] ELSE body[i - o]
    BY <1>0, ConcatProperties
  <2> DEFINE both == front \o body
  <2> HIDE DEF both
  <2>2. DOMAIN both = 1..(o + a)
    BY <2>1, LenProperties DEF both
  <2> SUFFICES ASSUME NEW i \in 1..a PROVE copied[prefix + i] = body[i]
    OBVIOUS
  <2>3. /\ prefix + i \in 1..(o + a) /\ prefix + i > prefix /\ o + i \in 1..(o + a)
        /\ (prefix + i) - prefix + o = o + i /\ o + i <= o + a /\ ~(o + i <= o) /\ (o + i) - o = i
    BY <1>0
  <2>4. copied = [k \in DOMAIN both |-> IF k > prefix /\ k - prefix + o <= Len(both)
                                          THEN both[k - prefix + o] ELSE both[k]]
    BY <1>0 DEF Arc!CopyWithin, both
  <2> HIDE DEF copied
  <2>5. copied[prefix + i] = both[o + i]
    BY <2>1, <2>2, <2>3, <2>4 DEF both
  <2>6. both[o + i] = body[i]
    BY <2>1, <2>3 DEF both
  <2> QED
    BY <2>5, <2>6
<1>2. shifted = SubSeq(copied, 1, prefix + a)
  BY <1>0 DEF Over
<1> HIDE DEF copied, shifted
<1> DEFINE C == {copied[k] : k \in Nat}
<1>3. \A k \in 1..(prefix + a) : copied[k] \in C
  BY <1>0
<1> HIDE DEF C
<1>4. /\ shifted \in Seq(C) /\ Len(shifted) = prefix + a
      /\ \A i \in 1..(prefix + a) : shifted[i] = copied[i]
  <2>1. prefix + a \in Nat /\ 1 \in Int /\ prefix + a \in Int
    OBVIOUS
  <2>2. /\ shifted \in Seq(C)
        /\ Len(shifted) = IF 1 <= prefix + a THEN (prefix + a) - 1 + 1 ELSE 0
        /\ \A i \in 1 .. (prefix + a) - 1 + 1 : shifted[i] = copied[1 + i - 1]
    BY <1>2, <1>3, <2>1, SubSeqProperties
  <2>3. Len(shifted) = prefix + a
    BY <2>1, <2>2
  <2>4. \A i \in 1..(prefix + a) : shifted[i] = copied[i]
    BY <2>1, <2>2
  <2> QED
    BY <2>2, <2>3, <2>4
<1>5. \A i \in 1..a : shifted[prefix + i] = body[i]
  <2>1. \A i \in 1..a : prefix + i \in 1..(prefix + a)
    OBVIOUS
  <2> QED
    BY <1>1, <1>4, <2>1
<1>6. SubSeq(shifted, prefix + 1, Len(shifted)) = body
  BY <1>0, <1>4, <1>5, CutWhole
<1> QED
  BY <1>6 DEF shifted

\* The parts of a file, one behind the other.
LEMMA PartsAre ==
  ASSUME NEW n \in Nat, NEW B, NEW name, \A i \in 1..n : <<name, i>> \in B
  PROVE  Arc!Part(name, n) \in Seq(B) /\ Len(Arc!Part(name, n)) = n
BY DEF Arc!Part

\* The message is built over the archive that it is read from.
LEMMA MessagesWhole ==
  ASSUME NEW in, in.header \in Nat, in.signed \in Nat, in.archive \in Nat,
         Fixed \in Nat, Context \in Nat
  PROVE  \/ Arc!Message(in) = Arc!Part("context", Context) \o Arc!Part("signed", in.signed)
                                \o Arc!Part("archive", in.archive)
         \/ Arc!Message(in) = <<>> /\ Context > Fixed + in.header
<1>0. PICK hh \in Nat, s \in Nat, a \in Nat : hh = in.header /\ s = in.signed /\ a = in.archive
  OBVIOUS
<1> DEFINE B == {"fixed", "header", "signed", "archive", "context"} \X Nat
           fixed == Arc!Part("fixed", Fixed)
           header == Arc!Part("header", hh)
           signed == Arc!Part("signed", s)
           body == Arc!Part("archive", a)
           front == fixed \o header \o signed
           shifted == SubSeq(Arc!CopyWithin(Arc!Crx(in), Fixed + hh + s, Context + s), 1, Context + s + a)
           rest == SubSeq(shifted, Context + s + 1, Len(shifted))
<1>1. Arc!Message(in) = IF Context + s > Fixed + hh + s THEN <<>>
        ELSE Arc!Part("context", Context) \o signed \o rest
  BY <1>0, Zenon DEF Arc!Message
<1>2. Arc!Crx(in) = front \o body
  BY <1>0, Zenon DEF Arc!Crx
<1>3. \A name \in {"fixed", "header", "signed", "archive", "context"}, n \in Nat :
        Arc!Part(name, n) \in Seq(B) /\ Len(Arc!Part(name, n)) = n
  <2> SUFFICES ASSUME NEW name \in {"fixed", "header", "signed", "archive", "context"}, NEW n \in Nat
               PROVE  Arc!Part(name, n) \in Seq(B) /\ Len(Arc!Part(name, n)) = n
    OBVIOUS
  <2>1. \A i \in 1..n : <<name, i>> \in B
    OBVIOUS
  <2> HIDE DEF B
  <2> QED
    BY <2>1, PartsAre
<1> HIDE DEF B
<1>4. /\ fixed \in Seq(B) /\ Len(fixed) = Fixed /\ header \in Seq(B) /\ Len(header) = hh
      /\ signed \in Seq(B) /\ Len(signed) = s /\ body \in Seq(B) /\ Len(body) = a
  BY <1>3
<1> HIDE DEF fixed, header, signed, body
<1>5. front \in Seq(B) /\ Len(front) = Fixed + hh + s
  <2> DEFINE head == fixed \o header
  <2>1. head \in Seq(B) /\ Len(head) = Fixed + hh
    BY <1>4, ConcatProperties
  <2> HIDE DEF head
  <2>2. head \o signed \in Seq(B) /\ Len(head \o signed) = Len(head) + Len(signed)
    BY <1>4, <2>1, ConcatProperties
  <2> QED
    BY <1>4, <2>1, <2>2 DEF head
<1> HIDE DEF front
<1>6. CASE Context + s > Fixed + hh + s
  <2>1. Context > Fixed + hh
    BY <1>6
  <2> QED
    BY <1>0, <1>1, <1>6, <2>1
<1>7. CASE ~(Context + s > Fixed + hh + s)
  <2>1. PICK prefix \in Nat : prefix = Context + s
    OBVIOUS
  <2>2. prefix <= Len(front)
    BY <1>5, <1>7, <2>1
  <2>3. shifted = Over(front, body, prefix)
    BY <1>2, <1>4, <1>5, <2>1 DEF Over
  <2> HIDE DEF shifted
  <2>4. SubSeq(shifted, prefix + 1, Len(shifted)) = body
    <3>1. front \in Seq(B) /\ body \in Seq(B)
      BY <1>4, <1>5
    <3> QED
      BY <2>2, <2>3, <3>1, MovedWhole
  <2>5. rest = body
    BY <2>1, <2>4
  <2> QED
    BY <1>0, <1>1, <1>7, <2>5 DEF signed, body
<1> QED
  BY <1>6, <1>7

LEMMA NoSum ==
  ASSUME NEW n \in Nat, NEW f \in [1..n -> Int], \A k \in 1..n : f[k] = 0
  PROVE  Arc!Sums(f)[n] = 0
<1> DEFINE F == Arc!Sums(f)
           S == {k \in Nat : k <= n /\ F[k] # 0}
<1>1. F \in [Nat -> Int] /\ F[0] = 0 /\ \A k \in 1..n : F[k] = F[k - 1] + f[k]
  BY SumSteps
<1> HIDE DEF F
<1>2. S = {}
  <2> SUFFICES ASSUME S # {} PROVE FALSE
    OBVIOUS
  <2>1. PICK k \in S : \A m \in S : k <= m
    BY LeastNatural
  <2>2. k \in Nat /\ k # 0 /\ k <= n
    BY <1>1, <2>1
  <2>3. k \in 1..n /\ k - 1 \in Nat /\ k - 1 <= n /\ ~(k <= k - 1)
    BY <2>2
  <2>4. F[k - 1] = 0
    BY <2>1, <2>3
  <2> QED
    BY <1>1, <2>1, <2>3, <2>4
<1>3. F[n] = 0
  BY <1>2
<1> QED
  BY <1>3 DEF F

(***************************************************************************)
(* The entries: vetted before anything is written, and nothing but what    *)
(* they declare on disk.                                                   *)
(***************************************************************************)
Vacant == [p \in Path |-> <<>>]

OfEntries ==
    \A p \in Path : disk[p] # <<>> =>
        /\ disk[p][1] \in DOMAIN input /\ input[disk[p][1]].path = p
        /\ disk[p][2] \in Nat /\ disk[p][2] <= input[disk[p][1]].declared

ZipInv ==
    /\ input \in Seq(Arc!Entries) /\ at \in 1 .. Len(input) /\ written \in 0 .. MaxEntry + 1
    /\ pc \in {"vet", "open", "stream", "prove", "done"}
    /\ verdict \in {"none", "ok", "refused", "broken", "io"}
    /\ disk \in Arc!Files /\ OfEntries
    /\ verdict = "none" <=> pc # "done"
    /\ pc = "vet" \/ verdict = "refused" \/ Arc!Vetted(input)
    /\ pc = "vet" \/ verdict = "refused" => at = 1 /\ disk = Vacant
    /\ pc = "stream" => written <= input[at].declared
    /\ verdict = "ok" =>
          \A p \in {LibraryPath, Manifest} :
              \E i \in DOMAIN input : input[i].path = p /\ disk[p] = <<i, input[i].declared>>

ArchiveInv ==
    /\ job \in {"varint", "fields", "message", "zip"}
    /\ job = "varint" => \E n \in Nat : input \in [1..n -> Arc!Byte]
    /\ job = "fields" => \E n \in Nat : input \in [1..n -> Arc!Field]
    /\ job = "message" => input \in [header : 0..MaxPart, signed : 0..MaxPart, archive : 0..MaxPart]
    /\ job = "zip" => ZipInv
    /\ job # "zip" => pc = "vet" /\ at = 1 /\ written = 0 /\ verdict = "none" /\ disk = Vacant

LEMMA EntriesAre ==
  ASSUME Bounded, NEW e \in Arc!Entries
  PROVE  /\ e.path \in Path /\ e.declared \in 0 .. MaxEntry + 1 /\ e.actual \in 0 .. MaxEntry + 1
         /\ e.kind \in {"file", "dir", "link"}
BY DEF Arc!Entries, Arc!Entry, Arc!Size

LEMMA ArchiveStarts ==
  ASSUME Bounded, Arc!Init
  PROVE  ArchiveInv
<1>1. ASSUME job = "zip" PROVE input \in Seq(Arc!Entries) /\ Len(input) \in Nat \ {0}
  <2>1. Arc!Package \in Seq(Arc!Entries) /\ Len(Arc!Package) = 2
    <3>1. \A p \in Path : [path |-> p, kind |-> "file", declared |-> 1, actual |-> 1] \in Arc!Entries
      BY DEF Bounded, Arc!Entries, Arc!Entry, Arc!Size
    <3>2. LibraryPath \in Path /\ Manifest \in Path
      BY DEF Bounded
    <3> HIDE DEF Arc!Entries
    <3> QED
      BY <3>1, <3>2 DEF Arc!Package
  <2>2. CASE \E n \in 1..2 : input \in [1..n -> Arc!Entries]
    BY <2>2
  <2>3. ASSUME NEW e \in Arc!Entries, NEW f \in Arc!Entries,
               input \in {<<e>> \o Arc!Package, Arc!Package \o <<e>>, Arc!Package \o <<e, f>>}
        PROVE  input \in Seq(Arc!Entries) /\ Len(input) \in Nat \ {0}
    <3>1. /\ <<e>> \in Seq(Arc!Entries) /\ Len(<<e>>) = 1
          /\ <<e, f>> \in Seq(Arc!Entries) /\ Len(<<e, f>>) = 2
      OBVIOUS
    <3> DEFINE one == <<e>>
               two == <<e, f>>
               pack == Arc!Package
    <3>3. one \in Seq(Arc!Entries) /\ two \in Seq(Arc!Entries) /\ pack \in Seq(Arc!Entries)
      BY <2>1, <3>1
    <3> HIDE DEF one, two, pack
    <3>4. /\ one \o pack \in Seq(Arc!Entries) /\ Len(one \o pack) = Len(one) + Len(pack)
      BY <3>3, ConcatProperties
    <3>5. /\ pack \o one \in Seq(Arc!Entries) /\ Len(pack \o one) = Len(pack) + Len(one)
      BY <3>3, ConcatProperties
    <3>6. /\ pack \o two \in Seq(Arc!Entries) /\ Len(pack \o two) = Len(pack) + Len(two)
      BY <3>3, ConcatProperties
    <3>2. /\ <<e>> \o Arc!Package \in Seq(Arc!Entries) /\ Len(<<e>> \o Arc!Package) = 3
          /\ Arc!Package \o <<e>> \in Seq(Arc!Entries) /\ Len(Arc!Package \o <<e>>) = 3
          /\ Arc!Package \o <<e, f>> \in Seq(Arc!Entries) /\ Len(Arc!Package \o <<e, f>>) = 4
      BY <2>1, <3>1, <3>4, <3>5, <3>6 DEF one, two, pack
    <3> QED
      BY <2>3, <3>2
  <2> QED
    BY <1>1, <2>2, <2>3 DEF Arc!Init
<1>2. ASSUME job = "zip" PROVE ZipInv
  <2>1. disk = Vacant /\ pc = "vet" /\ at = 1 /\ written = 0 /\ verdict = "none"
    BY DEF Arc!Init, Vacant
  <2>2. disk \in Arc!Files /\ OfEntries
    BY <2>1 DEF Vacant, Arc!Files, OfEntries
  <2> QED
    BY <1>1, <1>2, <2>1, <2>2 DEF ZipInv, Bounded
<1>3. /\ job = "varint" => \E n \in Nat : input \in [1..n -> Arc!Byte]
      /\ job = "fields" => \E n \in Nat : input \in [1..n -> Arc!Field]
  <2>1. ASSUME job = "varint" PROVE \E n \in Nat : input \in [1..n -> Arc!Byte]
    <3>1. PICK n \in 0 .. Arc!MaxBytes + 1 : input \in [1..n -> Arc!Byte]
      BY <2>1 DEF Arc!Init
    <3>2. n \in Nat
      BY <3>1, Rounding
    <3> QED
      BY <3>1, <3>2
  <2>2. ASSUME job = "fields" PROVE \E n \in Nat : input \in [1..n -> Arc!Field]
    <3>1. PICK n \in 0..4 : input \in [1..n -> Arc!Field]
      BY <2>2 DEF Arc!Init
    <3>2. n \in Nat
      OBVIOUS
    <3> QED
      BY <3>1, <3>2
  <2> QED
    BY <2>1, <2>2
<1>4. /\ job \in {"varint", "fields", "message", "zip"}
      /\ job = "message" => input \in [header : 0..MaxPart, signed : 0..MaxPart, archive : 0..MaxPart]
      /\ pc = "vet" /\ at = 1 /\ written = 0 /\ verdict = "none" /\ disk = Vacant
  BY DEF Arc!Init, Vacant
<1> QED
  BY <1>2, <1>3, <1>4 DEF ArchiveInv

\* Going on to the next entry, or to the proof.
LEMMA NextEntryFits ==
  ASSUME ZipInv, Arc!NextEntry
  PROVE  at' \in 1 .. Len(input) /\ pc' \in {"open", "prove"} /\ verdict' = verdict
BY DEF ZipInv, Arc!NextEntry, Arc!Goto

LEMMA FilesStay ==
  ASSUME Bounded, ZipInv, input' = input, Arc!Vetted(input),
         NEW i \in DOMAIN input, NEW n \in Nat, n <= input[i].declared,
         disk' = [disk EXCEPT ![input[i].path] = <<i, n>>]
  PROVE  disk' \in Arc!Files /\ OfEntries'
<1>1. /\ input[i] \in Arc!Entries /\ Len(input) \in Nat /\ i \in 1 .. Len(input)
      /\ Len(input) <= MaxEntries
  BY LenProperties, ElementOfSeq DEF ZipInv, Arc!Vetted
<1>2. input[i].path \in Path /\ input[i].declared \in 0 .. MaxEntry + 1
  BY <1>1, EntriesAre
<1>3. i \in 1 .. MaxEntries /\ n \in Arc!Size
  BY <1>1, <1>2 DEF Bounded, Arc!Size
<1>4. disk \in Arc!Files
  BY DEF ZipInv
<1>5. disk' \in Arc!Files
  BY <1>2, <1>3, <1>4 DEF Arc!Files
<1>6. ASSUME NEW p \in Path, disk'[p] # <<>>
      PROVE  /\ disk'[p][1] \in DOMAIN input /\ input[disk'[p][1]].path = p
             /\ disk'[p][2] \in Nat /\ disk'[p][2] <= input[disk'[p][1]].declared
  <2>1. CASE p = input[i].path
    <3>1. disk'[p] = <<i, n>>
      BY <1>2, <1>4, <2>1 DEF Arc!Files
    <3> QED
      BY <2>1, <3>1
  <2>2. CASE p # input[i].path
    <3>1. disk'[p] = disk[p]
      BY <1>2, <1>4, <2>2 DEF Arc!Files
    <3> QED
      BY <1>6, <3>1 DEF ZipInv, OfEntries
  <2> QED
    BY <2>1, <2>2
<1> QED
  BY <1>5, <1>6 DEF OfEntries

LEMMA ArchiveSteps ==
  ASSUME Bounded, ArchiveInv, Arc!Next
  PROVE  ArchiveInv'
<1>1. job = "zip" /\ job' = job /\ input' = input /\ ZipInv
  BY DEF ArchiveInv, Arc!Next, Arc!Vet, Arc!Open, Arc!Stream, Arc!Prove, Arc!Fails, Arc!Tamper
<1> USE <1>1
<1>2. CASE Arc!Vet
  <2>1. /\ pc = "vet" /\ at' = at /\ written' = written /\ disk' = disk
        /\ \/ Arc!Vetted(input) /\ pc' = "open" /\ verdict' = verdict
           \/ ~Arc!Vetted(input) /\ pc' = "done" /\ verdict' = "refused"
    BY <1>2 DEF Arc!Vet, Arc!Goto, Arc!Ends
  <2>2. OfEntries'
    BY <2>1 DEF ZipInv, OfEntries
  <2> QED
    BY <2>1, <2>2 DEF ArchiveInv, ZipInv, Vacant
<1>3. CASE Arc!Open
  <2>1. pc = "open" /\ verdict = "none" /\ Arc!Vetted(input) /\ written' = 0
    BY <1>3 DEF ZipInv, Arc!Open
  <2>2. /\ at \in DOMAIN input /\ input[at] \in Arc!Entries
        /\ input[at].declared \in 0 .. MaxEntry + 1
    <3>1. at \in DOMAIN input /\ input[at] \in Arc!Entries
      BY LenProperties, ElementOfSeq DEF ZipInv
    <3> QED
      BY <3>1, EntriesAre
  <2>3. CASE Arc!NextEntry /\ disk' = disk
    <3>1. OfEntries'
      BY <2>3 DEF ZipInv, OfEntries
    <3> QED
      BY <2>1, <2>3, <3>1, NextEntryFits DEF ArchiveInv, ZipInv, Bounded
  <2>4. CASE Arc!Ends("broken") /\ at' = at /\ disk' = disk
    <3>1. OfEntries'
      BY <2>4 DEF ZipInv, OfEntries
    <3> QED
      BY <2>1, <2>4, <3>1 DEF ArchiveInv, ZipInv, Arc!Ends, Bounded
  <2>5. CASE /\ Arc!Goto("stream") /\ at' = at
             /\ disk' = [disk EXCEPT ![input[at].path] = <<at, 0>>]
    <3>1. disk' \in Arc!Files /\ OfEntries'
      <4>1. 0 \in Nat /\ 0 <= input[at].declared
        BY <2>2
      <4> QED
        BY <2>1, <2>2, <2>5, <4>1, FilesStay
    <3> QED
      BY <2>1, <2>2, <2>5, <3>1 DEF ArchiveInv, ZipInv, Arc!Goto, Bounded
  <2> QED
    BY <1>3, <2>3, <2>4, <2>5 DEF Arc!Open
<1>4. CASE Arc!Stream
  <2>1. /\ pc = "stream" /\ verdict = "none" /\ Arc!Vetted(input)
        /\ written <= input[at].declared
    BY <1>4 DEF ZipInv, Arc!Stream
  <2>2. /\ at \in DOMAIN input /\ input[at] \in Arc!Entries /\ written \in Nat
        /\ input[at].declared \in 0 .. MaxEntry + 1
    <3>1. at \in DOMAIN input /\ input[at] \in Arc!Entries /\ written \in Nat
      BY LenProperties, ElementOfSeq DEF ZipInv
    <3> QED
      BY <3>1, EntriesAre
  <2>3. CASE Arc!Ends("broken") /\ UNCHANGED <<at, written, disk>>
    <3>1. OfEntries'
      BY <2>3 DEF ZipInv, OfEntries
    <3> QED
      BY <2>1, <2>3, <3>1 DEF ArchiveInv, ZipInv, Arc!Ends
  <2>4. CASE /\ written + 1 <= input[at].declared /\ written' = written + 1
             /\ disk' = [disk EXCEPT ![input[at].path] = <<at, written'>>]
             /\ UNCHANGED <<at, pc, verdict>>
    <3>1. disk' \in Arc!Files /\ OfEntries'
      <4>1. written + 1 \in Nat /\ disk' = [disk EXCEPT ![input[at].path] = <<at, written + 1>>]
        BY <2>2, <2>4
      <4> QED
        BY <2>1, <2>2, <2>4, <4>1, FilesStay
    <3>2. written' \in 0 .. MaxEntry + 1 /\ written' <= input[at].declared
      BY <2>2, <2>4 DEF Bounded
    <3> QED
      BY <2>1, <2>4, <3>1, <3>2 DEF ArchiveInv, ZipInv
  <2>5. CASE Arc!NextEntry /\ UNCHANGED <<written, disk>>
    <3>1. OfEntries'
      BY <2>5 DEF ZipInv, OfEntries
    <3> QED
      BY <2>1, <2>5, <3>1, NextEntryFits DEF ArchiveInv, ZipInv
  <2> QED
    BY <1>4, <2>2, <2>3, <2>4, <2>5 DEF Arc!Stream
<1>5. CASE Arc!Prove
  <2>1. /\ pc = "prove" /\ Arc!Vetted(input) /\ UNCHANGED <<at, written, disk>> /\ pc' = "done"
        /\ \/ verdict' = "broken"
           \/ /\ verdict' = "ok"
              /\ \A p \in {LibraryPath, Manifest} :
                    \E i \in DOMAIN input : input[i].path = p /\ disk[p] = <<i, input[i].declared>>
    BY <1>5 DEF Arc!Prove, Arc!Ends, ZipInv
  <2>2. OfEntries'
    BY <2>1 DEF ZipInv, OfEntries
  <2> QED
    BY <2>1, <2>2 DEF ArchiveInv, ZipInv
<1>6. CASE Arc!Fails
  <2>1. /\ pc \notin {"vet", "done"} /\ Arc!Vetted(input) /\ UNCHANGED <<at, written, disk>>
        /\ pc' = "done" /\ verdict' = "io"
    BY <1>6 DEF Arc!Fails, Arc!Ends, ZipInv
  <2>2. OfEntries'
    BY <2>1 DEF ZipInv, OfEntries
  <2> QED
    BY <2>1, <2>2 DEF ArchiveInv, ZipInv
<1>7. ASSUME NEW q \in Path, Arc!Tamper(q) PROVE ArchiveInv'
  <2>1. /\ pc = "prove" /\ verdict = "none" /\ Arc!Vetted(input) /\ UNCHANGED <<at, written, pc, verdict>>
        /\ disk' = [disk EXCEPT ![q] = <<>>]
    BY <1>7 DEF Arc!Tamper, ZipInv
  <2>2. disk' \in Arc!Files /\ \A p \in Path : disk'[p] = disk[p] \/ disk'[p] = <<>>
    BY <2>1 DEF ZipInv, Arc!Files
  <2>3. OfEntries'
    BY <2>2 DEF ZipInv, OfEntries
  <2> QED
    BY <2>1, <2>2, <2>3 DEF ArchiveInv, ZipInv
<1> QED
  BY <1>2, <1>3, <1>4, <1>5, <1>6, <1>7 DEF Arc!Next

\* What is on disk is within the limits.
LEMMA LimitsHold ==
  ASSUME Bounded, ArchiveInv
  PROVE  Arc!WithinLimits
<1> SUFFICES ASSUME job = "zip" PROVE
        /\ Arc!Sums([i \in DOMAIN input |-> Arc!OnDisk(i)])[Len(input)] <= MaxTotal
        /\ \A p \in Path : disk[p] # <<>> =>
              /\ disk[p][1] \in DOMAIN input /\ input[disk[p][1]].path = p
              /\ disk[p][2] <= input[disk[p][1]].declared
  BY DEF Arc!WithinLimits
<1>1. ZipInv
  BY DEF ArchiveInv
<1>2. PICK n \in Nat : n = Len(input) /\ DOMAIN input = 1..n
  BY <1>1, LenProperties DEF ZipInv
<1> DEFINE f == [i \in DOMAIN input |-> Arc!OnDisk(i)]
           g == [i \in DOMAIN input |-> input[i].declared]
<1>3. \A i \in 1..n : input[i] \in Arc!Entries
  BY <1>1, <1>2, ElementOfSeq DEF ZipInv
<1>4. \A i \in 1..n : input[i].path \in Path /\ input[i].declared \in Nat
  <2> SUFFICES ASSUME NEW i \in 1..n PROVE input[i].path \in Path /\ input[i].declared \in Nat
    OBVIOUS
  <2>1. input[i] \in Arc!Entries
    BY <1>3
  <2>2. input[i].path \in Path /\ input[i].declared \in 0 .. MaxEntry + 1
    BY <2>1, EntriesAre
  <2> QED
    BY <2>2
<1>5. \A i \in 1..n : Arc!OnDisk(i) \in Int /\ Arc!OnDisk(i) <= input[i].declared
  <2> SUFFICES ASSUME NEW i \in 1..n
               PROVE  Arc!OnDisk(i) \in Int /\ Arc!OnDisk(i) <= input[i].declared
    OBVIOUS
  <2>1. CASE disk[input[i].path] = <<>>
    BY <1>4, <2>1 DEF Arc!OnDisk
  <2>2. CASE disk[input[i].path] # <<>>
    <3>1. disk[input[i].path][2] \in Nat /\ disk[input[i].path][2] <= input[disk[input[i].path][1]].declared
      BY <1>1, <1>4, <2>2 DEF ZipInv, OfEntries
    <3> QED
      BY <1>4, <2>2, <3>1 DEF Arc!OnDisk
  <2> QED
    BY <2>1, <2>2
<1>6. f \in [1..n -> Int]
  BY <1>2, <1>5
<1>7. Arc!Sums(f)[n] <= MaxTotal
  <2>1. CASE Arc!Vetted(input)
    <3>1. g \in [1..n -> Int] /\ \A k \in 1..n : f[k] <= g[k]
      BY <1>2, <1>4, <1>5
    <3>2. Arc!Sums(g)[n] <= MaxTotal
      BY <1>2, <2>1, Zenon DEF Arc!Vetted, Arc!Total
    <3> HIDE DEF f, g
    <3>3. Arc!Sums(f)[n] <= Arc!Sums(g)[n]
      BY <1>6, <3>1, SumsCompare
    <3>4. Arc!Sums(f) \in [Nat -> Int] /\ Arc!Sums(g) \in [Nat -> Int]
      BY <1>6, <3>1, SumSteps
    <3>5. Arc!Sums(f)[n] \in Int /\ Arc!Sums(g)[n] \in Int /\ MaxTotal \in Int
      BY <3>4 DEF Bounded
    <3> QED
      BY <3>2, <3>3, <3>5
  <2>2. CASE ~Arc!Vetted(input)
    <3>1. \A p \in Path : disk[p] = <<>>
      BY <1>1, <2>2 DEF ZipInv, Vacant
    <3>2. \A k \in 1..n : f[k] = 0
      BY <1>2, <1>4, <3>1 DEF Arc!OnDisk
    <3> HIDE DEF f
    <3>3. Arc!Sums(f)[n] = 0
      BY <1>6, <3>2, NoSum
    <3> QED
      BY <3>3 DEF Bounded
  <2> QED
    BY <2>1, <2>2
<1>8. \A p \in Path : disk[p] # <<>> =>
        /\ disk[p][1] \in DOMAIN input /\ input[disk[p][1]].path = p
        /\ disk[p][2] <= input[disk[p][1]].declared
  BY <1>1 DEF ZipInv, OfEntries
<1> QED
  BY <1>2, <1>7, <1>8

\* What the archive is trusted with.
ArchiveTrusted ==
    /\ Arc!TypeOK /\ Arc!VarintExact /\ Arc!Unambiguous /\ Arc!MessageWhole
    /\ Arc!RefusedUntouched /\ Arc!WithinLimits /\ Arc!ProvedIsArchive

LEMMA ArchiveVouches ==
  ASSUME Bounded, ArchiveInv
  PROVE  ArchiveTrusted
<1>1. Arc!TypeOK
  <2>1. CASE job = "zip"
    <3>1. ZipInv
      BY <2>1 DEF ArchiveInv
    <3>2. at \in 1 .. MaxEntries + 1
      <4>1. Len(input) \in Nat /\ at \in 1 .. Len(input)
        BY <3>1, LenProperties DEF ZipInv
      <4>2. CASE Arc!Vetted(input)
        BY <4>1, <4>2 DEF Bounded, Arc!Vetted
      <4>3. CASE at = 1
        BY <4>3 DEF Bounded
      <4> QED
        BY <3>1, <4>2, <4>3 DEF ZipInv
    <3> QED
      BY <2>1, <3>1, <3>2 DEF ZipInv, Arc!TypeOK
  <2>2. CASE job # "zip"
    <3>1. disk \in Arc!Files
      BY <2>2 DEF ArchiveInv, Vacant, Arc!Files
    <3> QED
      BY <2>2, <3>1 DEF ArchiveInv, Arc!TypeOK, Bounded
  <2> QED
    BY <2>1, <2>2
<1>2. Arc!VarintExact
  <2> SUFFICES ASSUME job = "varint"
               PROVE  LET ends == Arc!Ending(input)
                          meant == IF ends = {} THEN -1 ELSE Arc!Groups(input)[CHOOSE i \in ends : TRUE]
                          short == ends \subseteq 1 .. Arc!MaxBytes
                      IN Arc!ReadVarint(input) = IF meant < Arc!Pow[Width] /\ short THEN meant ELSE -1
    BY DEF Arc!VarintExact
  <2>1. PICK n \in Nat : input \in [1..n -> Arc!Byte]
    BY DEF ArchiveInv
  <2> QED
    BY <2>1, VarintsRead, Zenon
<1>3. Arc!Unambiguous
  <2> SUFFICES ASSUME job = "fields", Arc!Material(input) = "ok"
               PROVE  Arc!Count(input, "pinned") = 1 /\ Arc!Count(input, "header") = 1
    BY DEF Arc!Unambiguous
  <2>1. PICK n \in Nat : input \in [1..n -> Arc!Field]
    BY DEF ArchiveInv
  <2> QED
    BY <2>1, EnvelopesUnambiguous
<1>4. Arc!MessageWhole
  <2> SUFFICES ASSUME job = "message"
               PROVE  \/ Arc!Message(input) = Arc!Part("context", Context) \o Arc!Part("signed", input.signed)
                                                \o Arc!Part("archive", input.archive)
                      \/ Arc!Message(input) = <<>> /\ Context > Fixed + input.header
    BY DEF Arc!MessageWhole
  <2>1. input.header \in Nat /\ input.signed \in Nat /\ input.archive \in Nat
    BY DEF ArchiveInv, Bounded
  <2>2. Fixed \in Nat /\ Context \in Nat
    BY DEF Bounded
  <2> QED
    BY <2>1, <2>2, MessagesWhole, Zenon
<1>5. Arc!RefusedUntouched
  <2> SUFFICES ASSUME job = "zip",
                      Arc!Total(input) > MaxTotal \/ \E i \in DOMAIN input : Arc!Unfit(input[i])
               PROVE  \A p \in Path : disk[p] = <<>>
    BY DEF Arc!RefusedUntouched
  <2>1. ASSUME Arc!Vetted(input) PROVE FALSE
    <3>1. Arc!Total(input) <= MaxTotal /\ \A i \in DOMAIN input : ~Arc!Unfit(input[i])
      BY <2>1 DEF Arc!Vetted
    <3>2. Arc!Total(input) \in Int /\ MaxTotal \in Int
      <4>1. ZipInv
        BY DEF ArchiveInv
      <4>2. PICK n \in Nat : n = Len(input) /\ DOMAIN input = 1..n
        BY <4>1, LenProperties DEF ZipInv
      <4> DEFINE g == [i \in DOMAIN input |-> input[i].declared]
      <4>3. g \in [1..n -> Int]
        <5>1. \A i \in 1..n : input[i] \in Arc!Entries
          BY <4>1, <4>2, ElementOfSeq DEF ZipInv
        <5>2. \A i \in 1..n : input[i].declared \in Int
          <6> SUFFICES ASSUME NEW i \in 1..n PROVE input[i].declared \in Int
            OBVIOUS
          <6>1. input[i] \in Arc!Entries
            BY <5>1
          <6>2. input[i].declared \in 0 .. MaxEntry + 1
            BY <6>1, EntriesAre
          <6> QED
            BY <6>2
        <5> QED
          BY <4>2, <5>2
      <4> HIDE DEF g
      <4>4. Arc!Sums(g)[n] \in Int
        BY <4>3, SumSteps
      <4> QED
        BY <4>2, <4>4 DEF Arc!Total, g, Bounded
    <3> QED
      BY <3>1, <3>2
  <2> QED
    BY <2>1 DEF ArchiveInv, ZipInv, Vacant
<1>6. Arc!ProvedIsArchive
  <2> SUFFICES ASSUME verdict = "ok", NEW p \in {LibraryPath, Manifest}
               PROVE  \E i \in DOMAIN input :
                        /\ disk[p] = <<i, input[i].actual>>
                        /\ \A j \in DOMAIN input : input[j].path = p => j = i
    BY DEF Arc!ProvedIsArchive
  <2>1. ZipInv /\ Arc!Vetted(input)
    BY DEF ArchiveInv, ZipInv
  <2>2. PICK i \in DOMAIN input : input[i].path = p /\ disk[p] = <<i, input[i].declared>>
    BY <2>1 DEF ZipInv
  <2>3. \A j, k \in DOMAIN input : input[j].path = input[k].path => j = k
    BY <2>1 DEF Arc!Vetted
  <2>4. PICK k \in DOMAIN input : input[k].path = p /\ input[k].actual = input[k].declared
    BY <2>1 DEF Arc!Vetted, Arc!Digestible
  <2>5. k = i
    BY <2>2, <2>3, <2>4
  <2> QED
    BY <2>2, <2>3, <2>4, <2>5
<1> QED
  BY <1>1, <1>2, <1>3, <1>4, <1>5, <1>6, LimitsHold DEF ArchiveTrusted

\* An archive that nothing happens to stays as it is.
LEMMA ArchiveStays ==
  ASSUME Bounded, ArchiveInv, [Arc!Next]_(Arc!vars)
  PROVE  ArchiveInv'
<1>1. CASE Arc!Next
  BY <1>1, ArchiveSteps
<1>2. CASE UNCHANGED Arc!vars
  BY <1>2 DEF ArchiveInv, ZipInv, OfEntries, Vacant, Arc!vars
<1> QED
  BY <1>1, <1>2

\* What the extraction of an archive is trusted with, for archives, envelopes and
\* varints of any length: the integers are the encoded ones, the envelope that is
\* accepted is unambiguous and the message whole, a refused archive leaves nothing,
\* and what is proved is what the archive held (widevine/crx3.rs, extract.rs).
THEOREM ArchivesAreVouched ==
  ASSUME Bounded
  PROVE  Arc!Spec => []ArchiveTrusted
<1>1. Arc!Init => ArchiveInv
  BY ArchiveStarts
<1>2. ArchiveInv /\ [Arc!Next]_(Arc!vars) => ArchiveInv'
  BY ArchiveStays
<1>3. ArchiveInv => ArchiveTrusted
  BY ArchiveVouches
<1> QED
  BY <1>1, <1>2, <1>3, PTL DEF Arc!Spec

-----------------------------------------------------------------------------
(* The browsers of the host.  A directory is above another when the path   *)
(* up comes by it, and all that are above one are above one another; so    *)
(* the walk of Windows reaches a directory at one depth only, unless the   *)
(* roots lie in one another.                                               *)

CONSTANTS Dirs, Depth, Famous

VARIABLES os, parent, layout, where, roots, pending, seen, out

Found == INSTANCE Discovery WITH N <- Dirs, MaxDepth <- Depth, Known <- Famous

\* There is a directory, and the known browsers are in some of them.
Walkable == Dirs \in Nat \ {0} /\ Depth \in Nat /\ Famous \subseteq 1..Dirs

\* Every directory is in one of a lower number, or outside.
Treed ==
    /\ parent \in [Found!Dir -> {Found!Outside} \cup Found!Dir]
    /\ \A d \in Found!Dir : parent[d] < d

\* A directory is above itself, and what is above another is of a lower number.
LEMMA AncestorsLower ==
  ASSUME Walkable, Treed, NEW d \in Found!Dir
  PROVE  /\ d \in Found!Ancestors(d)
         /\ \A a \in Found!Ancestors(d) : a \in Found!Dir /\ a <= d
<1> USE DEF Found!Dir, Found!Outside, Walkable, Treed
<1>1. d \in Found!Ancestors(d)
  BY DEF Found!Ancestors
<1>2. ASSUME NEW a \in Found!Ancestors(d) PROVE a \in Found!Dir /\ a <= d
  <2> DEFINE s == {c \in Found!Dir : c <= d}
  <2>1. s \in SUBSET Found!Dir /\ d \in s /\ \A c \in s : parent[c] \in s \cup {Found!Outside}
    OBVIOUS
  <2>2. a \in s
    BY <1>2, <2>1, Zenon DEF Found!Ancestors
  <2> QED
    BY <2>2
<1> QED
  BY <1>1, <1>2

\* What is above a directory is the directory, or above the one that it is in.
LEMMA AncestorsUp ==
  ASSUME Walkable, Treed, NEW d \in Found!Dir
  PROVE  /\ \A a \in Found!Ancestors(d) \ {d} :
               parent[d] \in Found!Dir /\ a \in Found!Ancestors(parent[d])
         /\ parent[d] \in Found!Dir => Found!Ancestors(parent[d]) \subseteq Found!Ancestors(d)
<1> USE DEF Found!Dir, Found!Outside, Walkable, Treed
<1>1. ASSUME NEW a \in Found!Ancestors(d) \ {d}, NEW s \in SUBSET Found!Dir,
             parent[d] \in s \cup {Found!Outside}, \A c \in s : parent[c] \in s \cup {Found!Outside}
      PROVE  a \in s
  <2> DEFINE t == s \cup {d}
  <2>1. t \in SUBSET Found!Dir /\ d \in t /\ \A c \in t : parent[c] \in t \cup {Found!Outside}
    BY <1>1
  <2>2. a \in t
    BY <1>1, <2>1, Zenon DEF Found!Ancestors
  <2> QED
    BY <1>1, <2>2
<1>2. ASSUME NEW a \in Found!Ancestors(d) \ {d}
      PROVE  parent[d] \in Found!Dir /\ a \in Found!Ancestors(parent[d])
  <2>1. parent[d] \in Found!Dir
    <3>1. ASSUME parent[d] = Found!Outside PROVE FALSE
      BY <1>1, <1>2, <3>1
    <3> QED
      BY <3>1
  <2>2. a \in Found!Dir
    BY <1>2 DEF Found!Ancestors
  <2> QED
    BY <1>1, <1>2, <2>1, <2>2 DEF Found!Ancestors
<1>3. ASSUME parent[d] \in Found!Dir, NEW a \in Found!Ancestors(parent[d])
      PROVE  a \in Found!Ancestors(d)
  <2>1. ASSUME NEW s \in SUBSET Found!Dir, d \in s,
               \A c \in s : parent[c] \in s \cup {Found!Outside}
        PROVE  a \in s
    <3>1. parent[d] \in s
      BY <1>3, <2>1
    <3> QED
      BY <1>3, <2>1, <3>1 DEF Found!Ancestors
  <2> QED
    BY <1>3, <2>1 DEF Found!Ancestors
<1> QED
  BY <1>2, <1>3

LEMMA AncestorsPass ==
  ASSUME Walkable, Treed, NEW d \in Found!Dir, NEW b \in Found!Ancestors(d),
         NEW a \in Found!Ancestors(b)
  PROVE  a \in Found!Ancestors(d)
<1>1. ASSUME NEW s \in SUBSET Found!Dir, d \in s,
             \A c \in s : parent[c] \in s \cup {Found!Outside}
      PROVE  a \in s
  <2>1. b \in s
    BY <1>1 DEF Found!Ancestors
  <2> QED
    BY <1>1, <2>1 DEF Found!Ancestors
<1>2. a \in Found!Dir
  BY DEF Found!Ancestors
<1> QED
  BY <1>1, <1>2 DEF Found!Ancestors

\* Of two directories above one, one is above the other.
LEMMA AncestorsLine ==
  ASSUME Walkable, Treed, NEW d \in Found!Dir, NEW a \in Found!Ancestors(d),
         NEW b \in Found!Ancestors(d)
  PROVE  a \in Found!Ancestors(b) \/ b \in Found!Ancestors(a)
<1> DEFINE s == {c \in Found!Dir : b \in Found!Ancestors(c) \/ c \in Found!Ancestors(b)}
<1>0. a \in Found!Dir /\ b \in Found!Dir
  BY DEF Found!Ancestors
<1>1. ASSUME NEW c \in s PROVE parent[c] \in s \cup {Found!Outside}
  <2>0. SUFFICES ASSUME parent[c] \in Found!Dir PROVE parent[c] \in s
    BY DEF Treed
  <2>1. parent[c] \in Found!Ancestors(parent[c]) /\ c \in Found!Ancestors(c)
    BY <2>0, AncestorsLower
  <2>2. parent[c] \in Found!Ancestors(c)
    BY <2>0, <2>1, AncestorsUp
  <2>3. CASE c \in Found!Ancestors(b)
    <3>1. parent[c] \in Found!Ancestors(b)
      BY <1>0, <2>2, <2>3, AncestorsPass
    <3> QED
      BY <2>0, <3>1
  <2>4. CASE b \in Found!Ancestors(c) /\ b # c
    <3>1. b \in Found!Ancestors(parent[c])
      BY <2>4, AncestorsUp
    <3> QED
      BY <2>0, <3>1
  <2> QED
    BY <2>1, <2>3, <2>4
<1>2. a \in s
  <2>1. s \in SUBSET Found!Dir /\ d \in s
    OBVIOUS
  <2> HIDE DEF s
  <2> QED
    BY <1>1, <2>1, Zenon DEF Found!Ancestors
<1> QED
  BY <1>2

\* From a directory down to one in it, there is one more.
LEMMA ChainGrows ==
  ASSUME Walkable, Treed, NEW d \in Found!Dir, NEW r \in Found!Ancestors(d)
  PROVE  /\ IsFiniteSet(Found!Chain(d, r)) /\ Cardinality(Found!Chain(d, r)) \in Nat \ {0}
         /\ d = r => Cardinality(Found!Chain(d, r)) = 1
         /\ d # r => /\ parent[d] \in Found!Dir /\ r \in Found!Ancestors(parent[d])
                     /\ Cardinality(Found!Chain(d, r)) = Cardinality(Found!Chain(parent[d], r)) + 1
<1>0. r \in Found!Dir
  BY DEF Found!Ancestors
<1>1. ASSUME NEW c \in Found!Dir, NEW q
      PROVE  IsFiniteSet(Found!Chain(c, q)) /\ Cardinality(Found!Chain(c, q)) \in Nat
  <2>1. Found!Chain(c, q) \in SUBSET (1..Dirs)
    BY DEF Found!Chain, Found!Ancestors, Found!Dir
  <2>2. IsFiniteSet(1..Dirs)
    BY FS_Interval DEF Walkable
  <2>3. IsFiniteSet(Found!Chain(c, q))
    BY <2>1, <2>2, FS_Subset
  <2> QED
    BY <2>3, FS_CardinalityType
<1>2. CASE d = r
  <2>1. Found!Chain(d, r) = {r}
    <3>1. ASSUME NEW c \in Found!Chain(d, r) PROVE c = r
      <4>1. c \in Found!Dir /\ c <= r /\ r <= c
        BY <1>0, <1>2, <3>1, AncestorsLower DEF Found!Chain, Found!Below, Found!Ancestors
      <4> QED
        BY <1>0, <4>1 DEF Found!Dir
    <3>2. r \in Found!Chain(d, r)
      BY <1>0, <1>2, AncestorsLower DEF Found!Chain, Found!Below
    <3> QED
      BY <3>1, <3>2
  <2> QED
    BY <1>1, <1>2, <2>1, FS_Singleton
<1>3. CASE d # r
  <2>1. parent[d] \in Found!Dir /\ r \in Found!Ancestors(parent[d])
    BY <1>3, AncestorsUp
  <2>2. d \notin Found!Chain(parent[d], r)
    <3>1. ASSUME d \in Found!Ancestors(parent[d]) PROVE FALSE
      <4>1. d <= parent[d] /\ parent[d] < d
        BY <2>1, <3>1, AncestorsLower DEF Treed
      <4> QED
        BY <2>1, <4>1 DEF Found!Dir
    <3> QED
      BY <3>1 DEF Found!Chain
  <2>3. Found!Chain(d, r) = Found!Chain(parent[d], r) \cup {d}
    BY <2>1, AncestorsLower, AncestorsUp DEF Found!Chain, Found!Below
  <2>4. Cardinality(Found!Chain(d, r)) = Cardinality(Found!Chain(parent[d], r)) + 1
    BY <1>1, <2>1, <2>2, <2>3, FS_AddElement
  <2> QED
    BY <1>1, <1>3, <2>1, <2>4
<1> QED
  BY <1>2, <1>3

\* A path is a sequence of what it names, and not too long.
LEMMA PathsAre ==
  ASSUME Walkable, NEW p
  PROVE  p \in Found!Path <=> p \in Seq(Found!Node) /\ Len(p) \in 1 .. Depth + 2
<1>1. ASSUME p \in Found!Path PROVE p \in Seq(Found!Node) /\ Len(p) \in 1 .. Depth + 2
  <2>1. PICK k \in 1 .. Depth + 2 : p \in [1..k -> Found!Node]
    BY <1>1, Zenon DEF Found!Path
  <2>2. k \in Nat
    BY DEF Walkable
  <2>3. p \in Seq(Found!Node) /\ Len(p) = k
    BY <2>1, <2>2
  <2> QED
    BY <2>3
<1>2. ASSUME p \in Seq(Found!Node), Len(p) \in 1 .. Depth + 2 PROVE p \in Found!Path
  <2>1. p \in [1 .. Len(p) -> Found!Node]
    BY <1>2
  <2> QED
    BY <1>2, <2>1, Zenon DEF Found!Path
<1> QED
  BY <1>1, <1>2

\* What is on top of a stack, and what is below.
LEMMA StackTop ==
  ASSUME NEW P, NEW s \in Seq(P), s # <<>>
  PROVE  /\ Found!Last(s) \in P /\ Found!Front(s) \in Seq(P)
         /\ Range(s) = Range(Found!Front(s)) \cup {Found!Last(s)}
<1>1. Len(s) \in Nat \ {0} /\ s \in [1 .. Len(s) -> P]
  OBVIOUS
<1> DEFINE f == Found!Front(s)
<1>2. Found!Last(s) = s[Len(s)]
  BY DEF Found!Last
<1>3. f \in Seq(P) /\ Len(f) = Len(s) - 1 /\ \A j \in 1 .. Len(s) - 1 : f[j] = s[j]
  BY <1>1 DEF Found!Front
<1> HIDE DEF f
<1>4. DOMAIN f = 1 .. Len(s) - 1 /\ DOMAIN s = 1 .. Len(s)
  BY <1>1, <1>3
<1>5. ASSUME NEW x \in Range(s) PROVE x \in Range(f) \cup {s[Len(s)]}
  <2>1. PICK j \in 1 .. Len(s) : x = s[j]
    BY <1>4, <1>5 DEF Range
  <2> QED
    BY <1>1, <1>3, <1>4, <2>1 DEF Range
<1>6. ASSUME NEW x \in Range(f) PROVE x \in Range(s)
  <2>1. PICK j \in 1 .. Len(s) - 1 : x = f[j]
    BY <1>4, <1>6 DEF Range
  <2> QED
    BY <1>1, <1>3, <1>4, <2>1 DEF Range
<1>7. s[Len(s)] \in Range(s) /\ s[Len(s)] \in P
  BY <1>1, <1>4 DEF Range
<1>8. Range(s) = Range(f) \cup {s[Len(s)]}
  BY <1>5, <1>6, <1>7
<1> QED
  BY <1>2, <1>3, <1>7, <1>8 DEF f

LEMMA StackGrows ==
  ASSUME NEW P, NEW s \in Seq(P), NEW t \in Seq(P)
  PROVE  s \o t \in Seq(P) /\ Range(s \o t) = Range(s) \cup Range(t)
<1> DEFINE f == s \o t
<1>1. /\ Len(s) \in Nat /\ Len(t) \in Nat /\ f \in Seq(P) /\ Len(f) = Len(s) + Len(t)
      /\ \A j \in 1 .. Len(s) : f[j] = s[j]
      /\ \A j \in 1 .. Len(t) : f[Len(s) + j] = t[j]
  OBVIOUS
<1> HIDE DEF f
<1>2. DOMAIN f = 1 .. Len(s) + Len(t) /\ DOMAIN s = 1 .. Len(s) /\ DOMAIN t = 1 .. Len(t)
  BY <1>1
<1>3. ASSUME NEW x \in Range(f) PROVE x \in Range(s) \cup Range(t)
  <2>1. PICK j \in 1 .. Len(s) + Len(t) : x = f[j]
    BY <1>2, <1>3 DEF Range
  <2>2. CASE j <= Len(s)
    BY <1>1, <1>2, <2>1, <2>2 DEF Range
  <2>3. CASE j > Len(s)
    <3>1. j - Len(s) \in 1 .. Len(t) /\ Len(s) + (j - Len(s)) = j
      BY <1>1, <2>1, <2>3
    <3>2. x = t[j - Len(s)]
      BY <1>1, <2>1, <3>1
    <3> QED
      BY <1>2, <3>1, <3>2 DEF Range
  <2> QED
    BY <1>1, <2>1, <2>2, <2>3
<1>4. ASSUME NEW x \in Range(s) PROVE x \in Range(f)
  <2>1. PICK j \in 1 .. Len(s) : x = s[j]
    BY <1>2, <1>4 DEF Range
  <2>2. j \in 1 .. Len(s) + Len(t) /\ x = f[j]
    BY <1>1, <2>1
  <2> QED
    BY <1>2, <2>2 DEF Range
<1>5. ASSUME NEW x \in Range(t) PROVE x \in Range(f)
  <2>1. PICK j \in 1 .. Len(t) : x = t[j]
    BY <1>2, <1>5 DEF Range
  <2>2. Len(s) + j \in 1 .. Len(s) + Len(t) /\ x = f[Len(s) + j]
    BY <1>1, <2>1
  <2> QED
    BY <1>2, <2>2 DEF Range
<1>6. Range(f) = Range(s) \cup Range(t)
  BY <1>3, <1>4, <1>5
<1> QED
  BY <1>1, <1>6 DEF f

\* In whatever order the elements of a set come, they all come.
LEMMA OrdersAll ==
  ASSUME NEW S, IsFiniteSet(S), NEW o \in Found!SetToSeqs(S)
  PROVE  o \in Seq(S) /\ Range(o) = S
<1> DEFINE n == Found!Cardinality(S)
<1>1. n = Cardinality(S) /\ n \in Nat
  BY FS_CardinalityType DEF Found!Cardinality, Cardinality, Found!IsFiniteSet, IsFiniteSet
<1>2. o \in [1..n -> S] /\ \A i, j \in 1..n : i # j => o[i] # o[j]
  BY DEF Found!SetToSeqs
<1> HIDE DEF n
<1>3. o \in Injection(1..n, S)
  BY <1>2 DEF Injection, IsInjective
<1>4. Cardinality(1..n) = Cardinality(S)
  BY <1>1, FS_Interval
<1>5. o \in Surjection(1..n, S)
  BY <1>3, <1>4, FS_Injection
<1>6. \A x \in S : \E i \in 1..n : o[i] = x
  BY <1>5 DEF Surjection
<1>7. o \in Seq(S) /\ DOMAIN o = 1..n
  BY <1>1, <1>2
<1> QED
  BY <1>2, <1>6, <1>7 DEF Range

\* The directories that are roots.
RootDirs == {Found!Real(roots[i]) : i \in DOMAIN roots} \ {Found!Outside}

\* A directory that has been visited, or will be; and one that is listed.
Due(d) == d \in seen \/ \E p \in Range(pending) : Found!Leaf(p) = d
Has(d) == \E e \in out : Found!Leaf(e.path) = d

\* A path is as long as its directory is deep below a root.
Reached(p) ==
    Found!Leaf(p) # Found!Outside =>
        \E r \in RootDirs : /\ r \in Found!Ancestors(Found!Leaf(p))
                            /\ Len(p) = Cardinality(Found!Chain(Found!Leaf(p), r))

\* The walk from a root looks into a directory.
Opens(c, r) ==
    /\ r \in Found!Ancestors(c) /\ ~Found!Chromium(c)
    /\ Cardinality(Found!Chain(c, r)) <= Depth

WalkedWindows ==
    /\ \A p \in Range(pending) : Reached(p)
    /\ pc # "known" => \A r \in RootDirs : Due(r)
    /\ \A c \in seen : Found!Chromium(c) => Has(c)
    /\ ~Found!Nested =>
         \A c \in seen, r \in RootDirs : Opens(c, r) => \A d \in Found!Children(c) : Due(d)
    /\ \A e \in out : \E d \in Found!Dir : e.path = <<d>>

\* A path names an entry by the first root that is the directory it is in.
Placed(p) ==
    \E i \in DOMAIN roots, n \in Found!Node :
        /\ p = <<roots[i], n>> /\ Found!Real(roots[i]) # Found!Outside
        /\ Found!Holder(n) = Found!Real(roots[i])
        /\ \A j \in 1 .. i - 1 : Found!Real(roots[j]) # Found!Real(roots[i])

\* The first roots are done.
Through(k) ==
    /\ Len(pending) = Len(roots) - k
    /\ \A j \in 1 .. Len(pending) : pending[j] = <<roots[k + j]>>
    /\ seen = {Found!Real(roots[i]) : i \in 1..k} \ {Found!Outside}

WalkedUnix ==
    /\ pc # "known" => \E k \in 0 .. Len(roots) : Through(k)
    /\ \A c \in seen, d \in Found!Dir : parent[d] = c /\ Found!Chromium(d) => Has(d)
    /\ os = "linux" => \A e \in out : e.kind = "custom" \/ Placed(e.path)

FoundInv ==
    /\ Found!TypeOK /\ Treed
    /\ pc = "known" => pending = <<>> /\ seen = {} /\ out = {}
    /\ pc \in {"custom", "done"} => pending = <<>>
    /\ \A e, f \in out : e.path = f.path => e = f
    /\ os = "windows" => WalkedWindows
    /\ os # "windows" => WalkedUnix

\* What the walk does not change stays as it is.
LEMMA FoundSame ==
  ASSUME UNCHANGED Found!world
  PROVE  /\ os' = os /\ parent' = parent /\ layout' = layout /\ where' = where
         /\ target' = target /\ roots' = roots
         /\ Treed' <=> Treed
         /\ RootDirs' = RootDirs
         /\ Found!Nested' <=> Found!Nested
         /\ \A p : Found!Leaf(p)' = Found!Leaf(p) /\ (Reached(p)' <=> Reached(p))
                   /\ (Placed(p)' <=> Placed(p))
         /\ \A c : (Found!Chromium(c)' <=> Found!Chromium(c)) /\ Found!Children(c)' = Found!Children(c)
         /\ \A c, r : Opens(c, r)' <=> Opens(c, r)
<1> USE DEF Found!world
<1>1. /\ os' = os /\ parent' = parent /\ layout' = layout /\ where' = where
      /\ target' = target /\ roots' = roots
  OBVIOUS
<1>2. Treed' <=> Treed
  BY <1>1, Zenon DEF Treed
<1>3. ASSUME NEW n PROVE Found!Real(n)' = Found!Real(n) /\ Found!Holder(n)' = Found!Holder(n)
  BY <1>1, Zenon DEF Found!Real, Found!Holder
<1>4. ASSUME NEW p PROVE Found!Leaf(p)' = Found!Leaf(p)
  BY <1>1, <1>3, Zenon DEF Found!Leaf, Found!Real
<1>5. ASSUME NEW c PROVE Found!Ancestors(c)' = Found!Ancestors(c)
  BY <1>1, Zenon DEF Found!Ancestors
<1>6. RootDirs' = RootDirs
  BY <1>1, <1>3, Zenon DEF RootDirs, Found!Real
<1>7. ASSUME NEW c, NEW r PROVE Found!Chain(c, r)' = Found!Chain(c, r)
  BY <1>1, <1>5, Zenon DEF Found!Chain, Found!Below, Found!Ancestors
<1>8. ASSUME NEW c
      PROVE  (Found!Chromium(c)' <=> Found!Chromium(c)) /\ Found!Children(c)' = Found!Children(c)
  BY <1>1, Zenon DEF Found!Chromium, Found!Children
<1>9. Found!Nested' <=> Found!Nested
  BY <1>1, SMT DEF Found!Nested, Found!Real, Found!Below, Found!Ancestors
<1>10. ASSUME NEW p PROVE Reached(p)' <=> Reached(p)
  BY <1>1, SMT DEF Reached, RootDirs, Found!Leaf, Found!Real, Found!Ancestors, Found!Chain,
     Found!Below
<1>11. ASSUME NEW p PROVE Placed(p)' <=> Placed(p)
  BY <1>1, SMT DEF Placed, Found!Real, Found!Holder
<1>12. ASSUME NEW c, NEW r PROVE Opens(c, r)' <=> Opens(c, r)
  BY <1>1, Zenon DEF Opens, Found!Ancestors, Found!Chain, Found!Below, Found!Chromium
<1> QED
  BY <1>1, <1>2, <1>4, <1>6, <1>8, <1>9, <1>10, <1>11, <1>12, Zenon

\* What is listed stays listed, under a path of its own.
LEMMA PushKeeps ==
  ASSUME Found!TypeOK, \A e, f \in out : e.path = f.path => e = f,
         NEW E \in SUBSET [path : Found!Path, kind : {"known", "detected", "custom"}],
         \A e, f \in E : e.path = f.path => e = f,
         Found!Push(E)
  PROVE  /\ out' \in SUBSET [path : Found!Path, kind : {"known", "detected", "custom"}]
         /\ \A e, f \in out' : e.path = f.path => e = f
         /\ out \subseteq out' /\ out' \subseteq out \cup E
         /\ \A e \in E : \E f \in out' : f.path = e.path
BY Zenon DEF Found!Push, Found!Listed, Found!TypeOK

LEMMA InstallationIn ==
  ASSUME Found!TypeOK, NEW d \in {Found!Outside} \cup Found!Dir
  PROVE  Found!Installation(d) \subseteq Found!Dir
BY DEF Found!Installation, Found!Children

LEMMA RealIn ==
  ASSUME Walkable, Found!TypeOK
  PROVE  /\ \A n \in Found!Node : Found!Real(n) \in {Found!Outside} \cup Found!Dir
         /\ \A d \in Found!Dir : Found!Real(d) = d /\ d \in Found!Node /\ d # Found!Outside
                                 /\ Found!Holder(d) = parent[d] /\ d # Found!Alias
         /\ \A p \in Found!Path : Found!Leaf(p) \in {Found!Outside} \cup Found!Dir
         /\ \A i \in DOMAIN roots : roots[i] \in Found!Node
<1>1. ASSUME NEW d \in Found!Dir
      PROVE  Found!Real(d) = d /\ d \in Found!Node /\ d # Found!Outside
             /\ Found!Holder(d) = parent[d] /\ d # Found!Alias
  BY DEF Walkable, Found!Real, Found!Node, Found!Dir, Found!Alias, Found!Outside, Found!Holder
<1>2. ASSUME NEW n \in Found!Node PROVE Found!Real(n) \in {Found!Outside} \cup Found!Dir
  BY <1>1 DEF Found!TypeOK, Found!Real, Found!Node
<1>3. ASSUME NEW p \in Found!Path PROVE Found!Leaf(p) \in {Found!Outside} \cup Found!Dir
  <2>1. p \in Seq(Found!Node) /\ Len(p) \in 1 .. Depth + 2 /\ Depth \in Nat
    BY PathsAre DEF Walkable
  <2>2. p[Len(p)] \in Found!Node
    BY <2>1
  <2> QED
    BY <1>2, <2>2 DEF Found!Leaf, Found!Last
<1>4. \A i \in DOMAIN roots : roots[i] \in Found!Node
  BY DEF Found!TypeOK
<1> QED
  BY <1>1, <1>2, <1>3, <1>4

LEMMA FoundInit ==
  ASSUME Walkable, Found!Init PROVE FoundInv
<1> USE DEF Found!Init
<1>1. /\ pc = "known" /\ pending = <<>> /\ seen = {} /\ out = {}
      /\ os \in {"linux", "macos", "windows"}
      /\ parent \in [Found!Dir -> {Found!Outside} \cup Found!Dir]
      /\ layout \in [Found!Dir -> {"none", "partial", "whole"}]
      /\ target \in {Found!Outside} \cup Found!Dir
  OBVIOUS
<1>2. Treed
  BY DEF Treed
<1>3. roots \in Seq(Found!Node)
  <2>1. 1 \in Found!Node /\ 2 \in Found!Node /\ Found!Alias \in Found!Node
    BY DEF Walkable, Found!Node, Found!Dir, Found!Alias
  <2>2. roots \in {<<1>>, <<1, 2>>, <<2, 1>>, <<Found!Alias>>, <<1, Found!Alias>>,
                   <<Found!Alias, 1>>}
    OBVIOUS
  <2>3. \A a, b \in Found!Node : <<a>> \in Seq(Found!Node) /\ <<a, b>> \in Seq(Found!Node)
    OBVIOUS
  <2> HIDE DEF Found!Init
  <2> QED
    BY <2>1, <2>2, <2>3, Zenon
<1>4. where \in {Found!Outside} \cup Found!Dir
  BY DEF Walkable, Found!Dir
<1>5. Found!TypeOK
  BY <1>1, <1>3, <1>4 DEF Found!TypeOK
<1>6. Range(pending) = {}
  BY <1>1 DEF Range
<1> QED
  BY <1>1, <1>2, <1>5, <1>6 DEF FoundInv, WalkedWindows, WalkedUnix

LEMMA ShortPaths ==
  ASSUME Walkable
  PROVE  \A a, b \in Found!Node : <<a>> \in Found!Path /\ <<a, b>> \in Found!Path
<1>1. ASSUME NEW a \in Found!Node, NEW b \in Found!Node
      PROVE  <<a>> \in Found!Path /\ <<a, b>> \in Found!Path
  <2>1. /\ <<a>> \in Seq(Found!Node) /\ Len(<<a>>) = 1 /\ <<a, b>> \in Seq(Found!Node)
        /\ Len(<<a, b>>) = 2 /\ 1 \in 1 .. Depth + 2 /\ 2 \in 1 .. Depth + 2
    BY DEF Walkable
  <2> QED
    BY <2>1, PathsAre
<1> QED
  BY <1>1

\* The known browsers, each under the first root that has it, on Windows under its own name.
LEMMA KnownAre ==
  ASSUME Walkable, FoundInv, NEW e \in UNION {Found!KnownEntries(k) : k \in Famous}
  PROVE  /\ e = Found!Entry(e.path, "known") /\ e.path \in Found!Path
         /\ os = "windows" => \E d \in Found!Dir : e.path = <<d>>
         /\ os # "windows" => Placed(e.path)
<1>0. Found!TypeOK
  BY DEF FoundInv
<1>1. PICK k \in Famous : e \in Found!KnownEntries(k)
  OBVIOUS
<1>2. k \in Found!Dir /\ k \in Found!Node
  BY DEF Walkable, Found!Dir, Found!Node
<1>3. CASE os = "windows"
  <2>1. PICK i \in Found!Places(k) : e \in Found!Installations(<<roots[i], k>>)
    BY <1>1, <1>3, Zenon DEF Found!KnownEntries
  <2>2. PICK d \in Found!Installation(Found!Leaf(<<roots[i], k>>)) : e = Found!Entry(<<d>>, "known")
    BY <2>1, Zenon DEF Found!Installations
  <2>3. <<roots[i], k>> \in Found!Path
    BY <1>0, <1>2, <2>1, RealIn, ShortPaths DEF Found!Places
  <2>4. d \in Found!Dir
    BY <1>0, <2>2, <2>3, RealIn, InstallationIn
  <2>5. <<d>> \in Found!Path
    BY <1>0, <2>4, RealIn, ShortPaths
  <2> QED
    BY <1>3, <2>2, <2>4, <2>5 DEF Found!Entry
<1>4. CASE os # "windows"
  <2>1. PICK i \in Found!Places(k) : /\ \A j \in Found!Places(k) : i <= j
                                     /\ e = Found!Entry(<<roots[i], k>>, "known")
    BY <1>1, <1>4, SMT DEF Found!KnownEntries
  <2>2. i \in DOMAIN roots /\ Found!Exists(roots[i], k)
    BY <2>1 DEF Found!Places
  <2>3. <<roots[i], k>> \in Found!Path
    BY <1>0, <1>2, <2>2, RealIn, ShortPaths
  <2>4. DOMAIN roots = 1 .. Len(roots) /\ Len(roots) \in Nat
    BY <1>0 DEF Found!TypeOK
  <2>5. ASSUME NEW j \in 1 .. i - 1, Found!Real(roots[j]) = Found!Real(roots[i]) PROVE FALSE
    <3>1. j \in DOMAIN roots
      BY <2>2, <2>4
    <3>2. j \in Found!Places(k)
      BY <2>2, <2>5, <3>1 DEF Found!Exists, Found!Places
    <3> QED
      BY <2>1, <2>2, <2>4, <3>2
  <2>6. Placed(<<roots[i], k>>)
    BY <1>2, <2>2, <2>5 DEF Placed, Found!Exists
  <2> QED
    BY <1>4, <2>1, <2>3, <2>6 DEF Found!Entry
<1> QED
  BY <1>3, <1>4

LEMMA FindKnownKeeps ==
  ASSUME Walkable, FoundInv, Found!FindKnown PROVE FoundInv'
<1> DEFINE E == UNION {Found!KnownEntries(k) : k \in Famous}
           F == [path : Found!Path, kind : {"known", "detected", "custom"}]
<1>0. /\ Found!TypeOK /\ Treed /\ pc = "known" /\ pc' = "walk"
      /\ pending = <<>> /\ seen = {} /\ out = {}
      /\ pending' = [i \in DOMAIN roots |-> <<roots[i]>>] /\ seen' = {}
      /\ UNCHANGED Found!world /\ Found!Push(E)
      /\ \A e, f \in out : e.path = f.path => e = f
  BY DEF FoundInv, Found!FindKnown
<1>1. \A e \in E : /\ e = Found!Entry(e.path, "known") /\ e.path \in Found!Path
                   /\ os = "windows" => \E d \in Found!Dir : e.path = <<d>>
                   /\ os # "windows" => Placed(e.path)
  BY KnownAre
<1>2. E \in SUBSET F /\ \A e, f \in E : e.path = f.path => e = f
  <2>1. ASSUME NEW e \in E PROVE e \in F
    <3>1. e = [path |-> e.path, kind |-> "known"] /\ e.path \in Found!Path
      BY <1>1 DEF Found!Entry
    <3> HIDE DEF E
    <3> QED
      BY <3>1
  <2> HIDE DEF E, F
  <2> QED
    BY <1>1, <2>1
<1> HIDE DEF E
<1>3. out' \in SUBSET F /\ (\A e, f \in out' : e.path = f.path => e = f) /\ out' \subseteq E
  BY <1>0, <1>2, PushKeeps
<1>4. /\ os' = os /\ parent' = parent /\ layout' = layout /\ where' = where
      /\ target' = target /\ roots' = roots /\ Treed'
      /\ RootDirs' = RootDirs
      /\ \A p : Found!Leaf(p)' = Found!Leaf(p) /\ (Reached(p)' <=> Reached(p))
                /\ (Placed(p)' <=> Placed(p))
  BY <1>0, FoundSame
<1>5. /\ DOMAIN roots = 1 .. Len(roots) /\ Len(roots) \in Nat
      /\ pending' \in Seq(Found!Path) /\ Len(pending') = Len(roots)
      /\ Range(pending') = {<<roots[i]>> : i \in DOMAIN roots}
      /\ \A i \in DOMAIN roots : Found!Leaf(<<roots[i]>>) = Found!Real(roots[i])
  <2>1. \A i \in DOMAIN roots : <<roots[i]>> \in Found!Path
    BY <1>0, RealIn, ShortPaths
  <2>2. DOMAIN roots = 1 .. Len(roots) /\ Len(roots) \in Nat
    BY <1>0 DEF Found!TypeOK
  <2>3. \A i \in DOMAIN roots : Found!Leaf(<<roots[i]>>) = Found!Real(roots[i])
    BY DEF Found!Leaf, Found!Last
  <2>4. Range(pending') = {<<roots[i]>> : i \in DOMAIN roots}
    BY <1>0 DEF Range
  <2>5. pending' \in Seq(Found!Path) /\ Len(pending') = Len(roots)
    BY <1>0, <2>1, <2>2
  <2> QED
    BY <2>2, <2>3, <2>4, <2>5
<1>6. Found!TypeOK'
  BY <1>0, <1>3, <1>4, <1>5 DEF Found!TypeOK, Found!Dir, Found!Outside, Found!Node, Found!Alias
<1>7. ASSUME os = "windows" PROVE WalkedWindows'
  <2>1. ASSUME NEW i \in DOMAIN roots PROVE Reached(<<roots[i]>>)
    <3>0. SUFFICES ASSUME Found!Real(roots[i]) # Found!Outside PROVE Reached(<<roots[i]>>)
      BY <1>5 DEF Reached
    <3>1. Found!Real(roots[i]) \in Found!Dir /\ Found!Real(roots[i]) \in RootDirs
      BY <1>0, <3>0, RealIn DEF RootDirs
    <3>2. Found!Real(roots[i]) \in Found!Ancestors(Found!Real(roots[i]))
      BY <1>0, <3>1, AncestorsLower
    <3>3. Cardinality(Found!Chain(Found!Real(roots[i]), Found!Real(roots[i]))) = 1
      BY <1>0, <3>1, <3>2, ChainGrows
    <3>4. Len(<<roots[i]>>) = 1
      OBVIOUS
    <3> QED
      BY <1>5, <3>1, <3>2, <3>3, <3>4 DEF Reached
  <2>2. \A p \in Range(pending') : Reached(p)'
    BY <1>4, <1>5, <2>1
  <2>3. \A r \in RootDirs' : Due(r)'
    <3>1. ASSUME NEW r \in RootDirs PROVE Due(r)'
      <4>1. PICK i \in DOMAIN roots : r = Found!Real(roots[i])
        BY DEF RootDirs
      <4>2. PICK p \in Range(pending') : Found!Leaf(p) = r
        BY <1>5, <4>1
      <4> QED
        BY <1>4, <4>2, Zenon DEF Due
    <3> QED
      BY <1>4, <3>1
  <2>4. \A e \in out' : \E d \in Found!Dir : e.path = <<d>>
    BY <1>1, <1>3, <1>7
  <2> QED
    BY <1>0, <2>2, <2>3, <2>4 DEF WalkedWindows, Found!Dir
<1>8. ASSUME os # "windows" PROVE WalkedUnix'
  <2>1. Through(0)'
    <3>1. Len(pending') = Len(roots') - 0
      BY <1>4, <1>5
    <3>2. \A j \in 1 .. Len(pending') : pending'[j] = <<roots'[0 + j]>>
      BY <1>0, <1>4, <1>5
    <3>3. seen' = {Found!Real(roots[i])' : i \in 1..0} \ {Found!Outside}
      BY <1>0
    <3> QED
      BY <3>1, <3>2, <3>3 DEF Through, Found!Outside
  <2>2. \A e \in out' : Placed(e.path)'
    BY <1>1, <1>3, <1>4, <1>8
  <2>3. 0 \in 0 .. Len(roots')
    BY <1>4, <1>5
  <2> QED
    BY <1>0, <2>1, <2>2, <2>3 DEF WalkedUnix
<1> QED
  BY <1>0, <1>3, <1>4, <1>6, <1>7, <1>8 DEF FoundInv

\* After the walk only the list grows, by what is configured.
LEMMA ListGrows ==
  ASSUME Walkable, FoundInv, UNCHANGED Found!world, pending' = pending, seen' = seen,
         out' \in SUBSET [path : Found!Path, kind : {"known", "detected", "custom"}],
         \A e, f \in out' : e.path = f.path => e = f,
         out \subseteq out',
         \/ pc' = pc /\ out' = out
         \/ pc # "known" /\ pc' \in {"custom", "done"} /\ pending = <<>>,
         \A e \in out' : e \notin out =>
             IF os = "windows" THEN \E d \in Found!Dir : e.path = <<d>> ELSE e.kind = "custom"
  PROVE  FoundInv'
<1>1. /\ os' = os /\ parent' = parent /\ layout' = layout /\ where' = where
      /\ target' = target /\ roots' = roots /\ (Treed' <=> Treed)
      /\ RootDirs' = RootDirs /\ (Found!Nested' <=> Found!Nested)
      /\ \A p : Found!Leaf(p)' = Found!Leaf(p) /\ (Reached(p)' <=> Reached(p))
                /\ (Placed(p)' <=> Placed(p))
      /\ \A c : (Found!Chromium(c)' <=> Found!Chromium(c)) /\ Found!Children(c)' = Found!Children(c)
      /\ \A c, r : Opens(c, r)' <=> Opens(c, r)
  BY FoundSame
<1>2. Found!TypeOK' /\ Treed'
  BY <1>1 DEF FoundInv, Found!TypeOK, Found!Dir, Found!Outside, Found!Node, Found!Alias
<1>3. \A d : (Due(d)' <=> Due(d)) /\ (Has(d) => Has(d)')
  BY <1>1, Zenon DEF Due, Has
<1>4. ASSUME os = "windows" PROVE WalkedWindows'
  <2>1. \A p \in Range(pending') : Reached(p)'
    BY <1>1, <1>4, Zenon DEF FoundInv, WalkedWindows
  <2>2. pc' # "known" => \A r \in RootDirs' : Due(r)'
    BY <1>1, <1>3, <1>4 DEF FoundInv, WalkedWindows
  <2>3. \A c \in seen' : Found!Chromium(c)' => Has(c)'
    BY <1>1, <1>3, <1>4, Zenon DEF FoundInv, WalkedWindows
  <2>4. ASSUME ~Found!Nested', NEW c \in seen', NEW r \in RootDirs', Opens(c, r)',
               NEW d \in Found!Children(c)'
        PROVE  Due(d)'
    <3>1. d \in Found!Children(c) /\ ~Found!Nested /\ r \in RootDirs /\ Opens(c, r)
      BY <1>1, <2>4
    <3> QED
      BY <1>3, <1>4, <3>1, Zenon DEF FoundInv, WalkedWindows
  <2>5. \A e \in out' : \E d \in Found!Dir : e.path = <<d>>
    BY <1>4 DEF FoundInv, WalkedWindows
  <2> QED
    BY <2>1, <2>2, <2>3, <2>4, <2>5, Zenon DEF WalkedWindows, Found!Dir
<1>5. ASSUME os # "windows" PROVE WalkedUnix'
  <2>1. \A k : Through(k)' <=> Through(k)
    BY <1>1, SMT DEF Through, Found!Real, Found!Outside, Found!Alias
  <2>2. pc' # "known" => \E k \in 0 .. Len(roots') : Through(k)'
    BY <1>1, <1>5, <2>1 DEF FoundInv, WalkedUnix
  <2>3. \A c \in seen', d \in Found!Dir : parent'[d] = c /\ Found!Chromium(d)' => Has(d)'
    BY <1>1, <1>3, <1>5, Zenon DEF FoundInv, WalkedUnix
  <2>4. os' = "linux" => \A e \in out' : e.kind = "custom" \/ Placed(e.path)'
    <3>1. ASSUME os = "linux", NEW e \in out' PROVE e.kind = "custom" \/ Placed(e.path)
      BY <1>5, <3>1 DEF FoundInv, WalkedUnix
    <3> QED
      BY <1>1, <3>1
  <2> QED
    BY <2>2, <2>3, <2>4, Zenon DEF WalkedUnix, Found!Dir
<1>6. /\ pc' = "known" => pending' = <<>> /\ seen' = {} /\ out' = {}
      /\ pc' \in {"custom", "done"} => pending' = <<>>
  BY DEF FoundInv
<1> QED
  BY <1>1, <1>2, <1>4, <1>5, <1>6, Zenon DEF FoundInv

LEMMA FoundRestKeeps ==
  ASSUME Walkable, FoundInv,
         Found!WalkEnds \/ Found!Custom \/ Found!NoCustom \/ UNCHANGED Found!vars
  PROVE  FoundInv'
<1> DEFINE F == [path : Found!Path, kind : {"known", "detected", "custom"}]
<1>0. Found!TypeOK /\ \A e, f \in out : e.path = f.path => e = f
  BY DEF FoundInv
<1>1. CASE Found!WalkEnds \/ Found!NoCustom \/ UNCHANGED Found!vars
  <2>1. /\ UNCHANGED Found!world /\ pending' = pending /\ seen' = seen /\ out' = out
        /\ pc' = pc \/ (pc # "known" /\ pc' \in {"custom", "done"} /\ pending = <<>>)
    BY <1>1 DEF Found!WalkEnds, Found!NoCustom, Found!vars, FoundInv
  <2>2. out \in SUBSET F
    BY <1>0 DEF Found!TypeOK
  <2> HIDE DEF F
  <2> QED
    BY <1>0, <2>1, <2>2, ListGrows DEF F
<1>2. CASE Found!Custom
  <2>1. PICK n \in Found!Node :
           Found!Push(IF os # "windows" THEN {Found!Entry(<<n>>, "custom")}
                      ELSE {Found!Entry(<<d>>, "custom") : d \in Found!Installation(Found!Real(n))})
    BY <1>2 DEF Found!Custom
  <2> DEFINE E == IF os # "windows" THEN {Found!Entry(<<n>>, "custom")}
                  ELSE {Found!Entry(<<d>>, "custom") : d \in Found!Installation(Found!Real(n))}
  <2>2. ASSUME NEW e \in E
        PROVE  /\ e \in F /\ e = Found!Entry(e.path, "custom")
               /\ os = "windows" => \E d \in Found!Dir : e.path = <<d>>
    <3>1. CASE os # "windows"
      <4>1. e = Found!Entry(<<n>>, "custom") /\ <<n>> \in Found!Path
        BY <2>2, <3>1, ShortPaths
      <4> QED
        BY <3>1, <4>1 DEF Found!Entry
    <3>2. CASE os = "windows"
      <4>1. PICK d \in Found!Installation(Found!Real(n)) : e = Found!Entry(<<d>>, "custom")
        BY <2>2, <3>2
      <4>2. d \in Found!Dir
        BY <1>0, InstallationIn, RealIn
      <4>3. <<d>> \in Found!Path
        BY <1>0, <4>2, ShortPaths, RealIn
      <4> QED
        BY <4>1, <4>2, <4>3 DEF Found!Entry
    <3> QED
      BY <3>1, <3>2
  <2>3. Found!Push(E)
    BY <2>1
  <2> HIDE DEF E, F
  <2>4. E \in SUBSET F /\ \A e, f \in E : e.path = f.path => e = f
    BY <2>2
  <2>5. /\ out' \in SUBSET F /\ (\A e, f \in out' : e.path = f.path => e = f)
        /\ out \subseteq out' /\ out' \subseteq out \cup E
    BY <1>0, <2>3, <2>4, PushKeeps DEF F
  <2>6. ASSUME NEW e \in out', e \notin out
        PROVE  IF os = "windows" THEN \E d \in Found!Dir : e.path = <<d>> ELSE e.kind = "custom"
    <3>1. e \in E
      BY <2>5, <2>6
    <3> QED
      BY <2>2, <3>1 DEF Found!Entry
  <2>7. /\ UNCHANGED Found!world /\ pending' = pending /\ seen' = seen
        /\ pc # "known" /\ pc' \in {"custom", "done"} /\ pending = <<>>
    BY <1>2 DEF Found!Custom, FoundInv
  <2> QED
    BY <2>5, <2>6, <2>7, ListGrows DEF F
<1> QED
  BY <1>1, <1>2

LEMMA QueueShrinks ==
  ASSUME NEW P, NEW s \in Seq(P), s # <<>>
  PROVE  /\ Tail(s) \in Seq(P) /\ Len(Tail(s)) = Len(s) - 1 /\ Len(s) \in Nat \ {0}
         /\ \A j \in 1 .. Len(s) - 1 : Tail(s)[j] = s[j + 1]
OBVIOUS

\* The walk of one root lists what is in it, unless it has been walked under another name.
LEMMA WalkUnixKeeps ==
  ASSUME Walkable, FoundInv, Found!WalkUnix PROVE FoundInv'
<1> DEFINE F == [path : Found!Path, kind : {"known", "detected", "custom"}]
           rt == Head(pending)[1]
           E == {Found!Entry(<<rt, n>>, "detected") :
                   n \in {n \in Found!Entries(Found!Real(rt)) :
                            Found!Real(n) # Found!Outside /\ Found!Chromium(Found!Real(n))}}
           Again == Found!Real(rt) = Found!Outside \/ (os = "linux" /\ Found!Real(rt) \in seen)
<1>0. /\ Found!TypeOK /\ Treed /\ os # "windows" /\ pc = "walk" /\ pc' = "walk" /\ pending # <<>>
      /\ pending' = Tail(pending) /\ seen' = seen \cup ({Found!Real(rt)} \ {Found!Outside})
      /\ UNCHANGED Found!world /\ (\A e, f \in out : e.path = f.path => e = f)
      /\ IF Again THEN out' = out ELSE Found!Push(E)
  BY DEF FoundInv, Found!WalkUnix
<1>1. /\ os' = os /\ parent' = parent /\ layout' = layout /\ where' = where
      /\ target' = target /\ roots' = roots /\ (Treed' <=> Treed)
      /\ \A p : Found!Leaf(p)' = Found!Leaf(p) /\ (Placed(p)' <=> Placed(p))
      /\ \A c : Found!Chromium(c)' <=> Found!Chromium(c)
  BY <1>0, FoundSame
<1>2. PICK k \in 0 .. Len(roots) : Through(k)
  BY <1>0 DEF FoundInv, WalkedUnix
<1>3. /\ Len(roots) \in Nat /\ DOMAIN roots = 1 .. Len(roots) /\ k + 1 \in DOMAIN roots
      /\ pending \in Seq(Found!Path) /\ Len(pending) = Len(roots) - k
      /\ Head(pending) = <<roots[k + 1]>> /\ rt = roots[k + 1]
  <2>1. Len(roots) \in Nat /\ DOMAIN roots = 1 .. Len(roots) /\ pending \in Seq(Found!Path)
    BY <1>0 DEF Found!TypeOK
  <2>2. Len(pending) \in Nat \ {0} /\ Head(pending) = pending[1]
    BY <1>0, <2>1
  <2>3. pending[1] = <<roots[k + 1]>> /\ Len(pending) = Len(roots) - k
    BY <1>2, <2>2 DEF Through
  <2> QED
    BY <2>1, <2>2, <2>3
<1>4. rt \in Found!Node /\ Found!Real(rt) \in {Found!Outside} \cup Found!Dir
  BY <1>0, <1>3, RealIn
<1>5. seen' = {Found!Real(roots[i]) : i \in 1 .. k + 1} \ {Found!Outside}
  <2>1. seen = {Found!Real(roots[i]) : i \in 1..k} \ {Found!Outside}
    BY <1>2 DEF Through
  <2>2. 1 .. k + 1 = 1..k \cup {k + 1}
    OBVIOUS
  <2> QED
    BY <1>0, <1>3, <2>1, <2>2
<1>6. Through(k + 1)'
  <2>1. /\ Tail(pending) \in Seq(Found!Path) /\ Len(Tail(pending)) = Len(pending) - 1
        /\ \A j \in 1 .. Len(pending) - 1 : Tail(pending)[j] = pending[j + 1]
    BY <1>0, <1>3, QueueShrinks
  <2>2. Len(pending') = Len(roots') - (k + 1)
    <3>1. pending' = Tail(pending) /\ roots' = roots
      BY <1>0, <1>1
    <3>2. Len(Tail(pending)) = Len(roots) - (k + 1)
      <4>1. Len(roots) \in Nat /\ k \in Nat
        BY <1>3
      <4>2. ASSUME NEW a \in Nat, NEW b \in Nat, NEW c, NEW t, c = a - b, t = c - 1
            PROVE  t = a - (b + 1)
        BY <4>2
      <4> QED
        BY <1>3, <2>1, <4>1, <4>2
    <3> QED
      BY <3>1, <3>2
  <2>3. \A j \in 1 .. Len(pending') : pending'[j] = <<roots'[(k + 1) + j]>>
    <3>1. ASSUME NEW j \in 1 .. Len(pending) - 1 PROVE Tail(pending)[j] = <<roots[(k + 1) + j]>>
      <4>1. j + 1 \in 1 .. Len(pending) /\ k + (j + 1) = (k + 1) + j
        BY <1>3
      <4> QED
        BY <1>2, <2>1, <4>1 DEF Through
    <3> QED
      BY <1>0, <1>1, <1>3, <2>1, <3>1
  <2>4. seen' = {Found!Real(roots[i])' : i \in 1 .. k + 1} \ {Found!Outside}
    BY <1>1, <1>5 DEF Found!Real, Found!Alias
  <2> QED
    BY <2>2, <2>3, <2>4 DEF Through, Found!Outside
<1>7. ASSUME NEW e \in E
      PROVE  /\ e \in F /\ e = Found!Entry(e.path, "detected")
             /\ ~Again /\ os = "linux" => Placed(e.path)
  <2>1. PICK n \in Found!Node : e = Found!Entry(<<rt, n>>, "detected")
                                /\ Found!Holder(n) = Found!Real(rt)
    BY <1>7 DEF Found!Entries
  <2>2. <<rt, n>> \in Found!Path
    BY <1>4, ShortPaths
  <2>3. ASSUME ~Again, os = "linux" PROVE Placed(<<rt, n>>)
    <3>1. ASSUME NEW j \in 1..k, Found!Real(roots[j]) = Found!Real(roots[k + 1]) PROVE FALSE
      <4>1. Found!Real(rt) \in seen
        BY <1>2, <1>3, <2>3, <3>1 DEF Through
      <4> QED
        BY <2>3, <4>1
    <3>2. 1 .. (k + 1) - 1 = 1..k
      OBVIOUS
    <3> QED
      BY <1>3, <2>1, <2>3, <3>1, <3>2 DEF Placed
  <2> HIDE DEF Again
  <2> QED
    BY <2>1, <2>2, <2>3 DEF Found!Entry
<1> HIDE DEF E, F, Again
<1>8. /\ out' \in SUBSET F /\ (\A e, f \in out' : e.path = f.path => e = f)
      /\ out \subseteq out'
      /\ out' \subseteq IF Again THEN out ELSE out \cup E
      /\ ~Again => \A e \in E : \E f \in out' : f.path = e.path
  <2>1. E \in SUBSET F /\ \A e, f \in E : e.path = f.path => e = f
    BY <1>7, Zenon
  <2>2. CASE Again
    BY <1>0, <2>2 DEF Found!TypeOK, F
  <2>3. CASE ~Again
    BY <1>0, <2>1, <2>3, PushKeeps DEF F
  <2> QED
    BY <2>2, <2>3
<1>9. Found!TypeOK'
  <2>1. seen' \subseteq Found!Dir
    BY <1>0, <1>4 DEF Found!TypeOK
  <2>2. pending' \in Seq(Found!Path)
    BY <1>0, <1>3
  <2> QED
    BY <1>0, <1>1, <1>8, <2>1, <2>2
    DEF F, Found!TypeOK, Found!Dir, Found!Outside, Found!Node, Found!Alias
<1>10. ASSUME NEW c \in seen', NEW d \in Found!Dir, parent[d] = c, Found!Chromium(d)
       PROVE  \E f \in out' : Found!Leaf(f.path) = d
  <2>1. CASE c \in seen
    <3>1. Has(d)
      BY <1>0, <1>10, <2>1 DEF FoundInv, WalkedUnix
    <3> QED
      BY <1>8, <3>1 DEF Has
  <2>2. CASE c \notin seen
    <3>1. c = Found!Real(rt) /\ c # Found!Outside /\ ~Again
      BY <1>0, <1>10, <2>2 DEF Again
    <3>2. d \in Found!Node /\ Found!Holder(d) = c /\ Found!Real(d) = d /\ d # Found!Outside
      BY <1>0, <1>10, RealIn
    <3>3. Found!Entry(<<rt, d>>, "detected") \in E
      BY <1>10, <3>1, <3>2 DEF E, Found!Entries
    <3>4. PICK f \in out' : f.path = <<rt, d>>
      BY <1>8, <3>1, <3>3 DEF Found!Entry
    <3>5. Found!Leaf(<<rt, d>>) = d
      BY <3>2 DEF Found!Leaf, Found!Last
    <3> QED
      BY <3>4, <3>5
  <2> QED
    BY <2>1, <2>2
<1>11. WalkedUnix'
  <2>1. \E j \in 0 .. Len(roots') : Through(j)'
    <3>1. k + 1 \in 0 .. Len(roots')
      BY <1>1, <1>3
    <3> HIDE DEF rt
    <3> QED
      BY <1>6, <3>1
  <2>2. \A c \in seen', d \in Found!Dir : parent'[d] = c /\ Found!Chromium(d)' => Has(d)'
    <3>1. ASSUME NEW c \in seen', NEW d \in Found!Dir, parent'[d] = c, Found!Chromium(d)'
          PROVE  Has(d)'
      <4>1. PICK f \in out' : Found!Leaf(f.path) = d
        BY <1>1, <1>10, <3>1
      <4> QED
        BY <1>1, <4>1, Zenon DEF Has
    <3> QED
      BY <3>1
  <2>3. os' = "linux" => \A e \in out' : e.kind = "custom" \/ Placed(e.path)'
    <3>1. ASSUME os = "linux", NEW e \in out' PROVE e.kind = "custom" \/ Placed(e.path)
      <4>1. CASE e \in out
        BY <1>0, <3>1, <4>1 DEF FoundInv, WalkedUnix
      <4>2. CASE e \notin out
        <5>1. e \in E /\ ~Again
          BY <1>8, <4>2
        <5> QED
          BY <1>7, <3>1, <5>1
      <4> QED
        BY <4>1, <4>2
    <3> QED
      BY <1>1, <3>1
  <2> QED
    BY <2>1, <2>2, <2>3, Zenon DEF WalkedUnix, Found!Dir
<1> QED
  BY <1>0, <1>1, <1>8, <1>9, <1>11 DEF FoundInv

\* The directory of a path is below one root only, as deep as the path is long.
LEMMA DepthOf ==
  ASSUME Walkable, Found!TypeOK, Treed, NEW p \in Found!Path, Reached(p), ~Found!Nested,
         NEW r \in RootDirs, Found!Leaf(p) # Found!Outside, r \in Found!Ancestors(Found!Leaf(p))
  PROVE  Len(p) = Cardinality(Found!Chain(Found!Leaf(p), r))
<1> DEFINE d == Found!Leaf(p)
<1>1. PICK q \in RootDirs : q \in Found!Ancestors(d) /\ Len(p) = Cardinality(Found!Chain(d, q))
  BY DEF Reached
<1>2. d \in Found!Dir
  BY RealIn
<1>3. q \in Found!Ancestors(r) \/ r \in Found!Ancestors(q)
  BY <1>1, <1>2, AncestorsLine
<1>4. PICK i \in DOMAIN roots : q = Found!Real(roots[i]) /\ q # Found!Outside
  BY DEF RootDirs
<1>5. PICK j \in DOMAIN roots : r = Found!Real(roots[j]) /\ r # Found!Outside
  BY DEF RootDirs
<1>6. q = r
  BY <1>3, <1>4, <1>5 DEF Found!Nested, Found!Below
<1> QED
  BY <1>1, <1>6

\* What is visited or to be visited stays so when a path is taken off the stack, once its
\* directory is visited.
LEMMA DueStays ==
  ASSUME Walkable, Found!TypeOK, UNCHANGED Found!world, pending # <<>>,
         seen \subseteq seen', Range(Found!Front(pending)) \subseteq Range(pending'),
         Found!Leaf(Found!Last(pending)) \in seen' \cup {Found!Outside},
         NEW d \in Found!Dir, Due(d)
  PROVE  Due(d)'
<1>1. Range(pending) = Range(Found!Front(pending)) \cup {Found!Last(pending)}
  BY StackTop DEF Found!TypeOK
<1>2. \A p : Found!Leaf(p)' = Found!Leaf(p)
  BY FoundSame
<1>3. d # Found!Outside
  BY RealIn
<1>4. CASE d \in seen
  BY <1>4, Zenon DEF Due
<1>5. CASE \E p \in Range(pending) : Found!Leaf(p) = d
  <2>1. PICK p \in Range(pending) : Found!Leaf(p) = d
    BY <1>5
  <2>2. p \in Range(pending') \/ d \in seen'
    BY <1>1, <1>3, <2>1
  <2> QED
    BY <1>2, <2>1, <2>2, Zenon DEF Due
<1> QED
  BY <1>4, <1>5 DEF Due

\* A step of the walk of Windows, whatever is put on the stack, keeps what the walk has
\* promised: the new paths are as long as their directories are deep, and the children of
\* a directory that is looked into are among them.
LEMMA WalkWindowsIf ==
  ASSUME Walkable, FoundInv, Found!WalkWindows,
         pending' \in Seq(Found!Path),
         Range(Found!Front(pending)) \subseteq Range(pending'),
         \A p \in Range(pending') : p \in Range(pending) \/ Reached(p),
         LET d == Found!Leaf(Found!Last(pending)) IN
           d # Found!Outside /\ d \notin seen /\ ~Found!Chromium(d) =>
             \/ Len(Found!Last(pending)) > Depth
             \/ \A c \in Found!Children(d) : \E p \in Range(pending') : Found!Leaf(p) = c
  PROVE  FoundInv'
<1> DEFINE F == [path : Found!Path, kind : {"known", "detected", "custom"}]
           t == Found!Last(pending)
           d == Found!Leaf(t)
<1>0. /\ Found!TypeOK /\ Treed /\ os = "windows" /\ pc = "walk" /\ pc' = "walk" /\ pending # <<>>
      /\ UNCHANGED Found!world /\ (\A e, f \in out : e.path = f.path => e = f)
      /\ WalkedWindows
      /\ IF d = Found!Outside \/ d \in seen THEN seen' = seen /\ out' = out
         ELSE /\ seen' = seen \cup {d}
              /\ IF Found!Chromium(d) THEN Found!Push({Found!Entry(<<d>>, "detected")})
                 ELSE out' = out
  BY DEF FoundInv, Found!WalkWindows
<1>1. /\ os' = os /\ parent' = parent /\ layout' = layout /\ where' = where
      /\ target' = target /\ roots' = roots /\ (Treed' <=> Treed) /\ RootDirs' = RootDirs
      /\ (Found!Nested' <=> Found!Nested)
      /\ \A p : Found!Leaf(p)' = Found!Leaf(p) /\ (Reached(p)' <=> Reached(p))
      /\ \A c : (Found!Chromium(c)' <=> Found!Chromium(c)) /\ Found!Children(c)' = Found!Children(c)
      /\ \A c, r : Opens(c, r)' <=> Opens(c, r)
  BY <1>0, FoundSame
<1>2. t \in Found!Path /\ t \in Range(pending) /\ d \in {Found!Outside} \cup Found!Dir
  <2>1. t \in Found!Path /\ t \in Range(pending)
    <3>1. pending \in Seq(Found!Path) /\ pending # <<>>
      BY <1>0 DEF Found!TypeOK
    <3> HIDE DEF t
    <3> QED
      BY <3>1, StackTop DEF t
  <2> QED
    BY <1>0, <2>1, RealIn
<1> HIDE DEF F, t, d
<1>3. seen \subseteq seen' /\ seen' \subseteq Found!Dir /\ d \in seen' \cup {Found!Outside}
  BY <1>0, <1>2 DEF Found!TypeOK
<1>4. \A c \in Found!Dir : Due(c) => Due(c)'
  BY <1>0, <1>3, DueStays DEF d, t
<1>5. /\ out' \in SUBSET F /\ (\A e, f \in out' : e.path = f.path => e = f) /\ out \subseteq out'
      /\ \A e \in out' : \E c \in Found!Dir : e.path = <<c>>
      /\ d # Found!Outside /\ d \notin seen /\ Found!Chromium(d) =>
           \E f \in out' : Found!Leaf(f.path) = d
  <2>1. \A e \in out : \E c \in Found!Dir : e.path = <<c>>
    BY <1>0 DEF WalkedWindows
  <2>2. CASE d # Found!Outside /\ d \notin seen /\ Found!Chromium(d)
    <3> DEFINE E == {Found!Entry(<<d>>, "detected")}
    <3>1. d \in Found!Dir /\ <<d>> \in Found!Path /\ Found!Leaf(<<d>>) = d
      BY <1>0, <1>2, <2>2, RealIn, ShortPaths DEF Found!Leaf, Found!Last
    <3>2. /\ E \in SUBSET F /\ (\A e, f \in E : e.path = f.path => e = f)
          /\ \A e \in E : e.path = <<d>>
      BY <3>1 DEF Found!Entry, F
    <3>3. Found!Push(E)
      BY <1>0, <2>2
    <3>4. Found!Entry(<<d>>, "detected") \in E
      OBVIOUS
    <3> HIDE DEF E
    <3>5. /\ out' \in SUBSET F /\ (\A e, f \in out' : e.path = f.path => e = f)
          /\ out \subseteq out' /\ out' \subseteq out \cup E
          /\ \A e \in E : \E f \in out' : f.path = e.path
      BY <1>0, <3>2, <3>3, PushKeeps DEF F
    <3>6. PICK f \in out' : f.path = <<d>>
      BY <3>2, <3>4, <3>5
    <3> QED
      BY <2>1, <3>1, <3>2, <3>5, <3>6
  <2>3. CASE ~(d # Found!Outside /\ d \notin seen /\ Found!Chromium(d))
    BY <1>0, <2>1, <2>3 DEF Found!TypeOK, F
  <2> QED
    BY <2>2, <2>3
<1>6. Found!TypeOK'
  BY <1>0, <1>1, <1>3, <1>5
  DEF F, Found!TypeOK, Found!Dir, Found!Outside, Found!Node, Found!Alias
<1>7. \A p \in Range(pending') : Reached(p)'
  BY <1>0, <1>1 DEF WalkedWindows
<1>8. \A r \in RootDirs' : Due(r)'
  <2>1. \A r \in RootDirs : r \in Found!Dir
    BY <1>0, RealIn DEF RootDirs
  <2> QED
    BY <1>0, <1>1, <1>4, <2>1 DEF WalkedWindows
<1>9. ASSUME NEW c \in seen', Found!Chromium(c) PROVE \E f \in out' : Found!Leaf(f.path) = c
  <2>1. CASE c \in seen
    <3>1. Has(c)
      BY <1>0, <1>9, <2>1 DEF WalkedWindows
    <3> QED
      BY <1>5, <3>1 DEF Has
  <2>2. CASE c \notin seen
    <3>1. c = d /\ d # Found!Outside /\ d \notin seen
      BY <1>0, <2>2
    <3> QED
      BY <1>5, <1>9, <3>1
  <2> QED
    BY <2>1, <2>2
<1>10. ASSUME ~Found!Nested, NEW c \in seen', NEW r \in RootDirs, Opens(c, r),
              NEW b \in Found!Children(c)
       PROVE  Due(b)'
  <2>0. b \in Found!Dir
    BY DEF Found!Children
  <2>1. CASE c \in seen
    <3>1. Due(b)
      BY <1>0, <1>10, <2>1 DEF WalkedWindows
    <3> QED
      BY <1>4, <2>0, <3>1
  <2>2. CASE c \notin seen
    <3>1. c = d /\ d # Found!Outside /\ d \notin seen /\ ~Found!Chromium(d)
      BY <1>0, <1>10, <2>2 DEF Opens
    <3>2. Reached(t)
      BY <1>0, <1>2 DEF WalkedWindows
    <3>3. r \in Found!Ancestors(d) /\ Cardinality(Found!Chain(d, r)) <= Depth
      BY <1>10, <3>1 DEF Opens
    <3>4. Len(t) = Cardinality(Found!Chain(d, r))
      BY <1>0, <1>2, <1>10, <3>1, <3>2, <3>3, DepthOf DEF d
    <3>5. ~(Len(t) > Depth)
      <4>1. Len(t) \in Nat /\ Depth \in Nat
        BY <1>2, PathsAre DEF Walkable
      <4> QED
        BY <3>3, <3>4, <4>1
    <3>6. PICK p \in Range(pending') : Found!Leaf(p) = b
      BY <1>10, <3>1, <3>5 DEF d, t
    <3> QED
      BY <1>1, <3>6, Zenon DEF Due
  <2> QED
    BY <2>1, <2>2
<1>11. WalkedWindows'
  <2>1. \A c \in seen' : Found!Chromium(c)' => Has(c)'
    <3>1. ASSUME NEW c \in seen', Found!Chromium(c)' PROVE Has(c)'
      <4>1. PICK f \in out' : Found!Leaf(f.path) = c
        BY <1>1, <1>9, <3>1
      <4> QED
        BY <1>1, <4>1, Zenon DEF Has
    <3> QED
      BY <3>1
  <2>2. ~Found!Nested' =>
          \A c \in seen', r \in RootDirs' : Opens(c, r)' => \A b \in Found!Children(c)' : Due(b)'
    <3>1. ASSUME ~Found!Nested', NEW c \in seen', NEW r \in RootDirs', Opens(c, r)',
                 NEW b \in Found!Children(c)'
          PROVE  Due(b)'
      <4>1. b \in Found!Children(c) /\ ~Found!Nested /\ r \in RootDirs /\ Opens(c, r)
        BY <1>1, <3>1
      <4> QED
        BY <1>10, <4>1
    <3> QED
      BY <3>1, Zenon
  <2> QED
    BY <1>5, <1>7, <1>8, <2>1, <2>2, Zenon DEF WalkedWindows, Found!Dir
<1> QED
  BY <1>0, <1>1, <1>5, <1>6, <1>11 DEF FoundInv

\* A step down from a path that is not too long.
LEMMA PathDown ==
  ASSUME Walkable, Found!TypeOK, Treed, NEW p \in Found!Path, Reached(p),
         Found!Leaf(p) # Found!Outside, ~(Len(p) > Depth),
         NEW c \in Found!Children(Found!Leaf(p))
  PROVE  /\ Append(p, c) \in Found!Path /\ Found!Leaf(Append(p, c)) = c
         /\ Reached(Append(p, c))
<1> DEFINE d == Found!Leaf(p)
<1>1. p \in Seq(Found!Node) /\ Len(p) \in Nat \ {0} /\ Depth \in Nat
  BY PathsAre DEF Walkable
<1>2. /\ c \in Found!Dir /\ c \in Found!Node /\ parent[c] = d /\ Found!Real(c) = c
      /\ d \in Found!Dir
  BY RealIn DEF Found!Children
<1>3. Append(p, c) \in Seq(Found!Node) /\ Len(Append(p, c)) = Len(p) + 1
      /\ Append(p, c)[Len(p) + 1] = c
  BY <1>1, <1>2
<1>4. Append(p, c) \in Found!Path
  <2>1. Len(Append(p, c)) \in 1 .. Depth + 2
    BY <1>1, <1>3
  <2> QED
    BY <1>3, <2>1, PathsAre
<1>5. Found!Leaf(Append(p, c)) = c
  BY <1>2, <1>3 DEF Found!Leaf, Found!Last
<1>6. PICK r \in RootDirs : r \in Found!Ancestors(d) /\ Len(p) = Cardinality(Found!Chain(d, r))
  BY DEF Reached
<1>7. r \in Found!Ancestors(c)
  BY <1>2, <1>6, AncestorsUp
<1>8. c # r
  <2>1. r \in Found!Dir /\ r <= d /\ d < c
    BY <1>2, <1>6, AncestorsLower DEF Treed
  <2> QED
    BY <1>2, <2>1 DEF Found!Dir
<1>9. Cardinality(Found!Chain(c, r)) = Cardinality(Found!Chain(d, r)) + 1
  BY <1>2, <1>7, <1>8, ChainGrows
<1>10. Reached(Append(p, c))
  <2>1. Len(Append(p, c)) = Cardinality(Found!Chain(c, r))
    BY <1>3, <1>6, <1>9
  <2> QED
    BY <1>5, <1>6, <1>7, <2>1 DEF Reached
<1> QED
  BY <1>4, <1>5, <1>10

LEMMA WalkWindowsKeeps ==
  ASSUME Walkable, FoundInv, Found!WalkWindows PROVE FoundInv'
<1> DEFINE t == Found!Last(pending)
           d == Found!Leaf(t)
           f == Found!Front(pending)
<1>0. /\ Found!TypeOK /\ Treed /\ pending \in Seq(Found!Path) /\ pending # <<>>
      /\ \A p \in Range(pending) : Reached(p)
  BY DEF FoundInv, Found!WalkWindows, WalkedWindows, Found!TypeOK
<1>1. /\ t \in Found!Path /\ f \in Seq(Found!Path) /\ t \in Range(pending)
      /\ Range(pending) = Range(f) \cup {t}
  <2> HIDE DEF t, f
  <2> QED
    BY <1>0, StackTop DEF t, f
<1>2. CASE pending' = f /\ (d = Found!Outside \/ d \in seen \/ Found!Chromium(d)
                            \/ Len(t) > Depth)
  <2>1. /\ pending' \in Seq(Found!Path) /\ Range(f) \subseteq Range(pending')
        /\ \A p \in Range(pending') : p \in Range(pending) \/ Reached(p)
    BY <1>1, <1>2
  <2> QED
    BY <1>2, <2>1, WalkWindowsIf
<1>3. CASE /\ d # Found!Outside /\ ~(Len(t) > Depth)
           /\ \E o \in Found!SetToSeqs(Found!Children(d)) :
                pending' = f \o [i \in DOMAIN o |-> Append(t, o[i])]
  <2>1. PICK o \in Found!SetToSeqs(Found!Children(d)) :
              pending' = f \o [i \in DOMAIN o |-> Append(t, o[i])]
    BY <1>3
  <2>2. IsFiniteSet(Found!Children(d))
    <3>1. Found!Children(d) \in SUBSET (1..Dirs) /\ IsFiniteSet(1..Dirs)
      BY FS_Interval DEF Found!Children, Found!Dir, Walkable
    <3> QED
      BY <3>1, FS_Subset
  <2> HIDE DEF t, d, f
  <2>3. o \in Seq(Found!Children(d)) /\ Range(o) = Found!Children(d)
    BY <2>2, OrdersAll
  <2>4. \A c \in Found!Children(d) :
            Append(t, c) \in Found!Path /\ Found!Leaf(Append(t, c)) = c /\ Reached(Append(t, c))
    BY <1>0, <1>1, <1>3, PathDown DEF d
  <2> DEFINE g == [i \in DOMAIN o |-> Append(t, o[i])]
  <2>5. g \in Seq(Found!Path) /\ Range(g) = {Append(t, c) : c \in Found!Children(d)}
    <3>1. DOMAIN o = 1 .. Len(o) /\ Len(o) \in Nat /\ \A i \in DOMAIN o : o[i] \in Found!Children(d)
      BY <2>3
    <3>2. g \in Seq(Found!Path)
      BY <2>4, <3>1
    <3>3. Range(g) = {Append(t, o[i]) : i \in DOMAIN o}
      BY DEF Range
    <3>4. Range(o) = {o[i] : i \in DOMAIN o}
      BY DEF Range
    <3> QED
      BY <2>3, <3>2, <3>3, <3>4
  <2>6. pending' = f \o g
    BY <2>1
  <2> HIDE DEF g
  <2>7. pending' \in Seq(Found!Path) /\ Range(pending') = Range(f) \cup Range(g)
    BY <1>1, <2>5, <2>6, StackGrows
  <2>8. \A p \in Range(pending') : p \in Range(pending) \/ Reached(p)
    BY <1>1, <2>4, <2>5, <2>7
  <2>9. \A c \in Found!Children(d) : \E p \in Range(pending') : Found!Leaf(p) = c
    BY <2>4, <2>5, <2>7
  <2>10. Range(f) \subseteq Range(pending')
    BY <2>7
  <2> QED
    BY <2>7, <2>8, <2>9, <2>10, WalkWindowsIf DEF t, d, f
<1>4. \/ pending' = f /\ (d = Found!Outside \/ d \in seen \/ Found!Chromium(d)
                          \/ Len(t) > Depth)
      \/ /\ d # Found!Outside /\ ~(Len(t) > Depth)
         /\ \E o \in Found!SetToSeqs(Found!Children(d)) :
              pending' = f \o [i \in DOMAIN o |-> Append(t, o[i])]
  BY DEF Found!WalkWindows
<1> QED
  BY <1>2, <1>3, <1>4

LEMMA FoundStep ==
  ASSUME Walkable, FoundInv, [Found!Next]_(Found!vars) PROVE FoundInv'
BY FindKnownKeeps, WalkUnixKeeps, WalkWindowsKeeps, FoundRestKeeps DEF Found!Next

\* The walk from the root, on a way that no browser is on and that is short enough, comes by.
LEMMA WayWalked ==
  ASSUME Walkable, FoundInv, os = "windows", pc = "done", ~Found!Nested,
         NEW r \in RootDirs, NEW d \in Found!Dir, r \in Found!Ancestors(d),
         \A c \in Found!Chain(d, r) : c # d => ~Found!Chromium(c),
         Cardinality(Found!Chain(d, r)) <= Depth + 1
  PROVE  d \in seen
<1>0. /\ Found!TypeOK /\ Treed /\ WalkedWindows /\ Depth \in Nat /\ Range(pending) = {}
  BY DEF FoundInv, Walkable, Range
<1>1. \A c : Due(c) => c \in seen
  BY <1>0 DEF Due
<1>2. \A a \in RootDirs : a \in seen
  BY <1>0, <1>1 DEF WalkedWindows
<1> SUFFICES ASSUME d \notin seen PROVE FALSE
  OBVIOUS
<1> DEFINE S == Found!Chain(d, r) \ seen
<1>3. d \in Found!Chain(d, r)
  BY <1>0, AncestorsLower DEF Found!Chain, Found!Below
<1>4. S \in SUBSET Nat /\ S \subseteq Found!Dir /\ S # {}
  BY <1>3 DEF Found!Chain, Found!Ancestors, Found!Dir
<1>5. PICK m \in S : \A n \in S : m <= n
  <2> HIDE DEF S
  <2> QED
    BY <1>4, LeastNatural
<1> DEFINE q == parent[m]
<1>6. m \in Found!Dir /\ m \in Found!Ancestors(d) /\ r \in Found!Ancestors(m) /\ m # r
  BY <1>2, <1>4, <1>5 DEF Found!Chain, Found!Below
<1>7. q \in Found!Dir /\ r \in Found!Ancestors(q) /\ q < m
      /\ Cardinality(Found!Chain(m, r)) = Cardinality(Found!Chain(q, r)) + 1
  BY <1>0, <1>6, ChainGrows DEF Treed
<1>8. q \in Found!Ancestors(m) /\ q \in Found!Ancestors(d)
  <2>1. q \in Found!Ancestors(m)
    BY <1>0, <1>6, <1>7, AncestorsLower, AncestorsUp
  <2> QED
    BY <1>0, <1>6, <2>1, AncestorsPass
<1>9. q \in Found!Chain(d, r)
  BY <1>7, <1>8 DEF Found!Chain, Found!Below
<1>10. q \in seen
  BY <1>4, <1>5, <1>6, <1>7, <1>9 DEF Found!Dir
<1>11. q # d
  BY <1>10
<1>12. Opens(q, r)
  <2>1. Found!Chain(m, r) \subseteq Found!Chain(d, r)
    BY <1>0, <1>6, AncestorsPass DEF Found!Chain
  <2>2. /\ IsFiniteSet(Found!Chain(d, r)) /\ Cardinality(Found!Chain(d, r)) \in Nat
        /\ Cardinality(Found!Chain(m, r)) \in Nat /\ Cardinality(Found!Chain(q, r)) \in Nat
    BY <1>0, <1>6, <1>7, ChainGrows
  <2>3. Cardinality(Found!Chain(m, r)) <= Cardinality(Found!Chain(d, r))
    BY <2>1, <2>2, FS_Subset
  <2>4. Cardinality(Found!Chain(q, r)) <= Depth
    BY <1>0, <1>7, <2>2, <2>3
  <2> QED
    BY <1>7, <1>9, <1>11, <2>4 DEF Opens
<1>13. m \in Found!Children(q)
  BY <1>6 DEF Found!Children
<1>14. m \in seen
  BY <1>0, <1>1, <1>10, <1>12, <1>13 DEF WalkedWindows
<1> QED
  BY <1>5, <1>14

LEMMA FoundAll ==
  ASSUME Walkable, FoundInv PROVE Found!Complete
<1>0. SUFFICES ASSUME pc = "done", ~(os = "windows" /\ Found!Nested),
                      NEW i \in DOMAIN roots, NEW d \in Found!Dir,
                      Found!Real(roots[i]) # Found!Outside, Found!Chromium(d),
                      IF os = "windows"
                      THEN /\ Found!Below(d, Found!Real(roots[i]))
                           /\ \A c \in Found!Chain(d, Found!Real(roots[i])) :
                                 c # d => ~Found!Chromium(c)
                           /\ Found!Cardinality(Found!Chain(d, Found!Real(roots[i]))) <= Depth + 1
                      ELSE parent[d] = Found!Real(roots[i])
               PROVE  Has(d)
  BY DEF Found!Complete, Has
<1> DEFINE r == Found!Real(roots[i])
<1>1. r \in RootDirs /\ Found!TypeOK /\ Treed
  BY <1>0 DEF RootDirs, FoundInv
<1>2. CASE os = "windows"
  <2>1. Found!Cardinality(Found!Chain(d, r)) = Cardinality(Found!Chain(d, r))
    BY DEF Found!Cardinality, Cardinality, Found!IsFiniteSet, IsFiniteSet
  <2>2. /\ r \in Found!Ancestors(d) /\ (\A c \in Found!Chain(d, r) : c # d => ~Found!Chromium(c))
        /\ Cardinality(Found!Chain(d, r)) <= Depth + 1 /\ ~Found!Nested
    BY <1>0, <1>2, <2>1 DEF Found!Below
  <2> HIDE DEF r
  <2>3. d \in seen
    BY <1>0, <1>1, <1>2, <2>2, WayWalked
  <2> QED
    BY <1>0, <1>2, <2>3 DEF FoundInv, WalkedWindows
<1>3. CASE os # "windows"
  <2>1. PICK k \in 0 .. Len(roots) : Through(k)
    BY <1>0, <1>3 DEF FoundInv, WalkedUnix
  <2>2. Len(pending) = 0 /\ Len(roots) \in Nat /\ DOMAIN roots = 1 .. Len(roots)
    BY <1>0, <1>1 DEF FoundInv, Found!TypeOK
  <2>3. k = Len(roots)
    BY <2>1, <2>2 DEF Through
  <2>4. r \in seen
    BY <1>0, <2>1, <2>2, <2>3 DEF Through
  <2> QED
    BY <1>0, <1>3, <2>4 DEF FoundInv, WalkedUnix
<1> QED
  BY <1>2, <1>3

LEMMA FoundOnce ==
  ASSUME Walkable, FoundInv PROVE Found!ListedOnce
<1>0. SUFFICES ASSUME NEW e \in out, NEW f \in out, e # f,
                      Found!Leaf(e.path) = Found!Leaf(f.path), os # "macos"
               PROVE  os # "windows" /\ \E g \in {e, f} :
                                           Found!Last(g.path) = Found!Alias \/ g.kind = "custom"
  BY Zenon DEF Found!ListedOnce
<1>1. e.path # f.path /\ Found!TypeOK /\ os \in {"linux", "windows"}
  BY <1>0 DEF FoundInv, Found!TypeOK
<1>2. CASE os = "windows"
  <2>1. PICK c \in Found!Dir : e.path = <<c>>
    BY <1>2 DEF FoundInv, WalkedWindows
  <2>2. PICK b \in Found!Dir : f.path = <<b>>
    BY <1>2 DEF FoundInv, WalkedWindows
  <2>3. Found!Leaf(<<c>>) = c /\ Found!Leaf(<<b>>) = b
    BY <1>1, RealIn DEF Found!Leaf, Found!Last
  <2> QED
    BY <1>0, <1>1, <2>1, <2>2, <2>3
<1>3. CASE os = "linux"
  <2>0. SUFFICES ASSUME e.kind # "custom", f.kind # "custom",
                        Found!Last(e.path) # Found!Alias, Found!Last(f.path) # Found!Alias
                 PROVE  FALSE
    BY <1>3
  <2>1. Placed(e.path) /\ Placed(f.path)
    BY <1>3, <2>0 DEF FoundInv, WalkedUnix
  <2>2. PICK i \in DOMAIN roots, n \in Found!Node :
          /\ e.path = <<roots[i], n>> /\ Found!Holder(n) = Found!Real(roots[i])
          /\ \A j \in 1 .. i - 1 : Found!Real(roots[j]) # Found!Real(roots[i])
    BY <2>1 DEF Placed
  <2>3. PICK j \in DOMAIN roots, m \in Found!Node :
          /\ f.path = <<roots[j], m>> /\ Found!Holder(m) = Found!Real(roots[j])
          /\ \A l \in 1 .. j - 1 : Found!Real(roots[l]) # Found!Real(roots[j])
    BY <2>1 DEF Placed
  <2>4. Found!Last(<<roots[i], n>>) = n /\ Found!Last(<<roots[j], m>>) = m
    BY DEF Found!Last
  <2>5. n # Found!Alias /\ m # Found!Alias /\ n = m
    BY <1>0, <2>0, <2>2, <2>3, <2>4 DEF Found!Leaf, Found!Real
  <2>6. Found!Real(roots[i]) = Found!Real(roots[j])
    BY <2>2, <2>3, <2>5
  <2>7. i \in Nat \ {0} /\ j \in Nat \ {0}
    BY <1>1 DEF Found!TypeOK
  <2>8. i = j
    BY <2>2, <2>3, <2>6, <2>7
  <2> QED
    BY <1>1, <2>2, <2>3, <2>5, <2>8
<1> QED
  BY <1>1, <1>2, <1>3

\* Whatever the directories, the roots and the order in which directories are read, every
\* browser the walk is meant to come upon is listed, and it is listed once
\* (discovery.rs:96-136, windows.rs:222-282).
THEOREM BrowsersAreListed ==
  ASSUME Walkable
  PROVE  Found!Spec => [](Found!TypeOK /\ Found!Complete /\ Found!ListedOnce)
<1>1. Found!Init => FoundInv
  BY FoundInit
<1>2. FoundInv /\ [Found!Next]_(Found!vars) => FoundInv'
  BY FoundStep
<1>3. FoundInv => Found!TypeOK /\ Found!Complete /\ Found!ListedOnce
  BY FoundAll, FoundOnce DEF FoundInv
<1> QED
  BY <1>1, <1>2, <1>3, PTL DEF Found!Spec
=============================================================================
