---------------------------- MODULE WatcherProofs ----------------------------
(***************************************************************************)
(* For any number of browsers and any lengths of the timers: the watcher's *)
(* variables stay in their types, and no write to a watched installation   *)
(* is forgotten.                                                           *)
(***************************************************************************)
EXTENDS Watcher, SequenceTheorems, TLAPS

\* A callback has a browser, and due callbacks wait only while some are made.
Calling ==
    /\ pc \in Callback => current \in Browser
    /\ pc \in {"wait", "check", "tick"} => promoted = {} /\ released = {}

\* What is owed is owed to a watched browser.
OwedWatched == ~stop => owed \subseteq watched

TypeInv == TypeOK /\ Calling
WatchInv == TypeInv /\ OwedWatched /\ NothingForgotten

(***************************************************************************)
(* Deferrals.                                                              *)
(***************************************************************************)

\* None is neither a deferral nor a time (the Option of watcher.rs:140-148).
LEMMA NoneApart == /\ \A d \in Deferral : d # None
                   /\ \A t \in Int : t # None
                   /\ \A b \in Browser : b # None /\ b # Wake
  BY ConstantsAssumption

\* The clock keeps a deferral one (watcher.rs:530-567).
LEMMA LaterType == ASSUME NEW d \in Deferral PROVE Later(d) \in Deferral
<1>1. d # None
  BY NoneApart
<1>2. /\ d.moved \in BOOLEAN /\ d.still \in 0 .. Stable
      /\ d.age \in 0 .. (Limit + 1) /\ d.poll \in 0 .. Poll
  BY DEF Deferral
<1>3. /\ Up(d.still, Stable) \in 0 .. Stable
      /\ Up(d.age, Limit + 1) \in 0 .. (Limit + 1)
      /\ Down(d.poll) \in 0 .. Poll
  BY <1>2, ConstantsAssumption DEF Up, Down
<1> QED
  BY <1>1, <1>2, <1>3 DEF Later, Deferral

\* A tick of the dispatcher leaves a deferral unless it releases it
\* (watcher.rs:543-567).
LEMMA LookedType ==
  ASSUME NEW d \in Deferral, NEW b
  PROVE /\ Release(d, b) => Looked(d, b) = None
        /\ ~Release(d, b) => Looked(d, b) \in Deferral
<1>1. /\ d.still \in 0 .. Stable /\ d.age \in 0 .. (Limit + 1)
  BY DEF Deferral
<1> QED
  BY <1>1, ConstantsAssumption DEF Looked, Deferral

\* A running browser's dispatch becomes a deferral (watcher.rs:519-527).
LEMMA NewDeferralType == NewDeferral \in Deferral
  BY ConstantsAssumption DEF NewDeferral, Deferral

\* A change of the mtime keeps a deferral one.
LEMMA MovedType ==
  ASSUME NEW d \in Deferral PROVE [d EXCEPT !.moved = TRUE] \in Deferral
  BY DEF Deferral

\* So after a tick of the clock every entry has a deferral if it had one.
LEMMA ClockType ==
  ASSUME NEW b \in Browser, TypeOK
  PROVE /\ Later(deferral[b]) \in Deferral \cup {None}
        /\ deferral[b] # None => Later(deferral[b]) # None
        /\ (IF timer[b] = None THEN None ELSE Down(timer[b])) \in 0 .. Debounce \cup {None}
        /\ timer[b] # None => Down(timer[b]) # None
        /\ Up(quiet[b], Debounce) \in 0 .. Debounce
<1>1. deferral[b] \in Deferral \cup {None} /\ timer[b] \in 0 .. Debounce \cup {None}
      /\ quiet[b] \in 0 .. Debounce
  BY DEF TypeOK
<1>2. /\ Later(deferral[b]) \in Deferral \cup {None}
      /\ deferral[b] # None => Later(deferral[b]) # None
  <2>1. CASE deferral[b] = None
    BY <2>1 DEF Later
  <2>2. CASE deferral[b] \in Deferral
    BY <2>2, LaterType, NoneApart
  <2> QED
    BY <1>1, <2>1, <2>2
<1>3. /\ (IF timer[b] = None THEN None ELSE Down(timer[b])) \in 0 .. Debounce \cup {None}
      /\ timer[b] # None => Down(timer[b]) # None
  <2>1. CASE timer[b] = None
    BY <2>1
  <2>2. CASE timer[b] # None
    <3>1. timer[b] \in 0 .. Debounce
      BY <1>1, <2>2
    <3>2. Down(timer[b]) \in 0 .. Debounce
      BY <3>1, ConstantsAssumption DEF Down
    <3> QED
      BY <2>2, <3>2, NoneApart
  <2> QED
    BY <2>1, <2>2
<1> QED
  BY <1>1, <1>2, <1>3, ConstantsAssumption DEF Up

\* What a write does to the types (watcher.rs:235-258, 543-552).
LEMMA WrittenType ==
  ASSUME TypeOK, NEW b \in Browser, NEW top \in BOOLEAN, Written(b, top)
  PROVE /\ queue' \in Seq(Browser \cup {Wake})
        /\ owed' \subseteq Browser
        /\ quiet' \in [Browser -> 0 .. Debounce]
        /\ deferral' \in [Browser -> Deferral \cup {None}]
        /\ \A c \in Browser : deferral[c] # None => deferral'[c] # None
<1>1. queue' \in Seq(Browser \cup {Wake}) /\ owed' \subseteq Browser
      /\ quiet' \in [Browser -> 0 .. Debounce]
  BY ConstantsAssumption DEF TypeOK, Written
<1>2. CASE ~(top /\ deferral[b] # None)
  BY <1>1, <1>2 DEF TypeOK, Written
<1>3. CASE top /\ deferral[b] # None
  <2>1. deferral \in [Browser -> Deferral \cup {None}] /\ deferral[b] \in Deferral
    BY <1>3 DEF TypeOK
  <2>2. deferral' = [deferral EXCEPT ![b] = [deferral[b] EXCEPT !.moved = TRUE]]
    BY <1>3 DEF Written
  <2>3. [deferral[b] EXCEPT !.moved = TRUE] \in Deferral
    BY <2>1, MovedType
  <2> QED
    BY <1>1, <2>1, <2>2, <2>3, NoneApart
<1> QED
  BY <1>2, <1>3

(***************************************************************************)
(* Type correctness.                                                       *)
(***************************************************************************)

LEMMA TypeInit == Init => TypeInv
<1> SUFFICES ASSUME Init PROVE TypeInv
  OBVIOUS
<1>1. TypeOK
  <2>1. Debounce \in 0 .. Debounce /\ 0 \in 0 .. MaxWrites
    BY ConstantsAssumption
  <2>2. /\ timer \in [Browser -> 0 .. Debounce \cup {None}]
        /\ deferral \in [Browser -> Deferral \cup {None}]
        /\ quiet \in [Browser -> 0 .. Debounce]
    BY <2>1 DEF Init
  <2>3. queue \in Seq(Browser \cup {Wake})
    BY DEF Init
  <2> QED
    BY <2>1, <2>2, <2>3 DEF Init, TypeOK, Steps
<1>2. Calling
  BY DEF Init, Calling, Callback
<1> QED
  BY <1>1, <1>2 DEF TypeInv

LEMMA TypeStep == TypeInv /\ [Next]_vars => TypeInv'
<1> SUFFICES ASSUME TypeInv, [Next]_vars PROVE TypeInv'
  OBVIOUS
<1>t. TypeOK /\ Calling
  BY DEF TypeInv
<1> USE DEF TypeInv, entries, firing, world, history
<1>1. CASE Receive
  <2>1. queue' \in Seq(Browser \cup {Wake})
    BY <1>t, <1>1 DEF Receive, TypeOK
  <2>2. /\ timer' \in [Browser -> 0 .. Debounce \cup {None}]
        /\ deferral' \in [Browser -> Deferral \cup {None}]
    <3>1. \/ UNCHANGED <<timer, deferral>>
          \/ \E b \in Browser : /\ timer' = [timer EXCEPT ![b] = Debounce]
                                /\ deferral' = [deferral EXCEPT ![b] = None]
      BY <1>1, Zenon DEF Receive, HandleEvent
    <3>2. Debounce \in 0 .. Debounce
      BY ConstantsAssumption
    <3>3. timer \in [Browser -> 0 .. Debounce \cup {None}]
          /\ deferral \in [Browser -> Deferral \cup {None}]
      BY <1>t DEF TypeOK
    <3> QED
      BY <3>1, <3>2, <3>3
  <2>3. pc' = "check" /\ UNCHANGED <<watched, firing, stop, world, history>>
    BY <1>1 DEF Receive
  <2>4. TypeOK'
    BY <1>t, <2>1, <2>2, <2>3 DEF TypeOK, Steps
  <2> QED
    BY <1>t, <1>1, <2>3, <2>4 DEF Receive, Calling, Callback
<1>2. CASE TimeOut
  BY <1>t, <1>2 DEF TimeOut, TypeOK, Calling, Callback, Steps
<1>3. CASE Check
  BY <1>t, <1>3 DEF Check, TypeOK, Calling, Callback, Steps
<1>4. CASE HandleTick
  <2>1. timer' \in [Browser -> 0 .. Debounce \cup {None}]
    BY <1>t, <1>4 DEF HandleTick, TypeOK
  <2>2. \A b \in Browser : deferral'[b] \in Deferral \cup {None}
    <3> SUFFICES ASSUME NEW b \in Browser PROVE deferral'[b] \in Deferral \cup {None}
      OBVIOUS
    <3>1. deferral'[b] = IF b \in Elapsed /\ b \in snap THEN NewDeferral
                         ELSE IF b \in Polled THEN Looked(deferral[b], b) ELSE deferral[b]
      BY <1>4 DEF HandleTick
    <3>2. deferral[b] \in Deferral \cup {None}
      BY <1>t DEF TypeOK
    <3>3. b \in Polled => deferral[b] \in Deferral
      BY <3>2 DEF Polled
    <3> QED
      BY <3>1, <3>2, <3>3, LookedType, NewDeferralType
  <2>3. deferral' \in [Browser -> Deferral \cup {None}]
    BY <1>4, <2>2 DEF HandleTick
  <2>4. promoted' \subseteq Browser /\ released' \subseteq Browser
    BY <1>t, <1>4 DEF HandleTick, TypeOK, Elapsed, Polled
  <2> QED
    BY <1>t, <1>4, <2>1, <2>3, <2>4 DEF HandleTick, TypeOK, Calling, Callback, Steps
<1>5. CASE Fire
  BY <1>t, <1>5 DEF Fire, TypeOK, Calling, Callback, Steps
<1>6. CASE Fired
  BY <1>t, <1>6 DEF Fired, TypeOK, Calling, Callback, Steps
<1>7. CASE Select
  BY <1>t, <1>7 DEF Select, Return, TypeOK, Calling, Callback, Steps
<1>8. CASE Attempt
  BY <1>t, <1>8 DEF Attempt, Return, TypeOK, Calling, Callback, Steps
<1>9. CASE Stage
  <2>1. current \in Browser
    BY <1>t, <1>9 DEF Stage, Calling, Callback
  <2> QED
    BY <1>t, <1>9, <2>1, WrittenType DEF Stage, TypeOK, Calling, Callback, Steps
<1>10. CASE Publish
  <2>1. current \in Browser
    BY <1>t, <1>10 DEF Publish, Calling, Callback
  <2> QED
    BY <1>t, <1>10, <2>1, WrittenType DEF Publish, Return, TypeOK, Calling, Callback, Steps
<1>11. CASE PublishFails
  <2>1. current \in Browser
    BY <1>t, <1>11 DEF PublishFails, Calling, Callback
  <2> QED
    BY <1>t, <1>11, <2>1, WrittenType DEF PublishFails, Return, TypeOK, Calling, Callback, Steps
<1>12. CASE Tick
  <2>1. /\ timer' \in [Browser -> 0 .. Debounce \cup {None}]
        /\ deferral' \in [Browser -> Deferral \cup {None}]
        /\ quiet' \in [Browser -> 0 .. Debounce]
    BY <1>t, <1>12, ClockType DEF Tick
  <2> QED
    BY <1>t, <1>12, <2>1 DEF Tick, TypeOK, Calling
<1>13. CASE Close
  BY <1>t, <1>13, ConstantsAssumption DEF Close, TypeOK, Calling
<1>14. CASE \E b \in Browser : Watch(b) \/ Unwatch(b)
  BY ZenonT(30), <1>t, <1>14 DEF Watch, Unwatch, TypeOK, Calling
<1>15. CASE \E b \in Browser : Write(b)
  <2>1. PICK b \in Browser : Write(b)
    BY <1>15
  <2>2. writes' \in 0 .. MaxWrites
    BY <1>t, <2>1, ConstantsAssumption DEF Write, TypeOK
  <2>3. component' \in [Browser -> {"missing", "managed", "foreign"}]
    BY <1>t, <2>1 DEF Write, TypeOK
  <2>4. PICK top \in BOOLEAN : Written(b, top)
    BY <2>1 DEF Write
  <2> QED
    BY <1>t, <2>1, <2>2, <2>3, <2>4, WrittenType DEF Write, TypeOK, Calling
<1>16. CASE \E b \in Browser : StartOrQuit(b)
  BY <1>t, <1>16 DEF StartOrQuit, TypeOK, Calling
<1>17. CASE UNCHANGED vars
  BY <1>t, <1>17 DEF vars, TypeOK, Calling
<1> QED
  BY <1>1, <1>2, <1>3, <1>4, <1>5, <1>6, <1>7, <1>8, <1>9, <1>10, <1>11, <1>12, <1>13,
     <1>14, <1>15, <1>16, <1>17 DEF Next, Dispatch

\* The watcher's state stays in its type, whatever its owner, the clock and the
\* browsers do (watcher.rs:140-182).
THEOREM WatcherTypeCorrect == Spec => []TypeOK
<1>1. TypeInv => TypeOK
  BY DEF TypeInv
<1> QED
  BY <1>1, TypeInit, TypeStep, PTL DEF Spec

(***************************************************************************)
(* No write is forgotten.                                                  *)
(***************************************************************************)

\* b is on its way to a callback.
OnItsWay(b) ==
    \/ \E i \in DOMAIN queue : queue[i] = b
    \/ timer[b] # None
    \/ deferral[b] # None
    \/ b \in promoted \cup released
    \/ pc = "select" /\ current = b

\* What a write below an installation, or the removal of a staging directory,
\* does: an owed browser is in the queue (watcher.rs:235-258).
LEMMA WrittenRemembered ==
  ASSUME TypeOK, OwedWatched, NothingForgotten, NEW b \in Browser, NEW top \in BOOLEAN,
         Written(b, top), pc = "select" => UNCHANGED <<pc, current>>,
         UNCHANGED <<watched, timer, promoted, released, stop>>
  PROVE OwedWatched' /\ NothingForgotten'
<1>1. OwedWatched'
  BY DEF OwedWatched, Written
<1>2. ASSUME ~stop', NEW c \in owed' PROVE OnItsWay(c)'
  <2>1. queue \in Seq(Browser \cup {Wake}) /\ b \in Browser \cup {Wake} /\ c \in Browser
    BY <1>2, WrittenType DEF TypeOK
  <2>2. CASE c \in owed
    <3>1. OnItsWay(c)
      BY <1>2, <2>2 DEF NothingForgotten, OnItsWay
    <3>2. CASE \E i \in DOMAIN queue : queue[i] = c
      <4>1. PICK i \in DOMAIN queue : queue[i] = c
        BY <3>2
      <4>2. i \in DOMAIN queue' /\ queue'[i] = c
        BY <2>1, <4>1 DEF Written
      <4> QED
        BY <4>2 DEF OnItsWay
    <3>3. CASE deferral[c] # None
      <4>1. deferral'[c] # None
        BY <2>1, <3>3, WrittenType
      <4> QED
        BY <4>1 DEF OnItsWay
    <3> QED
      BY <3>1, <3>2, <3>3 DEF OnItsWay
  <2>3. CASE c \notin owed
    <3>1. c = b /\ queue' = Append(queue, b)
      BY <1>2, <2>3 DEF Written
    <3>2. Len(queue) + 1 \in DOMAIN queue' /\ queue'[Len(queue) + 1] = b
      BY <2>1, <3>1
    <3> QED
      BY <3>1, <3>2 DEF OnItsWay
  <2> QED
    BY <2>2, <2>3
<1> QED
  BY <1>1, <1>2 DEF NothingForgotten, OnItsWay

LEMMA RememberInit == Init => WatchInv
  BY TypeInit DEF Init, WatchInv, OwedWatched, NothingForgotten

LEMMA RememberStep == ~Rewatch /\ WatchInv /\ [Next]_vars => WatchInv'
<1> SUFFICES ASSUME ~Rewatch, WatchInv, [Next]_vars PROVE OwedWatched' /\ NothingForgotten'
  BY TypeStep DEF WatchInv
<1>t. TypeOK /\ Calling /\ OwedWatched /\ NothingForgotten /\ TypeOK'
  BY TypeStep DEF WatchInv, TypeInv
<1>o. owed \subseteq Browser /\ (~stop => owed \subseteq watched)
  BY <1>t DEF TypeOK, OwedWatched
<1>n. ASSUME ~stop, NEW b \in owed PROVE OnItsWay(b)
  BY <1>t, <1>n DEF NothingForgotten, OnItsWay
<1> USE DEF entries, firing, world, history
\* It is enough to follow one browser that is owed a callback.
<1>s. ASSUME UNCHANGED stop, owed' \subseteq owed, UNCHANGED watched,
             \A b \in owed' : ~stop /\ b \in watched /\ OnItsWay(b) => OnItsWay(b)'
      PROVE OwedWatched' /\ NothingForgotten'
  <2>1. OwedWatched'
    BY <1>o, <1>s DEF OwedWatched
  <2>2. ASSUME ~stop', NEW b \in owed' PROVE OnItsWay(b)'
    BY <1>o, <1>n, <1>s, <2>2
  <2> QED
    BY <2>1, <2>2 DEF NothingForgotten, OnItsWay
<1>1. CASE Receive
  <2>1. ASSUME NEW b \in owed, b \in watched, OnItsWay(b) PROVE OnItsWay(b)'
    <3>1. queue \in Seq(Browser \cup {Wake}) /\ queue # <<>> /\ b \in Browser /\ b # Wake
      BY <1>t, <1>o, <1>1, NoneApart DEF Receive, TypeOK
    <3>2. CASE b = Head(queue)
      <4>1. timer'[b] = Debounce
        BY <1>t, <1>1, <2>1, <3>1, <3>2 DEF Receive, HandleEvent, TypeOK
      <4> QED
        BY <4>1, NoneApart, ConstantsAssumption DEF OnItsWay
    <3>3. CASE b # Head(queue)
      <4>1. timer'[b] = timer[b] /\ deferral'[b] = deferral[b]
        BY <1>t, <1>1, <3>1, <3>3 DEF Receive, HandleEvent, TypeOK
      <4>2. (\E i \in DOMAIN queue : queue[i] = b) => \E i \in DOMAIN queue' : queue'[i] = b
        <5> SUFFICES ASSUME NEW i \in DOMAIN queue, queue[i] = b
                     PROVE \E j \in DOMAIN queue' : queue'[j] = b
          OBVIOUS
        <5>1. i \in 1 .. Len(queue) /\ Len(queue) \in Nat /\ i # 1
          BY <3>1, <3>3
        <5>2. queue' = Tail(queue)
          BY <1>1 DEF Receive
        <5>3. i - 1 \in 1 .. Len(Tail(queue)) /\ Tail(queue)[i - 1] = queue[(i - 1) + 1]
          BY <3>1, <5>1, HeadTailProperties
        <5>4. i - 1 \in DOMAIN queue' /\ queue'[i - 1] = b
          BY <3>1, <5>1, <5>2, <5>3
        <5> QED
          BY <5>4
      <4> QED
        BY <1>1, <2>1, <4>1, <4>2 DEF OnItsWay, Receive
    <3> QED
      BY <3>2, <3>3
  <2> QED
    BY <1>1, <1>s, <2>1 DEF Receive
<1>2. CASE TimeOut \/ Check
  BY <1>2, <1>s DEF TimeOut, Check, OnItsWay
<1>3. CASE HandleTick
  <2>1. ASSUME NEW b \in owed, b \in watched, OnItsWay(b) PROVE OnItsWay(b)'
    <3>1. b \in Browser /\ deferral[b] \in Deferral \cup {None} /\ promoted = {} /\ released = {}
      BY <1>t, <1>o, <1>3 DEF HandleTick, TypeOK, Calling
    <3>2. CASE b \in Elapsed /\ b \in snap
      <4>1. deferral'[b] = NewDeferral
        BY <1>3, <3>1, <3>2 DEF HandleTick
      <4> QED
        BY <4>1, NewDeferralType, NoneApart DEF OnItsWay
    <3>3. CASE b \in Elapsed /\ b \notin snap
      BY <1>3, <3>3 DEF HandleTick, OnItsWay
    <3>4. CASE b \notin Elapsed
      <4>1. timer'[b] = timer[b]
            /\ deferral'[b] = IF b \in Polled THEN Looked(deferral[b], b) ELSE deferral[b]
        BY <1>3, <3>1, <3>4 DEF HandleTick
      <4>2. CASE b \in Polled /\ Release(deferral[b], b)
        BY <1>3, <4>2 DEF HandleTick, OnItsWay
      <4>3. CASE b \in Polled /\ ~Release(deferral[b], b)
        <5>1. deferral[b] \in Deferral
          BY <3>1, <4>3 DEF Polled
        <5>2. deferral'[b] \in Deferral
          BY <4>1, <4>3, <5>1, LookedType
        <5> QED
          BY <5>2, NoneApart DEF OnItsWay
      <4>4. CASE b \notin Polled
        BY <1>3, <2>1, <3>1, <4>1, <4>4 DEF HandleTick, OnItsWay
      <4> QED
        BY <4>2, <4>3, <4>4
    <3> QED
      BY <3>2, <3>3, <3>4
  <2> QED
    BY <1>3, <1>s, <2>1 DEF HandleTick
<1>4. CASE Fire
  <2>1. ASSUME NEW b \in owed, OnItsWay(b) PROVE OnItsWay(b)'
    BY <1>4, <2>1 DEF Fire, OnItsWay
  <2> QED
    BY <1>4, <1>s, <2>1 DEF Fire
<1>5. CASE Fired
  BY <1>5, <1>s DEF Fired, OnItsWay
<1>6. CASE Select
  BY <1>6, <1>s DEF Select, Return, OnItsWay
<1>7. CASE Attempt
  BY <1>7, <1>s DEF Attempt, Return, OnItsWay
<1>8. CASE Stage \/ Publish \/ PublishFails
  <2>1. current \in Browser /\ pc # "select" /\ Written(current, TRUE)
        /\ UNCHANGED <<watched, timer, promoted, released, stop>>
    BY <1>t, <1>8 DEF Stage, Publish, PublishFails, Calling, Callback
  <2> QED
    BY <1>t, <2>1, WrittenRemembered
<1>9. CASE Tick
  <2>1. ASSUME NEW b \in owed, OnItsWay(b) PROVE OnItsWay(b)'
    <3>1. b \in Browser
      BY <1>o
    <3>2. timer[b] # None => timer'[b] # None
      BY <1>t, <1>9, <3>1, ClockType DEF Tick
    <3>3. deferral[b] # None => deferral'[b] # None
      BY <1>t, <1>9, <3>1, ClockType DEF Tick
    <3> QED
      BY <1>9, <2>1, <3>2, <3>3 DEF Tick, OnItsWay
  <2> QED
    BY <1>9, <1>s, <2>1 DEF Tick
<1>10. CASE Close
  BY <1>10 DEF Close, OwedWatched, NothingForgotten
<1>11. ASSUME NEW c \in Browser, Watch(c) PROVE OwedWatched' /\ NothingForgotten'
  <2>1. ~stop /\ c \notin watched /\ c \notin owed
    BY <1>o, <1>11 DEF Watch
  <2>2. ASSUME NEW b \in owed PROVE OnItsWay(b)'
    BY <1>t, <1>o, <1>n, <1>11, <2>1, <2>2 DEF Watch, OnItsWay, TypeOK
  <2> QED
    BY <1>o, <1>11, <2>1, <2>2 DEF Watch, OwedWatched, NothingForgotten, OnItsWay
<1>12. ASSUME NEW c \in Browser, Unwatch(c) PROVE OwedWatched' /\ NothingForgotten'
  <2>1. ASSUME NEW b \in owed' PROVE OnItsWay(b)'
    BY <1>t, <1>o, <1>n, <1>12, <2>1 DEF Unwatch, OnItsWay, TypeOK
  <2> QED
    BY <1>o, <1>12, <2>1 DEF Unwatch, OwedWatched, NothingForgotten, OnItsWay
<1>13. ASSUME NEW c \in Browser, Write(c) PROVE OwedWatched' /\ NothingForgotten'
  <2>1. PICK top \in BOOLEAN : Written(c, top)
    BY <1>13 DEF Write
  <2> QED
    BY <1>t, <1>13, <2>1, WrittenRemembered DEF Write
<1>14. CASE \E b \in Browser : StartOrQuit(b)
  BY <1>14, <1>s DEF StartOrQuit, OnItsWay
<1>15. CASE UNCHANGED vars
  BY <1>15, <1>s DEF vars, OnItsWay
<1> QED
  BY <1>1, <1>2, <1>3, <1>4, <1>5, <1>6, <1>7, <1>8, <1>9, <1>10, <1>11, <1>12, <1>13,
     <1>14, <1>15 DEF Next, Dispatch

\* Between the event of a write and the callback that looks at it there is no
\* gap, for any number of browsers and any timers, as long as no browser is
\* watched a second time (watcher.rs:481-573, :305-319).
THEOREM NothingIsForgotten == ~Rewatch => (Spec => []NothingForgotten)
<1> SUFFICES ASSUME ~Rewatch PROVE Spec => []NothingForgotten
  OBVIOUS
<1>1. WatchInv => NothingForgotten
  BY DEF WatchInv
<1>2. WatchInv /\ [Next]_vars => WatchInv'
  BY RememberStep
<1> QED
  BY <1>1, <1>2, RememberInit, PTL DEF Spec

(***************************************************************************)
(* The debounce window.                                                    *)
(***************************************************************************)

InQueue(b) == \E i \in DOMAIN queue : queue[i] = b

\* The timer of b and the time since the last write to it make up the window,
\* unless the event of that write is still to be received.
Windowed(b) ==
    timer[b] # None =>
        \/ InQueue(b)
        \/ quiet[b] + timer[b] >= Debounce
        \/ stop /\ quiet[b] = 0

\* The thread may be at a tick when the watcher is closed: no time passes for it then.
QuietInv ==
    /\ TypeInv
    /\ \A b \in Browser : b \notin watched => timer[b] = None
    /\ ~stop \/ pc = "tick" => \A b \in Browser : Windowed(b)

\* What is appended to the channel keeps what is in it.
LEMMA AppendKeeps ==
  ASSUME NEW b, NEW m \in Browser \cup {Wake}, queue \in Seq(Browser \cup {Wake}),
         queue' = Append(queue, m)
  PROVE  InQueue(m)' /\ (InQueue(b) => InQueue(b)')
<1>1. Len(queue) + 1 \in DOMAIN queue' /\ queue'[Len(queue) + 1] = m
  OBVIOUS
<1>2. ASSUME NEW i \in DOMAIN queue, queue[i] = b PROVE i \in DOMAIN queue' /\ queue'[i] = b
  BY <1>2
<1> QED
  BY <1>1, <1>2 DEF InQueue

\* Receiving a message leaves all but it.
LEMMA TailKeeps ==
  ASSUME NEW b, queue \in Seq(Browser \cup {Wake}), queue # <<>>, b # Head(queue),
         queue' = Tail(queue), InQueue(b)
  PROVE  InQueue(b)'
<1>1. PICK i \in DOMAIN queue : queue[i] = b
  BY DEF InQueue
<1>2. i \in 1 .. Len(queue) /\ Len(queue) \in Nat /\ i # 1
  BY <1>1
<1>3. i - 1 \in 1 .. Len(Tail(queue)) /\ Tail(queue)[i - 1] = queue[(i - 1) + 1]
  BY <1>2, HeadTailProperties
<1>4. i - 1 \in DOMAIN queue' /\ queue'[i - 1] = b
  BY <1>1, <1>2, <1>3
<1> QED
  BY <1>4 DEF InQueue

LEMMA QuietInit == Init => QuietInv
  BY TypeInit, ConstantsAssumption DEF Init, QuietInv, Windowed

\* A write raises an event for a watched browser; another's is left in the channel.
LEMMA WrittenWindowed ==
  ASSUME QuietInv, NEW b \in Browser, NEW top \in BOOLEAN, Written(b, top),
         UNCHANGED <<watched, timer, stop>>, ~stop \/ pc = "tick", NEW c \in Browser
  PROVE  Windowed(c)'
<1>1. /\ queue \in Seq(Browser \cup {Wake}) /\ quiet \in [Browser -> 0 .. Debounce]
      /\ Windowed(c) /\ (c \notin watched => timer[c] = None)
  BY DEF QuietInv, TypeInv, TypeOK
<1>2. InQueue(c) => InQueue(c)'
  BY <1>1, AppendKeeps DEF Written, InQueue
<1>3. CASE c # b
  BY <1>1, <1>2, <1>3 DEF Written, Windowed
<1>4. CASE c = b /\ b \in watched /\ ~stop
  BY <1>1, <1>4, AppendKeeps DEF Written, Windowed
<1>5. CASE c = b /\ (b \notin watched \/ stop)
  BY <1>1, <1>5 DEF Written, Windowed
<1> QED
  BY <1>3, <1>4, <1>5

LEMMA QuietStep == QuietInv /\ [Next]_vars => QuietInv'
<1> SUFFICES ASSUME QuietInv, [Next]_vars
             PROVE  /\ \A b \in Browser : b \notin watched' => timer'[b] = None
                    /\ ~stop' \/ pc' = "tick" => \A b \in Browser : Windowed(b)'
  BY TypeStep DEF QuietInv
<1>t. TypeOK /\ Calling
  BY DEF QuietInv, TypeInv
<1>y. /\ timer \in [Browser -> 0 .. Debounce \cup {None}] /\ Debounce \in Nat \ {0}
      /\ quiet \in [Browser -> 0 .. Debounce] /\ queue \in Seq(Browser \cup {Wake})
      /\ stop \in BOOLEAN
  BY <1>t, ConstantsAssumption DEF TypeOK
<1>w. ASSUME NEW b \in Browser, b \notin watched PROVE timer[b] = None
  BY <1>w DEF QuietInv
<1>q. ASSUME NEW b \in Browser, ~stop \/ pc = "tick" PROVE Windowed(b)
  BY <1>q DEF QuietInv
<1> USE DEF entries, firing, world, history
<1>1. CASE Receive
  <2>1. ASSUME NEW b \in Browser, b \notin watched PROVE timer'[b] = None
    BY <1>1, <1>w, <1>y, <2>1 DEF Receive, HandleEvent
  <2>2. ASSUME NEW b \in Browser, ~stop PROVE Windowed(b)'
    <3>1. CASE b = Head(queue) /\ b \in watched
      <4>1. timer'[b] = Debounce /\ quiet'[b] = quiet[b]
        BY <1>1, <1>y, <3>1, NoneApart DEF Receive, HandleEvent
      <4> QED
        BY <1>y, <4>1 DEF Windowed
    <3>2. CASE b = Head(queue) /\ b \notin watched
      BY <2>1, <1>1, <3>2 DEF Windowed, Receive
    <3>3. CASE b # Head(queue)
      <4>1. timer'[b] = timer[b] /\ quiet' = quiet /\ stop' = stop
        BY <1>1, <1>y, <3>3 DEF Receive, HandleEvent
      <4>2. InQueue(b) => InQueue(b)'
        BY <1>1, <1>y, <3>3, TailKeeps DEF Receive
      <4> QED
        BY <1>q, <2>2, <4>1, <4>2 DEF Windowed
    <3> QED
      BY <3>1, <3>2, <3>3
  <2> QED
    BY <1>1, <2>1, <2>2 DEF Receive
<1>2. CASE TimeOut \/ Check \/ Fire \/ Fired \/ Select \/ Attempt
  <2>1. UNCHANGED <<watched, timer, queue, quiet, stop>> /\ (pc' = "tick" => ~stop)
    BY <1>2 DEF TimeOut, Check, Fire, Fired, Select, Attempt, Return
  <2> QED
    BY <1>w, <1>q, <2>1 DEF Windowed, InQueue
<1>3. CASE HandleTick
  <2>1. ASSUME NEW b \in Browser PROVE timer'[b] \in {None, timer[b]}
    BY <1>3, <2>1 DEF HandleTick
  <2> QED
    BY <1>3, <1>w, <1>q, <2>1 DEF HandleTick, Windowed, InQueue
<1>4. CASE Stage \/ Publish \/ PublishFails
  <2>1. current \in Browser /\ Written(current, TRUE) /\ pc' # "tick"
        /\ UNCHANGED <<watched, timer, stop>>
    BY <1>t, <1>4 DEF Stage, Publish, PublishFails, Calling, Callback, Return
  <2> QED
    BY <1>w, <2>1, WrittenWindowed
<1>5. CASE Tick
  <2>1. pc # "tick" /\ UNCHANGED <<pc, watched, queue, stop>>
    BY <1>5 DEF Tick, Callback
  <2>2. ASSUME NEW b \in Browser, ~stop PROVE Windowed(b)'
    <3>1. timer[b] = None => timer'[b] = None
      BY <1>5 DEF Tick
    <3>2. CASE timer[b] # None
      <4>1. timer[b] \in 0 .. Debounce /\ quiet[b] \in 0 .. Debounce
        BY <1>y, <3>2
      <4>2. timer'[b] = Down(timer[b]) /\ quiet'[b] = Up(quiet[b], Debounce)
        BY <1>5, <3>2 DEF Tick
      <4>3. quiet[b] + timer[b] >= Debounce => quiet'[b] + timer'[b] >= Debounce
        BY <1>y, <4>1, <4>2 DEF Up, Down
      <4> QED
        BY <1>q, <2>1, <2>2, <3>2, <4>3 DEF Windowed, InQueue
    <3> QED
      BY <3>1, <3>2 DEF Windowed
  <2>3. ASSUME NEW b \in Browser, b \notin watched PROVE timer'[b] = None
    BY <1>5, <1>w, <2>3 DEF Tick
  <2> QED
    BY <2>1, <2>2, <2>3
<1>6. CASE Close
  <2>1. ASSUME NEW b \in Browser, ~stop, pc = "tick" PROVE Windowed(b)'
    BY <1>6, <1>y, <1>q, <2>1, AppendKeeps DEF Close, Windowed
  <2> QED
    BY <1>6, <1>w, <2>1 DEF Close
<1>7. ASSUME NEW c \in Browser, Watch(c) \/ Unwatch(c)
      PROVE  /\ \A b \in Browser : b \notin watched' => timer'[b] = None
             /\ ~stop' \/ pc' = "tick" => \A b \in Browser : Windowed(b)'
  BY <1>7, <1>w, <1>q, <1>y DEF Watch, Unwatch, Windowed, InQueue
<1>8. ASSUME NEW c \in Browser, Write(c)
      PROVE  /\ \A b \in Browser : b \notin watched' => timer'[b] = None
             /\ ~stop' \/ pc' = "tick" => \A b \in Browser : Windowed(b)'
  <2>1. PICK top \in BOOLEAN : Written(c, top)
    BY <1>8 DEF Write
  <2> QED
    BY <1>8, <1>w, <2>1, WrittenWindowed DEF Write
<1>9. CASE \E b \in Browser : StartOrQuit(b)
  BY <1>9, <1>w, <1>q DEF StartOrQuit, Windowed, InQueue
<1>10. CASE UNCHANGED vars
  BY <1>10, <1>w, <1>q DEF vars, Windowed, InQueue
<1> QED
  BY <1>1, <1>2, <1>3, <1>4, <1>5, <1>6, <1>7, <1>8, <1>9, <1>10 DEF Next, Dispatch

\* A callback that is due because its timer elapsed follows a full window without
\* writes, or the event of a later one waits in the channel behind another
\* installation's (Watcher!FiresOnlyWhenQuiet), for any number of browsers and any
\* window, whatever is watched, unwatched or closed meanwhile.
THEOREM FiresAfterTheWindow == Spec => FiresOnlyWhenQuiet
<1>1. QuietInv /\ [Next]_vars =>
        [pc = "tick" /\ pc' = "fire" =>
           \A b \in promoted' : quiet[b] \in 1 .. (Debounce - 1) =>
               \E i \in DOMAIN queue : queue[i] = b]_vars
  <2> SUFFICES ASSUME QuietInv, [Next]_vars, pc = "tick", pc' = "fire",
                      NEW b \in promoted', quiet[b] \in 1 .. (Debounce - 1)
               PROVE  InQueue(b)
    BY DEF InQueue
  <2>1. HandleTick
    BY DEF Next, Dispatch, Receive, TimeOut, Check, Fire, Fired, Select, Attempt, Stage,
       Publish, PublishFails, Tick, Callback, Close, Watch, Unwatch, Write, StartOrQuit, vars
  <2>2. b \in Browser /\ timer[b] = 0
    BY <2>1 DEF HandleTick, Elapsed, QuietInv, TypeInv, TypeOK
  <2>3. 0 # None /\ Debounce \in Nat
    BY ConstantsAssumption
  <2>4. Windowed(b)
    BY <2>2 DEF QuietInv
  <2> QED
    BY <2>2, <2>3, <2>4 DEF Windowed
<1> QED
  BY <1>1, QuietInit, QuietStep, PTL DEF Spec, FiresOnlyWhenQuiet
=============================================================================
