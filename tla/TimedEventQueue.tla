--------------------------- MODULE TimedEventQueue ---------------------------
(***************************************************************************)
(* The queue of timed events of the players of stagefright                 *)
(* (media/libstagefright/TimedEventQueue.cpp): events posted with a time   *)
(* or at either end, cancelled, and fired by a thread without the lock,    *)
(* a stop that flushes or discards, and the wake lock that is held while   *)
(* an event is far away, from a power manager that may fail or die.        *)
(*                                                                         *)
(* Each post makes an event of its own, numbered as mNextEventID does.     *)
(* One action is one critical section, or a wait without the lock.         *)
(***************************************************************************)
EXTENDS Integers, FiniteSets, SequencesExt

CONSTANTS
  kWakelockMinDelay,
  MaxTime,       \* bound on the clock
  MaxEvents,     \* bound on the events posted
  MaxDeaths      \* bound on the deaths of the power manager

ASSUME BoundAssumption == {kWakelockMinDelay, MaxTime, MaxEvents, MaxDeaths} \subseteq Nat

Event == 1 .. MaxEvents
NoEvent == 0

\* Times: INT64_MIN, INT64_MIN + 1 and INT64_MAX beside those of the clock.
AtOnce == -2
AtFront == -1
AtBack == MaxTime + 1
Time == {AtOnce, AtFront, AtBack} \cup 0 .. MaxTime

VARIABLES
  now,
  mQueue,        \* the events, in order
  realtime_us,   \* of each Event
  has_wakelock,  \* the events in the queue for which the wake lock has been asked
  fate,          \* of each Event
  mRunning, mStopped, mWakeLockCount,
  deaths,        \* of the power manager
  \* threadEntry()
  tpc, event, wakeLocked,
  \* the caller of stop()
  flush, stopEvent

queueVars == <<mQueue, realtime_us, has_wakelock, fate, mWakeLockCount, deaths>>
threadVars == <<tpc, event, wakeLocked>>
ownerVars == <<mRunning, flush, stopEvent>>
vars == <<now, queueVars, mStopped, threadVars, ownerVars>>

TypeOK ==
  /\ now \in 0 .. MaxTime /\ mQueue \in Seq(Event) /\ has_wakelock \subseteq Event
  /\ realtime_us \in [Event -> Time]
  /\ fate \in [Event -> {"new", "queued", "firing", "done"}]
  /\ {mRunning, mStopped, wakeLocked, flush} \subseteq BOOLEAN
  /\ mWakeLockCount \in 0 .. MaxEvents /\ deaths \in 0 .. MaxDeaths
  /\ tpc \in {"none", "top", "empty", "check", "timed", "head", "expired", "fire", "release"}
  /\ {event, stopEvent} \subseteq Event \cup {NoEvent}

Init ==
  /\ now = 0 /\ mQueue = <<>> /\ realtime_us = [e \in Event |-> AtOnce] /\ has_wakelock = {}
  /\ fate = [e \in Event |-> "new"]
  /\ mRunning = FALSE /\ mStopped = FALSE /\ mWakeLockCount = 0 /\ deaths = 0
  /\ tpc = "none" /\ event = NoEvent /\ wakeLocked = FALSE
  /\ flush = FALSE /\ stopEvent = NoEvent

Tick ==
  /\ now < MaxTime /\ now' = now + 1
  /\ UNCHANGED <<queueVars, mStopped, threadVars, ownerVars>>

Due(e) == realtime_us[e] < 0 \/ realtime_us[e] = AtBack \/ realtime_us[e] <= now

\* The events of S have been fired, cancelled or discarded.
Done(S) ==
  /\ fate' = [e \in Event |-> IF e \in S THEN "done" ELSE fate[e]]
  /\ realtime_us' = [e \in Event |-> IF e \in S THEN AtOnce ELSE realtime_us[e]]

\* The state of the thread after the signals of a post or a cancellation.
Signalled(headChanged, notEmpty) ==
  IF headChanged /\ tpc = "timed" THEN "head"
  ELSE IF notEmpty /\ tpc = "empty" THEN "check" ELSE tpc
-----------------------------------------------------------------------------
(* The wake lock.  A power manager that is not there, or refuses, leaves the *)
(* count at 0; the event is taken to have the lock all the same.             *)

acquireWakeLock_l(granted) ==
  mWakeLockCount' = IF mWakeLockCount = 0 /\ ~granted THEN 0 ELSE mWakeLockCount + 1
releaseWakeLock_l(n) == mWakeLockCount' = Max({mWakeLockCount - n, 0})

\* The power manager dies: clearPowerManager().
BinderDied ==
  /\ deaths < MaxDeaths /\ deaths' = deaths + 1
  /\ mWakeLockCount' = 0
  /\ UNCHANGED <<now, mQueue, realtime_us, has_wakelock, fate, mStopped, threadVars, ownerVars>>
-----------------------------------------------------------------------------
(* postTimedEvent() and cancelEvents(), by any thread, an event's included *)

Posted == {e \in Event : fate[e] # "new"}

Place_Mutant(when) == Cardinality({i \in DOMAIN mQueue : realtime_us[mQueue[i]] < when}) + 1
Place(when) == Cardinality({i \in DOMAIN mQueue : realtime_us[mQueue[i]] <= when}) + 1

postTimedEvent(e, when) ==
  LET place == Place(when)
  IN /\ e = Cardinality(Posted) + 1
     /\ fate' = [fate EXCEPT ![e] = "queued"]
     /\ realtime_us' = [realtime_us EXCEPT ![e] = when]
     /\ mQueue' = InsertAt(mQueue, place, e)
     /\ tpc' = Signalled(place = 1, TRUE)
     /\ IF when > now + kWakelockMinDelay
        THEN /\ has_wakelock' = has_wakelock \cup {e}
             /\ \E granted \in BOOLEAN : acquireWakeLock_l(granted)
        ELSE UNCHANGED <<has_wakelock, mWakeLockCount>>
     /\ UNCHANGED <<now, deaths, mStopped, event, wakeLocked>>

\* postEvent(), postEventToBack(), postEventWithDelay(), postTimedEvent()
Post(e, when) == when # AtOnce /\ postTimedEvent(e, when) /\ UNCHANGED ownerVars

\* The events of q that are not in S.
Without(q, S) ==
  LET kept[n \in 0 .. Len(q)] ==
        IF n = 0 THEN <<>>
        ELSE IF q[n] \in S THEN kept[n - 1] ELSE Append(kept[n - 1], q[n])
  IN kept[Len(q)]

\* Cancelling the events of S; cancelEvent() cancels one.
cancelEvents_Mutant(S) ==
  /\ S # {} /\ S \subseteq ToSet(mQueue) \ {stopEvent}
  /\ Done(S)
  /\ mQueue' = Without(mQueue, S)
  /\ tpc' = Signalled(mQueue[1] \in S, FALSE)
  /\ has_wakelock' = has_wakelock \ S
  /\ UNCHANGED <<now, mWakeLockCount, deaths, mStopped, event, wakeLocked, ownerVars>>
cancelEvents(S) ==
  /\ S # {} /\ S \subseteq ToSet(mQueue) \ {stopEvent}
  /\ Done(S)
  /\ mQueue' = Without(mQueue, S)
  /\ tpc' = Signalled(mQueue[1] \in S, FALSE)
  /\ has_wakelock' = has_wakelock \ S
  /\ releaseWakeLock_l(Cardinality(S \cap has_wakelock))
  /\ UNCHANGED <<now, deaths, mStopped, event, wakeLocked, ownerVars>>
-----------------------------------------------------------------------------
(* start() and stop(), by the owner *)

start ==
  /\ ~mRunning /\ mRunning' = TRUE
  /\ mStopped' = FALSE
  /\ tpc' = "top"
  /\ UNCHANGED <<now, queueVars, event, wakeLocked, flush, stopEvent>>

\* The StopEvent is posted; the caller joins the thread.
stop(e, flushes) ==
  /\ mRunning /\ stopEvent = NoEvent
  /\ postTimedEvent(e, IF flushes THEN AtBack ELSE AtOnce)
  /\ stopEvent' = e /\ flush' = flushes
  /\ UNCHANGED mRunning

Joined ==
  /\ stopEvent # NoEvent /\ tpc = "none"
  /\ mWakeLockCount' = 0 /\ mQueue' = <<>> /\ has_wakelock' = {}
  /\ Done(ToSet(mQueue))
  /\ mRunning' = FALSE
  /\ stopEvent' = NoEvent /\ flush' = FALSE
  /\ UNCHANGED <<now, deaths, mStopped, threadVars>>
-----------------------------------------------------------------------------
(* threadEntry() *)

Enter(place) == tpc' = place

Stopped ==
  /\ tpc = "top" /\ mStopped
  /\ Enter("none")
  /\ UNCHANGED <<now, queueVars, mStopped, event, wakeLocked, ownerVars>>
WaitForEvent ==
  /\ tpc = "check" \/ (tpc = "top" /\ ~mStopped)
  /\ mQueue = <<>>
  /\ Enter("empty")
  /\ UNCHANGED <<now, queueVars, mStopped, event, wakeLocked, ownerVars>>

\* removeEventFromQueue_l(id), and the event is fired if it is still there.
removeEventFromQueue_l_Mutant(id) ==
  IF mQueue # <<>>
  THEN /\ Enter("fire") /\ event' = mQueue[1] /\ wakeLocked' = (mQueue[1] \in has_wakelock)
       /\ mQueue' = Tail(mQueue)
       /\ has_wakelock' = has_wakelock \ {mQueue[1]}
       /\ fate' = [fate EXCEPT ![mQueue[1]] = "firing"]
  ELSE Enter("top") /\ event' = NoEvent /\ UNCHANGED <<wakeLocked, mQueue, has_wakelock, fate>>
removeEventFromQueue_l(id) ==
  IF Contains(mQueue, id)
  THEN /\ Enter("fire") /\ event' = id /\ wakeLocked' = (id \in has_wakelock)
       /\ mQueue' = Without(mQueue, {id})
       /\ has_wakelock' = has_wakelock \ {id}
       /\ fate' = [fate EXCEPT ![id] = "firing"]
  ELSE Enter("top") /\ event' = NoEvent /\ UNCHANGED <<wakeLocked, mQueue, has_wakelock, fate>>

\* The loop that waits for the head to be due.
Looking == tpc \in {"head", "check"} \/ (tpc = "top" /\ ~mStopped)
AllCancelled ==
  /\ tpc = "head" /\ mQueue = <<>>
  /\ removeEventFromQueue_l(event)
  /\ UNCHANGED <<now, realtime_us, mWakeLockCount, deaths, mStopped, ownerVars>>
HeadIsDue ==
  /\ Looking /\ mQueue # <<>> /\ Due(mQueue[1])
  /\ removeEventFromQueue_l(mQueue[1])
  /\ UNCHANGED <<now, realtime_us, mWakeLockCount, deaths, mStopped, ownerVars>>
WaitForHead ==
  /\ Looking /\ mQueue # <<>> /\ ~Due(mQueue[1])
  /\ Enter("timed") /\ event' = mQueue[1]
  /\ UNCHANGED <<now, queueVars, mStopped, wakeLocked, ownerVars>>

\* The wait ends at its time, and the thread gets the lock later.
TimeUp ==
  /\ tpc = "timed" /\ Due(event)
  /\ Enter("expired")
  /\ UNCHANGED <<now, queueVars, mStopped, event, wakeLocked, ownerVars>>
Expired ==
  /\ tpc = "expired"
  /\ removeEventFromQueue_l(event)
  /\ UNCHANGED <<now, realtime_us, mWakeLockCount, deaths, mStopped, ownerVars>>

\* fire(), without the lock.
Fired ==
  /\ tpc = "fire"
  /\ Done({event})
  /\ mStopped' = (mStopped \/ event = stopEvent)
  /\ Enter(IF wakeLocked THEN "release" ELSE "top")
  /\ event' = NoEvent
  /\ UNCHANGED <<now, mQueue, has_wakelock, mWakeLockCount, deaths, wakeLocked, ownerVars>>
Release ==
  /\ tpc = "release" /\ Enter("top")
  /\ releaseWakeLock_l(1) /\ wakeLocked' = FALSE
  /\ UNCHANGED <<now, mQueue, realtime_us, has_wakelock, fate, deaths, mStopped, event, ownerVars>>

threadEntry ==
  \/ Stopped \/ WaitForEvent \/ AllCancelled \/ HeadIsDue \/ WaitForHead \/ TimeUp
  \/ Expired \/ Fired \/ Release
-----------------------------------------------------------------------------
Client ==
  \/ \E e \in Event, when \in Time : Post(e, when)
  \/ \E e \in Event, flushes \in BOOLEAN : stop(e, flushes)
  \/ \E S \in SUBSET Event : cancelEvents(S)
  \/ start
Next == Tick \/ BinderDied \/ Client \/ Joined \/ threadEntry

Spec == Init /\ [][Next]_vars
-----------------------------------------------------------------------------
(* Properties *)

(***************************************************************************)
(* An event is fired when its time has come and not before, though the     *)
(* thread finds it by its number after a wait in which it may have been    *)
(* cancelled and others put in its place.                                  *)
(***************************************************************************)
FiresWhenDue ==
  [][\A e \in Event :
       fate'[e] = "firing" /\ fate[e] # "firing" => fate[e] = "queued" /\ Due(e)]_vars

(***************************************************************************)
(* "otherwise the queue will stop (and this call return) once all pending  *)
(* events have been handled": stop(true) discards none of those that were  *)
(* posted before it.                                                       *)
(***************************************************************************)
FlushHandlesAll ==
  stopEvent # NoEvent /\ flush /\ tpc = "none" =>
    \A e \in 1 .. stopEvent : fate[e] # "queued"

(***************************************************************************)
(* The wake lock is held for events that are far away or firing and for    *)
(* nothing else, whatever the power manager does.                          *)
(***************************************************************************)
NoWakeLockLeak ==
  mWakeLockCount <= Cardinality(has_wakelock) + (IF wakeLocked THEN 1 ELSE 0)

(***************************************************************************)
(* The wake lock is not given up while an event for which it was asked     *)
(* waits or fires, unless the power manager has died.                      *)
(***************************************************************************)
WakeLockIsKept ==
  [][mWakeLockCount > 0 /\ mWakeLockCount' = 0 /\ deaths' = deaths =>
       has_wakelock' = {} /\ ~wakeLocked']_vars
=============================================================================
