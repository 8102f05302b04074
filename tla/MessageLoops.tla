----------------------------- MODULE MessageLoops -----------------------------
(***************************************************************************)
(* The message loops of stagefright (media/libstagefright/foundation):     *)
(* ALooper, a queue of messages with times and the thread that delivers    *)
(* them; ALooperRoster, which knows the loopers of the registered handlers *)
(* and keeps the replies that senders wait for; and AMessage's post(),     *)
(* postAndAwaitResponse() and postReply().  A handler runs on its looper's *)
(* thread, and may itself post, wait, unregister or stop the looper.       *)
(*                                                                         *)
(* Each message is posted once, and numbered as it is.  A handler that is  *)
(* asked for a reply gives it before it returns.  Loopers that run on the  *)
(* calling thread, and the destruction of loopers and handlers, are left   *)
(* out.                                                                    *)
(***************************************************************************)
EXTENDS Integers, FiniteSets, Sequences, SequencesExt

CONSTANTS
  Looper, Handler,
  LooperOf,      \* the looper of each Handler
  Client,        \* threads that are not a looper's
  Owner,         \* those of them that start and stop loopers
  LooperThread,  \* the threads that start() creates
  ThreadOf,      \* the looper of each LooperThread
  Awaits,        \* <<c, h>>: c may wait for a response of h
  MaxTime,       \* bound on the clock
  Scenarios,     \* bounds: the handlers registered, the threads there are or that start()
                 \* may create, how many messages are posted, and the first time
  None           \* no thread, no handler

Thread == Client \cup LooperThread

ASSUME SetAssumption ==
  /\ Owner \subseteq Client /\ Client \cap LooperThread = {}
  /\ None \notin Thread
  /\ LooperOf \in [Handler -> Looper] /\ ThreadOf \in [LooperThread -> Looper]
ASSUME AwaitsAssumption == Awaits \subseteq Thread \X Handler
ASSUME BoundAssumption ==
  /\ MaxTime \in Nat /\ Scenarios # {}
  /\ Scenarios \subseteq [handlers : SUBSET Handler, threads : SUBSET Thread, messages : Nat,
                    now : 0 .. MaxTime]

Message == UNION {1 .. s.messages : s \in Scenarios}
NoMessage == 0
Freed == [target |-> None, whenUs |-> 0, sender |-> None]

VARIABLES
  now,
  scenario,      \* one of Scenarios
  \* ALooper
  mEventQueue,   \* of each Looper: the messages, in the order of their mWhenUs
  mThread,       \* of each Looper
  \* ALooperRoster
  mHandlers,     \* the handlers registered
  mReplies,      \* the messages that have been replied to; a message is its replyID
  \* of each Message: whether it has been posted, and
  state,
  event,         \* its handler and its time, and who waits for its response, if anybody
  \* of each Thread
  pc,
  message,       \* the one whose response it waits for
  delivering,    \* of each LooperThread: the message it has taken, or waits for
  joining,       \* the thread that stop() has found
  exitPending    \* the threads that have been asked to exit

messageVars == <<state, event>>
vars == <<now, scenario, mEventQueue, mThread, mHandlers, mReplies, messageVars, pc, message,
          delivering, joining, exitPending>>

Busy == {"free", "handling"}    \* in code that may call a looper
TypeOK ==
  /\ now \in 0 .. MaxTime /\ scenario \in Scenarios
  /\ mEventQueue \in [Looper -> Seq(Message)]
  /\ mThread \in [Looper -> LooperThread \cup {None}]
  /\ mHandlers \subseteq Handler /\ mReplies \subseteq Message
  /\ state \in [Message -> {"new", "queued", "taken", "replied", "handled", "dropped"}]
  /\ event \in [Message -> [target : Handler \cup {None}, whenUs : 0 .. MaxTime,
                            sender : Thread \cup {None}]]
  /\ pc \in [Thread -> {"free", "asleep", "woken", "stopping", "join", "unborn", "check", "loop",
                        "wait", "timed", "deliver", "handling", "dead"}]
  /\ \A t \in LooperThread : pc[t] # "free"
  /\ \A c \in Client : pc[c] \in {"free", "asleep", "woken", "stopping", "join"}
  /\ message \in [Thread -> Message \cup {NoMessage}]
  /\ delivering \in [LooperThread -> Message \cup {NoMessage}]
  /\ joining \in [Thread -> LooperThread \cup {None}]
  /\ exitPending \subseteq LooperThread

Init ==
  /\ scenario \in Scenarios
  /\ now = scenario.now
  /\ mEventQueue = [l \in Looper |-> <<>>] /\ mThread = [l \in Looper |-> None]
  /\ mHandlers = scenario.handlers /\ mReplies = {}
  /\ state = [m \in Message |-> "new"] /\ event = [m \in Message |-> Freed]
  /\ pc = [t \in Thread |-> IF t \in Client THEN "free" ELSE "unborn"]
  /\ message = [t \in Thread |-> NoMessage]
  /\ delivering = [t \in LooperThread |-> NoMessage]
  /\ joining = [t \in Thread |-> None] /\ exitPending = {}

\* The clock; it stops at the bound, when no message is later.
Tick ==
  /\ now < MaxTime /\ now' = now + 1
  /\ UNCHANGED <<scenario, mEventQueue, mThread, mHandlers, mReplies, messageVars, pc,
                 message, delivering, joining, exitPending>>

\* mQueueChangedCondition.signal(): the states of the threads afterwards.  Only the
\* threads of the looper wait for it.
Waiting(l) == {t \in LooperThread : ThreadOf[t] = l /\ pc[t] \in {"wait", "timed"}}
signal(l, p) ==
  IF Waiting(l) = {} THEN {p} ELSE {[p EXCEPT ![t] = "check"] : t \in Waiting(l)}
-----------------------------------------------------------------------------
(* ALooper::start() and stop(), unregisterHandler() *)

start(c, l, t) ==
  /\ c \in Owner /\ pc[c] = "free"
  /\ mThread[l] = None /\ ThreadOf[t] = l /\ pc[t] = "unborn" /\ t \in scenario.threads
  /\ mThread' = [mThread EXCEPT ![l] = t]
  /\ pc' = [pc EXCEPT ![t] = "check"]
  /\ UNCHANGED <<now, scenario, mEventQueue, mHandlers, mReplies, messageVars, message,
                 delivering, joining, exitPending>>

\* stop() with mLock: by an owner, or by a handler on its own looper.
stop(c, l) ==
  /\ pc[c] \in Busy /\ (c \in Owner \/ (c \in LooperThread /\ ThreadOf[c] = l))
  /\ mThread[l] # None
  /\ joining' = [joining EXCEPT ![c] = mThread[l]]
  /\ mThread' = [mThread EXCEPT ![l] = None]
  /\ pc' = [pc EXCEPT ![c] = "stopping"]
  /\ UNCHANGED <<now, scenario, mEventQueue, mHandlers, mReplies, messageVars, message,
                 delivering, exitPending>>

\* Without the lock: requestExit(), the signal, and unless it is the thread itself
\* requestExitAndWait().
RequestExit_Mutant(c) ==
  /\ pc[c] = "stopping"
  /\ LET t == joining[c]
     IN /\ exitPending' = exitPending \cup {t}
        /\ pc' = [pc EXCEPT ![c] = IF c = t THEN "handling" ELSE "join"]
        /\ joining' = IF c = t THEN [joining EXCEPT ![c] = None] ELSE joining
  /\ UNCHANGED <<now, scenario, mEventQueue, mThread, mHandlers, mReplies, messageVars,
                 message, delivering>>
RequestExit(c) ==
  /\ pc[c] = "stopping"
  /\ LET t == joining[c]
     IN /\ exitPending' = exitPending \cup {t}
        /\ pc' \in signal(ThreadOf[t], [pc EXCEPT ![c] = IF c = t THEN "handling" ELSE "join"])
        /\ joining' = IF c = t THEN [joining EXCEPT ![c] = None] ELSE joining
  /\ UNCHANGED <<now, scenario, mEventQueue, mThread, mHandlers, mReplies, messageVars,
                 message, delivering>>

Join(c) ==
  /\ pc[c] = "join" /\ pc[joining[c]] = "dead"
  /\ joining' = [joining EXCEPT ![c] = None]
  /\ pc' = [pc EXCEPT ![c] = IF c \in Client THEN "free" ELSE "handling"]
  /\ UNCHANGED <<now, scenario, mEventQueue, mThread, mHandlers, mReplies, messageVars,
                 message, delivering, exitPending>>

unregisterHandler(c, h) ==
  /\ pc[c] \in Busy /\ (c \in Owner \/ (c \in LooperThread /\ ThreadOf[c] = LooperOf[h]))
  /\ h \in mHandlers
  /\ mHandlers' = mHandlers \ {h}
  /\ UNCHANGED <<now, scenario, mEventQueue, mThread, mReplies, messageVars, pc,
                 message, delivering, joining, exitPending>>
-----------------------------------------------------------------------------
(* ALooper::post(), by AMessage::post() or postAndAwaitResponse().  A handler *)
(* that is not registered has no looper, and nothing is posted; one that is   *)
(* unregistered after findLooper() is as if it were after the post.           *)

\* The place in q of a message due at whenUs: after those due by then.
Place(q, whenUs) == Cardinality({i \in DOMAIN q : event[q[i]].whenUs <= whenUs}) + 1

Posted == {m \in Message : state[m] # "new"}

\* The queue of l with m in it, and the states p of the threads once the looper's thread
\* has been signalled, if it has a new first message to wait for.
post_Mutant(m, h, delayUs, awaiting, p) ==
  LET l == LooperOf[h]
      whenUs == now + delayUs
  IN /\ m = Cardinality(Posted) + 1 /\ m <= scenario.messages
     /\ h \in mHandlers /\ whenUs <= MaxTime
     /\ mEventQueue' = [mEventQueue EXCEPT ![l] = InsertAt(@, Place(@, whenUs), m)]
     /\ pc' \in IF mEventQueue[l] = <<>> THEN signal(l, p) ELSE {p}
     /\ state' = [state EXCEPT ![m] = "queued"]
     /\ event' = [event EXCEPT ![m] = [target |-> h, whenUs |-> whenUs, sender |-> awaiting]]
post(m, h, delayUs, awaiting, p) ==
  LET l == LooperOf[h]
      whenUs == now + delayUs
      place == Place(mEventQueue[l], whenUs)
  IN /\ m = Cardinality(Posted) + 1 /\ m <= scenario.messages
     /\ h \in mHandlers /\ whenUs <= MaxTime
     /\ mEventQueue' = [mEventQueue EXCEPT ![l] = InsertAt(@, place, m)]
     /\ pc' \in IF place = 1 THEN signal(l, p) ELSE {p}
     /\ state' = [state EXCEPT ![m] = "queued"]
     /\ event' = [event EXCEPT ![m] = [target |-> h, whenUs |-> whenUs, sender |-> awaiting]]

Post(c, m, h, delayUs) ==
  /\ pc[c] \in Busy
  /\ post(m, h, delayUs, None, pc)
  /\ UNCHANGED <<now, scenario, mThread, mHandlers, mReplies, message, delivering,
                 joining, exitPending>>

\* The sender holds the roster's lock from the post until it sleeps.
PostAndAwaitResponse(c, m, h) ==
  /\ pc[c] \in Busy /\ <<c, h>> \in Awaits
  /\ post(m, h, 0, c, [pc EXCEPT ![c] = "asleep"])
  /\ message' = [message EXCEPT ![c] = m]
  /\ UNCHANGED <<now, scenario, mThread, mHandlers, mReplies, delivering, joining,
                 exitPending>>

\* mRepliesCondition has been signalled: the sender looks for its reply.
GetReply(c) ==
  /\ pc[c] = "woken"
  /\ IF message[c] \in mReplies
     THEN /\ mReplies' = mReplies \ {message[c]}
          /\ message' = [message EXCEPT ![c] = NoMessage]
          /\ pc' = [pc EXCEPT ![c] = IF c \in Client THEN "free" ELSE "handling"]
     ELSE pc' = [pc EXCEPT ![c] = "asleep"] /\ UNCHANGED <<mReplies, message>>
  /\ UNCHANGED <<now, scenario, mEventQueue, mThread, mHandlers, messageVars,
                 delivering, joining, exitPending>>
-----------------------------------------------------------------------------
(* A LooperThread: ALooper::loop() again and again, until it returns false or an *)
(* exit is pending.                                                          *)

loopVars == <<now, scenario, mThread, mHandlers, joining, exitPending>>
Enter(t, place) == pc' = [pc EXCEPT ![t] = place]
First(t) == mEventQueue[ThreadOf[t]][1]

Check_Mutant(t) ==
  /\ pc[t] = "check"
  /\ Enter(t, "loop")
  /\ delivering' = [delivering EXCEPT ![t] = NoMessage]
  /\ UNCHANGED <<mEventQueue, mReplies, messageVars, message, loopVars>>
Check(t) ==
  /\ pc[t] = "check"
  /\ Enter(t, IF t \in exitPending THEN "dead" ELSE "loop")
  /\ delivering' = [delivering EXCEPT ![t] = NoMessage]
  /\ UNCHANGED <<mEventQueue, mReplies, messageVars, message, loopVars>>

Looping(t) == pc[t] = "loop" /\ mThread[ThreadOf[t]] # None

Stopped(t) ==
  /\ pc[t] = "loop" /\ mThread[ThreadOf[t]] = None
  /\ Enter(t, "dead")
  /\ UNCHANGED <<mEventQueue, mReplies, messageVars, message, delivering, loopVars>>
Wait(t) ==
  /\ Looping(t) /\ mEventQueue[ThreadOf[t]] = <<>>
  /\ Enter(t, "wait")
  /\ UNCHANGED <<mEventQueue, mReplies, messageVars, message, delivering, loopVars>>
WaitRelative(t) ==
  /\ Looping(t) /\ mEventQueue[ThreadOf[t]] # <<>> /\ event[First(t)].whenUs > now
  /\ Enter(t, "timed")
  /\ delivering' = [delivering EXCEPT ![t] = First(t)]
  /\ UNCHANGED <<mEventQueue, mReplies, messageVars, message, loopVars>>
TimeUp(t) ==
  /\ pc[t] = "timed" /\ event[delivering[t]].whenUs <= now
  /\ Enter(t, "check")
  /\ UNCHANGED <<mEventQueue, mReplies, messageVars, message, delivering, loopVars>>
Take(t) ==
  /\ Looping(t) /\ mEventQueue[ThreadOf[t]] # <<>> /\ event[First(t)].whenUs <= now
  /\ Enter(t, "deliver")
  /\ delivering' = [delivering EXCEPT ![t] = First(t)]
  /\ state' = [state EXCEPT ![First(t)] = "taken"]
  /\ mEventQueue' = [mEventQueue EXCEPT ![ThreadOf[t]] = Tail(@)]
  /\ UNCHANGED <<mReplies, event, message, loopVars>>

\* ALooperRoster::deliverMessage()
deliverMessage(t) ==
  /\ pc[t] = "deliver"
  /\ IF event[delivering[t]].target \in mHandlers
     THEN Enter(t, "handling") /\ UNCHANGED state
          /\ UNCHANGED delivering
     ELSE Enter(t, "check") /\ state' = [state EXCEPT ![delivering[t]] = "dropped"]
          /\ delivering' = [delivering EXCEPT ![t] = NoMessage]
  /\ UNCHANGED <<mEventQueue, mReplies, event, message, loopVars>>

\* AMessage::postReply(), in onMessageReceived().  mRepliesCondition is broadcast.
postReply_Mutant(t) ==
  LET m == delivering[t]
      asleep == {c \in Thread : pc[c] = "asleep"}
  IN /\ pc[t] = "handling" /\ event[m].sender # None /\ state[m] = "taken"
     /\ mReplies' = mReplies \cup {m}
     /\ state' = [state EXCEPT ![m] = "replied"]
     /\ IF asleep = {} THEN UNCHANGED pc ELSE \E c \in asleep : Enter(c, "woken")
     /\ UNCHANGED <<mEventQueue, event, message, delivering, loopVars>>
postReply(t) ==
  LET m == delivering[t]
  IN /\ pc[t] = "handling" /\ event[m].sender # None /\ state[m] = "taken"
     /\ mReplies' = mReplies \cup {m}
     /\ state' = [state EXCEPT ![m] = "replied"]
     /\ pc' = [c \in Thread |-> IF pc[c] = "asleep" THEN "woken" ELSE pc[c]]
     /\ UNCHANGED <<mEventQueue, event, message, delivering, loopVars>>

\* onMessageReceived() returns.
Return(t) ==
  LET m == delivering[t]
  IN /\ pc[t] = "handling" /\ (event[m].sender = None \/ state[m] = "replied")
     /\ state' = [state EXCEPT ![m] = "handled"]
     /\ event' = [event EXCEPT ![m] = Freed]
     /\ Enter(t, "check") /\ delivering' = [delivering EXCEPT ![t] = NoMessage]
     /\ UNCHANGED <<mEventQueue, mReplies, message, loopVars>>

Run(t) ==
  \/ Check(t) \/ Stopped(t) \/ Wait(t) \/ WaitRelative(t) \/ TimeUp(t) \/ Take(t)
  \/ deliverMessage(t) \/ postReply(t) \/ Return(t)
-----------------------------------------------------------------------------
\* What a thread does when it likes, and what it goes on to do.
Call(c) ==
  \/ \E l \in Looper : stop(c, l) \/ \E t \in LooperThread : start(c, l, t)
  \/ \E h \in Handler :
       \/ unregisterHandler(c, h)
       \/ \E m \in Message :
            \/ PostAndAwaitResponse(c, m, h)
            \/ \E delayUs \in 0 .. MaxTime : Post(c, m, h, delayUs)
Proceed(c) == RequestExit(c) \/ Join(c) \/ GetReply(c)

Next ==
  \/ Tick \/ (\E t \in LooperThread : Run(t))
  \/ \E c \in scenario.threads : Call(c) \/ Proceed(c)

Spec == Init /\ [][Next]_vars

\* Threads are scheduled, handlers return, and time passes.
Fairness ==
  /\ WF_vars(Tick)
  /\ \A t \in LooperThread : WF_vars(Run(t))
  /\ \A c \in Thread : WF_vars(Proceed(c))
FairSpec == Spec /\ Fairness
-----------------------------------------------------------------------------
(* Properties *)

(***************************************************************************)
(* A reply that has been posted is awaited by a thread that is about to    *)
(* look for it: none is lost to another sender, or waits for a next reply. *)
(***************************************************************************)
ReplyWakesItsSender ==
  \A m \in mReplies : \E c \in Thread : message[c] = m /\ pc[c] = "woken"

(***************************************************************************)
(* A looper's messages are taken in the order of their times, and those of *)
(* the same time in the order in which they were posted, whoever posts;    *)
(* and only by its current thread: "the loop() function will return and    *)
(* never be called again" once stop() has found the thread, though the     *)
(* looper may be started again before that thread has exited.              *)
(***************************************************************************)
Before(m, n) ==
  event[m].whenUs < event[n].whenUs \/ (event[m].whenUs = event[n].whenUs /\ m < n)
Takes(m) == state[m] = "queued" /\ state'[m] = "taken"
TakenInTurn ==
  [][/\ \A m, n \in Message :
          Takes(m) /\ state[n] = "queued" /\ n # m
          /\ LooperOf[event[n].target] = LooperOf[event[m].target] => Before(m, n)
     /\ \A t \in LooperThread :
          pc[t] = "loop" /\ pc'[t] = "deliver" => mThread[ThreadOf[t]] = t]_vars

(***************************************************************************)
(* The signals of post() lose no wakeup: a thread waits for good only when *)
(* nothing is queued, and otherwise for the time of the first message.     *)
(***************************************************************************)
NoOversleep ==
  \A t \in LooperThread :
    LET queue == mEventQueue[ThreadOf[t]]
    IN /\ pc[t] = "wait" => queue = <<>>
       /\ pc[t] = "timed" => queue # <<>> /\ First(t) = delivering[t]

(***************************************************************************)
(* Whom a thread in postAndAwaitResponse() or stop() waits for: the one    *)
(* that runs the looper of its message, or handles the message, or has     *)
(* been told to exit.  A message is orphaned if no thread will handle it.  *)
(***************************************************************************)
Waits(c) == pc[c] \in {"asleep", "woken", "join"}
Unanswered(c) == pc[c] \in {"asleep", "woken"} /\ message[c] \notin mReplies
MessageLooper(c) == LooperOf[event[message[c]].target]
Orphaned(c) ==
  /\ Unanswered(c)
  /\ \/ state[message[c]] = "dropped"
     \/ state[message[c]] = "queued" /\ mThread[MessageLooper(c)] = None
BlockedOn(c, t) ==
  \/ pc[c] = "join" /\ joining[c] = t
  \/ Unanswered(c) /\ state[message[c]] = "queued" /\ mThread[MessageLooper(c)] = t
  \/ Unanswered(c) /\ state[message[c]] = "taken" /\ delivering[t] = message[c]

\* The waits that begin with c end with an orphan, or go round in a circle.
Stuck(c) ==
  \E S \in SUBSET Thread :
    c \in S /\ \A s \in S : Orphaned(s) \/ \E t \in S \cap LooperThread : BlockedOn(s, t)

(***************************************************************************)
(* postAndAwaitResponse() and stop() return, unless the chain of waits     *)
(* ends for good with an orphaned message or in a circle: handlers that    *)
(* await their own looper, or each other, hang.                            *)
(***************************************************************************)
CallsReturn == \A c \in Thread : Waits(c) ~> (~Waits(c) \/ []Stuck(c))

(***************************************************************************)
(* "Posts the message to its target and waits for a response (or error)    *)
(* before returning": while the looper of the target runs.                 *)
(***************************************************************************)
ResponseOrError ==
  \A c \in Client :
    message[c] # NoMessage ~> (message[c] = NoMessage \/ \E l \in Looper : mThread[l] = None)
=============================================================================
