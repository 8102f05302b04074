# Formal models of frameworks/av

This directory holds TLA+ models of the concurrent core of Android's media
framework, the TLC configurations that check them and TLAPS proofs about them.
All paths below are relative to `src/`.

Contents: [the system](#the-system-and-its-components),
[the modules](#the-modules-and-the-code), [the runs](#runs-and-bounds),
[fairness](#fairness), [proofs](#what-is-proved), [deviations](#deviations-of-the-code),
[what is not modelled](#what-is-not-modelled), [the plan](#plan).

## The system and its components

An application plays sound by writing frames into shared memory (`AudioTrack`).
The media server's `AudioFlinger` reads them in one thread per output
(`MixerThread`), mixes and resamples them, and writes to the HAL. Low-latency
tracks skip that thread: a second, real-time thread (`FastMixer`) mixes them with
the output of the first, its *submix*. A real-time thread may not block on a lock
held by another, so these threads and processes talk through hand-made lock-free
structures and futexes. That is where a test reaches least, and where this
project begins.

    application                 | media server
    AudioTrack --control block--> Track --- MixerThread ==StateQueue==> FastMixer --> HAL
       |  (AudioTrackShared)    |   \                 <--futex, acks---     ^
       |                        |    \------------- frames ----------------/
       +--SingleStateQueue------> static Track        --MonoPipe (submix)--/

| Component | State | Operations | Interacts with | What is hard |
|---|---|---|---|---|
| `StateQueue` (services/audioflinger/StateQueue) | four slots, `mNext`, `mAck`, the mutator's `mMutating`, `mExpecting`, dirty bits | `begin`, `end`, `push` in three modes; `poll` | mixer or record thread to its fast thread | two threads without a lock; a slot must not be edited while it may be read; what `push` may answer |
| `SingleStateQueue` (media/libmedia) | a sequence number, a value of many words, `mAck` | `push`, `poll`, `ack` | client to server, or fast to normal mixer, over shared memory | torn reads, wrapping numbers, bounded retries |
| `MixerThread` and `FastMixer` (services/audioflinger) | the fast mixer's command and tracks, `mStandby`, active tracks, the futex of cold idle; the fast mixer's copies and generations | standby and its end, parameters, adding and removing fast tracks, closing; client calls create, start, destroy; suspension | each other, the HAL, the policy manager, binder threads | raw pointers to tracks, idle protocols, a blocking push under `mLock` |
| `AudioTrackShared`, streaming (media/libmedia) | `mFront`, `mRear`, `mFlush`, `mFlags`, `mFutex` and the frames | client: `obtainBuffer`, `releaseBuffer`, `flush`, `interrupt`, `binderDied`, `waitStreamEndDone`; server: `obtainBuffer`, `releaseBuffer`, `framesReady`, `setStreamEndDone`, `invalidate` | the application's threads and the media server's, in two processes | a ring without a lock, a futex protocol, a flush that overtakes the reader, wrapping indices |
| `PlaybackThread` track states (Tracks.cpp, Threads.cpp) | `track_state`, active set, presentation counters | start, stop, pause, flush, destroy; `prepareTracks_l` | binder threads and the mixer thread under `mLock` | transitions deferred to the next cycle |
| Offload and direct threads | write and drain sequences, pending pause and flush | write, drain, callbacks | the HAL's callback thread | late or unexpected callbacks |
| `RecordThread`, `FastCapture` | the capture pipe, the records' states | read, start, stop, synchronised start | as playback, the other way | overruns, start delayed by an event |
| `AudioTrack`, `AudioRecord` | client state, positions, callback thread, `mAudioTrack` | start, stop, pause, flush, write, `restoreTrack_l` | the control block, binder death | a track replaced under a writer's feet |
| Static buffers | loop, position, frames ready | `setLoop`, `setBufferPosition`, `pollPosition` | `SingleStateQueue` | a new loop while a buffer is held |
| NBAIO (`MonoPipe`, `Pipe`, `NBLog`) | front, rear, timestamp | read, write | normal to fast mixer | a sequence lock, pacing |
| AudioFlinger service, effects, patches | outputs, clients, chains | open, close, move | everything above | lock order |
| Audio policy | routing state, command queue | routing, delayed commands | AudioFlinger | commands merged and delayed |
| Message loops (`ALooper`, `AMessage`) | handlers, queue, replies | post, `postAndAwaitResponse`, stop | all of stagefright | a reply that never comes |
| `MediaCodec`, `ACodec`, OMX nodes | codec state, buffer owners | configure, start, flush, stop, release | message loops, OMX callbacks | messages of an earlier generation |
| `NuPlayer`, media player service, `mediaplayer`, `mediarecorder` | player state, flushing state of each decoder | prepare, start, seek, reset | message loops, binder | late notifications, reset while seeking |
| `TimedEventQueue` (libstagefright) | a queue of events with times, the wake lock and its count | post, cancel, stop with or without a flush, firing, the death of the power manager | players, `PowerManager` | cancelling what is being fired |
| Buffers and caches (`MediaBufferGroup`, `NuCachedSource2`) | reference counts, cache | acquire, release, read ahead | sources and players | a buffer returned while its group ends |
| Legacy player, camera and audio sources (`AwesomePlayer`, `CameraSource`) | flags, frame queues | prepare, play, read, stop | event queue, camera callbacks | callbacks after stop |
| Extractors, writers, streaming sources, network sessions | parsers and their cursors; sessions | read, seek; connect, send | players | bandwidth switches in `LiveSession` |
| Camera 3 device, `StatusTracker`, streams | requests in flight, stream states | capture, flush, `waitUntilDrained`, configure | HAL callbacks, request thread | results and errors out of order |
| Camera service and clients | who owns which camera | connect, disconnect, evict | binder, camera devices | two clients at once |
| Sound trigger | models, modules | load, start, stop | HAL callbacks | a callback after unload |
| DRM, MTP, codecs, effects, NDK, utilities, tools | local | | | sequential or signal processing |

What makes each modelled component correct is stated with its module below. For
the others:

- *AudioTrack*: a restored track goes on at the position the client was told;
  no frame is released into a control block it was not obtained from.
- *codecs and players*: every buffer has one owner; a flush returns what was
  submitted before it; a reset in any state ends; documented calls are
  accepted exactly in the documented states.
- *camera*: every request gets its results and buffers, or one error; a device
  that says it is idle has nothing in flight; draining ends.

## The modules and the code

A module's names are the code's. `Xpc` variables are places in a function;
the comment on each action says which. `PROJECT.json` maps every definition to
its lines.

**StateQueue** models `poll()`, `begin()`, `end()` and `push()` of
StateQueue.cpp. An action makes at most one access to a shared word. The
copy of a slot in `push()` and an edit in place have an intermediate, *torn* state. The wait
loops of `push()` are guards (`PriorAcked`, `PriorNotAcked`, `PushAcked`).
**PublishedState** is what it promises: snapshots published one at a time, each
taken over exactly once, and two of them kept. The mapping reads the snapshots
through `mNext`, `mCurrent` and `mPrevious`, so a slot that changes under the
observer is a step that PublishedState does not have.

**SingleStateQueue** models `push()`, `poll()` and `ack()` word by word. The
code's barriers (an acquire or release on every access to `mSequence` and a full
barrier around the value's copy) justify interleaving the accesses one by one.
A value is known by the number of its push, carried by each word. **LatestValue**
is the promise: an atomic multi-word register, nothing taken twice.

**FastMixer** composes the mixer thread, its fast mixer and the clients'
calls. It does not contain the queue's slots: it has the four variables of
`PublishedState`, which the proofs of StateQueuesProofs show to be enough. The fast mixer's
pointers are represented by what they point to (`"current"`, `"previous"`,
`"preIdle"`, ...), and `"reused"` is a slot that the queue may be writing. Correspondence:
`PollNew`, `PollSame`, `Work`, `ColdDec`, `ColdWait` and `Awake` are a turn of
`FastThread::threadLoop()` with `onStateChange()` and `onWork()`;
`NewParameter` and `SetParameters` are `checkForNewParameter_l()`;
`EnterStandby`, `InStandby`, `ExitStandby` are standby and its end in
`threadLoop()` and `threadLoop_write()`; `prepareTracks_l` and `removeTracks_l`
are the functions of these names; `Destroy`, `Join` are `~MixerThread()`;
`CreateTrack`, `Start`, `DestroyTrack` are `createTrack_l()`, `Track::start()` with
`addTrack_l()`, and `~TrackHandle()`. `mLock` is represented by `CanLock`: the
clients' calls run when the mixer thread is at a place where the code has released it.
`prepareTracks_l` takes any set of active fast tracks off the fast mixer, because
why and when a track ends (underrun, stop, pause, the presentation of its last frames)
belongs to the track states. A track that would leave before it was given to the fast
mixer makes the code abort (Threads.cpp:3363); that question belongs to PlaybackTracks.
`scenario` says whether the fast mixer may be delayed (`Prompt`) and the output
suspended; one run has both an ordinary output and one that may do all of it.

**PlaybackTracks** has the states of fast, normal and static tracks that FastMixer leaves
open: `Start` with the wait for the audio policy in `addTrack_l()` (mLock is free
meanwhile), `Pause`, `Stop`, `Flush`, `Destroy` by binder threads, and the mixer
thread's cycle: `prepareTracks_l` with the fast and the normal branch of its loop
(`FastState`, the normal tracks' readiness), the push that waits for the fast mixer, the
reset of removed fast tracks (`DeferReset`), mixing, writing, and
`threadLoop_removeTracks()`. Frames are counted in mixes, the time in the HAL's buffer in
writes (`due`, `inHal`); any shortage may be the last of a track's retries. `polled` is
the mask that FastMixer's properties speak of.

**OffloadThread** is the thread that writes compressed data to a HAL that answers
later, with `AsyncCallbackThread`, which brings the answers: `BeginWrite`,
`EndWrite`, `threadLoop_drain`, `writeCallback`, `drainCallback`, `resetWriteBlocked`,
`resetDraining`, `Discard` (`flushHw_l()`), `Standby` are the functions of these names;
`prepareTracks_l` is the offload thread's own. The HAL (`hal`) is external: it takes up to
`HalSize` buffers, plays them unless it is paused, answers a write it could not
take and a drain, and a flush or standby discards what it owes, though a
callback may already be under way.

**AudioTrackShared** models both ends of a streaming control block, one
action per access to shared memory or system call: the client's `ObtainBuffer`,
`CheckFlags`, `Look`, `MayWait`, `ClearWake`, `Wait`, `Fill`, `ReleaseBuffer`;
other client threads' `Flush`, `Signal`; the server's `SObtainBuffer` (load of
`mFlush`), `LoadRear`, `Obtained`, `SReleaseBuffer` and its wake-ups; binder threads'
`Invalidate` and `FramesReady`. A frame is the index it was written for. `Mixer`
says how the mixer uses a buffer, in the three ways the code does: it is released
at once, in chunks (`ServerProxy::releaseBuffer()` permits it), or kept across a pause by
`AudioMixer::CopyBufferProvider`. `May` says what else happens to the track,
`Timeouts` and `MaxFlush` what the client does; a `scenario` is a choice of the four,
made once, and a run has one or several. **FrameFifo** is the promise of this ring and of a
MonoPipe: a bounded queue of frames, from which a flush takes some unplayed.

**StaticAudioTrack** has the static proxies: `setLoop` (also `setPosition()` and
`reload()`), `Start`, `Pause`, `Stop` of the client, `pollPosition`, `ObtainBuffer`,
`Obtained`, `ReleaseBuffer` of the server, with the assertions of the code as `aborted`. It
has the variables of **LatestValue** in place of SingleStateQueue's. A normal mixer polls
whenever it asks for frames (`Prepare`), a fast mixer only when it obtains a buffer
(`PollsWhenAsked`, because several threads ask); the store of the position in the
control block comes after the poll has acknowledged (`Store`).

**MonoPipe** models `write()` and `getNextWriteTimestamp()` on the writer's side and
`read()` on the reader's, one access to shared memory per action. The copies are one action
each, which the next access makes visible: `PipeIsIntact` says of every slot whose it is. A pipe is a
FrameFifo too (`Refinement`), without flushes.

**MessageLoops** models `ALooper` (`post`, the loop thread's `Check`, waits, `Take`,
`start`, `stop`), `ALooperRoster` (`unregisterHandler`, `deliverMessage`,
`PostAndAwaitResponse`, `postReply`) and the threads that use them, loopers' own among them. The
handlers are registered from the start. A message has a number, the order of its post, and a
fate (`state`).

**TimedEventQueue** models `postEvent*`, `cancelEvent(s)`, `stop`, `threadEntry()` and the
wake lock, one critical section per action. An event has a number, as `mNextEventID` gives
it, and a `fate`.

`MCx` modules give constants their values and, for AudioTrackShared and MonoPipe, the index
where the run starts (just before the wrap).

### Properties

StateQueue: `MutatingIsPrivate` (the edited slot is none the observer may read),
`PushReturn` (the answers documented in StateQueue.h for each mode), `Refinement`,
`EveryPushIsSeen`, `PushReturns`. SingleStateQueue: `Refinement` (no torn value,
none twice), `AckIsTrue` (across a wrap), `LastPushIsSeen`.

FastMixer: `NoDanglingTrack` (a track the fast mixer pulls from exists),
`MixesCurrentTracks` (its AudioMixer pulls from the tracks of the current state
although it is updated by differences, across idle periods), `NoReusedState`,
`IdleIsQuiet` (an acknowledged idle command stops I/O), `FreeSlotIsUnused`;
`PushReturns` and `PushedStateIsSeen` (which includes that closing an output ends), both for
an ordinary output: prompt, and never suspended.

PlaybackTracks: `OutputsAreCounted` (each `startOutput()` has its `stopOutput()`, though
`addTrack_l()` frees the lock in its middle), `NoIdleTrackActive` (the state
`prepareTracks_l()` dies of never reaches it), `ResetIsUnpolled` (no track is reset while
the fast mixer polls it), `StoppedTrackLeaves`.

OffloadThread: `AnswerIsAwaited` and `WaitIsAnswered` (sequence numbers: an answer ends the
wait it belongs to and no other, and no wait under a number below 2^31 is left without
one), `StoppedTrackLeaves`.

AudioTrackShared: `Integrity` (what the mixer reads is what was written for these
positions, until it releases them), `NeverCorrupt` (a client and a server that
follow the protocol never take the block for corrupt), `Refinement` (order, no
loss, no repetition, capacity), `NoLostWakeup` and `WriterGetsRoom` (the futex
protocol), and those of the deviations below.

StaticAudioTrack: `PlaysInOrder` (each loop as often as asked, then the rest, whatever is
taken from the queue meanwhile), `AccountsAgree` (the counts the server
asserts on), `PlaysToTheEnd` (a started normal track).

MonoPipe: `PipeIsIntact` (the writer overwrites nothing the reader may copy, wherever
the positions wrap), `TimestampIsWhole` (front and timestamp are observed as one); that it
implements FrameFifo follows from the first, and is proved.

MessageLoops: `NoOversleep` (a message posted before the others shortens the looper's wait),
`ReplyWakesItsSender`, `TakenInTurn` (order of times, then of posts; never by a thread whose
looper was stopped), `CallsReturn`. The last one says that whoever waits in
`postAndAwaitResponse()` or `stop()` goes on, unless the chain of waits from there ends for
good (`Stuck`) with an orphaned message, which only `stop()` and unregistering leave, or in
a circle: a handler that awaits its own looper, or two that await each other, hang in the
code, and so does a `stop()` that joins one of them.

TimedEventQueue: `FlushHandlesAll` (a flushing stop discards nothing posted before it),
`NoWakeLockLeak`, `FiresWhenDue` (though the event is looked up again by number after the
wait).

Each module also has `TypeOK`, the documentation of its variables. It is proved for every
one of them; the runs spend their time on the rest.

## Runs and bounds

| Run | Shows | Bounds, and why they are enough |
|---|---|---|
| statequeue | all StateQueue properties | the code's 4 slots, 2 states, which tell any two apart; nothing else is bounded, the model is finite |
| singlestatequeue | all SingleStateQueue properties | 2 words are the least that tear; numbers wrap at 16, several times; the code's 5 tries; `MaxLag` 6 (three pushes) is the most that the width allows, as the code's limit of 2^30 pushes is at 32 bits |
| fastmixer | all FastMixer properties, for an ordinary output and for one with suspension and a delayed fast mixer | 2 tracks for 1 slot: every start and removal contends for it; 4 generations are two full lives of a slot; `mColdGen` wraps at 2 |
| tracks | all PlaybackTracks properties | one track of each of four kinds (fast or normal, streaming or static); 2 mixes of frames and 2 writes of latency: empty, partly and wholly filled or presented |
| offload | all OffloadThread properties | a HAL of 2 buffers: room for all, for some, for none; 7 calls for one track, or 4 for two tracks of different sessions: two full lives of a track, or a change of session in each state; 16 sequence numbers, of which the callback thread gives back the lower 8 whole, and a start just before they wrap: the calls use them from the wrap into the upper half |
| cblk_ring | order and liveness of the ring with a mixer that works in chunks | 3 frames in 4 slots: the two sizes differ, the ring wraps; indices wrap at 16, four times the slots as the code's 2^32 is a multiple of them |
| cblk_threads | `Integrity`, `NeverCorrupt`, `NoLostWakeup`, `Refinement` with other threads beside the mixer | 2 frames: full, empty and between; indices wrap at 8. Two scenarios: invalidation, `framesReady()` from another thread, stream end and a mixer that keeps buffers; one flush not noticed yet, interrupt and death, with a client whose lost wake-up would be for ever |
| cblk_invalidate | a deviation | the least constants that show it |
| static | all StaticAudioTrack properties, for a normal and a fast track | 3 frames and loops of 2 or 3, up to twice or for ever, 2 frames a mix: a mix ends before, at and across the end of a loop; every legal loop and position, and one that the server corrects |
| monopipe | all MonoPipe properties | 2 frames, positions wrap at 4 and the sequence number at 3, which the run starts just before; calls of up to 3 frames, more than fit |
| loops | all MessageLoops properties | three scenarios: 3 messages to a looper whose thread blocks; 2 messages with a looper that is stopped and started again; 3 messages between two loopers, all due at once. Any thread may await any handler: one message makes a handler await its own looper, three make two handlers await each other. Times 0 and 1: now, later, and the order of equals |
| timedeventqueue | all TimedEventQueue properties | 4 events, one of which may be a `StopEvent`; times 0 to 2, both ends; a wake lock asked for every event in the future (`kWakelockMinDelay` 0); one death of the power manager |

Bounds in guards: `MaxLag` (SingleStateQueue: pushes ahead of the acknowledgement),
`MaxGen` (FastMixer: generations, spent by starting tracks; taking a track out stays
possible at the bound), `MaxFlush` (AudioTrackShared: flushes not noticed), `MaxTracks`
(PlaybackTracks: tracks created), `MaxCalls` (OffloadThread: calls of clients),
`MaxTime`, `MaxEvents`, `MaxDeaths` (clocks, events, deaths), the scenarios' `messages`
(MessageLoops), `MaxLoops` (the count of a loop), and in MonoPipe fewer than
`SeqModulus - 1` updates while one observation lasts, 2^31 in the code. All other
counters wrap as the code's do; those of OffloadThread lose their highest bit on the way
through the callback thread, as the code's do. There too, a number is not used again while
the callback thread still holds it, which would take 2^30 writes. The `flushRace` of AudioTrackShared (a flush between
the two loads of the server's `obtainBuffer()`) is left out of cblk_threads: it is a
deviation.

`CHECK_DEADLOCK FALSE` is said where the system may really stop: the FastMixer run with
suspension, where the threads can hang (a deviation below); tracks, offload, loops and
timedeventqueue, where a bounded client has no call left and the threads rightly
wait. In the others TLC also shows that the system never stops.

## Fairness

- StateQueue: weak fairness of `Observer` and of the steps within `push()`. The fast
  thread polls in an endless loop, and `push()` loops until it returns. No mutation or push
  is ever forced.
- SingleStateQueue: the observer polls repeatedly, and a push that has begun ends.
- FastMixer: the fast mixer's loop (a `SCHED_FIFO` thread), and the mixer thread
  where it does not wait for an event: in `push()`, from `prepareTracks_l()` to the
  end of the cycle, in its destructor. No client call, standby, resumption or
  closing is forced.
- PlaybackTracks: the mixer thread goes through its cycle while a track is active, and the
  fast mixer polls the tracks it has. No call, and no answer of the policy, is forced.
- OffloadThread: the thread's cycle and the callback thread, and a HAL that is not
  paused plays on and answers. No call is forced.
- AudioTrackShared: the client's thread within a call, whoever is in the middle of a
  wake-up, and the mixer, which keeps pulling while the track is active. The mixer's next
  `obtainBuffer` has strong fairness because calls of `Track::start()` take the
  same place for a moment. No call, timeout, stream end or invalidation is forced.
- StaticAudioTrack: the thread that mixes, while the track is active.
- MessageLoops: the loopers' threads run and handlers return, time passes, a thread
  that is woken or has begun to stop a looper goes on. No post is forced.
- MonoPipe and TimedEventQueue: safety only, no fairness.

## What is proved

TLAPS checks eight proof modules. Six are named after the module they are about.
StateQueuesProofs has two parts, about StateQueue and about SingleStateQueue, whose names begin
with `One` there; PlaybackThreadProofs is about PlaybackTracks and about OffloadThread, whose
names begin with `Off`. The second part speaks of an INSTANCE of its module and has that
module's assumptions as a hypothesis (`Sizes`). Every theorem is for all values of the
constants that satisfy the assumptions named in the module. Each has its inductive invariant,
`IInv`, and a lemma per action that says the action preserves it; TLC checked every `IInv` on
small instances before it was proved.

| Module | Safety of the runs that is proved | Only model-checked |
|---|---|---|
| StateQueue | `TypeOK`, `MutatingIsPrivate`, `PushReturn`, `Refinement` | `EveryPushIsSeen`, `PushReturns` |
| SingleStateQueue | `TypeOK`, `AckIsTrue`, `Refinement` | `LastPushIsSeen` |
| MonoPipe | `TypeOK`, `PipeIsIntact`, `TimestampIsWhole`; and `Refinement`, which no run keeps | |
| FastMixer | `TypeOK`, `NoDanglingTrack`, `MixesCurrentTracks`, `NoReusedState`, `IdleIsQuiet`, `FreeSlotIsUnused` | `PushReturns`, `PushedStateIsSeen` |
| PlaybackTracks | `TypeOK`, `OutputsAreCounted`, `NoIdleTrackActive`, `ResetIsUnpolled` | `StoppedTrackLeaves` |
| OffloadThread | `TypeOK`, `AnswerIsAwaited`, `WaitIsAnswered` | `StoppedTrackLeaves` |
| AudioTrackShared | `TypeOK`; under `Undisturbed`: `Integrity`, `NeverCorrupt`, `Refinement`, `FlushOnlyDiscards`, and `NoLostWakeup` with `WakesInTime` | `WriterGetsRoom` |
| StaticAudioTrack | `TypeOK`; under `Undisturbed`: `AccountsAgree`, `PlaysInOrder` | `PlaysToTheEnd` |
| MessageLoops | `TypeOK`, `ReplyWakesItsSender`; with `OneOwner` and `StartedTwice`: `NoOversleep`, `TakenInTurn` | `CallsReturn` |
| TimedEventQueue | `TypeOK`, `FlushHandlesAll`, `NoWakeLockLeak`, `FiresWhenDue` | |

For **StateQueue**, from `kN >= 4` (which the header requires) and a `Torn` that
is not a state: `Spec` implies always `IInv`, `TypeOK`, `MutatingIsPrivate` and
`PushReturn`, and implements `PublishedState` (`Implements`). `MutatingIsPrivate` is not inductive: it
depends on the slots of `mPrevious`, `mCurrent`, `mNext` and `mMutating` being
consecutive (`Order`), which only holds because the mutator publishes after the
observer has acknowledged (`Handshake`: what the mutator knows at each point of
`push()`), and the refinement needs that no visible slot is torn (`NoTornState`). `IInv` is
their conjunction. Four slots suffice because at most three are visible; the lemma
on `NextSlot` says that four consecutive slots differ, which is where `kN >= 4` is
used.

For **SingleStateQueue**, from an even `Modulus` and `2 * MaxLag < Modulus`: `IInv`, `TypeOK`,
`AckIsTrue` and `OneImplements` (LatestValue) for every number of words and of tries.
`IInv` says that all the numbers in use lie between `mAck` and `mSequence`, less
than half the range apart (`Lag`), what the words of `mValue` hold during a push
(`Written`), and that what `poll()` has loaded belongs to the number it loaded
first as long as `mSequence` has not moved (`Loaded`). Without `Lag` the sequence could
come back to the number `poll()` compares with, and a torn value would pass.

For **MonoPipe**, for every number of frames, at least 2, that divides `Modulus` at least
twice, and every `SeqModulus` above 1: `TypeOK`, `TimestampIsWhole` (`AtomicObservation`),
`PipeIsIntact` (`Integrity`) and that the pipe implements FrameFifo (`PipeIsAFifo`). The first needs `IInv`: the most significant bit of the sequence
number is set exactly during an update (`BusyWhenUpdating`), the number tells how many
updates were completed since the observer's first load (`UpdatesAreCounted`, where the
bound on updates is used), and what was loaded is still there if none was
(`LoadedIsCurrent`). The second needs `PipeInv`: what the writer is about to copy fits
(`WriteFits`) and what the reader takes is filled (`ReadIsFilled`), which stay true because
only the writer takes room and only the reader takes frames. Then the frames in the pipe are
the run of its positions, the store of `mRear` puts more behind it (`RunEnters`) and the store
of `mFront` takes the oldest (`RunLeaves`). The arithmetic of wrapping
positions is in lemmas: the whole turns lost by a reduction (`Reduced`,
`TurnsLost`), that two positions less than `mMaxFrames` apart have different slots
(`SlotDistance`), and what moving either end does to the difference (`RearMoved`,
`FrontMoved`).

For **FastMixer**, for every set of tracks, number of slots, bound on the generations and
scenario. The two threads hold four pictures of the fast tracks: the mixer thread's working
state, the latest one pushed, the one the fast mixer polled, and the one its AudioMixer was
last brought up to (`MixedState`). `MixesCurrentTracks` is about the last two, and is not
inductive. `Pictures` says that each `Follows` from the older one: where a slot's
generation is the same, so is its track, which is what lets `onStateChange()` update by
differences, across an idle period also. `NoDanglingTrack` needs that every track in any
picture is still active (`Tracks`) and that a track which leaves has left them all before
`removeTracks_l()` (`Removal`): the push of its removal waits for an acknowledgement. That
generations do not run out within the bound is `Room`. `IdleIsQuiet` needs `Idling` (a command
to idle has been obeyed when its push has returned) and `Futex` (one decrement per
`COLD_IDLE`, told apart by `mColdGen`).

For **PlaybackTracks**, for every set of tracks, capacity and latency. `OutputsAreCounted` is
inductive together with `Starting`: a track whose `start()` has released the lock is not
active and not destroyed. `ResetIsUnpolled`, an action property, follows from `Polling` (the
fast mixer polls active tracks at most, and no leaving one once the push has returned) and
`Removal` (only tracks that leave are to be reset).

For **OffloadThread**, for every set of tracks and sessions, size of the HAL and range of
sequence numbers (a multiple of 4, as 2^32 is). `WriteSide` and `DrainSide` say where the answer to an odd sequence number
is: with the HAL, with the callback thread that has been told, or taken by it under the
number that is awaited, and only in one of them. `SequenceFacts` is the arithmetic of bit
0 under `&= ~1`, `+= 2` and `|= 1`, across the wrap. The callback thread keeps `sequence << 1`
in 32 bits and gives back `>> 1` (`Shifted`, `ShiftedFacts`), so that a number of the upper
half of the range comes back as another. `AnswerIsAwaited` is proved for all numbers all the
same; `WaitIsAnswered`, and the two conjuncts it needs, are about waits numbered in the lower half, below
2^31, however often the numbers have wrapped. `TypeOK` includes that an output is released
twice at most; `Releases` says which tracks that can be (it is the deviation `ReleasedOnce`).

For **AudioTrackShared**, for every number of frames and of slots, at least as many, every
notification period, every range of the indices that is a multiple of four times the slots,
and every set of scenarios.
`TypeOK` needs no more. The others have the hypothesis `Undisturbed`, two of the
deviations below: no flush between the server's loads of `mFlush` and `mRear`, and none while
a mixer keeps a buffer; either breaks `Integrity` or `NeverCorrupt`. Both scenarios of
cblk_threads satisfy it, so the proof is of what the run shows. `IInv` says: what is in the
ring is in its slots (`Ring`, with `Stored`); what the client has been granted is free, in one
piece and filled before it is released (`Obtaining`); what the server has loaded or been
granted is there (`Mixing`); and a flush that the server has not noticed is of frames it has
not been granted (`Flushing`). The last one is why the new front is neither behind the old one
nor ahead of the rear (`NewFrontFacts`), although it is rebuilt from the low bits of
the flush: when it wraps a period off, the code falls back to the rear, which discards too
much but stays in the ring (the deviation `FlushKeepsNewFrames`). The arithmetic is in lemmas
about `Ahead(p, q)`, the distance of two indices modulo the range, its relation to `Diff`,
`Plus`, the slots and the flush mask; two indices less than a ring apart have
different slots (`SameSlot`), so that `Fill` overwrites nothing that waits (`FillStores`). For
`Refinement` the frames in the ring are a run of indices (`StoredRun`), which a release of
the client extends and a release or a flush of the server shortens at the front.
`NoWakeupIsLost` has an invariant of its own, `Sleeping`: whatever a client waits for is
followed by the wake bit, and the wake bit of a client that sleeps by FUTEX_WAKE. Its
hypothesis `WakesInTime` (the mixer releases a buffer at once, or any frame will do)
excludes the deviation at AudioTrackShared.cpp:672; for a buffer released once, `mAvailToClient`
is not less than the room when it was obtained (`Estimate`). The second scenario of
cblk_threads satisfies it; of the first, where the track may be invalidated, `NoLostWakeup`
says nothing. In the runs the client is woken for any frame (`minimum` is 1), so that the
estimate never decides there; that it does no harm for a longer period is the theorem's
alone. (With `mFrameCount = 4` and a mixer that releases a buffer at once, TLC finds
`NoLostWakeup`, `WriterGetsRoom` and `Refinement` satisfied too.)

For **StaticAudioTrack**, for every size of the buffer, of the mix and of the shortest loop, and
every number of repetitions. `TypeOK` holds in every scenario. The others have the
hypothesis `Undisturbed` (a fast track, or a normal one with neither a mixer that keeps a
buffer nor `setSyncEvent()`): otherwise a new position is taken in while a buffer is
held, and the counts disagree (a deviation below). `AccountsAgree` is inductive with `Held`: a
held buffer is what comes next, and nothing is taken from the queue meanwhile. For
`PlaysInOrder`, `Walk` (the frames from a position on, in the order of the loop) is a recursive
function; that it exists is proved by induction over the set of numbers for which it does
(`AllNumbers`, from the well-foundedness of `<`), because the library's induction rule has
an operator parameter.

For **MessageLoops**, for every set of loopers, handlers and threads, every number of messages
and every clock. `IInv` says: a looper's queue holds its queued messages, each once, by their
times and then by their posts (`InOrder`); a thread in a handler has a message of its own
(`Deliveries`); the sender of a message that is not handled yet waits for its reply, and a reply that
is there is looked for (`Replies`); a thread that its looper has forgotten has been told to
exit, or is about to be by the one who stopped the looper (`Exits`). From it follow `TypeOK`,
`ReplyWakesItsSender` and `TakenInTheOrderOfPosts`, the first half of `TakenInTurn`. That the
queue stays in order is the loop of `post()`: the place for a time is behind the messages due by
then, and an insertion there keeps the order of the others (`Inserted`).
`NoOversleep` and the second half of `TakenInTurn` are about a looper that is stopped and
started again, and about signals that wake one thread; they have two hypotheses. `OneOwner`: one
thread calls `start()` and `stop()` from outside the looper. `StartedTwice`: a looper is
started at most twice, and has one thread from either start. A handler may stop its own looper
meanwhile, which is what makes two threads of one looper live at a time. The run's
constants satisfy both. They are needed: with two owners, or with a third start, TLC finds
the second and the third deviation of MessageLoops below. `TwoThreadsInv` adds to `IInv` that
of the two threads of a looper the one that has been stopped is still in its last handler or
about to see `exitPending` (`Outlived`), so that a signal reaches the only thread that may
wait.

For **TimedEventQueue**, for every number of events, every clock, every `kWakelockMinDelay`
and any number of deaths of the power manager. `InOrder` says that the queue holds the queued
events by their times and then their numbers; it survives a cancellation because `Without`
keeps the order of what it keeps (`WithoutFacts`), and a post at the front, at the back or at a
time because `Place` is behind everything due by then. `Thread` says what the event in the
hands of `threadEntry()` may have become while the lock was free; with it `FiresWhenDue` is a
property of one step. `Stopping` is what `FlushHandlesAll` needs: the `StopEvent` of a flush is
due at the back, behind whatever was posted before, the thread never waits for it, and
once it is handled no earlier event is queued. `NoWakeLockLeak` is inductive with the fact
that only queued events have the wake lock.

Sequences are given by their insertions and removals. What `InsertAt` does is in the
library's facts; that the function of `Without` is the one its recursion says (`WithoutDef`) and what
it returns are proved by induction over a set of numbers (`AllNumbers`), as for `Walk`.

Not proved: liveness under fairness and ENABLED, which are out of the prover's reach, so
`CallsReturn` and the other liveness properties stay with TLC; the properties that the code
violates (next section).

## Deviations of the code

In cblk_invalidate the code does something else than its comments say; it
is a finding in `PROJECT.json`, with lines and quotations: `Track::invalidate()`
overwrites the futex word instead of setting its wake bit, and the client may fall
asleep on an invalid track.

### Known deviations without a run

The set of runs is kept small. These properties are stated in the modules, and
TLC violates them with the constants given here.

| Property | Module and constants | What happens |
|---|---|---|
| `PushAlwaysReturns` | FastMixer.cfg with `MCSuspended`, `MaxGen = 2` | a fast track removed while the output is suspended makes the mixer thread wait, with its lock held, for a fast mixer that sleeps (Threads.cpp:3669) |
| `PushAlwaysReturns` | FastMixer.cfg with `MCDelayed`, `MaxGen = 2` | `threadLoop_standby()` assigns 0 to the futex though a decrement may still be owed; a fast mixer so delayed then sleeps for ever (Threads.cpp:3047) |
| `StandbyIsIdle` | FastMixer.cfg, `SPECIFICATION Spec` | the HAL refuses parameters, the thread puts the stream in standby and restores the fast mixer's command (Threads.cpp:3838) |
| `OnlySubmixLeft` | the same | an output is closed with a fast track active, against the assertion in `~MixerThread()` (Threads.cpp:2968) |
| `NeverAborts` | PlaybackTracks.cfg, `SPECIFICATION Spec` | start, stop or pause, and flush of a fast track before the thread's next cycle, in standby: "fast track should have been active" (Threads.cpp:3363) |
| `PlayedOut` | the same | a track paused and then stopped before it leaves the active list is presented by the time set for its pause (Tracks.cpp:1015) |
| `DrainedBeforePresented` | OffloadThread.cfg, `SPECIFICATION Spec` | a track paused while the HAL is full, resumed and stopped at once, is presented without a drain (Threads.cpp:2612) |
| `NoWriteWhilePaused` | the same | a track paused, stopped and started again is written to a HAL that nobody resumes (Threads.cpp:4547) |
| `ReleasedOnce` | the same | a track destroyed between its removal from the active list and the end of the cycle has its output released twice (Threads.cpp:2082) |
| `EveryWaitIsAnswered` | the same | from 2^31 on, that is after 2^30 writes or drains, a sequence number comes back from the callback thread without its highest bit, is never the one compared with, and the wait ends only with a flush or a standby (Threads.cpp:4434, 4451; 1773, 1783) |
| `FlushOnlyDiscards` | AudioTrackShared_ring.cfg with `MCFlushRace` | a flush and a write between the server's loads of `mFlush` and `mRear` make `mFront` go back (AudioTrackShared.cpp:553) |
| `FlushKeepsNewFrames` | AudioTrackShared_invalidate.cfg with `MCFlushed` | a flush position rebuilt a period off counts as a flush of everything (AudioTrackShared.cpp:559) |
| `NeverCorrupt` | the same with `MCKept` | a buffer kept over a pause and released after the flush moves `mFront` past `mRear` (AudioTrackShared.cpp:624) |
| `mIsShutdown = {}` | the same with `MCFramesReady` | `framesReady()` from a binder thread loads two indices that move in between (AudioTrackShared.cpp:704) |
| `StreamEndIsNoticed` | the same with `MCStreamEnd` | `setStreamEndDone()` wakes without setting the wake bit (AudioTrackShared.cpp:721) |
| `NoLostWakeup` | AudioTrackShared_ring.cfg with `mFrameCount = 4` | a buffer released in chunks is compared chunk by chunk with an estimate that is not updated (AudioTrackShared.cpp:672) |
| `StartIsPlayed` | StaticAudioTrack.cfg | a fast static track that has been stopped and is started again while still active takes in no new position, and an underrun of its stop takes it out for good, without `CBLK_DISABLED` (Tracks.cpp:707, Threads.cpp:3295) |
| `PositionIsSynchronous` | the same | `poll()` acknowledges before the position is stored: for a moment `getBufferPosition()` answers the old one (AudioTrackShared.cpp:811) |
| `AccountsAgree`, `PlaysInOrder` | the same with `MCResampled` or `MCSyncEvent` | a resampler that keeps a buffer, or `setSyncEvent()` from a binder thread, and a position set meanwhile: the frames released are more than `mFramesReady`, and the server aborts (AudioTrackShared.cpp:861) |
| `PendingIsCounted` | MonoPipe.cfg | the frames pending are counted modulo the size of the pipe: a full pipe counts as empty (MonoPipe.cpp:244) |
| `ResponseOrError` | MessageLoops.cfg | a message dropped by `stop()` or unregistering leaves its sender waiting, and so does a circle of waits (AMessage.h:81, ALooperRoster.cpp:121) |
| `TakenInTurn` | MessageLoops.cfg with `Owner = {c1, c2}` | between the unlock of one owner's `stop()` and its `requestExit()` another starts the looper again: the thread that is being stopped takes a message (ALooper.cpp:147) |
| `NoOversleep`, `TakenInTurn`, `CallsReturn` | MessageLoops.cfg with a third thread of `l1` | a handler stops its looper, the owner starts it again, the handler stops it once more, and the owner starts a third thread before the second has looked: the second finds the looper running, takes a message or waits, the `stop()` that joins it never returns, and the one signal of a post may go to it (ALooper.cpp:191) |
| `WakeLockIsKept` | TimedEventQueue.cfg | an event for which the power manager refused the wake lock counts as having it, and gives up that of another (TimedEventQueue.cpp:139) |

Three hazards are listed here only. `waitStreamEndDone()` never adds to `total`, so a wait that is
woken again and again has no limit (AudioTrackShared.cpp:436). `AudioTrack::write()` obtains
from a proxy that `restoreTrack_l()` may replace before `releaseBuffer()`
(AudioTrack.cpp:1365). Between the decrement of a MediaBuffer's count and the call of
its observer, another thread can find the buffer free and destroy its group
(MediaBuffer.cpp:101). All three are in the plan.

## What is not modelled

Of the modelled components:

- StateQueue's statistics;
- of the mixer thread the submix, warm-up, timing, volumes, the fast-mixer policies
  other than static, and the watchdog;
- of the track states the creation of tracks while the thread runs, volumes and
  ramps, effects, and the number of retries before a shortage counts;
- of the offload thread direct outputs, effects, suspension, the end of the thread, a
  client's restart after a timeout, a HAL that takes part of a buffer, and the wait
  for the policy. An older stopped track with frames left does not leave while another is the
  latest: `StoppedTrackLeaves` is about the latest one;
- of the control block the record direction, volumes, sample
  rate and underrun counters, and how long a wait takes: a timeout may expire
  at any time or never;
- of static buffers a `poll()` that gives up after its tries (SingleStateQueue has it),
  the presentation's length, and the notification flags;
- of MonoPipe the throttling of a write; `Pipe` and `NBLog` altogether;
- of the message loops a looper that runs on its calling thread, registration while
  they run, and destruction: `unregisterHandler()` may run a handler's destructor under
  the roster's lock (ALooperRoster.cpp:65);
- of TimedEventQueue the 10 s limit of one wait, a `stop()` from an event, and posts
  between the join of its thread and the clearing of the queue, which `stop()`
  does without the lock: both are one step here.

Weak memory is not modelled: the code's barriers make each access that matters
sequentially ordered with its neighbours, and the models interleave accesses.

The components that have no module are in `PROJECT.json` with the reason:
most are planned (below); signal processing, marshalling, container formats and
vendored codecs are sequential and numerical, and a model would only transcribe them.

## Plan

In this order; each with its MC module and its share of the runs.

1. **AudioTrack**: the client's states and `restoreTrack_l()`, over the control block; the
   wait loops' time arithmetic as operators.
2. **MediaBufferGroup** with MediaBuffer: a pool with reference counts, and its observer.
3. **MediaCodec** and **ACodec** over the message loops' promise; **NuPlayer**'s
   flushing states over theirs; the documented state machine of `mediaplayer`.
4. **Camera3Device** with StatusTracker and its streams: in-flight requests and
   draining.
5. FastCapture and RecordThread, the record direction, the audio policy's command thread,
   SimpleSoftOMXComponent, sound trigger.

Proofs: which constants of MessageLoops beyond `StartedTwice` keep `NoOversleep`.
