----------------------------- MODULE Subscriber -----------------------------
(***************************************************************************)
(* The subscriber (src/src/subscriber.cpp): a thread that opens one        *)
(* asynchronous gRPC stream after another (acquirePackets), each with an   *)
(* AsyncSubscriber whose callbacks gRPC runs on threads of its own while   *)
(* the thread waits in await, and Subscriber::stop.                        *)
(*                                                                         *)
(* gRPC is external.  It runs at most one callback of a stream at a time,  *)
(* completes a read with failure once the call is over, and calls OnDone   *)
(* last, when the call is over and no read is outstanding; the server may  *)
(* end a call with any status at any time, and a cancelled call ends.      *)
(*                                                                         *)
(* OnDone may still run when its AsyncSubscriber is destroyed.  What it    *)
(* does then is undefined.  Of what it can come to the model has that      *)
(* nothing comes of it, or that it releases the mutex of the next          *)
(* AsyncSubscriber, which is at the same place of the stack.               *)
(***************************************************************************)
EXTENDS Integers

CONSTANTS
    ScheduleSize,   \* reconnectSchedule.size()
    MaxPackets,     \* bound: packets the server sends
    EndTimes        \* the end times packets take; 0 also when there is none

ASSUME SubscriberAssumption ==
    /\ ScheduleSize \in Nat
    /\ MaxPackets \in Nat
    /\ EndTimes \subseteq Nat

VARIABLES
    mKeepRunning,
    mShutdownRequested,
    stopPc,
    \* the thread in acquirePackets
    acquirePc,
    kReconnect,
    \* its AsyncSubscriber
    mTryCancel,
    mHadSuccessfulRead,
    mDone,
    mStatus,
    \* the stream in gRPC (external)
    call,                 \* "none", "live", "cancelled" or "over"
    callStatus,           \* the status of a call that is over
    reading,              \* is a read outstanding?
    callback,             \* "none", or what remains of the OnReadDone running
    onDone,               \* "no", or what remains of the OnDone running
    locked,               \* is mMutex locked?
    outlived,             \* has an OnDone that runs outlived its AsyncSubscriber?
    \* what the callbacks leave behind
    mLastPacketReceived,  \* mLastPacketReceivedMap of the one stream, -1: absent
    received,             \* packets handed to the import callback
    \* history
    receivedLate,         \* packets handed over after mKeepRunning was cleared
    barren,               \* streams since the last one with a successful read
    fatal                 \* has a stream ended with a fatal status?

stopVars == <<mKeepRunning, mShutdownRequested, stopPc>>
threadVars == <<acquirePc, kReconnect, barren, fatal>>
streamVars == <<mTryCancel, mHadSuccessfulRead, mDone, mStatus>>
mutexVars == <<locked, outlived>>
grpcVars == <<call, callStatus, reading, callback, onDone, mutexVars>>
packetVars == <<mLastPacketReceived, received, receivedLate>>
vars == <<stopVars, threadVars, streamVars, grpcVars, packetVars>>

Statuses == {"OK", "UNAVAILABLE", "CANCELLED", "OTHER"}

TypeOK ==
    /\ mKeepRunning \in BOOLEAN
    /\ mShutdownRequested \in BOOLEAN
    /\ stopPc \in {"before", "clear", "done"}
    /\ acquirePc \in {"unstarted", "reconnect", "wait", "woken", "open", "await",
                      "poll", "doze", "handle", "exit", "ended", "threw"}
    /\ kReconnect \in -1 .. ScheduleSize
    /\ mTryCancel \in BOOLEAN
    /\ mHadSuccessfulRead \in BOOLEAN
    /\ mDone \in BOOLEAN
    /\ mStatus \in Statuses
    /\ call \in {"none", "live", "cancelled", "over"}
    /\ callStatus \in Statuses
    /\ reading \in BOOLEAN
    /\ callback \in {"none", "addPacket", "readNext"}
    /\ onDone \in {"no", "done", "notify"}
    /\ locked \in BOOLEAN
    /\ outlived \in BOOLEAN
    /\ mLastPacketReceived \in EndTimes \cup {-1, 0}
    /\ received \in 0 .. MaxPackets
    /\ receivedLate \in 0 .. MaxPackets
    /\ barren \in 0 .. ScheduleSize + 1
    /\ fatal \in BOOLEAN

Init ==
    /\ mKeepRunning = TRUE
    /\ mShutdownRequested = FALSE
    /\ stopPc = "before"
    /\ acquirePc = "unstarted"
    /\ kReconnect = -1
    /\ mTryCancel = FALSE
    /\ mHadSuccessfulRead = FALSE
    /\ mDone = FALSE
    /\ mStatus = "OK"
    /\ call = "none"
    /\ callStatus = "OK"
    /\ reading = FALSE
    /\ callback = "none"
    /\ onDone = "no"
    /\ locked = FALSE
    /\ outlived = FALSE
    /\ mLastPacketReceived = -1
    /\ received = 0
    /\ receivedLate = 0
    /\ barren = 0
    /\ fatal = FALSE

---------------------------------------------------------------------------
(* The callbacks of AsyncSubscriber, on a thread of gRPC.                  *)

\* TryCancel, once: a call that is over stays over.
TryCancel ==
    /\ mTryCancel' = TRUE
    /\ call' = IF ~mTryCancel /\ call = "live" THEN "cancelled" ELSE call
KeepCall == UNCHANGED <<mTryCancel, call>>

\* gRPC completes the outstanding read with a packet.
ReadCompletes ==
    /\ reading
    /\ call \in {"live", "cancelled"}
    /\ callback = "none"
    /\ received < MaxPackets
    /\ reading' = FALSE
    /\ mHadSuccessfulRead' = TRUE
    /\ callback' = "addPacket"
    /\ UNCHANGED <<stopVars, threadVars, mTryCancel, mDone, mStatus, call,
                   callStatus, onDone, mutexVars, packetVars>>

\* SubscriberImpl::addPacket: the packet goes to the import callback, and to
\* the map of the last packets unless the callback throws.
AddPacket(endTime, throws) ==
    /\ callback = "addPacket"
    /\ received' = received + 1
    /\ receivedLate' = IF mKeepRunning THEN receivedLate ELSE receivedLate + 1
    /\ mLastPacketReceived' =
           IF throws \/ endTime < mLastPacketReceived THEN mLastPacketReceived
           ELSE endTime
    /\ callback' = "readNext"
    /\ UNCHANGED <<stopVars, threadVars, streamVars, call, callStatus, reading, onDone,
                   mutexVars>>

\* Variant with a mistake, for the mutation runs: it always reads on.
ReadOn ==
    /\ callback = "readNext"
    /\ callback' = "none"
    /\ reading' = TRUE
    /\ KeepCall
    /\ UNCHANGED <<stopVars, threadVars, mHadSuccessfulRead, mDone, mStatus,
                   callStatus, onDone, mutexVars, packetVars>>

\* The end of OnReadDone(true): read on, or cancel.
ReadNext ==
    /\ callback = "readNext"
    /\ callback' = "none"
    /\ IF mKeepRunning THEN reading' = TRUE /\ KeepCall
       ELSE TryCancel /\ UNCHANGED reading
    /\ UNCHANGED <<stopVars, threadVars, mHadSuccessfulRead, mDone, mStatus,
                   callStatus, onDone, mutexVars, packetVars>>

\* OnReadDone(false): the call is over.
ReadFails ==
    /\ reading
    /\ call = "over"
    /\ callback = "none"
    /\ reading' = FALSE
    /\ IF mKeepRunning THEN KeepCall ELSE TryCancel
    /\ UNCHANGED <<stopVars, threadVars, mHadSuccessfulRead, mDone, mStatus,
                   callStatus, callback, onDone, mutexVars, packetVars>>

\* Variant with a mistake, for the mutation runs: the status is not stored.
OnDoneWithoutStatus ==
    /\ call = "over" /\ ~reading /\ callback = "none"
    /\ onDone = "no" /\ ~mDone
    /\ locked' = TRUE
    /\ onDone' = "done"
    /\ UNCHANGED <<stopVars, threadVars, streamVars, call, callStatus, reading,
                   callback, outlived, packetVars>>

\* OnDone, the last callback of the stream, takes mMutex and stores the status.
OnDone ==
    /\ call = "over" /\ ~reading /\ callback = "none"
    /\ onDone = "no" /\ ~mDone
    /\ locked' = TRUE
    /\ mStatus' = callStatus
    /\ onDone' = "done"
    /\ UNCHANGED <<stopVars, threadVars, mTryCancel, mHadSuccessfulRead, mDone, call,
                   callStatus, reading, callback, outlived, packetVars>>

\* It sets mDone, which await reads without the mutex.
OnDoneSetsDone ==
    /\ onDone = "done"
    /\ mDone' = TRUE
    /\ onDone' = "notify"
    /\ UNCHANGED <<stopVars, threadVars, mTryCancel, mHadSuccessfulRead, mStatus, call,
                   callStatus, reading, callback, mutexVars, packetVars>>

\* It notifies and releases the mutex.
OnDoneReturns ==
    /\ onDone = "notify"
    /\ locked' = FALSE
    /\ onDone' = "no"
    /\ UNCHANGED <<stopVars, threadVars, streamVars, call, callStatus, reading,
                   callback, outlived, packetVars>>

\* So does one that outlived its AsyncSubscriber: it notifies, and releases, what
\* is there now.  A notification changes nothing, as wait_for may return anyway.
OutlivedReturns ==
    /\ outlived
    /\ outlived' = FALSE
    /\ locked' \in {locked, FALSE}
    /\ UNCHANGED <<stopVars, threadVars, streamVars, call, callStatus, reading,
                   callback, onDone, packetVars>>

CallbackNext ==
    \/ \E endTime \in EndTimes \cup {0}, throws \in BOOLEAN : AddPacket(endTime, throws)
    \/ ReadNext \/ ReadFails
    \/ OnDone \/ OnDoneSetsDone \/ OnDoneReturns

\* The server, or the network, ends the call.
ServerEndsCall(status) ==
    /\ call \in {"live", "cancelled"}
    /\ call' = "over"
    /\ callStatus' = status
    /\ UNCHANGED <<stopVars, threadVars, streamVars, reading, callback, onDone,
                   mutexVars, packetVars>>

\* A cancelled call ends.
CancelTakesEffect == call = "cancelled" /\ ServerEndsCall("CANCELLED")

---------------------------------------------------------------------------
(* SubscriberImpl::acquirePackets and AsyncSubscriber::await               *)

\* SubscriberImpl::start
Start ==
    /\ acquirePc = "unstarted"
    /\ stopPc = "before"
    /\ mShutdownRequested' = FALSE
    /\ mKeepRunning' = TRUE
    /\ acquirePc' = "reconnect"
    /\ kReconnect' = -1
    /\ UNCHANGED <<stopPc, barren, fatal, streamVars, grpcVars, packetVars>>

GoTo(pc) ==
    /\ acquirePc' = pc
    /\ UNCHANGED <<stopVars, kReconnect, barren, fatal, mHadSuccessfulRead, mDone,
                   mStatus, callStatus, reading, callback, onDone, mutexVars,
                   packetVars>>

\* Variant with a mistake, for the mutation runs: one reconnection too many.
ReconnectOnceMore ==
    /\ acquirePc = "reconnect"
    /\ GoTo(IF kReconnect > ScheduleSize \/ ~mKeepRunning THEN "exit"
            ELSE IF kReconnect >= 0 THEN "wait"
            ELSE "open")
    /\ KeepCall

Reconnect ==
    /\ acquirePc = "reconnect"
    /\ GoTo(IF kReconnect >= ScheduleSize \/ ~mKeepRunning THEN "exit"
            ELSE IF kReconnect >= 0 THEN "wait"
            ELSE "open")
    /\ KeepCall

\* wait_for returns when its time is up, at the latest.
Wait == acquirePc = "wait" /\ GoTo("woken") /\ KeepCall

Woken ==
    /\ acquirePc = "woken"
    /\ GoTo(IF mKeepRunning THEN "open" ELSE "exit")
    /\ KeepCall

\* A new AsyncSubscriber: StartRead, then StartCall.
Open ==
    /\ acquirePc = "open"
    /\ acquirePc' = "await"
    /\ mTryCancel' = FALSE
    /\ mHadSuccessfulRead' = FALSE
    /\ mDone' = FALSE
    /\ mStatus' = "OK"
    /\ call' = "live"
    /\ reading' = TRUE
    /\ locked' = FALSE
    /\ UNCHANGED <<stopVars, kReconnect, barren, fatal, callStatus, callback,
                   onDone, outlived, packetVars>>

\* Variant with a mistake, for the mutation runs: await gives up when told to stop.
AwaitGivesUp ==
    /\ acquirePc = "await"
    /\ GoTo(IF mDone \/ ~mKeepRunning THEN "handle" ELSE "poll")
    /\ KeepCall

\* while (!mDone)
AwaitTest ==
    /\ acquirePc = "await"
    /\ GoTo(IF mDone THEN "handle" ELSE "poll")
    /\ KeepCall

\* Variant with a mistake, for the mutation runs: the call is not cancelled.
AwaitOnly == acquirePc = "poll" /\ GoTo("doze") /\ KeepCall

AwaitPoll ==
    /\ acquirePc = "poll"
    /\ GoTo("doze")
    /\ IF mKeepRunning THEN KeepCall ELSE TryCancel

\* wait_for returns when OnDone notifies it, or its time is up; it has the
\* mutex then, and releases it.
AwaitDoze == acquirePc = "doze" /\ ~locked /\ GoTo("await") /\ KeepCall

\* What acquirePackets does with the status of a stream that is done: go
\* round the loop again, or leave it.  Either way the AsyncSubscriber is
\* destroyed, although its OnDone may not have returned.
GoesOn(status) ==
    \/ status = "OK" /\ mKeepRunning
    \/ status = "UNAVAILABLE"
    \/ status = "CANCELLED" /\ mKeepRunning

\* Variant with a mistake, for the mutation runs: a good stream does not start the
\* schedule over.
HandleWithoutReset ==
    /\ acquirePc = "handle"
    /\ kReconnect' = IF GoesOn(mStatus) THEN kReconnect + 1 ELSE kReconnect
    /\ acquirePc' = IF GoesOn(mStatus) THEN "reconnect" ELSE "exit"
    /\ barren' = IF mHadSuccessfulRead THEN 0
                 ELSE IF barren <= ScheduleSize THEN barren + 1 ELSE barren
    /\ fatal' = (fatal \/ mStatus = "OTHER")
    /\ call' = "none"
    /\ onDone' = "no"
    /\ outlived' = (outlived \/ onDone = "notify")
    /\ UNCHANGED <<stopVars, streamVars, callStatus, reading, callback, locked,
                   packetVars>>

Handle ==
    /\ acquirePc = "handle"
    /\ LET k == IF mHadSuccessfulRead THEN -1 ELSE kReconnect
       IN  kReconnect' = IF GoesOn(mStatus) THEN k + 1 ELSE k
    /\ acquirePc' = IF GoesOn(mStatus) THEN "reconnect" ELSE "exit"
    /\ barren' = IF mHadSuccessfulRead THEN 0
                 ELSE IF barren <= ScheduleSize THEN barren + 1 ELSE barren
    /\ fatal' = (fatal \/ mStatus = "OTHER")
    /\ call' = "none"
    /\ onDone' = "no"
    /\ outlived' = (outlived \/ onDone = "notify")
    /\ UNCHANGED <<stopVars, streamVars, callStatus, reading, callback, locked,
                   packetVars>>

\* After the loop: an end nobody asked for is reported as an exception.
Exit ==
    /\ acquirePc = "exit"
    /\ GoTo(IF mKeepRunning THEN "threw" ELSE "ended")
    /\ KeepCall

AcquireNext ==
    \/ Reconnect \/ Wait \/ Woken \/ Open
    \/ AwaitTest \/ AwaitPoll \/ AwaitDoze \/ Handle \/ Exit

---------------------------------------------------------------------------
(* SubscriberImpl::stop: the thread is notified before mKeepRunning is     *)
(* cleared, so that it may wake up and open one more stream.               *)

Stop ==
    /\ stopPc = "before"
    /\ acquirePc # "unstarted"
    /\ mShutdownRequested' = TRUE
    /\ stopPc' = "clear"
    /\ UNCHANGED <<mKeepRunning, threadVars, streamVars, grpcVars, packetVars>>

StopClearsKeepRunning ==
    /\ stopPc = "clear"
    /\ mKeepRunning' = FALSE
    /\ stopPc' = "done"
    /\ UNCHANGED <<mShutdownRequested, threadVars, streamVars, grpcVars, packetVars>>

StopNext == Stop \/ StopClearsKeepRunning

ServerNext ==
    \/ ReadCompletes
    \/ \E status \in Statuses : ServerEndsCall(status)
    \/ CancelTakesEffect

Next == Start \/ AcquireNext \/ CallbackNext \/ OutlivedReturns \/ ServerNext \/ StopNext

\* The thread runs: its waits are bounded.  gRPC runs the callbacks that are
\* due and ends a cancelled call.  Nothing makes the server send a packet or
\* end a call, an OnDone return that outlived its AsyncSubscriber, nor anybody
\* start or stop the subscriber.
Fairness ==
    /\ WF_vars(AcquireNext)
    /\ WF_vars(CallbackNext)
    /\ WF_vars(CancelTakesEffect)
    /\ WF_vars(StopClearsKeepRunning)

Spec == Init /\ [][Next]_vars
FairSpec == Spec /\ Fairness

---------------------------------------------------------------------------
(* What the subscriber promises.                                           *)

\* Of a stream only the end of its OnDone, the notification and the release of
\* the mutex, can outlive the AsyncSubscriber, and so be undefined: when await
\* returns the call is over, no read is outstanding, no other callback runs, and
\* OnDone has made its last store (subscriber.cpp:174-205).
OnlyNotificationOutlivesAwait ==
    acquirePc \notin {"await", "poll", "doze"} =>
        /\ call \in {"none", "over"} /\ ~reading
        /\ callback = "none" /\ onDone # "done"

\* The status acquirePackets acts upon is the one the call ended with, not
\* the OK an AsyncSubscriber starts with or what an earlier stream left.
StatusIsOfThisCall == acquirePc = "handle" => mStatus = callStatus /\ mDone

\* Whatever the order of stop, callbacks and reconnections, at most one packet
\* is handed over once mKeepRunning is cleared: the read that was under way.
AtMostOnePacketAfterStop == receivedLate <= 1

\* The thread reports a premature end only after a fatal status or a whole
\* reconnection schedule without one successful read.
PrematureEndIsJustified ==
    acquirePc = "threw" => fatal \/ barren >= ScheduleSize

Stopped == acquirePc \in {"ended", "threw"}

\* The subscriber is a worker as NetworkDetector relies on it: in particular
\* its thread ends once it is told to, although a stream the server keeps open
\* and silent completes no read: the poll in await cancels it.
Lifecycle == INSTANCE Worker WITH
    keepRunning <- mKeepRunning,
    thread <- IF Stopped \/ acquirePc = "unstarted" THEN acquirePc ELSE "running"
RunsAsWorker == Lifecycle!Spec
=============================================================================
