----------------------------- MODULE Publisher -----------------------------
(***************************************************************************)
(* The publisher (src/src/publisher.cpp): a queue of picks between the     *)
(* thread that makes them, which calls Publisher::enqueue, and a thread    *)
(* that writes them to the broker over one gRPC stream after another,      *)
(* reconnecting on a schedule until Publisher::stop, a fatal status or the *)
(* end of the schedule.                                                    *)
(*                                                                         *)
(* The steps of the three threads are the accesses to the state they share *)
(* (the calls on the queue, which are atomic, and the reads and writes of  *)
(* mKeepRunning and mShutdownRequested).  gRPC is external: a write may    *)
(* fail, a channel may be found not ready and a stream may finish with any *)
(* status at any time, and a call that waits for the broker need not       *)
(* return: the streams have no deadline and nobody cancels them.           *)
(***************************************************************************)
EXTENDS Integers, Sequences, FiniteSets, Functions

CONSTANTS
    MaximumQueueSize,   \* mMaximumQueueSize, the capacity of mExportQueue
    ScheduleSize,       \* reconnectSchedule.size()
    CheckStateEvery,    \* checkStateEvery
    MaxPicks            \* bound: picks that are enqueued

\* PublisherOptions and GRPCClientOptions refuse anything else.
ASSUME PublisherAssumption ==
    /\ MaximumQueueSize \in Nat \ {0}
    /\ ScheduleSize \in Nat
    /\ CheckStateEvery \in Nat \ {0}
    /\ MaxPicks \in Nat

Larger(x, y) == IF x < y THEN y ELSE x

VARIABLES
    mExportQueue,        \* the picks, by number in the order they are made
    mKeepRunning,
    mShutdownRequested,
    \* the thread in enqueue
    enqueuePc,           \* where it is; "outside" between two calls
    nextPick,            \* the pick it enqueues now, or next
    \* the thread in publish
    publishPc,
    kReconnect,
    hadSuccessfulWrite,
    checkStateCounter,
    inHand,              \* the pick popped and not written yet, or 0
    \* the thread in stop
    stopPc,
    \* history
    sent,                \* the picks written, in order
    purged,              \* the picks enqueue popped
    lost,                \* the picks whose write failed
    refused,             \* the picks try_push refused
    barren,              \* sessions since the last one with a successful write
    fatal                \* has a stream finished with a fatal status?

queueVars == <<enqueuePc, nextPick, purged, refused>>
sessionVars == <<kReconnect, hadSuccessfulWrite, checkStateCounter>>
workerVars == <<publishPc, sessionVars, inHand, sent, lost, barren, fatal>>
stopVars == <<mKeepRunning, mShutdownRequested, stopPc>>
vars == <<mExportQueue, queueVars, workerVars, stopVars>>

NoPick == 0
Picks == 1 .. MaxPicks
Statuses == {"OK", "UNAVAILABLE", "CANCELLED", "OTHER"}

TypeOK ==
    /\ mExportQueue \in Seq(Picks)
    /\ mKeepRunning \in BOOLEAN
    /\ mShutdownRequested \in BOOLEAN
    /\ enqueuePc \in {"outside", "size", "empty", "pop", "push"}
    /\ nextPick \in 1 .. MaxPicks + 1
    /\ publishPc \in {"unstarted", "reconnect", "wait", "woken", "open", "running",
                      "pop", "write", "finish", "exit", "ended", "threw"}
    /\ kReconnect \in -1 .. ScheduleSize
    /\ hadSuccessfulWrite \in BOOLEAN
    /\ checkStateCounter \in 0 .. CheckStateEvery
    /\ inHand \in Picks \cup {NoPick}
    /\ stopPc \in {"before", "request", "done"}
    /\ sent \in Seq(Picks)
    /\ purged \subseteq Picks
    /\ lost \subseteq Picks
    /\ refused \subseteq Picks
    /\ barren \in 0 .. ScheduleSize + 1
    /\ fatal \in BOOLEAN

Init ==
    /\ mExportQueue = <<>>
    /\ mKeepRunning = TRUE
    /\ mShutdownRequested = FALSE
    /\ enqueuePc = "outside"
    /\ nextPick = 1
    /\ publishPc = "unstarted"
    /\ kReconnect = -1
    /\ hadSuccessfulWrite = FALSE
    /\ checkStateCounter = 0
    /\ inHand = NoPick
    /\ stopPc = "before"
    /\ sent = <<>>
    /\ purged = {}
    /\ lost = {}
    /\ refused = {}
    /\ barren = 0
    /\ fatal = FALSE

---------------------------------------------------------------------------
(* PublisherImpl::enqueue.  A single thread calls it, the one that runs    *)
(* filterPackets, which NetworkDetector starts after the publisher.        *)

\* Variants with a mistake, for the mutation runs: purge only beyond the capacity,
\* or a pick too early.
LimitBeyondCapacity == MaximumQueueSize + 1
LimitTooEarly == Larger(0, MaximumQueueSize - 2)
Limit == Larger(0, MaximumQueueSize - 1)

Enqueue ==
    /\ enqueuePc = "outside"
    /\ publishPc # "unstarted"
    /\ nextPick <= MaxPicks
    /\ enqueuePc' = "size"
    /\ UNCHANGED <<mExportQueue, nextPick, purged, refused, workerVars, stopVars>>

EnqueueSize ==
    /\ enqueuePc = "size"
    /\ enqueuePc' = IF Len(mExportQueue) >= Limit THEN "empty" ELSE "push"
    /\ UNCHANGED <<mExportQueue, nextPick, purged, refused, workerVars, stopVars>>

EnqueueEmpty ==
    /\ enqueuePc = "empty"
    /\ enqueuePc' = IF mExportQueue = <<>> THEN "push" ELSE "pop"
    /\ UNCHANGED <<mExportQueue, nextPick, purged, refused, workerVars, stopVars>>

\* Variant with a mistake, for the mutation runs: the newest pick is purged.
EnqueuePurgesNewest ==
    /\ enqueuePc = "pop"
    /\ mExportQueue # <<>>
    /\ mExportQueue' = SubSeq(mExportQueue, 1, Len(mExportQueue) - 1)
    /\ purged' = purged \cup {mExportQueue[Len(mExportQueue)]}
    /\ enqueuePc' = "size"
    /\ UNCHANGED <<nextPick, refused, workerVars, stopVars>>

EnqueuePurge ==
    /\ enqueuePc = "pop"
    /\ mExportQueue # <<>>
    /\ mExportQueue' = Tail(mExportQueue)
    /\ purged' = purged \cup {Head(mExportQueue)}
    /\ enqueuePc' = "size"
    /\ UNCHANGED <<nextPick, refused, workerVars, stopVars>>

\* try_pop fails: the publisher's thread took the last pick in between.
EnqueuePurgeFails ==
    /\ enqueuePc = "pop"
    /\ mExportQueue = <<>>
    /\ enqueuePc' = "push"
    /\ UNCHANGED <<mExportQueue, nextPick, purged, refused, workerVars, stopVars>>

EnqueuePush ==
    /\ enqueuePc = "push"
    /\ IF Len(mExportQueue) < MaximumQueueSize
         THEN mExportQueue' = Append(mExportQueue, nextPick) /\ UNCHANGED refused
         ELSE refused' = refused \cup {nextPick} /\ UNCHANGED mExportQueue
    /\ enqueuePc' = "outside"
    /\ nextPick' = nextPick + 1
    /\ UNCHANGED <<purged, workerVars, stopVars>>

EnqueueNext ==
    \/ Enqueue \/ EnqueueSize \/ EnqueueEmpty
    \/ EnqueuePurge \/ EnqueuePurgeFails \/ EnqueuePush

---------------------------------------------------------------------------
(* PublisherImpl::publish                                                  *)

\* PublisherImpl::start
Start ==
    /\ publishPc = "unstarted"
    /\ stopPc = "before"
    /\ mKeepRunning' = TRUE
    /\ publishPc' = "reconnect"
    /\ kReconnect' = -1
    /\ UNCHANGED <<mExportQueue, queueVars, hadSuccessfulWrite, checkStateCounter,
                   inHand, sent, lost, barren, fatal, mShutdownRequested, stopPc>>

\* Variant with a mistake, for the mutation runs: one reconnection too many.
ReconnectOnceMore ==
    /\ publishPc = "reconnect"
    /\ publishPc' =
           IF kReconnect > ScheduleSize \/ ~mKeepRunning THEN "exit"
           ELSE IF kReconnect >= 0 THEN "wait"
           ELSE "open"
    /\ UNCHANGED <<mExportQueue, queueVars, sessionVars, inHand, sent, lost,
                   barren, fatal, stopVars>>

\* The head of the reconnection loop.
Reconnect ==
    /\ publishPc = "reconnect"
    /\ publishPc' =
           IF kReconnect >= ScheduleSize \/ ~mKeepRunning THEN "exit"
           ELSE IF kReconnect >= 0 THEN "wait"
           ELSE "open"
    /\ UNCHANGED <<mExportQueue, queueVars, sessionVars, inHand, sent, lost,
                   barren, fatal, stopVars>>

\* Variant with a mistake, for the mutation runs: a wait without a time limit.
WaitWithoutLimit ==
    /\ publishPc = "wait"
    /\ mShutdownRequested
    /\ publishPc' = "woken"
    /\ UNCHANGED <<mExportQueue, queueVars, sessionVars, inHand, sent, lost,
                   barren, fatal, stopVars>>

\* wait_for returns when its time is up ...
WaitTimesOut ==
    /\ publishPc = "wait"
    /\ publishPc' = "woken"
    /\ UNCHANGED <<mExportQueue, queueVars, sessionVars, inHand, sent, lost,
                   barren, fatal, stopVars>>

\* ... or when it is notified, or finds, that a shutdown is requested.
WaitIsNotified == mShutdownRequested /\ WaitTimesOut

Woken ==
    /\ publishPc = "woken"
    /\ publishPc' = IF mKeepRunning THEN "open" ELSE "exit"
    /\ UNCHANGED <<mExportQueue, queueVars, sessionVars, inHand, sent, lost,
                   barren, fatal, stopVars>>

\* publishSynchronously opens a channel and a stream.
Open ==
    /\ publishPc = "open"
    /\ publishPc' = "running"
    /\ hadSuccessfulWrite' = FALSE
    /\ checkStateCounter' = 0
    /\ UNCHANGED <<mExportQueue, queueVars, kReconnect, inHand, sent, lost,
                   barren, fatal, stopVars>>

\* while (keepRunning->load())
TestKeepRunning ==
    /\ publishPc = "running"
    /\ publishPc' = IF mKeepRunning THEN "pop" ELSE "finish"
    /\ UNCHANGED <<mExportQueue, queueVars, sessionVars, inHand, sent, lost,
                   barren, fatal, stopVars>>

\* Variant with a mistake, for the mutation runs: the pick stays in the queue.
PeekPick ==
    /\ publishPc = "pop"
    /\ mExportQueue # <<>>
    /\ inHand' = Head(mExportQueue)
    /\ publishPc' = "write"
    /\ UNCHANGED <<mExportQueue, queueVars, sessionVars, sent, lost, barren, fatal,
                   stopVars>>

PopPick ==
    /\ publishPc = "pop"
    /\ mExportQueue # <<>>
    /\ inHand' = Head(mExportQueue)
    /\ mExportQueue' = Tail(mExportQueue)
    /\ publishPc' = "write"
    /\ UNCHANGED <<queueVars, sessionVars, sent, lost, barren, fatal, stopVars>>

\* The queue is empty: every CheckStateEvery times in a row the thread looks
\* at the channel, and gives the stream up when it is not ready.
FindEmpty(ready) ==
    /\ publishPc = "pop"
    /\ mExportQueue = <<>>
    /\ IF checkStateCounter + 1 < CheckStateEvery
         THEN checkStateCounter' = checkStateCounter + 1 /\ publishPc' = "running"
         ELSE IF ready
           THEN checkStateCounter' = 0 /\ publishPc' = "running"
           ELSE checkStateCounter' = CheckStateEvery /\ publishPc' = "finish"
    /\ UNCHANGED <<mExportQueue, queueVars, kReconnect, hadSuccessfulWrite, inHand,
                   sent, lost, barren, fatal, stopVars>>

WriteSucceeds ==
    /\ publishPc = "write"
    /\ sent' = Append(sent, inHand)
    /\ inHand' = NoPick
    /\ checkStateCounter' = 0
    /\ hadSuccessfulWrite' = TRUE
    /\ publishPc' = "running"
    /\ UNCHANGED <<mExportQueue, queueVars, kReconnect, lost, barren, fatal, stopVars>>

\* Variant with a mistake, for the mutation runs: the pick goes back, behind the others.
WriteFailsAndRequeues ==
    /\ publishPc = "write"
    /\ mExportQueue' = Append(mExportQueue, inHand)
    /\ inHand' = NoPick
    /\ publishPc' = "finish"
    /\ UNCHANGED <<queueVars, sessionVars, sent, lost, barren, fatal, stopVars>>

\* The stream is broken; the pick that was popped is not put back.
WriteFails ==
    /\ publishPc = "write"
    /\ lost' = lost \cup {inHand}
    /\ inHand' = NoPick
    /\ publishPc' = "finish"
    /\ UNCHANGED <<mExportQueue, queueVars, sessionVars, sent, barren, fatal, stopVars>>

\* What publish does with the status of a finished stream: go round the loop
\* again, or leave it.
GoesOn(status) ==
    \/ status = "OK" /\ mKeepRunning
    \/ status = "UNAVAILABLE"
    \/ status = "CANCELLED" /\ mKeepRunning

\* Variant with a mistake, for the mutation runs: a good stream does not start the
\* schedule over.
FinishWithoutReset(status) ==
    /\ publishPc = "finish"
    /\ kReconnect' = IF GoesOn(status) THEN kReconnect + 1 ELSE kReconnect
    /\ publishPc' = IF GoesOn(status) THEN "reconnect" ELSE "exit"
    /\ barren' = IF hadSuccessfulWrite THEN 0
                 ELSE IF barren <= ScheduleSize THEN barren + 1 ELSE barren
    /\ fatal' = (fatal \/ status = "OTHER")
    /\ UNCHANGED <<mExportQueue, queueVars, hadSuccessfulWrite, checkStateCounter,
                   inHand, sent, lost, stopVars>>

Finish(status) ==
    /\ publishPc = "finish"
    /\ LET k == IF hadSuccessfulWrite THEN -1 ELSE kReconnect
       IN  kReconnect' = IF GoesOn(status) THEN k + 1 ELSE k
    /\ publishPc' = IF GoesOn(status) THEN "reconnect" ELSE "exit"
    /\ barren' = IF hadSuccessfulWrite THEN 0
                 ELSE IF barren <= ScheduleSize THEN barren + 1 ELSE barren
    /\ fatal' = (fatal \/ status = "OTHER")
    /\ UNCHANGED <<mExportQueue, queueVars, hadSuccessfulWrite, checkStateCounter,
                   inHand, sent, lost, stopVars>>

\* Variant with a mistake, for the mutation runs: every end is reported as premature.
ExitByThrowing ==
    /\ publishPc = "exit"
    /\ publishPc' = "threw"
    /\ UNCHANGED <<mExportQueue, queueVars, sessionVars, inHand, sent, lost,
                   barren, fatal, stopVars>>

\* After the loop: an end nobody asked for is reported as an exception.
Exit ==
    /\ publishPc = "exit"
    /\ publishPc' = IF mKeepRunning THEN "threw" ELSE "ended"
    /\ UNCHANGED <<mExportQueue, queueVars, sessionVars, inHand, sent, lost,
                   barren, fatal, stopVars>>

PublishNext ==
    \/ Reconnect \/ WaitTimesOut \/ WaitIsNotified \/ Woken \/ Open
    \/ TestKeepRunning \/ PopPick \/ \E ready \in BOOLEAN : FindEmpty(ready)
    \/ WriteSucceeds \/ WriteFails \/ \E status \in Statuses : Finish(status)
    \/ Exit

---------------------------------------------------------------------------
(* PublisherImpl::stop                                                     *)

\* Variant with a mistake, for the mutation runs: the thread is woken, the flag not cleared.
StopWithoutClearing ==
    /\ stopPc = "before"
    /\ publishPc # "unstarted"
    /\ mShutdownRequested' = TRUE
    /\ stopPc' = "request"
    /\ UNCHANGED <<mExportQueue, queueVars, workerVars, mKeepRunning>>

Stop ==
    /\ stopPc = "before"
    /\ publishPc # "unstarted"
    /\ mKeepRunning' = FALSE
    /\ stopPc' = "request"
    /\ UNCHANGED <<mExportQueue, queueVars, workerVars, mShutdownRequested>>

StopRequestsShutdown ==
    /\ stopPc = "request"
    /\ mShutdownRequested' = TRUE
    /\ stopPc' = "done"
    /\ UNCHANGED <<mExportQueue, queueVars, workerVars, mKeepRunning>>

StopNext == Stop \/ StopRequestsShutdown

Next == Start \/ EnqueueNext \/ PublishNext \/ StopNext

\* The calls of gRPC that wait for the broker: the stream being opened, Write,
\* and Finish with the WritesDone before it.
InGRPC == publishPc \in {"open", "write", "finish"}

\* Each thread keeps running outside gRPC: the two loops sleep or wait for a
\* bounded time.  Nothing makes a call of gRPC return, nor anybody start the
\* publisher, enqueue a pick or stop it.
Fairness ==
    /\ WF_vars(PublishNext /\ ~InGRPC)
    /\ WF_vars(EnqueueNext /\ enqueuePc # "outside")
    /\ WF_vars(StopRequestsShutdown)

Spec == Init /\ [][Next]_vars
FairSpec == Spec /\ Fairness

---------------------------------------------------------------------------
(* What the publisher promises.                                            *)

\* Picks in the order they were made, each at most once.
Ascending(picks) ==
    \A this \in DOMAIN picks :
        \A earlier \in 1 .. this - 1 : picks[earlier] < picks[this]

InHand == IF inHand = NoPick THEN {} ELSE {inHand}
Gone == purged \cup lost \cup Range(sent) \cup InHand

\* The broker gets the picks in the order they were made and none of them
\* twice, over any number of broken streams, and whatever left the queue,
\* purged by one thread or popped by the other, was older than all that stays
\* in it: purging drops the oldest picks.
OldestFirst ==
    /\ Ascending(sent)
    /\ Ascending(mExportQueue)
    /\ \A pick \in Range(mExportQueue) : \A gone \in Gone : gone < pick
    /\ inHand # NoPick => \A pick \in Range(sent) : pick < inHand

\* Where the picks enqueued so far are.
Fates ==
    [waiting |-> Range(mExportQueue), inHand |-> InHand, sent |-> Range(sent),
     purged |-> purged, lost |-> lost, refused |-> refused]

\* No pick vanishes: every pick enqueued so far is waiting, being written,
\* sent, purged, or lost with the stream that broke while it was written, and
\* only one of these although two threads pop from the queue.
EveryPickAccountedFor ==
    /\ UNION {Fates[a] : a \in DOMAIN Fates} = 1 .. nextPick - 1
    /\ \A a, b \in DOMAIN Fates : a # b => Fates[a] \cap Fates[b] = {}

\* Whatever the publisher's thread pops between the calls of enqueue, no pick
\* is refused, and the picks purged are no more than those enqueued beyond
\* what the queue keeps, which is one less than the capacity (but one at
\* least) and so less than publisherOptions.hpp:35 says can be buffered
\* (publisher.cpp:271-288).
NothingRefused ==
    /\ refused = {}
    /\ \/ purged = {}
       \/ Cardinality(purged) + Larger(1, MaximumQueueSize - 1) <= nextPick

\* The thread reports a premature end only after a fatal status or a whole
\* reconnection schedule without one successful write: a stream that carried
\* a pick starts the schedule over (publisher.cpp:302-338, 382-387).
PrematureEndIsJustified ==
    publishPc = "threw" => fatal \/ barren >= ScheduleSize

\* A thread that is between two streams when a shutdown is requested does not
\* open another one: stop clears mKeepRunning before it wakes the thread.
NoStreamAfterShutdown ==
    [][publishPc = "woken" /\ publishPc' = "open" => ~mShutdownRequested]_vars

\* The publisher delivers picks as PickDelivery promises.
Delivery == INSTANCE PickDelivery WITH offered <- nextPick - 1, delivered <- sent
DeliversInOrder == Delivery!Spec

Stopped == publishPc \in {"ended", "threw"}

\* Does every call of gRPC return?
BrokerAnswers == []<>~InGRPC

\* The publisher is a worker as NetworkDetector relies on it.  Its thread ends
\* once it is told to, wherever it was, so that the get() on its future in
\* NetworkDetector::stop returns, but only if its calls of gRPC do.
Lifecycle == INSTANCE Worker WITH
    keepRunning <- mKeepRunning,
    thread <- IF Stopped \/ publishPc = "unstarted" THEN publishPc ELSE "running"
RunsAsWorker == Lifecycle!Safety /\ (BrokerAnswers => Lifecycle!EndIsFair)

\* A pick in the queue does not wait for ever: it is popped by one of the
\* threads unless the publisher ends, however the streams break and fail, as
\* long as no call of gRPC waits for ever (publisher.cpp:176-225).
NoPickWaitsForever ==
    BrokerAnswers =>
        \A pick \in Picks :
            (pick \in Range(mExportQueue))
                ~> (pick \notin Range(mExportQueue) \/ Stopped)

\* stop "Stops the publisher thread." (publisher.hpp:41), whatever the broker
\* does: stop clears a flag and wakes the thread, but cancels no call
\* (publisher.cpp:391-396).
StopEndsThePublisher == ~mKeepRunning ~> Stopped
============================================================================
