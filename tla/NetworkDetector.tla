-------------------------- MODULE NetworkDetector --------------------------
(***************************************************************************)
(* The application (src/src/filterPicker.cpp): the main thread starts the  *)
(* publisher, the subscriber and the thread that filters packets, watches  *)
(* their futures and a signal flag, and stops and joins them.  The import  *)
(* queue is between the subscriber's callback (getPacket), on a thread of  *)
(* gRPC, and filterPackets.                                                *)
(*                                                                         *)
(* The publisher and the subscriber are Workers: Publisher and Subscriber  *)
(* implement that specification, but that the publisher's thread, once     *)
(* told, ends only if the broker answers.  What a packet does to its       *)
(* picker is in Picker; here it makes some picks, or none.                 *)
(***************************************************************************)
EXTENDS Integers, Sequences, Functions

CONSTANTS
    MaximumImportQueueSize,  \* mMaximumImportQueueSize
    MaxPackets,              \* bound: packets the subscriber receives
    MaxPicks                 \* bound: picks a packet makes

ASSUME NetworkDetectorAssumption ==
    /\ MaximumImportQueueSize \in Nat \ {0}
    /\ MaxPackets \in Nat
    /\ MaxPicks \in Nat

VARIABLES
    \* the main thread
    mainPc,
    mInterrupted,
    isOkay,                \* of checkFuturesOkay
    valid,                 \* the futures nobody has called get() on yet
    exitStatus,            \* what main returns, "none" until it is known
    services,              \* the logger and the metrics, while initialized
    \* the publisher and the subscriber
    pubKeepRunning, pubThread,
    subKeepRunning, subThread,
    \* the thread in filterPackets
    mKeepRunning,
    dataPc,
    packet,                \* the packet it processes, or 0
    picksLeft,             \* the picks of getPicks it has not enqueued yet
    \* the thread in getPacket
    callbackPc,
    nextPacket,            \* the packet it receives now, or next
    mImportQueue,          \* the packets, by number in the order received
    \* history
    processed,             \* the packets filtered, in order
    dropped                \* the packets getPacket popped

mainVars == <<mainPc, mInterrupted, isOkay, valid, exitStatus, services>>
pubVars == <<pubKeepRunning, pubThread>>
subVars == <<subKeepRunning, subThread>>
dataVars == <<mKeepRunning, dataPc, packet, picksLeft, processed>>
callbackVars == <<callbackPc, nextPacket, dropped>>
Others == <<pubVars, subVars, dataVars, callbackVars, mImportQueue>>
vars == <<mainVars, pubVars, subVars, dataVars, callbackVars, mImportQueue>>

Publisher == INSTANCE Worker WITH keepRunning <- pubKeepRunning, thread <- pubThread
Subscriber == INSTANCE Worker WITH keepRunning <- subKeepRunning, thread <- subThread

Services == {"logger", "metrics"}
Futures == {"publisher", "subscription", "processing"}
Packets == 1 .. MaxPackets
NoPacket == 0
ThreadStates == {"unstarted", "running", "ended", "threw"}

\* The thread behind each future.
ThreadOf(future) ==
    CASE future = "publisher"    -> pubThread
      [] future = "subscription" -> subThread
      [] future = "processing"   -> IF dataPc \in {"unstarted", "ended"} THEN dataPc
                                    ELSE "running"
Ready(future) == ThreadOf(future) \in {"ended", "threw"}

TypeOK ==
    /\ mainPc \in {"options", "logger", "metrics", "detector", "startPublisher", "startSubscriber", "startProcessing", "loop",
                   "check1", "check2", "check3", "check4", "stop", "stopSubscriber",
                   "stopPublisher", "get1", "get2", "get3", "cleanUp", "leave", "gone"}
    /\ services \subseteq Services
    /\ mInterrupted \in BOOLEAN
    /\ isOkay \in BOOLEAN
    /\ valid \subseteq Futures
    /\ exitStatus \in {"none", "EXIT_SUCCESS", "EXIT_FAILURE"}
    /\ pubKeepRunning \in BOOLEAN /\ pubThread \in ThreadStates
    /\ subKeepRunning \in BOOLEAN /\ subThread \in ThreadStates
    /\ mKeepRunning \in BOOLEAN
    /\ dataPc \in {"unstarted", "test", "pop", "apply", "enqueue", "ended"}
    /\ packet \in Packets \cup {NoPacket}
    /\ picksLeft \in 0 .. MaxPicks
    /\ callbackPc \in {"outside", "size", "pop", "push"}
    /\ nextPacket \in 1 .. MaxPackets + 1
    /\ mImportQueue \in Seq(Packets)
    /\ processed \in Seq(Packets)
    /\ dropped \subseteq Packets

Init ==
    /\ mainPc = "options"
    /\ services = {}
    /\ mInterrupted = FALSE
    /\ isOkay = TRUE
    /\ valid = {}
    /\ exitStatus = "none"
    /\ Publisher!Init
    /\ Subscriber!Init
    /\ mKeepRunning = TRUE
    /\ dataPc = "unstarted"
    /\ packet = NoPacket
    /\ picksLeft = 0
    /\ callbackPc = "outside"
    /\ nextPacket = 1
    /\ mImportQueue = <<>>
    /\ processed = <<>>
    /\ dropped = {}

---------------------------------------------------------------------------
(* NetworkDetector::getPacket, on the callback thread of the subscriber.   *)

GetPacket ==
    /\ callbackPc = "outside"
    /\ subThread = "running"
    /\ nextPacket <= MaxPackets
    /\ callbackPc' = "size"
    /\ UNCHANGED <<nextPacket, dropped, mImportQueue, mainVars, pubVars, subVars, dataVars>>

\* Variant with a mistake, for the mutation runs: one packet too many is kept.
GetPacketSizeAbove ==
    /\ callbackPc = "size"
    /\ callbackPc' = IF Len(mImportQueue) > MaximumImportQueueSize THEN "pop" ELSE "push"
    /\ UNCHANGED <<nextPacket, dropped, mImportQueue, mainVars, pubVars, subVars, dataVars>>

GetPacketSize ==
    /\ callbackPc = "size"
    /\ callbackPc' = IF Len(mImportQueue) >= MaximumImportQueueSize THEN "pop" ELSE "push"
    /\ UNCHANGED <<nextPacket, dropped, mImportQueue, mainVars, pubVars, subVars, dataVars>>

GetPacketDrops ==
    /\ callbackPc = "pop"
    /\ IF mImportQueue # <<>>
         THEN /\ dropped' = dropped \cup {Head(mImportQueue)}
              /\ mImportQueue' = Tail(mImportQueue)
              /\ callbackPc' = "size"
         ELSE callbackPc' = "push" /\ UNCHANGED <<dropped, mImportQueue>>
    /\ UNCHANGED <<nextPacket, mainVars, pubVars, subVars, dataVars>>

\* try_push: the capacity of mImportQueue is never set, and so unbounded.
GetPacketPushes ==
    /\ callbackPc = "push"
    /\ mImportQueue' = Append(mImportQueue, nextPacket)
    /\ nextPacket' = nextPacket + 1
    /\ callbackPc' = "outside"
    /\ UNCHANGED <<dropped, mainVars, pubVars, subVars, dataVars>>

CallbackNext == GetPacket \/ GetPacketSize \/ GetPacketDrops \/ GetPacketPushes

---------------------------------------------------------------------------
(* NetworkDetector::filterPackets                                          *)

FilterTest ==
    /\ dataPc = "test"
    /\ dataPc' = IF mKeepRunning THEN "pop" ELSE "ended"
    /\ UNCHANGED <<mKeepRunning, packet, picksLeft, processed, mImportQueue,
                   mainVars, pubVars, subVars, callbackVars>>

\* Variant with a mistake, for the mutation runs: the packet stays in the queue.
FilterPeek ==
    /\ dataPc = "pop"
    /\ IF mImportQueue # <<>> THEN packet' = Head(mImportQueue) /\ dataPc' = "apply"
       ELSE dataPc' = "test" /\ UNCHANGED packet
    /\ UNCHANGED <<mKeepRunning, picksLeft, processed, mImportQueue, mainVars, pubVars,
                   subVars, callbackVars>>

FilterPop ==
    /\ dataPc = "pop"
    /\ IF mImportQueue # <<>>
         THEN /\ packet' = Head(mImportQueue)
              /\ mImportQueue' = Tail(mImportQueue)
              /\ dataPc' = "apply"
         ELSE dataPc' = "test" /\ UNCHANGED <<packet, mImportQueue>>
    /\ UNCHANGED <<mKeepRunning, picksLeft, processed, mainVars, pubVars, subVars,
                   callbackVars>>

\* The packet is of an unwanted stream, has no sampling rate, or its apply
\* throws (no picks), or getPicks returns some.
FilterApply(picks) ==
    /\ dataPc = "apply"
    /\ processed' = Append(processed, packet)
    /\ packet' = NoPacket
    /\ picksLeft' = picks
    /\ dataPc' = IF picks = 0 THEN "test" ELSE "enqueue"
    /\ UNCHANGED <<mKeepRunning, mImportQueue, mainVars, pubVars, subVars, callbackVars>>

\* Variant with a mistake, for the mutation runs: one pick too many.
FilterEnqueueOneMore ==
    /\ dataPc = "enqueue"
    /\ picksLeft' = picksLeft - 1
    /\ dataPc' = IF picksLeft = 0 THEN "test" ELSE "enqueue"
    /\ UNCHANGED <<mKeepRunning, packet, processed, mImportQueue, mainVars, pubVars,
                   subVars, callbackVars>>

FilterEnqueue ==
    /\ dataPc = "enqueue"
    /\ picksLeft' = picksLeft - 1
    /\ dataPc' = IF picksLeft = 1 THEN "test" ELSE "enqueue"
    /\ UNCHANGED <<mKeepRunning, packet, processed, mImportQueue, mainVars, pubVars,
                   subVars, callbackVars>>

FilterNext ==
    \/ FilterTest \/ FilterPop
    \/ \E picks \in 0 .. MaxPicks : FilterApply(picks)
    \/ FilterEnqueue

---------------------------------------------------------------------------
(* The threads of the publisher and the subscriber end.  No packet is      *)
(* handed over once the subscriber's thread is past await.                 *)

PublisherEnds ==
    /\ Publisher!End \/ Publisher!EndPrematurely
    /\ UNCHANGED <<mainVars, subVars, dataVars, callbackVars, mImportQueue>>

SubscriberEnds ==
    /\ callbackPc = "outside"
    /\ Subscriber!End \/ Subscriber!EndPrematurely
    /\ UNCHANGED <<mainVars, pubVars, dataVars, callbackVars, mImportQueue>>

---------------------------------------------------------------------------
(* main up to start(): any step of the set-up may throw, which ends the    *)
(* process with what was initialized before cleaned up.                    *)

Return(status) == mainPc' = "leave" /\ exitStatus' = status

\* A request for help, a bad command line, no ini file or a bad one end it.
ReadOptions ==
    /\ mainPc = "options"
    /\ \/ mainPc' = "logger" /\ UNCHANGED exitStatus
       \/ \E status \in {"EXIT_SUCCESS", "EXIT_FAILURE"} : Return(status)
    /\ UNCHANGED <<mInterrupted, isOkay, valid, services, Others>>

InitializeLogger ==
    /\ mainPc = "logger"
    /\ \/ mainPc' = "metrics" /\ services' = {"logger"} /\ UNCHANGED exitStatus
       \/ Return("EXIT_FAILURE") /\ UNCHANGED services
    /\ UNCHANGED <<mInterrupted, isOkay, valid, Others>>

\* There are no metrics to initialize unless they are exported.
InitializeMetrics ==
    /\ mainPc = "metrics"
    /\ \/ /\ mainPc' = "detector"
          /\ services' \in {services, services \cup {"metrics"}}
          /\ UNCHANGED exitStatus
       \/ Return("EXIT_FAILURE") /\ services' = services \ {"logger"}
    /\ UNCHANGED <<mInterrupted, isOkay, valid, Others>>

\* The constructor of NetworkDetector throws for a stream that is not of the
\* channel HHZ or is given twice, and when the subscriber, the publisher or a
\* picker cannot be made.
Construct ==
    /\ mainPc = "detector"
    /\ \/ mainPc' = "startPublisher" /\ UNCHANGED <<exitStatus, services>>
       \/ Return("EXIT_FAILURE") /\ services' = services \ {"logger", "metrics"}
    /\ UNCHANGED <<mInterrupted, isOkay, valid, Others>>

SetUp == ReadOptions \/ InitializeLogger \/ InitializeMetrics \/ Construct

---------------------------------------------------------------------------
(* The main thread: start, handleMainThread, checkFuturesOkay, stop.       *)

StartPublisher ==
    /\ mainPc = "startPublisher"
    /\ mainPc' = "startSubscriber"
    /\ mKeepRunning' = TRUE
    /\ Publisher!Start
    /\ valid' = valid \cup {"publisher"}
    /\ UNCHANGED <<mInterrupted, isOkay, exitStatus, services, subVars, dataPc, packet,
                   picksLeft, processed, callbackVars, mImportQueue>>

StartSubscriber ==
    /\ mainPc = "startSubscriber"
    /\ mainPc' = "startProcessing"
    /\ Subscriber!Start
    /\ valid' = valid \cup {"subscription"}
    /\ UNCHANGED <<mInterrupted, isOkay, exitStatus, services, pubVars, dataVars, callbackVars,
                   mImportQueue>>

StartProcessing ==
    /\ mainPc = "startProcessing"
    /\ mainPc' = "loop"
    /\ dataPc' = "test"
    /\ valid' = valid \cup {"processing"}
    /\ UNCHANGED <<mInterrupted, isOkay, exitStatus, services, pubVars, subVars, mKeepRunning,
                   packet, picksLeft, processed, callbackVars, mImportQueue>>

\* The head of the loop of handleMainThread.
Watch ==
    /\ mainPc = "loop"
    /\ mainPc' = IF mInterrupted THEN "stop" ELSE "check1"
    /\ isOkay' = TRUE
    /\ UNCHANGED <<mInterrupted, valid, exitStatus, services, Others>>

\* Variant with a mistake, for the mutation runs: get() without looking.
CheckByGetting(pc, future, next) ==
    /\ mainPc = pc
    /\ mainPc' = next
    /\ isOkay' = (isOkay /\ future \in valid /\ ThreadOf(future) # "threw")
    /\ valid' = valid \ {future}
    /\ UNCHANGED <<mInterrupted, exitStatus, services, Others>>

\* One of the four looks of checkFuturesOkay: wait_for on a future that has
\* been consumed throws, and so does get() on one whose thread threw.
Check(pc, future, next) ==
    /\ mainPc = pc
    /\ mainPc' = next
    /\ isOkay' = (isOkay /\ future \in valid /\ ThreadOf(future) # "threw")
    /\ valid' = IF Ready(future) THEN valid \ {future} ELSE valid
    /\ UNCHANGED <<mInterrupted, exitStatus, services, Others>>

\* The last look, and what handleMainThread does with the result.
CheckLast ==
    /\ mainPc = "check4"
    /\ LET okay == isOkay /\ "publisher" \in valid /\ pubThread # "threw"
       IN  isOkay' = okay /\ mainPc' = IF okay THEN "loop" ELSE "stop"
    /\ valid' = IF Ready("publisher") THEN valid \ {"publisher"} ELSE valid
    /\ UNCHANGED <<mInterrupted, exitStatus, services, Others>>

CheckFuturesOkay ==
    \/ Check("check1", "publisher", "check2")
    \/ Check("check2", "subscription", "check3")
    \/ Check("check3", "processing", "check4")
    \/ CheckLast

StopProcessing ==
    /\ mainPc = "stop"
    /\ mainPc' = "stopSubscriber"
    /\ mKeepRunning' = FALSE
    /\ UNCHANGED <<mInterrupted, isOkay, valid, exitStatus, services, pubVars, subVars, dataPc,
                   packet, picksLeft, processed, callbackVars, mImportQueue>>

\* Variant with a mistake, for the mutation runs: the subscriber is not told.
StopForgetsSubscriber ==
    /\ mainPc = "stopSubscriber"
    /\ mainPc' = "stopPublisher"
    /\ UNCHANGED <<mInterrupted, isOkay, valid, exitStatus, services, Others>>

StopSubscriber ==
    /\ mainPc = "stopSubscriber"
    /\ mainPc' = "stopPublisher"
    /\ Subscriber!Stop
    /\ UNCHANGED <<mInterrupted, isOkay, valid, exitStatus, services, pubVars, dataVars,
                   callbackVars, mImportQueue>>

StopPublisher ==
    /\ mainPc = "stopPublisher"
    /\ mainPc' = "get1"
    /\ Publisher!Stop
    /\ UNCHANGED <<mInterrupted, isOkay, valid, exitStatus, services, subVars, dataVars,
                   callbackVars, mImportQueue>>

\* Variant with a mistake, for the mutation runs: nobody waits for the threads.
GetWithoutWaiting(pc, future, next) ==
    /\ mainPc = pc
    /\ valid' = valid \ {future}
    /\ mainPc' = next
    /\ exitStatus' = IF next = "cleanUp" THEN "EXIT_SUCCESS" ELSE exitStatus
    /\ UNCHANGED <<mInterrupted, isOkay, services, Others>>

\* if (future.valid()) future.get(): waits for the thread; the exception of a
\* thread that threw leaves stop(), start() and the try block of main.
Get(pc, future, next) ==
    /\ mainPc = pc
    /\ future \in valid => Ready(future)
    /\ valid' = valid \ {future}
    /\ IF future \in valid /\ ThreadOf(future) = "threw"
         THEN mainPc' = "cleanUp" /\ exitStatus' = "EXIT_FAILURE"
         ELSE /\ mainPc' = next
              /\ exitStatus' = IF next = "cleanUp" THEN "EXIT_SUCCESS" ELSE exitStatus
    /\ UNCHANGED <<mInterrupted, isOkay, services, Others>>

JoinThreads ==
    \/ Get("get1", "processing", "get2")
    \/ Get("get2", "subscription", "get3")
    \/ Get("get3", "publisher", "cleanUp")

\* The end of main's last try block, or its handler.
CleanUp ==
    /\ mainPc = "cleanUp"
    /\ mainPc' = "leave"
    /\ services' = services \ {"logger", "metrics"}
    /\ UNCHANGED <<mInterrupted, isOkay, valid, exitStatus, Others>>

\* main returns: the destructor of a future of std::async waits for its thread.
Leave ==
    /\ mainPc = "leave"
    /\ \A future \in valid : Ready(future)
    /\ mainPc' = "gone"
    /\ UNCHANGED <<mInterrupted, isOkay, valid, exitStatus, services, Others>>

MainNext ==
    \/ SetUp
    \/ StartPublisher \/ StartSubscriber \/ StartProcessing
    \/ Watch \/ CheckFuturesOkay
    \/ StopProcessing \/ StopSubscriber \/ StopPublisher
    \/ JoinThreads \/ CleanUp \/ Leave

BeforeLoop == mainPc \in {"options", "logger", "metrics", "detector",
                          "startPublisher", "startSubscriber", "startProcessing"}

\* stdSignalHandler: SIGINT or SIGTERM, once handleMainThread catches them.
Interrupt ==
    /\ ~BeforeLoop /\ mainPc # "gone"
    /\ ~mInterrupted
    /\ mInterrupted' = TRUE
    /\ UNCHANGED <<mainPc, isOkay, valid, exitStatus, services, Others>>

Next ==
    \/ MainNext \/ Interrupt
    \/ CallbackNext \/ FilterNext
    \/ PublisherEnds \/ SubscriberEnds

\* Every thread runs, and the subscriber's ends when it is told to stop, as
\* Worker!Spec says.  The publisher's need not: it may wait for the broker.
Fairness ==
    /\ WF_vars(MainNext)
    /\ WF_vars(FilterNext)
    /\ WF_vars(CallbackNext /\ callbackPc # "outside")
    /\ WF_vars(SubscriberEnds /\ ~subKeepRunning)

Spec == Init /\ [][Next]_vars
FairSpec == Spec /\ Fairness

---------------------------------------------------------------------------
(* What the application promises.                                          *)

\* Packets in the order they were received, each at most once.
Ascending(packets) ==
    \A this \in DOMAIN packets :
        \A earlier \in 1 .. this - 1 : packets[earlier] < packets[this]

InProcess == IF packet = NoPacket THEN {} ELSE {packet}
Taken == Range(processed) \cup InProcess \cup dropped

\* The import queue stays within its bound although two threads pop from it
\* between the calls of getPacket, and what leaves it is always older than
\* what stays: a picker gets its packets in the order they were received.
PacketsInOrder ==
    /\ Len(mImportQueue) <= MaximumImportQueueSize
    /\ Ascending(processed)
    /\ Ascending(mImportQueue)
    /\ \A waiting \in Range(mImportQueue) : \A taken \in Taken : taken < waiting
    /\ \A done \in Range(processed) : packet # NoPacket => done < packet

\* Every packet received is waiting, being processed, processed or dropped,
\* and no packet is both dropped and processed.
EveryPacketAccountedFor ==
    /\ Range(mImportQueue) \cup Taken = 1 .. nextPacket - 1
    /\ dropped \cap (Range(processed) \cup InProcess) = {}

\* start() was called: the set-up of main succeeded.
Started == pubThread # "unstarted"
Stopping == mainPc \in {"stop", "stopSubscriber", "stopPublisher", "get1", "get2",
                        "get3", "cleanUp", "leave", "gone"}
Idle(future) == ThreadOf(future) # "running"

\* The application only stops when it was told to, or when a worker's thread
\* ended by an exception: looking twice at the publisher's future, and at
\* futures that were consumed, never raises a false alarm.  And it reports
\* failure only for an exception that checkFuturesOkay did not see: it came
\* just before an interrupt, or the other worker failed as well.  One failure
\* that is seen ends in success (filterPicker.cpp:572-642, 495-507).
StopsForAReason ==
    /\ Started /\ Stopping =>
          mInterrupted \/ pubThread = "threw" \/ subThread = "threw"
    /\ Started /\ exitStatus = "EXIT_FAILURE" =>
          \/ mInterrupted /\ (pubThread = "threw" \/ subThread = "threw")
          \/ pubThread = "threw" /\ subThread = "threw"

\* When start() is left no thread of the application will run a callback or
\* touch a queue again, except after an exception: then the publisher's
\* thread may still be ending, and its future waits for it.  Whichever step
\* of main fails, and however start() is left, the logger and the metrics are
\* cleaned up by the end; and before it no thread runs without the logger it
\* writes to, but for the publisher's after an exception.
NothingOutlivesWhatItUses ==
    /\ exitStatus = "EXIT_SUCCESS" => \A future \in Futures : Idle(future)
    /\ mainPc \in {"cleanUp", "leave"} => Idle("processing") /\ Idle("subscription")
    /\ \A future \in Futures : ~Idle(future) /\ "logger" \notin services =>
          future = "publisher" /\ exitStatus = "EXIT_FAILURE"
    /\ mainPc = "gone" =>
          /\ \A future \in Futures : Idle(future)
          /\ callbackPc = "outside"
          /\ services = {}

\* A signal ends the process, wherever its threads are, and so does a worker
\* whose thread throws, so that a supervisor can start the application again:
\* nobody waits for a thread that was not told to stop.  Only the publisher's
\* thread can hold the process up, if it never ends although it was told to: its
\* future waits for it (filterPicker.cpp:485-508, publisher.cpp:225).
AlwaysEnds ==
    \/ <>[](pubThread = "running" /\ ~pubKeepRunning)
    \/ mInterrupted \/ pubThread = "threw" \/ subThread = "threw" ~> mainPc = "gone"
=============================================================================
