-------------------------- MODULE SubscriberProofs --------------------------
(***************************************************************************)
(* Proofs about Subscriber, for every length of the reconnection schedule, *)
(* every number of packets and whatever their end times.                   *)
(***************************************************************************)
EXTENDS Subscriber, TLAPS

---------------------------------------------------------------------------
(* Types.                                                                  *)

\* Where the thread is on its way round the reconnection loop.
InLoop == {"wait", "woken", "open", "await", "poll", "doze", "handle"}

\* What relates the program counters to the variables that would leave their
\* types without it.
ControlInv ==
    /\ acquirePc \in InLoop => kReconnect < ScheduleSize
    /\ callback = "addPacket" => received < MaxPackets
    /\ receivedLate <= received

\* The types of the flags, and of the rest.
FlagTypes ==
    /\ mKeepRunning \in BOOLEAN /\ mShutdownRequested \in BOOLEAN
    /\ mTryCancel \in BOOLEAN /\ mHadSuccessfulRead \in BOOLEAN
    /\ mDone \in BOOLEAN /\ reading \in BOOLEAN /\ fatal \in BOOLEAN
    /\ locked \in BOOLEAN /\ outlived \in BOOLEAN
OtherTypes ==
    /\ stopPc \in {"before", "clear", "done"}
    /\ acquirePc \in {"unstarted", "reconnect", "wait", "woken", "open", "await",
                      "poll", "doze", "handle", "exit", "ended", "threw"}
    /\ kReconnect \in -1 .. ScheduleSize
    /\ mStatus \in Statuses
    /\ call \in {"none", "live", "cancelled", "over"}
    /\ callStatus \in Statuses
    /\ callback \in {"none", "addPacket", "readNext"}
    /\ onDone \in {"no", "done", "notify"}
    /\ mLastPacketReceived \in EndTimes \cup {-1, 0}
    /\ received \in 0 .. MaxPackets
    /\ receivedLate \in 0 .. MaxPackets
    /\ barren \in 0 .. ScheduleSize + 1

\* The initial state has the types.
LEMMA TypeInit == Init => TypeOK /\ ControlInv
  <1> SUFFICES ASSUME Init PROVE TypeOK /\ ControlInv
    OBVIOUS
  <1>1. FlagTypes
    BY Zenon DEF Init, FlagTypes
  <1>2. OtherTypes /\ ControlInv
    BY SubscriberAssumption
       DEF SubscriberAssumption, Init, OtherTypes, ControlInv, InLoop, Statuses
  <1> QED
    BY <1>1, <1>2, Zenon DEF TypeOK, FlagTypes, OtherTypes

\* Every step keeps the flags Boolean.
LEMMA FlagStep == FlagTypes /\ [Next]_vars => FlagTypes'
  <1> SUFFICES ASSUME FlagTypes, [Next]_vars PROVE FlagTypes'
    OBVIOUS
  <1> USE DEF FlagTypes, stopVars, threadVars, streamVars, grpcVars, mutexVars, packetVars,
              KeepCall, TryCancel, GoTo
  <1>1. CASE Start
    BY <1>1, Zenon DEF Start
  <1>2. CASE AcquireNext
    <2>1. CASE Reconnect
      BY <2>1, Zenon DEF Reconnect
    <2>2. CASE Wait
      BY <2>2, Zenon DEF Wait
    <2>3. CASE Woken
      BY <2>3, Zenon DEF Woken
    <2>4. CASE Open
      BY <2>4, Zenon DEF Open
    <2>5. CASE AwaitTest
      BY <2>5, Zenon DEF AwaitTest
    <2>6. CASE AwaitPoll
      BY <2>6, Zenon DEF AwaitPoll
    <2>7. CASE AwaitDoze
      BY <2>7, Zenon DEF AwaitDoze
    <2>8. CASE Handle
      BY <2>8, Zenon DEF Handle
    <2>9. CASE Exit
      BY <2>9, Zenon DEF Exit
    <2> QED
      BY <1>2, <2>1, <2>2, <2>3, <2>4, <2>5, <2>6, <2>7, <2>8, <2>9 DEF AcquireNext
  <1>3. CASE CallbackNext
    <2>1. ASSUME NEW endTime \in EndTimes \cup {0}, NEW throws \in BOOLEAN,
                 AddPacket(endTime, throws)
          PROVE  FlagTypes'
      BY <2>1, Zenon DEF AddPacket
    <2>2. CASE ReadNext
      BY <2>2, Zenon DEF ReadNext
    <2>3. CASE ReadFails
      BY <2>3, Zenon DEF ReadFails
    <2>4. CASE OnDone
      BY <2>4, Zenon DEF OnDone
    <2>5. CASE OnDoneSetsDone
      BY <2>5, Zenon DEF OnDoneSetsDone
    <2>6. CASE OnDoneReturns
      BY <2>6, Zenon DEF OnDoneReturns
    <2> QED
      BY <1>3, <2>1, <2>2, <2>3, <2>4, <2>5, <2>6 DEF CallbackNext
  <1>4. CASE ServerNext
    <2>1. CASE ReadCompletes
      BY <2>1, Zenon DEF ReadCompletes
    <2>2. ASSUME NEW status \in Statuses, ServerEndsCall(status)
          PROVE  FlagTypes'
      BY <2>2, Zenon DEF ServerEndsCall
    <2>3. CASE CancelTakesEffect
      BY <2>3, Zenon DEF CancelTakesEffect, ServerEndsCall
    <2> QED
      BY <1>4, <2>1, <2>2, <2>3 DEF ServerNext
  <1>5. CASE StopNext
    <2>1. CASE Stop
      BY <2>1, Zenon DEF Stop
    <2>2. CASE StopClearsKeepRunning
      BY <2>2, Zenon DEF StopClearsKeepRunning
    <2> QED
      BY <1>5, <2>1, <2>2 DEF StopNext
  <1>6. CASE OutlivedReturns
    <2>1. locked' \in BOOLEAN
      BY <1>6, Zenon DEF OutlivedReturns
    <2> QED
      BY <1>6, <2>1, Zenon DEF OutlivedReturns
  <1>7. CASE UNCHANGED vars
    BY <1>7, Zenon DEF vars
  <1> QED
    BY <1>1, <1>2, <1>3, <1>4, <1>5, <1>6, <1>7 DEF Next

\* Every step keeps the other types, and what they depend on.
LEMMA OtherStep == OtherTypes /\ ControlInv /\ [Next]_vars => OtherTypes' /\ ControlInv'
  <1> SUFFICES ASSUME OtherTypes /\ ControlInv, [Next]_vars
               PROVE  OtherTypes' /\ ControlInv'
    OBVIOUS
  <1> USE SubscriberAssumption
      DEF SubscriberAssumption, OtherTypes, ControlInv, InLoop, Statuses, stopVars,
          threadVars, streamVars, grpcVars, mutexVars, packetVars, KeepCall, TryCancel, GoTo
  <1>1. CASE Start
    BY <1>1 DEF Start
  <1>2. CASE AcquireNext
    <2>1. CASE Reconnect
      BY <2>1 DEF Reconnect
    <2>2. CASE Wait
      BY <2>2 DEF Wait
    <2>3. CASE Woken
      BY <2>3 DEF Woken
    <2>4. CASE Open
      BY <2>4 DEF Open
    <2>5. CASE AwaitTest
      BY <2>5 DEF AwaitTest
    <2>6. CASE AwaitPoll
      BY <2>6 DEF AwaitPoll
    <2>7. CASE AwaitDoze
      BY <2>7 DEF AwaitDoze
    <2>8. CASE Handle
      BY <2>8 DEF Handle
    <2>9. CASE Exit
      BY <2>9 DEF Exit
    <2> QED
      BY <1>2, <2>1, <2>2, <2>3, <2>4, <2>5, <2>6, <2>7, <2>8, <2>9 DEF AcquireNext
  <1>3. CASE CallbackNext
    <2>1. ASSUME NEW endTime \in EndTimes \cup {0}, NEW throws \in BOOLEAN,
                 AddPacket(endTime, throws)
          PROVE  OtherTypes' /\ ControlInv'
      BY <2>1 DEF AddPacket
    <2>2. CASE ReadNext
      BY <2>2 DEF ReadNext
    <2>3. CASE ReadFails
      BY <2>3 DEF ReadFails
    <2>4. CASE OnDone
      BY <2>4 DEF OnDone
    <2>5. CASE OnDoneSetsDone
      BY <2>5 DEF OnDoneSetsDone
    <2>6. CASE OnDoneReturns
      BY <2>6 DEF OnDoneReturns
    <2> QED
      BY <1>3, <2>1, <2>2, <2>3, <2>4, <2>5, <2>6 DEF CallbackNext
  <1>4. CASE ServerNext
    <2>1. CASE ReadCompletes
      BY <2>1 DEF ReadCompletes
    <2>2. ASSUME NEW status \in Statuses, ServerEndsCall(status)
          PROVE  OtherTypes' /\ ControlInv'
      BY <2>2 DEF ServerEndsCall
    <2>3. CASE CancelTakesEffect
      BY <2>2, <2>3 DEF CancelTakesEffect
    <2> QED
      BY <1>4, <2>1, <2>2, <2>3 DEF ServerNext
  <1>5. CASE StopNext
    <2>1. CASE Stop
      BY <2>1 DEF Stop
    <2>2. CASE StopClearsKeepRunning
      BY <2>2 DEF StopClearsKeepRunning
    <2> QED
      BY <1>5, <2>1, <2>2 DEF StopNext
  <1>6. CASE OutlivedReturns
    BY <1>6 DEF OutlivedReturns
  <1>7. CASE UNCHANGED vars
    BY <1>7 DEF vars
  <1> QED
    BY <1>1, <1>2, <1>3, <1>4, <1>5, <1>6, <1>7 DEF Next

\* Every step keeps the types, and what they depend on.
LEMMA TypeStep == TypeOK /\ ControlInv /\ [Next]_vars => TypeOK' /\ ControlInv'
  <1>1. TypeOK <=> FlagTypes /\ OtherTypes
    BY Zenon DEF TypeOK, FlagTypes, OtherTypes
  <1>2. TypeOK' <=> FlagTypes' /\ OtherTypes'
    BY Zenon DEF TypeOK, FlagTypes, OtherTypes
  <1> QED
    BY <1>1, <1>2, FlagStep, OtherStep

\* Both hold in every reachable state.
LEMMA TypesHold == Spec => [](TypeOK /\ ControlInv)
  BY TypeInit, TypeStep, PTL DEF Spec

\* Every variable keeps its type, whatever the sizes: in particular the index
\* into the reconnection schedule never passes its end while the thread waits
\* for the interval at that index.
THEOREM TypeCorrect == Spec => []TypeOK
  BY TypesHold, PTL

---------------------------------------------------------------------------
(* What the callbacks and await see of each other.                         *)

InAwait == acquirePc \in {"await", "poll", "doze"}

\* A call that goes on, a read and a callback keep the thread in await; the
\* last callback has stored the status before it says so; and what await saw
\* of it lasts until the status is handled.
StreamInv ==
    /\ (call \in {"live", "cancelled"} \/ reading \/ callback # "none") =>
          InAwait /\ ~mDone /\ onDone = "no"
    /\ call = "over" => InAwait \/ acquirePc = "handle"
    /\ callback # "none" => ~reading
    /\ onDone = "done" =>
          InAwait /\ ~mDone /\ call = "over" /\ mStatus = callStatus
    /\ onDone = "notify" => InAwait \/ acquirePc = "handle"
    /\ acquirePc = "handle" => mDone
    /\ mDone /\ (InAwait \/ acquirePc = "handle") =>
          call = "over" /\ mStatus = callStatus

\* There is no stream before the first one.
LEMMA StreamInit == Init => StreamInv
  BY DEF Init, StreamInv, InAwait

\* What a step does that does not touch the stream, and leaves the thread in
\* await or out of it.
LEMMA StreamFrame ==
  ASSUME StreamInv,
         UNCHANGED <<mDone, mStatus, callStatus, reading, callback, onDone>>,
         UNCHANGED call \/ (call = "live" /\ call' = "cancelled"),
         \/ UNCHANGED acquirePc
         \/ InAwait /\ InAwait'
         \/ ~InAwait /\ ~InAwait' /\ "handle" \notin {acquirePc, acquirePc'}
  PROVE  StreamInv'
  BY DEF StreamInv, InAwait

\* Every step keeps the callbacks and await in agreement.
LEMMA StreamStep == TypeOK /\ StreamInv /\ [Next]_vars => StreamInv'
  <1> SUFFICES ASSUME TypeOK /\ StreamInv, [Next]_vars PROVE StreamInv'
    OBVIOUS
  <1> USE DEF stopVars, threadVars, streamVars, grpcVars, mutexVars, packetVars, KeepCall,
              TryCancel, GoTo
  <1>1. CASE Start
    BY <1>1, StreamFrame DEF Start, InAwait
  <1>2. CASE AcquireNext
    <2>1. CASE Reconnect
      BY <2>1, StreamFrame DEF Reconnect, InAwait
    <2>2. CASE Wait
      BY <2>2, StreamFrame DEF Wait, InAwait
    <2>3. CASE Woken
      BY <2>3, StreamFrame DEF Woken, InAwait
    <2>4. CASE Open
      <3>1. callback = "none" /\ onDone = "no"
        BY <2>4, Zenon DEF Open, StreamInv, InAwait, TypeOK
      <3> QED
        BY <2>4, <3>1 DEF Open, StreamInv, InAwait
    <2>5. CASE AwaitTest
      BY <2>5 DEF AwaitTest, StreamInv, InAwait
    <2>6. CASE AwaitPoll
      BY <2>6, StreamFrame DEF AwaitPoll, InAwait
    <2>7. CASE AwaitDoze
      BY <2>7, StreamFrame DEF AwaitDoze, InAwait
    <2>8. CASE Handle
      BY <2>8 DEF Handle, StreamInv, InAwait
    <2>9. CASE Exit
      BY <2>9, StreamFrame DEF Exit, InAwait
    <2> QED
      BY <1>2, <2>1, <2>2, <2>3, <2>4, <2>5, <2>6, <2>7, <2>8, <2>9 DEF AcquireNext
  <1>3. CASE CallbackNext
    <2>1. ASSUME NEW endTime \in EndTimes \cup {0}, NEW throws \in BOOLEAN,
                 AddPacket(endTime, throws)
          PROVE  StreamInv'
      BY <2>1 DEF AddPacket, StreamInv, InAwait
    <2>2. CASE ReadNext
      BY <2>2 DEF ReadNext, StreamInv, InAwait
    <2>3. CASE ReadFails
      BY <2>3 DEF ReadFails, StreamInv, InAwait
    <2>4. CASE OnDone
      BY <2>4 DEF OnDone, StreamInv, InAwait
    <2>5. CASE OnDoneSetsDone
      BY <2>5 DEF OnDoneSetsDone, StreamInv, InAwait
    <2>6. CASE OnDoneReturns
      BY <2>6 DEF OnDoneReturns, StreamInv, InAwait
    <2> QED
      BY <1>3, <2>1, <2>2, <2>3, <2>4, <2>5, <2>6 DEF CallbackNext
  <1>4. CASE ServerNext
    <2>1. CASE ReadCompletes
      BY <2>1 DEF ReadCompletes, StreamInv, InAwait
    <2>2. ASSUME NEW status \in Statuses, ServerEndsCall(status)
          PROVE  StreamInv'
      BY <2>2 DEF ServerEndsCall, StreamInv, InAwait
    <2>3. CASE CancelTakesEffect
      BY <2>3 DEF CancelTakesEffect, ServerEndsCall, StreamInv, InAwait
    <2> QED
      BY <1>4, <2>1, <2>2, <2>3 DEF ServerNext
  <1>5. CASE StopNext
    BY <1>5, StreamFrame DEF StopNext, Stop, StopClearsKeepRunning
  <1>6. CASE OutlivedReturns
    BY <1>6, StreamFrame DEF OutlivedReturns
  <1>7. CASE UNCHANGED vars
    BY <1>7, StreamFrame DEF vars
  <1> QED
    BY <1>1, <1>2, <1>3, <1>4, <1>5, <1>6, <1>7 DEF Next

\* The callbacks and await agree in every reachable state.
LEMMA StreamHolds == Spec => []StreamInv
  BY TypesHold, StreamInit, StreamStep, PTL DEF Spec

\* However gRPC, the server and stop interleave with the loop of await, of the
\* stream nothing but the notification of OnDone and its release of the mutex can
\* be left when await returns and the AsyncSubscriber is destroyed.
THEOREM AwaitOutlivesAllButTheNotification == Spec => []OnlyNotificationOutlivesAwait
  <1>1. TypeOK /\ StreamInv => OnlyNotificationOutlivesAwait
    <2>1. TypeOK => call \in {"none", "live", "cancelled", "over"}
      BY DEF TypeOK
    <2> QED
      BY <2>1 DEF StreamInv, OnlyNotificationOutlivesAwait, InAwait
  <1> QED
    BY <1>1, TypesHold, StreamHolds, PTL

\* acquirePackets acts upon the status of the call await waited for, although
\* await reads mDone without the mutex that OnDone holds.
THEOREM StatusIsTheCalls == Spec => []StatusIsOfThisCall
  <1>1. StreamInv => StatusIsOfThisCall
    BY DEF StreamInv, StatusIsOfThisCall
  <1> QED
    BY <1>1, StreamHolds, PTL

---------------------------------------------------------------------------
(* What is handed over after the stop.                                     *)

\* mKeepRunning stays set until the second step of stop clears it.
StopInv ==
    /\ mKeepRunning <=> stopPc # "done"
    /\ acquirePc = "unstarted" => stopPc = "before"

\* The last packet after the stop is the one whose read was under way: the
\* thread opens no further stream, and ReadNext reads no further.
LateInv ==
    /\ mKeepRunning => receivedLate = 0
    /\ receivedLate <= 1
    /\ receivedLate = 1 =>
          ~reading /\ callback # "addPacket" /\ acquirePc # "open"

\* At the start nobody has stopped anything.
LEMMA StopInit == Init => StopInv /\ LateInv
  BY DEF Init, StopInv, LateInv

\* Every step but the two of stop leaves stop where it is.
LEMMA StopFrame ==
  ASSUME StopInv, UNCHANGED stopVars,
         acquirePc' = "unstarted" => acquirePc = "unstarted"
  PROVE  StopInv'
  BY DEF StopInv, stopVars

\* Every step keeps mKeepRunning in step with stop.
LEMMA StopStep == StopInv /\ [Next]_vars => StopInv'
  <1> SUFFICES ASSUME StopInv, [Next]_vars PROVE StopInv'
    OBVIOUS
  <1> USE DEF threadVars, GoTo
  <1>1. CASE Start
    BY <1>1 DEF Start, StopInv
  <1>2. CASE AcquireNext
    <2>1. CASE Reconnect
      BY <2>1, StopFrame DEF Reconnect
    <2>2. CASE Wait
      BY <2>2, StopFrame DEF Wait
    <2>3. CASE Woken
      BY <2>3, StopFrame DEF Woken
    <2>4. CASE Open
      BY <2>4, StopFrame DEF Open
    <2>5. CASE AwaitTest
      BY <2>5, StopFrame DEF AwaitTest
    <2>6. CASE AwaitPoll
      BY <2>6, StopFrame DEF AwaitPoll
    <2>7. CASE AwaitDoze
      BY <2>7, StopFrame DEF AwaitDoze
    <2>8. CASE Handle
      BY <2>8, StopFrame DEF Handle
    <2>9. CASE Exit
      BY <2>9, StopFrame DEF Exit
    <2> QED
      BY <1>2, <2>1, <2>2, <2>3, <2>4, <2>5, <2>6, <2>7, <2>8, <2>9 DEF AcquireNext
  <1>3. CASE CallbackNext
    <2>1. ASSUME NEW endTime \in EndTimes \cup {0}, NEW throws \in BOOLEAN,
                 AddPacket(endTime, throws)
          PROVE  StopInv'
      BY <2>1, StopFrame DEF AddPacket
    <2>2. CASE ReadNext
      BY <2>2, StopFrame DEF ReadNext
    <2>3. CASE ReadFails
      BY <2>3, StopFrame DEF ReadFails
    <2>4. CASE OnDone
      BY <2>4, StopFrame DEF OnDone
    <2>5. CASE OnDoneSetsDone
      BY <2>5, StopFrame DEF OnDoneSetsDone
    <2>6. CASE OnDoneReturns
      BY <2>6, StopFrame DEF OnDoneReturns
    <2> QED
      BY <1>3, <2>1, <2>2, <2>3, <2>4, <2>5, <2>6 DEF CallbackNext
  <1>4. CASE ServerNext
    <2>1. CASE ReadCompletes
      BY <2>1, StopFrame DEF ReadCompletes
    <2>2. ASSUME NEW status \in Statuses, ServerEndsCall(status)
          PROVE  StopInv'
      BY <2>2, StopFrame DEF ServerEndsCall
    <2>3. CASE CancelTakesEffect
      BY <2>3, StopFrame DEF CancelTakesEffect, ServerEndsCall
    <2> QED
      BY <1>4, <2>1, <2>2, <2>3 DEF ServerNext
  <1>5. CASE StopNext
    <2>1. CASE Stop
      BY <2>1 DEF Stop, StopInv, threadVars
    <2>2. CASE StopClearsKeepRunning
      BY <2>2 DEF StopClearsKeepRunning, StopInv, threadVars
    <2> QED
      BY <1>5, <2>1, <2>2 DEF StopNext
  <1>6. CASE OutlivedReturns
    BY <1>6, StopFrame DEF OutlivedReturns
  <1>7. CASE UNCHANGED vars
    BY <1>7, StopFrame DEF vars
  <1> QED
    BY <1>1, <1>2, <1>3, <1>4, <1>5, <1>6, <1>7 DEF Next

\* What a step does that hands over nothing and has no packet read.
LEMMA LateFrame ==
  ASSUME LateInv, UNCHANGED <<mKeepRunning, receivedLate>>,
         reading' => reading,
         callback' = "addPacket" => callback = "addPacket",
         acquirePc' = "open" => acquirePc = "open"
  PROVE  LateInv'
  BY DEF LateInv

\* Every step keeps it at one packet.
LEMMA LateStep ==
    TypeOK /\ StreamInv /\ StopInv /\ LateInv /\ [Next]_vars => LateInv'
  <1> SUFFICES ASSUME TypeOK /\ StreamInv /\ StopInv /\ LateInv, [Next]_vars
               PROVE  LateInv'
    OBVIOUS
  <1> USE DEF stopVars, threadVars, streamVars, grpcVars, mutexVars, packetVars, GoTo
  <1>1. CASE Start
    BY <1>1 DEF Start, StopInv, LateInv
  <1>2. CASE AcquireNext
    <2>1. CASE Reconnect
      BY <2>1 DEF Reconnect, LateInv
    <2>2. CASE Wait
      BY <2>2, LateFrame DEF Wait
    <2>3. CASE Woken
      BY <2>3 DEF Woken, LateInv
    <2>4. CASE Open
      BY <2>4 DEF Open, LateInv
    <2>5. CASE AwaitTest
      BY <2>5, LateFrame DEF AwaitTest
    <2>6. CASE AwaitPoll
      BY <2>6, LateFrame DEF AwaitPoll
    <2>7. CASE AwaitDoze
      BY <2>7, LateFrame DEF AwaitDoze
    <2>8. CASE Handle
      BY <2>8, LateFrame DEF Handle
    <2>9. CASE Exit
      BY <2>9, LateFrame DEF Exit
    <2> QED
      BY <1>2, <2>1, <2>2, <2>3, <2>4, <2>5, <2>6, <2>7, <2>8, <2>9 DEF AcquireNext
  <1>3. CASE CallbackNext
    <2>1. ASSUME NEW endTime \in EndTimes \cup {0}, NEW throws \in BOOLEAN,
                 AddPacket(endTime, throws)
          PROVE  LateInv'
      <3>1. ~reading /\ acquirePc # "open"
        BY <2>1 DEF AddPacket, StreamInv, InAwait
      <3>2. /\ receivedLate' = IF mKeepRunning THEN receivedLate ELSE receivedLate + 1
            /\ callback' = "readNext"
            /\ callback = "addPacket"
            /\ UNCHANGED <<mKeepRunning, reading, acquirePc>>
        BY <2>1 DEF AddPacket
      <3>3. receivedLate \in Nat
        BY SubscriberAssumption DEF SubscriberAssumption, TypeOK
      <3>4. receivedLate = 0
        BY <3>2, <3>3 DEF LateInv
      <3> QED
        BY <3>1, <3>2, <3>4 DEF LateInv
    <2>2. CASE ReadNext
      BY <2>2 DEF ReadNext, LateInv
    <2>3. CASE ReadFails
      BY <2>3, LateFrame DEF ReadFails
    <2>4. CASE OnDone
      BY <2>4, LateFrame DEF OnDone
    <2>5. CASE OnDoneSetsDone
      BY <2>5, LateFrame DEF OnDoneSetsDone
    <2>6. CASE OnDoneReturns
      BY <2>6, LateFrame DEF OnDoneReturns
    <2> QED
      BY <1>3, <2>1, <2>2, <2>3, <2>4, <2>5, <2>6 DEF CallbackNext
  <1>4. CASE ServerNext
    <2>1. CASE ReadCompletes
      BY <2>1 DEF ReadCompletes, LateInv
    <2>2. ASSUME NEW status \in Statuses, ServerEndsCall(status)
          PROVE  LateInv'
      BY <2>2, LateFrame DEF ServerEndsCall
    <2>3. CASE CancelTakesEffect
      BY <2>3, LateFrame DEF CancelTakesEffect, ServerEndsCall
    <2> QED
      BY <1>4, <2>1, <2>2, <2>3 DEF ServerNext
  <1>5. CASE StopNext
    <2>1. CASE Stop
      BY <2>1, LateFrame DEF Stop
    <2>2. CASE StopClearsKeepRunning
      BY <2>2 DEF StopClearsKeepRunning, StopInv, LateInv
    <2> QED
      BY <1>5, <2>1, <2>2 DEF StopNext
  <1>6. CASE OutlivedReturns
    BY <1>6, LateFrame DEF OutlivedReturns
  <1>7. CASE UNCHANGED vars
    BY <1>7, LateFrame DEF vars
  <1> QED
    BY <1>1, <1>2, <1>3, <1>4, <1>5, <1>6, <1>7 DEF Next

\* Whatever the order of stop, callbacks and reconnections, the import
\* callback gets at most one packet once mKeepRunning is cleared, even from
\* the stream the thread may open after it.
THEOREM StopHandsOverOneMore == Spec => []AtMostOnePacketAfterStop
  <1>1. LateInv => AtMostOnePacketAfterStop
    BY DEF LateInv, AtMostOnePacketAfterStop
  <1> QED
    BY <1>1, TypesHold, StreamHolds, StopInit, StopStep, LateStep, PTL DEF Spec

---------------------------------------------------------------------------
(* Why the thread throws.                                                  *)

\* The index into the schedule is never ahead of the barren streams, and the
\* thread is on its way out for one of three reasons.
ReasonInv ==
    /\ kReconnect <= barren
    /\ acquirePc = "exit" => ~mKeepRunning \/ fatal \/ ScheduleSize <= barren
    /\ PrematureEndIsJustified

\* The thread starts with nothing to report.
LEMMA ReasonInit == Init => ReasonInv
  BY DEF Init, ReasonInv, PrematureEndIsJustified

\* What a step does that has no part in the reconnection loop.
LEMMA ReasonFrame ==
  ASSUME ReasonInv,
         UNCHANGED <<kReconnect, barren, fatal>>,
         mKeepRunning' => mKeepRunning,
         UNCHANGED acquirePc \/ acquirePc' \notin {"exit", "threw"}
  PROVE  ReasonInv'
  BY DEF ReasonInv, PrematureEndIsJustified

\* Every step that sends the thread out of the loop has its reason.
LEMMA ReasonStep ==
    TypeOK /\ ControlInv /\ ReasonInv /\ [Next]_vars => ReasonInv'
  <1> SUFFICES ASSUME TypeOK /\ ControlInv /\ ReasonInv, [Next]_vars
               PROVE  ReasonInv'
    OBVIOUS
  <1> USE DEF stopVars, threadVars, streamVars, grpcVars, mutexVars, packetVars, GoTo
  <1>0. /\ kReconnect \in Int /\ barren \in Int
        /\ ScheduleSize \in Nat
        /\ 0 <= barren /\ barren <= ScheduleSize + 1
    BY SubscriberAssumption DEF SubscriberAssumption, TypeOK
  <1>1. CASE Start
    BY <1>1, <1>0 DEF Start, ReasonInv, PrematureEndIsJustified
  <1>2. CASE AcquireNext
    <2>1. CASE Reconnect
      BY <2>1, <1>0 DEF Reconnect, ReasonInv, PrematureEndIsJustified
    <2>2. CASE Wait
      BY <2>2, ReasonFrame DEF Wait
    <2>3. CASE Woken
      BY <2>3 DEF Woken, ReasonInv, PrematureEndIsJustified
    <2>4. CASE Open
      BY <2>4, ReasonFrame DEF Open
    <2>5. CASE AwaitTest
      BY <2>5, ReasonFrame DEF AwaitTest
    <2>6. CASE AwaitPoll
      BY <2>6, ReasonFrame DEF AwaitPoll
    <2>7. CASE AwaitDoze
      BY <2>7, ReasonFrame DEF AwaitDoze
    <2>8. CASE Handle
      <3>1. kReconnect < ScheduleSize
        BY <2>8 DEF Handle, ControlInv, InLoop
      <3>2. acquirePc' \in {"reconnect", "exit"} /\ mKeepRunning' = mKeepRunning
        BY <2>8 DEF Handle
      <3>3. kReconnect' <= barren'
        BY <2>8, <1>0, <3>1 DEF Handle, ReasonInv
      <3>4. ~GoesOn(mStatus) => ~mKeepRunning \/ mStatus = "OTHER"
        BY DEF GoesOn, TypeOK, Statuses
      <3>5. acquirePc' = "exit" => ~mKeepRunning' \/ fatal'
        <4>1. acquirePc' = "exit" => ~GoesOn(mStatus)
          BY <2>8 DEF Handle
        <4>2. mStatus = "OTHER" => fatal'
          BY <2>8, Zenon DEF Handle
        <4> QED
          BY <3>2, <3>4, <4>1, <4>2, Zenon
      <3> QED
        BY <3>2, <3>3, <3>5 DEF ReasonInv, PrematureEndIsJustified
    <2>9. CASE Exit
      BY <2>9, <1>0 DEF Exit, ReasonInv, PrematureEndIsJustified
    <2> QED
      BY <1>2, <2>1, <2>2, <2>3, <2>4, <2>5, <2>6, <2>7, <2>8, <2>9 DEF AcquireNext
  <1>3. CASE CallbackNext
    <2>1. ASSUME NEW endTime \in EndTimes \cup {0}, NEW throws \in BOOLEAN,
                 AddPacket(endTime, throws)
          PROVE  ReasonInv'
      BY <2>1, ReasonFrame DEF AddPacket
    <2>2. CASE ReadNext
      BY <2>2, ReasonFrame DEF ReadNext
    <2>3. CASE ReadFails
      BY <2>3, ReasonFrame DEF ReadFails
    <2>4. CASE OnDone
      BY <2>4, ReasonFrame DEF OnDone
    <2>5. CASE OnDoneSetsDone
      BY <2>5, ReasonFrame DEF OnDoneSetsDone
    <2>6. CASE OnDoneReturns
      BY <2>6, ReasonFrame DEF OnDoneReturns
    <2> QED
      BY <1>3, <2>1, <2>2, <2>3, <2>4, <2>5, <2>6 DEF CallbackNext
  <1>4. CASE ServerNext
    <2>1. CASE ReadCompletes
      BY <2>1, ReasonFrame DEF ReadCompletes
    <2>2. ASSUME NEW status \in Statuses, ServerEndsCall(status)
          PROVE  ReasonInv'
      BY <2>2, ReasonFrame DEF ServerEndsCall
    <2>3. CASE CancelTakesEffect
      BY <2>3, ReasonFrame DEF CancelTakesEffect, ServerEndsCall
    <2> QED
      BY <1>4, <2>1, <2>2, <2>3 DEF ServerNext
  <1>5. CASE StopNext
    <2>1. CASE Stop
      BY <2>1, ReasonFrame DEF Stop
    <2>2. CASE StopClearsKeepRunning
      BY <2>2, ReasonFrame DEF StopClearsKeepRunning
    <2> QED
      BY <1>5, <2>1, <2>2 DEF StopNext
  <1>6. CASE OutlivedReturns
    BY <1>6, ReasonFrame DEF OutlivedReturns
  <1>7. CASE UNCHANGED vars
    BY <1>7, ReasonFrame DEF vars
  <1> QED
    BY <1>1, <1>2, <1>3, <1>4, <1>5, <1>6, <1>7 DEF Next

\* The premature end is reported for a reason only: a stream ended with a
\* fatal status, or as many streams as the schedule is long went by without
\* one successful read.
THEOREM ThrowsForAReason == Spec => []PrematureEndIsJustified
  <1>1. ReasonInv => PrematureEndIsJustified
    BY DEF ReasonInv
  <1> QED
    BY <1>1, TypesHold, ReasonInit, ReasonStep, PTL DEF Spec

---------------------------------------------------------------------------
(* The subscriber as a worker.                                             *)

\* The state of the thread as NetworkDetector sees it.
WorkerThread ==
    IF Stopped \/ acquirePc = "unstarted" THEN acquirePc ELSE "running"
WorkerStep == [Lifecycle!Next]_<<mKeepRunning, WorkerThread>>

\* A step within the loop is none of the worker's.
LEMMA WorkerFrame ==
  ASSUME UNCHANGED mKeepRunning,
         \/ UNCHANGED acquirePc
         \/ {acquirePc, acquirePc'} \cap {"unstarted", "ended", "threw"} = {}
  PROVE  WorkerStep
  BY DEF WorkerStep, WorkerThread, Stopped

\* Every step of the subscriber is one of the worker, or none.
LEMMA WorkerNext == StopInv /\ [Next]_vars => WorkerStep
  <1> SUFFICES ASSUME StopInv, [Next]_vars PROVE WorkerStep
    OBVIOUS
  <1> USE DEF stopVars, threadVars, GoTo
  <1>1. CASE Start
    BY <1>1 DEF Start, WorkerStep, WorkerThread, Stopped, Lifecycle!Next, Lifecycle!Start
  <1>2. CASE AcquireNext
    <2>1. CASE Reconnect
      BY <2>1, WorkerFrame DEF Reconnect
    <2>2. CASE Wait
      BY <2>2, WorkerFrame DEF Wait
    <2>3. CASE Woken
      BY <2>3, WorkerFrame DEF Woken
    <2>4. CASE Open
      BY <2>4, WorkerFrame DEF Open
    <2>5. CASE AwaitTest
      BY <2>5, WorkerFrame DEF AwaitTest
    <2>6. CASE AwaitPoll
      BY <2>6, WorkerFrame DEF AwaitPoll
    <2>7. CASE AwaitDoze
      BY <2>7, WorkerFrame DEF AwaitDoze
    <2>8. CASE Handle
      BY <2>8, WorkerFrame DEF Handle
    <2>9. CASE Exit
      BY <2>9 DEF Exit, WorkerStep, WorkerThread, Stopped, Lifecycle!Next, Lifecycle!End,
                  Lifecycle!EndPrematurely
    <2> QED
      BY <1>2, <2>1, <2>2, <2>3, <2>4, <2>5, <2>6, <2>7, <2>8, <2>9 DEF AcquireNext
  <1>3. CASE CallbackNext
    <2>1. ASSUME NEW endTime \in EndTimes \cup {0}, NEW throws \in BOOLEAN,
                 AddPacket(endTime, throws)
          PROVE  WorkerStep
      BY <2>1, WorkerFrame DEF AddPacket
    <2>2. CASE ReadNext
      BY <2>2, WorkerFrame DEF ReadNext
    <2>3. CASE ReadFails
      BY <2>3, WorkerFrame DEF ReadFails
    <2>4. CASE OnDone
      BY <2>4, WorkerFrame DEF OnDone
    <2>5. CASE OnDoneSetsDone
      BY <2>5, WorkerFrame DEF OnDoneSetsDone
    <2>6. CASE OnDoneReturns
      BY <2>6, WorkerFrame DEF OnDoneReturns
    <2> QED
      BY <1>3, <2>1, <2>2, <2>3, <2>4, <2>5, <2>6 DEF CallbackNext
  <1>4. CASE ServerNext
    <2>1. CASE ReadCompletes
      BY <2>1, WorkerFrame DEF ReadCompletes
    <2>2. ASSUME NEW status \in Statuses, ServerEndsCall(status)
          PROVE  WorkerStep
      BY <2>2, WorkerFrame DEF ServerEndsCall
    <2>3. CASE CancelTakesEffect
      BY <2>3, WorkerFrame DEF CancelTakesEffect, ServerEndsCall
    <2> QED
      BY <1>4, <2>1, <2>2, <2>3 DEF ServerNext
  <1>5. CASE StopNext
    <2>1. CASE Stop
      BY <2>1, WorkerFrame DEF Stop
    <2>2. CASE StopClearsKeepRunning
      BY <2>2 DEF StopClearsKeepRunning, StopInv, WorkerStep, WorkerThread, Stopped,
                  Lifecycle!Next, Lifecycle!Stop
    <2> QED
      BY <1>5, <2>1, <2>2 DEF StopNext
  <1>6. CASE OutlivedReturns
    BY <1>6, WorkerFrame DEF OutlivedReturns
  <1>7. CASE UNCHANGED vars
    BY <1>7, WorkerFrame DEF vars
  <1> QED
    BY <1>1, <1>2, <1>3, <1>4, <1>5, <1>6, <1>7 DEF Next

\* The subscriber does what NetworkDetector relies on, but for the fairness:
\* its thread is started once, ends only when it was told to, and throws only
\* when it was not.
THEOREM RunsAsWorkerSafely == Spec => Lifecycle!Safety
  <1>1. Init => Lifecycle!Init
    BY DEF Init, Lifecycle!Init, Stopped
  <1>2. StopInv /\ [Next]_vars => [Lifecycle!Next]_<<mKeepRunning, WorkerThread>>
    BY WorkerNext DEF WorkerStep
  <1>3. Spec => Lifecycle!Init /\ [][Lifecycle!Next]_<<mKeepRunning, WorkerThread>>
    BY <1>1, <1>2, StopInit, StopStep, PTL DEF Spec
  <1> QED
    BY <1>3 DEF Lifecycle!Safety, WorkerThread

---------------------------------------------------------------------------
(* The thread comes to its end after the stop.  That thread and gRPC take  *)
(* their steps is fairness and not proved here; that the steps lead there  *)
(* is.                                                                     *)

\* A call that was cancelled is not live, a stream that is awaited has a call,
\* and OnDone notifies after it has set mDone.
CancelInv ==
    /\ mTryCancel => call # "live"
    /\ InAwait => call # "none"
    /\ onDone = "notify" => mDone

\* Every step keeps that.
LEMMA CancelStep == StreamInv /\ CancelInv /\ [Next]_vars => CancelInv'
  <1> SUFFICES ASSUME StreamInv, CancelInv, [Next]_vars PROVE CancelInv'
    OBVIOUS
  <1> USE DEF CancelInv, InAwait, KeepCall, TryCancel, stopVars, threadVars, streamVars,
              grpcVars, mutexVars, packetVars
  <1>1. CASE Start
    BY <1>1 DEF Start
  <1>2. CASE AcquireNext
    <2>1. CASE Open
      BY <2>1 DEF Open, StreamInv
    <2>2. CASE Handle
      BY <2>2 DEF Handle, GoesOn
    <2>3. CASE AcquireNext /\ ~Open /\ ~Handle
      BY <2>3 DEF AcquireNext, Reconnect, Wait, Woken, AwaitTest, AwaitPoll, AwaitDoze, Exit,
                  GoTo
    <2> QED
      BY <1>2, <2>1, <2>2, <2>3
  <1>3. CASE CallbackNext
    BY <1>3 DEF CallbackNext, AddPacket, ReadNext, ReadFails, OnDone, OnDoneSetsDone,
                OnDoneReturns
  <1>4. CASE ServerNext
    BY <1>4 DEF ServerNext, ReadCompletes, ServerEndsCall, CancelTakesEffect
  <1>5. CASE StopNext
    BY <1>5 DEF StopNext, Stop, StopClearsKeepRunning
  <1>6. CASE OutlivedReturns
    BY <1>6 DEF OutlivedReturns
  <1>7. CASE UNCHANGED vars
    BY <1>7 DEF vars
  <1> QED
    BY <1>1, <1>2, <1>3, <1>4, <1>5, <1>6, <1>7 DEF Next

\* The thread's way to its end once mKeepRunning is cleared, ...
ThreadStepsLeft ==
    CASE acquirePc \in {"unstarted", "ended", "threw"} -> 0
      [] acquirePc = "exit"                   -> 1
      [] acquirePc \in {"reconnect", "woken"} -> 2
      [] acquirePc \in {"wait", "handle"}     -> 3
      [] InAwait                              -> 4
      [] acquirePc = "open"                   -> 5

\* ... that of the streams: of the call it awaits, its reads and its OnDone, and of
\* an OnDone that outlived its AsyncSubscriber, ...
StreamStepsLeft ==
    (CASE call = "live" -> 2 [] call = "cancelled" -> 1 [] call \in {"none", "over"} -> 0)
  + (IF reading THEN 3 ELSE
     CASE callback = "addPacket" -> 2 [] callback = "readNext" -> 1 [] callback = "none" -> 0)
  + (IF onDone = "done" THEN 2 ELSE IF ~mDone THEN 3 ELSE IF onDone = "notify" THEN 1 ELSE 0)
  + (IF outlived THEN 1 ELSE 0)

\* ... and the thread's way round await to the step that matters, its test when
\* the stream is done, its cancellation while the call is live.
AwaitStepsLeft ==
    CASE ~InAwait -> 0
      [] InAwait /\ mDone ->
            (CASE acquirePc = "poll" -> 3 [] acquirePc = "doze" -> 2
               [] acquirePc = "await" -> 1)
      [] InAwait /\ ~mDone /\ call = "live" ->
            (CASE acquirePc = "doze" -> 3 [] acquirePc = "await" -> 2
               [] acquirePc = "poll" -> 1)
      [] InAwait /\ ~mDone /\ call # "live" -> 0

\* All three, the first one first.
StepsLeft == 40 * ThreadStepsLeft + 4 * StreamStepsLeft + AwaitStepsLeft

\* gRPC has a callback to run or a cancelled call to end.
GRPCIsDue ==
    \/ call = "cancelled" \/ callback # "none" \/ onDone # "no"
    \/ call = "over" /\ (reading \/ ~mDone)

\* How large they can be.
LEMMA StepsAreBounded ==
  ASSUME TypeOK
  PROVE  /\ ThreadStepsLeft \in 0 .. 5 /\ StreamStepsLeft \in 0 .. 9
         /\ AwaitStepsLeft \in 0 .. 3 /\ StepsLeft \in 0 .. 239
  <1>1. acquirePc \in {"unstarted", "reconnect", "wait", "woken", "open", "await",
                       "poll", "doze", "handle", "exit", "ended", "threw"}
        /\ call \in {"none", "live", "cancelled", "over"}
        /\ callback \in {"none", "addPacket", "readNext"}
    BY DEF TypeOK
  <1>2. ThreadStepsLeft \in 0 .. 5 /\ AwaitStepsLeft \in 0 .. 3
    BY <1>1 DEF ThreadStepsLeft, AwaitStepsLeft, InAwait
  <1>3. StreamStepsLeft \in 0 .. 9
    BY <1>1 DEF StreamStepsLeft
  <1> QED
    BY <1>2, <1>3 DEF StepsLeft

LEMMA StepsWillBeBounded ==
  ASSUME TypeOK'
  PROVE  /\ ThreadStepsLeft' \in 0 .. 5 /\ StreamStepsLeft' \in 0 .. 9
         /\ AwaitStepsLeft' \in 0 .. 3 /\ StepsLeft' \in 0 .. 239
  <1>1. acquirePc' \in {"unstarted", "reconnect", "wait", "woken", "open", "await",
                        "poll", "doze", "handle", "exit", "ended", "threw"}
        /\ call' \in {"none", "live", "cancelled", "over"}
        /\ callback' \in {"none", "addPacket", "readNext"}
    BY DEF TypeOK
  <1>2. ThreadStepsLeft' \in 0 .. 5 /\ AwaitStepsLeft' \in 0 .. 3
    BY <1>1 DEF ThreadStepsLeft, AwaitStepsLeft, InAwait
  <1>3. StreamStepsLeft' \in 0 .. 9
    BY <1>1 DEF StreamStepsLeft
  <1>4. StepsLeft' = 40 * ThreadStepsLeft' + 4 * StreamStepsLeft' + AwaitStepsLeft'
    BY DEF StepsLeft
  <1>5. StepsLeft' \in 0 .. 239
    <2> DEFINE a == ThreadStepsLeft'
               b == StreamStepsLeft'
               c == AwaitStepsLeft'
    <2>1. a \in 0 .. 5 /\ b \in 0 .. 9 /\ c \in 0 .. 3
      BY <1>2, <1>3
    <2> HIDE DEF a, b, c
    <2>2. 40 * a + 4 * b + c \in 0 .. 239
      BY <2>1
    <2> QED
      BY <1>4, <2>2 DEF a, b, c
  <1> QED
    BY <1>2, <1>3, <1>5

\* Two ways to come nearer.
LEMMA NearerByThread ==
  ASSUME TypeOK, TypeOK', ThreadStepsLeft' < ThreadStepsLeft
  PROVE  StepsLeft' < StepsLeft
  BY StepsAreBounded, StepsWillBeBounded DEF StepsLeft

LEMMA NearerByStream ==
  ASSUME TypeOK, TypeOK', ThreadStepsLeft' = ThreadStepsLeft, StreamStepsLeft' < StreamStepsLeft
  PROVE  StepsLeft' < StepsLeft
  BY StepsAreBounded, StepsWillBeBounded DEF StepsLeft

AwaitNext == AwaitTest \/ AwaitPoll \/ AwaitDoze

\* What a step of the thread does after the stop.
LEMMA ThreadComesNearer ==
  ASSUME TypeOK, TypeOK', StreamInv, CancelInv, AcquireNext, ~mKeepRunning
  PROVE  StepsLeft' < StepsLeft \/ (StepsLeft' = StepsLeft /\ AwaitNext /\ GRPCIsDue)
  <1>1. CASE Reconnect
    BY <1>1, NearerByThread DEF Reconnect, GoTo, ThreadStepsLeft, InAwait
  <1>2. CASE Wait
    BY <1>2, NearerByThread DEF Wait, GoTo, ThreadStepsLeft, InAwait
  <1>3. CASE Woken
    BY <1>3, NearerByThread DEF Woken, GoTo, ThreadStepsLeft, InAwait
  <1>4. CASE Open
    BY <1>4, NearerByThread DEF Open, ThreadStepsLeft, InAwait
  <1>5. CASE Handle
    BY <1>5, NearerByThread DEF Handle, ThreadStepsLeft, InAwait
  <1>6. CASE Exit
    BY <1>6, NearerByThread DEF Exit, GoTo, ThreadStepsLeft, InAwait
  <1>7. CASE AwaitNext
    <2>1. CASE AwaitTest /\ mDone
      BY <2>1, NearerByThread DEF AwaitTest, GoTo, ThreadStepsLeft, InAwait
    <2>2. CASE AwaitPoll /\ call = "live"
      <3>1. ThreadStepsLeft' = ThreadStepsLeft
        BY <2>2 DEF AwaitPoll, GoTo, ThreadStepsLeft, InAwait
      <3>2. call' = "cancelled" /\ UNCHANGED <<reading, callback, onDone, outlived, mDone>>
        BY <2>2 DEF AwaitPoll, GoTo, TryCancel, CancelInv, mutexVars
      <3>3. StreamStepsLeft' < StreamStepsLeft
        BY <2>2, <3>2 DEF StreamStepsLeft, TypeOK
      <3> QED
        BY <3>1, <3>3, NearerByStream
    <2>3. CASE ~(AwaitTest /\ mDone) /\ ~(AwaitPoll /\ call = "live")
      <3>1. /\ InAwait /\ InAwait' /\ UNCHANGED <<call, reading, callback, onDone, outlived, mDone>>
            /\ \/ acquirePc = "await" /\ acquirePc' = "poll" /\ ~mDone
               \/ acquirePc = "poll" /\ acquirePc' = "doze" /\ call # "live"
               \/ acquirePc = "doze" /\ acquirePc' = "await"
        BY <1>7, <2>3 DEF AwaitNext, AwaitTest, AwaitPoll, AwaitDoze, GoTo, KeepCall, mutexVars,
                          TryCancel, InAwait
      <3>2. /\ ThreadStepsLeft' = ThreadStepsLeft
            /\ StreamStepsLeft' = StreamStepsLeft
        BY <3>1 DEF ThreadStepsLeft, StreamStepsLeft, InAwait
      <3>3. mDone \/ call = "live" => AwaitStepsLeft' < AwaitStepsLeft
        BY <3>1 DEF AwaitStepsLeft, InAwait, StreamInv
      <3>4. ~mDone /\ call # "live" => AwaitStepsLeft' = AwaitStepsLeft /\ GRPCIsDue
        BY <3>1 DEF AwaitStepsLeft, GRPCIsDue, InAwait, CancelInv, TypeOK
      <3> QED
        BY <1>7, <3>2, <3>3, <3>4, StepsAreBounded, StepsWillBeBounded DEF StepsLeft
    <2> QED
      BY <2>1, <2>2, <2>3
  <1> QED
    BY <1>1, <1>2, <1>3, <1>4, <1>5, <1>6, <1>7 DEF AcquireNext, AwaitNext

\* What a step of gRPC does after the stop.
LEMMA StreamComesNearer ==
  ASSUME TypeOK, TypeOK', StreamInv, CancelInv, CallbackNext \/ OutlivedReturns \/ ServerNext, ~mKeepRunning
  PROVE  StepsLeft' < StepsLeft
  <1>1. ThreadStepsLeft' = ThreadStepsLeft
    BY DEF OutlivedReturns, CallbackNext, AddPacket, ReadNext, ReadFails, OnDone, OnDoneSetsDone, OnDoneReturns,
           ServerNext, ReadCompletes, ServerEndsCall, CancelTakesEffect, threadVars,
           ThreadStepsLeft, InAwait
  <1>2. StreamStepsLeft' < StreamStepsLeft
    <2>1. /\ call \in {"none", "live", "cancelled", "over"}
          /\ callback \in {"none", "addPacket", "readNext"}
          /\ onDone \in {"no", "done", "notify"}
      BY DEF TypeOK
    <2> USE <2>1 DEF StreamStepsLeft, streamVars, mutexVars, TryCancel, StreamInv, CancelInv
    <2>2. ASSUME NEW endTime \in EndTimes \cup {0}, NEW throws \in BOOLEAN,
                 AddPacket(endTime, throws)
          PROVE  StreamStepsLeft' < StreamStepsLeft
      BY <2>2 DEF AddPacket
    <2>3. CASE ReadNext
      BY <2>3 DEF ReadNext
    <2>4. CASE ReadFails
      BY <2>4 DEF ReadFails
    <2>5. CASE OnDone
      BY <2>5 DEF OnDone
    <2>6. CASE OnDoneSetsDone
      BY <2>6 DEF OnDoneSetsDone
    <2>7. CASE OnDoneReturns
      BY <2>7 DEF OnDoneReturns
    <2>8. CASE ReadCompletes
      BY <2>8 DEF ReadCompletes
    <2>9. ASSUME NEW status \in Statuses, ServerEndsCall(status)
          PROVE  StreamStepsLeft' < StreamStepsLeft
      BY <2>9 DEF ServerEndsCall
    <2>10. CASE CancelTakesEffect
      BY <2>10 DEF CancelTakesEffect, ServerEndsCall
    <2>11. CASE OutlivedReturns
      BY <2>11 DEF OutlivedReturns
    <2> QED
      BY <2>2, <2>3, <2>4, <2>5, <2>6, <2>7, <2>8, <2>9, <2>10, <2>11
         DEF CallbackNext, ServerNext
  <1> QED
    BY <1>1, <1>2, NearerByStream

\* Once mKeepRunning is cleared every step of the thread, of a callback and of the
\* server brings the thread nearer its end, but for those it makes round await
\* while gRPC owes it a step: no stream the server keeps open and silent, no packet
\* under way and no place in the reconnection schedule keeps it, although it may
\* still open one stream (subscriber.cpp:182-216, 290-390).
THEOREM StopEndsTheThread ==
    Spec => [][~mKeepRunning =>
                  /\ ~mKeepRunning' /\ StepsLeft' \in 0 .. 239
                  /\ \/ StepsLeft' < StepsLeft
                     \/ StepsLeft' = StepsLeft /\ AwaitNext /\ GRPCIsDue]_vars
  <1> DEFINE Ends ==
        ~mKeepRunning =>
            /\ ~mKeepRunning' /\ StepsLeft' \in 0 .. 239
            /\ \/ StepsLeft' < StepsLeft
               \/ StepsLeft' = StepsLeft /\ AwaitNext /\ GRPCIsDue
  <1>1. ASSUME TypeOK, TypeOK', StreamInv, CancelInv, StopInv, StopInv', Next, ~mKeepRunning
        PROVE  Ends
    <2>1. stopPc = "done" /\ acquirePc # "unstarted"
      BY <1>1 DEF StopInv, TypeOK
    <2>2. ~Start /\ ~StopNext
      BY <2>1 DEF Start, StopNext, Stop, StopClearsKeepRunning
    <2>3. AcquireNext \/ CallbackNext \/ OutlivedReturns \/ ServerNext
      BY <1>1, <2>2 DEF Next
    <2>4. ~mKeepRunning'
      BY <1>1, <2>3
         DEF AcquireNext, Reconnect, Wait, Woken, Open, AwaitTest, AwaitPoll, AwaitDoze,
             Handle, Exit, GoTo, OutlivedReturns, CallbackNext, AddPacket, ReadNext, ReadFails, OnDone,
             OnDoneSetsDone, OnDoneReturns, ServerNext, ReadCompletes, ServerEndsCall,
             CancelTakesEffect, stopVars
    <2>5. StepsLeft' \in 0 .. 239
      BY <1>1, StepsWillBeBounded
    <2> QED
      BY <1>1, <2>3, <2>4, <2>5, ThreadComesNearer, StreamComesNearer
  <1>2. TypeOK /\ TypeOK' /\ StreamInv /\ CancelInv /\ StopInv /\ StopInv' /\ [Next]_vars
            => [Ends]_vars
    BY <1>1
  <1>3. Init => CancelInv
    BY DEF Init, CancelInv, InAwait
  <1> HIDE DEF Ends
  <1>4. Spec => [][Ends]_vars
    BY <1>2, <1>3, TypesHold, StreamHolds, CancelStep, StopInit, StopStep, PTL DEF Spec
  <1> QED
    BY <1>4 DEF Ends
=============================================================================
