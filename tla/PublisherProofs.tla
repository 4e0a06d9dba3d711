-------------------------- MODULE PublisherProofs --------------------------
(***************************************************************************)
(* Proofs about Publisher, for every size of the queue, every length of    *)
(* the reconnection schedule and every number of picks.                    *)
(***************************************************************************)
EXTENDS Publisher, SequenceTheorems, FiniteSetTheorems, TLAPS

---------------------------------------------------------------------------
(* What the operations of a queue do to the items it holds.                *)

\* What a pop leaves of a sequence.
LEMMA TailIsShorter ==
  ASSUME NEW S, NEW q \in Seq(S), q # <<>>
  PROVE  Tail(q) \in Seq(S) /\ Len(Tail(q)) = Len(q) - 1 /\ Len(q) \in Nat \ {0}
OBVIOUS

\* What a pop does to the elements of an ascending sequence.
LEMMA ElementsOfTail ==
  ASSUME NEW q \in Seq(Int), q # <<>>, Ascending(q)
  PROVE  /\ Ascending(Tail(q))
         /\ Range(q) = {Head(q)} \cup Range(Tail(q))
         /\ \A item \in Range(Tail(q)) : Head(q) < item
<1>1. /\ Len(q) \in Nat \ {0} /\ Len(Tail(q)) = Len(q) - 1 /\ Head(q) = q[1]
      /\ \A i \in 1 .. Len(q) - 1 : i + 1 \in 1 .. Len(q) /\ Tail(q)[i] = q[i + 1]
      /\ \A i \in 1 .. Len(q) :
            i = 1 \/ (i - 1 \in 1 .. Len(q) - 1 /\ q[i] = Tail(q)[i - 1])
      /\ DOMAIN q = 1 .. Len(q) /\ DOMAIN Tail(q) = 1 .. Len(q) - 1
  OBVIOUS
<1>2. Range(q) = {Head(q)} \cup Range(Tail(q))
  <2>1. /\ Range(q) = {q[i] : i \in 1 .. Len(q)}
        /\ Range(Tail(q)) = {Tail(q)[i] : i \in 1 .. Len(q) - 1}
    BY <1>1 DEF Range
  <2>2. ASSUME NEW i \in 1 .. Len(q)
        PROVE  q[i] \in {Head(q)} \cup Range(Tail(q))
    BY <1>1, <2>1
  <2>3. 1 \in 1 .. Len(q)
    BY <1>1
  <2>4. {Head(q)} \cup Range(Tail(q)) \subseteq Range(q)
    BY <1>1, <2>1, <2>3
  <2>. QED
    BY <2>1, <2>2, <2>4
<1>3. Ascending(Tail(q)) /\ \A i \in 1 .. Len(q) - 1 : Head(q) < Tail(q)[i]
  <2>1. ASSUME NEW i \in 1 .. Len(q) - 1, NEW j \in 1 .. i - 1
        PROVE  Tail(q)[j] < Tail(q)[i]
    <3>1. i + 1 \in DOMAIN q /\ j + 1 \in 1 .. (i + 1) - 1 /\ j \in 1 .. Len(q) - 1
      BY <1>1, <2>1
    <3>. QED
      BY <1>1, <3>1 DEF Ascending
  <2>2. ASSUME NEW i \in 1 .. Len(q) - 1
        PROVE  Head(q) < Tail(q)[i]
    <3>1. i + 1 \in DOMAIN q /\ 1 \in 1 .. (i + 1) - 1
      BY <1>1
    <3>. QED
      BY <1>1, <3>1 DEF Ascending
  <2>. QED
    BY <1>1, <2>1, <2>2 DEF Ascending
<1>. QED
  BY <1>1, <1>2, <1>3 DEF Range

\* What an append does to them.
LEMMA ElementsOfAppend ==
  ASSUME NEW s \in Seq(Int), NEW new \in Int
  PROVE  /\ Range(Append(s, new)) = Range(s) \cup {new}
         /\ Ascending(s) /\ (\A item \in Range(s) : item < new)
                => Ascending(Append(s, new))
<1>1. /\ Len(s) \in Nat /\ Len(Append(s, new)) = Len(s) + 1
      /\ Append(s, new)[Len(s) + 1] = new
      /\ \A i \in 1 .. Len(s) : Append(s, new)[i] = s[i]
      /\ 1 .. Len(s) + 1 = 1 .. Len(s) \cup {Len(s) + 1}
  OBVIOUS
<1>2. Range(Append(s, new)) = Range(s) \cup {new}
  BY <1>1 DEF Range
<1>3. (\A item \in Range(s) : item < new) => \A i \in 1 .. Len(s) : s[i] < new
  BY DEF Range
<1>. QED
  BY <1>1, <1>2, <1>3 DEF Ascending

---------------------------------------------------------------------------
(* Types.                                                                  *)

\* Where the publisher's thread is on its way round the reconnection loop.
InLoop == {"wait", "woken", "open", "running", "pop", "write", "finish"}

\* What relates the program counters to the variables that would leave their
\* types without it.
ControlInv ==
    /\ publishPc \in InLoop => kReconnect < ScheduleSize
    /\ publishPc = "write" <=> inHand # NoPick
    /\ enqueuePc # "outside" => nextPick <= MaxPicks

\* The initial state has the types.
LEMMA TypeInit == Init => TypeOK /\ ControlInv
  <1> SUFFICES ASSUME Init PROVE TypeOK /\ ControlInv
    OBVIOUS
  <1> USE PublisherAssumption DEF PublisherAssumption, Init
  <1>1. mExportQueue \in Seq(Picks) /\ sent \in Seq(Picks)
    OBVIOUS
  <1>2. /\ kReconnect \in -1 .. ScheduleSize
        /\ nextPick \in 1 .. MaxPicks + 1
        /\ checkStateCounter \in 0 .. CheckStateEvery
        /\ barren \in 0 .. ScheduleSize + 1
    OBVIOUS
  <1>3. TypeOK
    BY <1>1, <1>2, Zenon DEF TypeOK
  <1>4. ControlInv
    BY DEF ControlInv, InLoop, NoPick
  <1> QED
    BY <1>3, <1>4

\* Every step keeps the types.
LEMMA TypeStep == TypeOK /\ ControlInv /\ [Next]_vars => TypeOK'
  <1> SUFFICES ASSUME TypeOK /\ ControlInv, [Next]_vars PROVE TypeOK'
    OBVIOUS
  <1> USE PublisherAssumption
      DEF PublisherAssumption, TypeOK, ControlInv, InLoop, queueVars,
          sessionVars, workerVars, stopVars
  <1>1. CASE Start
    BY <1>1 DEF Start
  <1>2. CASE EnqueueNext
    <2>1. CASE Enqueue
      BY <2>1 DEF Enqueue
    <2>2. CASE EnqueueSize
      BY <2>2 DEF EnqueueSize
    <2>3. CASE EnqueueEmpty
      BY <2>3 DEF EnqueueEmpty
    <2>4. CASE EnqueuePurge
      BY <2>4 DEF EnqueuePurge
    <2>5. CASE EnqueuePurgeFails
      BY <2>5 DEF EnqueuePurgeFails
    <2>6. CASE EnqueuePush
      <3>1. nextPick \in Picks
        BY <2>6 DEF EnqueuePush, Picks
      <3>2. CASE Len(mExportQueue) < MaximumQueueSize
        <4>1. mExportQueue' \in Seq(Picks)
          BY <2>6, <3>1, <3>2 DEF EnqueuePush
        <4> QED
          BY <2>6, <3>2, <4>1 DEF EnqueuePush
      <3>3. CASE ~(Len(mExportQueue) < MaximumQueueSize)
        <4>1. refused' \subseteq Picks
          BY <2>6, <3>1, <3>3 DEF EnqueuePush
        <4> QED
          BY <2>6, <3>3, <4>1 DEF EnqueuePush
      <3> QED
        BY <3>2, <3>3
    <2> QED
      BY <1>2, <2>1, <2>2, <2>3, <2>4, <2>5, <2>6 DEF EnqueueNext
  <1>3. CASE PublishNext
    <2>1. CASE Reconnect
      BY <2>1 DEF Reconnect
    <2>2. CASE WaitTimesOut
      BY <2>2 DEF WaitTimesOut
    <2>3. CASE WaitIsNotified
      BY <2>3 DEF WaitIsNotified, WaitTimesOut
    <2>4. CASE Woken
      BY <2>4 DEF Woken
    <2>5. CASE Open
      <3>1. /\ mExportQueue' \in Seq(Picks) /\ sent' \in Seq(Picks)
            /\ mKeepRunning' \in BOOLEAN /\ mShutdownRequested' \in BOOLEAN
            /\ enqueuePc' \in {"outside", "size", "empty", "pop", "push"}
            /\ nextPick' \in 1 .. MaxPicks + 1
        BY <2>5 DEF Open
      <3>2. publishPc' = "running" /\ kReconnect' \in -1 .. ScheduleSize
        BY <2>5 DEF Open
      <3>3. hadSuccessfulWrite' = FALSE
        BY <2>5 DEF Open
      <3>4. checkStateCounter' \in 0 .. CheckStateEvery
        <4>1. checkStateCounter' = 0
          BY <2>5 DEF Open
        <4>2. 0 \in 0 .. CheckStateEvery
          OBVIOUS
        <4> QED
          BY <4>1, <4>2
      <3>5. /\ inHand' \in Picks \cup {NoPick}
            /\ stopPc' \in {"before", "request", "done"}
            /\ purged' \subseteq Picks /\ lost' \subseteq Picks /\ refused' \subseteq Picks
            /\ barren' \in 0 .. ScheduleSize + 1
            /\ fatal' \in BOOLEAN
        BY <2>5 DEF Open
      <3> QED
        BY <3>1, <3>2, <3>3, <3>4, <3>5, Zenon
    <2>6. CASE TestKeepRunning
      BY <2>6 DEF TestKeepRunning
    <2>7. CASE PopPick
      BY <2>7 DEF PopPick
    <2>8. ASSUME NEW ready \in BOOLEAN, FindEmpty(ready)
          PROVE  TypeOK'
      BY <2>8 DEF FindEmpty
    <2>9. CASE WriteSucceeds
      BY <2>9 DEF WriteSucceeds
    <2>10. CASE WriteFails
      BY <2>10 DEF WriteFails
    <2>11. ASSUME NEW status \in Statuses, Finish(status)
          PROVE  TypeOK'
      BY <2>11 DEF Finish, GoesOn
    <2>12. CASE Exit
      BY <2>12 DEF Exit
    <2> QED
      BY <1>3, <2>1, <2>2, <2>3, <2>4, <2>5, <2>6, <2>7, <2>8,
         <2>9, <2>10, <2>11, <2>12
         DEF PublishNext
  <1>4. CASE StopNext
    <2>1. CASE Stop
      BY <2>1 DEF Stop
    <2>2. CASE StopRequestsShutdown
      BY <2>2 DEF StopRequestsShutdown
    <2> QED
      BY <1>4, <2>1, <2>2 DEF StopNext
  <1>5. CASE UNCHANGED vars
    BY <1>5 DEF vars
  <1> QED
    BY <1>1, <1>2, <1>3, <1>4, <1>5 DEF Next

\* Every step keeps what relates the program counters to the variables.
LEMMA ControlStep == TypeOK /\ ControlInv /\ [Next]_vars => ControlInv'
  <1> SUFFICES ASSUME TypeOK /\ ControlInv, [Next]_vars PROVE ControlInv'
    OBVIOUS
  <1> USE PublisherAssumption
      DEF PublisherAssumption, TypeOK, ControlInv, InLoop, NoPick, queueVars,
          sessionVars, workerVars, stopVars
  <1>1. CASE Start
    BY <1>1 DEF Start
  <1>2. CASE EnqueueNext
    <2>1. CASE Enqueue
      BY <2>1 DEF Enqueue
    <2>2. CASE EnqueueSize
      BY <2>2 DEF EnqueueSize
    <2>3. CASE EnqueueEmpty
      BY <2>3 DEF EnqueueEmpty
    <2>4. CASE EnqueuePurge
      BY <2>4 DEF EnqueuePurge
    <2>5. CASE EnqueuePurgeFails
      BY <2>5 DEF EnqueuePurgeFails
    <2>6. CASE EnqueuePush
      BY <2>6 DEF EnqueuePush
    <2> QED
      BY <1>2, <2>1, <2>2, <2>3, <2>4, <2>5, <2>6 DEF EnqueueNext
  <1>3. CASE PublishNext
    <2>1. CASE Reconnect
      BY <2>1 DEF Reconnect
    <2>2. CASE WaitTimesOut
      BY <2>2 DEF WaitTimesOut
    <2>3. CASE WaitIsNotified
      BY <2>3 DEF WaitIsNotified, WaitTimesOut
    <2>4. CASE Woken
      BY <2>4 DEF Woken
    <2>5. CASE Open
      BY <2>5 DEF Open
    <2>6. CASE TestKeepRunning
      BY <2>6 DEF TestKeepRunning
    <2>7. CASE PopPick
      <3>1. inHand' \in Picks
        BY <2>7 DEF PopPick
      <3> QED
        BY <2>7, <3>1 DEF PopPick, Picks
    <2>8. ASSUME NEW ready \in BOOLEAN, FindEmpty(ready)
          PROVE  ControlInv'
      BY <2>8 DEF FindEmpty
    <2>9. CASE WriteSucceeds
      BY <2>9 DEF WriteSucceeds
    <2>10. CASE WriteFails
      BY <2>10 DEF WriteFails
    <2>11. ASSUME NEW status \in Statuses, Finish(status)
          PROVE  ControlInv'
      BY <2>11 DEF Finish, GoesOn
    <2>12. CASE Exit
      BY <2>12 DEF Exit
    <2> QED
      BY <1>3, <2>1, <2>2, <2>3, <2>4, <2>5, <2>6, <2>7, <2>8,
         <2>9, <2>10, <2>11, <2>12
         DEF PublishNext
  <1>4. CASE StopNext
    <2>1. CASE Stop
      BY <2>1 DEF Stop
    <2>2. CASE StopRequestsShutdown
      BY <2>2 DEF StopRequestsShutdown
    <2> QED
      BY <1>4, <2>1, <2>2 DEF StopNext
  <1>5. CASE UNCHANGED vars
    BY <1>5 DEF vars
  <1> QED
    BY <1>1, <1>2, <1>3, <1>4, <1>5 DEF Next

\* Both hold in every reachable state.
LEMMA TypesHold == Spec => [](TypeOK /\ ControlInv)
  BY TypeInit, TypeStep, ControlStep, PTL DEF Spec

\* Every variable keeps its type, whatever the sizes: in particular the
\* index into the reconnection schedule never passes its end while a stream
\* is open, and no thread writes a pick it does not hold.
THEOREM TypeCorrect == Spec => []TypeOK
  BY TypesHold, PTL

---------------------------------------------------------------------------
(* The capacity of the queue.                                              *)

\* Between the last look of enqueue at the queue and its push, the other
\* thread can only shorten the queue.
RoomInv ==
    /\ refused = {}
    /\ enqueuePc = "push" => mExportQueue = <<>> \/ Len(mExportQueue) < Limit

\* The queue starts with room.
LEMMA RoomInit == Init => RoomInv
  BY DEF Init, RoomInv

\* What a step does that pops at most one pick and leaves the thread in
\* enqueue where it is.
LEMMA RoomFrame ==
  ASSUME TypeOK, RoomInv,
         UNCHANGED <<refused, enqueuePc>>,
         \/ UNCHANGED mExportQueue
         \/ mExportQueue # <<>> /\ mExportQueue' = Tail(mExportQueue)
  PROVE  RoomInv'
  <1>1. mExportQueue \in Seq(Picks)
    BY DEF TypeOK
  <1>2. Limit \in Int
    BY PublisherAssumption DEF PublisherAssumption, Limit, Larger
  <1>3. CASE UNCHANGED mExportQueue
    BY <1>3 DEF RoomInv
  <1>4. CASE mExportQueue # <<>> /\ mExportQueue' = Tail(mExportQueue)
    <2>1. Len(mExportQueue') = Len(mExportQueue) - 1 /\ Len(mExportQueue) \in Nat
      BY <1>1, <1>4, TailIsShorter
    <2>2. ASSUME enqueuePc' = "push" PROVE Len(mExportQueue') < Limit
      <3>1. Len(mExportQueue) < Limit
        BY <1>4, <2>2 DEF RoomInv
      <3> QED
        BY <1>2, <2>1, <3>1
    <2> QED
      BY <2>2 DEF RoomInv
  <1> QED
    BY <1>3, <1>4

\* Every step leaves room for the push that is to come.
LEMMA RoomStep == TypeOK /\ RoomInv /\ [Next]_vars => RoomInv'
  <1> SUFFICES ASSUME TypeOK /\ RoomInv, [Next]_vars PROVE RoomInv'
    OBVIOUS
  <1> USE DEF queueVars, sessionVars, workerVars, stopVars
  <1>1. CASE Start
    BY <1>1, RoomFrame DEF Start
  <1>2. CASE EnqueueNext
    <2>1. CASE Enqueue
      BY <2>1 DEF Enqueue, RoomInv
    <2>2. CASE EnqueueSize
      <3>1. Len(mExportQueue) \in Nat /\ Limit \in Int
        BY PublisherAssumption DEF PublisherAssumption, TypeOK, Limit, Larger
      <3>2. enqueuePc' = "push" => Len(mExportQueue) < Limit
        BY <2>2, <3>1 DEF EnqueueSize
      <3> QED
        BY <2>2, <3>2 DEF EnqueueSize, RoomInv
    <2>3. CASE EnqueueEmpty
      BY <2>3 DEF EnqueueEmpty, RoomInv
    <2>4. CASE EnqueuePurge
      BY <2>4 DEF EnqueuePurge, RoomInv
    <2>5. CASE EnqueuePurgeFails
      BY <2>5 DEF EnqueuePurgeFails, RoomInv
    <2>6. CASE EnqueuePush
      <3>1. mExportQueue = <<>> \/ Len(mExportQueue) < Limit
        BY <2>6 DEF EnqueuePush, RoomInv
      <3>2. Len(mExportQueue) \in Nat /\ (mExportQueue = <<>> => Len(mExportQueue) = 0)
        BY DEF TypeOK
      <3>3. Len(mExportQueue) < MaximumQueueSize
        BY <3>1, <3>2, PublisherAssumption DEF PublisherAssumption, Limit, Larger
      <3> QED
        BY <2>6, <3>3 DEF EnqueuePush, RoomInv
    <2> QED
      BY <1>2, <2>1, <2>2, <2>3, <2>4, <2>5, <2>6 DEF EnqueueNext
  <1>3. CASE PublishNext
    <2>1. CASE Reconnect
      BY <2>1, RoomFrame DEF Reconnect
    <2>2. CASE WaitTimesOut
      BY <2>2, RoomFrame DEF WaitTimesOut
    <2>3. CASE WaitIsNotified
      BY <2>3, RoomFrame DEF WaitIsNotified, WaitTimesOut
    <2>4. CASE Woken
      BY <2>4, RoomFrame DEF Woken
    <2>5. CASE Open
      BY <2>5, RoomFrame DEF Open
    <2>6. CASE TestKeepRunning
      BY <2>6, RoomFrame DEF TestKeepRunning
    <2>7. CASE PopPick
      BY <2>7, RoomFrame DEF PopPick
    <2>8. ASSUME NEW ready \in BOOLEAN, FindEmpty(ready)
          PROVE  RoomInv'
      BY <2>8, RoomFrame DEF FindEmpty
    <2>9. CASE WriteSucceeds
      BY <2>9, RoomFrame DEF WriteSucceeds
    <2>10. CASE WriteFails
      BY <2>10, RoomFrame DEF WriteFails
    <2>11. ASSUME NEW status \in Statuses, Finish(status)
           PROVE  RoomInv'
      BY <2>11, RoomFrame DEF Finish
    <2>12. CASE Exit
      BY <2>12, RoomFrame DEF Exit
    <2> QED
      BY <1>3, <2>1, <2>2, <2>3, <2>4, <2>5, <2>6, <2>7, <2>8,
         <2>9, <2>10, <2>11, <2>12
         DEF PublishNext
  <1>4. CASE StopNext
    <2>1. CASE Stop
      BY <2>1, RoomFrame DEF Stop
    <2>2. CASE StopRequestsShutdown
      BY <2>2, RoomFrame DEF StopRequestsShutdown
    <2> QED
      BY <1>4, <2>1, <2>2 DEF StopNext
  <1>5. CASE UNCHANGED vars
    BY <1>5, RoomFrame DEF vars
  <1> QED
    BY <1>1, <1>2, <1>3, <1>4, <1>5 DEF Next

\* What the queue keeps when picks are purged.
Kept == Larger(1, MaximumQueueSize - 1)

\* What is purged and what waits was enqueued; and a call of enqueue that goes
\* on to purge has found, with what was purged before, as many picks as the
\* queue keeps, so that at least one of those enqueued is in excess.
ExcessInv ==
    /\ IsFiniteSet(purged)
    /\ Len(mExportQueue) + Cardinality(purged) < nextPick
    /\ purged = {} \/ Cardinality(purged) + Kept <= nextPick
    /\ enqueuePc = "outside" /\ purged # {} => Cardinality(purged) + Kept < nextPick
    /\ enqueuePc \in {"empty", "pop"} /\ mExportQueue # <<>> =>
          Cardinality(purged) + Kept < nextPick

LEMMA ExcessInit == Init => ExcessInv
  BY FS_EmptySet DEF Init, ExcessInv

\* The numbers ExcessInv is about.
LEMMA ExcessTypes ==
  ASSUME TypeOK, ExcessInv
  PROVE  /\ Len(mExportQueue) \in Nat /\ nextPick \in Nat /\ Kept \in Nat \ {0}
         /\ Cardinality(purged) \in Nat
         /\ mExportQueue = <<>> <=> Len(mExportQueue) = 0
  <1>1. Len(mExportQueue) \in Nat /\ (mExportQueue = <<>> <=> Len(mExportQueue) = 0)
    BY EmptySeq DEF TypeOK
  <1>2. nextPick \in Nat /\ Kept \in Nat \ {0}
    BY PublisherAssumption DEF PublisherAssumption, TypeOK, Kept, Larger
  <1> QED
    BY <1>1, <1>2, FS_CardinalityType DEF ExcessInv

\* What a step does that pops at most one pick and leaves the thread in
\* enqueue where it is.
LEMMA ExcessFrame ==
  ASSUME TypeOK, ExcessInv,
         UNCHANGED <<purged, enqueuePc, nextPick>>,
         \/ UNCHANGED mExportQueue
         \/ mExportQueue # <<>> /\ mExportQueue' = Tail(mExportQueue)
  PROVE  ExcessInv'
  <1>1. CASE UNCHANGED mExportQueue
    BY <1>1 DEF ExcessInv, Kept
  <1>2. CASE mExportQueue # <<>> /\ mExportQueue' = Tail(mExportQueue)
    <2>1. Len(mExportQueue') = Len(mExportQueue) - 1
      BY <1>2, TailIsShorter DEF TypeOK
    <2>2. Len(mExportQueue') + Cardinality(purged) < nextPick
      BY <2>1, ExcessTypes DEF ExcessInv
    <2> QED
      BY <1>2, <2>2 DEF ExcessInv, Kept
  <1> QED
    BY <1>1, <1>2

\* Every step purges no more than the excess.
LEMMA ExcessStep == TypeOK /\ ExcessInv /\ [Next]_vars => ExcessInv'
  <1> SUFFICES ASSUME TypeOK /\ ExcessInv, [Next]_vars PROVE ExcessInv'
    OBVIOUS
  <1> USE DEF queueVars, sessionVars, workerVars, stopVars
  <1>1. CASE Start
    BY <1>1, ExcessFrame DEF Start
  <1>2. CASE EnqueueNext
    <2>1. CASE Enqueue
      BY <2>1 DEF Enqueue, ExcessInv, Kept
    <2>2. CASE EnqueueSize
      <3>1. ASSUME enqueuePc' = "empty", mExportQueue # <<>>
            PROVE  Cardinality(purged) + Kept < nextPick
        <4>1. Kept <= Len(mExportQueue)
          BY <2>2, <3>1, ExcessTypes, PublisherAssumption
             DEF PublisherAssumption, EnqueueSize, Limit, Kept, Larger
        <4> QED
          BY <4>1, ExcessTypes DEF ExcessInv
      <3>2. enqueuePc' \in {"empty", "push"}
        BY <2>2 DEF EnqueueSize
      <3> QED
        BY <2>2, <3>1, <3>2 DEF EnqueueSize, ExcessInv, Kept
    <2>3. CASE EnqueueEmpty
      BY <2>3 DEF EnqueueEmpty, ExcessInv, Kept
    <2>4. CASE EnqueuePurge
      <3>1. Len(mExportQueue') = Len(mExportQueue) - 1
        BY <2>4, TailIsShorter DEF EnqueuePurge, TypeOK
      <3>2. /\ IsFiniteSet(purged') /\ Cardinality(purged') \in Nat
            /\ Cardinality(purged') <= Cardinality(purged) + 1
        <4>1. IsFiniteSet(purged) /\ purged' = purged \cup {Head(mExportQueue)}
          BY <2>4 DEF EnqueuePurge, ExcessInv
        <4>2. /\ IsFiniteSet(purged')
              /\ \/ Cardinality(purged') = Cardinality(purged)
                 \/ Cardinality(purged') = Cardinality(purged) + 1
          BY <4>1, FS_AddElement
        <4> QED
          BY <4>2, ExcessTypes
      <3>3. Cardinality(purged) + Kept < nextPick
        BY <2>4 DEF EnqueuePurge, ExcessInv
      <3>4. Len(mExportQueue') + Cardinality(purged') < nextPick
        BY <3>1, <3>2, ExcessTypes DEF ExcessInv
      <3>5. Cardinality(purged') + Kept <= nextPick
        BY <3>2, <3>3, ExcessTypes
      <3>6. enqueuePc' = "size" /\ nextPick' = nextPick
        BY <2>4 DEF EnqueuePurge
      <3> QED
        BY <3>2, <3>4, <3>5, <3>6 DEF ExcessInv, Kept
    <2>5. CASE EnqueuePurgeFails
      BY <2>5 DEF EnqueuePurgeFails, ExcessInv, Kept
    <2>6. CASE EnqueuePush
      <3>1. Len(mExportQueue') <= Len(mExportQueue) + 1 /\ Len(mExportQueue') \in Nat
        BY <2>6, ExcessTypes DEF EnqueuePush, TypeOK
      <3>2. /\ nextPick' = nextPick + 1 /\ enqueuePc' = "outside" /\ UNCHANGED purged
        BY <2>6 DEF EnqueuePush
      <3>3. Len(mExportQueue') + Cardinality(purged) < nextPick + 1
        BY <3>1, ExcessTypes DEF ExcessInv
      <3>4. purged # {} => Cardinality(purged) + Kept < nextPick + 1
        BY ExcessTypes DEF ExcessInv
      <3>5. purged # {} => Cardinality(purged) + Kept <= nextPick + 1
        BY <3>4, ExcessTypes
      <3> QED
        BY <3>2, <3>3, <3>4, <3>5 DEF ExcessInv, Kept
    <2> QED
      BY <1>2, <2>1, <2>2, <2>3, <2>4, <2>5, <2>6 DEF EnqueueNext
  <1>3. CASE PublishNext
    <2>1. CASE Reconnect
      BY <2>1, ExcessFrame DEF Reconnect
    <2>2. CASE WaitTimesOut
      BY <2>2, ExcessFrame DEF WaitTimesOut
    <2>3. CASE WaitIsNotified
      BY <2>3, ExcessFrame DEF WaitIsNotified, WaitTimesOut
    <2>4. CASE Woken
      BY <2>4, ExcessFrame DEF Woken
    <2>5. CASE Open
      BY <2>5, ExcessFrame DEF Open
    <2>6. CASE TestKeepRunning
      BY <2>6, ExcessFrame DEF TestKeepRunning
    <2>7. CASE PopPick
      BY <2>7, ExcessFrame DEF PopPick
    <2>8. ASSUME NEW ready \in BOOLEAN, FindEmpty(ready)
          PROVE  ExcessInv'
      BY <2>8, ExcessFrame DEF FindEmpty
    <2>9. CASE WriteSucceeds
      BY <2>9, ExcessFrame DEF WriteSucceeds
    <2>10. CASE WriteFails
      BY <2>10, ExcessFrame DEF WriteFails
    <2>11. ASSUME NEW status \in Statuses, Finish(status)
           PROVE  ExcessInv'
      BY <2>11, ExcessFrame DEF Finish
    <2>12. CASE Exit
      BY <2>12, ExcessFrame DEF Exit
    <2> QED
      BY <1>3, <2>1, <2>2, <2>3, <2>4, <2>5, <2>6, <2>7, <2>8,
         <2>9, <2>10, <2>11, <2>12
         DEF PublishNext
  <1>4. CASE StopNext
    <2>1. CASE Stop
      BY <2>1, ExcessFrame DEF Stop
    <2>2. CASE StopRequestsShutdown
      BY <2>2, ExcessFrame DEF StopRequestsShutdown
    <2> QED
      BY <1>4, <2>1, <2>2 DEF StopNext
  <1>5. CASE UNCHANGED vars
    BY <1>5, ExcessFrame DEF vars
  <1> QED
    BY <1>1, <1>2, <1>3, <1>4, <1>5 DEF Next

\* However the calls of enqueue on the queue and the pops of the publisher's
\* thread interleave, try_push never fails, and of all picks enqueued so far no
\* more are purged than there are beyond what the queue keeps
\* (publisher.cpp:271-288).
THEOREM NothingIsRefused == Spec => []NothingRefused
  <1>1. RoomInv /\ ExcessInv => NothingRefused
    BY DEF RoomInv, ExcessInv, NothingRefused, Kept
  <1> QED
    BY <1>1, TypesHold, RoomInit, RoomStep, ExcessInit, ExcessStep, PTL DEF Spec

---------------------------------------------------------------------------
(* Why the thread throws.                                                  *)

\* The index into the schedule is never ahead of the barren sessions, and
\* the thread is on its way out for one of three reasons.
ReasonInv ==
    /\ kReconnect <= barren
    /\ publishPc = "exit" => ~mKeepRunning \/ fatal \/ ScheduleSize <= barren
    /\ PrematureEndIsJustified

\* The thread starts with nothing to report.
LEMMA ReasonInit == Init => ReasonInv
  BY DEF Init, ReasonInv, PrematureEndIsJustified

\* What a step does that has no part in the reconnection loop.
LEMMA ReasonFrame ==
  ASSUME ReasonInv,
         UNCHANGED <<kReconnect, barren, fatal>>,
         mKeepRunning' => mKeepRunning,
         UNCHANGED publishPc \/ publishPc' \notin {"exit", "threw"}
  PROVE  ReasonInv'
  BY DEF ReasonInv, PrematureEndIsJustified

\* Every step that sends the thread out of the loop has its reason.
LEMMA ReasonStep == TypeOK /\ ControlInv /\ ReasonInv /\ [Next]_vars => ReasonInv'
  <1> SUFFICES ASSUME TypeOK /\ ControlInv /\ ReasonInv, [Next]_vars PROVE ReasonInv'
    OBVIOUS
  <1> USE DEF queueVars, sessionVars, workerVars, stopVars
  <1>1. CASE Start
    <2>1. kReconnect' = -1 /\ publishPc' = "reconnect" /\ UNCHANGED barren
      BY <1>1 DEF Start
    <2>2. barren \in Nat
      BY PublisherAssumption DEF PublisherAssumption, TypeOK
    <2> QED
      BY <2>1, <2>2 DEF ReasonInv, PrematureEndIsJustified
  <1>2. CASE EnqueueNext
    <2>1. CASE Enqueue
      BY <2>1, ReasonFrame DEF Enqueue
    <2>2. CASE EnqueueSize
      BY <2>2, ReasonFrame DEF EnqueueSize
    <2>3. CASE EnqueueEmpty
      BY <2>3, ReasonFrame DEF EnqueueEmpty
    <2>4. CASE EnqueuePurge
      BY <2>4, ReasonFrame DEF EnqueuePurge
    <2>5. CASE EnqueuePurgeFails
      BY <2>5, ReasonFrame DEF EnqueuePurgeFails
    <2>6. CASE EnqueuePush
      BY <2>6, ReasonFrame DEF EnqueuePush
    <2> QED
      BY <1>2, <2>1, <2>2, <2>3, <2>4, <2>5, <2>6 DEF EnqueueNext
  <1>3. CASE PublishNext
    <2>1. CASE Reconnect
      <3>1. kReconnect \in Int /\ barren \in Int /\ ScheduleSize \in Int
        BY PublisherAssumption DEF PublisherAssumption, TypeOK
      <3>2. publishPc' = "exit" => ~mKeepRunning \/ ScheduleSize <= barren
        BY <2>1, <3>1 DEF Reconnect, ReasonInv
      <3> QED
        BY <2>1, <3>2 DEF Reconnect, ReasonInv, PrematureEndIsJustified
    <2>2. CASE WaitTimesOut
      BY <2>2, ReasonFrame DEF WaitTimesOut
    <2>3. CASE WaitIsNotified
      BY <2>3, ReasonFrame DEF WaitIsNotified, WaitTimesOut
    <2>4. CASE Woken
      BY <2>4 DEF Woken, ReasonInv, PrematureEndIsJustified
    <2>5. CASE Open
      BY <2>5, ReasonFrame DEF Open
    <2>6. CASE TestKeepRunning
      BY <2>6, ReasonFrame DEF TestKeepRunning
    <2>7. CASE PopPick
      BY <2>7, ReasonFrame DEF PopPick
    <2>8. ASSUME NEW ready \in BOOLEAN, FindEmpty(ready)
          PROVE  ReasonInv'
      BY <2>8, ReasonFrame DEF FindEmpty
    <2>9. CASE WriteSucceeds
      BY <2>9, ReasonFrame DEF WriteSucceeds
    <2>10. CASE WriteFails
      BY <2>10, ReasonFrame DEF WriteFails
    <2>11. ASSUME NEW status \in Statuses, Finish(status)
          PROVE  ReasonInv'
      <3>1. /\ kReconnect \in Int /\ barren \in Nat /\ barren <= ScheduleSize + 1
            /\ ScheduleSize \in Nat /\ kReconnect < ScheduleSize
        BY <2>11, PublisherAssumption DEF PublisherAssumption, TypeOK, ControlInv, InLoop, Finish
      <3>2. kReconnect' <= barren'
        BY <2>11, <3>1 DEF Finish, ReasonInv
      <3>3. publishPc' = "exit" => ~mKeepRunning' \/ fatal'
        BY <2>11 DEF Finish, GoesOn, Statuses
      <3>4. publishPc' # "threw"
        BY <2>11 DEF Finish
      <3> QED
        BY <3>2, <3>3, <3>4 DEF ReasonInv, PrematureEndIsJustified
    <2>12. CASE Exit
      <3>1. publishPc' = "threw" => fatal \/ ScheduleSize <= barren
        BY <2>12 DEF Exit, ReasonInv
      <3>2. barren \in Int /\ ScheduleSize \in Int
        BY PublisherAssumption DEF PublisherAssumption, TypeOK
      <3> QED
        BY <2>12, <3>1, <3>2 DEF Exit, ReasonInv, PrematureEndIsJustified
    <2> QED
      BY <1>3, <2>1, <2>2, <2>3, <2>4, <2>5, <2>6, <2>7, <2>8,
         <2>9, <2>10, <2>11, <2>12
         DEF PublishNext
  <1>4. CASE StopNext
    <2>1. CASE Stop
      BY <2>1, ReasonFrame DEF Stop
    <2>2. CASE StopRequestsShutdown
      BY <2>2, ReasonFrame DEF StopRequestsShutdown
    <2> QED
      BY <1>4, <2>1, <2>2 DEF StopNext
  <1>5. CASE UNCHANGED vars
    BY <1>5, ReasonFrame DEF vars
  <1> QED
    BY <1>1, <1>2, <1>3, <1>4, <1>5 DEF Next

\* The thread reports a premature end only after a fatal status or a whole
\* schedule of sessions without a successful write, however long the schedule
\* and however often it was started over.
THEOREM ThrowsForAReason == Spec => []PrematureEndIsJustified
  <1>1. ReasonInv => PrematureEndIsJustified
    BY DEF ReasonInv
  <1> QED
    BY <1>1, TypesHold, ReasonInit, ReasonStep, PTL DEF Spec

---------------------------------------------------------------------------
(* The order of the picks.                                                 *)

\* Everything that was handed over is older than the pick to come.
OrderInv ==
    /\ OldestFirst
    /\ \A pick \in Range(mExportQueue) \cup Gone : pick < nextPick

\* Nothing is out of order at the start.
LEMMA OrderInit == Init => OrderInv
  <1> SUFFICES ASSUME Init PROVE OrderInv
    OBVIOUS
  <1>1. mExportQueue = <<>> /\ sent = <<>> /\ purged = {} /\ lost = {} /\ inHand = NoPick
    BY DEF Init
  <1>2. Len(<<>>) = 0
    OBVIOUS
  <1>3. Range(<<>>) = {} /\ Ascending(<<>>)
    BY <1>2 DEF Range, Ascending
  <1>4. Gone = {}
    BY <1>1, <1>3 DEF Gone, InHand
  <1> QED
    BY <1>1, <1>3, <1>4 DEF OrderInv, OldestFirst

\* The types, for the arithmetic on picks.
LEMMA PicksAreNumbers ==
  ASSUME TypeOK
  PROVE  /\ mExportQueue \in Seq(Int) /\ sent \in Seq(Int) /\ nextPick \in Int
         /\ Range(mExportQueue) \subseteq Int /\ Gone \subseteq Int
         /\ inHand \in Int
  <1>1. Picks \subseteq Int
    BY DEF Picks
  <1>2. mExportQueue \in Seq(Int) /\ sent \in Seq(Int)
    BY <1>1, SeqMonotonic DEF TypeOK
  <1>3. Range(mExportQueue) \subseteq Int /\ Range(sent) \subseteq Int
    BY <1>2 DEF Range
  <1>4. nextPick \in Int /\ inHand \in Int /\ purged \subseteq Int /\ lost \subseteq Int
    BY <1>1 DEF TypeOK, NoPick
  <1> QED
    BY <1>2, <1>3, <1>4 DEF Gone, InHand

\* What a step does that neither moves a pick nor makes one.
LEMMA OrderFrame ==
  ASSUME OrderInv, UNCHANGED <<mExportQueue, nextPick, sent, purged, lost, inHand>>
  PROVE  OrderInv'
  BY DEF OrderInv, OldestFirst, Gone, InHand

\* Every step keeps the picks in order.
LEMMA OrderStep == TypeOK /\ ControlInv /\ OrderInv /\ [Next]_vars => OrderInv'
  <1> SUFFICES ASSUME TypeOK /\ ControlInv /\ OrderInv, [Next]_vars PROVE OrderInv'
    OBVIOUS
  <1> USE DEF queueVars, sessionVars, workerVars, stopVars
  <1>1. CASE Start
    BY <1>1, OrderFrame DEF Start
  <1>2. CASE EnqueueNext
    <2>1. CASE Enqueue
      BY <2>1, OrderFrame DEF Enqueue
    <2>2. CASE EnqueueSize
      BY <2>2, OrderFrame DEF EnqueueSize
    <2>3. CASE EnqueueEmpty
      BY <2>3, OrderFrame DEF EnqueueEmpty
    <2>4. CASE EnqueuePurge
      <3>1. mExportQueue # <<>> /\ mExportQueue' = Tail(mExportQueue)
        BY <2>4 DEF EnqueuePurge
      <3>2. UNCHANGED <<sent, nextPick>>
        BY <2>4 DEF EnqueuePurge
      <3>3. /\ Ascending(mExportQueue')
            /\ Range(mExportQueue) = {Head(mExportQueue)} \cup Range(mExportQueue')
            /\ \A pick \in Range(mExportQueue') : Head(mExportQueue) < pick
        BY <3>1, PicksAreNumbers, ElementsOfTail DEF OrderInv, OldestFirst
      <3>4. Gone' = Gone \cup {Head(mExportQueue)}
        BY <2>4, <3>2 DEF EnqueuePurge, Gone, InHand
      <3>5. \A pick \in Range(mExportQueue') : \A gone \in Gone' : gone < pick
        BY <3>3, <3>4 DEF OrderInv, OldestFirst
      <3>6. \A pick \in Range(mExportQueue') \cup Gone' : pick < nextPick'
        BY <3>2, <3>3, <3>4 DEF OrderInv
      <3>7. inHand' # NoPick => \A pick \in Range(sent') : pick < inHand'
        BY <2>4, <3>2 DEF EnqueuePurge, OrderInv, OldestFirst
      <3> QED
        BY <3>2, <3>3, <3>5, <3>6, <3>7 DEF OrderInv, OldestFirst
    <2>5. CASE EnqueuePurgeFails
      BY <2>5, OrderFrame DEF EnqueuePurgeFails
    <2>6. CASE EnqueuePush
      <3>1. UNCHANGED Gone /\ UNCHANGED <<sent, inHand>> /\ nextPick' = nextPick + 1
        BY <2>6 DEF EnqueuePush, Gone, InHand
      <3>2. nextPick \in Int /\ Range(mExportQueue) \cup Gone \subseteq Int
        BY PicksAreNumbers
      <3>3. CASE UNCHANGED mExportQueue
        <4>1. \A pick \in Range(mExportQueue) \cup Gone : pick < nextPick + 1
          BY <3>2 DEF OrderInv
        <4> QED
          BY <3>1, <3>3, <4>1 DEF OrderInv, OldestFirst
      <3>4. CASE mExportQueue' = Append(mExportQueue, nextPick)
        <4>1. \A pick \in Range(mExportQueue) : pick < nextPick
          BY DEF OrderInv
        <4>2. /\ Range(mExportQueue') = Range(mExportQueue) \cup {nextPick}
              /\ Ascending(mExportQueue')
          BY <3>4, <4>1, PicksAreNumbers, ElementsOfAppend DEF OrderInv, OldestFirst
        <4>3. \A pick \in Range(mExportQueue') : \A gone \in Gone : gone < pick
          BY <4>2 DEF OrderInv, OldestFirst
        <4>4. \A pick \in Range(mExportQueue') \cup Gone : pick < nextPick + 1
          BY <3>2, <4>2 DEF OrderInv
        <4> QED
          BY <3>1, <4>2, <4>3, <4>4 DEF OrderInv, OldestFirst
      <3> QED
        BY <2>6, <3>3, <3>4 DEF EnqueuePush
    <2> QED
      BY <1>2, <2>1, <2>2, <2>3, <2>4, <2>5, <2>6 DEF EnqueueNext
  <1>3. CASE PublishNext
    <2>1. CASE Reconnect
      BY <2>1, OrderFrame DEF Reconnect
    <2>2. CASE WaitTimesOut
      BY <2>2, OrderFrame DEF WaitTimesOut
    <2>3. CASE WaitIsNotified
      BY <2>3, OrderFrame DEF WaitIsNotified, WaitTimesOut
    <2>4. CASE Woken
      BY <2>4, OrderFrame DEF Woken
    <2>5. CASE Open
      BY <2>5, OrderFrame DEF Open
    <2>6. CASE TestKeepRunning
      BY <2>6, OrderFrame DEF TestKeepRunning
    <2>7. CASE PopPick
      <3>1. mExportQueue # <<>> /\ mExportQueue' = Tail(mExportQueue)
        BY <2>7 DEF PopPick
      <3>2. UNCHANGED <<sent, nextPick>>
        BY <2>7 DEF PopPick
      <3>3. /\ Ascending(mExportQueue')
            /\ Range(mExportQueue) = {Head(mExportQueue)} \cup Range(mExportQueue')
            /\ \A pick \in Range(mExportQueue') : Head(mExportQueue) < pick
        BY <3>1, PicksAreNumbers, ElementsOfTail DEF OrderInv, OldestFirst
      <3>8. inHand = NoPick /\ inHand' = Head(mExportQueue) /\ Head(mExportQueue) # NoPick
        <4>1. Head(mExportQueue) \in Picks
          BY <3>1 DEF TypeOK
        <4> QED
          BY <2>7, <4>1 DEF PopPick, ControlInv, NoPick, Picks
      <3>4. Gone' = Gone \cup {Head(mExportQueue)}
        BY <2>7, <3>2, <3>8 DEF PopPick, Gone, InHand, ControlInv
      <3>5. \A pick \in Range(mExportQueue') : \A gone \in Gone' : gone < pick
        BY <3>3, <3>4 DEF OrderInv, OldestFirst
      <3>6. \A pick \in Range(mExportQueue') \cup Gone' : pick < nextPick'
        BY <3>2, <3>3, <3>4 DEF OrderInv
      <3>7. inHand' # NoPick => \A pick \in Range(sent') : pick < inHand'
        BY <3>2, <3>3, <3>8 DEF OrderInv, OldestFirst, Gone
      <3> QED
        BY <3>2, <3>3, <3>5, <3>6, <3>7 DEF OrderInv, OldestFirst
    <2>8. ASSUME NEW ready \in BOOLEAN, FindEmpty(ready)
          PROVE  OrderInv'
      BY <2>8, OrderFrame DEF FindEmpty
    <2>9. CASE WriteSucceeds
      <3>1. inHand # NoPick
        BY <2>9 DEF WriteSucceeds, ControlInv
      <3>2. /\ sent' = Append(sent, inHand) /\ inHand' = NoPick
            /\ UNCHANGED <<mExportQueue, nextPick, purged, lost>>
        BY <2>9 DEF WriteSucceeds
      <3>3. Range(sent') = Range(sent) \cup {inHand} /\ Ascending(sent')
        BY <3>1, <3>2, PicksAreNumbers, ElementsOfAppend DEF OrderInv, OldestFirst
      <3>4. Gone' = Gone
        BY <3>1, <3>2, <3>3 DEF Gone, InHand
      <3> QED
        BY <3>2, <3>3, <3>4 DEF OrderInv, OldestFirst
    <2>10. CASE WriteFails
      <3>1. inHand # NoPick
        BY <2>10 DEF WriteFails, ControlInv
      <3>2. /\ lost' = lost \cup {inHand} /\ inHand' = NoPick
            /\ UNCHANGED <<mExportQueue, nextPick, purged, sent>>
        BY <2>10 DEF WriteFails
      <3>3. Gone' = Gone
        BY <3>1, <3>2 DEF Gone, InHand
      <3> QED
        BY <3>2, <3>3 DEF OrderInv, OldestFirst
    <2>11. ASSUME NEW status \in Statuses, Finish(status)
          PROVE  OrderInv'
      BY <2>11, OrderFrame DEF Finish
    <2>12. CASE Exit
      BY <2>12, OrderFrame DEF Exit
    <2> QED
      BY <1>3, <2>1, <2>2, <2>3, <2>4, <2>5, <2>6, <2>7, <2>8,
         <2>9, <2>10, <2>11, <2>12
         DEF PublishNext
  <1>4. CASE StopNext
    <2>1. CASE Stop
      BY <2>1, OrderFrame DEF Stop
    <2>2. CASE StopRequestsShutdown
      BY <2>2, OrderFrame DEF StopRequestsShutdown
    <2> QED
      BY <1>4, <2>1, <2>2 DEF StopNext
  <1>5. CASE UNCHANGED vars
    BY <1>5, OrderFrame DEF vars
  <1> QED
    BY <1>1, <1>2, <1>3, <1>4, <1>5 DEF Next

\* The three invariants hold together in every reachable state.
LEMMA OrderHolds == Spec => [](TypeOK /\ ControlInv /\ OrderInv)
  BY TypesHold, OrderInit, OrderStep, PTL DEF Spec

\* The broker gets the picks in order and none twice, and whatever left the
\* queue by either thread is older than all that stays in it.
THEOREM OldestGoFirst == Spec => []OldestFirst
  <1>1. OrderInv => OldestFirst
    BY DEF OrderInv
  <1> QED
    BY <1>1, OrderHolds, PTL

---------------------------------------------------------------------------
(* The publisher implements PickDelivery.                                  *)

\* The initial state is one of PickDelivery.
LEMMA DeliveryInit == Init => Delivery!Init
  BY DEF Init, Delivery!Init

\* A successful write delivers a pick that is newer than those delivered.
LEMMA WriteDelivers ==
  ASSUME TypeOK, ControlInv, OrderInv, WriteSucceeds
  PROVE  Delivery!Deliver
  <1>1. inHand # NoPick /\ sent' = Append(sent, inHand) /\ UNCHANGED nextPick
    BY DEF WriteSucceeds, ControlInv, queueVars
  <1>2. inHand \in Picks /\ inHand \in Gone
    BY <1>1 DEF TypeOK, Gone, InHand
  <1>3. inHand \in Nat \ {0} /\ inHand <= nextPick - 1
    BY <1>2, PicksAreNumbers DEF Picks, OrderInv
  <1>4. Delivery!Newest \in Int /\ Delivery!Newest < inHand
    <2>1. CASE sent = <<>>
      BY <1>3, <2>1 DEF Delivery!Newest
    <2>2. CASE sent # <<>>
      <3>1. sent[Len(sent)] \in Range(sent) /\ sent[Len(sent)] \in Int
        <4>1. sent \in Seq(Int)
          BY PicksAreNumbers
        <4>2. Len(sent) \in 1 .. Len(sent) /\ sent[Len(sent)] \in Int
          BY <2>2, <4>1
        <4> QED
          BY <4>2 DEF Range
      <3> QED
        BY <1>1, <2>2, <3>1 DEF Delivery!Newest, OrderInv, OldestFirst
    <2> QED
      BY <2>1, <2>2
  <1>5. inHand \in Delivery!Newest + 1 .. nextPick - 1
    BY <1>3, <1>4, PicksAreNumbers
  <1> QED
    BY <1>1, <1>5 DEF Delivery!Deliver

\* A step that delivers and offers nothing is a stutter of PickDelivery.
LEMMA DeliveryFrame ==
  ASSUME UNCHANGED <<nextPick, sent>>
  PROVE  [Delivery!Next]_<<nextPick - 1, sent>>
  OBVIOUS

\* Every step offers a pick, delivers a pick or stutters.
LEMMA DeliveryStep ==
  TypeOK /\ ControlInv /\ OrderInv /\ [Next]_vars
      => [Delivery!Next]_<<nextPick - 1, sent>>
  <1> SUFFICES ASSUME TypeOK /\ ControlInv /\ OrderInv, [Next]_vars
               PROVE  [Delivery!Next]_<<nextPick - 1, sent>>
    OBVIOUS
  <1> USE DEF queueVars, sessionVars, workerVars, stopVars
  <1>1. CASE Start
    BY <1>1, DeliveryFrame DEF Start
  <1>2. CASE EnqueueNext
    <2>1. CASE Enqueue
      BY <2>1, DeliveryFrame DEF Enqueue
    <2>2. CASE EnqueueSize
      BY <2>2, DeliveryFrame DEF EnqueueSize
    <2>3. CASE EnqueueEmpty
      BY <2>3, DeliveryFrame DEF EnqueueEmpty
    <2>4. CASE EnqueuePurge
      BY <2>4, DeliveryFrame DEF EnqueuePurge
    <2>5. CASE EnqueuePurgeFails
      BY <2>5, DeliveryFrame DEF EnqueuePurgeFails
    <2>6. CASE EnqueuePush
      <3>1. nextPick' = nextPick + 1 /\ UNCHANGED sent
        BY <2>6 DEF EnqueuePush
      <3>2. nextPick \in Int /\ nextPick <= MaxPicks /\ MaxPicks \in Nat
        BY <2>6, PicksAreNumbers, PublisherAssumption DEF PublisherAssumption, EnqueuePush, ControlInv
      <3> QED
        BY <3>1, <3>2 DEF Delivery!Next, Delivery!Offer
    <2> QED
      BY <1>2, <2>1, <2>2, <2>3, <2>4, <2>5, <2>6 DEF EnqueueNext
  <1>3. CASE PublishNext
    <2>1. CASE Reconnect
      BY <2>1, DeliveryFrame DEF Reconnect
    <2>2. CASE WaitTimesOut
      BY <2>2, DeliveryFrame DEF WaitTimesOut
    <2>3. CASE WaitIsNotified
      BY <2>3, DeliveryFrame DEF WaitIsNotified, WaitTimesOut
    <2>4. CASE Woken
      BY <2>4, DeliveryFrame DEF Woken
    <2>5. CASE Open
      BY <2>5, DeliveryFrame DEF Open
    <2>6. CASE TestKeepRunning
      BY <2>6, DeliveryFrame DEF TestKeepRunning
    <2>7. CASE PopPick
      BY <2>7, DeliveryFrame DEF PopPick
    <2>8. ASSUME NEW ready \in BOOLEAN, FindEmpty(ready)
          PROVE  [Delivery!Next]_<<nextPick - 1, sent>>
      BY <2>8, DeliveryFrame DEF FindEmpty
    <2>9. CASE WriteSucceeds
      BY <2>9, WriteDelivers DEF Delivery!Next
    <2>10. CASE WriteFails
      BY <2>10, DeliveryFrame DEF WriteFails
    <2>11. ASSUME NEW status \in Statuses, Finish(status)
          PROVE  [Delivery!Next]_<<nextPick - 1, sent>>
      BY <2>11, DeliveryFrame DEF Finish
    <2>12. CASE Exit
      BY <2>12, DeliveryFrame DEF Exit
    <2> QED
      BY <1>3, <2>1, <2>2, <2>3, <2>4, <2>5, <2>6, <2>7, <2>8,
         <2>9, <2>10, <2>11, <2>12
         DEF PublishNext
  <1>4. CASE StopNext
    <2>1. CASE Stop
      BY <2>1, DeliveryFrame DEF Stop
    <2>2. CASE StopRequestsShutdown
      BY <2>2, DeliveryFrame DEF StopRequestsShutdown
    <2> QED
      BY <1>4, <2>1, <2>2 DEF StopNext
  <1>5. CASE UNCHANGED vars
    BY <1>5, DeliveryFrame DEF vars
  <1> QED
    BY <1>1, <1>2, <1>3, <1>4, <1>5 DEF Next

\* The publisher delivers picks as PickDelivery promises: each at most once,
\* in the order they were made, whatever is purged or lost on the way.
THEOREM ImplementsPickDelivery == Spec => DeliversInOrder
  BY OrderHolds, DeliveryInit, DeliveryStep, PTL DEF Spec, DeliversInOrder, Delivery!Spec

---------------------------------------------------------------------------
(* The shutdown.                                                           *)

\* stop clears mKeepRunning before it requests the shutdown, and nothing
\* sets it again.
ShutdownInv ==
    /\ stopPc # "before" => ~mKeepRunning
    /\ mShutdownRequested => stopPc # "before"

\* Nobody has asked for a shutdown at the start.
LEMMA ShutdownInit == Init => ShutdownInv
  BY DEF Init, ShutdownInv

\* Every step keeps the order of a shutdown.
LEMMA ShutdownStep == ShutdownInv /\ [Next]_vars => ShutdownInv'
  <1> SUFFICES ASSUME ShutdownInv, [Next]_vars PROVE ShutdownInv'
    OBVIOUS
  <1> USE DEF ShutdownInv, queueVars, sessionVars, workerVars, stopVars
  <1>1. CASE Start
    BY <1>1 DEF Start
  <1>2. CASE EnqueueNext
    <2>1. CASE Enqueue
      BY <2>1 DEF Enqueue
    <2>2. CASE EnqueueSize
      BY <2>2 DEF EnqueueSize
    <2>3. CASE EnqueueEmpty
      BY <2>3 DEF EnqueueEmpty
    <2>4. CASE EnqueuePurge
      BY <2>4 DEF EnqueuePurge
    <2>5. CASE EnqueuePurgeFails
      BY <2>5 DEF EnqueuePurgeFails
    <2>6. CASE EnqueuePush
      BY <2>6 DEF EnqueuePush
    <2> QED
      BY <1>2, <2>1, <2>2, <2>3, <2>4, <2>5, <2>6 DEF EnqueueNext
  <1>3. CASE PublishNext
    <2>1. CASE Reconnect
      BY <2>1 DEF Reconnect
    <2>2. CASE WaitTimesOut
      BY <2>2 DEF WaitTimesOut
    <2>3. CASE WaitIsNotified
      BY <2>3 DEF WaitIsNotified, WaitTimesOut
    <2>4. CASE Woken
      BY <2>4 DEF Woken
    <2>5. CASE Open
      BY <2>5 DEF Open
    <2>6. CASE TestKeepRunning
      BY <2>6 DEF TestKeepRunning
    <2>7. CASE PopPick
      BY <2>7 DEF PopPick
    <2>8. ASSUME NEW ready \in BOOLEAN, FindEmpty(ready)
          PROVE  ShutdownInv'
      BY <2>8 DEF FindEmpty
    <2>9. CASE WriteSucceeds
      BY <2>9 DEF WriteSucceeds
    <2>10. CASE WriteFails
      BY <2>10 DEF WriteFails
    <2>11. ASSUME NEW status \in Statuses, Finish(status)
          PROVE  ShutdownInv'
      BY <2>11 DEF Finish
    <2>12. CASE Exit
      BY <2>12 DEF Exit
    <2> QED
      BY <1>3, <2>1, <2>2, <2>3, <2>4, <2>5, <2>6, <2>7, <2>8,
         <2>9, <2>10, <2>11, <2>12
         DEF PublishNext
  <1>4. CASE StopNext
    <2>1. CASE Stop
      BY <2>1 DEF Stop
    <2>2. CASE StopRequestsShutdown
      BY <2>2 DEF StopRequestsShutdown
    <2> QED
      BY <1>4, <2>1, <2>2 DEF StopNext
  <1>5. CASE UNCHANGED vars
    BY <1>5 DEF vars
  <1> QED
    BY <1>1, <1>2, <1>3, <1>4, <1>5 DEF Next

\* A thread that is woken opens a stream only while it is to keep running.
LEMMA OpensWhileRunning ==
  ASSUME [Next]_vars, publishPc = "woken", publishPc' = "open"
  PROVE  mKeepRunning
  <1>1. CASE Woken
    BY <1>1 DEF Woken
  <1>2. CASE Start \/ EnqueueNext \/ StopNext \/ UNCHANGED vars
    BY <1>2 DEF Start, EnqueueNext, Enqueue, EnqueueSize, EnqueueEmpty, EnqueuePurge,
       EnqueuePurgeFails, EnqueuePush, StopNext, Stop, StopRequestsShutdown, vars, workerVars
  <1>3. CASE PublishNext /\ ~Woken
    BY <1>3 DEF PublishNext, Reconnect, WaitTimesOut, WaitIsNotified, Open, TestKeepRunning,
       PopPick, FindEmpty, WriteSucceeds, WriteFails, Finish, Exit
  <1> QED
    BY <1>1, <1>2, <1>3 DEF Next

\* A thread that is between two streams when a shutdown is requested does
\* not open another one.
THEOREM NoStreamOpensAfterShutdown == Spec => NoStreamAfterShutdown
  <1>1. ShutdownInv /\ [Next]_vars
            => [publishPc = "woken" /\ publishPc' = "open" => ~mShutdownRequested]_vars
    BY OpensWhileRunning DEF ShutdownInv
  <1> QED
    BY <1>1, ShutdownInit, ShutdownStep, PTL DEF Spec, NoStreamAfterShutdown

---------------------------------------------------------------------------
(* The fate of every pick.                                                 *)

\* No two sets of a function share an element.
Disjoint(F) == \A a, b \in DOMAIN F : a # b => F[a] \cap F[b] = {}
\* All they hold.
Total(F) == UNION {F[a] : a \in DOMAIN F}

\* Handing an element from one of disjoint sets to another one.
LEMMA HandOver ==
  ASSUME NEW D, NEW F, NEW G, DOMAIN F = D, DOMAIN G = D,
         NEW from \in D, NEW to \in D, from # to, NEW p \in F[from], Disjoint(F),
         G[from] = F[from] \ {p}, G[to] = F[to] \cup {p},
         \A a \in D \ {from, to} : G[a] = F[a]
  PROVE  Disjoint(G) /\ Total(G) = Total(F)
  <1>1. Disjoint(G)
    BY DEF Disjoint
  <1>2. ASSUME NEW a \in D, NEW x \in F[a] PROVE x \in Total(G)
    <2>1. x \in G[a] \/ x \in G[to]
      OBVIOUS
    <2> QED
      BY <2>1 DEF Total
  <1>3. ASSUME NEW a \in D, NEW x \in G[a] PROVE x \in Total(F)
    <2>1. x \in F[a] \/ x \in F[from]
      OBVIOUS
    <2> QED
      BY <2>1 DEF Total
  <1>4. Total(G) = Total(F)
    BY <1>2, <1>3 DEF Total
  <1> QED
    BY <1>1, <1>4

\* A new element for one of disjoint sets.
LEMMA TakeIn ==
  ASSUME NEW D, NEW F, NEW G, DOMAIN F = D, DOMAIN G = D,
         NEW to \in D, NEW p, p \notin Total(F), Disjoint(F),
         G[to] = F[to] \cup {p}, \A a \in D \ {to} : G[a] = F[a]
  PROVE  Disjoint(G) /\ Total(G) = Total(F) \cup {p}
  <1>1. \A a \in D : p \notin F[a]
    BY DEF Total
  <1>2. Disjoint(G)
    BY <1>1 DEF Disjoint
  <1>3. \A a \in D : F[a] \subseteq Total(G)
    BY DEF Total
  <1>4. p \in Total(G)
    BY DEF Total
  <1>5. \A a \in D : G[a] \subseteq Total(F) \cup {p}
    BY DEF Total
  <1> QED
    BY <1>2, <1>3, <1>4, <1>5 DEF Total

\* The fates are apart, and together they are the picks enqueued so far.
FateInv == Disjoint(Fates) /\ Total(Fates) = 1 .. nextPick - 1

FateNames == {"waiting", "inHand", "sent", "purged", "lost", "refused"}

\* The fields of Fates ...
LEMMA FatesAre ==
  /\ DOMAIN Fates = FateNames
  /\ Fates["waiting"] = Range(mExportQueue) /\ Fates["inHand"] = InHand
  /\ Fates["sent"] = Range(sent) /\ Fates["purged"] = purged
  /\ Fates["lost"] = lost /\ Fates["refused"] = refused
  BY DEF Fates, FateNames

\* ... and those of its next value.
LEMMA FatesWillBe ==
  /\ DOMAIN Fates' = FateNames
  /\ Fates'["waiting"] = Range(mExportQueue)' /\ Fates'["inHand"] = InHand'
  /\ Fates'["sent"] = Range(sent)' /\ Fates'["purged"] = purged'
  /\ Fates'["lost"] = lost' /\ Fates'["refused"] = refused'
  BY DEF Fates, FateNames

\* No pick has a fate at the start.
LEMMA FateInit == Init => FateInv
  <1> SUFFICES ASSUME Init PROVE FateInv
    OBVIOUS
  <1>1. Range(<<>>) = {}
    <2>1. Len(<<>>) = 0
      OBVIOUS
    <2> QED
      BY <2>1 DEF Range
  <1>2. DOMAIN Fates = FateNames /\ \A a \in FateNames : Fates[a] = {}
    BY <1>1, FatesAre DEF Init, InHand, FateNames
  <1>3. nextPick = 1
    BY DEF Init
  <1> QED
    BY <1>2, <1>3 DEF FateInv, Disjoint, Total

\* What a step does that neither moves a pick nor makes one.
LEMMA FateFrame ==
  ASSUME FateInv, UNCHANGED <<mExportQueue, nextPick, sent, purged, lost, refused, inHand>>
  PROVE  FateInv'
  <1>1. UNCHANGED Fates
    BY DEF Fates, InHand
  <1> QED
    BY <1>1 DEF FateInv

\* What a step does that hands a pick from one fate to another.
LEMMA FateMove ==
  ASSUME FateInv, UNCHANGED nextPick,
         NEW from \in FateNames, NEW to \in FateNames, from # to, NEW p \in Fates[from],
         Fates'[from] = Fates[from] \ {p}, Fates'[to] = Fates[to] \cup {p},
         \A a \in FateNames \ {from, to} : Fates'[a] = Fates[a]
  PROVE  FateInv'
  <1>1. Disjoint(Fates') /\ Total(Fates') = Total(Fates)
    BY FatesAre, FatesWillBe, HandOver DEF FateInv
  <1> QED
    BY <1>1 DEF FateInv

\* What is popped leaves the queue, and is nowhere else in it.
LEMMA HeadLeaves ==
  ASSUME TypeOK, OrderInv, mExportQueue # <<>>, mExportQueue' = Tail(mExportQueue)
  PROVE  /\ Head(mExportQueue) \in Range(mExportQueue)
         /\ Range(mExportQueue)' = Range(mExportQueue) \ {Head(mExportQueue)}
  <1>1. mExportQueue \in Seq(Int) /\ Ascending(mExportQueue)
    BY PicksAreNumbers DEF OrderInv, OldestFirst
  <1>2. /\ Range(mExportQueue) = {Head(mExportQueue)} \cup Range(mExportQueue')
        /\ \A pick \in Range(mExportQueue') : Head(mExportQueue) < pick
    BY <1>1, ElementsOfTail
  <1>3. Head(mExportQueue) \in Int
    BY <1>1
  <1>4. Head(mExportQueue) \notin Range(mExportQueue')
    BY <1>2, <1>3
  <1> QED
    BY <1>2, <1>4 DEF Range

\* Every step that moves a pick moves it from one fate to one other.
LEMMA FateStep == TypeOK /\ ControlInv /\ OrderInv /\ FateInv /\ [Next]_vars => FateInv'
  <1> SUFFICES ASSUME TypeOK /\ ControlInv /\ OrderInv /\ FateInv, [Next]_vars
               PROVE  FateInv'
    OBVIOUS
  <1> USE DEF queueVars, sessionVars, workerVars, stopVars
  <1>1. CASE Start
    BY <1>1, FateFrame DEF Start
  <1>2. CASE EnqueueNext
    <2>1. CASE Enqueue
      BY <2>1, FateFrame DEF Enqueue
    <2>2. CASE EnqueueSize
      BY <2>2, FateFrame DEF EnqueueSize
    <2>3. CASE EnqueueEmpty
      BY <2>3, FateFrame DEF EnqueueEmpty
    <2>4. CASE EnqueuePurge
      <3>1. /\ mExportQueue # <<>> /\ mExportQueue' = Tail(mExportQueue)
            /\ purged' = purged \cup {Head(mExportQueue)}
            /\ UNCHANGED <<nextPick, sent, lost, refused, inHand>>
        BY <2>4 DEF EnqueuePurge
      <3> QED
        <4> DEFINE from == "waiting"
                   to == "purged"
                   p == Head(mExportQueue)
        <4>1. p \in Fates[from] /\ Fates'[from] = Fates[from] \ {p}
          BY <3>1, HeadLeaves, FatesAre, FatesWillBe DEF InHand
        <4>2. Fates'[to] = Fates[to] \cup {p}
          BY <3>1, HeadLeaves, FatesAre, FatesWillBe DEF InHand
        <4>3. \A a \in FateNames \ {from, to} : Fates'[a] = Fates[a]
          <5>1. UNCHANGED InHand /\ Range(sent)' = Range(sent)
            BY <3>1, HeadLeaves DEF Range, InHand
          <5> QED
            BY <3>1, HeadLeaves, <5>1, FatesAre, FatesWillBe DEF FateNames
        <4> QED
          BY <3>1, <4>1, <4>2, <4>3, FateMove DEF FateNames
    <2>5. CASE EnqueuePurgeFails
      BY <2>5, FateFrame DEF EnqueuePurgeFails
    <2>6. CASE EnqueuePush
      <3>1. nextPick' = nextPick + 1 /\ UNCHANGED <<sent, inHand, purged, lost>>
        BY <2>6 DEF EnqueuePush
      <3>2. /\ nextPick \in Nat \ {0} /\ nextPick \notin Total(Fates)
            /\ 1 .. nextPick = (1 .. nextPick - 1) \cup {nextPick}
        <4>1. nextPick \in Nat \ {0}
          BY PublisherAssumption DEF PublisherAssumption, TypeOK
        <4> QED
          BY <4>1 DEF FateInv
      <3>3. CASE mExportQueue' = Append(mExportQueue, nextPick) /\ UNCHANGED refused
        <4>0. Range(mExportQueue)' = Range(mExportQueue) \cup {nextPick}
          <5>1. Range(mExportQueue') = Range(mExportQueue) \cup {nextPick}
            BY <3>3, PicksAreNumbers, ElementsOfAppend
          <5> QED
            BY <5>1 DEF Range
        <4>1. Fates'["waiting"] = Fates["waiting"] \cup {nextPick}
          BY <3>3, <4>0, FatesAre, FatesWillBe
        <4>2. \A a \in FateNames \ {"waiting"} : Fates'[a] = Fates[a]
          <5>1. UNCHANGED InHand /\ Range(sent)' = Range(sent)
            BY <3>1, <3>3, <4>0 DEF Range, InHand
          <5> QED
            BY <3>1, <3>3, <4>0, <5>1, FatesAre, FatesWillBe DEF FateNames
        <4>3. "waiting" \in FateNames /\ Disjoint(Fates)
          BY DEF FateNames, FateInv
        <4>4. Disjoint(Fates') /\ Total(Fates') = Total(Fates) \cup {nextPick}
          BY <3>2, <4>1, <4>2, <4>3, FatesAre, FatesWillBe, TakeIn
        <4> QED
          BY <3>1, <3>2, <4>4 DEF FateInv
      <3>4. CASE refused' = refused \cup {nextPick} /\ UNCHANGED mExportQueue
        <4>1. Fates'["refused"] = Fates["refused"] \cup {nextPick}
          BY <3>4, FatesAre, FatesWillBe
        <4>2. \A a \in FateNames \ {"refused"} : Fates'[a] = Fates[a]
          <5>1. /\ UNCHANGED InHand /\ Range(sent)' = Range(sent)
                /\ Range(mExportQueue)' = Range(mExportQueue)
            BY <3>1, <3>4 DEF Range, InHand
          <5> QED
            BY <3>1, <3>4, <5>1, FatesAre, FatesWillBe DEF FateNames
        <4>3. "refused" \in FateNames /\ Disjoint(Fates)
          BY DEF FateNames, FateInv
        <4>4. Disjoint(Fates') /\ Total(Fates') = Total(Fates) \cup {nextPick}
          BY <3>2, <4>1, <4>2, <4>3, FatesAre, FatesWillBe, TakeIn
        <4> QED
          BY <3>1, <3>2, <4>4 DEF FateInv
      <3> QED
        BY <2>6, <3>3, <3>4 DEF EnqueuePush
    <2> QED
      BY <1>2, <2>1, <2>2, <2>3, <2>4, <2>5, <2>6 DEF EnqueueNext
  <1>3. CASE PublishNext
    <2>1. CASE Reconnect
      BY <2>1, FateFrame DEF Reconnect
    <2>2. CASE WaitTimesOut
      BY <2>2, FateFrame DEF WaitTimesOut
    <2>3. CASE WaitIsNotified
      BY <2>3, FateFrame DEF WaitIsNotified, WaitTimesOut
    <2>4. CASE Woken
      BY <2>4, FateFrame DEF Woken
    <2>5. CASE Open
      BY <2>5, FateFrame DEF Open
    <2>6. CASE TestKeepRunning
      BY <2>6, FateFrame DEF TestKeepRunning
    <2>7. CASE PopPick
      <3>1. /\ mExportQueue # <<>> /\ mExportQueue' = Tail(mExportQueue)
            /\ inHand' = Head(mExportQueue)
            /\ UNCHANGED <<nextPick, sent, lost, refused, purged>>
        BY <2>7 DEF PopPick
      <3>2. inHand = NoPick /\ Head(mExportQueue) # NoPick
        <4>1. Head(mExportQueue) \in Picks
          BY <3>1 DEF TypeOK
        <4> QED
          BY <2>7, <4>1 DEF PopPick, ControlInv, NoPick, Picks
      <3> QED
        <4> DEFINE from == "waiting"
                   to == "inHand"
                   p == Head(mExportQueue)
        <4>1. p \in Fates[from] /\ Fates'[from] = Fates[from] \ {p}
          BY <3>1, <3>2, HeadLeaves, FatesAre, FatesWillBe DEF InHand
        <4>2. Fates'[to] = Fates[to] \cup {p}
          BY <3>1, <3>2, HeadLeaves, FatesAre, FatesWillBe DEF InHand
        <4>3. \A a \in FateNames \ {from, to} : Fates'[a] = Fates[a]
          <5>1. Range(sent)' = Range(sent)
            BY <3>1, <3>2, HeadLeaves DEF Range, InHand
          <5> QED
            BY <3>1, <3>2, HeadLeaves, <5>1, FatesAre, FatesWillBe DEF FateNames
        <4> QED
          BY <3>1, <4>1, <4>2, <4>3, FateMove DEF FateNames
    <2>8. ASSUME NEW ready \in BOOLEAN, FindEmpty(ready)
          PROVE  FateInv'
      BY <2>8, FateFrame DEF FindEmpty
    <2>9. CASE WriteSucceeds
      <3>1. /\ sent' = Append(sent, inHand) /\ inHand' = NoPick
            /\ UNCHANGED <<mExportQueue, nextPick, purged, lost, refused>>
        BY <2>9 DEF WriteSucceeds
      <3>2. inHand # NoPick /\ Range(sent)' = Range(sent) \cup {inHand}
        <4>1. Range(sent') = Range(sent) \cup {inHand}
          BY <3>1, PicksAreNumbers, ElementsOfAppend
        <4> QED
          BY <2>9, <4>1 DEF WriteSucceeds, ControlInv, Range
      <3> QED
        <4> DEFINE from == "inHand"
                   to == "sent"
                   p == inHand
        <4>1. p \in Fates[from] /\ Fates'[from] = Fates[from] \ {p}
          BY <3>1, <3>2, FatesAre, FatesWillBe DEF InHand
        <4>2. Fates'[to] = Fates[to] \cup {p}
          BY <3>1, <3>2, FatesAre, FatesWillBe DEF InHand
        <4>3. \A a \in FateNames \ {from, to} : Fates'[a] = Fates[a]
          <5>1. Range(mExportQueue)' = Range(mExportQueue)
            BY <3>1, <3>2 DEF Range, InHand
          <5> QED
            BY <3>1, <3>2, <5>1, FatesAre, FatesWillBe DEF FateNames
        <4> QED
          BY <3>1, <4>1, <4>2, <4>3, FateMove DEF FateNames
    <2>10. CASE WriteFails
      <3>1. /\ lost' = lost \cup {inHand} /\ inHand' = NoPick
            /\ UNCHANGED <<mExportQueue, nextPick, purged, sent, refused>>
        BY <2>10 DEF WriteFails
      <3>2. inHand # NoPick
        BY <2>10 DEF WriteFails, ControlInv
      <3> QED
        <4> DEFINE from == "inHand"
                   to == "lost"
                   p == inHand
        <4>1. p \in Fates[from] /\ Fates'[from] = Fates[from] \ {p}
          BY <3>1, <3>2, FatesAre, FatesWillBe DEF InHand
        <4>2. Fates'[to] = Fates[to] \cup {p}
          BY <3>1, <3>2, FatesAre, FatesWillBe DEF InHand
        <4>3. \A a \in FateNames \ {from, to} : Fates'[a] = Fates[a]
          <5>1. Range(mExportQueue)' = Range(mExportQueue)
            BY <3>1, <3>2 DEF Range, InHand
          <5> QED
            BY <3>1, <3>2, <5>1, FatesAre, FatesWillBe DEF FateNames
        <4> QED
          BY <3>1, <4>1, <4>2, <4>3, FateMove DEF FateNames
    <2>11. ASSUME NEW status \in Statuses, Finish(status)
          PROVE  FateInv'
      BY <2>11, FateFrame DEF Finish
    <2>12. CASE Exit
      BY <2>12, FateFrame DEF Exit
    <2> QED
      BY <1>3, <2>1, <2>2, <2>3, <2>4, <2>5, <2>6, <2>7, <2>8,
         <2>9, <2>10, <2>11, <2>12
         DEF PublishNext
  <1>4. CASE StopNext
    <2>1. CASE Stop
      BY <2>1, FateFrame DEF Stop
    <2>2. CASE StopRequestsShutdown
      BY <2>2, FateFrame DEF StopRequestsShutdown
    <2> QED
      BY <1>4, <2>1, <2>2 DEF StopNext
  <1>5. CASE UNCHANGED vars
    BY <1>5, FateFrame DEF vars
  <1> QED
    BY <1>1, <1>2, <1>3, <1>4, <1>5 DEF Next

\* Every pick enqueued is waiting, being written, sent, purged, lost or
\* refused, and only one of these.
THEOREM PicksAreAccountedFor == Spec => []EveryPickAccountedFor
  <1>1. FateInv => EveryPickAccountedFor
    BY DEF FateInv, Disjoint, Total, EveryPickAccountedFor
  <1> QED
    BY <1>1, OrderHolds, FateInit, FateStep, PTL DEF Spec

---------------------------------------------------------------------------
(* The publisher as a worker.                                              *)

\* The state of the thread as NetworkDetector sees it.
WorkerThread ==
    IF Stopped \/ publishPc = "unstarted" THEN publishPc ELSE "running"
WorkerStep == [Lifecycle!Next]_<<mKeepRunning, WorkerThread>>

\* Only a publisher that was started is stopped.
StopInv == publishPc = "unstarted" => stopPc = "before"

\* A step within the loop is none of the worker's.
LEMMA WorkerFrame ==
  ASSUME UNCHANGED mKeepRunning,
         \/ UNCHANGED publishPc
         \/ {publishPc, publishPc'} \cap {"unstarted", "ended", "threw"} = {}
  PROVE  WorkerStep
  BY DEF WorkerStep, WorkerThread, Stopped

\* Every step of the publisher is one of the worker, or none.
LEMMA WorkerNext == StopInv /\ [Next]_vars => StopInv' /\ WorkerStep
  <1> SUFFICES ASSUME StopInv, [Next]_vars PROVE StopInv' /\ WorkerStep
    OBVIOUS
  <1> USE DEF StopInv, queueVars, sessionVars, workerVars, stopVars
  <1>1. CASE Start
    BY <1>1 DEF Start, WorkerStep, WorkerThread, Stopped, Lifecycle!Next, Lifecycle!Start
  <1>2. CASE EnqueueNext
    BY <1>2, WorkerFrame
       DEF EnqueueNext, Enqueue, EnqueueSize, EnqueueEmpty, EnqueuePurge, EnqueuePurgeFails,
           EnqueuePush
  <1>3. CASE PublishNext
    <2>1. CASE Reconnect
      BY <2>1, WorkerFrame DEF Reconnect
    <2>2. CASE WaitTimesOut
      BY <2>2, WorkerFrame DEF WaitTimesOut
    <2>3. CASE WaitIsNotified
      BY <2>3, WorkerFrame DEF WaitIsNotified, WaitTimesOut
    <2>4. CASE Woken
      BY <2>4, WorkerFrame DEF Woken
    <2>5. CASE Open
      BY <2>5, WorkerFrame DEF Open
    <2>6. CASE TestKeepRunning
      BY <2>6, WorkerFrame DEF TestKeepRunning
    <2>7. CASE PopPick
      BY <2>7, WorkerFrame DEF PopPick
    <2>8. ASSUME NEW ready \in BOOLEAN, FindEmpty(ready)
          PROVE  StopInv' /\ WorkerStep
      BY <2>8, WorkerFrame DEF FindEmpty
    <2>9. CASE WriteSucceeds
      BY <2>9, WorkerFrame DEF WriteSucceeds
    <2>10. CASE WriteFails
      BY <2>10, WorkerFrame DEF WriteFails
    <2>11. ASSUME NEW status \in Statuses, Finish(status)
          PROVE  StopInv' /\ WorkerStep
      BY <2>11, WorkerFrame DEF Finish
    <2>12. CASE Exit
      BY <2>12 DEF Exit, WorkerStep, WorkerThread, Stopped, Lifecycle!Next, Lifecycle!End,
                  Lifecycle!EndPrematurely
    <2> QED
      BY <1>3, <2>1, <2>2, <2>3, <2>4, <2>5, <2>6, <2>7, <2>8,
         <2>9, <2>10, <2>11, <2>12
         DEF PublishNext
  <1>4. CASE StopNext
    <2>1. CASE Stop
      BY <2>1 DEF Stop, WorkerStep, WorkerThread, Stopped, Lifecycle!Next, Lifecycle!Stop
    <2>2. CASE StopRequestsShutdown
      BY <2>2, WorkerFrame DEF StopRequestsShutdown
    <2> QED
      BY <1>4, <2>1, <2>2 DEF StopNext
  <1>5. CASE UNCHANGED vars
    BY <1>5, WorkerFrame DEF vars
  <1> QED
    BY <1>1, <1>2, <1>3, <1>4, <1>5 DEF Next

\* The publisher does what NetworkDetector relies on in any worker, but for the
\* fairness: its thread is started once, ends only when it was told to, and
\* throws only when it was not.
THEOREM RunsAsWorkerSafely == Spec => Lifecycle!Safety
  <1>1. Init => Lifecycle!Init /\ StopInv
    BY DEF Init, Lifecycle!Init, Stopped, StopInv
  <1>2. StopInv /\ [Next]_vars => [Lifecycle!Next]_<<mKeepRunning, WorkerThread>>
    BY WorkerNext DEF WorkerStep
  <1>3. Spec => Lifecycle!Init /\ [][Lifecycle!Next]_<<mKeepRunning, WorkerThread>>
    BY <1>1, <1>2, WorkerNext, PTL DEF Spec
  <1> QED
    BY <1>3 DEF Lifecycle!Safety, WorkerThread

---------------------------------------------------------------------------
(* Both threads come to an end of what they do.  That they take their      *)
(* steps, and that the calls of gRPC among them return, is fairness or an  *)
(* assumption and not proved here; that the steps lead there is.           *)

\* How many steps the publisher's thread can still take once mKeepRunning is
\* cleared.
PublishStepsLeft ==
    CASE publishPc \in {"unstarted", "ended", "threw"} -> 0
      [] publishPc = "exit" -> 1
      [] publishPc \in {"reconnect", "woken"} -> 2
      [] publishPc \in {"wait", "finish"} -> 3
      [] publishPc = "running" -> 4
      [] publishPc \in {"open", "write"} -> 5
      [] publishPc = "pop" -> 6

\* Only stop clears mKeepRunning.
StoppedInv == ~mKeepRunning => stopPc # "before"

LEMMA StoppedStep == StoppedInv /\ [Next]_vars => StoppedInv'
  <1> SUFFICES ASSUME StoppedInv, [Next]_vars PROVE StoppedInv'
    OBVIOUS
  <1> USE DEF StoppedInv, stopVars
  <1>1. CASE Start
    BY <1>1 DEF Start
  <1>2. CASE EnqueueNext
    BY <1>2 DEF EnqueueNext, Enqueue, EnqueueSize, EnqueueEmpty, EnqueuePurge,
                EnqueuePurgeFails, EnqueuePush
  <1>3. CASE PublishNext
    BY <1>3 DEF PublishNext, Reconnect, WaitTimesOut, WaitIsNotified, Woken, Open,
                TestKeepRunning, PopPick, FindEmpty, WriteSucceeds, WriteFails, Finish, Exit
  <1>4. CASE StopNext
    BY <1>4 DEF StopNext, Stop, StopRequestsShutdown
  <1>5. CASE UNCHANGED vars
    BY <1>5 DEF vars
  <1> QED
    BY <1>1, <1>2, <1>3, <1>4, <1>5 DEF Next

\* A step of the publisher's thread that finds mKeepRunning cleared.
LEMMA PublishStepsAreLeft ==
  ASSUME TypeOK, PublishNext, ~mKeepRunning
  PROVE  PublishStepsLeft' < PublishStepsLeft /\ ~mKeepRunning'
  <1> USE DEF PublishStepsLeft, stopVars
  <1>1. CASE Reconnect
    BY <1>1 DEF Reconnect
  <1>2. CASE WaitTimesOut
    BY <1>2 DEF WaitTimesOut
  <1>3. CASE WaitIsNotified
    BY <1>3 DEF WaitIsNotified, WaitTimesOut
  <1>4. CASE Woken
    BY <1>4 DEF Woken
  <1>5. CASE Open
    BY <1>5 DEF Open
  <1>6. CASE TestKeepRunning
    BY <1>6 DEF TestKeepRunning
  <1>7. CASE PopPick
    BY <1>7 DEF PopPick
  <1>8. ASSUME NEW ready \in BOOLEAN, FindEmpty(ready)
        PROVE  PublishStepsLeft' < PublishStepsLeft /\ ~mKeepRunning'
    BY <1>8 DEF FindEmpty
  <1>9. CASE WriteSucceeds
    BY <1>9 DEF WriteSucceeds
  <1>10. CASE WriteFails
    BY <1>10 DEF WriteFails
  <1>11. ASSUME NEW status \in Statuses, Finish(status)
         PROVE  PublishStepsLeft' < PublishStepsLeft /\ ~mKeepRunning'
    BY <1>11 DEF Finish
  <1>12. CASE Exit
    BY <1>12 DEF Exit
  <1> QED
    BY <1>1, <1>2, <1>3, <1>4, <1>5, <1>6, <1>7, <1>8, <1>9, <1>10, <1>11, <1>12
       DEF PublishNext

\* Once mKeepRunning is cleared the publisher's thread is within six of its own
\* steps of its end, and nobody adds to them: no pick still queued, no stream
\* that breaks and no place in the reconnection schedule (publisher.cpp:302-388).
\* Up to two of the steps are calls of gRPC, which take as long as the broker.
THEOREM StopEndsTheThread ==
    Spec => [][~mKeepRunning =>
                  /\ ~mKeepRunning' /\ PublishStepsLeft' \in 0 .. 6
                  /\ PublishNext => PublishStepsLeft' < PublishStepsLeft
                  /\ ~PublishNext => PublishStepsLeft' = PublishStepsLeft]_vars
  <1> DEFINE Ends ==
        ~mKeepRunning =>
            /\ ~mKeepRunning' /\ PublishStepsLeft' \in 0 .. 6
            /\ PublishNext => PublishStepsLeft' < PublishStepsLeft
            /\ ~PublishNext => PublishStepsLeft' = PublishStepsLeft
  <1>1. ASSUME TypeOK, TypeOK', StopInv, StoppedInv, Next, ~mKeepRunning
        PROVE  Ends
    <2>1. PublishStepsLeft' \in 0 .. 6
      BY <1>1 DEF TypeOK, PublishStepsLeft
    <2>2. CASE PublishNext
      BY <1>1, <2>1, <2>2, PublishStepsAreLeft
    <2>3. CASE ~PublishNext
      <3>1. ~Start
        BY <1>1 DEF StopInv, StoppedInv, Start
      <3>2. CASE EnqueueNext
        BY <1>1, <2>1, <2>3, <3>2
           DEF EnqueueNext, Enqueue, EnqueueSize, EnqueueEmpty, EnqueuePurge,
               EnqueuePurgeFails, EnqueuePush, workerVars, stopVars, PublishStepsLeft
      <3>3. CASE StopNext
        BY <1>1, <2>1, <2>3, <3>3 DEF StopNext, Stop, StopRequestsShutdown, workerVars,
                                      PublishStepsLeft
      <3> QED
        BY <1>1, <2>3, <3>1, <3>2, <3>3 DEF Next
    <2> QED
      BY <2>2, <2>3
  <1>2. TypeOK /\ TypeOK' /\ StopInv /\ StoppedInv /\ [Next]_vars => [Ends]_vars
    BY <1>1
  <1>3. Init => StopInv /\ StoppedInv
    BY DEF Init, StopInv, StoppedInv
  <1>4. StoppedInv /\ [Next]_vars => StoppedInv'
    BY StoppedStep
  <1> HIDE DEF Ends
  <1>5. Spec => [][Ends]_vars
    BY <1>2, <1>3, <1>4, TypesHold, WorkerNext, PTL DEF Spec
  <1> QED
    BY <1>5 DEF Ends

\* How many steps the thread in enqueue can still take before it returns.
EnqueueStepsLeft ==
    CASE enqueuePc = "outside" -> 0
      [] enqueuePc = "push"    -> 1
      [] enqueuePc = "pop"     -> 3 * Len(mExportQueue) + 2
      [] enqueuePc = "empty"   -> 3 * Len(mExportQueue) + 3
      [] enqueuePc = "size"    -> 3 * Len(mExportQueue) + 4

\* A call of enqueue that has begun comes back, although the loop in which it
\* purges has no bound of its own: each step brings it nearer its return, and
\* what the publisher's thread pops in between can only shorten the loop
\* (publisher.cpp:271-292).
THEOREM EnqueueComesBack ==
    Spec => [][enqueuePc # "outside" =>
                  /\ EnqueueStepsLeft' \in Nat
                  /\ EnqueueNext => EnqueueStepsLeft' < EnqueueStepsLeft
                  /\ ~EnqueueNext => EnqueueStepsLeft' <= EnqueueStepsLeft]_vars
  <1> DEFINE ComesBack ==
        enqueuePc # "outside" =>
            /\ EnqueueStepsLeft' \in Nat
            /\ EnqueueNext => EnqueueStepsLeft' < EnqueueStepsLeft
            /\ ~EnqueueNext => EnqueueStepsLeft' <= EnqueueStepsLeft
  <1>1. ASSUME TypeOK, TypeOK', Next, enqueuePc # "outside"
        PROVE  ComesBack
    <2>1. Len(mExportQueue) \in Nat /\ Len(mExportQueue') \in Nat
      BY <1>1 DEF TypeOK
    <2>2. enqueuePc \in {"size", "empty", "pop", "push"}
          /\ enqueuePc' \in {"outside", "size", "empty", "pop", "push"}
      BY <1>1 DEF TypeOK
    <2>3. EnqueueStepsLeft \in Nat /\ EnqueueStepsLeft' \in Nat
      BY <2>1, <2>2 DEF EnqueueStepsLeft
    <2>4. CASE EnqueueNext
      <3>1. CASE Enqueue
        BY <1>1, <3>1 DEF Enqueue
      <3>2. CASE EnqueueSize
        BY <2>1, <2>3, <2>4, <3>2 DEF EnqueueSize, EnqueueStepsLeft
      <3>3. CASE EnqueueEmpty
        BY <2>1, <2>3, <2>4, <3>3 DEF EnqueueEmpty, EnqueueStepsLeft
      <3>4. CASE EnqueuePurge
        <4>1. Len(mExportQueue') = Len(mExportQueue) - 1
          BY <1>1, <3>4, TailIsShorter DEF EnqueuePurge, TypeOK
        <4> QED
          BY <2>1, <2>3, <2>4, <3>4, <4>1 DEF EnqueuePurge, EnqueueStepsLeft
      <3>5. CASE EnqueuePurgeFails
        BY <2>1, <2>3, <2>4, <3>5 DEF EnqueuePurgeFails, EnqueueStepsLeft
      <3>6. CASE EnqueuePush
        BY <2>1, <2>3, <2>4, <3>6 DEF EnqueuePush, EnqueueStepsLeft
      <3> QED
        BY <2>4, <3>1, <3>2, <3>3, <3>4, <3>5, <3>6 DEF EnqueueNext
    <2>5. CASE ~EnqueueNext
      <3>1. enqueuePc' = enqueuePc /\ Len(mExportQueue') <= Len(mExportQueue)
        <4>1. CASE PopPick
          BY <1>1, <2>1, <4>1, TailIsShorter DEF PopPick, queueVars, TypeOK
        <4>2. CASE ~PopPick
          <5>1. UNCHANGED <<mExportQueue, queueVars>>
            BY <1>1, <2>5, <4>2
               DEF Next, Start, PublishNext, Reconnect, WaitTimesOut, WaitIsNotified, Woken,
                   Open, TestKeepRunning, FindEmpty, WriteSucceeds, WriteFails, Finish, Exit,
                   StopNext, Stop, StopRequestsShutdown
          <5> QED
            BY <2>1, <5>1 DEF queueVars
        <4> QED
          BY <4>1, <4>2
      <3> QED
        BY <2>1, <2>2, <2>3, <2>5, <3>1 DEF EnqueueStepsLeft
    <2> QED
      BY <2>4, <2>5
  <1>2. TypeOK /\ TypeOK' /\ [Next]_vars => [ComesBack]_vars
    BY <1>1
  <1> HIDE DEF ComesBack
  <1>3. Spec => [][ComesBack]_vars
    BY <1>2, TypesHold, PTL DEF Spec
  <1> QED
    BY <1>3 DEF ComesBack

\* How many steps the publisher's thread can take, while there is a pick to pop
\* and mKeepRunning is set, before it pops it or ends.
PopStepsLeft ==
    CASE publishPc \in {"ended", "threw"} -> 0
      [] publishPc \in {"pop", "exit"} -> 1
      [] publishPc = "running"   -> 2
      [] publishPc = "open"      -> 3
      [] publishPc = "woken"     -> 4
      [] publishPc = "wait"      -> 5
      [] publishPc = "reconnect" -> 6
      [] publishPc = "finish"    -> 7
      [] publishPc = "write"     -> 8
      [] publishPc = "unstarted" -> 9

\* What a step does to the i-th pick of the queue: pop it, or one before it, ...
Popped(i) ==
    \/ i = 1 /\ Head(mExportQueue) \in purged' \cup {inHand'}
    \/ i > 1 /\ i - 1 \in 1 .. Len(mExportQueue')
             /\ mExportQueue'[i - 1] = mExportQueue[i]

\* ... or leave it where it is.
StaysInPlace(i) == i \in 1 .. Len(mExportQueue') /\ mExportQueue'[i] = mExportQueue[i]

\* A pop takes the first pick and moves the others up.
LEMMA PopMovesUp ==
  ASSUME TypeOK, NEW i \in 1 .. Len(mExportQueue), mExportQueue # <<>>,
         mExportQueue' = Tail(mExportQueue),
         Head(mExportQueue) \in purged' \cup {inHand'}
  PROVE  Popped(i)
  <1>1. mExportQueue \in Seq(Picks)
    BY DEF TypeOK
  <1>2. CASE i = 1
    BY <1>2 DEF Popped
  <1>3. CASE i # 1
    <2>1. i - 1 \in 1 .. Len(mExportQueue') /\ mExportQueue'[i - 1] = mExportQueue[i]
      BY <1>1, <1>3
    <2>2. i > 1
      BY <1>1, <1>3
    <2> QED
      BY <2>1, <2>2 DEF Popped
  <1> QED
    BY <1>2, <1>3

\* A pick in the queue is on its way out, however the streams break and fail:
\* while mKeepRunning is set each step of the publisher's thread pops a pick that
\* is not behind it, or brings the thread nearer its next pop or its end, and no
\* step of another thread puts it back.  A step may be a call of gRPC, which need
\* not return (publisher.cpp:176-224, 297-388).  Once
\* mKeepRunning is cleared the thread is on its way to its end instead.
THEOREM PicksAreOnTheirWay ==
    Spec => [][mKeepRunning => \A i \in 1 .. Len(mExportQueue) :
                  /\ Popped(i) \/ StaysInPlace(i)
                  /\ PopStepsLeft \in 0 .. 9
                  /\ PublishNext => Popped(i) \/ PopStepsLeft' < PopStepsLeft
                  /\ ~PublishNext => Popped(i) \/ PopStepsLeft' <= PopStepsLeft]_vars
  <1> DEFINE OnTheWay(i) ==
        /\ Popped(i) \/ StaysInPlace(i)
        /\ PopStepsLeft \in 0 .. 9
        /\ PublishNext => Popped(i) \/ PopStepsLeft' < PopStepsLeft
        /\ ~PublishNext => Popped(i) \/ PopStepsLeft' <= PopStepsLeft
  <1>1. ASSUME TypeOK, TypeOK', Next, mKeepRunning, NEW i \in 1 .. Len(mExportQueue)
        PROVE  OnTheWay(i)
    <2>1. /\ mExportQueue \in Seq(Picks) /\ mExportQueue # <<>>
          /\ UNCHANGED mExportQueue => StaysInPlace(i)
      BY <1>1 DEF TypeOK, StaysInPlace
    <2>2. PopStepsLeft \in 0 .. 9
      BY <1>1 DEF TypeOK, PopStepsLeft
    <2>3. CASE PublishNext
      <3> USE DEF PopStepsLeft
      <3>1. CASE PopPick
        <4>1. Popped(i)
          BY <1>1, <3>1, PopMovesUp DEF PopPick
        <4> QED
          BY <2>2, <2>3, <4>1
      <3>2. CASE ~PopPick
        <4>1. UNCHANGED mExportQueue /\ PopStepsLeft' < PopStepsLeft
          <5>1. CASE Reconnect
            BY <1>1, <5>1 DEF Reconnect
          <5>2. CASE WaitTimesOut \/ WaitIsNotified
            BY <1>1, <5>2 DEF WaitIsNotified, WaitTimesOut
          <5>3. CASE Woken
            BY <1>1, <5>3 DEF Woken
          <5>4. CASE Open
            BY <1>1, <5>4 DEF Open
          <5>5. CASE TestKeepRunning
            BY <1>1, <5>5 DEF TestKeepRunning
          <5>6. ASSUME NEW ready \in BOOLEAN, FindEmpty(ready)
                PROVE  FALSE
            BY <2>1, <5>6 DEF FindEmpty
          <5>7. CASE WriteSucceeds \/ WriteFails
            BY <1>1, <5>7 DEF WriteSucceeds, WriteFails
          <5>8. ASSUME NEW status \in Statuses, Finish(status)
                PROVE  UNCHANGED mExportQueue /\ PopStepsLeft' < PopStepsLeft
            BY <1>1, <5>8 DEF Finish
          <5>9. CASE Exit
            BY <1>1, <5>9 DEF Exit
          <5> QED
            BY <2>3, <3>2, <5>1, <5>2, <5>3, <5>4, <5>5, <5>6, <5>7, <5>8, <5>9
               DEF PublishNext
        <4> QED
          BY <2>1, <2>2, <2>3, <4>1
      <3> QED
        BY <3>1, <3>2
    <2>4. CASE ~PublishNext
      <3>1. CASE Start
        <4>1. UNCHANGED mExportQueue /\ PopStepsLeft' <= PopStepsLeft
          BY <3>1 DEF Start, PopStepsLeft
        <4> QED
          BY <2>1, <2>2, <2>4, <4>1
      <3>2. CASE EnqueueNext \/ StopNext
        <4>1. UNCHANGED publishPc /\ PopStepsLeft' <= PopStepsLeft
          <5>1. UNCHANGED publishPc
            BY <3>2
               DEF EnqueueNext, Enqueue, EnqueueSize, EnqueueEmpty, EnqueuePurge,
                   EnqueuePurgeFails, EnqueuePush, StopNext, Stop, StopRequestsShutdown,
                   workerVars
          <5>2. PopStepsLeft' = PopStepsLeft
            BY <5>1 DEF PopStepsLeft
          <5>3. PopStepsLeft' <= PopStepsLeft
            BY <2>2, <5>2
          <5> QED
            BY <5>1, <5>3
        <4>2. Popped(i) \/ StaysInPlace(i)
          <5>1. CASE EnqueuePurge
            BY <1>1, <5>1, PopMovesUp DEF EnqueuePurge
          <5>2. CASE EnqueuePush
            <6>1. nextPick \in Int
              BY <1>1 DEF TypeOK
            <6>2. /\ UNCHANGED mExportQueue
                     \/ mExportQueue' = Append(mExportQueue, nextPick)
              BY <5>2 DEF EnqueuePush
            <6>3. mExportQueue' = Append(mExportQueue, nextPick) => StaysInPlace(i)
              BY <2>1, <6>1 DEF StaysInPlace
            <6> QED
              BY <2>1, <6>2, <6>3
          <5>3. CASE ~EnqueuePurge /\ ~EnqueuePush
            <6>1. UNCHANGED mExportQueue
              BY <3>2, <5>3
                 DEF EnqueueNext, Enqueue, EnqueueSize, EnqueueEmpty, EnqueuePurgeFails,
                     StopNext, Stop, StopRequestsShutdown
            <6> QED
              BY <2>1, <6>1
          <5> QED
            BY <5>1, <5>2, <5>3
        <4> QED
          BY <2>2, <2>4, <4>1, <4>2
      <3> QED
        BY <1>1, <2>4, <3>1, <3>2 DEF Next
    <2> QED
      BY <2>3, <2>4
  <1> HIDE DEF OnTheWay
  <1> DEFINE AllAreOnTheWay ==
        mKeepRunning => \A i \in 1 .. Len(mExportQueue) : OnTheWay(i)
  <1>2. TypeOK /\ TypeOK' /\ [Next]_vars => [AllAreOnTheWay]_vars
    BY <1>1
  <1> HIDE DEF AllAreOnTheWay
  <1>3. Spec => [][AllAreOnTheWay]_vars
    BY <1>2, TypesHold, PTL DEF Spec
  <1> QED
    BY <1>3 DEF AllAreOnTheWay, OnTheWay
=============================================================================
