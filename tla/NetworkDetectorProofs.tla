----------------------- MODULE NetworkDetectorProofs -----------------------
(***************************************************************************)
(* Proofs about NetworkDetector, for every size of the import queue, every *)
(* number of packets and of picks.                                         *)
(***************************************************************************)
EXTENDS NetworkDetector, SequenceTheorems, TLAPS

---------------------------------------------------------------------------
(* What the operations of a queue do to the items it holds.                *)

\* What a pop leaves of a sequence.
LEMMA TailIsShorter ==
  ASSUME NEW S, NEW q \in Seq(S), q # <<>>
  PROVE  Tail(q) \in Seq(S) /\ Len(Tail(q)) = Len(q) - 1 /\ Len(q) \in Nat \ {0}
OBVIOUS

\* The empty sequence has no elements and is in order.
LEMMA EmptySequence == Len(<<>>) = 0 /\ Range(<<>>) = {} /\ Ascending(<<>>)
<1>1. Len(<<>>) = 0
  OBVIOUS
<1>. QED
  BY <1>1 DEF Range, Ascending

\* What a pop does to the elements of an ascending sequence.
LEMMA ElementsOfTail ==
  ASSUME NEW q \in Seq(Int), q # <<>>, Ascending(q)
  PROVE  /\ Ascending(Tail(q))
         /\ Range(q) = {Head(q)} \cup Range(Tail(q))
         /\ \A item \in Range(Tail(q)) : Head(q) < item
<1>1. /\ Len(q) \in Nat \ {0} /\ Len(Tail(q)) = Len(q) - 1 /\ Head(q) = q[1]
      /\ \A i \in 1 .. Len(q) - 1 : i + 1 \in 1 .. Len(q) /\ Tail(q)[i] = q[i + 1]
      /\ \A i \in 1 .. Len(q) :
            i = 1 \/ (i - 1 \in 1 .. Len(q) - 1 /\ q[i] = Tail(q)[i - 1])
      /\ DOMAIN q = 1 .. Len(q) /\ DOMAIN Tail(q) = 1 .. Len(q) - 1
  OBVIOUS
<1>2. Range(q) = {Head(q)} \cup Range(Tail(q))
  <2>1. /\ Range(q) = {q[i] : i \in 1 .. Len(q)}
        /\ Range(Tail(q)) = {Tail(q)[i] : i \in 1 .. Len(q) - 1}
    BY <1>1 DEF Range
  <2>2. ASSUME NEW i \in 1 .. Len(q)
        PROVE  q[i] \in {Head(q)} \cup Range(Tail(q))
    BY <1>1, <2>1
  <2>3. 1 \in 1 .. Len(q)
    BY <1>1
  <2>4. {Head(q)} \cup Range(Tail(q)) \subseteq Range(q)
    BY <1>1, <2>1, <2>3
  <2>. QED
    BY <2>1, <2>2, <2>4
<1>3. Ascending(Tail(q)) /\ \A i \in 1 .. Len(q) - 1 : Head(q) < Tail(q)[i]
  <2>1. ASSUME NEW i \in 1 .. Len(q) - 1, NEW j \in 1 .. i - 1
        PROVE  Tail(q)[j] < Tail(q)[i]
    <3>1. i + 1 \in DOMAIN q /\ j + 1 \in 1 .. (i + 1) - 1 /\ j \in 1 .. Len(q) - 1
      BY <1>1, <2>1
    <3>. QED
      BY <1>1, <3>1 DEF Ascending
  <2>2. ASSUME NEW i \in 1 .. Len(q) - 1
        PROVE  Head(q) < Tail(q)[i]
    <3>1. i + 1 \in DOMAIN q /\ 1 \in 1 .. (i + 1) - 1
      BY <1>1
    <3>. QED
      BY <1>1, <3>1 DEF Ascending
  <2>. QED
    BY <1>1, <2>1, <2>2 DEF Ascending
<1>. QED
  BY <1>1, <1>2, <1>3 DEF Range

\* What an append does to them.
LEMMA ElementsOfAppend ==
  ASSUME NEW s \in Seq(Int), NEW new \in Int
  PROVE  /\ Range(Append(s, new)) = Range(s) \cup {new}
         /\ Ascending(s) /\ (\A item \in Range(s) : item < new)
                => Ascending(Append(s, new))
<1>1. /\ Len(s) \in Nat /\ Len(Append(s, new)) = Len(s) + 1
      /\ Append(s, new)[Len(s) + 1] = new
      /\ \A i \in 1 .. Len(s) : Append(s, new)[i] = s[i]
      /\ 1 .. Len(s) + 1 = 1 .. Len(s) \cup {Len(s) + 1}
  OBVIOUS
<1>2. Range(Append(s, new)) = Range(s) \cup {new}
  BY <1>1 DEF Range
<1>3. (\A item \in Range(s) : item < new) => \A i \in 1 .. Len(s) : s[i] < new
  BY DEF Range
<1>. QED
  BY <1>1, <1>2, <1>3 DEF Ascending

---------------------------------------------------------------------------
(* Which threads have been started.                                        *)

SettingUp == {"options", "logger", "metrics", "detector", "startPublisher"}
Leaving == {"leave", "gone"}

\* The threads are started one after the other, on the way to the loop.
PhaseInv ==
    /\ mainPc \in SettingUp => pubThread = "unstarted"
    /\ mainPc \in SettingUp \cup {"startSubscriber"} => subThread = "unstarted"
    /\ BeforeLoop => dataPc = "unstarted"
    /\ mainPc \notin SettingUp \cup Leaving => pubThread # "unstarted"
    /\ mainPc \notin SettingUp \cup {"startSubscriber"} \cup Leaving =>
          subThread # "unstarted"
    /\ ~BeforeLoop /\ mainPc \notin Leaving => dataPc # "unstarted"

\* Nothing is started at first.
LEMMA PhaseInit == Init => PhaseInv
  BY DEF Init, Publisher!Init, Subscriber!Init, PhaseInv, SettingUp, Leaving, BeforeLoop

\* Every step keeps the order in which the threads are started.
LEMMA PhaseStep == PhaseInv /\ [Next]_vars => PhaseInv'
  <1> SUFFICES ASSUME PhaseInv, [Next]_vars PROVE PhaseInv'
    OBVIOUS
  <1> USE DEF PhaseInv, SettingUp, Leaving, BeforeLoop, pubVars, subVars, dataVars, Others,
              mainVars
  <1>1. CASE MainNext
    <2>1. CASE SetUp
      <3>1. CASE ReadOptions
        BY <3>1 DEF ReadOptions, Return
      <3>2. CASE InitializeLogger
        BY <3>2 DEF InitializeLogger, Return
      <3>3. CASE InitializeMetrics
        BY <3>3 DEF InitializeMetrics, Return
      <3>4. CASE Construct
        BY <3>4 DEF Construct, Return
      <3> QED
        BY <2>1, <3>1, <3>2, <3>3, <3>4 DEF SetUp
    <2>2. CASE StartPublisher
      BY <2>2 DEF StartPublisher, Publisher!Start
    <2>3. CASE StartSubscriber
      BY <2>3 DEF StartSubscriber, Subscriber!Start
    <2>4. CASE StartProcessing
      BY <2>4 DEF StartProcessing
    <2>5. CASE Watch
      BY <2>5 DEF Watch
    <2>6. CASE CheckFuturesOkay
      <3>1. CASE Check("check1", "publisher", "check2")
        BY <3>1 DEF Check
      <3>2. CASE Check("check2", "subscription", "check3")
        BY <3>2 DEF Check
      <3>3. CASE Check("check3", "processing", "check4")
        BY <3>3 DEF Check
      <3>4. CASE CheckLast
        BY <3>4 DEF CheckLast
      <3> QED
        BY <2>6, <3>1, <3>2, <3>3, <3>4 DEF CheckFuturesOkay
    <2>7. CASE StopProcessing
      BY <2>7 DEF StopProcessing
    <2>8. CASE StopSubscriber
      BY <2>8 DEF StopSubscriber, Subscriber!Stop
    <2>9. CASE StopPublisher
      BY <2>9 DEF StopPublisher, Publisher!Stop
    <2>10. CASE JoinThreads
      <3>1. CASE Get("get1", "processing", "get2")
        BY <3>1 DEF Get
      <3>2. CASE Get("get2", "subscription", "get3")
        BY <3>2 DEF Get
      <3>3. CASE Get("get3", "publisher", "cleanUp")
        BY <3>3 DEF Get
      <3> QED
        BY <2>10, <3>1, <3>2, <3>3 DEF JoinThreads
    <2>11. CASE CleanUp
      BY <2>11 DEF CleanUp
    <2>12. CASE Leave
      BY <2>12 DEF Leave
    <2> QED
      BY <1>1, <2>1, <2>2, <2>3, <2>4, <2>5, <2>6, <2>7, <2>8, <2>9, <2>10,
         <2>11, <2>12
         DEF MainNext
  <1>2. CASE Interrupt
    BY <1>2 DEF Interrupt
  <1>3. CASE CallbackNext
    <2>1. CASE GetPacket
      BY <2>1 DEF GetPacket
    <2>2. CASE GetPacketSize
      BY <2>2 DEF GetPacketSize
    <2>3. CASE GetPacketDrops
      BY <2>3 DEF GetPacketDrops
    <2>4. CASE GetPacketPushes
      BY <2>4 DEF GetPacketPushes
    <2> QED
      BY <1>3, <2>1, <2>2, <2>3, <2>4 DEF CallbackNext
  <1>4. CASE FilterNext
    <2>1. CASE FilterTest
      BY <2>1 DEF FilterTest
    <2>2. CASE FilterPop
      BY <2>2 DEF FilterPop
    <2>3. ASSUME NEW picks \in 0 .. MaxPicks, FilterApply(picks)
          PROVE  PhaseInv'
      BY <2>3 DEF FilterApply
    <2>4. CASE FilterEnqueue
      BY <2>4 DEF FilterEnqueue
    <2> QED
      BY <1>4, <2>1, <2>2, <2>3, <2>4 DEF FilterNext
  <1>5. CASE PublisherEnds
    BY <1>5 DEF PublisherEnds, Publisher!End,
         Publisher!EndPrematurely
  <1>6. CASE SubscriberEnds
    BY <1>6 DEF SubscriberEnds, Subscriber!End,
         Subscriber!EndPrematurely
  <1>7. CASE UNCHANGED vars
    BY <1>7 DEF vars
  <1> QED
    BY <1>1, <1>2, <1>3, <1>4, <1>5, <1>6, <1>7 DEF Next

---------------------------------------------------------------------------
(* Types.                                                                  *)

\* The types of the flags, of the main thread's variables, and of the rest.
FlagTypes ==
    /\ mInterrupted \in BOOLEAN
    /\ isOkay \in BOOLEAN
    /\ pubKeepRunning \in BOOLEAN
    /\ subKeepRunning \in BOOLEAN
    /\ mKeepRunning \in BOOLEAN
MainTypes ==
    /\ mainPc \in {"options", "logger", "metrics", "detector", "startPublisher", "startSubscriber", "startProcessing", "loop",
                   "check1", "check2", "check3", "check4", "stop", "stopSubscriber",
                   "stopPublisher", "get1", "get2", "get3", "cleanUp", "leave", "gone"}
    /\ services \subseteq Services
    /\ valid \subseteq Futures
    /\ exitStatus \in {"none", "EXIT_SUCCESS", "EXIT_FAILURE"}
    /\ pubThread \in ThreadStates
    /\ subThread \in ThreadStates
PacketTypes ==
    /\ dataPc \in {"unstarted", "test", "pop", "apply", "enqueue", "ended"}
    /\ packet \in Packets \cup {NoPacket}
    /\ picksLeft \in 0 .. MaxPicks
    /\ callbackPc \in {"outside", "size", "pop", "push"}
    /\ nextPacket \in 1 .. MaxPackets + 1
    /\ mImportQueue \in Seq(Packets)
    /\ processed \in Seq(Packets)
    /\ dropped \subseteq Packets

\* What relates the program counters to the variables that would leave their
\* types without it.
ControlInv ==
    /\ dataPc = "apply" <=> packet # NoPacket
    /\ dataPc = "enqueue" => picksLeft > 0
    /\ callbackPc # "outside" => nextPacket <= MaxPackets

\* The initial state has the types.
LEMMA TypeInit == Init => TypeOK /\ ControlInv
  <1> SUFFICES ASSUME Init PROVE TypeOK /\ ControlInv
    OBVIOUS
  <1>1. FlagTypes
    BY Zenon DEF Init, FlagTypes, Publisher!Init, Subscriber!Init
  <1>2. MainTypes
    BY DEF Init, MainTypes, Publisher!Init, Subscriber!Init, ThreadStates
  <1>3. PacketTypes /\ ControlInv
    BY NetworkDetectorAssumption
       DEF NetworkDetectorAssumption, Init, PacketTypes, ControlInv, NoPacket
  <1> QED
    BY <1>1, <1>2, <1>3, Zenon DEF TypeOK, FlagTypes, MainTypes, PacketTypes

\* Every step keeps the flags Boolean.
LEMMA FlagStep == FlagTypes /\ [Next]_vars => FlagTypes'
  <1> SUFFICES ASSUME FlagTypes, [Next]_vars PROVE FlagTypes'
    OBVIOUS
  <1> USE DEF FlagTypes, pubVars, subVars, dataVars, Others, mainVars
  <1>1. CASE MainNext
    <2>1. CASE SetUp
      <3>1. CASE ReadOptions
        BY <3>1, Zenon DEF ReadOptions, Return
      <3>2. CASE InitializeLogger
        BY <3>2, Zenon DEF InitializeLogger, Return
      <3>3. CASE InitializeMetrics
        BY <3>3, Zenon DEF InitializeMetrics, Return
      <3>4. CASE Construct
        BY <3>4, Zenon DEF Construct, Return
      <3> QED
        BY <2>1, <3>1, <3>2, <3>3, <3>4 DEF SetUp
    <2>2. CASE StartPublisher
      BY <2>2, Zenon DEF StartPublisher, Publisher!Start
    <2>3. CASE StartSubscriber
      BY <2>3, Zenon DEF StartSubscriber, Subscriber!Start
    <2>4. CASE StartProcessing
      BY <2>4, Zenon DEF StartProcessing
    <2>5. CASE Watch
      BY <2>5, Zenon DEF Watch
    <2>6. CASE CheckFuturesOkay
      <3>1. CASE Check("check1", "publisher", "check2")
        BY <3>1, Zenon DEF Check
      <3>2. CASE Check("check2", "subscription", "check3")
        BY <3>2, Zenon DEF Check
      <3>3. CASE Check("check3", "processing", "check4")
        BY <3>3, Zenon DEF Check
      <3>4. CASE CheckLast
        BY <3>4, Zenon DEF CheckLast
      <3> QED
        BY <2>6, <3>1, <3>2, <3>3, <3>4 DEF CheckFuturesOkay
    <2>7. CASE StopProcessing
      BY <2>7, Zenon DEF StopProcessing
    <2>8. CASE StopSubscriber
      BY <2>8, Zenon DEF StopSubscriber, Subscriber!Stop
    <2>9. CASE StopPublisher
      BY <2>9, Zenon DEF StopPublisher, Publisher!Stop
    <2>10. CASE JoinThreads
      <3>1. CASE Get("get1", "processing", "get2")
        BY <3>1, Zenon DEF Get
      <3>2. CASE Get("get2", "subscription", "get3")
        BY <3>2, Zenon DEF Get
      <3>3. CASE Get("get3", "publisher", "cleanUp")
        BY <3>3, Zenon DEF Get
      <3> QED
        BY <2>10, <3>1, <3>2, <3>3 DEF JoinThreads
    <2>11. CASE CleanUp
      BY <2>11, Zenon DEF CleanUp
    <2>12. CASE Leave
      BY <2>12, Zenon DEF Leave
    <2> QED
      BY <1>1, <2>1, <2>2, <2>3, <2>4, <2>5, <2>6, <2>7, <2>8, <2>9, <2>10,
         <2>11, <2>12
         DEF MainNext
  <1>2. CASE Interrupt
    BY <1>2, Zenon DEF Interrupt
  <1>3. CASE CallbackNext
    <2>1. CASE GetPacket
      BY <2>1, Zenon DEF GetPacket
    <2>2. CASE GetPacketSize
      BY <2>2, Zenon DEF GetPacketSize
    <2>3. CASE GetPacketDrops
      BY <2>3, Zenon DEF GetPacketDrops
    <2>4. CASE GetPacketPushes
      BY <2>4, Zenon DEF GetPacketPushes
    <2> QED
      BY <1>3, <2>1, <2>2, <2>3, <2>4 DEF CallbackNext
  <1>4. CASE FilterNext
    <2>1. CASE FilterTest
      BY <2>1, Zenon DEF FilterTest
    <2>2. CASE FilterPop
      BY <2>2, Zenon DEF FilterPop
    <2>3. ASSUME NEW picks \in 0 .. MaxPicks, FilterApply(picks)
          PROVE  FlagTypes'
      BY <2>3, Zenon DEF FilterApply
    <2>4. CASE FilterEnqueue
      BY <2>4, Zenon DEF FilterEnqueue
    <2> QED
      BY <1>4, <2>1, <2>2, <2>3, <2>4 DEF FilterNext
  <1>5. CASE PublisherEnds
    BY <1>5, Zenon DEF PublisherEnds, Publisher!End,
         Publisher!EndPrematurely
  <1>6. CASE SubscriberEnds
    BY <1>6, Zenon DEF SubscriberEnds, Subscriber!End,
         Subscriber!EndPrematurely
  <1>7. CASE UNCHANGED vars
    BY <1>7, Zenon DEF vars
  <1> QED
    BY <1>1, <1>2, <1>3, <1>4, <1>5, <1>6, <1>7 DEF Next

\* Every step keeps the types of the main thread's variables.
LEMMA MainTypesStep == MainTypes /\ [Next]_vars => MainTypes'
  <1> SUFFICES ASSUME MainTypes, [Next]_vars PROVE MainTypes'
    OBVIOUS
  <1> USE DEF MainTypes, ThreadStates, Services, Futures, pubVars, subVars, dataVars, Others,
              mainVars
  <1>1. CASE MainNext
    <2>1. CASE SetUp
      <3>1. CASE ReadOptions
        BY <3>1 DEF ReadOptions, Return
      <3>2. CASE InitializeLogger
        BY <3>2 DEF InitializeLogger, Return
      <3>3. CASE InitializeMetrics
        BY <3>3 DEF InitializeMetrics, Return
      <3>4. CASE Construct
        BY <3>4 DEF Construct, Return
      <3> QED
        BY <2>1, <3>1, <3>2, <3>3, <3>4 DEF SetUp
    <2>2. CASE StartPublisher
      BY <2>2 DEF StartPublisher, Publisher!Start
    <2>3. CASE StartSubscriber
      BY <2>3 DEF StartSubscriber, Subscriber!Start
    <2>4. CASE StartProcessing
      BY <2>4 DEF StartProcessing
    <2>5. CASE Watch
      BY <2>5 DEF Watch
    <2>6. CASE CheckFuturesOkay
      <3>1. CASE Check("check1", "publisher", "check2")
        BY <3>1 DEF Check
      <3>2. CASE Check("check2", "subscription", "check3")
        BY <3>2 DEF Check
      <3>3. CASE Check("check3", "processing", "check4")
        BY <3>3 DEF Check
      <3>4. CASE CheckLast
        BY <3>4 DEF CheckLast
      <3> QED
        BY <2>6, <3>1, <3>2, <3>3, <3>4 DEF CheckFuturesOkay
    <2>7. CASE StopProcessing
      BY <2>7 DEF StopProcessing
    <2>8. CASE StopSubscriber
      BY <2>8 DEF StopSubscriber, Subscriber!Stop
    <2>9. CASE StopPublisher
      BY <2>9 DEF StopPublisher, Publisher!Stop
    <2>10. CASE JoinThreads
      <3>1. CASE Get("get1", "processing", "get2")
        BY <3>1 DEF Get
      <3>2. CASE Get("get2", "subscription", "get3")
        BY <3>2 DEF Get
      <3>3. CASE Get("get3", "publisher", "cleanUp")
        BY <3>3 DEF Get
      <3> QED
        BY <2>10, <3>1, <3>2, <3>3 DEF JoinThreads
    <2>11. CASE CleanUp
      BY <2>11 DEF CleanUp
    <2>12. CASE Leave
      BY <2>12 DEF Leave
    <2> QED
      BY <1>1, <2>1, <2>2, <2>3, <2>4, <2>5, <2>6, <2>7, <2>8, <2>9, <2>10,
         <2>11, <2>12
         DEF MainNext
  <1>2. CASE Interrupt
    BY <1>2 DEF Interrupt
  <1>3. CASE CallbackNext
    <2>1. CASE GetPacket
      BY <2>1 DEF GetPacket
    <2>2. CASE GetPacketSize
      BY <2>2 DEF GetPacketSize
    <2>3. CASE GetPacketDrops
      BY <2>3 DEF GetPacketDrops
    <2>4. CASE GetPacketPushes
      BY <2>4 DEF GetPacketPushes
    <2> QED
      BY <1>3, <2>1, <2>2, <2>3, <2>4 DEF CallbackNext
  <1>4. CASE FilterNext
    <2>1. CASE FilterTest
      BY <2>1 DEF FilterTest
    <2>2. CASE FilterPop
      BY <2>2 DEF FilterPop
    <2>3. ASSUME NEW picks \in 0 .. MaxPicks, FilterApply(picks)
          PROVE  MainTypes'
      BY <2>3 DEF FilterApply
    <2>4. CASE FilterEnqueue
      BY <2>4 DEF FilterEnqueue
    <2> QED
      BY <1>4, <2>1, <2>2, <2>3, <2>4 DEF FilterNext
  <1>5. CASE PublisherEnds
    BY <1>5 DEF PublisherEnds, Publisher!End,
         Publisher!EndPrematurely
  <1>6. CASE SubscriberEnds
    BY <1>6 DEF SubscriberEnds, Subscriber!End,
         Subscriber!EndPrematurely
  <1>7. CASE UNCHANGED vars
    BY <1>7 DEF vars
  <1> QED
    BY <1>1, <1>2, <1>3, <1>4, <1>5, <1>6, <1>7 DEF Next

packetVars == <<packet, picksLeft, processed, callbackVars, mImportQueue>>

\* No step but those of getPacket and filterPackets moves a packet; all that
\* such a step does to filterPackets is to start it.
LEMMA OtherStepsLeavePackets ==
  ASSUME MainNext \/ Interrupt \/ PublisherEnds \/ SubscriberEnds \/ UNCHANGED vars
  PROVE  /\ UNCHANGED packetVars
         /\ UNCHANGED dataPc \/ (mainPc = "startProcessing" /\ dataPc' = "test")
  <1> USE DEF packetVars, callbackVars, dataVars, Others
  <1>1. CASE MainNext
    <2>1. CASE SetUp
      <3>1. CASE ReadOptions
        BY <3>1 DEF ReadOptions, Return
      <3>2. CASE InitializeLogger
        BY <3>2 DEF InitializeLogger, Return
      <3>3. CASE InitializeMetrics
        BY <3>3 DEF InitializeMetrics, Return
      <3>4. CASE Construct
        BY <3>4 DEF Construct, Return
      <3> QED
        BY <2>1, <3>1, <3>2, <3>3, <3>4 DEF SetUp
    <2>2. CASE StartPublisher
      BY <2>2 DEF StartPublisher, Publisher!Start
    <2>3. CASE StartSubscriber
      BY <2>3 DEF StartSubscriber, Subscriber!Start
    <2>4. CASE StartProcessing
      BY <2>4 DEF StartProcessing
    <2>5. CASE Watch
      BY <2>5 DEF Watch
    <2>6. CASE CheckFuturesOkay
      <3>1. CASE Check("check1", "publisher", "check2")
        BY <3>1 DEF Check
      <3>2. CASE Check("check2", "subscription", "check3")
        BY <3>2 DEF Check
      <3>3. CASE Check("check3", "processing", "check4")
        BY <3>3 DEF Check
      <3>4. CASE CheckLast
        BY <3>4 DEF CheckLast
      <3> QED
        BY <2>6, <3>1, <3>2, <3>3, <3>4 DEF CheckFuturesOkay
    <2>7. CASE StopProcessing
      BY <2>7 DEF StopProcessing
    <2>8. CASE StopSubscriber
      BY <2>8 DEF StopSubscriber, Subscriber!Stop
    <2>9. CASE StopPublisher
      BY <2>9 DEF StopPublisher, Publisher!Stop
    <2>10. CASE JoinThreads
      <3>1. CASE Get("get1", "processing", "get2")
        BY <3>1 DEF Get
      <3>2. CASE Get("get2", "subscription", "get3")
        BY <3>2 DEF Get
      <3>3. CASE Get("get3", "publisher", "cleanUp")
        BY <3>3 DEF Get
      <3> QED
        BY <2>10, <3>1, <3>2, <3>3 DEF JoinThreads
    <2>11. CASE CleanUp
      BY <2>11 DEF CleanUp
    <2>12. CASE Leave
      BY <2>12 DEF Leave
    <2> QED
      BY <1>1, <2>1, <2>2, <2>3, <2>4, <2>5, <2>6, <2>7, <2>8, <2>9, <2>10,
         <2>11, <2>12
         DEF MainNext
  <1>2. CASE Interrupt \/ PublisherEnds \/ SubscriberEnds
    BY <1>2 DEF Interrupt, PublisherEnds, SubscriberEnds
  <1>3. CASE UNCHANGED vars
    BY <1>3 DEF vars
  <1> QED
    BY <1>1, <1>2, <1>3

\* Every step keeps the types of what moves the packets.
LEMMA PacketTypesStep ==
    PhaseInv /\ PacketTypes /\ ControlInv /\ [Next]_vars => PacketTypes' /\ ControlInv'
  <1> SUFFICES ASSUME PhaseInv /\ PacketTypes /\ ControlInv, [Next]_vars
               PROVE  PacketTypes' /\ ControlInv'
    OBVIOUS
  <1> USE NetworkDetectorAssumption
      DEF NetworkDetectorAssumption, PacketTypes, ControlInv, Packets, NoPacket,
          dataVars, callbackVars
  <1>1. CASE MainNext \/ Interrupt \/ PublisherEnds \/ SubscriberEnds \/ UNCHANGED vars
    <2>1. UNCHANGED packetVars
      BY <1>1, OtherStepsLeavePackets
    <2>2. UNCHANGED dataPc \/ (dataPc = "unstarted" /\ dataPc' = "test")
      BY <1>1, OtherStepsLeavePackets DEF PhaseInv, BeforeLoop
    <2> QED
      BY <2>1, <2>2 DEF packetVars
  <1>2. CASE CallbackNext
    <2>1. CASE GetPacket
      BY <2>1 DEF GetPacket
    <2>2. CASE GetPacketSize
      BY <2>2 DEF GetPacketSize
    <2>3. CASE GetPacketDrops
      <3>1. mImportQueue # <<>> =>
                Head(mImportQueue) \in Packets /\ Tail(mImportQueue) \in Seq(Packets)
        OBVIOUS
      <3>2. mImportQueue' \in Seq(Packets) /\ dropped' \subseteq Packets
        BY <2>3, <3>1 DEF GetPacketDrops
      <3> QED
        BY <2>3, <3>2 DEF GetPacketDrops
    <2>4. CASE GetPacketPushes
      BY <2>4 DEF GetPacketPushes
    <2> QED
      BY <1>2, <2>1, <2>2, <2>3, <2>4 DEF CallbackNext
  <1>3. CASE FilterNext
    <2>1. CASE FilterTest
      BY <2>1 DEF FilterTest
    <2>2. CASE FilterPop
      <3>1. mImportQueue # <<>> =>
                Head(mImportQueue) \in Packets /\ Tail(mImportQueue) \in Seq(Packets)
        OBVIOUS
      <3>2. CASE mImportQueue # <<>>
        <4>1. packet' = Head(mImportQueue) /\ mImportQueue' = Tail(mImportQueue)
          BY <2>2, <3>2 DEF FilterPop
        <4>2. mImportQueue' \in Seq(Packets)
          BY <3>1, <3>2, <4>1
        <4>3. packet' \in Packets /\ packet' # NoPacket
          BY <3>1, <3>2, <4>1
        <4> QED
          BY <2>2, <3>2, <4>2, <4>3 DEF FilterPop
      <3>3. CASE mImportQueue = <<>>
        BY <2>2, <3>3 DEF FilterPop
      <3> QED
        BY <3>2, <3>3
    <2>3. ASSUME NEW picks \in 0 .. MaxPicks, FilterApply(picks)
          PROVE  PacketTypes' /\ ControlInv'
      BY <2>3 DEF FilterApply
    <2>4. CASE FilterEnqueue
      BY <2>4 DEF FilterEnqueue
    <2> QED
      BY <1>3, <2>1, <2>2, <2>3, <2>4 DEF FilterNext
  <1> QED
    BY <1>1, <1>2, <1>3 DEF Next

\* The types, and what they depend on, hold in every reachable state.
LEMMA TypesHold == Spec => [](TypeOK /\ ControlInv /\ PhaseInv)
  <1>1. TypeOK <=> FlagTypes /\ MainTypes /\ PacketTypes
    BY Zenon DEF TypeOK, FlagTypes, MainTypes, PacketTypes
  <1>2. TypeOK' <=> FlagTypes' /\ MainTypes' /\ PacketTypes'
    BY Zenon DEF TypeOK, FlagTypes, MainTypes, PacketTypes
  <1>3. TypeOK /\ ControlInv /\ PhaseInv /\ [Next]_vars
            => TypeOK' /\ ControlInv' /\ PhaseInv'
    BY <1>1, <1>2, FlagStep, MainTypesStep, PacketTypesStep, PhaseStep, Zenon
  <1> QED
    BY <1>3, TypeInit, PhaseInit, PTL DEF Spec

\* Every variable keeps its type, whatever the sizes: in particular no thread
\* filters a packet it does not hold or counts picks below none.
THEOREM TypeCorrect == Spec => []TypeOK
  BY TypesHold, PTL

---------------------------------------------------------------------------
(* The packets.                                                            *)

\* getPacket pushes only once it has seen or made room, and filterPackets
\* only makes more.
RoomInv ==
    /\ Len(mImportQueue) <= MaximumImportQueueSize
    /\ callbackPc = "push" => Len(mImportQueue) < MaximumImportQueueSize

\* What is in the queue is newer than what left it, and all of it, with
\* nothing twice, is what was received.
PacketInv == PacketsInOrder /\ EveryPacketAccountedFor

\* The packets are numbers.
LEMMA PacketsAreNumbers ==
  ASSUME TypeOK
  PROVE  /\ mImportQueue \in Seq(Int) /\ processed \in Seq(Int)
         /\ packet \in Int /\ nextPacket \in Int
         /\ Len(mImportQueue) \in Nat
         /\ MaximumImportQueueSize \in Nat \ {0}
  <1>1. mImportQueue \in Seq(Packets) /\ processed \in Seq(Packets)
    BY DEF TypeOK
  <1>2. Packets \subseteq Int
    BY DEF Packets
  <1>3. mImportQueue \in Seq(Int) /\ processed \in Seq(Int)
    BY <1>1, <1>2, SeqMonotonic
  <1>4. packet \in Int /\ nextPacket \in Int
    BY DEF TypeOK, Packets, NoPacket
  <1> QED
    BY <1>1, <1>3, <1>4, NetworkDetectorAssumption DEF NetworkDetectorAssumption

\* No packet has been received.
LEMMA PacketInit == Init => RoomInv /\ PacketInv
  <1> SUFFICES ASSUME Init PROVE RoomInv /\ PacketInv
    OBVIOUS
  <1>1. /\ mImportQueue = <<>> /\ processed = <<>> /\ dropped = {} /\ packet = NoPacket
        /\ nextPacket = 1 /\ callbackPc = "outside"
    BY DEF Init
  <1>2. Taken = {} /\ InProcess = {}
    BY <1>1, EmptySequence DEF Taken, InProcess
  <1>3. RoomInv /\ 1 .. nextPacket - 1 = {}
    BY <1>1, EmptySequence, NetworkDetectorAssumption
       DEF RoomInv, NetworkDetectorAssumption
  <1> QED
    BY <1>1, <1>2, <1>3, EmptySequence
       DEF RoomInv, PacketInv, PacketsInOrder, EveryPacketAccountedFor

\* What the packets do in a step that moves none.
LEMMA PacketFrame ==
  ASSUME RoomInv, PacketInv,
         UNCHANGED <<packet, processed, nextPacket, dropped, mImportQueue>>,
         callbackPc' = "push" => Len(mImportQueue) < MaximumImportQueueSize
  PROVE  RoomInv' /\ PacketInv'
  BY DEF RoomInv, PacketInv, PacketsInOrder, EveryPacketAccountedFor, Taken, InProcess

\* What a pop takes from the queue, by whichever thread.
LEMMA PopTakesOldest ==
  ASSUME TypeOK, RoomInv, PacketInv,
         mImportQueue # <<>>, mImportQueue' = Tail(mImportQueue)
  PROVE  /\ Len(mImportQueue') < MaximumImportQueueSize
         /\ Ascending(mImportQueue')
         /\ Range(mImportQueue) = {Head(mImportQueue)} \cup Range(mImportQueue')
         /\ \A taken \in Taken : taken < Head(mImportQueue)
         /\ \A waiting \in Range(mImportQueue') :
               \A taken \in Taken \cup {Head(mImportQueue)} : taken < waiting
         /\ Head(mImportQueue) \notin Taken
         /\ Head(mImportQueue) \in Int
  <1>1. mImportQueue \in Seq(Int)
    BY PacketsAreNumbers
  <1>2. Ascending(mImportQueue)
    BY DEF PacketInv, PacketsInOrder
  <1>3. /\ Ascending(mImportQueue')
        /\ Range(mImportQueue) = {Head(mImportQueue)} \cup Range(mImportQueue')
        /\ \A waiting \in Range(mImportQueue') : Head(mImportQueue) < waiting
    BY <1>1, <1>2, ElementsOfTail
  <1>4. /\ Len(mImportQueue') = Len(mImportQueue) - 1 /\ Len(mImportQueue) \in Nat
    BY <1>1, TailIsShorter
  <1>5. Len(mImportQueue') < MaximumImportQueueSize
    BY <1>4, PacketsAreNumbers DEF RoomInv
  <1>6. \A waiting \in Range(mImportQueue) : \A taken \in Taken : taken < waiting
    BY DEF PacketInv, PacketsInOrder
  <1>7. Head(mImportQueue) \in Int
    BY <1>1
  <1>8. \A taken \in Taken : taken < Head(mImportQueue)
    BY <1>3, <1>6
  <1>9. Head(mImportQueue) \notin Taken
    BY <1>7, <1>8
  <1> QED
    BY <1>3, <1>5, <1>6, <1>7, <1>8, <1>9

\* Every step keeps the packets in order and accounted for.
LEMMA PacketStep ==
    TypeOK /\ ControlInv /\ RoomInv /\ PacketInv /\ [Next]_vars => RoomInv' /\ PacketInv'
  <1> SUFFICES ASSUME TypeOK /\ ControlInv /\ RoomInv /\ PacketInv, [Next]_vars
               PROVE  RoomInv' /\ PacketInv'
    OBVIOUS
  <1> USE DEF dataVars, callbackVars
  <1>1. CASE MainNext \/ Interrupt \/ PublisherEnds \/ SubscriberEnds \/ UNCHANGED vars
    <2>1. UNCHANGED packetVars
      BY <1>1, OtherStepsLeavePackets
    <2> QED
      BY <2>1, PacketFrame DEF packetVars, RoomInv
  <1>2. CASE CallbackNext
    <2>1. CASE GetPacket
      BY <2>1, PacketFrame DEF GetPacket
    <2>2. CASE GetPacketSize
      <3>1. callbackPc' = "push" => Len(mImportQueue) < MaximumImportQueueSize
        BY <2>2, PacketsAreNumbers DEF GetPacketSize
      <3> QED
        BY <2>2, <3>1, PacketFrame DEF GetPacketSize
    <2>3. CASE GetPacketDrops
      <3>1. CASE mImportQueue # <<>>
        <4> DEFINE oldest == Head(mImportQueue)
        <4>1. /\ mImportQueue' = Tail(mImportQueue) /\ dropped' = dropped \cup {oldest}
              /\ callbackPc' = "size" /\ UNCHANGED <<packet, processed, nextPacket>>
          BY <2>3, <3>1 DEF GetPacketDrops
        <4>2. Taken' = Taken \cup {oldest} /\ InProcess' = InProcess
          BY <4>1 DEF Taken, InProcess
        <4>3. PacketsInOrder'
          BY <3>1, <4>1, <4>2, PopTakesOldest, PacketsAreNumbers
             DEF PacketInv, PacketsInOrder, RoomInv
        <4>4. Range(mImportQueue') \cup Taken' = Range(mImportQueue) \cup Taken
          BY <3>1, <4>1, <4>2, PopTakesOldest
        <4>5. oldest \notin Range(processed) \cup InProcess
          BY <3>1, <4>1, PopTakesOldest DEF Taken
        <4>6. EveryPacketAccountedFor'
          BY <4>1, <4>2, <4>4, <4>5 DEF PacketInv, EveryPacketAccountedFor
        <4> QED
          BY <4>1, <4>3, <4>6 DEF RoomInv, PacketInv, PacketsInOrder
      <3>2. CASE mImportQueue = <<>>
        <4>1. Len(mImportQueue) < MaximumImportQueueSize
          BY <3>2, EmptySequence, PacketsAreNumbers
        <4> QED
          BY <2>3, <3>2, <4>1, PacketFrame DEF GetPacketDrops
      <3> QED
        BY <3>1, <3>2
    <2>4. CASE GetPacketPushes
      <3>1. /\ mImportQueue' = Append(mImportQueue, nextPacket)
            /\ nextPacket' = nextPacket + 1
            /\ callbackPc = "push" /\ callbackPc' = "outside"
            /\ UNCHANGED <<packet, processed, dropped>>
        BY <2>4 DEF GetPacketPushes
      <3>2. Taken' = Taken /\ InProcess' = InProcess
        BY <3>1 DEF Taken, InProcess
      <3>3. Range(mImportQueue) \cup Taken = 1 .. nextPacket - 1
        BY DEF PacketInv, EveryPacketAccountedFor
      <3>4. \A known \in Range(mImportQueue) \cup Taken : known < nextPacket
        BY <3>3, PacketsAreNumbers
      <3>5. /\ Range(mImportQueue') = Range(mImportQueue) \cup {nextPacket}
            /\ Ascending(mImportQueue')
        BY <3>1, <3>4, PacketsAreNumbers, ElementsOfAppend DEF PacketInv, PacketsInOrder
      <3>6. Len(mImportQueue') <= MaximumImportQueueSize
        <4>1. Len(mImportQueue') = Len(mImportQueue) + 1
          BY <3>1, PacketsAreNumbers
        <4> QED
          BY <3>1, <4>1, PacketsAreNumbers DEF RoomInv
      <3>7. \A waiting \in Range(mImportQueue') : \A taken \in Taken' : taken < waiting
        BY <3>2, <3>4, <3>5 DEF PacketInv, PacketsInOrder
      <3>8. PacketsInOrder'
        BY <3>1, <3>5, <3>6, <3>7 DEF PacketInv, PacketsInOrder
      <3>9. 1 .. nextPacket = (1 .. nextPacket - 1) \cup {nextPacket}
        BY DEF TypeOK
      <3>10. Range(mImportQueue') \cup Taken' = 1 .. nextPacket' - 1
        BY <3>1, <3>2, <3>3, <3>5, <3>9, PacketsAreNumbers
      <3>11. EveryPacketAccountedFor'
        BY <3>1, <3>2, <3>10 DEF PacketInv, EveryPacketAccountedFor
      <3> QED
        BY <3>1, <3>6, <3>8, <3>11 DEF RoomInv, PacketInv
    <2> QED
      BY <1>2, <2>1, <2>2, <2>3, <2>4 DEF CallbackNext
  <1>3. CASE FilterNext
    <2>1. CASE FilterTest
      BY <2>1, PacketFrame DEF FilterTest, RoomInv
    <2>2. CASE FilterPop
      <3>1. CASE mImportQueue # <<>>
        <4> DEFINE oldest == Head(mImportQueue)
        <4>1. /\ mImportQueue' = Tail(mImportQueue) /\ packet' = oldest
              /\ packet = NoPacket
              /\ UNCHANGED <<processed, nextPacket, dropped, callbackPc>>
          BY <2>2, <3>1 DEF FilterPop, ControlInv
        <4>2. oldest # NoPacket
          <5>1. oldest \in Packets
            BY <3>1 DEF TypeOK
          <5> QED
            BY <5>1 DEF Packets, NoPacket
        <4>3. InProcess = {} /\ InProcess' = {oldest} /\ Taken' = Taken \cup {oldest}
          BY <4>1, <4>2 DEF Taken, InProcess
        <4>4. \A done \in Range(processed) : done < oldest
          BY <3>1, <4>1, PopTakesOldest DEF Taken
        <4>5. PacketsInOrder'
          BY <3>1, <4>1, <4>3, <4>4, PopTakesOldest, PacketsAreNumbers
             DEF PacketInv, PacketsInOrder, RoomInv
        <4>6. Range(mImportQueue') \cup Taken' = Range(mImportQueue) \cup Taken
          BY <3>1, <4>1, <4>3, PopTakesOldest
        <4>7. oldest \notin dropped
          BY <3>1, <4>1, PopTakesOldest DEF Taken
        <4>8. EveryPacketAccountedFor'
          BY <4>1, <4>3, <4>6, <4>7 DEF PacketInv, EveryPacketAccountedFor
        <4>9. RoomInv'
          BY <3>1, <4>1, <4>5, PopTakesOldest DEF RoomInv, PacketsInOrder
        <4> QED
          BY <4>5, <4>8, <4>9 DEF PacketInv
      <3>2. CASE mImportQueue = <<>>
        BY <2>2, <3>2, PacketFrame DEF FilterPop, RoomInv
      <3> QED
        BY <3>1, <3>2
    <2>3. ASSUME NEW picks \in 0 .. MaxPicks, FilterApply(picks)
          PROVE  RoomInv' /\ PacketInv'
      <3>1. /\ processed' = Append(processed, packet)
            /\ packet # NoPacket /\ packet' = NoPacket
            /\ UNCHANGED <<mImportQueue, nextPacket, dropped, callbackPc>>
        BY <2>3 DEF FilterApply, ControlInv
      <3>2. /\ Range(processed') = Range(processed) \cup {packet}
            /\ Ascending(processed')
        BY <3>1, PacketsAreNumbers, ElementsOfAppend DEF PacketInv, PacketsInOrder
      <3>3. InProcess = {packet} /\ InProcess' = {} /\ Taken' = Taken
        BY <3>1, <3>2 DEF Taken, InProcess
      <3>4. PacketsInOrder'
        BY <3>1, <3>2, <3>3 DEF PacketInv, PacketsInOrder
      <3>5. EveryPacketAccountedFor'
        BY <3>1, <3>2, <3>3 DEF PacketInv, EveryPacketAccountedFor
      <3> QED
        BY <3>1, <3>4, <3>5 DEF RoomInv, PacketInv
    <2>4. CASE FilterEnqueue
      BY <2>4, PacketFrame DEF FilterEnqueue, RoomInv
    <2> QED
      BY <1>3, <2>1, <2>2, <2>3, <2>4 DEF FilterNext
  <1> QED
    BY <1>1, <1>2, <1>3 DEF Next

\* They are so in every reachable state.
LEMMA PacketsHold == Spec => [](RoomInv /\ PacketInv)
  BY TypesHold, PacketInit, PacketStep, PTL DEF Spec

\* Whatever the callback thread and the filter thread pop between the calls
\* getPacket makes on the queue, the queue stays within its bound and the
\* pickers get the packets in the order they were received.
THEOREM OldestPacketsFirst == Spec => []PacketsInOrder
  <1>1. PacketInv => PacketsInOrder
    BY DEF PacketInv
  <1> QED
    BY <1>1, PacketsHold, PTL

\* No packet is lost between the two threads and none is both dropped and
\* processed.
THEOREM PacketsAreAccountedFor == Spec => []EveryPacketAccountedFor
  <1>1. PacketInv => EveryPacketAccountedFor
    BY DEF PacketInv
  <1> QED
    BY <1>1, PacketsHold, PTL

---------------------------------------------------------------------------
(* The futures.                                                            *)

Returning == {"cleanUp"} \cup Leaving
DataIsIdle == dataPc \in {"unstarted", "ended"}

\* A future that is consumed is of a thread that runs no more; the calls of
\* get() leave the threads idle one after the other; and a callback runs
\* within the subscriber's thread only.
FutureInv ==
    /\ "publisher" \notin valid => pubThread # "running"
    /\ "subscription" \notin valid => subThread # "running"
    /\ "processing" \notin valid => DataIsIdle
    /\ callbackPc # "outside" => subThread = "running"
    /\ mainPc \in {"get2", "get3"} \cup Returning => DataIsIdle
    /\ mainPc \in {"get3"} \cup Returning => subThread # "running"
    /\ mainPc = "gone" => pubThread # "running"
    /\ exitStatus # "none" <=> mainPc \in Returning
    /\ exitStatus = "EXIT_SUCCESS" => pubThread # "running"

\* The thread behind each future.
LEMMA ThreadOfEach ==
  /\ ThreadOf("publisher") = pubThread
  /\ ThreadOf("subscription") = subThread
  /\ ThreadOf("processing") = IF DataIsIdle THEN dataPc ELSE "running"
  BY DEF ThreadOf, DataIsIdle

\* Whether it is ready.
LEMMA ReadyOfEach ==
  /\ Ready("publisher") <=> pubThread \in {"ended", "threw"}
  /\ Ready("subscription") <=> subThread \in {"ended", "threw"}
  /\ Ready("processing") <=> dataPc = "ended"
  BY ThreadOfEach DEF Ready, DataIsIdle

\* No thread has been started.
LEMMA FutureInit == Init => FutureInv
  BY DEF Init, Publisher!Init, Subscriber!Init, FutureInv, Returning, Leaving, DataIsIdle

\* No step consumes the future of a thread that runs.
LEMMA FutureStep ==
    TypeOK /\ PhaseInv /\ FutureInv /\ [Next]_vars => FutureInv'
  <1> SUFFICES ASSUME TypeOK /\ PhaseInv /\ FutureInv, [Next]_vars PROVE FutureInv'
    OBVIOUS
  <1> USE DEF FutureInv, Returning, Leaving, DataIsIdle, pubVars, subVars, dataVars,
              callbackVars, Others, mainVars
  <1>1. CASE MainNext
    <2>1. CASE SetUp
      <3>1. CASE ReadOptions
        BY <3>1 DEF ReadOptions, Return, PhaseInv, SettingUp, BeforeLoop
      <3>2. CASE InitializeLogger
        BY <3>2 DEF InitializeLogger, Return, PhaseInv, SettingUp, BeforeLoop
      <3>3. CASE InitializeMetrics
        BY <3>3 DEF InitializeMetrics, Return, PhaseInv, SettingUp, BeforeLoop
      <3>4. CASE Construct
        BY <3>4 DEF Construct, Return, PhaseInv, SettingUp, BeforeLoop
      <3> QED
        BY <2>1, <3>1, <3>2, <3>3, <3>4 DEF SetUp
    <2>2. CASE StartPublisher
      BY <2>2 DEF StartPublisher, Publisher!Start, PhaseInv, SettingUp, BeforeLoop
    <2>3. CASE StartSubscriber
      BY <2>3 DEF StartSubscriber, Subscriber!Start, PhaseInv, SettingUp, BeforeLoop
    <2>4. CASE StartProcessing
      BY <2>4 DEF StartProcessing, PhaseInv, SettingUp, BeforeLoop
    <2>5. CASE Watch
      BY <2>5 DEF Watch
    <2>6. CASE CheckFuturesOkay
      <3>1. CASE Check("check1", "publisher", "check2")
        BY <3>1, ReadyOfEach DEF Check
      <3>2. CASE Check("check2", "subscription", "check3")
        BY <3>2, ReadyOfEach DEF Check
      <3>3. CASE Check("check3", "processing", "check4")
        BY <3>3, ReadyOfEach DEF Check
      <3>4. CASE CheckLast
        BY <3>4, ReadyOfEach DEF CheckLast
      <3> QED
        BY <2>6, <3>1, <3>2, <3>3, <3>4 DEF CheckFuturesOkay
    <2>7. CASE StopProcessing
      BY <2>7 DEF StopProcessing
    <2>8. CASE StopSubscriber
      BY <2>8 DEF StopSubscriber, Subscriber!Stop
    <2>9. CASE StopPublisher
      BY <2>9 DEF StopPublisher, Publisher!Stop
    <2>10. CASE JoinThreads
      <3>1. CASE Get("get1", "processing", "get2")
        BY <3>1, ThreadOfEach, ReadyOfEach DEF Get
      <3>2. CASE Get("get2", "subscription", "get3")
        BY <3>2, ThreadOfEach, ReadyOfEach DEF Get
      <3>3. CASE Get("get3", "publisher", "cleanUp")
        BY <3>3, ThreadOfEach, ReadyOfEach DEF Get
      <3> QED
        BY <2>10, <3>1, <3>2, <3>3 DEF JoinThreads
    <2>11. CASE CleanUp
      BY <2>11 DEF CleanUp
    <2>12. CASE Leave
      BY <2>12, ReadyOfEach DEF Leave
    <2> QED
      BY <1>1, <2>1, <2>2, <2>3, <2>4, <2>5, <2>6, <2>7, <2>8, <2>9, <2>10,
         <2>11, <2>12
         DEF MainNext
  <1>2. CASE Interrupt
    BY <1>2 DEF Interrupt
  <1>3. CASE CallbackNext
    <2>1. CASE GetPacket
      BY <2>1 DEF GetPacket
    <2>2. CASE GetPacketSize
      BY <2>2 DEF GetPacketSize
    <2>3. CASE GetPacketDrops
      BY <2>3 DEF GetPacketDrops
    <2>4. CASE GetPacketPushes
      BY <2>4 DEF GetPacketPushes
    <2> QED
      BY <1>3, <2>1, <2>2, <2>3, <2>4 DEF CallbackNext
  <1>4. CASE FilterNext
    <2>1. CASE FilterTest
      BY <2>1 DEF FilterTest
    <2>2. CASE FilterPop
      BY <2>2 DEF FilterPop
    <2>3. ASSUME NEW picks \in 0 .. MaxPicks, FilterApply(picks)
          PROVE  FutureInv'
      BY <2>3 DEF FilterApply
    <2>4. CASE FilterEnqueue
      BY <2>4 DEF FilterEnqueue
    <2> QED
      BY <1>4, <2>1, <2>2, <2>3, <2>4 DEF FilterNext
  <1>5. CASE PublisherEnds
    BY <1>5 DEF PublisherEnds, Publisher!End,
         Publisher!EndPrematurely
  <1>6. CASE SubscriberEnds
    BY <1>6 DEF SubscriberEnds, Subscriber!End,
         Subscriber!EndPrematurely
  <1>7. CASE UNCHANGED vars
    BY <1>7 DEF vars
  <1> QED
    BY <1>1, <1>2, <1>3, <1>4, <1>5, <1>6, <1>7 DEF Next

---------------------------------------------------------------------------
(* The services.                                                           *)

\* The logger is there while main is between its set-up and its clean-up.
ServiceInv ==
    /\ mainPc \in {"options", "logger"} \cup Leaving => services = {}
    /\ mainPc = "metrics" => services = {"logger"}
    /\ mainPc \notin {"options", "logger"} \cup Leaving => "logger" \in services

\* There are no services at first.
LEMMA ServiceInit == Init => ServiceInv
  BY DEF Init, ServiceInv, Leaving

\* Every step of main keeps account of the services.
LEMMA ServiceStep == TypeOK /\ ServiceInv /\ [Next]_vars => ServiceInv'
  <1> SUFFICES ASSUME TypeOK /\ ServiceInv, [Next]_vars PROVE ServiceInv'
    OBVIOUS
  <1>0. services \subseteq {"logger", "metrics"}
    BY DEF TypeOK, Services
  <1> USE DEF ServiceInv, Leaving, Others, mainVars
  <1>1. CASE MainNext
    <2>1. CASE SetUp
      <3>1. CASE ReadOptions
        BY <3>1 DEF ReadOptions, Return
      <3>2. CASE InitializeLogger
        BY <3>2 DEF InitializeLogger, Return
      <3>3. CASE InitializeMetrics
        BY <3>3 DEF InitializeMetrics, Return
      <3>4. CASE Construct
        BY <3>4, <1>0 DEF Construct, Return
      <3> QED
        BY <2>1, <3>1, <3>2, <3>3, <3>4 DEF SetUp
    <2>2. CASE StartPublisher
      BY <2>2 DEF StartPublisher, Publisher!Start
    <2>3. CASE StartSubscriber
      BY <2>3 DEF StartSubscriber, Subscriber!Start
    <2>4. CASE StartProcessing
      BY <2>4 DEF StartProcessing
    <2>5. CASE Watch
      BY <2>5 DEF Watch
    <2>6. CASE CheckFuturesOkay
      <3>1. CASE Check("check1", "publisher", "check2")
        BY <3>1 DEF Check
      <3>2. CASE Check("check2", "subscription", "check3")
        BY <3>2 DEF Check
      <3>3. CASE Check("check3", "processing", "check4")
        BY <3>3 DEF Check
      <3>4. CASE CheckLast
        BY <3>4 DEF CheckLast
      <3> QED
        BY <2>6, <3>1, <3>2, <3>3, <3>4 DEF CheckFuturesOkay
    <2>7. CASE StopProcessing
      BY <2>7 DEF StopProcessing
    <2>8. CASE StopSubscriber
      BY <2>8 DEF StopSubscriber, Subscriber!Stop
    <2>9. CASE StopPublisher
      BY <2>9 DEF StopPublisher, Publisher!Stop
    <2>10. CASE JoinThreads
      <3>1. CASE Get("get1", "processing", "get2")
        BY <3>1 DEF Get
      <3>2. CASE Get("get2", "subscription", "get3")
        BY <3>2 DEF Get
      <3>3. CASE Get("get3", "publisher", "cleanUp")
        BY <3>3 DEF Get
      <3> QED
        BY <2>10, <3>1, <3>2, <3>3 DEF JoinThreads
    <2>11. CASE CleanUp
      BY <2>11, <1>0 DEF CleanUp
    <2>12. CASE Leave
      BY <2>12 DEF Leave
    <2> QED
      BY <1>1, <2>1, <2>2, <2>3, <2>4, <2>5, <2>6, <2>7, <2>8, <2>9, <2>10,
         <2>11, <2>12
         DEF MainNext
  <1>2. CASE Interrupt
    BY <1>2 DEF Interrupt
  <1>3. CASE CallbackNext
    <2>1. CASE GetPacket
      BY <2>1 DEF GetPacket
    <2>2. CASE GetPacketSize
      BY <2>2 DEF GetPacketSize
    <2>3. CASE GetPacketDrops
      BY <2>3 DEF GetPacketDrops
    <2>4. CASE GetPacketPushes
      BY <2>4 DEF GetPacketPushes
    <2> QED
      BY <1>3, <2>1, <2>2, <2>3, <2>4 DEF CallbackNext
  <1>4. CASE FilterNext
    <2>1. CASE FilterTest
      BY <2>1 DEF FilterTest
    <2>2. CASE FilterPop
      BY <2>2 DEF FilterPop
    <2>3. ASSUME NEW picks \in 0 .. MaxPicks, FilterApply(picks)
          PROVE  ServiceInv'
      BY <2>3 DEF FilterApply
    <2>4. CASE FilterEnqueue
      BY <2>4 DEF FilterEnqueue
    <2> QED
      BY <1>4, <2>1, <2>2, <2>3, <2>4 DEF FilterNext
  <1>5. CASE PublisherEnds
    BY <1>5 DEF PublisherEnds, Publisher!End,
         Publisher!EndPrematurely
  <1>6. CASE SubscriberEnds
    BY <1>6 DEF SubscriberEnds, Subscriber!End,
         Subscriber!EndPrematurely
  <1>7. CASE UNCHANGED vars
    BY <1>7 DEF vars
  <1> QED
    BY <1>1, <1>2, <1>3, <1>4, <1>5, <1>6, <1>7 DEF Next

\* What the futures and the services do hold in every reachable state.
LEMMA FuturesHold == Spec => [](TypeOK /\ PhaseInv /\ FutureInv /\ ServiceInv)
  BY TypesHold, FutureInit, FutureStep, ServiceInit, ServiceStep, PTL DEF Spec

\* Whichever step of main fails, and however a worker ends: when start() is
\* left nothing but the publisher's thread may still run, after an exception,
\* and main waits for it; and the services are cleaned up at the end.
THEOREM NothingOutlivesMain == Spec => []NothingOutlivesWhatItUses
  <1>1. TypeOK /\ PhaseInv /\ FutureInv /\ ServiceInv => NothingOutlivesWhatItUses
    <2> SUFFICES ASSUME TypeOK, PhaseInv, FutureInv, ServiceInv
                 PROVE  NothingOutlivesWhatItUses
      OBVIOUS
    <2>1. /\ Idle("publisher") <=> pubThread # "running"
          /\ Idle("subscription") <=> subThread # "running"
          /\ Idle("processing") <=> DataIsIdle
      BY ThreadOfEach DEF Idle, DataIsIdle
    <2>2. \A future \in Futures : future \in {"publisher", "subscription", "processing"}
      BY DEF Futures
    <2>3. exitStatus = "EXIT_SUCCESS" => \A future \in Futures : Idle(future)
      BY <2>1, <2>2 DEF FutureInv
    <2>4. mainPc \in {"cleanUp", "leave"} => Idle("processing") /\ Idle("subscription")
      BY <2>1 DEF FutureInv, Returning, Leaving
    <2>5. ASSUME NEW future \in Futures, ~Idle(future), "logger" \notin services
          PROVE  future = "publisher" /\ exitStatus = "EXIT_FAILURE"
      <3>1. mainPc \in {"options", "logger"} \cup Leaving
        BY <2>5 DEF ServiceInv
      <3>2. CASE mainPc \in {"options", "logger"}
        BY <2>1, <2>2, <2>5, <3>2 DEF PhaseInv, SettingUp, BeforeLoop, DataIsIdle
      <3>3. CASE mainPc \in Leaving
        BY <2>1, <2>2, <2>5, <3>3 DEF FutureInv, Returning, TypeOK
      <3> QED
        BY <3>1, <3>2, <3>3
    <2>6. mainPc = "gone" => /\ \A future \in Futures : Idle(future)
                             /\ callbackPc = "outside"
                             /\ services = {}
      BY <2>1, <2>2 DEF FutureInv, ServiceInv, Returning, Leaving
    <2> QED
      BY <2>3, <2>4, <2>5, <2>6 DEF NothingOutlivesWhatItUses
  <1> QED
    BY <1>1, FuturesHold, PTL

---------------------------------------------------------------------------
(* Why the application stops.                                              *)

Watching == {"loop", "check1", "check2", "check3", "check4"}
Joining == {"stop", "stopSubscriber", "stopPublisher", "get1", "get2", "get3"}

\* Until stop is called nobody has told a worker to end, so that its thread
\* either runs or threw.
UntoldInv ==
    BeforeLoop \/ mainPc \in Watching =>
        /\ mKeepRunning /\ dataPc # "ended"
        /\ pubKeepRunning /\ pubThread # "ended"
        /\ subKeepRunning /\ subThread # "ended"

\* checkFuturesOkay has consumed the future of a worker that threw.
Seen ==
    \/ "publisher" \notin valid /\ pubThread = "threw"
    \/ "subscription" \notin valid /\ subThread = "threw"
SomeThrew == pubThread = "threw" \/ subThread = "threw"

\* The main thread gives up for an exception that it has seen or an interrupt.
ReasonInv ==
    /\ mainPc \in Watching \ {"loop"} => isOkay \/ Seen
    /\ mainPc \in Joining => mInterrupted \/ Seen
    /\ Started /\ mainPc \in Returning => mInterrupted \/ SomeThrew
    /\ Started /\ exitStatus = "EXIT_FAILURE" =>
          \/ mInterrupted /\ SomeThrew
          \/ pubThread = "threw" /\ subThread = "threw"

\* Nobody is told to end at first, and nothing has failed.
LEMMA ReasonInit == Init => UntoldInv /\ ReasonInv
  <1> SUFFICES ASSUME Init PROVE UntoldInv /\ ReasonInv
    OBVIOUS
  <1>1. UntoldInv
    BY DEF Init, Publisher!Init, Subscriber!Init, UntoldInv
  <1>2. ReasonInv
    BY DEF Init, Publisher!Init, ReasonInv, Watching, Joining, Started, Returning, Leaving
  <1> QED
    BY <1>1, <1>2

\* Only stop tells the threads to end.
LEMMA UntoldStep == UntoldInv /\ [Next]_vars => UntoldInv'
  <1> SUFFICES ASSUME UntoldInv, [Next]_vars PROVE UntoldInv'
    OBVIOUS
  <1> USE DEF UntoldInv, BeforeLoop, Watching, pubVars, subVars, dataVars, Others, mainVars
  <1>1. CASE MainNext
    <2>1. CASE SetUp
      <3>1. CASE ReadOptions
        BY <3>1 DEF ReadOptions, Return
      <3>2. CASE InitializeLogger
        BY <3>2 DEF InitializeLogger, Return
      <3>3. CASE InitializeMetrics
        BY <3>3 DEF InitializeMetrics, Return
      <3>4. CASE Construct
        BY <3>4 DEF Construct, Return
      <3> QED
        BY <2>1, <3>1, <3>2, <3>3, <3>4 DEF SetUp
    <2>2. CASE StartPublisher
      BY <2>2 DEF StartPublisher, Publisher!Start
    <2>3. CASE StartSubscriber
      BY <2>3 DEF StartSubscriber, Subscriber!Start
    <2>4. CASE StartProcessing
      BY <2>4 DEF StartProcessing
    <2>5. CASE Watch
      BY <2>5 DEF Watch
    <2>6. CASE CheckFuturesOkay
      <3>1. CASE Check("check1", "publisher", "check2")
        BY <3>1 DEF Check
      <3>2. CASE Check("check2", "subscription", "check3")
        BY <3>2 DEF Check
      <3>3. CASE Check("check3", "processing", "check4")
        BY <3>3 DEF Check
      <3>4. CASE CheckLast
        BY <3>4 DEF CheckLast
      <3> QED
        BY <2>6, <3>1, <3>2, <3>3, <3>4 DEF CheckFuturesOkay
    <2>7. CASE StopProcessing
      BY <2>7 DEF StopProcessing
    <2>8. CASE StopSubscriber
      BY <2>8 DEF StopSubscriber, Subscriber!Stop
    <2>9. CASE StopPublisher
      BY <2>9 DEF StopPublisher, Publisher!Stop
    <2>10. CASE JoinThreads
      <3>1. CASE Get("get1", "processing", "get2")
        BY <3>1 DEF Get
      <3>2. CASE Get("get2", "subscription", "get3")
        BY <3>2 DEF Get
      <3>3. CASE Get("get3", "publisher", "cleanUp")
        BY <3>3 DEF Get
      <3> QED
        BY <2>10, <3>1, <3>2, <3>3 DEF JoinThreads
    <2>11. CASE CleanUp
      BY <2>11 DEF CleanUp
    <2>12. CASE Leave
      BY <2>12 DEF Leave
    <2> QED
      BY <1>1, <2>1, <2>2, <2>3, <2>4, <2>5, <2>6, <2>7, <2>8, <2>9, <2>10,
         <2>11, <2>12
         DEF MainNext
  <1>2. CASE Interrupt
    BY <1>2 DEF Interrupt
  <1>3. CASE CallbackNext
    <2>1. CASE GetPacket
      BY <2>1 DEF GetPacket
    <2>2. CASE GetPacketSize
      BY <2>2 DEF GetPacketSize
    <2>3. CASE GetPacketDrops
      BY <2>3 DEF GetPacketDrops
    <2>4. CASE GetPacketPushes
      BY <2>4 DEF GetPacketPushes
    <2> QED
      BY <1>3, <2>1, <2>2, <2>3, <2>4 DEF CallbackNext
  <1>4. CASE FilterNext
    <2>1. CASE FilterTest
      BY <2>1 DEF FilterTest
    <2>2. CASE FilterPop
      BY <2>2 DEF FilterPop
    <2>3. ASSUME NEW picks \in 0 .. MaxPicks, FilterApply(picks)
          PROVE  UntoldInv'
      BY <2>3 DEF FilterApply
    <2>4. CASE FilterEnqueue
      BY <2>4 DEF FilterEnqueue
    <2> QED
      BY <1>4, <2>1, <2>2, <2>3, <2>4 DEF FilterNext
  <1>5. CASE PublisherEnds
    BY <1>5 DEF PublisherEnds, Publisher!End,
         Publisher!EndPrematurely
  <1>6. CASE SubscriberEnds
    BY <1>6 DEF SubscriberEnds, Subscriber!End,
         Subscriber!EndPrematurely
  <1>7. CASE UNCHANGED vars
    BY <1>7 DEF vars
  <1> QED
    BY <1>1, <1>2, <1>3, <1>4, <1>5, <1>6, <1>7 DEF Next

\* What a thread that threw leaves.
LEMMA ThrewForGood ==
  ASSUME PhaseInv, [Next]_vars
  PROVE  /\ pubThread = "threw" => pubThread' = "threw"
         /\ subThread = "threw" => subThread' = "threw"
         /\ mInterrupted => mInterrupted'
         /\ Started' => Started \/ mainPc = "startPublisher"
  <1> USE DEF PhaseInv, SettingUp, BeforeLoop, Started, pubVars, subVars, dataVars, Others,
              mainVars
  <1>1. CASE MainNext
    <2>1. CASE SetUp
      <3>1. CASE ReadOptions
        BY <3>1 DEF ReadOptions, Return
      <3>2. CASE InitializeLogger
        BY <3>2 DEF InitializeLogger, Return
      <3>3. CASE InitializeMetrics
        BY <3>3 DEF InitializeMetrics, Return
      <3>4. CASE Construct
        BY <3>4 DEF Construct, Return
      <3> QED
        BY <2>1, <3>1, <3>2, <3>3, <3>4 DEF SetUp
    <2>2. CASE StartPublisher
      BY <2>2 DEF StartPublisher, Publisher!Start
    <2>3. CASE StartSubscriber
      BY <2>3 DEF StartSubscriber, Subscriber!Start
    <2>4. CASE StartProcessing
      BY <2>4 DEF StartProcessing
    <2>5. CASE Watch
      BY <2>5 DEF Watch
    <2>6. CASE CheckFuturesOkay
      <3>1. CASE Check("check1", "publisher", "check2")
        BY <3>1 DEF Check
      <3>2. CASE Check("check2", "subscription", "check3")
        BY <3>2 DEF Check
      <3>3. CASE Check("check3", "processing", "check4")
        BY <3>3 DEF Check
      <3>4. CASE CheckLast
        BY <3>4 DEF CheckLast
      <3> QED
        BY <2>6, <3>1, <3>2, <3>3, <3>4 DEF CheckFuturesOkay
    <2>7. CASE StopProcessing
      BY <2>7 DEF StopProcessing
    <2>8. CASE StopSubscriber
      BY <2>8 DEF StopSubscriber, Subscriber!Stop
    <2>9. CASE StopPublisher
      BY <2>9 DEF StopPublisher, Publisher!Stop
    <2>10. CASE JoinThreads
      <3>1. CASE Get("get1", "processing", "get2")
        BY <3>1 DEF Get
      <3>2. CASE Get("get2", "subscription", "get3")
        BY <3>2 DEF Get
      <3>3. CASE Get("get3", "publisher", "cleanUp")
        BY <3>3 DEF Get
      <3> QED
        BY <2>10, <3>1, <3>2, <3>3 DEF JoinThreads
    <2>11. CASE CleanUp
      BY <2>11 DEF CleanUp
    <2>12. CASE Leave
      BY <2>12 DEF Leave
    <2> QED
      BY <1>1, <2>1, <2>2, <2>3, <2>4, <2>5, <2>6, <2>7, <2>8, <2>9, <2>10,
         <2>11, <2>12
         DEF MainNext
  <1>2. CASE Interrupt
    BY <1>2 DEF Interrupt
  <1>3. CASE CallbackNext
    <2>1. CASE GetPacket
      BY <2>1 DEF GetPacket
    <2>2. CASE GetPacketSize
      BY <2>2 DEF GetPacketSize
    <2>3. CASE GetPacketDrops
      BY <2>3 DEF GetPacketDrops
    <2>4. CASE GetPacketPushes
      BY <2>4 DEF GetPacketPushes
    <2> QED
      BY <1>3, <2>1, <2>2, <2>3, <2>4 DEF CallbackNext
  <1>4. CASE FilterNext
    <2>1. CASE FilterTest
      BY <2>1 DEF FilterTest
    <2>2. CASE FilterPop
      BY <2>2 DEF FilterPop
    <2>3. ASSUME NEW picks \in 0 .. MaxPicks, FilterApply(picks)
          PROVE  /\ pubThread = "threw" => pubThread' = "threw"
                 /\ subThread = "threw" => subThread' = "threw"
                 /\ mInterrupted => mInterrupted'
                 /\ Started' => Started \/ mainPc = "startPublisher"
      BY <2>3 DEF FilterApply
    <2>4. CASE FilterEnqueue
      BY <2>4 DEF FilterEnqueue
    <2> QED
      BY <1>4, <2>1, <2>2, <2>3, <2>4 DEF FilterNext
  <1>5. CASE PublisherEnds
    BY <1>5 DEF PublisherEnds, Publisher!End,
         Publisher!EndPrematurely
  <1>6. CASE SubscriberEnds
    BY <1>6 DEF SubscriberEnds, Subscriber!End,
         Subscriber!EndPrematurely
  <1>7. CASE UNCHANGED vars
    BY <1>7 DEF vars
  <1> QED
    BY <1>1, <1>2, <1>3, <1>4, <1>5, <1>6, <1>7 DEF Next

\* While main watches, a future that is consumed is of a worker that threw.
LEMMA ConsumedThrew ==
  ASSUME TypeOK, PhaseInv, FutureInv, UntoldInv, mainPc \in Watching
  PROVE  /\ "publisher" \notin valid => pubThread = "threw"
         /\ "subscription" \notin valid => subThread = "threw"
         /\ "processing" \in valid
  <1>1. pubThread # "unstarted" /\ subThread # "unstarted" /\ dataPc # "unstarted"
    BY DEF PhaseInv, Watching, SettingUp, BeforeLoop, Leaving
  <1>2. pubThread # "ended" /\ subThread # "ended" /\ dataPc # "ended"
    BY DEF UntoldInv
  <1>3. pubThread \in ThreadStates /\ subThread \in ThreadStates
    BY DEF TypeOK
  <1> QED
    BY <1>1, <1>2, <1>3 DEF FutureInv, DataIsIdle, ThreadStates

\* Every step to the end has its reason.
LEMMA ReasonStep ==
    TypeOK /\ PhaseInv /\ FutureInv /\ UntoldInv /\ ReasonInv /\ [Next]_vars
        => ReasonInv'
  <1> SUFFICES ASSUME TypeOK /\ PhaseInv /\ FutureInv /\ UntoldInv /\ ReasonInv, [Next]_vars
               PROVE  ReasonInv'
    OBVIOUS
  <1> USE ThrewForGood
      DEF ReasonInv, Seen, SomeThrew, Started, Watching, Joining, Returning, Leaving, pubVars,
          subVars, dataVars, Others, mainVars
  <1>1. CASE MainNext
    <2>1. CASE SetUp
      <3>1. CASE ReadOptions
        BY <3>1 DEF ReadOptions, Return, PhaseInv, SettingUp
      <3>2. CASE InitializeLogger
        BY <3>2 DEF InitializeLogger, Return, PhaseInv, SettingUp
      <3>3. CASE InitializeMetrics
        BY <3>3 DEF InitializeMetrics, Return, PhaseInv, SettingUp
      <3>4. CASE Construct
        BY <3>4 DEF Construct, Return, PhaseInv, SettingUp
      <3> QED
        BY <2>1, <3>1, <3>2, <3>3, <3>4 DEF SetUp
    <2>2. CASE StartPublisher
      BY <2>2 DEF StartPublisher, Publisher!Start, FutureInv
    <2>3. CASE StartSubscriber
      BY <2>3 DEF StartSubscriber, Subscriber!Start
    <2>4. CASE StartProcessing
      BY <2>4 DEF StartProcessing
    <2>5. CASE Watch
      BY <2>5 DEF Watch
    <2>6. CASE CheckFuturesOkay
      <3>1. CASE Check("check1", "publisher", "check2")
        <4>1. mainPc = "check1" /\ UNCHANGED <<mInterrupted, exitStatus, pubThread, subThread>>
          BY <3>1 DEF Check
        <4>2. isOkay' \/ ~isOkay \/ "publisher" \notin valid \/ pubThread = "threw"
          BY <3>1, ThreadOfEach, Zenon DEF Check
        <4>3. /\ \A future \in Futures : future \notin valid => future \notin valid'
              /\ pubThread = "threw" => "publisher" \notin valid'
          BY <3>1, ReadyOfEach DEF Check
        <4>4. isOkay' \/ Seen'
          BY <4>1, <4>2, <4>3, ConsumedThrew DEF Futures
        <4>5. mainPc' \in Watching \cup {"stop"} /\ (mainPc' = "stop" => ~isOkay')
          BY <3>1 DEF Check
        <4> QED
          BY <4>1, <4>4, <4>5, Zenon
      <3>2. CASE Check("check2", "subscription", "check3")
        <4>1. mainPc = "check2" /\ UNCHANGED <<mInterrupted, exitStatus, pubThread, subThread>>
          BY <3>2 DEF Check
        <4>2. isOkay' \/ ~isOkay \/ "subscription" \notin valid \/ subThread = "threw"
          BY <3>2, ThreadOfEach, Zenon DEF Check
        <4>3. /\ \A future \in Futures : future \notin valid => future \notin valid'
              /\ subThread = "threw" => "subscription" \notin valid'
          BY <3>2, ReadyOfEach DEF Check
        <4>4. isOkay' \/ Seen'
          BY <4>1, <4>2, <4>3, ConsumedThrew DEF Futures
        <4>5. mainPc' \in Watching \cup {"stop"} /\ (mainPc' = "stop" => ~isOkay')
          BY <3>2 DEF Check
        <4> QED
          BY <4>1, <4>4, <4>5, Zenon
      <3>3. CASE Check("check3", "processing", "check4")
        <4>1. mainPc = "check3" /\ UNCHANGED <<mInterrupted, exitStatus, pubThread, subThread>>
          BY <3>3 DEF Check
        <4>2. isOkay' \/ ~isOkay
          <5>1. "processing" \in valid /\ ThreadOf("processing") # "threw"
            BY <4>1, ConsumedThrew, ThreadOfEach DEF DataIsIdle
          <5> QED
            BY <3>3, <5>1, Zenon DEF Check
        <4>3. Seen => Seen'
          BY <3>3, <4>1 DEF Check
        <4>4. mainPc' = "check4"
          BY <3>3 DEF Check
        <4> QED
          BY <4>1, <4>2, <4>3, <4>4
      <3>4. CASE CheckLast
        <4>1. mainPc = "check4" /\ UNCHANGED <<mInterrupted, exitStatus, pubThread, subThread>>
          BY <3>4 DEF CheckLast
        <4>2. isOkay' \/ ~isOkay \/ "publisher" \notin valid \/ pubThread = "threw"
          BY <3>4, ThreadOfEach, Zenon DEF CheckLast
        <4>3. /\ \A future \in Futures : future \notin valid => future \notin valid'
              /\ pubThread = "threw" => "publisher" \notin valid'
          BY <3>4, ReadyOfEach DEF CheckLast
        <4>4. isOkay' \/ Seen'
          BY <4>1, <4>2, <4>3, ConsumedThrew DEF Futures
        <4>5. mainPc' \in Watching \cup {"stop"} /\ (mainPc' = "stop" => ~isOkay')
          BY <3>4 DEF CheckLast
        <4> QED
          BY <4>1, <4>4, <4>5, Zenon
      <3> QED
        BY <2>6, <3>1, <3>2, <3>3, <3>4 DEF CheckFuturesOkay
    <2>7. CASE StopProcessing
      BY <2>7 DEF StopProcessing
    <2>8. CASE StopSubscriber
      BY <2>8 DEF StopSubscriber, Subscriber!Stop
    <2>9. CASE StopPublisher
      BY <2>9 DEF StopPublisher, Publisher!Stop
    <2>10. CASE JoinThreads
      <3>1. CASE Get("get1", "processing", "get2")
        <4>1. ThreadOf("processing") # "threw"
          BY ThreadOfEach DEF DataIsIdle
        <4> QED
          BY <3>1, <4>1 DEF Get, FutureInv
      <3>2. CASE Get("get2", "subscription", "get3")
        BY <3>2, ThreadOfEach DEF Get, FutureInv
      <3>3. CASE Get("get3", "publisher", "cleanUp")
        BY <3>3, ThreadOfEach DEF Get, FutureInv
      <3> QED
        BY <2>10, <3>1, <3>2, <3>3 DEF JoinThreads
    <2>11. CASE CleanUp
      BY <2>11 DEF CleanUp
    <2>12. CASE Leave
      BY <2>12 DEF Leave
    <2> QED
      BY <1>1, <2>1, <2>2, <2>3, <2>4, <2>5, <2>6, <2>7, <2>8, <2>9, <2>10,
         <2>11, <2>12
         DEF MainNext
  <1>2. CASE Interrupt
    BY <1>2 DEF Interrupt
  <1>3. CASE CallbackNext
    <2>1. CASE GetPacket
      BY <2>1 DEF GetPacket
    <2>2. CASE GetPacketSize
      BY <2>2 DEF GetPacketSize
    <2>3. CASE GetPacketDrops
      BY <2>3 DEF GetPacketDrops
    <2>4. CASE GetPacketPushes
      BY <2>4 DEF GetPacketPushes
    <2> QED
      BY <1>3, <2>1, <2>2, <2>3, <2>4 DEF CallbackNext
  <1>4. CASE FilterNext
    <2>1. CASE FilterTest
      BY <2>1 DEF FilterTest
    <2>2. CASE FilterPop
      BY <2>2 DEF FilterPop
    <2>3. ASSUME NEW picks \in 0 .. MaxPicks, FilterApply(picks)
          PROVE  ReasonInv'
      BY <2>3 DEF FilterApply
    <2>4. CASE FilterEnqueue
      BY <2>4 DEF FilterEnqueue
    <2> QED
      BY <1>4, <2>1, <2>2, <2>3, <2>4 DEF FilterNext
  <1>5. CASE PublisherEnds
    BY <1>5 DEF PublisherEnds, Publisher!End,
         Publisher!EndPrematurely
  <1>6. CASE SubscriberEnds
    BY <1>6 DEF SubscriberEnds, Subscriber!End,
         Subscriber!EndPrematurely
  <1>7. CASE UNCHANGED vars
    BY <1>7 DEF vars
  <1> QED
    BY <1>1, <1>2, <1>3, <1>4, <1>5, <1>6, <1>7 DEF Next

\* The application stops only when it was told to or a worker threw, and says
\* that it failed only for an exception it did not see while it watched.
THEOREM StopsForGoodReason == Spec => []StopsForAReason
  <1>1. TypeOK /\ ReasonInv => StopsForAReason
    BY DEF StopsForAReason, Stopping, ReasonInv, Seen, SomeThrew, Joining, Returning, Leaving
  <1> QED
    BY <1>1, FuturesHold, ReasonInit, UntoldStep, ReasonStep, PTL DEF Spec

---------------------------------------------------------------------------
(* The shutdown comes to an end.  That each thread takes its steps is      *)
(* fairness and not proved here; that the steps lead there is.             *)

Waiting == {"get1", "get2", "get3"} \cup Returning

\* Whoever runs while main waits was told to end, even if the set-up or an
\* exception brought main there.
NobodyWaitsForTheUntold ==
    mainPc \in Waiting =>
        /\ pubThread = "running" => ~pubKeepRunning
        /\ subThread = "running" => ~subKeepRunning
        /\ ~DataIsIdle => ~mKeepRunning

\* The threads are told one after the other.
ToldInv ==
    /\ NobodyWaitsForTheUntold
    /\ mainPc \in {"stopSubscriber", "stopPublisher"} => ~mKeepRunning
    /\ mainPc = "stopPublisher" => ~subKeepRunning

\* Every step keeps the order in which they are told.
LEMMA ToldStep == PhaseInv /\ ToldInv /\ [Next]_vars => ToldInv'
  <1> SUFFICES ASSUME PhaseInv, ToldInv, [Next]_vars PROVE ToldInv'
    OBVIOUS
  <1> USE DEF ToldInv, NobodyWaitsForTheUntold, DataIsIdle, Waiting, Returning, Leaving, PhaseInv,
              SettingUp, BeforeLoop, pubVars, subVars, dataVars, Others, mainVars
  <1>1. CASE MainNext
    <2>1. CASE SetUp
      BY <2>1 DEF SetUp, ReadOptions, InitializeLogger, InitializeMetrics, Construct, Return
    <2>2. CASE StartPublisher
      BY <2>2 DEF StartPublisher, Publisher!Start
    <2>3. CASE StartSubscriber
      BY <2>3 DEF StartSubscriber, Subscriber!Start
    <2>4. CASE StartProcessing
      BY <2>4 DEF StartProcessing
    <2>5. CASE Watch
      BY <2>5 DEF Watch
    <2>6. CASE CheckFuturesOkay
      BY <2>6 DEF CheckFuturesOkay, Check, CheckLast
    <2>7. CASE StopProcessing
      BY <2>7 DEF StopProcessing
    <2>8. CASE StopSubscriber
      BY <2>8 DEF StopSubscriber, Subscriber!Stop
    <2>9. CASE StopPublisher
      BY <2>9 DEF StopPublisher, Publisher!Stop
    <2>10. CASE JoinThreads
      BY <2>10 DEF JoinThreads, Get
    <2>11. CASE CleanUp
      BY <2>11 DEF CleanUp
    <2>12. CASE Leave
      BY <2>12 DEF Leave
    <2> QED
      BY <1>1, <2>1, <2>2, <2>3, <2>4, <2>5, <2>6, <2>7, <2>8, <2>9, <2>10,
         <2>11, <2>12
         DEF MainNext
  <1>2. CASE Interrupt
    BY <1>2 DEF Interrupt
  <1>3. CASE CallbackNext
    BY <1>3 DEF CallbackNext, GetPacket, GetPacketSize, GetPacketDrops, GetPacketPushes
  <1>4. CASE FilterNext
    BY <1>4 DEF FilterNext, FilterTest, FilterPop, FilterApply, FilterEnqueue
  <1>5. CASE PublisherEnds
    BY <1>5 DEF PublisherEnds, Publisher!End, Publisher!EndPrematurely
  <1>6. CASE SubscriberEnds
    BY <1>6 DEF SubscriberEnds, Subscriber!End, Subscriber!EndPrematurely
  <1>7. CASE UNCHANGED vars
    BY <1>7 DEF vars
  <1> QED
    BY <1>1, <1>2, <1>3, <1>4, <1>5, <1>6, <1>7 DEF Next

\* Every thread main waits for, in stop() or in the destructors of its futures,
\* was told to end before (filterPicker.cpp:482-508).
THEOREM WaitsForTheTold == Spec => []NobodyWaitsForTheUntold
  <1>1. Init => ToldInv
    BY DEF Init, ToldInv, NobodyWaitsForTheUntold, Waiting, Returning, Leaving
  <1>2. ToldInv => NobodyWaitsForTheUntold
    BY DEF ToldInv
  <1> QED
    BY <1>1, <1>2, ToldStep, TypesHold, PTL DEF Spec

\* Something has happened that has to end the process.
Alarm == mInterrupted \/ SomeThrew

\* The round of checkFuturesOkay under way will not notice it: it looked at the
\* subscription before that threw, and handleMainThread goes round once more.
Missed == isOkay /\ ~mInterrupted /\ pubThread # "threw"

\* How many steps the main thread can still take after an alarm.
MainStepsLeft ==
    CASE mainPc = "options"         -> 21
      [] mainPc = "logger"          -> 20
      [] mainPc = "metrics"         -> 19
      [] mainPc = "detector"        -> 18
      [] mainPc = "startPublisher"  -> 17
      [] mainPc = "startSubscriber" -> 16
      [] mainPc = "startProcessing" -> 15
      [] mainPc = "loop"            -> IF mInterrupted THEN 9 ELSE 14
      [] mainPc = "check1"          -> 13
      [] mainPc = "check2"          -> 12
      [] mainPc = "check3"          -> IF Missed THEN 16 ELSE 11
      [] mainPc = "check4"          -> IF Missed THEN 15 ELSE 10
      [] mainPc = "stop"            -> 8
      [] mainPc = "stopSubscriber"  -> 7
      [] mainPc = "stopPublisher"   -> 6
      [] mainPc = "get1"            -> 5
      [] mainPc = "get2"            -> 4
      [] mainPc = "get3"            -> 3
      [] mainPc = "cleanUp"         -> 2
      [] mainPc = "leave"           -> 1
      [] mainPc = "gone"            -> 0

\* What a look of checkFuturesOkay leaves of isOkay.
LEMMA LookFindsWhatThrew ==
  /\ Check("check1", "publisher", "check2") => mainPc = "check1" /\ mainPc' = "check2"
  /\ Check("check2", "subscription", "check3") =>
        /\ mainPc = "check2" /\ mainPc' = "check3"
        /\ subThread = "threw" => ~isOkay'
  /\ Check("check3", "processing", "check4") =>
        /\ mainPc = "check3" /\ mainPc' = "check4"
        /\ isOkay' => isOkay
  /\ CheckLast =>
        /\ mainPc = "check4" /\ mainPc' \in {"loop", "stop"}
        /\ ~isOkay \/ pubThread = "threw" => mainPc' = "stop"
  <1>1. ASSUME Check("check1", "publisher", "check2")
        PROVE  mainPc = "check1" /\ mainPc' = "check2"
    BY <1>1 DEF Check
  <1>2. ASSUME Check("check2", "subscription", "check3")
        PROVE  /\ mainPc = "check2" /\ mainPc' = "check3"
               /\ subThread = "threw" => ~isOkay'
    BY <1>2, ThreadOfEach, Zenon DEF Check
  <1>3. ASSUME Check("check3", "processing", "check4")
        PROVE  /\ mainPc = "check3" /\ mainPc' = "check4"
               /\ isOkay' => isOkay
    BY <1>3, Zenon DEF Check
  <1>4. ASSUME CheckLast
        PROVE  /\ mainPc = "check4" /\ mainPc' \in {"loop", "stop"}
               /\ ~isOkay \/ pubThread = "threw" => mainPc' = "stop"
    BY <1>4, Zenon DEF CheckLast
  <1> QED
    BY <1>1, <1>2, <1>3, <1>4

\* What a step of another thread leaves of the main thread.
LEMMA OthersLeaveMain ==
  ASSUME Interrupt \/ CallbackNext \/ FilterNext \/ PublisherEnds \/ SubscriberEnds
  PROVE  UNCHANGED <<mainPc, isOkay>>
  BY DEF Interrupt, CallbackNext, GetPacket, GetPacketSize, GetPacketDrops, GetPacketPushes,
         FilterNext, FilterTest, FilterPop, FilterApply, FilterEnqueue, PublisherEnds,
         SubscriberEnds, mainVars

\* What a step of the main thread does after an alarm.
LEMMA MainStepsAreLeft ==
  ASSUME MainNext, Alarm
  PROVE  MainStepsLeft' < MainStepsLeft
  <1>1. UNCHANGED mInterrupted
    BY DEF MainNext, SetUp, ReadOptions, InitializeLogger, InitializeMetrics, Construct,
           StartPublisher, StartSubscriber, StartProcessing, Watch, CheckFuturesOkay, Check,
           CheckLast, StopProcessing, StopSubscriber, StopPublisher, JoinThreads, Get,
           CleanUp, Leave
  <1>2. CASE SetUp
    BY <1>2 DEF SetUp, ReadOptions, InitializeLogger, InitializeMetrics, Construct, Return,
                MainStepsLeft
  <1>3. CASE StartPublisher \/ StartSubscriber \/ StartProcessing
    BY <1>1, <1>3 DEF StartPublisher, StartSubscriber, StartProcessing, MainStepsLeft
  <1>4. CASE Watch
    BY <1>4 DEF Watch, MainStepsLeft
  <1>5. CASE CheckFuturesOkay
    <2>1. UNCHANGED <<pubThread, subThread>>
      BY <1>5 DEF CheckFuturesOkay, Check, CheckLast, Others, pubVars, subVars
    <2>2. CASE Check("check1", "publisher", "check2")
      BY <2>2, LookFindsWhatThrew DEF MainStepsLeft
    <2>3. CASE Check("check2", "subscription", "check3")
      <3>1. ~Missed'
        BY <1>1, <2>1, <2>3, LookFindsWhatThrew DEF Alarm, SomeThrew, Missed
      <3> QED
        BY <2>3, <3>1, LookFindsWhatThrew DEF MainStepsLeft
    <2>4. CASE Check("check3", "processing", "check4")
      <3>1. Missed' => Missed
        BY <1>1, <2>1, <2>4, LookFindsWhatThrew DEF Missed
      <3> QED
        BY <2>4, <3>1, LookFindsWhatThrew DEF MainStepsLeft
    <2>5. CASE CheckLast
      <3>1. mainPc' = "stop" \/ mInterrupted' \/ Missed
        BY <1>1, <2>5, LookFindsWhatThrew DEF Missed
      <3> QED
        BY <2>5, <3>1, LookFindsWhatThrew DEF MainStepsLeft
    <2> QED
      BY <1>5, <2>2, <2>3, <2>4, <2>5 DEF CheckFuturesOkay
  <1>6. CASE StopProcessing \/ StopSubscriber \/ StopPublisher
    BY <1>6 DEF StopProcessing, StopSubscriber, StopPublisher, MainStepsLeft
  <1>7. CASE JoinThreads
    BY <1>7 DEF JoinThreads, Get, MainStepsLeft
  <1>8. CASE CleanUp \/ Leave
    BY <1>8 DEF CleanUp, Leave, MainStepsLeft
  <1> QED
    BY <1>2, <1>3, <1>4, <1>5, <1>6, <1>7, <1>8 DEF MainNext

\* What a step of another thread does to it.
LEMMA MainIsNotPutOff ==
  ASSUME TypeOK, PhaseInv, Next, ~MainNext, Alarm
  PROVE  MainStepsLeft' <= MainStepsLeft
  <1>1. UNCHANGED <<mainPc, isOkay>>
    BY OthersLeaveMain DEF Next
  <1>2. mInterrupted => mInterrupted'
    BY ThrewForGood
  <1>3. Missed' => Missed
    BY <1>1, <1>2, ThrewForGood, Zenon DEF Missed
  <1>4. mainPc \in {"options", "logger", "metrics", "detector", "startPublisher",
                    "startSubscriber", "startProcessing", "loop", "check1", "check2",
                    "check3", "check4", "stop", "stopSubscriber", "stopPublisher", "get1",
                    "get2", "get3", "cleanUp", "leave", "gone"}
    BY DEF TypeOK
  <1> QED
    BY <1>1, <1>2, <1>3, <1>4 DEF MainStepsLeft

\* After a signal, or the exception of a worker, the main thread is within
\* twenty-one of its own steps of the end, and nobody puts that off: the round of
\* checkFuturesOkay under way may miss the exception, the next one does not
\* (filterPicker.cpp:482-535, 575-642).
THEOREM AlarmEndsMain ==
    Spec => [][Alarm =>
                  /\ Alarm' /\ MainStepsLeft' \in 0 .. 21
                  /\ MainNext => MainStepsLeft' < MainStepsLeft
                  /\ ~MainNext => MainStepsLeft' <= MainStepsLeft]_vars
  <1> DEFINE Ends ==
        Alarm =>
            /\ Alarm' /\ MainStepsLeft' \in 0 .. 21
            /\ MainNext => MainStepsLeft' < MainStepsLeft
            /\ ~MainNext => MainStepsLeft' <= MainStepsLeft
  <1>1. ASSUME TypeOK, TypeOK', PhaseInv, Next, Alarm
        PROVE  Ends
    <2>1. Alarm'
      BY <1>1, ThrewForGood DEF Alarm, SomeThrew
    <2>2. mainPc' \in {"options", "logger", "metrics", "detector", "startPublisher",
                       "startSubscriber", "startProcessing", "loop", "check1", "check2",
                       "check3", "check4", "stop", "stopSubscriber", "stopPublisher",
                       "get1", "get2", "get3", "cleanUp", "leave", "gone"}
      BY <1>1 DEF TypeOK
    <2>3. MainStepsLeft' \in 0 .. 21
      BY <2>2 DEF MainStepsLeft
    <2> QED
      BY <1>1, <2>1, <2>3, MainStepsAreLeft, MainIsNotPutOff
  <1>2. TypeOK /\ TypeOK' /\ PhaseInv /\ [Next]_vars => [Ends]_vars
    BY <1>1
  <1> HIDE DEF Ends
  <1>3. Spec => [][Ends]_vars
    BY <1>2, TypesHold, PTL DEF Spec
  <1> QED
    BY <1>3 DEF Ends

\* How many steps the thread in filterPackets can still take once mKeepRunning
\* is cleared.
DataStepsLeft ==
    CASE DataIsIdle         -> 0
      [] dataPc = "test"    -> 1
      [] dataPc = "enqueue" -> 1 + picksLeft
      [] dataPc = "apply"   -> 2 + MaxPicks
      [] dataPc = "pop"     -> 3 + MaxPicks

\* Once mKeepRunning is cleared the data thread is on its way out, and nobody
\* puts that off: it finishes the packet it holds and leaves the others in the
\* queue (filterPicker.cpp:386-442).
THEOREM StopEndsTheDataThread ==
    Spec => [][~mKeepRunning =>
                  /\ ~mKeepRunning' /\ DataStepsLeft' \in 0 .. 3 + MaxPicks
                  /\ FilterNext => DataStepsLeft' < DataStepsLeft
                  /\ ~FilterNext => DataStepsLeft' = DataStepsLeft]_vars
  <1> DEFINE Ends ==
        ~mKeepRunning =>
            /\ ~mKeepRunning' /\ DataStepsLeft' \in 0 .. 3 + MaxPicks
            /\ FilterNext => DataStepsLeft' < DataStepsLeft
            /\ ~FilterNext => DataStepsLeft' = DataStepsLeft
  <1>1. ASSUME TypeOK, TypeOK', UntoldInv, Next, ~mKeepRunning
        PROVE  Ends
    <2> USE NetworkDetectorAssumption DEF NetworkDetectorAssumption, DataIsIdle
    <2>1. /\ dataPc \in {"unstarted", "test", "pop", "apply", "enqueue", "ended"}
          /\ dataPc' \in {"unstarted", "test", "pop", "apply", "enqueue", "ended"}
          /\ picksLeft \in 0 .. MaxPicks /\ picksLeft' \in 0 .. MaxPicks
      BY <1>1 DEF TypeOK
    <2>2. DataStepsLeft' \in 0 .. 3 + MaxPicks
      BY <2>1 DEF DataStepsLeft
    <2>3. CASE FilterNext
      <3>1. CASE FilterTest
        BY <1>1, <2>1, <2>2, <2>3, <3>1 DEF FilterTest, DataStepsLeft
      <3>2. CASE FilterPop
        BY <1>1, <2>1, <2>2, <2>3, <3>2 DEF FilterPop, DataStepsLeft
      <3>3. ASSUME NEW picks \in 0 .. MaxPicks, FilterApply(picks)
            PROVE  Ends
        BY <1>1, <2>1, <2>2, <2>3, <3>3 DEF FilterApply, DataStepsLeft
      <3>4. CASE FilterEnqueue
        BY <1>1, <2>1, <2>2, <2>3, <3>4 DEF FilterEnqueue, DataStepsLeft
      <3> QED
        BY <2>3, <3>1, <3>2, <3>3, <3>4 DEF FilterNext
    <2>4. CASE ~FilterNext
      <3>1. CASE MainNext \/ Interrupt \/ PublisherEnds \/ SubscriberEnds
        <4>1. ~BeforeLoop
          BY <1>1 DEF UntoldInv
        <4>2. UNCHANGED <<picksLeft, dataPc>>
          BY <3>1, <4>1, OtherStepsLeavePackets DEF packetVars, BeforeLoop
        <4>3. ~mKeepRunning'
          BY <1>1, <3>1, <4>1
             DEF MainNext, SetUp, ReadOptions, InitializeLogger, InitializeMetrics, Construct,
                 StartPublisher, StartSubscriber, StartProcessing, Watch, CheckFuturesOkay,
                 Check, CheckLast, StopProcessing, StopSubscriber, StopPublisher, JoinThreads,
                 Get, CleanUp, Leave, Interrupt, PublisherEnds, SubscriberEnds, BeforeLoop,
                 Others, dataVars
        <4> QED
          BY <2>2, <2>4, <4>2, <4>3 DEF DataStepsLeft
      <3>2. CASE CallbackNext
        <4>1. UNCHANGED dataVars
          BY <3>2 DEF CallbackNext, GetPacket, GetPacketSize, GetPacketDrops, GetPacketPushes
        <4> QED
          BY <1>1, <2>2, <2>4, <4>1 DEF DataStepsLeft, dataVars
      <3> QED
        BY <1>1, <2>4, <3>1, <3>2 DEF Next
    <2> QED
      BY <2>3, <2>4
  <1>2. TypeOK /\ TypeOK' /\ UntoldInv /\ [Next]_vars => [Ends]_vars
    BY <1>1
  <1> HIDE DEF Ends
  <1>3. Spec => [][Ends]_vars
    BY <1>2, TypesHold, ReasonInit, UntoldStep, PTL DEF Spec
  <1> QED
    BY <1>3 DEF Ends

\* How many steps the callback in getPacket can still take before it returns.
CallbackStepsLeft ==
    CASE callbackPc = "outside" -> 0
      [] callbackPc = "push"    -> 1
      [] callbackPc = "pop"     -> 2 * Len(mImportQueue) + 2
      [] callbackPc = "size"    -> 2 * Len(mImportQueue) + 3

\* A callback that has begun comes back, and the subscriber's thread, which
\* waits for it, can end: each step of the loop that makes room brings it nearer,
\* and what the data thread pops can only shorten the loop
\* (filterPicker.cpp:444-465).
THEOREM GetPacketComesBack ==
    Spec => [][callbackPc # "outside" =>
                  /\ CallbackStepsLeft' \in Nat
                  /\ CallbackNext => CallbackStepsLeft' < CallbackStepsLeft
                  /\ ~CallbackNext => CallbackStepsLeft' <= CallbackStepsLeft]_vars
  <1> DEFINE ComesBack ==
        callbackPc # "outside" =>
            /\ CallbackStepsLeft' \in Nat
            /\ CallbackNext => CallbackStepsLeft' < CallbackStepsLeft
            /\ ~CallbackNext => CallbackStepsLeft' <= CallbackStepsLeft
  <1>1. ASSUME TypeOK, TypeOK', Next, callbackPc # "outside"
        PROVE  ComesBack
    <2>1. Len(mImportQueue) \in Nat /\ Len(mImportQueue') \in Nat
      BY <1>1 DEF TypeOK
    <2>2. /\ callbackPc \in {"size", "pop", "push"}
          /\ callbackPc' \in {"outside", "size", "pop", "push"}
      BY <1>1 DEF TypeOK
    <2>3. CallbackStepsLeft \in Nat /\ CallbackStepsLeft' \in Nat
      BY <2>1, <2>2 DEF CallbackStepsLeft
    <2>4. CASE CallbackNext
      <3>1. CASE GetPacket
        BY <1>1, <3>1 DEF GetPacket
      <3>2. CASE GetPacketSize
        BY <2>1, <2>3, <2>4, <3>2 DEF GetPacketSize, CallbackStepsLeft
      <3>3. CASE GetPacketDrops
        <4>1. CASE mImportQueue # <<>>
          <5>1. Len(mImportQueue') = Len(mImportQueue) - 1
            BY <1>1, <3>3, <4>1, TailIsShorter DEF GetPacketDrops, TypeOK
          <5> QED
            BY <2>1, <2>3, <2>4, <3>3, <4>1, <5>1 DEF GetPacketDrops, CallbackStepsLeft
        <4>2. CASE mImportQueue = <<>>
          BY <2>1, <2>3, <2>4, <3>3, <4>2 DEF GetPacketDrops, CallbackStepsLeft
        <4> QED
          BY <4>1, <4>2
      <3>4. CASE GetPacketPushes
        BY <2>1, <2>3, <2>4, <3>4 DEF GetPacketPushes, CallbackStepsLeft
      <3> QED
        BY <2>4, <3>1, <3>2, <3>3, <3>4 DEF CallbackNext
    <2>5. CASE ~CallbackNext
      <3>1. callbackPc' = callbackPc /\ Len(mImportQueue') <= Len(mImportQueue)
        <4>1. CASE FilterPop
          BY <1>1, <2>1, <4>1, TailIsShorter DEF FilterPop, callbackVars, TypeOK
        <4>2. CASE FilterNext /\ ~FilterPop
          BY <2>1, <4>2 DEF FilterNext, FilterTest, FilterApply, FilterEnqueue, callbackVars
        <4>3. CASE MainNext \/ Interrupt \/ PublisherEnds \/ SubscriberEnds
          BY <2>1, <4>3, OtherStepsLeavePackets DEF packetVars, callbackVars
        <4> QED
          BY <1>1, <2>5, <4>1, <4>2, <4>3 DEF Next
      <3> QED
        BY <2>1, <2>2, <2>3, <2>5, <3>1 DEF CallbackStepsLeft
    <2> QED
      BY <2>4, <2>5
  <1>2. TypeOK /\ TypeOK' /\ [Next]_vars => [ComesBack]_vars
    BY <1>1
  <1> HIDE DEF ComesBack
  <1>3. Spec => [][ComesBack]_vars
    BY <1>2, TypesHold, PTL DEF Spec
  <1> QED
    BY <1>3 DEF ComesBack
=============================================================================
