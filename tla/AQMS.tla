-------------------------------- MODULE AQMS --------------------------------
(***************************************************************************)
(* The client of the seismic archive (src/training/aqms.hpp), without its  *)
(* connection: which picks a query for a stream returns and in what order, *)
(* which file root holds an event, and how the records of a waveform       *)
(* become the packets of a trace.  The archive is external: its answers    *)
(* are parameters.                                                         *)
(***************************************************************************)
EXTENDS Integers, Sequences, FiniteSets

CONSTANTS
    QueryLimit,   \* the LIMIT of the pick query
    OriginTime,   \* of each event of the archive
    WaveRoots     \* waveRoots: a sequence of [onTime, offTime]

ASSUME AQMSAssumption ==
    /\ QueryLimit \in Nat
    /\ IsFiniteSet(DOMAIN OriginTime)
    /\ \A event \in DOMAIN OriginTime : OriginTime[event] \in Nat

\* Every order of the elements of a sequence.
Rearrangements(n) == {p \in [1 .. n -> 1 .. n] : \A j \in 1 .. n : \E i \in 1 .. n : p[i] = j}
Orders(s) == {[i \in 1 .. Len(s) |-> s[p[i]]] : p \in Rearrangements(Len(s))}

\* std::sort by the start times: packets of one time come in any order.
Sorts(packets) ==
    {s \in Orders(packets) : \A i \in 2 .. Len(s) : s[i - 1].start <= s[i].start}

\* getPPicksForStream: the newest QueryLimit of the events the query matches,
\* in the order of their origin times.
PicksForStream(matching) ==
    LET size == IF Cardinality(matching) < QueryLimit THEN Cardinality(matching)
                ELSE QueryLimit
    IN  {s \in [1 .. size -> matching] :
            /\ \A i, j \in 1 .. size :
                  i < j => s[i] # s[j] /\ OriginTime[s[i]] <= OriginTime[s[j]]
            /\ \A event \in matching : \A i \in 1 .. size :
                  (\A j \in 1 .. size : s[j] # event)
                      => OriginTime[event] <= OriginTime[s[i]]}

\* getFileRoot: is there one for an event?  It throws otherwise.
HasFileRoot(event) ==
    \E i \in 1 .. Len(WaveRoots) :
        /\ WaveRoots[i].onTime <= OriginTime[event]
        /\ OriginTime[event] < WaveRoots[i].offTime

---------------------------------------------------------------------------
(* unpack.  A record of a waveform is [start, data, parses]; a record that *)
(* msr3_parse refuses never moves the offset on.                           *)

UnpackEnds(records) == \A i \in 1 .. Len(records) : records[i].parses

Packet(record) == [start |-> record.start, data |-> record.data]

NonZero(data) == {j \in 1 .. Len(data) : data[j] # 0}
FirstOf(S) == CHOOSE k \in S : \A j \in S : k <= j
LastIn(S) == CHOOSE k \in S : \A j \in S : j <= k

\* Variant with a mistake, for the mutation runs: every packet is cut.
PurgeEveryPacket(packets) ==
    [i \in 1 .. Len(packets) |->
        IF NonZero(packets[i].data) = {} THEN packets[i]
        ELSE [packets[i] EXCEPT !.data = SubSeq(@, 1, FirstOf(NonZero(@)))]]

\* The loop over the packets from the last one on stops after the first one
\* that is not all zeros; the loop over its samples does not stop, and leaves
\* the packet cut after its first non-zero sample.
PurgeTrailingZeros(packets) ==
    LET alive == {i \in 1 .. Len(packets) : NonZero(packets[i].data) # {}}
    IN  IF alive = {} THEN packets
        ELSE [packets EXCEPT ![LastIn(alive)].data =
                 SubSeq(@, 1, FirstOf(NonZero(@)))]

\* The packets unpack may return.
Unpack(records) ==
    {PurgeTrailingZeros(packets) :
        packets \in Sorts([i \in 1 .. Len(records) |-> Packet(records[i])])}

---------------------------------------------------------------------------
(* What unpack keeps, defined on its own, and what it is asked to keep.     *)

\* Is every sample zero?
Silent(data) == \A j \in 1 .. Len(data) : data[j] = 0

LastNotSilent(packets, i) ==
    /\ ~Silent(packets[i].data)
    /\ \A j \in i + 1 .. Len(packets) : Silent(packets[j].data)

\* The packets are those of the records in the order of their times, each with
\* all its samples but the last one that is not silent: that one is cut after
\* its first sample that is not zero, whatever follows it.
CutsOnePacket(packets, records) ==
    /\ Len(packets) = Len(records)
    /\ \E p \in Rearrangements(Len(records)) : \A i \in 1 .. Len(records) :
          LET data == packets[i].data
              all  == records[p[i]].data
          IN  /\ packets[i].start = records[p[i]].start
              /\ i > 1 => packets[i - 1].start <= packets[i].start
              /\ IF LastNotSilent(packets, i)
                   THEN /\ Len(data) <= Len(all)
                        /\ data = SubSeq(all, 1, Len(data))
                        /\ data[Len(data)] # 0
                        /\ Silent(SubSeq(all, 1, Len(data) - 1))
                   ELSE data = all

\* The packets are those of the records, and no sample is lost but zeros at
\* the end of a packet.
CutsOnlyZeros(packets, records) ==
    \E p \in Rearrangements(Len(records)) : \A i \in 1 .. Len(packets) :
        LET data == packets[i].data
            all  == records[p[i]].data
        IN  /\ packets[i].start = records[p[i]].start
            /\ data = SubSeq(all, 1, Len(data))
            /\ Silent(SubSeq(all, Len(data) + 1, Len(all)))
=============================================================================
