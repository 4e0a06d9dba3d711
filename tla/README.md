# uFilterPicker in TLA+

uFilterPicker is a daemon that reads packets of seismic waveforms from one gRPC
service, runs a bank of filters and a trigger on each stream, and writes the
picks it makes to another gRPC service. Beside it there is a program that
gathers training data for its thresholds. This directory holds TLA+ modules of
both, TLC runs on small instances, and theorems checked by TLAPS.

Run a model with `tlc -config X.cfg M` (the pairs are in the table of runs),
the proofs of a component with `tlapm` on its module of proofs (`tlapm PublisherProofs.tla`). `PROJECT.json` maps every definition
to the lines it models and lists the runs, the mutated definitions each
property was tried on, the hazards and the findings.

## The system

| Component | State | Operations | Modelled in |
|---|---|---|---|
| sample time utilities (`utilities.cpp`) | none | `getEndTime`, `getGapSizeInSamples`, `leftTrim` | SampleTime |
| characteristic function, pipeline, detector (`characteristicFunction.cpp`, `pipeline.cpp`, `detector.cpp`) | `mExceededWindow` of each pipeline, `mMaskCounter`, the filters' delay lines | `apply`, `resetInitialConditions` | StartUp, Detector |
| narrow band filter, envelope | coefficients and delay lines of uSignal | `apply`, `resetInitialConditions` | StartUp (the order of the envelope only) |
| threshold trigger (`thresholdTrigger.cpp`) | the lock of uSignal's water level trigger, `mLastThresholdSample` | `apply`, `resetInitialConditions` | ThresholdTrigger |
| picker (`picker.cpp`) | `mFirstPacket`, `mFirstSampleTime`, `mLastSampleTime`, `mOutputPicks`, its detector and trigger | `apply`, `getPicks` | Picker |
| publisher (`publisher.cpp`) | `mExportQueue`, `mKeepRunning`, `mShutdownRequested`, the position in the reconnection schedule | `start`, `enqueue`, `publish`, `stop` | Publisher |
| subscriber (`subscriber.cpp`) | the same flags, one `AsyncSubscriber` per stream, `mLastPacketReceivedMap` | `start`, `acquirePackets`, `OnReadDone`, `OnDone`, `await`, `stop` | Subscriber |
| application (`filterPicker.cpp`) | `mImportQueue`, `mKeepRunning`, three futures, the signal flag | `start`, `getPacket`, `filterPackets`, `checkFuturesOkay`, `stop`, `main` | NetworkDetector |
| metrics (`metrics.cpp`, `metrics.cppm`, `printSummary`) | `mResetsCounterMap`, `mPicksCounterMap`, `mPicksSentCounter`, `mPicksLastReport`, `mDetectorResetsLastReport` | the increments, the sums, `printSummary`, `observePicks` | Metrics |
| options (`filterPickerOptions.cppm`) | `ProgramOptions`, then `mPickers` | `getGRPCClientOptions`, `parseIniFile`, `toModelKey`, the constructor of `NetworkDetector` | Options |
| training: archive client (`aqms.hpp`) | `waveRoots` | `getPPicksForStream`, `getFileRoot`, `unpack` | AQMS |
| training: features database (`featuresDatabase.cpp`) | the sqlite3 file, `mIsOpen`, `mMode`, `mTablesInitialized` | opening in three modes, `create`, `addEvent`, `getStreamIdentifier`, `addRow` | FeaturesDatabase |
| training: the program (`gatherWaveforms.cpp`) | the loops' locals, one detector per stream | `main`, `parseIniFile` | GatherWaveforms |
| logger, version, messages, tests | | | not modelled |

Threads and what they share:

```
 gRPC callback thread          data thread               publisher thread
 AsyncSubscriber::OnReadDone   filterPackets             publish
   addPacket -> getPacket        Picker::apply             pops, writes,
     pops and pushes -------+     getPicks                 reconnects
                            |     Publisher::enqueue          ^
 subscriber thread          v       pops and pushes           |
 acquirePackets        mImportQueue      |                    |
   opens, awaits            |            v                    |
                            +-> data   mExportQueue ----------+
 main thread: start, checkFuturesOkay every 100 ms, stop; a signal sets a flag
```

Hard behaviours, and what makes each component correct:

* *Two threads pop from each queue.* The thread that pushes also purges. The
  queue must stay in its bound, purge the oldest elements, keep the order and
  lose nothing unaccounted for.
* *Streams break at any moment.* The publisher and the subscriber go round a
  reconnection loop that must not give up too early, must end when told, and
  must not open streams or deliver anything out of order on the way.
* *Callbacks and a polling thread* share an `AsyncSubscriber` that is destroyed
  when `await` returns.
* *Packets come late, twice, early, with gaps and jitter.* The picker has to
  feed its recursive filters in order, reset all of them at once, and make no
  pick before they are warm. How the stream is cut into packets must not matter.
* *Rounding.* Gap sizes and trims are computed from rounded microseconds.
* *Shutdown and failure.* A worker that throws must bring the process down, a
  signal must end it, nothing may run after what it uses is destroyed.
* *Counters* are moved by two threads and read by two others, piece by piece; no
  count may go to another stream, be reported twice, or go back.
* *Configuration.* Which model a stream gets depends on a key that is put together in
  two places; a mistake is silent, as there is a default.
* *A program that is killed.* The training program may fail or be killed between any
  two statements, and its database file is opened again later.

## The modules

**SampleTime**: `getEndTime`, `getGapSizeInSamples` and `leftTrim` as operators on
integer times. `Period` and `Half` are the two integers the code rounds from the
sampling rate, so a period may be odd. `IntMax` is the largest `int`, to which the
code casts the rounded quotient; when it does not fit the function throws
(`GapFits`). The search "the hard way" is kept, although the estimates make it
unreachable: `OneCandidateIsNear` proves it for all times. The module also says, on its own,
what a gap and a trim should be (`CountsMissingSamples`, `TrimsToTail`), which a run and the
theorems compare the operators with.

**StartUp**: what the constructors of the envelope, the pipelines and the detector
compute from the lengths of the filters: the order of the envelope, made even, the
start-up of a pipeline, the samples the detector masks after a reset, the group delay.
The mask is therefore not a parameter of the modules below but follows from the code.

**Detector** extends StartUp: what comes out of the detector for a packet, and its counters. The
numbers are external: a packet says, for each pipeline, which level (below both
thresholds of the trigger, between, above both) the characteristic function
reaches at each sample. The counters and masks decide which of them come out.
`delayLine` counts the samples the filters hold, and is what the properties
compare the counters with. Zero at a masked sample is the lowest level.
The last sample of a short packet leaves the warm-up loop unmasked
(`StartMask`), as in the code (`characteristicFunction.cpp:99`); the
detector's longer mask hides it, which is what `OutputIndependentOfPackets` shows. The Average strategy is left out: no factory
selects it.

**ThresholdTrigger**: uSignal's water level trigger as a lock that is set by a high
level and cleared by a low one and carried from packet to packet (external), and
the loop that picks where the signal goes from 0 to 1, whose copy of
`mLastThresholdSample` is never written back.

**Picker** extends these three. `Apply` has one action per way through
`Picker::apply`, in the order of its checks: latent, from the future, expired, a
gap that cannot be estimated, processed. `Process` does all of the rest at once, as
the code runs on one thread: reset on a gap, detector, burn-in with the trim of
the packet that straddles its end, trigger, pick times less the group delay. The
clock is a variable. `pickedWith` is history: how many samples the filters held when each picked
sample came in, which `PicksFromWarmFilters` asks to be more than the mask is long. A packet with a sampling rate other than the nominal one is
among the malformed; the wobble the code tolerates is too small to move a sample.

**Publisher**: three threads. `enqueue` takes a step for each call it makes on the
thread-safe queue (`size`, `empty`, `try_pop`, `try_push`); `publish` takes a step for
each read of a flag, each call on the queue, each write and each finished stream;
`stop` for each of its two assignments. gRPC is external: a write may fail, a channel
be found not ready, a stream finish with any status. Statuses that `publish`
treats alike are one (`OTHER` is fatal). The calls have no deadline and nobody cancels them
(`publisher.cpp:159-160`, `391-396`), so none of them has to return: `InGRPC` is where the thread
waits for the broker, `BrokerAnswers` says that it never waits there for ever. Picks are numbered in the order they are made.
`sent`, `purged`, `lost`, `refused`, `barren` and `fatal` are history.

**PickDelivery** is the abstract specification of the publisher: picks are
offered one by one and each is delivered at most once, in order. **Worker** is
what the application relies on in a thread it started: it runs until told to
stop, then ends, or it throws before anybody asked. What a worker may do is its `Safety`, that
it ends once told to is `EndIsFair`. Publisher implements PickDelivery and the safety of Worker, and ends if the broker
answers; Subscriber implements all of Worker. NetworkDetector is composed with two instances
of Worker in place of the detailed modules, and asks of the subscriber only that it ends.

**Subscriber**: the thread in `acquirePackets` and `await`, the callbacks, `stop`, and
the stream in gRPC, which runs one callback at a time, fails the outstanding
read when the call is over and calls `OnDone` last. `stop` notifies before it clears
`mKeepRunning`, in that order. `OnDone` is three steps, between which it holds the
mutex: it stores the status, sets `mDone`, notifies and returns. `await` looks at
`mDone` without the mutex, and its `wait_for` needs it to return. So the model has the
state in which `await` has returned, and its `AsyncSubscriber` may be destroyed, while
`OnDone` has yet to notify and to release the mutex. The next `AsyncSubscriber` is another object, though it may
be at the same address: the late release (`OutlivedReturns`) then may release its mutex, or nothing, at any
later time or never. Whatever else it does to a destroyed object is undefined and not modelled.
That the status is already stored there holds on a machine whose stores become
visible in order, as the model assumes.

**NetworkDetector**: the main thread from the options to the return of `main` (any step
of the set-up may fail; the logger and the metrics are in `services` while they are initialized), the data
thread, the callback thread in `getPacket`, the two workers. `valid` is the set of futures that
have not been consumed. `checkFuturesOkay` looks at the publisher's future twice, as
in the code. `wait_for` on a consumed future is undefined by the standard; it throws
`std::future_error` in the libraries the program is built with, and the code catches
it: that is what `Check` does. `std::async` is called without a launch policy,
which would also allow a deferred start, and then no loop that waits for
`future_status::ready` would ever see one; the libraries in use start a thread,
and so does the model.

**Metrics**: the two maps behind their mutex and the atomic counter. The data thread counts a
reset, then the picks of an apply, and offers what `getPicks` holds, also after an
apply that made no pick; the publisher counts what it wrote. `printSummary` reads the two
sums under two locks, subtracts and keeps what it read; the exporter takes a copy of a
map and then observes it. A sum is stated as the number of all things counted. What a packet makes is any number of picks: Picker has the detail.

**Options**: what `parseIniFile` accepts and the pickers the constructor of `NetworkDetector`
makes of it, as operators. A value of the ini file is one of the few cases the code
tells apart: a host absent, blank or given, a file missing, empty or good, a stream
of so many words, the key of a line in upper case or not, the section of either gRPC client. The streams are a function over the entries
that count, those before the first missing number that repeat no earlier one; a stream named twice
would be refused later (`NamedOnce`). `PicksConfiguredStreams` says on its own which pickers an ini file
asks for.

**AQMS**: the archive client without its connection. A query returns some of the events, the newest
`QueryLimit` of them in the order of their times; equal times come in any order, as
`std::sort` is not stable. `unpack` sorts the records and cuts the end of one. `CutsOnePacket`
says on its own what is left, `CutsOnlyZeros` what should be, by the comment in the code.

**FeaturesDatabase**: what the file holds, which outlives the process, and what the object
holds, which does not. `create` makes the schema statement by statement, each of which
commits by itself. A statement of `getStreamIdentifier` that fails throws, or returns -1 with
which the program goes on. `brokenOff` is history: the creation of this file did not finish.

**GatherWaveforms** extends FeaturesDatabase, AQMS and Detector: the training program as a
program counter over its statements, the detector's counters and levels as in
Detector, a failure at every call and a kill at every statement. `taken` (the packets and
samples the detector took of a trace, and the time of the first) and what a row says of it are
history; with them `RowsAreSound` states that the samples up to the one of a row follow each other
(`Follows`, up to the misfit the code tolerates from packet to packet).

Publisher and NetworkDetector say `Ascending` for the order of what they number, and take the items of a
queue as its `Range`, from the community module Functions.

**MCDetection** feeds the detector and the trigger, **MCAlgorithms** asks the algorithms one query;
**MCComputation** is both, each behaviour one or the other, since what they compute shares no state.

## The runs

| Run | Module, cfg | Shows |
|---|---|---|
| computation | MCComputation | What is computed on one thread. The detector and the trigger it feeds: the output does not depend on how the stream is cut; the three counters stay in step over resets; every activation is picked, and nothing else but possibly the first sample of a packet. One query to the algorithms: gap sizes agree with a count of the missing sample instants and trims with the set of samples to keep, for every small packet, ties included; `unpack` keeps every packet and cuts only the last live one; every stream of an ini file has a picker with the model of its line, and the token of either client comes with a certificate |
| picker | MCPicker | Burn-in, warm filters, resets and order for every sequence of packets against the clock |
| publisher | MCPublisher | Queue, order, accounting, reconnections; as long as gRPC's calls return, the thread ends after `stop` and no pick waits for ever; PickDelivery and the safety of Worker are implemented |
| subscriber | Subscriber, MCSubscriber.cfg | Of a stream only the end of `OnDone` outlives `await`; at most one packet after stop; the thread ends after `stop`; Worker is implemented |
| network_detector | NetworkDetector, MCNetworkDetector.cfg | Import queue, futures, set-up and clean-up, exit status; a signal or a failure ends the process, unless the publisher is told to end and does not |
| metrics | MCMetrics | Counters are those of their stream, the summaries add up, what is observed never goes back |
| training | MCTraining | The program, killed or failing anywhere, and later users of its database: rows come from warm filters of one trace near the pick, a stream with a location has one row, a file whose creation finished is complete, the program ends |

Five runs are expected to find a violation, each of something the repository says
of itself:

| Run | What the code does |
|---|---|
| trim_time | `leftTrim` inside the first period returns the last sample of the packet with the desired time (`utilities.cpp:479`), although the comment says the first, and the documentation that the time is that of the data returned |
| pick_while_activated | a trigger still activated at the start of a packet is picked again (`thresholdTrigger.cpp:182`) |
| stale_picks | `getPicks` after an apply that ran no trigger returns picks of an earlier one (`picker.cpp:281`), which `filterPackets` enqueues again |
| silent_broker | `stop` wakes the publisher's thread but cancels no call (`publisher.cpp:391`): while the broker is silent the thread does not end, although `publisher.hpp:41` says that `stop` stops it |
| purge_trailing_zeros | "Purge trailing zeros" goes on after the last sample that is not zero and leaves of the last live packet nothing after its first one (`aqms.hpp:312`) |

### Bounds

* computation, the queries: a period of 4 (an exact half, so that ties occur: the common rates
  have even periods in microseconds), packets of up to 4 samples, starts from three
  and a half periods before the last sample to five after it, trims from 34 ticks
  before to 34 after the start. All branches depend on the offset modulo a period and on whether it is inside,
  at either edge of, or beyond the packet. Waveforms of up to 3 records of up to 3 samples, at two
  times, so that records tie; ini files of up to 3 entries, with duplicates, a hole, two
  locations of a stream, lines for them in either case, and every section of either gRPC client.
* computation, the detector: windows of 3 and 2, a mask of 5 that comes from the filter of the pipeline
  with the shorter window, packets of up to 3: a packet may end
  inside a warm-up, at its end, or after it; the counters saturate, so that longer
  streams add nothing.
* Picker: period 3, half 2, filter lengths that make a group delay of 3, a burn-in of 6 and a mask of 4 samples, tolerance
  1, clock to 16. At 100 Hz the real ones are a group delay of 2.1 s, a burn-in of
  6.3 s, a mask of 799 samples: the burn-in ends before the mask there and here.
  The clock leaves room for a burn-in, a gap that resets, and a second burn-in.
* Publisher: 4 picks, a queue of 3 (purged at 2), a schedule of 2, a look at the channel at every
  second empty queue. Larger values only repeat the same moves; the theorems do not depend on them.
* Subscriber: 3 packets, a schedule of 2. NetworkDetector: an import queue of 2, 4
  packets, up to 2 picks for each.
* `barren` saturates at one above the schedule, which is all a property asks.
* Metrics: two streams of one sensor, one without a location code, 2 packets of up to 2
  picks each, 2 summaries. Two packets let a pick be counted while another thread is between its
  reads, on the same stream or the other.
* Training: the filters of the picker run, 3 events (one too early for the burn-in, one without a file root),
  a query limit of 2, four ini files, six waveforms with a gap, an overlap, jitter, a wrong
  order, an empty and a broken record; the file has three users one after the other, since the
  second may break its creation off and the third meets what is left.

The runs that stop on purpose have `CHECK_DEADLOCK FALSE`: the packets, picks or
time of the bound run out, or the process has ended.

### Fairness

The publisher's thread: its waits have a time limit (`wait_for` 10 ms to the time of the schedule), so
`WF(PublishNext /\ ~InGRPC)`. Nothing makes a call of gRPC return: `NoPickWaitsForever`, and the end of the thread in
`RunsAsWorker`, are stated for the behaviours in which they do (`BrokerAnswers`), and the run
silent_broker shows what happens in the others. A call of `enqueue` that has begun goes on.
A `stop` that has begun finishes. Nothing makes anybody
start, enqueue or stop. The subscriber: the same for its thread; gRPC runs the callbacks
that are due and ends a cancelled call; the server has no obligation, it may be
silent for ever. The application: each thread runs, and a subscriber that was told to stop ends, which is
the fairness of Worker that Subscriber is shown to provide. The publisher has none, since Publisher
provides it only if the broker answers: `AlwaysEnds` exempts the behaviours in which it was told to end and
never does, and no others.
The training program runs unless it is killed, which it never
has to be. Metrics has no liveness property and no fairness.
Weak fairness is enough everywhere: no step is disabled again and again by others.
That a thread takes its steps is all that is assumed; that the steps lead to the end is
proved (see the theorems about steps that are left), that both together make the liveness
properties is model-checked.

## The proofs

Each module of proofs is about one specification and holds for every value of its constants.
A run checks each property on a small instance first. Hardly any property is inductive
by itself: the table names what it was strengthened with, in the order the lemmas
build on each other. The proof that a step keeps an invariant has one step per action; actions with
no part in an invariant are dealt with by a frame lemma.

| Module | Theorem | Property | Argument |
|---|---|---|---|
| PublisherProofs | `TypeCorrect` | `TypeOK` | with `ControlInv`: the schedule index is in range inside the loop, a pick is in hand exactly while it is written, `enqueue` runs only while there is a pick to make |
| | `NothingIsRefused` | `NothingRefused` | `RoomInv`: once `enqueue` is about to push, the queue is empty or below the limit, and the other thread can only shorten it; `ExcessInv`: while `enqueue` purges, the picks purged and those it keeps are no more than those made |
| | `ThrowsForAReason` | `PrematureEndIsJustified` | `ReasonInv`: the schedule index is never ahead of the barren sessions; each way out of the loop has its reason |
| | `OldestGoFirst` | `OldestFirst` | `OrderInv`: everything handed over is older than the pick to come |
| | `ImplementsPickDelivery` | `DeliversInOrder` | from `OrderInv`: a successful write is a `Deliver`, a push an `Offer`, all else stutters |
| | `NoStreamOpensAfterShutdown` | `NoStreamAfterShutdown` | `ShutdownInv`: `stop` clears `mKeepRunning` before it requests the shutdown, and nothing sets it again |
| | `PicksAreAccountedFor` | `EveryPickAccountedFor` | `FateInv`: disjoint sets stay disjoint when one element is handed from one to another (`HandOver`) or a new one taken in (`TakeIn`) |
| | `RunsAsWorkerSafely` | `Lifecycle!Safety`, of `RunsAsWorker` | every step is a step of Worker or a stutter; that it ends, if the broker answers, is left to TLC |
| | `StopEndsTheThread` | | `StoppedInv`: a stop comes after the start, so that no step restarts the thread; then each of its ways out is shorter than the one before (`PublishStepsLeft`, at most 6, the returns of gRPC's calls among them) |
| | `PicksAreOnTheirWay` | | while `mKeepRunning` is set: each step leaves a queued pick where it is or moves it up (`PopMovesUp`), and the thread is at most 9 steps from a pop or its end (`PopStepsLeft`), whatever breaks on the way |
| | `EnqueueComesBack` | | the loop that purges costs three steps per pick queued, and the other thread only takes picks away |
| SubscriberProofs | `TypeCorrect` | `TypeOK` | with `ControlInv`, as above |
| | `AwaitOutlivesAllButTheNotification`, `StatusIsTheCalls` | `OnlyNotificationOutlivesAwait`, `StatusIsOfThisCall` | `StreamInv`: a call, a read and a callback under way keep the thread in `await` and `mDone` unset until `OnDone` sets it, after which it stores nothing more; the last callback has stored the status before it sets `mDone`, and nothing touches the status before it is handled |
| | `StopHandsOverOneMore` | `AtMostOnePacketAfterStop` | `StopInv`, `LateInv`: after the one late packet there is no read, no packet in a callback and no new stream |
| | `ThrowsForAReason` | `PrematureEndIsJustified` | `ReasonInv`, as for the publisher |
| | `RunsAsWorkerSafely` | `Lifecycle!Safety`, of `RunsAsWorker` | from `StopInv` |
| | `StopEndsTheThread` | | `StepsLeft` puts the way of the thread before that of the stream and both before the thread's round of `await`; `CancelInv`: a stream that the thread cancelled is not live again. The steps that bring nothing nearer are rounds of `await` in which gRPC owes a step (`GRPCIsDue`) |
| NetworkDetectorProofs | `TypeCorrect` | `TypeOK` | `PhaseInv` (which threads the way to the loop has started), `ControlInv` |
| | `OldestPacketsFirst`, `PacketsAreAccountedFor` | `PacketsInOrder`, `EveryPacketAccountedFor` | `RoomInv`, and both at once (`PacketInv`): each needs the other |
| | `NothingOutlivesMain` | `NothingOutlivesWhatItUses` | `FutureInv`: a consumed future is of a thread that runs no more, and each `get()` leaves one more idle; `ServiceInv`: the logger is there from its set-up to the clean-up |
| | `StopsForGoodReason` | `StopsForAReason` | `UntoldInv`: before `stop` nobody told a worker to end, so it runs or threw; `ReasonInv`: `isOkay` is cleared only where an exception was seen |
| | `WaitsForTheTold` | | `ToldInv`: the three threads are told in the order of `stop`, and main waits only after the last |
| | `AlarmEndsMain` | | after a signal or an exception: the round of `checkFuturesOkay` under way may miss it (`Missed`), the next one does not (`LookFindsWhatThrew`); at most 21 steps (`MainStepsLeft`) |
| | `StopEndsTheDataThread`, `GetPacketComesBack` | | the thread finishes the packet it holds, with its picks, and no other; the loop that makes room costs two steps per packet queued |
| DetectorProofs | `GapCountsMissingInstants` | | for all integer times; the rounded quotient is within one of the best candidate (`NearestCandidate`), then counting instants |
| | `OneCandidateIsNear` | | the search "the hard way" is never entered |
| | `TrimKeepsWhatItShould` | | for all packets and times; one step per early return of `leftTrim` |
| | `MaskOutlastsWindows` | | the start-up of a pipeline covers its window, the mask the largest start-up, rounded up |
| PickerProofs | `TypeCorrect` | `TypeOK` | what the detector and the trigger return has the types (`OutputOfDetector`) |
| | `NoPickDuringBurnIn`, `NoPickFromColdFilters`, `NothingHeldBackAfterBurnIn` | `PicksAfterBurnIn`, `PicksFromWarmFilters`, `BurnInEndsOnTime` | `MaskInv`: the mask counter is what the delay lines hold; `LockedMeansWarm`: a level that can lock the trigger is of a sample for which they held more than the mask; `LockInv`: the trigger is locked only by what passed mask and burn-in, so that no lock is carried over from cold samples; `TrimKeepsTail`: the trim of the straddling packet is not empty and starts past the burn-in |
| | `PicksMoveForward` | `PicksAdvance` | a pick is at a sample of the packet, or of its trim |
| | `SamplesAreFedInOrder` | `FedInOrder` | `BeforeFirstInv`, `TimesInv`, and the bound on a gap estimate |
| AlgorithmProofs | `CountersStayInStep` | `CountersInStep` | inductive with the types |
| | `CutsDoNotMatter` | `OutputIndependentOfPackets` | `CountersInStep` and `MaskOutlastsWindows`: while a window fills, the mask hides what comes out |
| | `ActivationsArePicked` | `EveryActivationPicked` | `mLastThresholdSample` is 0 for ever, for its copy is never written back |
| | `GapsAreCounted`, `TrimsAreTails` | `GapCountsMissingSamples`, `TrimReturnsTail` | what a run asks is a query over integers (`QueryInv`); then the theorems of DetectorProofs |
| | `RepeatsAreSkipped`, `IniFileIsObeyed` | | for every ini file: of two entries with the same stream the first counts (`FirstReads`), every stream has such a first entry, and the line found for it is the only one meant for it (`LineIsFound`) |
| | `ConfigurationIsObeyed` | `ConfiguredStreamsArePicked` | `QueryInv` and the two before |
| | `ComputationIsSound` | | the specification of the run implements both halves: each steps while the other stutters |
| MetricsProofs | `CountersAreTheStreams` | `CountersMatchPicks` | keys tell streams apart (`KeysTellStreamsApart`); `BacklogInv`: picks made and not yet offered are those of the packet under way; `SentInv` |
| | `NothingIsReportedTwice` | `ReportsAddUp` | counters that only grow have a sum that only grows (`TotalIsMonotone`) |
| TrainingProofs | `SchemaIsComplete` | `CompleteUnlessBrokenOff` | `FileInv`: while `create` runs the file holds the statements made so far; `ControlInv`: the program works only on a file that is complete |
| | `StreamsAreNotRepeated` | `OneRowPerNamedStream` | `StreamsInv`, over the names and locations that ini files and clients use |
| | `RowsCanBeTrusted` | `RowsAreSound` | `TraceInv`: where no trace is being read all its variables are reset (`IdleInv`), the mask counter is what was taken of this trace (`MaskInv`), the packets taken follow each other (`SpanInv`), an estimate already has what a row needs (`EstimateInv`) |
| | `UnpackCutsOnePacket` | | for all waveforms and orders of their records |
| | `TracesAreCutInOnePacket` | `OnlyLastPacketIsCut` | what is asked are waveforms (`AskedInv`), then the one before |
| | `ProgramComesNearerItsEnd` | | a tuple of the loops' remainders, the outermost first (`WorkLeft`), is of natural numbers and gets shorter in the order of the dictionary with every step (`Shorter`) |

Every invariant that a run checks, apart from those expected to be violated, is stated by a theorem.
The theorems without a property are of two kinds, besides the two `RunsAsWorkerSafely` and `ComputationIsSound`. `GapCountsMissingInstants`, `OneCandidateIsNear`,
`TrimKeepsWhatItShould`, `MaskOutlastsWindows`, `RepeatsAreSkipped`, `IniFileIsObeyed` and
`UnpackCutsOnePacket` are about operators for all their arguments; the invariants of the run
computation ask the same of the arguments of its bounds. The others are the part of liveness that is
a matter of steps. Each counts how many steps a thread can still take at most, and proves that
every step of that thread (of the subscriber, all but rounds of `await` while gRPC owes a step) lowers the
number and that no step of another raises it. So a thread
that is scheduled arrives, and the only things left to fairness are that it is scheduled and, of
gRPC, that it runs the callbacks it owes the subscriber and that its calls return to the publisher; `WaitsForTheTold` adds that nobody waits for a
thread that need not end. The bounds are part of the statements: they tell, for instance, that neither
the reconnection schedule nor a full queue delays the end of a thread that was told to stop.

What is assumed of the constants, each checked by a run:

* `PublisherAssumption`, `SubscriberAssumption`, `NetworkDetectorAssumption`: positive sizes, natural numbers
  otherwise, as the option classes enforce.
* `PeriodAssumption`: `Half` is half of `Period`, rounded either way. `IntMaxAssumption`: the largest `int` is positive.
  `StartUpAssumption`: a detector has finitely many pipelines and at least one (`detector.cpp:98` throws
  for none), an envelope at least two coefficients and a window at least one sample, as in the banks the
  factories build. `PickerAssumption`, `MaxSamplesAssumption`: the tolerances and bounds.
* `MetricsAssumption`: finitely many streams, each named by four words.
* `AlgorithmsAssumption`: the times a run asks about are integers, its bounds natural numbers.
* `AQMSAssumption`, `GatherAssumption`: the events of the archive are finitely many, times are
  natural numbers, and ini files and waveforms are sequences of what the module reads of them.

That a largest of finitely many values exists is proved by well-founded induction on finite sets
with one fixed set of values, as the induction theorems that take an operator cannot be used.
The provers do not know that a string literal is a STRING: sets of names are built from the
constants instead.

Only model-checked:

* Liveness under fairness: `NoPickWaitsForever`, the fairness in `RunsAsWorker`, that every process ends
  (`AlwaysEnds`, `EndsUnlessCorrupt`). Fairness is defined with ENABLED, which is out of the prover's
  reach, and the step from a number that falls to one that arrives is an induction. The numbers
  themselves are proved, as above.
* The five runs that find a violation.

No module declares a RECURSIVE operator.

## What the code does and its documents do not say

Met while modelling, and modelled as the code has it. The five runs above are the ones
whose contradiction a property states. The others:

* `utilities.cpp:339`: the estimate of a gap of more samples than an `int` holds (248 days at 100 Hz)
  throws, and as nothing was assigned before, so does every later packet of the stream, while
  `picker.cpp:209` says "Gap - reset".
* `publisher.cpp:274`: picks are purged from a queue of one less than the maximum, while
  `publisherOptions.hpp:33-36` says "after the queue is full" and calls it the number of picks that can be
  buffered. `NothingRefused` bounds the purge by what the code keeps.
* `subscriber.cpp:184`: `await` may return, and the `AsyncSubscriber` be destroyed, before `OnDone`
  has notified its condition variable and released its mutex, which it then does to destroyed objects.
* `getPicks` of an earlier apply (stale_picks) makes the picks sent outnumber the picks
  counted.
* `filterPickerOptions.cppm:443` reads the size of the import queue from the section `PickSubscriber`; the
  section of that client is `PacketSubscriber`.
* `filterPicker.cpp:328`: a stream whose model has a rate other than 100 Hz still gets the detector
  of 100 Hz.
* `filterPickerOptions.cppm:112`: a client key without a client certificate is ignored in silence.
* `featuresDatabase.cpp:404`: a stream without a location code is stored with an empty one, looked up
  with "--" and so inserted again each time; `OneRowPerNamedStream` is about the others.
* `featuresDatabase.cpp:410` and `:453`: a lookup that fails returns -1 as the stream's
  identifier and throws nothing; the program then works with it.
* `featuresDatabase.cpp:276`: the mode ReadOnly opens the file for writing, and no write looks at `mMode`.
* `featuresDatabase.cpp:222`: a file whose creation was broken off is taken to be complete.
* `featuresDatabase.cpp:537`: `addRow` writes no row of the features table.
* `gatherWaveforms.cpp:636`: the location code needs more than four words to be read, and is then the
  fourth of them.
* `gatherWaveforms.cpp:479`: the write of a row is outside the try block; what it throws ends the process.
* `gatherWaveforms.cpp:500`: an unconditional `break` leaves all events after the first one tried.
* `aqms.hpp:207`: a record that does not parse is tried for ever.
* `metrics.hpp:47` declares `resetCounters`, which nothing defines.

## Not modelled

* The values of the filters, the envelope and the z-score: floating point in
  libraries. What is kept is how many samples they were fed since a reset.
* The sections of OpenTelemetry, the command line and the general keys of the ini file, the
  exporters and instruments, the logger, the version, the messages: wrappers of libraries, or data no
  step depends on.
* SQL, miniSEED, the metadata of events and streams, distances and debug files of the
  training tools; the query for an active channel is a query that may fail.
* How the ini file is split into words: an entry is its words. The map from stream
  to picker is built before any thread starts, and only the data thread uses it.
* Which sample the zero at the end of the moving average stands for: the comment at
  `characteristicFunction.cpp:31` says the current one; the order is uSignal's.
* What `OnDone` does to a condition variable and a mutex that are already destroyed, but for a
  mutex of the next `AsyncSubscriber` that it may release.
* Weak memory: `mShutdownRequested` and `mDone` are plain variables read by several
  threads; each access is one step, seen by all in one order.
* The packet of a stream as it travels from NetworkDetector into Picker: the two are
  separate modules.

## Plan

Done, in this order: SampleTime, StartUp, Detector, ThresholdTrigger, Picker (what the
program computes), Publisher with PickDelivery (what it promises), Subscriber and
Worker, NetworkDetector, PublisherProofs; then the finer `await` and `OnDone`, Metrics, Options,
the training tools (AQMS, FeaturesDatabase, GatherWaveforms); then the proofs about all
of these.

Left:

1. The refinement of NetworkDetector's workers: that the application composed with the detailed
   Publisher and Subscriber keeps its properties, which now follows from `RunsAsWorkerSafely` on paper only; with it, a broker that may fall silent as a part of
   the composition.
2. The data thread with two pickers and the publisher's `enqueue`, so that the
   repetition of stale picks is seen at the broker.
