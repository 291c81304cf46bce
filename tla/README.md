# DPDFNet noise suppression for OBS: a TLA+ model

`obs-dpdfnet` is an OBS audio filter that suppresses noise in one channel with a
streaming neural network. Its difficulty is not in the network but around it:
audio arrives on a real-time thread in packets of any size; the model works on
hops and answers some hops late; a resampler on either side of it holds audio
back; enhanced and dry audio have to stay sample-aligned through pauses,
failures, format changes and model swaps; and four kinds of threads share the
state under three mutexes and a condition variable. This directory models
that part of the program, model-checks it on small instances and proves most of its
safety properties for every size: of the audio path, of the guard and the timestamps, and of
the threads around them.

Source paths below are relative to the repository (`src/dpdfnet-filter.cpp`
is written `filter.cpp`, and so on).

## 1. Inventory

| Component | State it keeps | Operations | Model |
|---|---|---|---|
| `DpdfnetProcessor` (`processor.cpp`) | lanes (`realtime_`), spectra (history, bridge, warm-up, fade), resampler pair with validity and cached path, failure and report flags, timestamps | `process`, `reset_state`, `reset_stream`, `set_controls`, `set_format`, `set_model`/`replace_model`, `replace_resamplers`, `release_invalid_resamplers`, `disable_for_realtime_overload`, `resume_after_overload` | `Processor`, `Suppression`, `Lanes`; with its parts `ProcessorParts`; its promise `ProcessorPromise` |
| `DpdfnetResamplers` and the probe (`processor.cpp`) | a libobs resampler pair, the delay measured | probe, resample, release | part of `Processor` (a pair is its rate and what it holds back); between two rates `TwoRates` |
| `DpdfnetFilter` (`filter.cpp`) | processor, guard, retry schedule, rejected model, requests to the worker, worker thread | `filter_audio`, worker loop, `update`, `reset_state`, enable signal, `status`, destructor | `Filter` over `ProcessorView`; what is measured and stamped `AudioCallback` |
| Realtime guard and retry schedule (`realtime-guard.hpp`) | debt, observation window, probe mode, attempt counter | `observe`, `reset`, `set_probe`, `next_delay_ns` | `RealtimeGuard` in `AudioCallback`; the schedule across threads in `Filter` |
| `DpdfnetModel`, state tensors (`model.cpp`) | initial tensor, two state tensors used in turn, two flags, delay in hops | `enhance`, `reset` | `ModelState` in `ProcessorParts`; as a delay line in `Suppression` |
| `Ring` (`ring.hpp`) | buffer, head, size | `push`, `try_push`, `pop`, `peek`, `reserve`, `clear` | `Ring`, two of them in `ProcessorParts`; the others as counts in `Lanes` |
| Capacity plan (`processor.cpp:226-244`) | none | sizes of all rings | `CapacityPlan`; a constant of `Lanes`; the rings of `TwoRates` |
| `DpdfnetTimestampFloor` (`processor.cpp:297-322`) | next timestamp allowed, last input timestamp | `apply`, `observe_input`, `reset` | `TimestampFloor` in `AudioCallback` |
| `StreamingStft` (`stft.cpp`) | overlap-add buffer | analysis, synthesis | `Stft`: which hops are summed in the buffer; the transforms are floating point |
| Status line and properties (`filter.cpp`) | status last shown | refresh, rebuild by the worker | `StatusWindow` over `Filter`: which status is shown, not its text |
| Model loading and metadata (`model.cpp`) | none after loading | parse, validate | not modelled: sequential validation by ONNX Runtime |
| Timing histogram, load window, settings (`filter.cpp`, `settings.cpp`) | counters for the log, numbers in the status | format | not modelled: text and logging |
| Module entry (`plugin-main.cpp`), scripts, tools, tests | none | | not modelled; tests read for what they promise |

### How the parts interact

* OBS calls `filter_audio` on its audio thread. It takes `mutex_`, adopts OBS's
  current format, runs `processor_.process`, feeds the time it took to the
  guard and, if the guard trips, pauses suppression. After it has let `mutex_`
  go it posts what happened to the worker under `resampler_request_mutex_`.
* The worker sleeps on a condition variable with a timeout when a retry
  deadline is set. It rebuilds a resampler pair that a stream end made stale,
  retries after an overload pause and refreshes the status.
* The settings and signal threads call `update`, `reset_state` and
  `reset_stream_boundary`. They hold `update_mutex_` from start to end, prepare
  a model or a pair with `mutex_` released (that is slow) and install it with
  `mutex_` held.
* The processor has no threads. It fails open: whatever goes wrong, the packet
  passes through as it came, and repeated failures stop it until it is reset.

### What is hard, and what makes each part correct

| Part | Hard behaviour | Correct means |
|---|---|---|
| Spectra | the model answers `output_delay_hops` late, is stopped in a pause and restarted in mid-stream with nothing to say about the first hops | each hop is made of that hop's audio only (`Aligned`); no jump in depth (`SmoothFade`) |
| Model, STFT | state lies in three tensors, chosen by two flags that a failed run leaves alone; the overlap buffer outlives the hop that filled it | each run reads the state of this stream's hops, each output sums neighbouring frames of one stream (`TensorsCarryLine`, `OverlapComplete`) |
| Lanes | dry, voice and packet-info lanes advance at different moments, behind resamplers that hold audio back; any step can throw | no audio lost, doubled or mixed with an earlier stream (`LanesInSync`); output stamped with the time of its audio (`OutputStamped`); a packet that passes through leaves nothing behind (`PassthroughLeavesNothing`); bounded delay (`BoundedLatency`) |
| Rings, plan | wrap-around at any position; sizes fixed before OBS's rate is known, with rounding | what is queued comes out in order (`RingsCarryLanes`, and the theorems on `Ring`); no push into a full ring (`RingsHold`, `NoCapacityFailure`); the plan has room at every rate (`PacketsFit`, `PushesFit`, `PlanAcceptsEveryPacket`); roundings between two rates do not add up (`InTime`, `LoadBounded`) |
| Reports | several events compete for one result | failures reported once per row (`FailuresReported`); a jump is reported in the end (`JumpsReported`) |
| Calls | two loops whose ends depend on the rings; many steps behind one call | `CallReturns`; whatever happens inside, the caller sees an outcome it is built for (`KeepsPromise`) |
| Filter | locks released between a decision and its use; requests made while the worker is busy; one slot for each kind of event | every pause has its retry, and ends (`PauseHasRetry`, `PauseEnds`); a missing pair is on its way (`PairIsComing`); pairs fit the prefill (`PairMatchesPrefill`); no use of a freed model (`StatusModelAlive`); events reach the log (`NoEventLost`); no deadlock (`CallsReturn`, `WorkerStops`) |
| Guard | debt, window and probe reset together; saturating sums; callbacks that do not count | pauses exactly on what the limits call an overload (`PauseEarned`, `OverloadNoticed`); the back-off ends only after a whole probe (`RecoveryEarned`) |
| Schedule | counted under one mutex, armed under another, reset at probe's end | `DelayFitsAttempt`, `ScheduleFollowsProbe` |
| Timestamps | processed and passed-through packets take turns; clocks go back; the integer ends | outputs never overlap (`NoOverlap`), none is held back without reason (`NotHeldBack`) |
| Status window | status read in one section, recorded in another, compared by the worker | when all is quiet, the window shows the status (`StatusFollows`: violated) |

`PROJECT.json` lists these hazards at their lines.

## 2. Modules

| Module | Built on | Checked by |
|---|---|---|
| `Suppression`, `Lanes` | | |
| `Processor` | `Suppression`, `Lanes` | |
| `ModelState`, `Ring`, `Stft` | `Suppression` (the first) | |
| `ProcessorParts` | `Processor`, `ModelState`, `Ring`, `Stft` | `MCOverload`, `MCSmallRings` |
| `ProcessorView` | | |
| `ProcessorPromise` | `ProcessorView` | |
| `ProcessorKeepsPromise` | `Processor`; refines `ProcessorPromise` (`INSTANCE`) | `MCResample` |
| `CapacityPlan` | `Lanes` | `MCResample` (before its run) |
| `TwoRates` | `CapacityPlan` | `MCTwoRates` |
| `Filter` | `ProcessorView` | `MCFilter`, seven configurations |
| `StatusWindow` | `Filter` | `MCStatusWindow` |
| `RealtimeGuard`, `TimestampFloor` | | |
| `AudioCallback` | `RealtimeGuard`, `TimestampFloor` | itself, `MCAudioCallback.cfg` |
| `ProcessorProofs` | `Processor` | TLAPS |
| `StreamProofs` | `ProcessorProofs` | TLAPS |
| `PromiseProofs` | `ProcessorKeepsPromise`, `StreamProofs` | TLAPS |
| `RingProofs` | `Ring` | TLAPS |
| `PartsProofs` | `ProcessorParts`, `StreamProofs`, `RingProofs` | TLAPS |
| `FilterProofs` | `Filter` | TLAPS |
| `CallbackProofs` | `AudioCallback` | TLAPS |
| `CapacityProofs` | `TwoRates` | TLAPS |

### Suppression: the spectra of one stream
Numbers the hops of a stream and records which hops each spectrum is made of.
`FreshSpectrum` is a reset; `NextSpectrum` is one hop through `history_`, the model's
delay line, the warm-up counter, the bridge and the fade; `Resumed` is the restart
of a stopped model. A model is what the processor can see of it: a line that
returns what it was given `Delay` hops ago and forgets all at a reset. The
operators have no state of their own; `Processor` holds the record.

### Lanes: the rings
`RealtimeState` as counts: input samples, output samples, dry samples, and the
queue of packet infos with the stream position each begins at. A lane's audio is
identified by its position since the last reset (`taken`, `sent`), so
"the same audio" is arithmetic on positions. Admission (`CanAccept`) is the test of
`buffers_can_accept` with its worst-case reserve.

### Processor: DpdfnetProcessor
`process()` is stepped, because an exception may end it after any step:

| Actions | Code |
|---|---|
| `PassUntouched`, `RejectOversized`, `PassRateMismatch`, `AcceptTimestamp`, `JumpNative`, `JumpResampled` | the checks at the head of `process` and its early returns |
| `RejectCapacity`, `InputResamplerFails`, `TakeInput` | admission and the input side |
| `DiscardHop`, `EmitHop`, `InferenceFails`, `OutputResamplerFails` | one turn of the hop loop and its exceptions |
| `AfterHops`, `ReturnPending`, `StartDrain`, `DrainInfo`, `EmitPacket` | recovery reports, the decision to send, the pop |
| `DisableForRealtimeOverload`, `ResumeAfterOverload`, `ResetState`, `EndStream`, `SetControls`, `SetFormat`, `ReplaceResamplers`, `ReleaseInvalidResamplers`, `ActivateModel` | the other methods, each whole; they run between calls because all callers hold `mutex_` |

A resampler delivers, when fed, any amount that leaves it holding between none
and `Holdback` frames; a fresh pair holds what the probe's trailing zeros left
in it. The environment's one duty is `PairUnfed`: a stream that is reset gets
a pair that has not been fed. The filter keeps that duty with one exception, see
the run `kept_pair`.

Nothing here fixes the size of a ring. `PlannedRings` says of the capacities what
`include_capacity_for_rate` plans at one rate, and `RoomyRings` the little that the dry ring must hold in
any case, the prefill of a fresh pair; they are hypotheses of theorems, and the MC modules assume them
(`PlannedHere`, `RoomyHere`) of the instance they check.

### ModelState, Ring, Stft: what the processor owns
Records and operators for three classes that have state of their own: the tensors and the
flags that choose a binding; the ring with buffer, head and size, indexed as in the code; the
overlap-add buffer, each half named by the hops whose frames are summed in it. A tensor's content is
the delay line it encodes, so "the right tensor" can be told from a leftover.

### ProcessorParts: DpdfnetProcessor with them
Conjoins to each action of `Processor` what the code does to these objects in that step:
`TakeInputParts` pushes into both rings, `HopParts` peeks a window, runs the model, synthesises and
pops, `InferenceFailsParts` writes the output tensor of a run that threw before `failure_result` resets
everything, and so on. `Processor` says what the objects should hold (the model's line, the
hop that goes out, counts, the queue of infos); the properties say that they do. A frame in the
input ring is its position in the stream, so a frame read twice or skipped at the end of the buffer shows.
The rings of the output and the dry lane are left as counts.

### ProcessorView: the processor as the filter sees it
Which format, model and pair it has, whether the pair is valid, whether it has
been fed, whether the stream has taken audio, and why it is stopped. `Ordinary`
and `Setbacks` are the results `process()` may give in a view; the other operators
are the methods the filter calls.

### ProcessorPromise and ProcessorKeepsPromise: the refinement
`ProcessorPromise` is the abstract specification: a machine whose state is the view and the last answer, and
whose steps are those of `ProcessorView`, with `process()` as one atomic step.
`ProcessorKeepsPromise` shows that `Processor` implements it (`KeepsPromise`). The view is mapped
from `Processor` when no call is in progress; during a call the mapping stands still at `known`, so a
call of many steps is one step of the promise when it returns. Two more history
variables say what the view knows and `Processor` has no need of: whether the pair installed has been
fed by a call that returned, and a channel layout at the same rate. So `Filter` is not built
on guesses: what `Ordinary` and `Setbacks` list is what `Processor` can do.

### CapacityPlan
`plan_dpdfnet_realtime_capacity` with its three rates and its rounding up, and
`buffers_can_accept`, for any pair of rates. `Lanes` counts frames at one rate; here the two
rates differ. `Waiting` says what may wait in the rings between two calls.

### TwoRates: the lanes between two rates
The operators of `Lanes` again, with OBS and the model at rates of their own, in the rings `Plan` makes. Time is
counted in ticks of which a native and a model frame last a whole number each, so nothing is rounded that the code
does not round. A resampler that is fed delivers some whole number of frames and holds the rest, up to `Jitter` ticks
beyond the least it ever holds (`Deliveries`); the least, and the place of the impulse's peak, are the pair's `lag`. The probe
leaves the pair it measures in use, full of silence, so a fresh pair's delay is a whole number of native frames
(`FreshPairs`) and the dry lane starts with as many zeros. `TakeInput`, `DiscardHop`, `EmitHop`, `ReturnPending`,
`StartDrain`, `DrainInfo` and `EmitPacket` are the steps of `process()` as in `Processor`, and `Restart` is a reset or
another rate, with a fresh pair. What else can happen to a stream (pauses, failures, jumps) is left to `Processor`: a
pause changes no count, and the others reset the lanes.

### RealtimeGuard, TimestampFloor and AudioCallback: what is measured and stamped
The guard's and the floor's arithmetic as pure operators, with the largest integer a constant,
so that TLC reaches it: sums saturate as in the code. `AudioCallback` is the rest of `filter_audio` that
feeds them, around a processor that may come back with anything: `MeasuredCallback` and
`UnmeasuredCallback`, and the other sections under `mutex_` that reset guard, probe or floor (`Retry`,
`StartOver`, `NewPair`, `StreamBoundary`). Its history variable `measured` keeps the callbacks since the
guard was reset, as running totals of the time they were late and of their audio (`WithCall`; a stretch of
callbacks is then a difference, `Late` and `Audio`). `Overload` says of them what the limits in the source and README mean, without a running
debt: some time before the last late callback the filter fell behind, stayed behind, by so much over so much audio.

### Filter: DpdfnetFilter
One action for each section under `mutex_` or `resampler_request_mutex_`;
what such a section reads and writes nobody else sees in between. No such section waits for
anything with its mutex held or takes another mutex inside it, so these mutexes alone cannot deadlock. `update_mutex_`
is held across sections, so it is the variable `updateLock`. The condition
variable is the guard of `WorkerWake`: it wakes on its predicate, or, if it went to
sleep with a deadline, when that has passed.

| Thread | Actions |
|---|---|
| audio | `AudioArrives` (reads OBS's format), `AudioProcess` (the section under `mutex_`: format, process, guard, pause), `AudioPost` (one per `request_worker`) |
| worker | `WorkerWake`, `RebuildRead`, `RebuildInstall`, `WorkerRetry`, `StatusRead`, `StatusShow` |
| caller | `update`: `BeginUpdate`, `UpdateRead`, `UpdatePrepare`, `UpdateFallback`, `UpdateInstall`; `reset_state`: `ResetRead`, `ResetInstall`, `ResetClear`, then an update; enable signal: `BoundaryRead`, `BoundaryInstall`, `Notify` |
| OBS | `ResetObsAudio` (another rate or channel layout), `Destroy`, and the passing of the deadline |

Abstractions that matter to a reader: a guard may trip in any callback that processed hops, and a
probe may end in any callback without an event; when they do is the subject of
`AudioCallback`. Diagnostics are a slot for each kind of event in the code; the constant `Slots` names the
kinds a run follows by slot, one flag (`news`) stands for the others. `unlogged` is a history variable: what has been
reported and not logged. Attempts saturate at the last delay. OBS's enabled flag is not modelled: callbacks may come at any
time, also around an enable signal. Comparisons of hop size and channels that can
only differ together with a rate or a format are made on the rate or format.
A filter may be given audio before its first update: it has no model then and
passes audio through, as after a model that could not be loaded.

### StatusWindow: the properties window
Adds to `Filter` the window, `shown_status_key_`, the worker's comparison after `status()` and the UI
thread, which reads the status in one section and records and shows it in another. Settings are
changed from the window, so an update runs in the UI thread and the window is
updated after it. `Key` is the status as `status_key` reduces it: without digits and load, and here also without the
bypass, the enabled flag and the counts.

Each module names some definitions "Slip": a plausible mistake in the
definition after it. They are not part of the specification; substituted for
it, they show which property would notice.

## 3. Runs

| Run | Instance | What it shows |
|---|---|---|
| `overload` | `ProcessorParts` on the native path, packets of 1, 3 and 4 frames (4 is oversized), hop 1, delay 2, fades of 2 and 3 hops; pauses, stream ends, controls, runs of the model that throw | `Aligned`, `SmoothFade`, `TensorsCarryLine`, `OverlapComplete`, `CallReturns`: through pauses in a fade-in and retries in a fade-out |
| `resample` | `ProcessorKeepsPromise`, rates 44 and 48, packets of 1, 4 and 5 frames (5 is oversized), hop 2, a pair that holds back up to 1 frame on each side; every disturbance but controls; planned capacities | `TypeOK`, `LanesInSync`, `OutputStamped`, `PassthroughLeavesNothing`, `BoundedLatency`, `NoCapacityFailure`, `PathIsCurrent`, `FailuresReported`, and the refinement `KeepsPromise`. Before it starts, TLC evaluates `PlanAccepts`: the capacity plan for all rates from 5 to 8, windows to 4 and delays to 2, against the fullest rings |
| `small_rings` | `ProcessorParts` with a pair and rings smaller than the plan, as one of the repository's tests builds them; input ring of 5 frames for a window of 4 and packets of 1, 3 and 4 (5 is oversized); jumps, pair changes, pauses, every failure, reset, format | admission turns packets away before a ring overflows (`RingsHold`); what then passes leaves nothing behind; a jump's report survives capacity failures; the rings hold what the lanes say, at every head position (`RingsCarryLanes`) |
| `two_rates` | `TwoRates`, OBS at rates 2, 3 and 5 with a model at 3, hop 1, delay 1, packets of 1, 4 and 10 frames, slack of 2 frames and a jitter that uses it up at the lowest rate; rings as planned for rates 2, 3 and 5, without the plan's least sizes | `TypeOK`, `InTime`, `LoadBounded`, `PacketsFit`, `PushesFit` |
| `callback` | `AudioCallback` with integers to 7 and debt limits of 3 and 2, probe audio 3; two rates, clocks that go back, callbacks of cost 0, 2 and 6 | `PauseEarned`, `OverloadNoticed`, `RecoveryEarned`, `NoOverlap`, `NotHeldBack`, with all sums reaching their end |
| `filter_pauses` | one 44.1 kHz format, one model, update; load, process and overload failures; the processor's events by slot | `PauseHasRetry`, `DelayFitsAttempt`, `ScheduleFollowsProbe`, `NoEventLost`, and, under fairness, `PauseEnds`, `WorkerStops` |
| `filter_callers` | two callers, one 44.1 kHz format; update, reset and both halves of the enable signal; process failures, so that the worker replaces pairs meanwhile | `CallsReturn` (no deadlock among callers and worker, under fairness), `StatusModelAlive` while the model comes and goes, and `PairMatchesPrefill`: whoever restarts the stream, it starts with a fresh pair |
| `filter_formats` | two models of different rates; 48 kHz, 44.1 kHz and 44.1 kHz surround; update and reset; load and prepare failures | `PairIsComing`: a pair under construction while the format changes, and while models are swapped and rejected |
| `reset_race` (violated) | one format, update and reset, overload | see Findings 1 |
| `boundary_race` (violated) | two resampled rates, enable signal | see Findings 2 |
| `kept_pair` (violated) | two models, prepare failures | see Findings 3 |
| `stale_status` (violated) | one native format, update, process failures | see Findings 4 |

### Bounds
* `MaxTaken` bounds the frames a stream takes between two resets (12, 10, 8): a
  packet is accepted only within it. To fill the pipeline from end to end takes a window, what
  the pair holds back and the model's delay: 4, 8 and 8 frames. What is beyond that lets the
  `overload` run, the one about fades, go through a whole fade-out and into a fade-in
  within one stream. A reset starts the count anew, so runs go on for ever.
* In `two_rates`, 23 frames between two restarts are two packets of the largest size and three small ones: enough for what
  the first leaves in every ring to meet the worst of the second. The rates are prime to each other, so every rounding
  occurs. The plan's least sizes (16384 frames) are set to nothing: they would hide a plan that is too small.
* Hop 1 on the native path, hop 2 with a resampler, so that a hop may be filled by one
  packet or two and a packet may fill none, one or two hops. Packets of more than
  `MaxPacket` frames are the oversized ones. Holdback 1 makes a resampler's delivery vary.
* Fades of 2 and 3 hops let a pause begin in mid-fade in both directions; a
  delay of 2 gives a bridge and a warm-up of more than one hop. The
  theorems hold for all of these.
* The input ring of `small_rings` has room for a window and one frame: a packet finds it full at
  every fill level, and hops of 2 in a buffer of 5 bring the head to every position, so pushes and
  peeks are split by the end at every place.
* `callback` has integers that end at 7, for nanoseconds and for timestamps. Debt limits
  of 3 and 2 and costs to 6 let sums reach the end in two callbacks. A debt that has
  saturated is at its limit whatever it would be, so what saturation hides is only how
  far behind the filter is beyond that. `MaxCalls = 3` bounds the callbacks measured between two resets of
  the guard: one to build debt, one to work some off, one to trip. Timestamps of packets are 0 and 6,
  with the end one packet away.
* `LastDelay = 3` in `Filter` is the code's: three delays, the last repeated. In
  `callback` it is 2, a first and a last.
* Two callers where the question is who waits for whom (`filter_callers`), one elsewhere: `update`,
  `reset_state` and `reset_stream_boundary` run under `update_mutex_` except for their last step
  (`ResetClear`, `Notify`), so a second caller adds little but other orders of whole calls, and one caller makes
  those too.
* Filter runs split by question: the product of formats, models, calls and
  failures is too large for one run. Three things are left out because the properties do not hold with
  them, see Findings: `filter_pauses` has no reset, `filter_formats` has no enable signal, and
  `filter_callers`, which checks `PairMatchesPrefill`, has one model. Packets that fail are in `filter_pauses` and
  `filter_callers`; with every failure, format and model at once, `PairIsComing` is
  a theorem only, and `PairMatchesPrefill` is one under the condition its table row states.
* The filter's runs switch deadlock checking off: after `Destroy` the system stops.

### Fairness
* `WF(Continue)` in `Processor`: a call that has begun goes on. It is the
  only assumption of `CallReturns`.
* In `Filter`: a callback in progress goes on (`WF(AudioProcess)`, `WF(AudioPost)`; they
  need only mutexes that are held for a bounded time), time passes (`WF(DeadlinePasses)`), and a worker or caller that
  finds `update_mutex_` free again and again gets it in the end (`SF(WorkerStep)`,
  `SF(ClientStep(c))`). `std::mutex` does not promise that, but its holders come and go at the rate of a
  user's clicks and of stream ends, and are away for far longer than a waiter needs to be woken.
* No fairness on OBS: no callback, call or destruction need ever come. In
  particular a pause ends by the worker's doing alone.

### Findings
Each is a run that TLC finds violated, against a sentence of the repository.

1. **A reset can clear the retry of a later pause** (`reset_race`). `reset_state` resets the
   processor under `mutex_`, releases it, and clears the retry deadline under the request
   mutex afterwards (`filter.cpp:707`). A pause that begins and posts its deadline in
   between stays without one. README.md:58-60 promises a retry until the filter keeps up. The
   resetting thread must be held up between two adjacent sections for as long as the callbacks take that run the
   guard into its limit, so it is rare.
2. **The enable signal can install a pair for an old rate** (`boundary_race`).
   `reset_stream_boundary` installs the pair it prepared without asking, as the worker does,
   whether it still fits (`filter.cpp:753`, compare 1204). The wrong pair counts as valid, so nobody
   prepares another, and audio passes through unprocessed until a setting changes. `PairsAlwaysComing` shows that
   this is the only way: without an enable signal, or at one rate, a missing pair is always on its way.
3. **A rejected model keeps a pair that has been fed** (`kept_pair`). When a model's
   resamplers cannot be prepared in the same update that switches the input channel
   (`filter.cpp:381`), the stream is reset while the pair is kept: the dry lane's prefill assumes a
   fresh pair (`processor.cpp:550-552`), which still holds audio of the old channel.
4. **The properties window can go on showing an old status** (`stale_status`). `update_status_properties`
   reads the status and records it in two sections (`filter.cpp:1345-1346`). If the state changes back in between
   to what was shown before, the worker compares, finds nothing new and returns (1176); the UI thread
   then shows what it had read. README.md:82-83 promises that state changes update automatically.

Met while modelling, and not runs of their own:

* After an update could not prepare a pair, OBS changing to the model's own rate makes the status go from
  unavailable to active in the audio thread, which posts nothing to the worker: the window shows it at the
  next event.
* At a model of exactly the lowest supported rate with OBS just above it, the plan lacks the resampler slack: `Covers`
  excludes that corner from the theorem below. No such model is bundled.

## 4. Proofs

TLAPS checks the following for all constants that meet the modules' assumptions: any set of rates, packet
sizes and callers, any hop, delay and fade, any capacity. `SuppressionAssumption`, `LanesAssumption`,
`ProcessorAssumption`, `ViewAssumption`, `FilterAssumption`, `CallbackAssumption`, `FloorAssumption` and
`PlanAssumption` say little more than "a natural number" and "a subset". `NoPairAssumption` says that no resamplers are
not a pair between two rates, which `resampler_matches` asks first (`processor.cpp:497`). `GuardAssumption` adds that a probe's limits are
not above the normal ones, as the constants in `realtime-guard.hpp` are, and `ProbeAssumption` that the audio a probe
asks for and one packet more fit in 64 bits. `TwoRatesAssumption` is about the size of constants: what a resampler holds back
varies by no more than `RESAMPLE_BOUND_SLACK` (256) frames at the lowest rate, which is what that constant is for and
could not be claimed of libobs from this repository; packets of 8192 frames leave room for twice that (`Spare`); and
OBS's rates are ones the slack covers (`Covers`, see above). TLC evaluates all of them in the runs. What a theorem
assumes beyond that is in its row.

| Module | Theorem | Says |
|---|---|---|
| `ProcessorProofs` | `CallInvariant`, `TypeCorrect` | `TypeOK`, and that a call in progress passed the checks its later steps rely on |
| | `AlwaysAligned` | `Aligned` |
| | `AlwaysSmooth` | `SmoothFade`, an action property |
| | `ResumedInStep` (with `HopInStep`, `FreshInStep`) | a retry leaves model line, bridge, warm-up and history in step |
| `StreamProofs` | `AlwaysInSync` | `LanesInSync` |
| | `PassthroughIsClean` | `PassthroughLeavesNothing` |
| | `PathAlwaysCurrent` | `PathIsCurrent` |
| | `AlwaysStamped` | `OutputStamped` |
| | `LatencyStaysBounded` | `BoundedLatency` |
| | `RingsNeverOverflow` | `RingsHold`, if `RoomyRings` |
| | `PlannedRingsSuffice` | `NoCapacityFailure`, if `PlannedRings` |
| | `FailuresAlwaysReported`, `JumpsAlwaysReported` | `FailuresReported` and `JumpsReported`, action properties |
| `PromiseProofs` | `PromiseIsKept` | `KeepsPromise`: `Processor`, with its history variables, implements `ProcessorPromise` |
| `RingProofs` | `PeekIsPrefix`, `PushAppends`, `TryPushIsAllOrNothing`, `PopDrops`, `ReserveKeeps`, `PushGrows` | a ring is a queue: each operation keeps it well-formed and does to its contents what its name says, for every capacity and wherever the buffer wraps |
| `PartsProofs` | `OverlapsAreComplete` | `OverlapComplete` |
| | `RingsAlwaysCarry`, `TensorsAlwaysCarry` | `RingsCarryLanes` and `TensorsCarryLine`, if `RoomyRings` |
| `CapacityProofs` | `PlanAcceptsEveryPacket` | the plan, which looks at three rates only, has room for a packet of any legal length at every rate in between, while `Waiting` holds |
| | `TwoRatesInvariant`, `TwoRatesTypes` | the invariant of `TwoRates`, and its `TypeOK` |
| | `AlwaysInTime`, `LoadAlwaysBounded` | `InTime` and `LoadBounded`: `Waiting` holds of every stream |
| | `PacketsAlwaysFit`, `PushesAlwaysFit` | `PacketsFit` and `PushesFit`: no packet and no push is refused |
| `CallbackProofs` | `CallbackTypes` | `TypeOK`: no sum, debt or stamp leaves its integer |
| | `OutputsNeverOverlap`, `OutputsNotHeldBack` | `NoOverlap` and `NotHeldBack` |
| | `RecoveriesAreEarned`, `PausesAreEarned` | `RecoveryEarned` and `PauseEarned`, action properties |
| | `OverloadsAreNoticed` | `OverloadNoticed`, if `SumsFit(most)` for some `most`: the sums of `MaxCalls` callbacks fit in 64 bits |
| `FilterProofs` | `FilterInvariant`, `FilterTypes` | `TypeOK`, who holds `update_mutex_`, and what a callback has left to post |
| | `StatusReadsALiveModel` | `StatusModelAlive` |
| | `ScheduleNeverRunsAhead`, `DelayAlwaysFits` | `ScheduleFollowsProbe` and `DelayFitsAttempt` |
| | `EventsAreLogged` | `NoEventLost` |
| | `PausesKeepTheirRetry` | `PauseHasRetry`, if nobody calls reset (`"reset" \notin Calls`) |
| | `PairsAlwaysComing` | `PairIsComing`, if there is no enable signal, or one sample rate only |
| | `PairsMatchPrefill` | `PairMatchesPrefill`, if preparing a pair never fails, or there is one model only |

Some hypotheses deserve a word. `SumsFit` is false in the `callback` run, which makes sums saturate on purpose and finds
`OverloadNoticed` true all the same on its instance; in the code 2^64 nanoseconds are 584 years of callbacks. Without
`"reset" \notin Calls` the theorem is false: the run `reset_race` is its counterexample. So it is with the two theorems
on pairs and the runs `boundary_race` and `kept_pair`, and the hypotheses say how far these findings reach: the race
needs an enable signal and a sample rate that changes, other channels alone do no harm; the kept pair needs a failure to
prepare one and a second model to fail for. Any number of callers, and every other call and failure, are allowed. The
other theorems on `Filter` hold with every call and every failure.

### How they go
* *Types and calls.* `TypeOK` alone is not inductive: that a count stays natural when a hop or a
  pop takes from it depends on what the call checked before. `CallInv` says so: a call that has got
  past the checks is not stopped and has a packet of legal size, a pop finds in
  the lanes what it has set out to take, and the packet in front has frames left.
* *Spectra.* `Aligned` speaks of the hop that comes out now; what makes it true was put in `Delay`
  hops earlier. `SpectrumInv` (`InStep` of `Suppression`) relates the model's line, the
  bridge, the warm-up counter and the history ring: each slot either holds the hop its place calls
  for or lies behind the warm-up or the bridge. A reset establishes it (`FreshInStep`), a hop
  keeps it (`HopInStep`), a retry re-establishes it from any state (`ResumedInStep`). `VoiceInv` ties
  the last hop's level to the depth, from which `SmoothFade` follows step by step.
* *Lanes.* `LanesInSync` is a conservation law, and is preserved only because no pair that holds
  audio is put under a stream: `PairInv` (a pair of an unstarted stream is as primed) and `QuietInv`
  (where the processor lets audio pass, nothing is buffered). `StreamInv` is their conjunction with
  `LanesInSync`; one lemma for each action.
* *Queue and latency.* `InfoInv` says that the packet infos lie end to end from the next frame to go out up to the
  last one taken in, and what a pop under way has gone through; `OutputStamped` is its consequence at `EmitPacket`.
  A step either takes a packet, runs a hop, drains, empties the lanes or leaves them alone, and is treated as one of
  these. `LoadInv` bounds what is between the two ends of the voice lane while a call is under way, and with
  `LanesInSync` gives `BoundedLatency`.
* *Room.* `RingsHold` is not inductive either: a hop pushes what it synthesises without asking.
  `RoomInv` adds that, in the hop loop, what is in input, output and the output resampler together still fits in the output ring,
  which is what admission reserved. `PlannedRingsSuffice` turns `LoadInv` and `BoundedLatency` into the four
  inequalities of admission.
* *Reports.* Every step but a failure leaves the row of failures or ends it (`Calm`), and a row that was
  reported is a row (`ReportedInv`).
* *Refinement.* The promise makes one step when a call returns, from the view the call began with, and
  Processor knows at that moment only what has become of it. `MapInv` keeps the two together: the remembered view differs
  from the present one in no more than the audio in the lanes and the row of failures (`CallBegan`), a call that is turned
  away after a refused packet had none in them, and a drain that follows a hop ends the row. Then one lemma for
  each way a call returns (`PassedStep`, `TurnedAwayStep`, `JumpedStep`, `FailedStep`, `SucceededStep`) and for each
  other method; the steps within a call map to no step (`GoingOn`).
* *Rings.* `Contents` lists what a reader would read, slot by slot modulo the capacity. Each lemma shows where
  the slot of an element lies (`SlotOf`) and that the two copies of a split push or
  peek meet there; two sequences of one length with the same elements are equal.
* *Parts.* `ProcessorParts` refines `Processor` (`PartsRefine`), so all of the above holds in it. Its steps are sorted by
  what they do to the parts: keep them, clear them, install new ones, resume, push, hop or drain. `OverlapInv`: the back half
  of the buffer is exactly the last hop that went out. `RingsInv`: both rings are well-formed, have the planned capacity, and hold what the
  lanes count; pushes fit by `RingsNeverOverflow`. `TensorsInv`: the two flags turn together, so a model that is to read
  its initial tensor has parity 0, which makes the run after it read the tensor that this one writes.
* *Capacity.* What is asked of a ring and what is planned for it are compared after multiplication with a
  rate, where rounding up costs less than one frame each time (`ScaleCeil` lies between a quotient and the next).
  The input ring needs most at OBS's lowest rate, the output and the dry ring at the highest, and at the
  model's own rate nothing is rounded, so one of the three rates of the plan bounds each need. `PlanAcceptsEveryPacket` assumes `Waiting`: how much
  audio waits in the rings between two calls, in native frames, with `spare` for what resamplers run ahead.
* *Two rates.* `LoadBounded` is that assumption, and the invariant of `TwoRates` gives it: `InTime` is exact, in
  ticks, so no error is carried from one call to the next; `InfoInv` makes the packet infos a chain, so there are no more of
  them than frames in the dry lane beyond its zeros (`ZerosInv`); `LoadInv` bounds the voice lane in
  ticks: a call adds its packet, and ends with the output empty, a whole packet sent or nothing left to send. A hop pushes
  what it synthesises without asking: `RoomInv`, as in `Processor`, says that in the hop loop
  all that can still come out fits. Admission reserves by rounding up and adding the slack, and the slack covers
  what a resampler may have held (`SlackCoversJitter`). With `LoadStays`, `PlanAcceptsEveryPacket` then closes the circle: every
  packet of legal size is admitted (`PacketsFit`).
* *Guard, probe and floor.* `FloorInv`: the floor is where the last output ended. `ProbeInv`: the probe's sum is at most
  the audio that went well. For the guard's debt, two relations to the callbacks in `measured`. `Owed`: there is a callback
  since which the filter was behind without a break, by the debt or more, over the audio observed, so a trip is an
  overload. `Counted`: the debt is at least what is owed since any callback, while no sum has saturated, so an
  overload is a trip.
* *Filter.* `FilterInv` has the types, who holds `update_mutex_` (`LockInv`: the holder and nobody else is in a step that
  needs it, which is why a status is read of a model that is alive), what a call has prepared (`ClientInv`), and that a
  callback has one result left to post, or an event and then the pause that displaced it (`PostsInv`). Most steps leave
  reason and schedule alone (`Settled`) or clear both (`Cleared`). `DelayInv` follows a delay from the count under
  `mutex_` through the posts to the deadline under the other mutex; `LogInv` follows an event the same way.
  `PauseHasRetry` follows the retry, and needs that no thread is in a reset (`NoResets`).
* *Pairs.* The difficulty is what a call or the worker has read under `mutex_` and acts on later under
  `update_mutex_` alone, while callbacks change the format and give pairs up. `HandInv` says what is left of it: the
  model is the one that was read; where the format has changed the pair is invalid or none; a pair that has gone stale
  since is pending; a pair an update decided to keep serves the model, or has gone stale and is pending. Only the holder of
  `update_mutex_` does more to the pair than a callback does (`PlayStep`), and what a callback may do (`Played`) keeps
  every such hand (`HandPlays`). `Fits`: a pair is always between two different rates, so a stream that needs none has no
  pair in use. `PairMatchesPrefill` follows from these step by step. For `PairIsComing` the disjunction is split by
  who is in charge: `StaleInv` (a stale pair is pending, with the worker, or with a call), `MatchInv` (a pair that is
  missing and not stale is an error shown, or a call's business), `RebuildInv` (what the worker installs is for the stream as
  it is, or the format that came since has asked for another).

The temporal conclusions combine these with `PTL`. `IInv` in `Processor` conjoins the parts of its invariant; TLC
finds it true of the instance in `MCResample.cfg`, and it is the first thing to check after a change to that module.

### Only model-checked
* Liveness: `CallReturns`, `PauseEnds`, `CallsReturn`, `WorkerStops`. The prover does not handle
  `ENABLED` or fairness.
* `StatusFollows` of `StatusWindow`, which is violated.
* What the code's integers do at their ends is proved of `AudioCallback` only; the counts in `Processor` are naturals.

## 5. Not modelled
* Sample values, gains, mixing, the attenuation limit as a number, windows and the Fourier
  transforms: floating point, which TLC cannot check and no property here is about.
* ONNX Runtime and libobs: external; they appear as what they may return. Loading a model and
  checking its metadata happens before there is any state (`UpdatePrepare` has its outcomes).
* Settings and property pages beyond the status line, message texts, log rate limits: text.
* The timing histogram and the load window (`filter.cpp:95-202`): counters for a log line and two numbers in the
  status; nothing decides on them.
* `tools/` and `tests/`: programs around the plugin's classes, without state of their own that the filter shares.
* `Processor` counts packet timestamps in frames of a steady clock, so rounding from frames to nanoseconds is
  not seen there; `AudioCallback` truncates durations as the code does.
* Overload pauses are not told apart by name. A worker that has taken an expired deadline may be overtaken by
  an update and a new pause (`filter.cpp:1136`) and then ends the new pause early. `filter_pauses` has these
  interleavings and shows that schedule and retry survive them (`ScheduleFollowsProbe`, `PauseHasRetry`); that a pause
  lasts as long as its delay is not claimed.

## 6. Plan
In this order, what is left:

1. The load window, if a property worth stating is found for it.
2. Retries named by the pause they belong to, to say how long a pause lasts.
