# TLA+ models of OboeTester and oboe

This directory holds TLA+ specifications of the C++ code under `src/`, the
TLC configurations that model-check them, and TLAPS proofs.

## The system

The code base has six files. They belong to two layers.

- **OboeTester's native engine.** `NativeAudioContext.cpp` holds the stream
  table (`mOboeStreams`, `kMaxStreams` slots) and `open`, `close`, `start` and
  `configureForActivityType`. It also holds `runBlockingIO`, the loop of the
  blocking-I/O thread. `jni-bridge.cpp` forwards the Java UI's calls to it, one
  call at a time on the UI thread. Three kinds of actor share its state:
  - the control thread that makes these calls;
  - the blocking-I/O thread that `start()` spawns when callbacks are off;
  - the audio backend's real-time thread, which calls `oboeCallbackProxy`
    for streams opened with callbacks.

  The backend also completes asynchronous start and stop requests, and it may
  disconnect a stream.
- **Tone generation.** `OscillatorBase.h` is the phase accumulator under every
  tone generator. `configureForActivityType` sets its sample rate.
- **oboe library.** `QuirksManager.cpp` decides whether a stream needs a
  conversion stage, and what child configuration should open the native
  stream. `AudioStreamOpenSLES.h` and `LinearResampler.h` contain only
  declarations.

## Modules

| Module | Models | Checked by |
|---|---|---|
| `AudioContext` | NativeAudioContext plus the JNI control entry points | `MCAudioContext` |
| `Quirks` | `QuirksManager::isConversionNeeded` | `MCQuirks` |
| `Oscillator` | `OscillatorBase::setSampleRate`, `incrementPhase` | `MCOscillator` |
| `BufferSize` | the buffer-size computation of `configureForActivityType`, with `setCallbackSize` | `MCBufferSize` |
| `AudioContextProofs`, `BufferSizeProofs`, `QuirksProofs`, `OscillatorProofs` | TLAPS proofs | tlapm |

### AudioContext

**State.**
- `streams` is `mOboeStreams`. A stream is a record of:
  - its direction;
  - whether it was opened with `oboeCallbackProxy`;
  - its backend state;
  - its negotiated channel count.
- `activity`, `useCallback` and `channelCount` are `mActivityType`, the static
  `useCallback` and `mChannelCount`.
- The graph nodes `audioStreamGateway`, `mRecording` and `dataBuffer` are
  represented by the number of the `configureForActivityType` call that
  allocated them (`cfgGen`). A pointer that outlives its object therefore shows
  up as a stale number. `proxy` is the target of `oboeCallbackProxy`.
- `cbIn[i]` is the node that a callback in flight on slot `i` is using.
- `threadEnabled`, `tpc` and `tStream` are the atomic flag, the thread's
  program counter and its local `oboeStream`.
- `tNodes` is a history variable: the nodes as they were when the thread was
  spawned.
- `ctl` is the control call that is blocked in `dataThread->join()`.
- `fault` records undefined behaviour. A null dereference or an out-of-range
  `sineOscillators` index ends the process, which is the `Halted` step.

**Actions.**
- **`Open`** is the successful `open()`. All of its error returns leave the
  state unchanged. The backend may negotiate a count of its own for an
  unspecified channel count.
- **Calls that join the thread.** `close`, `start` and `stop` each call
  `stopBlockingIOThread()`, which clears the flag and joins the thread. When a
  thread exists, each call is split at the join (`CloseBegin` / `CloseFinish`,
  and the same for start and stop). When no thread exists, each call is one
  step (`CloseNow`, `StartNow`, `StopNow`).
- **`StartRest`** is the whole of `start()` after `stop()`:
  - `configureForActivityType`, including its null dereferences and its
    `sineOscillators` index;
  - `requestStart`;
  - spawning the thread.

  Each slot may have its `requestStop` complete synchronously or asynchronously.
- **Blocking-I/O thread.** `ThreadFind` and `ThreadIterate` are the two parts
  of `runBlockingIO`: finding the first stream, and one iteration of the loop.
- **Callbacks.** `CallbackBegin` and `CallbackEnd` are a data callback entering
  and leaving `oboeCallbackProxy`.
- **Backend events.** `BackendComplete` and `Disconnect` are events of the
  backend.

`stop()`, `stopBlockingIOThread()`, `OboeCallbackProxy` and the oboe stream
state machine are in headers and libraries outside `src/`. They are modelled
from their documented behaviour and are marked `spec_modelled` in
`PROJECT.json`.

### BufferSize

`configureForActivityType` sizes the output buffer at lines 342–350. The
size is two bursts, or, when `callbackSize` exceeds a burst, enough whole
bursts for two callbacks. `callbackSize` comes from `setCallbackSize` over
JNI without any check. The arithmetic is therefore modelled in two's
complement with `IntWidth` bits:
- `Wrap32` is the wrap the build gives to signed overflow;
- `CDiv` is C++ division, which truncates toward zero.

The actions are:
- `SetCallbackSize`;
- `OpenStream`, which records `mFramesPerBurst`;
- `ConfigureBuffer`, which records its inputs and the size it requests.

The module keeps only the variables this computation touches. The rest of
`start()` is in `AudioContext`.

### Quirks

`ChildOf` and `ConversionNeeded` are the function `isConversionNeeded`, with
one operator per workaround:
- `RateRule`;
- `FormatRule`;
- `StereoInputRule`;
- `MonoOutputRule`.

The state machine takes a builder. `IsConversionNeeded` applies the decision
once, and `OpenStream` takes the next builder.

### Oscillator

The phase is held as the exact rational `phase / Unit`. The sample rates are
the divisors of `Unit`, so that `frequency / sampleRate` is a whole number of
units. `Wrap` is the two-sided wrap of `incrementPhase`. Float rounding is
not modelled.

## Runs

The passing runs:

| Run | Properties | What it shows |
|---|---|---|
| `MCAudioContext.cfg` | `TypeOK`, `ThreadResourcesLive`, `JoinCompletes` | While the thread runs, the nodes it started with are current and its stream is in the table. Every join returns. |
| `MCBufferSize.cfg` | `BufferHoldsTwoCallbacks` | Every requested size is a whole number of bursts, holds two callbacks (at least two bursts), and is the smallest such size. |
| `MCQuirks.cfg` | `ChildIsFixpoint`, `ConversionExactlyWhenChanged` | The returned flag is true exactly when the child was changed. The child needs no further conversion. |
| `MCOscillator.cfg` | `PhaseInRange` | The phase stays in [-1, +1). |

The violation runs. Each checks one property, and TLC finds it violated (see
`findings` in `PROJECT.json`):

| Run | What TLC finds |
|---|---|
| `MCQuirksTable.cfg` (`UnspecifiedRateNoConversion`) | The channel rules request conversion even when the sample rate is unspecified. |
| `MCAudioContext_ExclusiveMode.cfg` | `setUseCallback(false)` between `open` and `start` makes the thread serve a stream that also has a callback. |
| `MCAudioContext_BufferFitsStream.cfg` | `dataBuffer` is sized for the last stream opened (the FIXME at line 227), but the thread serves the lowest slot. The trace opens a stereo output and then a mono stream, and the thread writes 2-channel blocks from a 1-channel buffer. |
| `MCAudioContext_ThreadOnStartedStream.cfg` | `start()` starts the activity's stream, but `runBlockingIO` loops on the lowest slot (the TODO at line 410). With an output stream in slot 0 and an input in slot 1, TestInput's thread blocks on the output stream, which was never started. |
| `MCAudioContext_CallbackTargetLive.cfg` | `close(i)` resets `audioStreamGateway` even when slot `i` does not hold the output stream, while the proxy still calls it. |
| `MCAudioContext_NoNullStreamDeref.cfg` | `start()` with only the other direction's stream open dereferences null. |
| `MCAudioContext_OscillatorIndexInRange.cfg` | `open()` accepts 256 channels, but `sineOscillators` has `MAX_SINE_OSCILLATORS` entries. |
| `MCBufferSize_Overflow.cfg` (`BufferHoldsTwoCallbacks`) | A callback size of 64 in 8-bit arithmetic (about 2^30 in 32-bit arithmetic) overflows `callbackSize * 2`, and the requested size is negative (-128). |

### Bounds, and why they are enough

- **AudioContext.**
  - Two slots are enough for an input and an output stream to be open
    together. `ExclusiveMode`, `BufferFitsStream`, `CallbackTargetLive` and
    `ThreadOnStartedStream` need two; the null dereference and the oscillator
    index need only one.
  - Two configurations let `start()` be called again, which replaces the nodes.
  - One sine oscillator with a two-channel stream exceeds the array.
  - The passing run uses the channel requests `{-1, 1}`. The value -1 exercises
    `open()`'s range check, which the `TypeOK` mutant removes. The thread and
    join properties do not depend on the channel count.
- **BufferSize.** The width is 8 bits rather than 32, because TLC's own
  integers overflow at 2^31. The computation does not depend on the width
  except through the wrap, and the proof covers every width.
  - The callback sizes cover all the branches of the computation: -1, 0,
    below, at and above each burst size, sizes that are not multiples of a
    burst, and 61, the largest size that does not overflow with a burst of 4.
  - The burst sizes are 1, 3 and 4.
  - The overflow run adds 62, 64 and 100.
- **Quirks.** The sets contain every value that a rule's comparisons tell
  apart:
  - a specified and an unspecified rate;
  - the channel counts 0, 1, 2 and 3;
  - the SDK versions below O, at O, between O and P, and at P.
- **Oscillator.** The sample rates 2, 3, 4, 6 and 12 with 12 units per 1.0 give
  increments of 1 to 6 units. The frequencies go up to each rate's Nyquist
  limit in both directions, so a phase can land exactly on +1.0.

### Fairness

Only the steps whose progress the code guarantees are fair:
- the blocking-I/O thread, which the OS schedules and whose reads and writes
  time out after `NANOS_PER_SECOND`;
- the completion of a join once the thread has ended;
- a callback's return.

`CloseFinish` is strongly fair. Once `close()` has begun, the stream's
callbacks do not keep re-entering forever. The user and the device are not
fair: nothing obliges them to call anything.

## Proofs

TLAPS proves the following theorems for every value of the constants:

- **`QuirksProofs`**: `ConversionExactlyWhenChangedHolds`,
  `ChildIsFixpointHolds` and `TypeCorrect`.
  - The inductive invariant `IInv` says that before the decision the child is a
    copy of the builder, and afterwards it is `ChildOf(builder, builder, sdk)`.
  - The lemmas `ChangedIffNeeded` and `DecidedIsFixpoint` prove the two
    properties rule by rule.
- **`AudioContextProofs`**: `TypeCorrect` and `ThreadResourcesLiveHolds`.
  - `TypeOK` is inductive as it stands. It includes `tpc = "loop" => tStream \in
    Slots` and `ctl.op = "close" => ctl.slot \in Slots`.
  - `ThreadResourcesLive` is proved from `LiveInv == TypeOK /\
    ThreadResourcesLive`, with one case per action. The key facts are:
    - every action that frees or reallocates is guarded by `tpc = "none"`, or
      runs after the join (`tpc = "done"`);
    - `StartRest` records `tNodes` when it spawns the thread.
- **`BufferSizeProofs`**: `BufferHoldsTwoCallbacksHolds`. It holds under the
  hypothesis `NoOverflow`: twice a burst fits in the width, and so does twice
  a callback plus a burst when the callback exceeds a burst.
  - The property alone is not inductive. The strengthening `RequestInv` says
    that the recorded size is `BufferRequest` applied to the recorded inputs.
  - The lemma `RequestRule` proves the sizing rule for one request.
  - It rests on two lemmas. `WrapId` says that the wrap is the identity inside
    int32_t. `DivBracket` brackets an integer division.
  - The provers do not derive `2^n = 2 * 2^(n-1)` for a symbolic width.
    `BufferSizeAssumption` therefore states these two facts about the width,
    and TLC evaluates them on every run.
- **`BufferSizeProofs`**: `NegativeRequestAt32`. At `IntWidth = 32`,
  `setCallbackSize(2^30)` with a 192-frame burst makes the request
  `-2147483328`. This is the overflow that the 8-bit violation run finds, shown
  here at the width of the built code.
  - SMT cannot encode `2^(IntWidth - 1)`, and Zenon overflows its stack on
    ten-digit literals. The proof therefore names the powers with a hidden
    `DEFINE`.
  - Zenon rewrites `Wrap32` and `Int32` in terms of the names. SMT then does
    the arithmetic on the literals.
- **`OscillatorProofs`**: `PhaseInRangeHolds`.
  - The invariant `PhaseInRange` alone is not inductive. The strengthening adds
    `scale * sampleRate = Unit` once a rate is set, and `scale = 0` before.
  - With this, a sub-Nyquist frequency moves the phase by at most half its
    range (lemma `IncrementBound`), so one wrap is enough (`WrapInRange`).

The following are model-checked only:
- `JoinCompletes`, because liveness is outside the prover's reach;
- `BufferFitsStream`, `ThreadOnStartedStream`, `CallbackTargetLive`,
  `NoNullStreamDeref` and `OscillatorIndexInRange`, which TLC finds violated;
- `ExclusiveMode`, `UnspecifiedRateNoConversion`, likewise violated;
- `BufferHoldsTwoCallbacks` when inputs overflow, which does not hold.

## Not modelled

- `LinearResampler.h` and `AudioStreamOpenSLES.h` are declarations only.
- The Echo activity (`FullDuplexEcho`), `startPlayback` and `pause`.
- The getters (`getState`, `isMMapUsed`, the peak levels) and the tone setters.
- Frame counts other than the buffer-size request.
- A zero burst size in `numBursts`: `mFramesPerBurst` comes from the opened
  stream, whose backend reports a positive burst.
- An out-of-range index to `close()`. It is undefined behaviour only if the
  Java side passes back the -1 of a failed `openNative`, and that code is not
  in the repository.
- Frequencies of twice the sample rate or more, which `incrementPhase` does
  not wrap. The callers in `src/` stay far below that bound.
- Audio data itself.

## Plan for later sittings

1. Model `setChannelEnabled` and the tone setters, which write audio-rate
   ports that the callback thread reads.
2. Prove `CallbackTargetLive` under the corrected close, as a variant.
3. Run `MCAudioContext` with three slots, to let a third stream wait on the
   lowest-slot choice of `runBlockingIO`.

## Properties left out

Two earlier properties were dropped because only oboe's behaviour, modelled
from its documentation, could break them, and no code under `src/` could:
- that a callback in flight runs on a live callback stream;
- that the stream table refines an abstract stream lifecycle.

Their theorems went with them. Every state change of a held slot that they
covered is an oboe call (`requestStop`, `requestStart`, the backend's
events), and each matched one case of the abstract lifecycle. The code under
`src/` contributed only the free-slot guard of `open()`.
