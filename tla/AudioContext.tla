---------------------------- MODULE AudioContext ----------------------------
(***************************************************************************)
(* The OboeTester engine, NativeAudioContext (NativeAudioContext.cpp),     *)
(* as driven over JNI (jni-bridge.cpp).                                    *)
(*                                                                         *)
(* Three kinds of actor share its state:                                   *)
(*   - the control thread, which calls open, close, start and stop and     *)
(*     the static setters (one call at a time; a call that joins the       *)
(*     blocking-I/O thread is split at the join);                          *)
(*   - the blocking-I/O thread started by start() when callbacks are off,  *)
(*     running runBlockingIO();                                            *)
(*   - the backend: it completes asynchronous state changes, disconnects   *)
(*     streams and invokes the data callback (oboeCallbackProxy) of a      *)
(*     started stream on its own real-time thread.                         *)
(*                                                                         *)
(* Audio data is abstracted away.  The flow-graph nodes that start()       *)
(* allocates (gateway, recording, data buffer) are tracked by the number   *)
(* of the configureForActivityType() call that allocated them, so that a   *)
(* pointer that outlives its object is visible as a stale number.          *)
(***************************************************************************)
EXTENDS Integers, FiniteSets

CONSTANTS
  MaxStreams,          \* kMaxStreams: capacity of the stream table
  MaxSineOscillators,  \* MAX_SINE_OSCILLATORS: size of sineOscillators
  ChannelRequests,     \* channel counts a caller may pass to open()
  ActivityTypes,       \* the ActivityType values setActivityType may select
  MaxConfigures,       \* bound on the number of start() calls that configure
  NoStream             \* nullptr in mOboeStreams

ASSUME ConstantsAssumption ==
  /\ MaxStreams \in Nat \ {0}
  /\ MaxSineOscillators \in Nat \ {0}
  /\ ChannelRequests \subseteq Int
  /\ ActivityTypes \subseteq
       {"Undefined", "TestInput", "RecordPlay", "TestOutput", "TapToTone"}
  /\ MaxConfigures \in Nat

Slots == 0 .. MaxStreams - 1
NoSlot == -1

(* NATIVE_MODE_* values accepted by open(); any other is ErrorOutOfRange.  *)
NativeApis == {"Unspecified", "AAudio", "OpenSLES"}
(* The activities whose start() runs the input or the output branch.       *)
InputActivities == {"TestInput", "RecordPlay"}
OutputActivities == {"TestOutput", "TapToTone"}

(* Backend stream states used here (oboe::StreamState).                    *)
StreamStates == {"Open", "Starting", "Started", "Stopping", "Stopped",
                 "Disconnected"}
Streams == [dir : {"in", "out"}, cb : {"none", "proxy"},
            state : StreamStates, chans : Nat]

(* nullptr is not a stream, nor the state, direction and mode of one.     *)
ASSUME NoStreamAssumption ==
  NoStream \notin Streams \cup [dir : {"in", "out"}, cb : {"none", "proxy"},
                                state : StreamStates]

(* What an audio callback in flight is using: the gateway or the recording *)
(* of some generation, or nothing (the proxy had no target).               *)
Gens == 0 .. MaxConfigures
Idle == [kind |-> "idle", gen |-> 0]
Targets == [kind : {"idle", "gateway", "recording", "none"}, gen : Gens]
NoTarget == [kind |-> "none", gen |-> 0]
(* A target of oboeCallbackProxy: none, mInputAnalyzer, or a gateway.      *)
Proxies == [kind : {"none", "analyzer", "gateway"}, gen : Gens]
CallbackResults == {"Continue", "Stop"}
(* The control thread between calls.                                       *)
CtlIdle == [op |-> "idle", slot |-> NoSlot]

VARIABLES
  streams,        \* mOboeStreams: slot -> NoStream or a stream
  activity,       \* mActivityType
  useCallback,    \* ActivityContext::useCallback (static, set over JNI)
  channelCount,   \* mChannelCount: channel count of the last opened stream
  cfgGen,         \* configureForActivityType calls so far
  gateway,        \* audioStreamGateway: 0 (nullptr) or its generation
  recording,      \* mRecording: 0 or its generation
  dataBuffer,     \* dataBuffer: 0 or its generation
  bufChans,       \* mChannelCount when dataBuffer was allocated
  proxy,          \* target of oboeCallbackProxy: none, mInputAnalyzer or a gateway
  cbIn,           \* slot -> Idle or the Target its callback in flight uses
  threadEnabled,  \* threadEnabled (std::atomic<bool>)
  tpc,            \* blocking-I/O thread: "none" (dataThread == nullptr), "find", "loop", "done"
  tStream,        \* slot of the local oboeStream of runBlockingIO
  tNodes,         \* <<gateway, dataBuffer, recording>> when the thread was spawned (history)
  ctl,            \* control thread: CtlIdle, or the call waiting in dataThread->join()
  fault           \* "none", or the undefined behaviour the process has hit

vars == <<streams, activity, useCallback, channelCount, cfgGen, gateway,
          recording, dataBuffer, bufChans, proxy, cbIn, threadEnabled, tpc,
          tStream, tNodes, ctl, fault>>

nodeVars == <<cfgGen, gateway, recording, dataBuffer, bufChans, proxy>>
threadVars == <<threadEnabled, tpc, tStream, tNodes>>

-----------------------------------------------------------------------------
(* Helpers on the stream table.                                            *)

IsFree(i) == streams[i] = NoStream

(* allocateStreamIndex(): i is the lowest free slot.                       *)
IsLowestFree(i) == IsFree(i) /\ \A j \in 0 .. i - 1 : ~IsFree(j)

(* getInputStream()/getOutputStream(): lowest slot holding a stream of the *)
(* direction, or NoSlot.                                                   *)
IsFirstOf(i, d) ==
  /\ ~IsFree(i) /\ streams[i].dir = d
  /\ \A j \in 0 .. i - 1 : IsFree(j) \/ streams[j].dir # d
FirstOf(d) ==
  IF \E i \in Slots : IsFirstOf(i, d)
  THEN CHOOSE i \in Slots : IsFirstOf(i, d)
  ELSE NoSlot

(* Channel counts the backend may negotiate for a request (0 is           *)
(* oboe::Unspecified: the backend picks).                                  *)
Negotiated(c) == IF c = 0 THEN {1, 2} ELSE {c}

(* requestStop() on slot i: asynchronous (the stream stays Stopping until  *)
(* the backend completes it) or synchronous; a callback in flight always   *)
(* makes it asynchronous.                                                  *)
StopOne(i, async) ==
  IF IsFree(i) \/ streams[i].state \notin {"Starting", "Started"}
  THEN streams[i]
  ELSE [streams[i] EXCEPT !.state =
          IF async \/ cbIn[i] # Idle THEN "Stopping" ELSE "Stopped"]

(* requestStart() on a stream: OK unless disconnected.                     *)
StartOne(s) ==
  IF s.state \in {"Starting", "Started"} THEN s
  ELSE [s EXCEPT !.state = "Starting"]

(* What the backend may return to a blocking read/write of one block.     *)
TransferOutcomes(s) ==
  IF s.state = "Disconnected" THEN {"error"}
  ELSE IF s.dir = "in" /\ s.state # "Started" THEN {"short"}
  ELSE {"full", "short"}

(* What oboeCallbackProxy hands a callback to.                             *)
ProxyTarget ==
  IF proxy.kind = "analyzer" THEN [kind |-> "recording", gen |-> recording]
  ELSE proxy

-----------------------------------------------------------------------------
Init ==
  /\ streams = [i \in Slots |-> NoStream]
  /\ activity = "Undefined"
  /\ useCallback \in BOOLEAN
  /\ channelCount = 0
  /\ cfgGen = 0
  /\ gateway = 0
  /\ recording = 0
  /\ dataBuffer = 0
  /\ bufChans = 0
  /\ proxy = NoTarget
  /\ cbIn = [i \in Slots |-> Idle]
  /\ threadEnabled = FALSE
  /\ tpc = "none"
  /\ tStream = NoSlot
  /\ tNodes = <<0, 0, 0>>
  /\ ctl = CtlIdle
  /\ fault = "none"

(* A control-thread call may begin: the thread is not blocked in a join   *)
(* and the process is alive.                                               *)
ControlReady == ctl = CtlIdle /\ fault = "none"

(* Mutant: open() without its channel-count range check.               *)
OpenNoChannelCheck(api, c, isInput) ==
  /\ ControlReady
  /\ api \in NativeApis
  /\ \E idx \in Slots, n \in Negotiated(c) :
       /\ IsLowestFree(idx)
       /\ streams' = [streams EXCEPT ![idx] =
              [dir |-> IF isInput THEN "in" ELSE "out",
               cb |-> IF useCallback THEN "proxy" ELSE "none",
               state |-> "Open", chans |-> n]]
       /\ channelCount' = n
  /\ UNCHANGED <<activity, useCallback, nodeVars, cbIn, threadVars, ctl, fault>>

-----------------------------------------------------------------------------
(* open(): the calls that change state are the successful ones.  An       *)
(* unknown nativeApi, a full table, a channel count outside 0..256 and a   *)
(* failing openStream() all return an error with the table unchanged.      *)
Open(api, c, isInput) ==
  /\ ControlReady
  /\ api \in NativeApis
  /\ c >= 0 /\ c <= 256
  /\ \E idx \in Slots, n \in Negotiated(c) :
       /\ IsLowestFree(idx)
       /\ streams' = [streams EXCEPT ![idx] =
              [dir |-> IF isInput THEN "in" ELSE "out",
               cb |-> IF useCallback THEN "proxy" ELSE "none",
               state |-> "Open", chans |-> n]]
       /\ channelCount' = n
  /\ UNCHANGED <<activity, useCallback, nodeVars, cbIn, threadVars, ctl, fault>>

(* The part of close() after stopBlockingIOThread(): oboe close() waits    *)
(* for a callback in flight, the stream is deleted and the slot freed,     *)
(* and the graph nodes are reset.  The proxy keeps its target.             *)
CloseRest(i) ==
  /\ cbIn[i] = Idle
  /\ streams' = [streams EXCEPT ![i] = NoStream]
  /\ gateway' = 0

(* Mutant: close(i) that does not call stopBlockingIOThread().          *)
CloseNowSkipJoin(i) ==
  /\ ControlReady
  /\ CloseRest(i)
  /\ UNCHANGED <<activity, useCallback, channelCount, cfgGen, recording,
                 dataBuffer, bufChans, proxy, cbIn, threadVars, ctl, fault>>

(* close(i) when no blocking-I/O thread exists.                            *)
CloseNow(i) ==
  /\ ControlReady
  /\ tpc = "none"
  /\ CloseRest(i)
  /\ UNCHANGED <<activity, useCallback, channelCount, cfgGen, recording,
                 dataBuffer, bufChans, proxy, cbIn, threadVars, ctl, fault>>

(* close(i) with a thread: stopBlockingIOThread() clears threadEnabled and *)
(* blocks in join().                                                       *)
CloseBegin(i) ==
  /\ ControlReady
  /\ tpc # "none"
  /\ threadEnabled' = FALSE
  /\ ctl' = [op |-> "close", slot |-> i]
  /\ UNCHANGED <<streams, activity, useCallback, channelCount, nodeVars, cbIn,
                 tpc, tStream, tNodes, fault>>

(* join() returned: dataThread = nullptr, then the rest of close(i).       *)
CloseFinish ==
  /\ ctl.op = "close"
  /\ tpc = "done"
  /\ tpc' = "none"
  /\ CloseRest(ctl.slot)
  /\ ctl' = CtlIdle
  /\ UNCHANGED <<activity, useCallback, channelCount, cfgGen, recording,
                 dataBuffer, bufChans, proxy, cbIn, threadEnabled, tStream,
                 tNodes, fault>>

-----------------------------------------------------------------------------
(* stop() calls requestStop() on every slot.                              *)
StoppedTable(async) == [i \in Slots |-> StopOne(i, async[i])]

(* The stream start() calls requestStart() on.                            *)
StartTarget ==
  IF activity \in InputActivities THEN FirstOf("in")
  ELSE IF activity \in OutputActivities THEN FirstOf("out") ELSE NoSlot

(* start(): after stop() (stopBlockingIOThread() and requestStop() on      *)
(* every stream), configureForActivityType() reallocates the graph nodes,  *)
(* then the activity's stream is started and, without callbacks, the       *)
(* blocking-I/O thread is spawned.  async chooses, per slot, whether       *)
(* requestStop() returned before the stream reached Stopped.               *)
StartRest(async) ==
  LET in == FirstOf("in")
      out == FirstOf("out")
      gen == cfgGen + 1
      stopped == StoppedTable(async)
      \* outputStream of configureForActivityType(): set for output activities only
      graphOut == IF activity \in OutputActivities THEN out ELSE NoSlot
      target == StartTarget
      crash ==
        IF activity \in OutputActivities /\ out = NoSlot THEN "null_stream"
        ELSE IF activity = "TestOutput" /\ channelCount > MaxSineOscillators
        THEN "oscillator_index"
        ELSE IF activity \in InputActivities /\ in = NoSlot THEN "null_stream"
        ELSE "none"
      ok == target # NoSlot /\ stopped[target].state # "Disconnected"
      spawn == ~useCallback /\ ok
  IN
  /\ cfgGen < MaxConfigures
  /\ IF crash # "none"
     THEN /\ fault' = crash
          /\ tpc' = "none"
          /\ UNCHANGED <<streams, nodeVars, threadEnabled, tStream, tNodes>>
     ELSE
     /\ streams' = IF ok THEN [stopped EXCEPT ![target] = StartOne(@)]
                   ELSE stopped
     /\ cfgGen' = gen
     /\ recording' = IF activity \in InputActivities THEN gen ELSE recording
     /\ gateway' = IF graphOut # NoSlot THEN gen ELSE gateway
     /\ proxy' = IF ~useCallback THEN proxy
                  ELSE IF graphOut # NoSlot THEN [kind |-> "gateway", gen |-> gen]
                  ELSE IF activity \in InputActivities
                  THEN [kind |-> "analyzer", gen |-> 0]
                  ELSE proxy
     /\ dataBuffer' = IF useCallback THEN dataBuffer ELSE gen
     /\ bufChans' = IF useCallback THEN bufChans ELSE channelCount
     /\ threadEnabled' = (spawn \/ threadEnabled)
     /\ tpc' = IF spawn THEN "find" ELSE "none"
     /\ tNodes' = IF spawn THEN <<gateway', dataBuffer', recording'>> ELSE tNodes
     /\ UNCHANGED <<tStream, fault>>

(* start() returns ErrorInvalidState with nothing open; the configuration *)
(* count is bounded by MaxConfigures.                                      *)
CanStart ==
  /\ (FirstOf("in") # NoSlot \/ FirstOf("out") # NoSlot)
  /\ cfgGen < MaxConfigures

StartNow ==
  /\ ControlReady /\ CanStart
  /\ tpc = "none"
  /\ \E async \in [Slots -> BOOLEAN] : StartRest(async)
  /\ UNCHANGED <<activity, useCallback, channelCount, cbIn, ctl>>

StartBegin ==
  /\ ControlReady /\ CanStart
  /\ tpc # "none"
  /\ threadEnabled' = FALSE
  /\ ctl' = [op |-> "start", slot |-> NoSlot]
  /\ UNCHANGED <<streams, activity, useCallback, channelCount, nodeVars, cbIn,
                 tpc, tStream, tNodes, fault>>

StartFinish ==
  /\ ctl.op = "start"
  /\ tpc = "done"
  /\ \E async \in [Slots -> BOOLEAN] : StartRest(async)
  /\ ctl' = CtlIdle
  /\ UNCHANGED <<activity, useCallback, channelCount, cbIn>>

(* stop(): stopBlockingIOThread(), then requestStop() on every stream.     *)
StopNow ==
  /\ ControlReady
  /\ tpc = "none"
  /\ \E async \in [Slots -> BOOLEAN] : streams' = StoppedTable(async)
  /\ UNCHANGED <<activity, useCallback, channelCount, nodeVars, cbIn,
                 threadVars, ctl, fault>>

StopBegin ==
  /\ ControlReady
  /\ tpc # "none"
  /\ threadEnabled' = FALSE
  /\ ctl' = [op |-> "stop", slot |-> NoSlot]
  /\ UNCHANGED <<streams, activity, useCallback, channelCount, nodeVars, cbIn,
                 tpc, tStream, tNodes, fault>>

StopFinish ==
  /\ ctl.op = "stop"
  /\ tpc = "done"
  /\ tpc' = "none"
  /\ \E async \in [Slots -> BOOLEAN] : streams' = StoppedTable(async)
  /\ ctl' = CtlIdle
  /\ UNCHANGED <<activity, useCallback, channelCount, nodeVars, cbIn,
                 threadEnabled, tStream, tNodes, fault>>

(* The static JNI setters setUseCallback and setActivityType.             *)
SetUseCallback(b) ==
  /\ ControlReady
  /\ useCallback' = b
  /\ UNCHANGED <<streams, activity, channelCount, nodeVars, cbIn, threadVars,
                 ctl, fault>>

SetActivityType(a) ==
  /\ ControlReady
  /\ activity' = a
  /\ UNCHANGED <<streams, useCallback, channelCount, nodeVars, cbIn,
                 threadVars, ctl, fault>>

-----------------------------------------------------------------------------
(* runBlockingIO(): take the lowest non-null stream, or return.           *)
ThreadFind ==
  /\ fault = "none"
  /\ tpc = "find"
  /\ \/ \E i \in Slots :
          /\ ~IsFree(i) /\ \A j \in 0 .. i - 1 : IsFree(j)
          /\ tStream' = i
          /\ tpc' = "loop"
     \/ /\ \A i \in Slots : IsFree(i)
        /\ tpc' = "done"
        /\ UNCHANGED tStream
  /\ UNCHANGED <<streams, activity, useCallback, channelCount, nodeVars, cbIn,
                 threadEnabled, tNodes, ctl, fault>>

(* Mutant: a loop that no longer tests threadEnabled.                    *)
ThreadIterateIgnoresFlag ==
  /\ fault = "none"
  /\ tpc = "loop"
  /\ IF streams[tStream].dir = "out" /\ gateway = 0
     THEN tpc' = "loop"
     ELSE \E r \in TransferOutcomes(streams[tStream]), cr \in CallbackResults :
            tpc' = IF r = "full" /\ cr = "Continue" THEN "loop" ELSE "done"
  /\ UNCHANGED <<streams, activity, useCallback, channelCount, nodeVars, cbIn,
                 threadEnabled, tStream, tNodes, ctl, fault>>

(* One iteration of the while loop: check threadEnabled, then read a block *)
(* and analyze it (input) or generate a block with the gateway and write  *)
(* it (output).  An error, a short transfer or a Stop result ends the      *)
(* loop; an output stream without a gateway spins.                         *)
ThreadIterate ==
  /\ fault = "none"
  /\ tpc = "loop"
  /\ IF ~threadEnabled
     THEN tpc' = "done"
     ELSE IF streams[tStream].dir = "out" /\ gateway = 0
     THEN tpc' = "loop"
     ELSE \E r \in TransferOutcomes(streams[tStream]), cr \in CallbackResults :
            tpc' = IF r = "full" /\ cr = "Continue" THEN "loop" ELSE "done"
  /\ UNCHANGED <<streams, activity, useCallback, channelCount, nodeVars, cbIn,
                 threadEnabled, tStream, tNodes, ctl, fault>>

-----------------------------------------------------------------------------
(* The backend's real-time thread enters the data callback of a started   *)
(* stream: oboeCallbackProxy forwards to its current target.              *)
CallbackBegin(i) ==
  /\ fault = "none"
  /\ ~IsFree(i)
  /\ streams[i].cb = "proxy"
  /\ streams[i].state = "Started"
  /\ cbIn[i] = Idle
  /\ cbIn' = [cbIn EXCEPT ![i] = ProxyTarget]
  /\ UNCHANGED <<streams, activity, useCallback, channelCount, nodeVars,
                 threadVars, ctl, fault>>

(* The callback returns; Stop (always, when the proxy had no target) makes *)
(* the backend stop the stream.                                            *)
CallbackEnd(i) ==
  /\ fault = "none"
  /\ cbIn[i] # Idle
  /\ \E cr \in CallbackResults :
       IF /\ cr = "Stop" \/ cbIn[i].kind = "none"
          /\ ~IsFree(i) /\ streams[i].state = "Started"
       THEN streams' = [streams EXCEPT ![i].state = "Stopping"]
       ELSE UNCHANGED streams
  /\ cbIn' = [cbIn EXCEPT ![i] = Idle]
  /\ UNCHANGED <<activity, useCallback, channelCount, nodeVars, threadVars,
                 ctl, fault>>

(* The backend completes an asynchronous start or stop; a stop completes  *)
(* only once no callback is in flight.                                     *)
BackendComplete(i) ==
  /\ fault = "none"
  /\ ~IsFree(i)
  /\ \/ /\ streams[i].state = "Starting"
        /\ streams' = [streams EXCEPT ![i].state = "Started"]
     \/ /\ streams[i].state = "Stopping"
        /\ cbIn[i] = Idle
        /\ streams' = [streams EXCEPT ![i].state = "Stopped"]
  /\ UNCHANGED <<activity, useCallback, channelCount, nodeVars, cbIn,
                 threadVars, ctl, fault>>

(* The device goes away under an active stream.                            *)
Disconnect(i) ==
  /\ fault = "none"
  /\ ~IsFree(i)
  /\ streams[i].state \in {"Starting", "Started", "Stopping"}
  /\ streams' = [streams EXCEPT ![i].state = "Disconnected"]
  /\ UNCHANGED <<activity, useCallback, channelCount, nodeVars, cbIn,
                 threadVars, ctl, fault>>

(* After undefined behaviour the process is gone.                          *)
Halted ==
  /\ fault # "none"
  /\ UNCHANGED vars

-----------------------------------------------------------------------------
Next ==
  \/ \E api \in NativeApis, c \in ChannelRequests, isIn \in BOOLEAN :
       Open(api, c, isIn)
  \/ \E i \in Slots : CloseNow(i) \/ CloseBegin(i)
  \/ CloseFinish
  \/ StartNow \/ StartBegin \/ StartFinish
  \/ StopNow \/ StopBegin \/ StopFinish
  \/ \E b \in BOOLEAN : SetUseCallback(b)
  \/ \E a \in ActivityTypes : SetActivityType(a)
  \/ ThreadFind \/ ThreadIterate
  \/ \E i \in Slots : CallbackBegin(i) \/ CallbackEnd(i)
  \/ \E i \in Slots : BackendComplete(i) \/ Disconnect(i)
  \/ Halted

(* The blocking-I/O thread is scheduled by the OS and each of its reads   *)
(* and writes returns within NANOS_PER_SECOND; a join, once the thread has *)
(* ended, returns; a callback returns within its period.  A pending close  *)
(* is not starved by the stream's callback re-entering: the backend stops  *)
(* calling back once close() has begun (strong fairness).  The caller and  *)
(* the device are not fair.                                                *)
Fairness ==
  /\ WF_vars(ThreadFind)
  /\ WF_vars(ThreadIterate)
  /\ SF_vars(CloseFinish)
  /\ WF_vars(StartFinish)
  /\ WF_vars(StopFinish)
  /\ \A i \in Slots : WF_vars(CallbackEnd(i))

Spec == Init /\ [][Next]_vars /\ Fairness

-----------------------------------------------------------------------------
TypeOK ==
  /\ streams \in [Slots -> Streams \cup {NoStream}]
  /\ activity \in ActivityTypes \cup {"Undefined"}
  /\ useCallback \in BOOLEAN
  /\ channelCount \in Nat
  /\ cfgGen \in Gens
  /\ gateway \in Gens /\ recording \in Gens /\ dataBuffer \in Gens
  /\ bufChans \in Nat
  /\ proxy \in Proxies
  /\ cbIn \in [Slots -> Targets]
  /\ threadEnabled \in BOOLEAN
  /\ tpc \in {"none", "find", "loop", "done"}
  /\ tStream \in Slots \cup {NoSlot}
  /\ tpc = "loop" => tStream \in Slots
  /\ tNodes \in Gens \X Gens \X Gens
  /\ ctl \in [op : {"idle", "close", "start", "stop"}, slot : Slots \cup {NoSlot}]
  /\ ctl.op = "close" => ctl.slot \in Slots
  /\ fault \in {"none", "null_stream", "oscillator_index"}

(* close(), start() and stop() join the blocking-I/O thread before they   *)
(* free or replace anything it uses: while the thread runs, the gateway,   *)
(* data buffer and recording it started with are still the current ones,   *)
(* and the stream runBlockingIO() holds is still in the table.            *)
ThreadResourcesLive ==
  tpc \in {"find", "loop"} =>
    /\ <<gateway, dataBuffer, recording>> = tNodes
    /\ tpc = "loop" => ~IsFree(tStream)

(* The specification (section 5): a stream is serviced either by its data  *)
(* callback or by the blocking-I/O thread, never by both.  The thread      *)
(* must therefore only ever run on a stream opened without a callback.     *)
ExclusiveMode == tpc = "loop" => streams[tStream].cb = "none"

(* runBlockingIO() moves getFramesPerBlock() frames of its stream's       *)
(* channel count through dataBuffer, which configureForActivityType()     *)
(* sized for mChannelCount channels: the buffer must hold a block of the   *)
(* stream the thread serves.                                               *)
BufferFitsStream == tpc = "loop" => bufChans >= streams[tStream].chans

(* The blocking-I/O thread reads or writes the stream start() has just   *)
(* started (the comments at lines 380 and 391: "a thread that reads the   *)
(* stream", "that writes the stream"): in its loop, runBlockingIO()'s      *)
(* oboeStream was given requestStart(), not left Open, Stopping or        *)
(* Stopped by the stop() inside start().                                  *)
ThreadOnStartedStream ==
  tpc = "loop" => streams[tStream].state \in {"Starting", "Started", "Disconnected"}

(* A data callback in flight only uses nodes that are still allocated:    *)
(* the gateway or recording it reached through oboeCallbackProxy is the   *)
(* current one.                                                            *)
CallbackTargetLive ==
  \A i \in Slots :
    /\ cbIn[i].kind = "gateway" => cbIn[i].gen = gateway
    /\ cbIn[i].kind = "recording" => cbIn[i].gen = recording

(* start() never dereferences the null stream pointer getInputStream() or *)
(* getOutputStream() returns when the activity's stream is not open.      *)
NoNullStreamDeref == fault # "null_stream"

(* configureForActivityType() only indexes sineOscillators below          *)
(* MAX_SINE_OSCILLATORS.                                                   *)
OscillatorIndexInRange == fault # "oscillator_index"

(* Every call of the control thread that blocks in dataThread->join()     *)
(* returns: runBlockingIO() sees threadEnabled cleared and ends.          *)
JoinCompletes == (ctl # CtlIdle) ~> (ctl = CtlIdle)
=============================================================================
