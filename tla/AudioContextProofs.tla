------------------------- MODULE AudioContextProofs -------------------------
(***************************************************************************)
(* Proofs about the NativeAudioContext model (module AudioContext) for     *)
(* every size of the stream table, every bound and every set of requests.  *)
(***************************************************************************)
EXTENDS AudioContext, TLAPS

USE ConstantsAssumption, NoStreamAssumption

(* Changing the state of a stream leaves a stream.                        *)
LEMMA SetStateType ==
  ASSUME NEW s \in Streams, NEW x \in StreamStates
  PROVE  [s EXCEPT !.state = x] \in Streams
BY DEF Streams

(* Changing the state of a used slot keeps the table well typed.          *)
LEMMA SetStateTableType ==
  ASSUME TypeOK, NEW i \in Slots, ~IsFree(i), NEW x \in StreamStates
  PROVE  [streams EXCEPT ![i].state = x] \in [Slots -> Streams \cup {NoStream}]
<1>1. streams[i] \in Streams
  BY DEF TypeOK, IsFree
<1>2. [streams[i] EXCEPT !.state = x] \in Streams
  BY <1>1, SetStateType
<1>. QED  BY <1>2 DEF TypeOK

(* requestStop() leaves the slot a stream, or empty.                      *)
LEMMA StopOneType ==
  ASSUME TypeOK, NEW i \in Slots, NEW a \in BOOLEAN
  PROVE  /\ StopOne(i, a) \in Streams \cup {NoStream}
         /\ ~IsFree(i) => StopOne(i, a) \in Streams
BY SetStateType DEF StopOne, TypeOK, IsFree, StreamStates

(* requestStart() leaves a stream a stream.                               *)
LEMMA StartOneType ==
  ASSUME NEW s \in Streams
  PROVE  StartOne(s) \in Streams
BY SetStateType DEF StartOne, StreamStates

(* getInputStream()/getOutputStream() return a used slot or NoSlot.        *)
LEMMA FirstOfType ==
  ASSUME NEW d
  PROVE  /\ FirstOf(d) \in Slots \cup {NoSlot}
         /\ FirstOf(d) # NoSlot => FirstOf(d) \in Slots /\ ~IsFree(FirstOf(d))
BY DEF FirstOf, IsFirstOf, Slots, NoSlot

(* What oboeCallbackProxy hands a callback to is a target.                 *)
LEMMA ProxyTargetType ==
  ASSUME TypeOK
  PROVE  ProxyTarget \in Targets
BY DEF ProxyTarget, TypeOK, Proxies, Targets

(* stop() leaves every slot a stream or empty, and a used slot used.       *)
LEMMA StoppedTableType ==
  ASSUME TypeOK, NEW async \in [Slots -> BOOLEAN]
  PROVE  /\ StoppedTable(async) \in [Slots -> Streams \cup {NoStream}]
         /\ \A i \in Slots : ~IsFree(i) => StoppedTable(async)[i] \in Streams
BY StopOneType DEF StoppedTable

(* start() requests a used slot, or none.                                 *)
LEMMA StartTargetType ==
  /\ StartTarget \in Slots \cup {NoSlot}
  /\ StartTarget # NoSlot => StartTarget \in Slots /\ ~IsFree(StartTarget)
BY FirstOfType DEF StartTarget

-----------------------------------------------------------------------------
(* The type invariant holds initially and every action keeps it.           *)

LEMMA InitType == Init => TypeOK
<1> SUFFICES ASSUME Init PROVE TypeOK
  OBVIOUS
<1>1. streams \in [Slots -> Streams \cup {NoStream}] /\ cbIn \in [Slots -> Targets]
  BY DEF Init, Idle, Targets, Gens
<1>2. tNodes \in Gens \X Gens \X Gens
  BY DEF Init, Gens
<1>3. proxy \in Proxies /\ ctl \in [op : {"idle", "close", "start", "stop"},
                                    slot : Slots \cup {NoSlot}]
  BY DEF Init, NoTarget, Proxies, CtlIdle, Gens
<1>. QED
  BY <1>1, <1>2, <1>3 DEF Init, TypeOK, Gens, CtlIdle, NoSlot, Slots

LEMMA OpenType ==
  ASSUME TypeOK, NEW api, NEW c \in ChannelRequests, NEW isIn \in BOOLEAN,
         Open(api, c, isIn)
  PROVE  TypeOK'
<1>1. PICK idx \in Slots, n \in Negotiated(c) :
        /\ streams' = [streams EXCEPT ![idx] =
              [dir |-> IF isIn THEN "in" ELSE "out",
               cb |-> IF useCallback THEN "proxy" ELSE "none",
               state |-> "Open", chans |-> n]]
        /\ channelCount' = n
  BY DEF Open
<1>2. n \in Nat
  BY DEF Open, Negotiated
<1>3. streams' \in [Slots -> Streams \cup {NoStream}]
  BY <1>1, <1>2 DEF TypeOK, Streams, StreamStates
<1>. QED
  BY <1>1, <1>2, <1>3 DEF Open, TypeOK, nodeVars, threadVars

LEMMA CloseRestType ==
  ASSUME TypeOK, NEW i \in Slots, CloseRest(i)
  PROVE  streams' \in [Slots -> Streams \cup {NoStream}] /\ gateway' \in Gens
BY DEF CloseRest, TypeOK, Gens

LEMMA CloseType ==
  ASSUME TypeOK, NEW i \in Slots,
         CloseNow(i) \/ CloseBegin(i) \/ CloseFinish
  PROVE  TypeOK'
<1>1. CASE CloseNow(i)
  BY <1>1, CloseRestType DEF CloseNow, TypeOK, threadVars
<1>2. CASE CloseBegin(i)
  BY <1>2 DEF CloseBegin, TypeOK, nodeVars
<1>3. CASE CloseFinish
  <2>1. ctl.slot \in Slots
    BY <1>3 DEF CloseFinish, TypeOK
  <2>. QED
    BY <1>3, <2>1, CloseRestType DEF CloseFinish, TypeOK, CtlIdle, Slots,
       NoSlot
<1>. QED  BY <1>1, <1>2, <1>3

(* start() after the join: the nodes it allocates are of generation       *)
(* cfgGen + 1, within the bound.                                           *)
LEMMA StartRestType ==
  ASSUME TypeOK, NEW async \in [Slots -> BOOLEAN], StartRest(async)
  PROVE  /\ streams' \in [Slots -> Streams \cup {NoStream}]
         /\ cfgGen' \in Gens
         /\ gateway' \in Gens /\ recording' \in Gens /\ dataBuffer' \in Gens
         /\ bufChans' \in Nat
         /\ proxy' \in Proxies
         /\ threadEnabled' \in BOOLEAN
         /\ tpc' \in {"none", "find"}
         /\ tStream' = tStream
         /\ tNodes' \in Gens \X Gens \X Gens
         /\ fault' \in {"none", "null_stream", "oscillator_index"}
<1> DEFINE stopped == StoppedTable(async)
           target == StartTarget
           gen == cfgGen + 1
<1>1. gen \in Gens
  BY DEF StartRest, Gens, TypeOK
<1>2. stopped \in [Slots -> Streams \cup {NoStream}]
  BY StoppedTableType
<1>3. target # NoSlot => stopped[target] \in Streams
  BY StoppedTableType, StartTargetType
<1>4. target # NoSlot =>
        [stopped EXCEPT ![target] = StartOne(@)] \in [Slots -> Streams \cup {NoStream}]
  <2> SUFFICES ASSUME target # NoSlot
               PROVE  [stopped EXCEPT ![target] = StartOne(@)]
                        \in [Slots -> Streams \cup {NoStream}]
    OBVIOUS
  <2>1. target \in Slots /\ StartOne(stopped[target]) \in Streams
    BY <1>3, StartOneType, StartTargetType
  <2>. QED  BY <1>2, <2>1
<1>5. streams' \in [Slots -> Streams \cup {NoStream}]
  BY <1>2, <1>4 DEF StartRest, TypeOK, nodeVars
<1>6. /\ cfgGen' \in Gens
      /\ gateway' \in Gens /\ recording' \in Gens /\ dataBuffer' \in Gens
      /\ bufChans' \in Nat
  BY <1>1 DEF StartRest, TypeOK, nodeVars
<1>7. proxy' \in Proxies
  <2>1. /\ [kind |-> "gateway", gen |-> gen] \in Proxies
        /\ [kind |-> "analyzer", gen |-> 0] \in Proxies
    BY <1>1 DEF Proxies, Gens
  <2>. QED  BY <2>1 DEF StartRest, TypeOK, nodeVars
<1>8. /\ threadEnabled' \in BOOLEAN
      /\ tpc' \in {"none", "find"}
      /\ tStream' = tStream
      /\ fault' \in {"none", "null_stream", "oscillator_index"}
  BY DEF StartRest, TypeOK, nodeVars
<1>9. tNodes' \in Gens \X Gens \X Gens
  BY <1>6 DEF StartRest, TypeOK, nodeVars
<1>. QED
  BY <1>5, <1>6, <1>7, <1>8, <1>9

LEMMA StartType ==
  ASSUME TypeOK, StartNow \/ StartBegin \/ StartFinish
  PROVE  TypeOK'
<1>1. CASE StartNow
  BY <1>1, StartRestType DEF StartNow, TypeOK
<1>2. CASE StartBegin
  BY <1>2 DEF StartBegin, TypeOK, nodeVars, NoSlot
<1>3. CASE StartFinish
  BY <1>3, StartRestType DEF StartFinish, TypeOK, CtlIdle, NoSlot, Slots
<1>. QED  BY <1>1, <1>2, <1>3

LEMMA StopType ==
  ASSUME TypeOK, StopNow \/ StopBegin \/ StopFinish
  PROVE  TypeOK'
<1>1. CASE StopNow
  BY <1>1, StoppedTableType DEF StopNow, TypeOK, nodeVars, threadVars
<1>2. CASE StopBegin
  BY <1>2 DEF StopBegin, TypeOK, nodeVars, NoSlot
<1>3. CASE StopFinish
  BY <1>3, StoppedTableType DEF StopFinish, TypeOK, nodeVars, CtlIdle, NoSlot,
     Slots
<1>. QED  BY <1>1, <1>2, <1>3

LEMMA SetterType ==
  ASSUME TypeOK,
         \/ \E b \in BOOLEAN : SetUseCallback(b)
         \/ \E a \in ActivityTypes : SetActivityType(a)
  PROVE  TypeOK'
BY DEF SetUseCallback, SetActivityType, TypeOK, nodeVars, threadVars

LEMMA ThreadType ==
  ASSUME TypeOK, ThreadFind \/ ThreadIterate
  PROVE  TypeOK'
<1>1. CASE ThreadFind
  BY <1>1 DEF ThreadFind, TypeOK, nodeVars
<1>2. CASE ThreadIterate
  BY <1>2 DEF ThreadIterate, TypeOK, nodeVars
<1>. QED  BY <1>1, <1>2

LEMMA CallbackType ==
  ASSUME TypeOK, NEW i \in Slots, CallbackBegin(i) \/ CallbackEnd(i)
  PROVE  TypeOK'
<1>1. CASE CallbackBegin(i)
  BY <1>1, ProxyTargetType DEF CallbackBegin, TypeOK, nodeVars, threadVars
<1>2. CASE CallbackEnd(i)
  <2>1. cbIn' \in [Slots -> Targets]
    BY <1>2 DEF CallbackEnd, TypeOK, Idle, Targets, Gens
  <2>2. streams' \in [Slots -> Streams \cup {NoStream}]
    <3>1. ~IsFree(i) => [streams EXCEPT ![i].state = "Stopping"]
                          \in [Slots -> Streams \cup {NoStream}]
      BY SetStateTableType DEF StreamStates
    <3>. QED  BY <1>2, <3>1 DEF CallbackEnd, TypeOK
  <2>. QED  BY <1>2, <2>1, <2>2 DEF CallbackEnd, TypeOK, nodeVars, threadVars
<1>. QED  BY <1>1, <1>2

LEMMA BackendType ==
  ASSUME TypeOK, NEW i \in Slots, BackendComplete(i) \/ Disconnect(i) \/ Halted
  PROVE  TypeOK'
<1>2. CASE BackendComplete(i)
  <2>1. streams' \in [Slots -> Streams \cup {NoStream}]
    <3>1. ~IsFree(i)
      BY <1>2 DEF BackendComplete
    <3>2. /\ [streams EXCEPT ![i].state = "Started"]
             \in [Slots -> Streams \cup {NoStream}]
          /\ [streams EXCEPT ![i].state = "Stopped"]
             \in [Slots -> Streams \cup {NoStream}]
      BY <3>1, SetStateTableType DEF StreamStates
    <3>. QED  BY <1>2, <3>2 DEF BackendComplete
  <2>. QED  BY <1>2, <2>1 DEF BackendComplete, TypeOK, nodeVars, threadVars
<1>3. CASE Disconnect(i)
  <2>1. streams' \in [Slots -> Streams \cup {NoStream}]
    <3>1. ~IsFree(i)
      BY <1>3 DEF Disconnect
    <3>2. [streams EXCEPT ![i].state = "Disconnected"]
             \in [Slots -> Streams \cup {NoStream}]
      BY <3>1, SetStateTableType DEF StreamStates
    <3>. QED  BY <1>3, <3>2 DEF Disconnect
  <2>. QED  BY <1>3, <2>1 DEF Disconnect, TypeOK, nodeVars, threadVars
<1>4. CASE Halted
  BY <1>4 DEF Halted, TypeOK, vars
<1>. QED  BY <1>2, <1>3, <1>4

(* Every step keeps the types.                                             *)
LEMMA TypeStep == TypeOK /\ [Next]_vars => TypeOK'
<1> SUFFICES ASSUME TypeOK, [Next]_vars PROVE TypeOK'
  OBVIOUS
<1>1. ASSUME NEW api \in NativeApis, NEW c \in ChannelRequests,
             NEW isIn \in BOOLEAN, Open(api, c, isIn)
      PROVE  TypeOK'
  BY <1>1, OpenType
<1>2. ASSUME NEW i \in Slots, CloseNow(i) \/ CloseBegin(i) PROVE TypeOK'
  BY <1>2, CloseType
<1>3. CASE CloseFinish
  <2>1. ctl.slot \in Slots
    BY <1>3 DEF CloseFinish, TypeOK
  <2>. QED  BY <1>3, <2>1, CloseType
<1>4. CASE StartNow \/ StartBegin \/ StartFinish
  BY <1>4, StartType
<1>5. CASE StopNow \/ StopBegin \/ StopFinish
  BY <1>5, StopType
<1>6. CASE \/ \E b \in BOOLEAN : SetUseCallback(b)
           \/ \E a \in ActivityTypes : SetActivityType(a)
  BY <1>6, SetterType
<1>7. CASE ThreadFind \/ ThreadIterate
  BY <1>7, ThreadType
<1>8. ASSUME NEW i \in Slots, CallbackBegin(i) \/ CallbackEnd(i) PROVE TypeOK'
  BY <1>8, CallbackType
<1>9. ASSUME NEW i \in Slots, BackendComplete(i) \/ Disconnect(i) PROVE TypeOK'
  BY <1>9, BackendType
<1>10. CASE Halted
  <2>1. 0 \in Slots
    BY DEF Slots
  <2>. QED  BY <1>10, <2>1, BackendType
<1>11. CASE UNCHANGED vars
  BY <1>11 DEF vars, TypeOK
<1>. QED
  BY <1>1, <1>2, <1>3, <1>4, <1>5, <1>6, <1>7, <1>8, <1>9, <1>10, <1>11
  DEF Next

(* Every reachable state is well typed (property TypeOK): the stream       *)
(* table, the generations of the graph nodes, the proxy target and the     *)
(* threads' control points stay within their types for every table size    *)
(* and configuration bound.                                                 *)
THEOREM TypeCorrect == Spec => []TypeOK
BY InitType, TypeStep, PTL DEF Spec
-----------------------------------------------------------------------------
(* The blocking-I/O thread's resources.                                    *)

(* ThreadResourcesLive is inductive together with the types.                *)
LiveInv == TypeOK /\ ThreadResourcesLive

(* A step that only changes the state of a used stream keeps every slot   *)
(* used or free as it was.                                                 *)
LEMMA SetStateKeepsUse ==
  ASSUME TypeOK, NEW i \in Slots, ~IsFree(i), NEW x \in StreamStates,
         streams' = [streams EXCEPT ![i].state = x]
  PROVE  \A j \in Slots : IsFree(j)' <=> IsFree(j)
<1>1. streams[i] \in Streams
  BY DEF TypeOK, IsFree
<1>2. streams'[i] \in Streams
  BY <1>1, SetStateType
<1>. QED  BY <1>1, <1>2, NoStreamAssumption DEF IsFree, TypeOK

(* stop() keeps every slot used or free as it was.                         *)
LEMMA StoppedKeepsUse ==
  ASSUME TypeOK, NEW async \in [Slots -> BOOLEAN],
         streams' = StoppedTable(async)
  PROVE  \A j \in Slots : IsFree(j)' <=> IsFree(j)
<1>1. \A s \in Streams : s # NoStream
  BY NoStreamAssumption
<1>. QED  BY <1>1, StoppedTableType DEF StoppedTable, StopOne, IsFree

(* start() leaves the thread absent, or just spawned with the nodes it     *)
(* allocated.                                                              *)
LEMMA StartRestThread ==
  ASSUME NEW async, StartRest(async)
  PROVE  /\ tpc' \in {"none", "find"}
         /\ tpc' = "find" => <<gateway, dataBuffer, recording>>' = tNodes'
BY DEF StartRest

LEMMA LiveStep == LiveInv /\ [Next]_vars => LiveInv'
<1> SUFFICES ASSUME LiveInv, [Next]_vars PROVE LiveInv'
  OBVIOUS
<1>1. TypeOK'
  BY TypeStep DEF LiveInv
<1> SUFFICES ThreadResourcesLive'
  BY <1>1 DEF LiveInv
<1> USE DEF LiveInv
<1>2. ASSUME NEW api \in NativeApis, NEW c \in ChannelRequests,
             NEW isIn \in BOOLEAN, Open(api, c, isIn)
      PROVE  ThreadResourcesLive'
  <2>1. PICK idx \in Slots : IsFree(idx) /\ streams'[tStream] = 
          IF tStream = idx THEN streams'[idx] ELSE streams[tStream]
    BY <1>2 DEF Open, IsLowestFree, TypeOK
  <2>2. tpc = "loop" => tStream # idx
    BY <2>1 DEF ThreadResourcesLive
  <2>. QED
    BY <1>2, <2>1, <2>2 DEF Open, ThreadResourcesLive, IsFree, nodeVars,
       threadVars
<1>3. ASSUME NEW i \in Slots, CloseNow(i) \/ CloseBegin(i) PROVE ThreadResourcesLive'
  BY <1>3 DEF CloseNow, CloseBegin, ThreadResourcesLive, IsFree, nodeVars,
     threadVars
<1>4. CASE CloseFinish
  BY <1>4 DEF CloseFinish, ThreadResourcesLive
<1>5. CASE StartNow \/ StartFinish
  BY <1>5, StartRestThread DEF StartNow, StartFinish, ThreadResourcesLive
<1>6. CASE StartBegin
  BY <1>6 DEF StartBegin, ThreadResourcesLive, IsFree, nodeVars
<1>7. CASE StopNow \/ StopBegin \/ StopFinish
  BY <1>7 DEF StopNow, StopBegin, StopFinish, ThreadResourcesLive, IsFree,
     nodeVars, threadVars
<1>8. CASE \/ \E b \in BOOLEAN : SetUseCallback(b)
           \/ \E a \in ActivityTypes : SetActivityType(a)
  BY <1>8 DEF SetUseCallback, SetActivityType, ThreadResourcesLive, IsFree,
     nodeVars, threadVars
<1>9. CASE ThreadFind
  BY <1>9 DEF ThreadFind, ThreadResourcesLive, IsFree, nodeVars
<1>10. CASE ThreadIterate
  BY <1>10 DEF ThreadIterate, ThreadResourcesLive, IsFree, nodeVars
<1>11. ASSUME NEW i \in Slots, CallbackBegin(i) PROVE ThreadResourcesLive'
  BY <1>11 DEF CallbackBegin, ThreadResourcesLive, IsFree, nodeVars, threadVars
<1>12. ASSUME NEW i \in Slots, NEW x \in StreamStates, ~IsFree(i),
              streams' = [streams EXCEPT ![i].state = x],
              UNCHANGED <<nodeVars, threadVars>>
       PROVE  ThreadResourcesLive'
  BY <1>12, SetStateKeepsUse DEF ThreadResourcesLive, nodeVars, threadVars,
     TypeOK
<1>13. ASSUME NEW i \in Slots, CallbackEnd(i) PROVE ThreadResourcesLive'
  <2>1. CASE UNCHANGED streams
    BY <1>13, <2>1 DEF CallbackEnd, ThreadResourcesLive, IsFree, nodeVars,
       threadVars
  <2>2. CASE ~IsFree(i) /\ streams' = [streams EXCEPT ![i].state = "Stopping"]
    BY <1>13, <2>2, <1>12 DEF CallbackEnd, StreamStates
  <2>. QED  BY <1>13, <2>1, <2>2 DEF CallbackEnd
<1>14. ASSUME NEW i \in Slots, BackendComplete(i) \/ Disconnect(i)
       PROVE  ThreadResourcesLive'
  BY <1>14, <1>12 DEF BackendComplete, Disconnect, StreamStates
<1>15. CASE Halted \/ UNCHANGED vars
  BY <1>15 DEF Halted, vars, ThreadResourcesLive, IsFree
<1>. QED
  BY <1>2, <1>3, <1>4, <1>5, <1>6, <1>7, <1>8, <1>9, <1>10, <1>11, <1>13,
     <1>14, <1>15 DEF Next

(* While the blocking-I/O thread runs, the gateway, data buffer and        *)
(* recording it started with are the current ones and its stream is still  *)
(* open (property ThreadResourcesLive): close(), start() and stop() join   *)
(* the thread before they free or replace anything it uses.                *)
THEOREM ThreadResourcesLiveHolds == Spec => []ThreadResourcesLive
<1>1. Init => LiveInv
  BY InitType DEF Init, LiveInv, ThreadResourcesLive
<1>2. LiveInv => ThreadResourcesLive
  BY DEF LiveInv
<1>. QED  BY <1>1, <1>2, LiveStep, PTL DEF Spec
=====
