--------------------------- MODULE ChannelProofs ---------------------------
(* Proofs about module Channel, for every set of requests and of channels.   *)
EXTENDS Channel, SequenceTheorems, TLAPS

-----------------------------------------------------------------------------
(* Lemmas about the vector operations.                                       *)

\* Erasing an element of a vector leaves a vector of elements it had.
LEMMA EraseProperties ==
    ASSUME NEW S, NEW s \in Seq(S), NEW e
    PROVE  /\ Erase(s, e) \in Seq(S)
           /\ Range(Erase(s, e)) \subseteq Range(s)
           /\ s = <<>> => Erase(s, e) = <<>>
<1>1. CASE e \in Range(s)
  <2> DEFINE k == CHOOSE i \in 1..Len(s) : s[i] = e
             a == SubSeq(s, 1, k-1)
             b == SubSeq(s, k+1, Len(s))
  <2>1. k \in 1..Len(s) /\ Len(s) \in Nat
    BY <1>1 DEF Range
  <2>2. Erase(s, e) = a \o b
    BY <1>1 DEF Erase, RemoveAt
  <2> HIDE DEF k
  <2>e. \A i \in 1..Len(s) : s[i] \in S
    OBVIOUS
  <2>3. /\ a \in Seq(S) /\ Len(a) = k - 1
        /\ \A i \in 1..(k-1) : a[i] = s[i]
    <3>1. /\ 1 \in Int /\ k - 1 \in Int
          /\ \A i \in 1..(k-1) : s[i] \in S
      BY <2>1, <2>e
    <3>2. /\ a \in Seq(S)
          /\ Len(a) = IF 1 <= k-1 THEN (k-1) - 1 + 1 ELSE 0
          /\ \A i \in 1..((k-1) - 1 + 1) : a[i] = s[1 + i - 1]
      BY <3>1, SubSeqProperties
    <3>3. QED BY <2>1, <3>2
  <2>4. /\ b \in Seq(S) /\ Len(b) = Len(s) - k
        /\ \A i \in 1..(Len(s) - k) : b[i] = s[k + i]
    <3>1. /\ k + 1 \in Int /\ Len(s) \in Int
          /\ \A i \in (k+1)..Len(s) : s[i] \in S
      BY <2>1, <2>e
    <3>2. /\ b \in Seq(S)
          /\ Len(b) = IF k+1 <= Len(s) THEN Len(s) - (k+1) + 1 ELSE 0
          /\ \A i \in 1..(Len(s) - (k+1) + 1) : b[i] = s[(k+1) + i - 1]
      BY <3>1, SubSeqProperties
    <3>3. QED BY <2>1, <3>2
  <2>5. a \o b \in Seq(S)
    BY <2>3, <2>4
  <2>6. Range(a \o b) \subseteq Range(s)
    <3> HIDE DEF a, b
    <3>1. /\ Len(a \o b) = Len(a) + Len(b)
          /\ \A i \in 1..(Len(a) + Len(b)) :
                (a \o b)[i] = IF i <= Len(a) THEN a[i] ELSE b[i - Len(a)]
      BY <2>3, <2>4, ConcatProperties
    <3> SUFFICES ASSUME NEW i \in 1..(Len(a) + Len(b))
                 PROVE  (a \o b)[i] \in Range(s)
      BY <2>5, <3>1 DEF Range
    <3>2. CASE i <= Len(a)
      <4>1. (a \o b)[i] = s[i] /\ i \in 1..Len(s)
        BY <2>1, <2>3, <2>4, <3>1, <3>2
      <4>2. QED BY <4>1 DEF Range
    <3>3. CASE i > Len(a)
      <4>1. i - Len(a) \in 1..(Len(s) - k)
        BY <2>1, <2>3, <2>4, <3>3
      <4>2. (a \o b)[i] = s[k + (i - Len(a))] /\ k + (i - Len(a)) \in 1..Len(s)
        BY <2>1, <2>3, <2>4, <3>1, <3>3, <4>1
      <4>3. QED BY <4>2 DEF Range
    <3>4. QED BY <3>2, <3>3, <2>3
  <2>7. s # <<>>
    BY <1>1 DEF Range
  <2>8. QED BY <2>2, <2>5, <2>6, <2>7
<1>2. CASE e \notin Range(s)
  BY <1>2 DEF Erase
<1>3. QED BY <1>1, <1>2

-----------------------------------------------------------------------------
(* Type correctness.                                                         *)

\* The walks that on_init may continue with are walks.
LEMMA NextProbesType ==
    ASSUME NEW seen \in Seq(Requests), NEW cur, NEW i \in Nat, NEW src,
           NEW w \in NextProbes(seen, cur, i, src)
    PROVE  w \in Walk
<1>1. w \in [seen : {seen}, at : (i + 1)..Len(seen), cur : Requests, got : {FALSE}]
  BY DEF NextProbes
<1>2. (i + 1)..Len(seen) \subseteq Nat
  OBVIOUS
<1>3. QED BY <1>1, <1>2 DEF Walk

\* on_stop keeps the types of what it assigns.
LEMMA OnStopType ==
    ASSUME TypeOK, NEW c, OnStop(c)
    PROVE  /\ status' \in [Channels -> {"Init", "Start", "Kill"}]
           /\ in_stop' \in [Requests -> BOOLEAN]
           /\ out_stop' \in [Requests -> BOOLEAN]
           /\ channel_exit_time' \in [Channels -> Clock]
BY DEF TypeOK, OnStop, Clock

\* The end of an input's coroutine keeps the types of what it assigns.
LEMMA EndInputType ==
    ASSUME TypeOK, NEW q \in Requests, EndInput(q)
    PROVE  /\ in_co' \in [Requests -> {"none", "ready", "probe", "read", "done"}]
           /\ source' \in [Requests -> {"Init", "Start"}]
           /\ input_queue' \in [Channels -> Seq(Requests)]
           /\ idle_at' \in [Channels -> Clock]
<1>1. channel[q] \in Channels => Erase(input_queue[channel[q]], q) \in Seq(Requests)
  BY EraseProperties DEF TypeOK
<1>2. QED BY <1>1, ZenonT(60) DEF TypeOK, EndInput, Clock

\* What a step of an input's coroutine can change, whichever step it is.
LEMMA InputStepFrame ==
    ASSUME TypeOK, NEW q \in Requests, InputStep(q)
    PROVE  /\ UNCHANGED <<pool, status, channel_exit_time, segment_cache,
                          output_queue, loop, fetching, play, channel, probing,
                          in_stop, out_stop, out_co, crashed>>
           /\ second' \in [Requests -> BOOLEAN]
           /\ pending' \in [Requests -> 0..MaxPending]
           /\ \/ EndInput(q)
              \/ /\ UNCHANGED <<input_queue, idle_at>>
                 /\ in_co' \in [Requests -> {"none", "ready", "probe", "read", "done"}]
                 /\ source' \in [Requests -> {"Init", "Start"}]
<1> USE DEF TypeOK, requestVars, inputVars, outputVars
<1>1. CASE InputStarts(q)
  BY <1>1, ZenonT(60) DEF InputStarts
<1>2. CASE InputConnects(q)
  <2>1. CASE EndInput(q)
    BY <1>2, <2>1 DEF InputConnects
  <2>2. CASE /\ source' = [source EXCEPT ![q] = "Start"]
             /\ in_co' = [in_co EXCEPT ![q] = "read"]
             /\ UNCHANGED <<input_queue, idle_at>>
    BY <1>2, <2>2 DEF InputConnects
  <2>3. QED BY <1>2, <2>1, <2>2 DEF InputConnects
<1>3. CASE InputConnectFails(q)
  <2>1. CASE second[q] /\ EndInput(q) /\ UNCHANGED second
    BY <1>3, <2>1 DEF InputConnectFails
  <2>2. CASE second' = [second EXCEPT ![q] = TRUE] /\ ~second[q]
    <3>1. CASE EndInput(q)
      BY <1>3, <2>2, <3>1 DEF InputConnectFails
    <3>2. CASE UNCHANGED <<in_co, source, input_queue, idle_at>>
      BY <1>3, <2>2, <3>2 DEF InputConnectFails
    <3>3. CASE /\ in_co' = [in_co EXCEPT ![q] = "read"]
               /\ UNCHANGED <<source, input_queue, idle_at>>
      BY <1>3, <2>2, <3>3 DEF InputConnectFails
    <3>4. QED BY <1>3, <2>2, <3>1, <3>2, <3>3 DEF InputConnectFails
  <2>3. QED BY <1>3, <2>1, <2>2 DEF InputConnectFails
<1>4. CASE InputPacket(q)
  BY <1>4, ConstantsAssumption DEF InputPacket
<1>5. CASE InputBreaks(q)
  BY <1>5, ZenonT(60) DEF InputBreaks
<1>6. QED BY <1>1, <1>2, <1>3, <1>4, <1>5 DEF InputStep

\* Every step preserves the types.
LEMMA TypeStep ==
    ASSUME TypeOK, [Next]_vars
    PROVE  TypeOK'
<1> USE DEF chanVars, requestVars, inputVars, outputVars
<1>0. NoWalk \in Walk
  BY DEF NoWalk, Walk
<1>1. ASSUME NEW r \in Requests, Join(r) PROVE TypeOK'
  BY <1>1 DEF TypeOK, Join, Enter, FetchOrCreate, Fresh, WakeUp, RunOutput, Clock
<1>2. ASSUME NEW r \in Requests, Open(r) PROVE TypeOK'
  <2> PICK c \in Channels :
          /\ Enter(r, c)
          /\ channel_exit_time' = [channel_exit_time EXCEPT ![c] = "unset"]
          /\ input_queue' = [input_queue EXCEPT ![c] = Append(@, r)]
          /\ \E w \in NextProbes(input_queue'[c], input_queue'[c], 0, source) :
                probing' = [probing EXCEPT ![r] = w]
          /\ play' = [play EXCEPT ![r] = "probe"]
          /\ UNCHANGED <<status, loop, fetching, inputVars, outputVars, crashed>>
    BY <1>2 DEF Open
  <2>1. input_queue' \in [Channels -> Seq(Requests)]
    BY DEF TypeOK
  <2>2. probing' \in [Requests -> Walk]
    <3>1. input_queue'[c] \in Seq(Requests) /\ 0 \in Nat
      BY <2>1
    <3>2. PICK w \in NextProbes(input_queue'[c], input_queue'[c], 0, source) :
             probing' = [probing EXCEPT ![r] = w]
      OBVIOUS
    <3>3. w \in Walk
      BY <3>1, NextProbesType
    <3>4. QED BY <3>2, <3>3 DEF TypeOK
  <2>3. QED BY <2>1, <2>2 DEF TypeOK, Enter, FetchOrCreate, Fresh, WakeUp, Clock
<1>3. ASSUME NEW r \in Requests, ProbeNext(r) PROVE TypeOK'
  <2>1. probing[r] \in Walk
    BY DEF TypeOK
  <2>2. probing[r].seen \in Seq(Requests) /\ probing[r].at \in Nat
    BY <2>1 DEF Walk
  <2>3. probing' \in [Requests -> Walk]
    BY <1>3, <2>2, NextProbesType DEF TypeOK, ProbeNext
  <2>4. QED BY <1>3, <2>3 DEF TypeOK, ProbeNext, Connected
<1>4. ASSUME NEW r \in Requests, RunSucceeds(r) PROVE TypeOK'
  BY <1>0, <1>4 DEF TypeOK, RunSucceeds, Connected, RunOutput
<1>5. ASSUME NEW r \in Requests, RunFails(r) PROVE TypeOK'
  BY <1>0, <1>5, OnStopType DEF TypeOK, RunFails, RunOutput
<1>6. ASSUME NEW q \in Requests, InputStep(q) PROVE TypeOK'
  <2>1. CASE EndInput(q)
    BY <1>6, <2>1, InputStepFrame, EndInputType DEF TypeOK
  <2>2. CASE ~EndInput(q)
    BY <1>6, <2>2, InputStepFrame DEF TypeOK
  <2>3. QED BY <2>1, <2>2
<1>7. ASSUME NEW r \in Requests, OutputStep(r) PROVE TypeOK'
  <2>1. CASE OutputEnds(r)
    BY <2>1 DEF TypeOK, OutputEnds
  <2>2. CASE OutputLeaves(r)
    BY <2>2, ZenonT(60) DEF TypeOK, OutputLeaves, CheckAndSleep, Clock
  <2>3. QED BY <1>7, <2>1, <2>2 DEF OutputStep
<1>8. ASSUME NEW c \in Channels, LoopStep(c) PROVE TypeOK'
  <2>0. fetching[c] \in Walk
    BY DEF TypeOK
  <2>1. CASE LoopBreaks(c)
    BY <1>0, <2>1, OnStopType DEF TypeOK, LoopBreaks, EndLoop
  <2>2. CASE FetchBegins(c)
    <3>1. input_queue[c] \in Seq(Requests) /\ input_queue[c] # <<>>
      BY <2>2 DEF TypeOK, FetchBegins
    <3>2. [seen |-> input_queue[c], at |-> 1, cur |-> input_queue[c][1],
           got |-> FALSE] \in Walk
      BY <3>1 DEF Walk
    <3>3. QED BY <2>2, <3>2 DEF TypeOK, FetchBegins
  <2>3. CASE FetchPacket(c)
    <3>1. /\ fetching[c].seen \in Seq(Requests) /\ fetching[c].at \in Nat
          /\ fetching[c].cur \in Requests
      BY <2>0, <2>3 DEF Walk, FetchPacket, Dequeue
    <3>2. pending' \in [Requests -> 0..MaxPending]
      BY <2>3, <3>1, ConstantsAssumption DEF TypeOK, FetchPacket, Dequeue
    <3>3. ASSUME fetching[c].at < Len(fetching[c].seen),
                 NEW s \in Slots(fetching[c].seen, input_queue[c], fetching[c].at + 1)
          PROVE  [seen |-> fetching[c].seen, at |-> fetching[c].at + 1,
                  cur |-> s, got |-> TRUE] \in Walk
      <4>1. fetching[c].seen[fetching[c].at + 1] \in Requests
        BY <3>1, <3>3
      <4>2. fetching[c].at + 1 <= Len(input_queue[c])
              => input_queue[c][fetching[c].at + 1] \in Requests
        BY <3>1 DEF TypeOK
      <4>3. s \in Requests \cup {Null}
        BY <4>1, <4>2, <3>3 DEF Slots
      <4>4. QED BY <3>1, <4>3 DEF Walk
    <3>4. fetching' \in [Channels -> Walk] /\ loop' \in [Channels -> {"off", "top", "fetch"}]
      BY <1>0, <2>3, <3>3, ZenonT(60) DEF TypeOK, FetchPacket, Dequeue
    <3>5. QED BY <2>3, <3>2, <3>4 DEF TypeOK, FetchPacket, Dequeue
  <2>4. CASE FetchTimeout(c)
    <3>1. CASE EndLoop(c)
      BY <1>0, <2>4, <3>1, OnStopType DEF TypeOK, FetchTimeout, EndLoop
    <3>2. CASE ~EndLoop(c)
      BY <1>0, <2>4, <3>2, ZenonT(60) DEF TypeOK, FetchTimeout
    <3>3. QED BY <3>1, <3>2
  <2>5. CASE FetchOverrun(c)
    BY <2>5 DEF TypeOK, FetchOverrun
  <2>6. QED BY <1>8, <2>1, <2>2, <2>3, <2>4, <2>5 DEF LoopStep
<1>9. ASSUME NEW c \in Channels, ClockStep(c) \/ PoolKills(c) PROVE TypeOK'
  <2>1. CASE IdleElapses(c)
    BY <2>1 DEF TypeOK, IdleElapses, Clock
  <2>2. CASE ExitElapses(c)
    BY <2>2 DEF TypeOK, ExitElapses, Clock
  <2>3. CASE PoolKills(c)
    BY <2>3 DEF TypeOK, PoolKills
  <2>4. QED BY <1>9, <2>1, <2>2, <2>3 DEF ClockStep
<1>10. CASE UNCHANGED vars
  BY <1>10 DEF TypeOK, vars
<1>11. QED
  BY <1>1, <1>2, <1>3, <1>4, <1>5, <1>6, <1>7, <1>8, <1>9, <1>10
  DEF Next, RequestStep

\* The initial state has the right types.
LEMMA InitTypeOK == Init => TypeOK
<1> SUFFICES ASSUME Init PROVE TypeOK
  OBVIOUS
<1>1. NoWalk \in Walk
  BY DEF NoWalk, Walk
<1>2. 0 \in 0..MaxPending
  BY ConstantsAssumption
<1>3. <<>> \in Seq(Requests)
  OBVIOUS
<1>4. /\ input_queue \in [Channels -> Seq(Requests)]
              /\ output_queue \in [Channels -> SUBSET Requests]
              /\ fetching \in [Channels -> Walk]
              /\ probing \in [Requests -> Walk]
              /\ pending \in [Requests -> 0..MaxPending]
  BY <1>1, <1>2, <1>3 DEF Init
<1>5. /\ status \in [Channels -> {"Init", "Start", "Kill"}]
              /\ idle_at \in [Channels -> Clock]
              /\ channel_exit_time \in [Channels -> Clock]
              /\ loop \in [Channels -> {"off", "top", "fetch"}]
              /\ play \in [Requests -> {"new", "probe", "served"}]
              /\ channel \in [Requests -> Channels \cup {Null}]
  BY DEF Init, Clock
<1>6. /\ segment_cache \in [Channels -> BOOLEAN]
              /\ in_stop \in [Requests -> BOOLEAN]
              /\ second \in [Requests -> BOOLEAN]
              /\ out_stop \in [Requests -> BOOLEAN]
  BY DEF Init
<1>9. crashed \in BOOLEAN
  BY Zenon DEF Init
<1>7. /\ pool \in Channels \cup {Null}
              /\ source \in [Requests -> {"Init", "Start"}]
              /\ in_co \in [Requests -> {"none", "ready", "probe", "read", "done"}]
              /\ out_co \in [Requests -> {"none", "run", "closing", "done"}]
  BY DEF Init
<1>8. QED BY <1>4, <1>5, <1>6, <1>7, <1>9 DEF TypeOK

\* The variables hold values of their types in every reachable state.
THEOREM TypeCorrect == Spec => []TypeOK
<1>1. QED BY InitTypeOK, TypeStep, PTL DEF Spec

-----------------------------------------------------------------------------
(* Safety.                                                                   *)

\* What makes the invariants inductive: until an output has left, it is in the
\* output_queue of its request's channel, and it starts after the request is
\* through with Channel::run.
OutputsAttached ==
    \A r \in Requests :
        /\ out_co[r] \in {"run", "closing"} \/ (play[r] = "probe" /\ Live(r))
             => channel[r] \in Channels /\ r \in output_queue[channel[r]]
        /\ play[r] # "served" => out_co[r] = "none"

IInv ==
    /\ TypeOK
    /\ OutputsAttached
    /\ StartedIsRunning
    /\ NoStrandedViewer
    /\ ExitTimeMeansDrained
    /\ ViewerlessIsIdle
    /\ IdleMeansNoInputOrOutput

\* What a step of the channel's coroutine can change, whichever step it is.
LEMMA LoopStepFrame ==
    ASSUME TypeOK, NEW c \in Channels, LoopStep(c)
    PROVE  /\ UNCHANGED <<pool, idle_at, segment_cache, input_queue, output_queue,
                          play, channel, probing, source, in_co, second, out_co>>
           /\ \/ EndLoop(c)
              \/ /\ UNCHANGED <<status, in_stop, out_stop, channel_exit_time>>
                 /\ \A d \in Channels : loop[d] # "off" => loop'[d] # "off"
<1> USE DEF TypeOK, requestVars, inputVars, outputVars, chanVars
<1>1. CASE LoopBreaks(c)   BY <1>1 DEF LoopBreaks
<1>2. CASE FetchBegins(c)  BY <1>2 DEF FetchBegins
<1>3. CASE FetchPacket(c)  BY <1>3 DEF FetchPacket, Dequeue
<1>4. CASE FetchTimeout(c) BY <1>4 DEF FetchTimeout
<1>5. CASE FetchOverrun(c) BY <1>5 DEF FetchOverrun
<1>6. QED BY <1>1, <1>2, <1>3, <1>4, <1>5, LoopStep(c) DEF LoopStep

\* on_stop stops all that is attached to its channel, and nothing that is
\* attached is lost sight of: the part of the invariant that it disturbs.
LEMMA OnStopSafe ==
    ASSUME IInv, NEW c \in Channels, OnStop(c),
           UNCHANGED <<input_queue, output_queue>>
    PROVE  /\ ExitTimeMeansDrained'
           /\ status'[c] = "Init" /\ \A d \in Channels \ {c} : status'[d] = status[d]
           /\ \A r \in Requests : out_stop[r] \/ r \in output_queue[c] => out_stop'[r]
           /\ \A r \in Requests \ output_queue[c] : out_stop'[r] = out_stop[r]
<1> USE DEF IInv, TypeOK, OnStop
<1>1. \A d \in Channels : Inputs(d) \subseteq Requests
  BY DEF Inputs, Range
<1>2. ExitTimeMeansDrained'
  <2> SUFFICES ASSUME NEW d \in Channels, channel_exit_time'[d] # "unset"
               PROVE  /\ \A r \in output_queue[d] : out_stop'[r]
                      /\ \A q \in Inputs(d) : in_stop'[q]
    BY DEF ExitTimeMeansDrained, Inputs
  <2>1. CASE d = c
    BY <1>1, <2>1
  <2>2. CASE d # c
    BY <1>1, <2>2 DEF ExitTimeMeansDrained
  <2>3. QED BY <2>1, <2>2
<1>3. QED BY <1>2

\* The part of IInv that is not typing.
Safety ==
    /\ OutputsAttached
    /\ StartedIsRunning
    /\ NoStrandedViewer
    /\ ExitTimeMeansDrained
    /\ ViewerlessIsIdle
    /\ IdleMeansNoInputOrOutput

\* What Join and Open share.
LEMMA EnterSafe ==
    ASSUME IInv, NEW r \in Requests, NEW c \in Channels, Enter(r, c),
           status' = status, loop' = loop, out_stop' = out_stop
    PROVE  /\ channel'[r] = c
           /\ \A x \in Requests \ {r} : channel'[x] = channel[x]
           /\ Live(r) => r \in output_queue'[c]
           /\ \A d \in Channels : output_queue[d] \subseteq output_queue'[d]
           /\ \A d \in Channels \ {c} : output_queue'[d] = output_queue[d]
           /\ ~Live(r) => output_queue'[c] = output_queue[c] /\ segment_cache'[c]
           /\ \A d \in Channels \ {c} :
                 idle_at'[d] = idle_at[d] /\ segment_cache'[d] = segment_cache[d]
           /\ idle_at'[c] = "unset"
           /\ out_co[r] = "none" /\ play[r] = "new"
           /\ StartedIsRunning'
           /\ ViewerlessIsIdle'
<1> USE DEF IInv, TypeOK, Enter, WakeUp
<1>1. /\ channel'[r] = c
      /\ \A x \in Requests \ {r} : channel'[x] = channel[x]
  OBVIOUS
<1>2. /\ Live(r) => r \in output_queue'[c]
      /\ \A d \in Channels : output_queue[d] \subseteq output_queue'[d]
      /\ \A d \in Channels \ {c} : output_queue'[d] = output_queue[d]
  OBVIOUS
<1>3. /\ ~Live(r) => output_queue'[c] = output_queue[c] /\ segment_cache'[c]
      /\ \A d \in Channels \ {c} :
            idle_at'[d] = idle_at[d] /\ segment_cache'[d] = segment_cache[d]
      /\ idle_at'[c] = "unset"
  BY ZenonT(60)
<1>4. out_co[r] = "none" /\ play[r] = "new"
  BY DEF OutputsAttached
<1>5. StartedIsRunning'
  BY DEF StartedIsRunning
<1>6. ViewerlessIsIdle'
  <2> SUFFICES ASSUME NEW d \in Channels, NEW x \in Requests, channel'[x] = d,
                      output_queue'[d] = {}, ~segment_cache'[d]
               PROVE  idle_at'[d] # "unset"
    BY DEF ViewerlessIsIdle
  <2>1. d # c
    BY <1>2, <1>3
  <2>2. channel[x] = d /\ output_queue[d] = {} /\ ~segment_cache[d]
    BY <1>1, <1>2, <1>3, <2>1
  <2>3. idle_at[d] # "unset"
    BY <2>2 DEF ViewerlessIsIdle
  <2>4. QED BY <1>3, <2>1, <2>3
<1>7. QED BY <1>1, <1>2, <1>3, <1>4, <1>5, <1>6

\* A request that joins a started channel: its output is not stopped, and
\* add_output has taken channel_exit_time back; the channel's coroutine runs.
LEMMA JoinSafe ==
    ASSUME IInv, NEW r \in Requests, Join(r)
    PROVE  Safety'
<1> USE DEF IInv, TypeOK, inputVars
<1> PICK c \in Channels :
        /\ Enter(r, c)
        /\ status[c] = "Start"
        /\ channel_exit_time' =
              [channel_exit_time EXCEPT
                 ![c] = IF Live(r) \/ ~segment_cache[c] THEN "unset" ELSE @]
        /\ play' = [play EXCEPT ![r] = "served"]
        /\ RunOutput(r)
        /\ UNCHANGED <<status, input_queue, loop, fetching, probing, inputVars,
                       out_stop, crashed>>
  BY DEF Join
<1>1. OutputsAttached'
  BY EnterSafe DEF OutputsAttached, RunOutput
<1>2. StartedIsRunning' /\ ViewerlessIsIdle'
  BY EnterSafe
<1>3. NoStrandedViewer'
  <2>1. loop[c] # "off"
    BY DEF StartedIsRunning
  <2> SUFFICES ASSUME NEW x \in Requests, out_co'[x] = "run", ~out_stop'[x]
               PROVE  x \in output_queue'[channel'[x]] /\ loop'[channel'[x]] # "off"
    BY DEF NoStrandedViewer
  <2>2. CASE x = r
    <3>1. Live(r)
      BY <2>2, EnterSafe DEF RunOutput
    <3>2. QED BY <2>1, <2>2, <3>1, EnterSafe
  <2>3. CASE x # r
    <3>1. out_co[x] = "run" /\ ~out_stop[x] /\ channel'[x] = channel[x]
      BY <2>3, EnterSafe DEF RunOutput
    <3>2. /\ channel[x] \in Channels /\ x \in output_queue[channel[x]]
          /\ loop[channel[x]] # "off"
      BY <3>1 DEF NoStrandedViewer, OutputsAttached
    <3>3. QED BY <3>1, <3>2, EnterSafe
  <2>4. QED BY <2>2, <2>3
<1>4. ExitTimeMeansDrained'
  <2> SUFFICES ASSUME NEW d \in Channels, channel_exit_time'[d] # "unset"
               PROVE  /\ \A x \in output_queue'[d] : out_stop'[x]
                      /\ \A q \in Inputs(d)' : in_stop'[q]
    BY DEF ExitTimeMeansDrained
  <2>1. channel_exit_time[d] # "unset" /\ output_queue'[d] = output_queue[d]
    BY EnterSafe
  <2>2. QED BY <2>1 DEF ExitTimeMeansDrained, Inputs
<1>5. IdleMeansNoInputOrOutput'
  <2> SUFFICES ASSUME NEW d \in Channels, idle_at'[d] # "unset"
               PROVE  input_queue'[d] = <<>> \/ output_queue'[d] = {}
    BY DEF IdleMeansNoInputOrOutput
  <2>1. d # c
    BY EnterSafe
  <2>2. idle_at[d] # "unset" /\ output_queue'[d] = output_queue[d]
    BY <2>1, EnterSafe
  <2>3. QED BY <2>1, <2>2 DEF IdleMeansNoInputOrOutput
<1>6. QED BY <1>1, <1>2, <1>3, <1>4, <1>5 DEF Safety

\* A request that opens the channel: the input it adds is not stopped, and
\* add_input has taken channel_exit_time back.
LEMMA OpenSafe ==
    ASSUME IInv, NEW r \in Requests, Open(r)
    PROVE  Safety'
<1> USE DEF IInv, TypeOK, inputVars, outputVars
<1> PICK c \in Channels :
        /\ Enter(r, c)
        /\ channel_exit_time' = [channel_exit_time EXCEPT ![c] = "unset"]
        /\ input_queue' = [input_queue EXCEPT ![c] = Append(@, r)]
        /\ play' = [play EXCEPT ![r] = "probe"]
        /\ UNCHANGED <<status, loop, fetching, inputVars, outputVars, crashed>>
  BY DEF Open
<1>1. OutputsAttached'
  BY EnterSafe DEF OutputsAttached
<1>2. StartedIsRunning' /\ ViewerlessIsIdle'
  BY EnterSafe
<1>3. NoStrandedViewer'
  <2> SUFFICES ASSUME NEW x \in Requests, out_co'[x] = "run", ~out_stop'[x]
               PROVE  x \in output_queue'[channel'[x]] /\ loop'[channel'[x]] # "off"
    BY DEF NoStrandedViewer
  <2>1. out_co[x] = "run" /\ ~out_stop[x] /\ channel'[x] = channel[x]
    BY EnterSafe
  <2>2. /\ channel[x] \in Channels /\ x \in output_queue[channel[x]]
        /\ loop[channel[x]] # "off"
    BY <2>1 DEF NoStrandedViewer, OutputsAttached
  <2>3. QED BY <2>1, <2>2, EnterSafe
<1>4. ExitTimeMeansDrained'
  <2> SUFFICES ASSUME NEW d \in Channels, channel_exit_time'[d] # "unset"
               PROVE  /\ \A x \in output_queue'[d] : out_stop'[x]
                      /\ \A q \in Inputs(d)' : in_stop'[q]
    BY DEF ExitTimeMeansDrained
  <2>1. d # c
    OBVIOUS
  <2>2. /\ channel_exit_time[d] # "unset" /\ output_queue'[d] = output_queue[d]
        /\ input_queue'[d] = input_queue[d]
    BY <2>1, EnterSafe
  <2>3. QED BY <2>2 DEF ExitTimeMeansDrained, Inputs
<1>5. IdleMeansNoInputOrOutput'
  <2> SUFFICES ASSUME NEW d \in Channels, idle_at'[d] # "unset"
               PROVE  input_queue'[d] = <<>> \/ output_queue'[d] = {}
    BY DEF IdleMeansNoInputOrOutput
  <2>1. d # c
    BY EnterSafe
  <2>2. idle_at[d] # "unset" /\ output_queue'[d] = output_queue[d]
    BY <2>1, EnterSafe
  <2>3. QED BY <2>1, <2>2 DEF IdleMeansNoInputOrOutput
<1>6. QED BY <1>1, <1>2, <1>3, <1>4, <1>5 DEF Safety

\* on_init connecting one more input disturbs no part of the invariant.
LEMMA ProbeNextSafe ==
    ASSUME IInv, NEW r \in Requests, ProbeNext(r)
    PROVE  Safety'
BY DEF IInv, Safety, ProbeNext, chanVars, outputVars, OutputsAttached,
       StartedIsRunning, NoStrandedViewer, ExitTimeMeansDrained, ViewerlessIsIdle,
       IdleMeansNoInputOrOutput, Inputs

\* Channel::run succeeds: the output that starts finds the coroutine running.
LEMMA RunSucceedsSafe ==
    ASSUME IInv, NEW r \in Requests, RunSucceeds(r)
    PROVE  Safety'
<1> DEFINE c == channel[r]
<1> USE DEF IInv, TypeOK
<1>0. /\ play[r] = "probe"
      /\ status' = [status EXCEPT ![c] = "Start"]
      /\ loop' = [loop EXCEPT ![c] = IF @ = "off" THEN "top" ELSE @]
      /\ play' = [play EXCEPT ![r] = "served"]
      /\ out_co' = [out_co EXCEPT ![r] = IF Live(r) THEN "run" ELSE @]
      /\ UNCHANGED <<pool, idle_at, channel_exit_time, segment_cache, input_queue,
                     output_queue, fetching, channel, in_stop, out_stop>>
  BY DEF RunSucceeds, Connected, RunOutput
<1>1. OutputsAttached'
  BY <1>0 DEF OutputsAttached
<1>2. StartedIsRunning'
  BY <1>0 DEF StartedIsRunning
<1>3. NoStrandedViewer'
  <2>1. Live(r) => c \in Channels /\ r \in output_queue[c]
    BY <1>0 DEF OutputsAttached
  <2>2. \A d \in Channels : loop[d] # "off" \/ d = c => loop'[d] # "off"
    BY <1>0
  <2>3. QED BY <1>0, <2>1, <2>2 DEF NoStrandedViewer, OutputsAttached
<1>4. ExitTimeMeansDrained' /\ ViewerlessIsIdle' /\ IdleMeansNoInputOrOutput'
  BY <1>0 DEF ExitTimeMeansDrained, ViewerlessIsIdle, IdleMeansNoInputOrOutput, Inputs
<1>5. QED BY <1>1, <1>2, <1>3, <1>4 DEF Safety

\* Channel::run fails: the output that starts has been told to stop, like all
\* that is attached.
LEMMA RunFailsSafe ==
    ASSUME IInv, NEW r \in Requests, RunFails(r)
    PROVE  Safety'
<1> DEFINE c == channel[r]
<1> USE DEF IInv, TypeOK
<1>0. /\ play[r] = "probe" /\ OnStop(c)
      /\ play' = [play EXCEPT ![r] = "served"]
      /\ out_co' = [out_co EXCEPT ![r] = IF Live(r) THEN "run" ELSE @]
      /\ UNCHANGED <<pool, idle_at, segment_cache, input_queue, output_queue, loop,
                     fetching, channel>>
  BY DEF RunFails, RunOutput
<1>1. OutputsAttached'
  BY <1>0 DEF OutputsAttached
<1>2. ViewerlessIsIdle' /\ IdleMeansNoInputOrOutput'
  BY <1>0 DEF ViewerlessIsIdle, IdleMeansNoInputOrOutput
<1>3. CASE c \in Channels
  <2>1. /\ ExitTimeMeansDrained'
        /\ status'[c] = "Init" /\ \A d \in Channels \ {c} : status'[d] = status[d]
        /\ \A x \in Requests : out_stop[x] \/ x \in output_queue[c] => out_stop'[x]
    BY <1>0, <1>3, OnStopSafe
  <2>2. StartedIsRunning'
    BY <1>0, <2>1 DEF StartedIsRunning
  <2>3. NoStrandedViewer'
    <3> SUFFICES ASSUME NEW x \in Requests, out_co'[x] = "run", ~out_stop'[x]
                 PROVE  x \in output_queue[channel[x]] /\ loop[channel[x]] # "off"
      BY <1>0 DEF NoStrandedViewer
    <3>1. x # r
      BY <1>0, <2>1 DEF OutputsAttached
    <3>2. out_co[x] = "run" /\ ~out_stop[x]
      BY <1>0, <2>1, <3>1
    <3>3. QED BY <3>2 DEF NoStrandedViewer
  <2>4. QED BY <1>1, <1>2, <2>1, <2>2, <2>3 DEF Safety
<1>4. CASE c = Null
  \* Only a request without an output can hold no channel here, and stopping
  \* no channel stops nothing.
  <2>1. Null \notin Channels
    BY ConstantsAssumption
  <2>2. ~Live(r)
    BY <1>0, <1>4, <2>1 DEF OutputsAttached
  <2>3. /\ status' = status /\ channel_exit_time' = channel_exit_time
        /\ out_co' = out_co
        /\ \A x \in Requests : (out_stop[x] => out_stop'[x]) /\ (in_stop[x] => in_stop'[x])
    BY <1>0, <1>4, <2>1, <2>2 DEF OnStop
  <2>4. \A d \in Channels : Inputs(d)' = Inputs(d) /\ Inputs(d) \subseteq Requests
    BY <1>0 DEF Inputs, Range
  <2>5. ExitTimeMeansDrained'
    <3> SUFFICES ASSUME NEW d \in Channels, channel_exit_time'[d] # "unset"
                 PROVE  /\ \A x \in output_queue'[d] : out_stop'[x]
                        /\ \A q \in Inputs(d)' : in_stop'[q]
      BY DEF ExitTimeMeansDrained
    <3>1. output_queue'[d] = output_queue[d] /\ output_queue[d] \subseteq Requests
      BY <1>0
    <3>2. QED BY <2>3, <2>4, <3>1 DEF ExitTimeMeansDrained
  <2>6. StartedIsRunning'
    BY <1>0, <2>3 DEF StartedIsRunning
  <2>7. NoStrandedViewer'
    BY <1>0, <2>3 DEF NoStrandedViewer
  <2>8. QED BY <1>1, <1>2, <2>5, <2>6, <2>7 DEF Safety
<1>5. QED BY <1>3, <1>4

\* Steps of the channel's coroutine: where it ends, on_stop drains the channel.
LEMMA LoopStepSafe ==
    ASSUME IInv, NEW c \in Channels, LoopStep(c)
    PROVE  Safety'
<1> USE DEF IInv, TypeOK
<1>0. /\ UNCHANGED <<pool, idle_at, segment_cache, input_queue, output_queue,
                     play, channel, probing, source, in_co, second, out_co>>
      /\ \/ EndLoop(c)
         \/ /\ UNCHANGED <<status, in_stop, out_stop, channel_exit_time>>
            /\ \A d \in Channels : loop[d] # "off" => loop'[d] # "off"
  BY LoopStepFrame
<1>1. OutputsAttached' /\ ViewerlessIsIdle' /\ IdleMeansNoInputOrOutput'
  BY <1>0 DEF OutputsAttached, ViewerlessIsIdle, IdleMeansNoInputOrOutput
<1>2. CASE EndLoop(c)
  <2>1. /\ ExitTimeMeansDrained'
        /\ status'[c] = "Init" /\ \A d \in Channels \ {c} : status'[d] = status[d]
        /\ \A r \in Requests : out_stop[r] \/ r \in output_queue[c] => out_stop'[r]
    BY <1>0, <1>2, OnStopSafe DEF EndLoop
  <2>2. \A d \in Channels \ {c} : loop'[d] = loop[d]
    BY <1>2 DEF EndLoop
  <2>3. StartedIsRunning'
    BY <2>1, <2>2 DEF StartedIsRunning
  <2>4. NoStrandedViewer'
    <3> SUFFICES ASSUME NEW r \in Requests, out_co[r] = "run", ~out_stop'[r]
                 PROVE  r \in output_queue[channel[r]] /\ loop'[channel[r]] # "off"
      BY <1>0 DEF NoStrandedViewer
    <3>1. /\ channel[r] \in Channels /\ r \in output_queue[channel[r]]
          /\ loop[channel[r]] # "off"
      BY <2>1 DEF NoStrandedViewer, OutputsAttached
    <3>2. channel[r] # c
      BY <2>1, <3>1
    <3>3. QED BY <2>2, <3>1, <3>2
  <2>5. QED BY <1>1, <2>1, <2>3, <2>4 DEF Safety
<1>3. CASE /\ UNCHANGED <<status, in_stop, out_stop, channel_exit_time>>
           /\ \A d \in Channels : loop[d] # "off" => loop'[d] # "off"
  <2>1. StartedIsRunning' /\ ExitTimeMeansDrained'
    BY <1>0, <1>3 DEF StartedIsRunning, ExitTimeMeansDrained, Inputs
  <2>2. NoStrandedViewer'
    BY <1>0, <1>3 DEF NoStrandedViewer, OutputsAttached
  <2>3. QED BY <1>1, <2>1, <2>2 DEF Safety
<1>4. QED BY <1>0, <1>2, <1>3

\* Steps of an input: where it ends, it only leaves input_queue.
LEMMA InputStepSafe ==
    ASSUME IInv, NEW q \in Requests, InputStep(q)
    PROVE  Safety'
<1> DEFINE c == channel[q]
           left == Erase(input_queue[c], q)
<1> USE DEF IInv, TypeOK
<1>0. UNCHANGED <<pool, status, channel_exit_time, segment_cache, output_queue, loop,
                  fetching, play, channel, probing, in_stop, out_stop, out_co>>
  BY InputStepFrame
<1>1. OutputsAttached' /\ StartedIsRunning' /\ NoStrandedViewer'
  BY <1>0 DEF OutputsAttached, StartedIsRunning, NoStrandedViewer
<1>2. CASE EndInput(q)
  <2>1. /\ input_queue' = [input_queue EXCEPT ![c] = left]
        /\ idle_at' = [idle_at EXCEPT ![c] =
                         IF left = <<>> /\ @ = "unset" THEN "recent" ELSE @]
    BY <1>2 DEF EndInput
  <2>2. c \in Channels => /\ Range(left) \subseteq Range(input_queue[c])
                          /\ input_queue[c] = <<>> => left = <<>>
    BY EraseProperties
  <2>3. ASSUME NEW d \in Channels PROVE Inputs(d)' \subseteq Inputs(d)
    <3> HIDE DEF left
    <3>1. CASE d = c
      <4>1. input_queue'[d] = left
        BY <2>1, <3>1
      <4>2. QED BY <2>2, <3>1, <4>1 DEF Inputs
    <3>2. CASE d # c
      <4>1. input_queue'[d] = input_queue[d]
        BY <2>1, <3>2
      <4>2. QED BY <4>1 DEF Inputs
    <3>3. QED BY <3>1, <3>2
  <2>4. ExitTimeMeansDrained'
    BY <1>0, <2>3 DEF ExitTimeMeansDrained
  <2>5. \A d \in Channels : idle_at[d] # "unset" => idle_at'[d] # "unset"
    BY <2>1
  <2>6. ViewerlessIsIdle'
    BY <1>0, <2>5 DEF ViewerlessIsIdle
  <2>7. IdleMeansNoInputOrOutput'
    <3> SUFFICES ASSUME NEW d \in Channels, idle_at'[d] # "unset", output_queue[d] # {}
                 PROVE  input_queue'[d] = <<>>
      BY <1>0 DEF IdleMeansNoInputOrOutput
    <3> HIDE DEF left
    <3>1. CASE d = c
      BY <2>1, <2>2, <3>1 DEF IdleMeansNoInputOrOutput
    <3>2. CASE d # c
      BY <2>1, <3>2 DEF IdleMeansNoInputOrOutput
    <3>3. QED BY <3>1, <3>2
  <2>8. QED BY <1>1, <2>4, <2>6, <2>7 DEF Safety
<1>3. CASE UNCHANGED <<input_queue, idle_at>>
  BY <1>0, <1>1, <1>3
  DEF Safety, ExitTimeMeansDrained, ViewerlessIsIdle, IdleMeansNoInputOrOutput, Inputs
<1>4. QED BY <1>2, <1>3, InputStepFrame

\* Steps of an output: it leaves output_queue when it is done, and the last
\* one sets idle_at.
LEMMA OutputStepSafe ==
    ASSUME IInv, NEW r \in Requests, OutputStep(r)
    PROVE  Safety'
<1> USE DEF IInv, TypeOK, chanVars, requestVars, inputVars
<1>1. CASE OutputEnds(r)
  <2>0. /\ out_co[r] = "run" /\ out_co' = [out_co EXCEPT ![r] = "closing"]
        /\ UNCHANGED <<pool, status, idle_at, channel_exit_time, segment_cache,
                       input_queue, output_queue, loop, fetching, play, channel,
                       in_stop, out_stop>>
    BY <1>1 DEF OutputEnds
  <2>1. OutputsAttached'
    BY <2>0 DEF OutputsAttached
  <2>2. NoStrandedViewer'
    BY <2>0 DEF NoStrandedViewer
  <2>3. /\ StartedIsRunning' /\ ExitTimeMeansDrained' /\ ViewerlessIsIdle'
        /\ IdleMeansNoInputOrOutput'
    BY <2>0 DEF StartedIsRunning, ExitTimeMeansDrained, ViewerlessIsIdle,
                IdleMeansNoInputOrOutput, Inputs
  <2>4. QED BY <2>1, <2>2, <2>3 DEF Safety
<1>2. CASE OutputLeaves(r)
  <2> DEFINE c == channel[r]
             left == output_queue[c] \ {r}
  <2>0. /\ out_co[r] = "closing" /\ out_co' = [out_co EXCEPT ![r] = "done"]
        /\ output_queue' = [output_queue EXCEPT ![c] = left]
        /\ idle_at' = [idle_at EXCEPT ![c] =
               IF @ = "unset" /\ left = {} /\ ~segment_cache[c] THEN "recent" ELSE @]
        /\ UNCHANGED <<pool, status, channel_exit_time, segment_cache, input_queue,
                       loop, fetching, play, channel, in_stop, out_stop>>
    BY <1>2 DEF OutputLeaves, CheckAndSleep
  <2>1. c \in Channels /\ play[r] = "served"
    BY <2>0 DEF OutputsAttached
  <2>2. /\ \A d \in Channels : output_queue'[d] \subseteq output_queue[d]
        /\ \A d \in Channels, x \in Requests \ {r} :
              x \in output_queue[d] => x \in output_queue'[d]
    BY <2>0
  <2>3. OutputsAttached'
    BY <2>0, <2>1, <2>2 DEF OutputsAttached
  <2>4. NoStrandedViewer'
    BY <2>0, <2>2 DEF NoStrandedViewer, OutputsAttached
  <2>5. StartedIsRunning' /\ ExitTimeMeansDrained'
    BY <2>0, <2>2 DEF StartedIsRunning, ExitTimeMeansDrained, Inputs
  <2>6. ViewerlessIsIdle'
    <3> SUFFICES ASSUME NEW d \in Channels, NEW x \in Requests, channel[x] = d,
                        output_queue'[d] = {}, ~segment_cache[d]
                 PROVE  idle_at'[d] # "unset"
      BY <2>0 DEF ViewerlessIsIdle
    <3>1. CASE d = c
      BY <2>0, <3>1
    <3>2. CASE d # c
      BY <2>0, <3>2 DEF ViewerlessIsIdle
    <3>3. QED BY <3>1, <3>2
  <2>7. IdleMeansNoInputOrOutput'
    <3> SUFFICES ASSUME NEW d \in Channels, idle_at'[d] # "unset"
                 PROVE  input_queue[d] = <<>> \/ output_queue'[d] = {}
      BY <2>0 DEF IdleMeansNoInputOrOutput
    <3>1. CASE idle_at[d] # "unset"
      BY <2>2, <3>1 DEF IdleMeansNoInputOrOutput
    <3>2. CASE idle_at[d] = "unset"
      BY <2>0, <3>2
    <3>3. QED BY <3>1, <3>2
  <2>8. QED BY <2>3, <2>4, <2>5, <2>6, <2>7 DEF Safety
<1>3. QED BY <1>1, <1>2 DEF OutputStep

\* Time passing and the pool set no time stamp that was not set.
LEMMA ClockStepSafe ==
    ASSUME IInv, NEW c \in Channels, ClockStep(c) \/ PoolKills(c)
    PROVE  Safety'
<1> USE DEF IInv, TypeOK, chanVars, requestVars, inputVars, outputVars
<1>0. /\ UNCHANGED <<segment_cache, input_queue, output_queue, loop, play, channel,
                     in_stop, out_stop, out_co>>
      /\ \A d \in Channels : status'[d] = "Start" => status[d] = "Start"
      /\ \A d \in Channels : idle_at'[d] = "unset" <=> idle_at[d] = "unset"
      /\ \A d \in Channels :
            channel_exit_time'[d] = "unset" <=> channel_exit_time[d] = "unset"
  <2>1. CASE IdleElapses(c) BY <2>1 DEF IdleElapses
  <2>2. CASE ExitElapses(c) BY <2>2 DEF ExitElapses
  <2>3. CASE PoolKills(c)   BY <2>3 DEF PoolKills
  <2>4. QED BY <2>1, <2>2, <2>3 DEF ClockStep
<1>1. OutputsAttached' /\ StartedIsRunning' /\ NoStrandedViewer'
  BY <1>0 DEF OutputsAttached, StartedIsRunning, NoStrandedViewer
<1>2. ExitTimeMeansDrained'
  <2> SUFFICES ASSUME NEW d \in Channels, channel_exit_time'[d] # "unset"
               PROVE  /\ \A r \in output_queue[d] : out_stop[r]
                      /\ \A q \in Range(input_queue[d]) : in_stop[q]
    BY <1>0 DEF ExitTimeMeansDrained, Inputs
  <2> QED BY <1>0 DEF ExitTimeMeansDrained, Inputs
<1>3. ViewerlessIsIdle'
  <2> SUFFICES ASSUME NEW d \in Channels, NEW x \in Requests, channel[x] = d,
                      output_queue[d] = {}, ~segment_cache[d]
               PROVE  idle_at'[d] # "unset"
    BY <1>0 DEF ViewerlessIsIdle
  <2> QED BY <1>0 DEF ViewerlessIsIdle
<1>4. IdleMeansNoInputOrOutput'
  <2> SUFFICES ASSUME NEW d \in Channels, idle_at'[d] # "unset"
               PROVE  input_queue[d] = <<>> \/ output_queue[d] = {}
    BY <1>0 DEF IdleMeansNoInputOrOutput
  <2> QED BY <1>0 DEF IdleMeansNoInputOrOutput
<1>5. QED BY <1>1, <1>2, <1>3, <1>4 DEF Safety

-----------------------------------------------------------------------------
(* IInv is inductive: it holds initially and no step of any coroutine, of    *)
(* the pool or of the clock breaks it.                                       *)

\* The invariant holds initially.
LEMMA IInvInitial == Init => IInv
<1> SUFFICES ASSUME Init PROVE IInv
  OBVIOUS
<1>1. TypeOK
  BY InitTypeOK
<1>2. OutputsAttached /\ StartedIsRunning /\ NoStrandedViewer
  BY DEF Init, OutputsAttached, StartedIsRunning, NoStrandedViewer
<1>3. ExitTimeMeansDrained /\ ViewerlessIsIdle /\ IdleMeansNoInputOrOutput
  <2>1. ExitTimeMeansDrained
    BY DEF Init, ExitTimeMeansDrained
  <2>2. ViewerlessIsIdle
    BY ConstantsAssumption DEF Init, ViewerlessIsIdle
  <2>3. IdleMeansNoInputOrOutput
    BY DEF Init, IdleMeansNoInputOrOutput
  <2>4. QED BY <2>1, <2>2, <2>3
<1>4. QED BY <1>1, <1>2, <1>3 DEF IInv

\* Every step preserves the invariant.
LEMMA IInvInductive == IInv /\ [Next]_vars => IInv'
<1> SUFFICES ASSUME IInv, [Next]_vars PROVE IInv'
  OBVIOUS
<1>1. TypeOK'
  BY TypeStep DEF IInv
<1>2. Safety'
  <2>1. CASE UNCHANGED vars
    BY <2>1 DEF IInv, Safety, OutputsAttached, StartedIsRunning, NoStrandedViewer,
                ExitTimeMeansDrained, ViewerlessIsIdle, IdleMeansNoInputOrOutput,
                Inputs, vars, chanVars, requestVars, inputVars, outputVars
  <2>2. ASSUME NEW r \in Requests, RequestStep(r) PROVE Safety'
    BY <2>2, JoinSafe, OpenSafe, ProbeNextSafe, RunSucceedsSafe, RunFailsSafe
       DEF RequestStep
  <2>3. ASSUME NEW r \in Requests, InputStep(r) PROVE Safety'
    BY <2>3, InputStepSafe
  <2>4. ASSUME NEW r \in Requests, OutputStep(r) PROVE Safety'
    BY <2>4, OutputStepSafe
  <2>5. ASSUME NEW c \in Channels, LoopStep(c) PROVE Safety'
    BY <2>5, LoopStepSafe
  <2>6. ASSUME NEW c \in Channels, ClockStep(c) \/ PoolKills(c) PROVE Safety'
    BY <2>6, ClockStepSafe
  <2>7. QED BY <2>1, <2>2, <2>3, <2>4, <2>5, <2>6 DEF Next
<1>3. QED BY <1>1, <1>2 DEF IInv, Safety

\* The invariant holds in every reachable state.
LEMMA Inductive == Spec => []IInv
<1>1. QED BY IInvInitial, IInvInductive, PTL DEF Spec

-----------------------------------------------------------------------------
\* handle_play_stream never leaves a viewer on a channel whose coroutine neither
\* feeds it nor stops it.
THEOREM NeverStranded == Spec => []NoStrandedViewer
<1>1. IInv => NoStrandedViewer
  BY DEF IInv, Safety
<1>2. QED BY <1>1, Inductive, PTL

\* EChannelStart is reported only while the coroutine of the channel runs.
THEOREM StartedChannelRuns == Spec => []StartedIsRunning
<1>1. IInv => StartedIsRunning
  BY DEF IInv, Safety
<1>2. QED BY <1>1, Inductive, PTL

\* While channel_exit_time is set, everything attached has been told to stop.
THEOREM ExitTimeDrains == Spec => []ExitTimeMeansDrained
<1>1. IInv => ExitTimeMeansDrained
  BY DEF IInv, Safety
<1>2. QED BY <1>1, Inductive, PTL

\* A channel that has lost its last viewer, and keeps no segments, has its idle
\* time set, so that check_and_sleep ends it.
THEOREM IdleTimeIsRight == Spec => []ViewerlessIsIdle
<1>1. IInv => ViewerlessIsIdle BY DEF IInv, Safety
<1>2. QED BY <1>1, Inductive, PTL

\* The idle time, after which check_and_sleep ends the channel, runs only while
\* the channel has no input or no output.
THEOREM IdleNeedsNoInputOrOutput == Spec => []IdleMeansNoInputOrOutput
<1>1. IInv => IdleMeansNoInputOrOutput BY DEF IInv, Safety
<1>2. QED BY <1>1, Inductive, PTL

\* Only ChannelPool::cycle sets EChannelKill.
LEMMA OnlyThePoolKills ==
    ASSUME TypeOK, [Next]_vars, NEW c \in Channels,
           status[c] # "Kill", status'[c] = "Kill"
    PROVE  PoolKills(c)
<1> USE DEF TypeOK, chanVars, requestVars, inputVars, outputVars
<1>1. ASSUME NEW r \in Requests, RequestStep(r) PROVE FALSE
  <2>1. CASE Join(r)        BY <2>1 DEF Join
  <2>2. CASE Open(r)        BY <2>2 DEF Open
  <2>3. CASE ProbeNext(r)   BY <2>3 DEF ProbeNext
  <2>4. CASE RunSucceeds(r) BY <2>4 DEF RunSucceeds
  <2>5. CASE RunFails(r)    BY <2>5 DEF RunFails, OnStop
  <2>6. QED BY <1>1, <2>1, <2>2, <2>3, <2>4, <2>5 DEF RequestStep
<1>2. ASSUME NEW r \in Requests, InputStep(r) PROVE FALSE
  BY <1>2, InputStepFrame
<1>3. ASSUME NEW r \in Requests, OutputStep(r) PROVE FALSE
  BY <1>3 DEF OutputStep, OutputEnds, OutputLeaves
<1>4. ASSUME NEW d \in Channels, LoopStep(d) PROVE FALSE
  BY <1>4, LoopStepFrame DEF EndLoop, OnStop
<1>5. ASSUME NEW d \in Channels, ClockStep(d) PROVE FALSE
  BY <1>5 DEF ClockStep, IdleElapses, ExitElapses
<1>6. ASSUME NEW d \in Channels, PoolKills(d) PROVE PoolKills(c)
  <2>1. status' = [status EXCEPT ![d] = "Kill"]
    BY <1>6 DEF PoolKills
  <2>2. d = c
    BY <2>1
  <2>3. QED BY <1>6, <2>2
<1>7. CASE UNCHANGED vars
  BY <1>7 DEF vars
<1>8. QED BY <1>1, <1>2, <1>3, <1>4, <1>5, <1>6, <1>7 DEF Next

\* ChannelPool::cycle removes a channel only when each of its running outputs
\* has been told to stop.
THEOREM KillsOnlyDrained == Spec => KillOnlyDrained
<1> DEFINE Kept == \A c \in Channels :
                      status[c] # "Kill" /\ status'[c] = "Kill"
                        => \A r \in Requests :
                              channel[r] = c /\ out_co[r] = "run" => out_stop[r]
<1>1. IInv /\ [Next]_vars => Kept
  <2> SUFFICES ASSUME IInv, [Next]_vars, NEW c \in Channels,
                      status[c] # "Kill", status'[c] = "Kill",
                      NEW r \in Requests, channel[r] = c, out_co[r] = "run"
               PROVE  out_stop[r]
    OBVIOUS
  <2>1. channel_exit_time[c] # "unset"
    BY OnlyThePoolKills DEF IInv, PoolKills, CheckExpire
  <2>2. r \in output_queue[c]
    BY DEF IInv, OutputsAttached
  <2>3. QED BY <2>1, <2>2 DEF IInv, ExitTimeMeansDrained
<1>2. QED BY <1>1, Inductive, PTL DEF KillOnlyDrained, Spec

=============================================================================
