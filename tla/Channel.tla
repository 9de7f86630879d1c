------------------------------ MODULE Channel ------------------------------
(* The life cycle of the channels of one stream key: src/base/cache/         *)
(* tmss_channel.cpp with the handlers that run on a channel                  *)
(* (tmss_input.cpp, tmss_output.cpp) and the requests that create them       *)
(* (MediaSource::handle_play_stream and handle_play_segment).                *)
(*                                                                           *)
(* Coroutines are cooperative: the code between two blocking calls is one    *)
(* action.  A request r owns the OutputHandler and, when it has to open the  *)
(* origin, the InputHandler it creates, so all three are named r.            *)
EXTENDS Naturals, Sequences, SequencesExt

CONSTANTS
    Requests,         \* play requests, one client connection each
    SegmentRequests,  \* those with mode=hls, served from the segment cache
    Channels,         \* Channel objects that may be created for the key
    Null,             \* a null shared_ptr: no channel, or an empty vector slot
    MaxPending        \* bound on the packets waiting in one input queue

ASSUME ConstantsAssumption ==
    /\ SegmentRequests \subseteq Requests
    /\ Null \notin Requests \cup Channels
    /\ MaxPending \in Nat \ {0}

VARIABLES
    pool,              \* ChannelPool::pool at the key
    status,            \* Channel::status
    idle_at,           \* Channel::idle_at, see Clock
    channel_exit_time, \* Channel::channel_exit_time, see Clock
    segment_cache,     \* Channel::segment_cache is set
    input_queue,       \* Channel::input_queue, a vector the fetch walks in order
    output_queue,      \* Channel::output_queue
    loop,              \* where the channel's coroutine is
    fetching,          \* the locals of Channel::fetch
    play,              \* where the request's handler is
    channel,           \* the channel a request, its input and output hold
    probing,           \* the locals of Channel::on_init
    source,            \* InputHandler::status
    in_stop,           \* InputHandler::is_stop
    in_co,             \* where the input's coroutine is
    second,            \* the input's cycle is in its second cycle_interleave
    pending,           \* length of the input's packet queue
    out_stop,          \* OutputHandler::is_stop
    out_co,            \* where the output's coroutine is
    crashed            \* the process died on an invalid vector or map access

chanVars == <<pool, status, idle_at, channel_exit_time, segment_cache,
              input_queue, output_queue, loop, fetching>>
requestVars == <<play, channel, probing>>
inputVars == <<source, in_stop, in_co, second, pending>>
outputVars == <<out_stop, out_co>>
vars == <<chanVars, requestVars, inputVars, outputVars, crashed>>

\* A time stamp that is compared with a limit: -1, set less than the limit
\* ago, or set longer ago (5 s for idle_at, 60 s for channel_exit_time).
Clock == {"unset", "recent", "elapsed"}

Walk == [seen : Seq(Requests), at : Nat, cur : Requests \cup {Null}, got : BOOLEAN]
NoWalk == [seen |-> <<>>, at |-> 0, cur |-> Null, got |-> FALSE]

TypeOK ==
    /\ pool \in Channels \cup {Null}
    /\ status \in [Channels -> {"Init", "Start", "Kill"}]
    /\ idle_at \in [Channels -> Clock]
    /\ channel_exit_time \in [Channels -> Clock]
    /\ segment_cache \in [Channels -> BOOLEAN]
    /\ input_queue \in [Channels -> Seq(Requests)]
    /\ output_queue \in [Channels -> SUBSET Requests]
    /\ loop \in [Channels -> {"off", "top", "fetch"}]
    /\ fetching \in [Channels -> Walk]
    /\ play \in [Requests -> {"new", "probe", "served"}]
    /\ channel \in [Requests -> Channels \cup {Null}]
    /\ probing \in [Requests -> Walk]
    /\ source \in [Requests -> {"Init", "Start"}]
    /\ in_stop \in [Requests -> BOOLEAN]
    /\ in_co \in [Requests -> {"none", "ready", "probe", "read", "done"}]
    /\ second \in [Requests -> BOOLEAN]
    /\ pending \in [Requests -> 0..MaxPending]
    /\ out_stop \in [Requests -> BOOLEAN]
    /\ out_co \in [Requests -> {"none", "run", "closing", "done"}]
    /\ crashed \in BOOLEAN

Init ==
    /\ pool = Null
    /\ status = [c \in Channels |-> "Init"]
    /\ idle_at = [c \in Channels |-> "unset"]
    /\ channel_exit_time = [c \in Channels |-> "unset"]
    /\ segment_cache = [c \in Channels |-> FALSE]
    /\ input_queue = [c \in Channels |-> <<>>]
    /\ output_queue = [c \in Channels |-> {}]
    /\ loop = [c \in Channels |-> "off"]
    /\ fetching = [c \in Channels |-> NoWalk]
    /\ play = [r \in Requests |-> "new"]
    /\ channel = [r \in Requests |-> Null]
    /\ probing = [r \in Requests |-> NoWalk]
    /\ source = [r \in Requests |-> "Init"]
    /\ in_stop = [r \in Requests |-> FALSE]
    /\ in_co = [r \in Requests |-> "none"]
    /\ second = [r \in Requests |-> FALSE]
    /\ pending = [r \in Requests |-> 0]
    /\ out_stop = [r \in Requests |-> FALSE]
    /\ out_co = [r \in Requests |-> "none"]
    /\ crashed = FALSE

Live(r) == r \notin SegmentRequests

Inputs(c) == Range(input_queue[c])

\* std::find and erase on input_queue, which holds an input at most once.
Erase(s, e) ==
    IF e \in Range(s) THEN RemoveAt(s, CHOOSE i \in 1..Len(s) : s[i] = e) ELSE s

-----------------------------------------------------------------------------
(* Operations of the channel that handlers call.                             *)

\* A channel object that no request has been given yet.
Fresh == {c \in Channels \ {pool} : \A r \in Requests : channel[r] # c}

\* ChannelPool::fetch_or_create: the pooled channel, unless it is killed.
FetchOrCreate(c) ==
    /\ IF pool # Null /\ status[pool] # "Kill" THEN c = pool ELSE c \in Fresh
    /\ pool' = c

\* Channel::wake_up.
WakeUp_UnlessElapsed(c) == idle_at' = [idle_at EXCEPT ![c] = IF @ = "elapsed" THEN @ ELSE "unset"]
WakeUp(c) == idle_at' = [idle_at EXCEPT ![c] = "unset"]

\* Channel::check_and_sleep, once outputs are the outputs that are left.
CheckAndSleep_NeedsNoInput(c, outputs) ==
    idle_at' = [idle_at EXCEPT ![c] =
        IF @ = "unset" /\ outputs = {} /\ input_queue[c] = <<>> THEN "recent" ELSE @]
CheckAndSleep(c, outputs) ==
    idle_at' = [idle_at EXCEPT ![c] =
        IF @ = "unset" /\ outputs = {} /\ ~segment_cache[c] THEN "recent" ELSE @]

\* Channel::check_expire.
CheckExpire_ByIdleTime(c) == idle_at[c] = "elapsed"
CheckExpire(c) == channel_exit_time[c] = "elapsed"

\* Channel::on_stop: everything attached at this moment is told to stop.
OnStop_KeepsStatus(c) ==
    /\ status' = status
    /\ in_stop' = [r \in Requests |-> in_stop[r] \/ r \in Inputs(c)]
    /\ out_stop' = [r \in Requests |-> out_stop[r] \/ r \in output_queue[c]]
    /\ channel_exit_time' = [channel_exit_time EXCEPT ![c] = "recent"]
OnStop_SkipsInputs(c) ==
    /\ status' = [status EXCEPT ![c] = "Init"]
    /\ in_stop' = in_stop
    /\ out_stop' = [r \in Requests |-> out_stop[r] \/ r \in output_queue[c]]
    /\ channel_exit_time' = [channel_exit_time EXCEPT ![c] = "recent"]
OnStop_SkipsOutputs(c) ==
    /\ status' = [status EXCEPT ![c] = "Init"]
    /\ in_stop' = [r \in Requests |-> in_stop[r] \/ r \in Inputs(c)]
    /\ out_stop' = out_stop
    /\ channel_exit_time' = [channel_exit_time EXCEPT ![c] = "recent"]
OnStop_KeepsExitTime(c) ==
    /\ status' = [status EXCEPT ![c] = "Init"]
    /\ in_stop' = [r \in Requests |-> in_stop[r] \/ r \in Inputs(c)]
    /\ out_stop' = [r \in Requests |-> out_stop[r] \/ r \in output_queue[c]]
    /\ channel_exit_time' = channel_exit_time
OnStop(c) ==
    /\ status' = [status EXCEPT ![c] = "Init"]
    /\ in_stop' = [r \in Requests |-> in_stop[r] \/ r \in Inputs(c)]
    /\ out_stop' = [r \in Requests |-> out_stop[r] \/ r \in output_queue[c]]
    /\ channel_exit_time' = [channel_exit_time EXCEPT ![c] = "recent"]

\* What a range-for over a vector may find in slot i when the vector was
\* seen when the loop began and is now cur: the end iterator was taken at the
\* beginning, an erase has shifted the elements and left a null behind them, a
\* push_back has moved them out of the buffer the loop still reads.
Slots(seen, cur, i) ==
    IF cur = seen THEN {seen[i]}
    ELSE {seen[i], Null} \cup (IF i <= Len(cur) THEN {cur[i]} ELSE {})

-----------------------------------------------------------------------------
(* A play request: the connection handler's coroutine.                       *)

\* Slots that on_init passes without blocking, given the inputs' states.
Passes(src, slot) == slot # Null => src[slot] = "Start"

\* Where the walk of on_init blocks next, after index i: an input whose origin
\* is not connected, all slots before it being passed.
NextProbes(seen, cur, i, src) ==
    {w \in [seen : {seen}, at : (i + 1)..Len(seen), cur : Requests, got : {FALSE}] :
        /\ w.cur \in Slots(seen, cur, w.at)
        /\ ~Passes(src, w.cur)
        /\ \A k \in (i + 1)..(w.at - 1) :
              \E s \in Slots(seen, cur, k) : Passes(src, s)}

\* on_init reaches the end of its walk without blocking again.
WalkEnds(seen, cur, i, src) ==
    \A k \in (i + 1)..Len(seen) : \E s \in Slots(seen, cur, k) : Passes(src, s)

\* The part of handle_play_stream and handle_play_segment that all requests
\* share: fetch_or_create_channel, and add_output or add_segemt_cache.
Enter(r, c) ==
    /\ play[r] = "new"
    /\ FetchOrCreate(c)
    /\ channel' = [channel EXCEPT ![r] = c]
    /\ WakeUp(c)
    /\ output_queue' = [output_queue EXCEPT ![c] = IF Live(r) THEN @ \cup {r} ELSE @]
    /\ segment_cache' = [segment_cache EXCEPT ![c] = @ \/ ~Live(r)]

\* output->run() at the end of handle_play_stream.
RunOutput(r) ==
    out_co' = [out_co EXCEPT ![r] = IF Live(r) THEN "run" ELSE @]

\* The channel is already running: attach and be served.
Join(r) ==
    \E c \in Channels :
        /\ Enter(r, c)
        /\ status[c] = "Start"
        /\ channel_exit_time' =
              [channel_exit_time EXCEPT
                 ![c] = IF Live(r) \/ ~segment_cache[c] THEN "unset" ELSE @]
        /\ play' = [play EXCEPT ![r] = "served"]
        /\ RunOutput(r)
        /\ UNCHANGED <<status, input_queue, loop, fetching, probing, inputVars,
                       out_stop, crashed>>

\* It is not: create_origin_stream, then Channel::run, whose on_init blocks on
\* the first input that has to connect to the origin.
Open(r) ==
    \E c \in Channels :
        /\ Enter(r, c)
        /\ status[c] # "Start"
        /\ channel_exit_time' = [channel_exit_time EXCEPT ![c] = "unset"]
        /\ input_queue' = [input_queue EXCEPT ![c] = Append(@, r)]
        /\ \E w \in NextProbes(input_queue'[c], input_queue'[c], 0, source) :
              probing' = [probing EXCEPT ![r] = w]
        /\ play' = [play EXCEPT ![r] = "probe"]
        /\ UNCHANGED <<status, loop, fetching, inputVars, outputVars, crashed>>

\* origin_start returned: the input is connected and on_init walks on.
Connected(r) ==
    /\ play[r] = "probe"
    /\ source' = [source EXCEPT ![probing[r].cur] = "Start"]

\* ... to another input that has to connect.  On its way on_init gives inputs
\* that run already a new demuxer's buffer and, at its end, outputs that do a
\* new muxer's; these are no part of this module.
ProbeNext(r) ==
    /\ Connected(r)
    /\ \E w \in NextProbes(probing[r].seen, input_queue[channel[r]],
                           probing[r].at, source') :
          probing' = [probing EXCEPT ![r] = w]
    /\ UNCHANGED <<chanVars, play, channel, in_stop, in_co, second, pending,
                   outputVars, crashed>>

\* Or to its end: the inputs' coroutines are created, the channel's unless
\* it exists, and the request's output starts.  Threads can always be created:
\* without memory for one, start would leave a handler that takes itself to be
\* running and never runs.
RunSucceeds(r) ==
    LET c == channel[r] IN
    /\ Connected(r)
    /\ WalkEnds(probing[r].seen, input_queue[c], probing[r].at, source')
    /\ in_co' = [q \in Requests |-> IF q \in Inputs(c) /\ in_co[q] = "none"
                                    THEN "ready" ELSE in_co[q]]
    /\ status' = [status EXCEPT ![c] = "Start"]
    /\ loop' = [loop EXCEPT ![c] = IF @ = "off" THEN "top" ELSE @]
    /\ play' = [play EXCEPT ![r] = "served"]
    /\ probing' = [probing EXCEPT ![r] = NoWalk]
    /\ RunOutput(r)
    /\ UNCHANGED <<pool, idle_at, channel_exit_time, segment_cache, input_queue,
                   output_queue, fetching, channel, in_stop, second, pending,
                   out_stop, crashed>>

\* Mutant of the next action: the request gives up before it starts its output.
RunFails_Returns(r) ==
    /\ play[r] = "probe"
    /\ OnStop(channel[r])
    /\ play' = [play EXCEPT ![r] = "served"]
    /\ probing' = [probing EXCEPT ![r] = NoWalk]
    /\ UNCHANGED <<pool, idle_at, segment_cache, input_queue, output_queue, loop,
                   fetching, channel, source, in_co, second, pending, out_co, crashed>>

\* origin_start failed: Channel::run returns the error, the request stops the
\* channel and still starts its output.
RunFails(r) ==
    /\ play[r] = "probe"
    /\ OnStop(channel[r])
    /\ play' = [play EXCEPT ![r] = "served"]
    /\ probing' = [probing EXCEPT ![r] = NoWalk]
    /\ RunOutput(r)
    /\ UNCHANGED <<pool, idle_at, segment_cache, input_queue, output_queue, loop,
                   fetching, channel, source, in_co, second, pending, crashed>>

-----------------------------------------------------------------------------
(* The channel's coroutine: MediaSource::handle_cycle, then on_stop.         *)

\* The coroutine ends; on_thread_stop lets Channel::run start a new one.
EndLoop(c) ==
    /\ OnStop(c)
    /\ loop' = [loop EXCEPT ![c] = "off"]
    /\ fetching' = [fetching EXCEPT ![c] = NoWalk]

\* The top of the loop: idle for too long, or no input to fetch from.
LoopBreaks(c) ==
    /\ loop[c] = "top"
    /\ idle_at[c] = "elapsed" \/ input_queue[c] = <<>>
    /\ EndLoop(c)
    /\ UNCHANGED <<pool, idle_at, segment_cache, input_queue, output_queue,
                   requestVars, source, in_co, second, pending, out_co, crashed>>

\* fetch begins with the first input.
FetchBegins(c) ==
    /\ loop[c] = "top"
    /\ idle_at[c] # "elapsed" /\ input_queue[c] # <<>>
    /\ loop' = [loop EXCEPT ![c] = "fetch"]
    /\ fetching' = [fetching EXCEPT ![c] =
          [seen |-> input_queue[c], at |-> 1, cur |-> input_queue[c][1], got |-> FALSE]]
    /\ UNCHANGED <<pool, status, idle_at, channel_exit_time, segment_cache,
                   input_queue, output_queue, requestVars, inputVars, outputVars,
                   crashed>>

\* PacketQueue::dequeue, when a packet waits.
Dequeue_Unchecked(q) == pending' = [pending EXCEPT ![q] = @ - 1]
Dequeue(q) == pending[q] > 0 /\ pending' = [pending EXCEPT ![q] = @ - 1]

\* dequeue returns a packet; fetch goes on to the next input it saw.
FetchPacket(c) ==
    LET f == fetching[c] IN
    /\ loop[c] = "fetch" /\ f.cur # Null
    /\ Dequeue(f.cur)
    /\ \/ /\ f.at = Len(f.seen)
          /\ loop' = [loop EXCEPT ![c] = "top"]
          /\ fetching' = [fetching EXCEPT ![c] = NoWalk]
       \/ /\ f.at < Len(f.seen)
          /\ \E s \in Slots(f.seen, input_queue[c], f.at + 1) :
                fetching' = [fetching EXCEPT ![c] =
                               [seen |-> f.seen, at |-> f.at + 1, cur |-> s, got |-> TRUE]]
          /\ loop' = loop
    /\ UNCHANGED <<pool, status, idle_at, channel_exit_time, segment_cache,
                   input_queue, output_queue, requestVars, source, in_stop, in_co,
                   second, outputVars, crashed>>

\* dequeue returns empty-handed, after 10 s or when the input's end wakes it:
\* fetch gives up, with the packets it has.
FetchTimeout(c) ==
    LET f == fetching[c] IN
    /\ loop[c] = "fetch" /\ f.cur # Null /\ pending[f.cur] = 0
    /\ \/ /\ f.got
          /\ loop' = [loop EXCEPT ![c] = "top"]
          /\ fetching' = [fetching EXCEPT ![c] = NoWalk]
          /\ UNCHANGED <<status, in_stop, out_stop, channel_exit_time>>
       \/ ~f.got /\ EndLoop(c)
    /\ UNCHANGED <<pool, idle_at, segment_cache, input_queue, output_queue,
                   requestVars, source, in_co, second, pending, out_co, crashed>>

\* fetch calls dequeue through the null an erased element left behind.
FetchOverrun(c) ==
    /\ loop[c] = "fetch" /\ fetching[c].cur = Null
    /\ crashed' = TRUE
    /\ UNCHANGED <<chanVars, requestVars, inputVars, outputVars>>

-----------------------------------------------------------------------------
(* An input's coroutine.                                                     *)

\* InputHandler::on_thread_stop with Channel::del_input.
EndInput(q) ==
    LET c == channel[q]
        left == Erase(input_queue[c], q)
    IN  /\ in_co' = [in_co EXCEPT ![q] = "done"]
        /\ source' = [source EXCEPT ![q] = "Init"]
        /\ input_queue' = [input_queue EXCEPT ![c] = left]
        /\ idle_at' = [idle_at EXCEPT ![c] =
                         IF left = <<>> /\ @ = "unset" THEN "recent" ELSE @]

\* The first probe of the coroutine: it connects only if on_init did not.
InputStarts(q) ==
    /\ in_co[q] = "ready"
    /\ \/ /\ source[q] = "Init"
          /\ in_co' = [in_co EXCEPT ![q] = "probe"]
          /\ UNCHANGED <<source, input_queue, idle_at>>
       \/ /\ source[q] = "Start" /\ ~in_stop[q]
          /\ in_co' = [in_co EXCEPT ![q] = "read"]
          /\ UNCHANGED <<source, input_queue, idle_at>>
       \/ source[q] = "Start" /\ in_stop[q] /\ EndInput(q)
    /\ UNCHANGED <<pool, status, channel_exit_time, segment_cache, output_queue,
                   loop, fetching, requestVars, in_stop, second, pending,
                   outputVars, crashed>>

\* The probe of the coroutine connects.
InputConnects(q) ==
    /\ in_co[q] = "probe"
    /\ \/ /\ ~in_stop[q]
          /\ source' = [source EXCEPT ![q] = "Start"]
          /\ in_co' = [in_co EXCEPT ![q] = "read"]
          /\ UNCHANGED <<input_queue, idle_at>>
       \/ in_stop[q] /\ EndInput(q)
    /\ UNCHANGED <<pool, status, channel_exit_time, segment_cache, output_queue,
                   loop, fetching, requestVars, in_stop, second, pending,
                   outputVars, crashed>>

\* It fails; the second cycle_interleave tries once more.
InputConnectFails(q) ==
    /\ in_co[q] = "probe"
    /\ \/ /\ ~second[q]
          /\ second' = [second EXCEPT ![q] = TRUE]
          /\ \/ /\ source[q] = "Init"
                /\ UNCHANGED <<in_co, source, input_queue, idle_at>>
             \/ /\ source[q] = "Start" /\ ~in_stop[q]
                /\ in_co' = [in_co EXCEPT ![q] = "read"]
                /\ UNCHANGED <<source, input_queue, idle_at>>
             \/ source[q] = "Start" /\ in_stop[q] /\ EndInput(q)
       \/ second[q] /\ EndInput(q) /\ UNCHANGED second
    /\ UNCHANGED <<pool, status, channel_exit_time, segment_cache, output_queue,
                   loop, fetching, requestVars, in_stop, pending, outputVars,
                   crashed>>

\* handle_input returned a packet: it is queued, and the loop looks at is_stop
\* before it reads again.
InputPacket(q) ==
    /\ in_co[q] = "read" /\ pending[q] < MaxPending
    /\ pending' = [pending EXCEPT ![q] = @ + 1]
    /\ \/ ~in_stop[q] /\ UNCHANGED <<in_co, source, input_queue, idle_at>>
       \/ in_stop[q] /\ EndInput(q)
    /\ UNCHANGED <<pool, status, channel_exit_time, segment_cache, output_queue,
                   loop, fetching, requestVars, in_stop, second, outputVars,
                   crashed>>

\* handle_input returned an error or no packet (end of stream, 3 s without
\* data): the second cycle_interleave reads on, unless the input is stopped.
InputBreaks(q) ==
    /\ in_co[q] = "read"
    /\ \/ /\ ~second[q] /\ ~in_stop[q]
          /\ second' = [second EXCEPT ![q] = TRUE]
          /\ UNCHANGED <<in_co, source, input_queue, idle_at>>
       \/ (second[q] \/ in_stop[q]) /\ EndInput(q) /\ UNCHANGED second
    /\ UNCHANGED <<pool, status, channel_exit_time, segment_cache, output_queue,
                   loop, fetching, requestVars, in_stop, pending, outputVars,
                   crashed>>

-----------------------------------------------------------------------------
(* An output's coroutine.                                                    *)

\* OutputHandler::cycle ends (told to stop, client gone, write error, 2 s
\* without a packet) and on_thread_stop closes the connection, waiting for the
\* connection's handler.
OutputEnds(r) ==
    /\ out_co[r] = "run"
    /\ out_co' = [out_co EXCEPT ![r] = "closing"]
    /\ UNCHANGED <<chanVars, requestVars, inputVars, out_stop, crashed>>

\* Channel::del_output with check_and_sleep.
OutputLeaves(r) ==
    LET c == channel[r]
        left == output_queue[c] \ {r}
    IN  /\ out_co[r] = "closing"
        /\ out_co' = [out_co EXCEPT ![r] = "done"]
        /\ output_queue' = [output_queue EXCEPT ![c] = left]
        /\ CheckAndSleep(c, left)
        /\ UNCHANGED <<pool, status, channel_exit_time, segment_cache, input_queue,
                       loop, fetching, requestVars, inputVars, out_stop, crashed>>

-----------------------------------------------------------------------------
(* Time, and the pool's coroutine.                                           *)

IdleElapses(c) ==
    /\ idle_at[c] = "recent"
    /\ idle_at' = [idle_at EXCEPT ![c] = "elapsed"]
    /\ UNCHANGED <<pool, status, channel_exit_time, segment_cache, input_queue,
                   output_queue, loop, fetching, requestVars, inputVars,
                   outputVars, crashed>>

ExitElapses(c) ==
    /\ channel_exit_time[c] = "recent"
    /\ channel_exit_time' = [channel_exit_time EXCEPT ![c] = "elapsed"]
    /\ UNCHANGED <<pool, status, idle_at, segment_cache, input_queue, output_queue,
                   loop, fetching, requestVars, inputVars, outputVars, crashed>>

\* ChannelPool::cycle finds the channel expired and removes it.  The loop then
\* increments an iterator to the erased node: it may go on, or crash.
PoolKills(c) ==
    /\ pool = c
    /\ CheckExpire(c)
    /\ status' = [status EXCEPT ![c] = "Kill"]
    /\ pool' = Null
    /\ crashed' \in BOOLEAN
    /\ UNCHANGED <<idle_at, channel_exit_time, segment_cache, input_queue,
                   output_queue, loop, fetching, requestVars, inputVars, outputVars>>

-----------------------------------------------------------------------------
RequestStep(r) == Join(r) \/ Open(r) \/ ProbeNext(r) \/ RunSucceeds(r) \/ RunFails(r)

LoopStep(c) ==
    LoopBreaks(c) \/ FetchBegins(c) \/ FetchPacket(c) \/ FetchTimeout(c)
                  \/ FetchOverrun(c)

InputStep(q) ==
    InputStarts(q) \/ InputConnects(q) \/ InputConnectFails(q)
                   \/ InputPacket(q) \/ InputBreaks(q)

OutputStep(r) == OutputEnds(r) \/ OutputLeaves(r)

ClockStep(c) == IdleElapses(c) \/ ExitElapses(c)

Next ==
    /\ ~crashed
    /\ \/ \E r \in Requests : RequestStep(r) \/ InputStep(r) \/ OutputStep(r)
       \/ \E c \in Channels : LoopStep(c) \/ ClockStep(c) \/ PoolKills(c)

\* Every blocking call has a timeout or a waker, so every coroutine that can
\* move does; only a viewer may stay for ever, until it is told to stop.
Fairness ==
    /\ \A r \in Requests :
          /\ WF_vars(~crashed /\ (ProbeNext(r) \/ RunSucceeds(r) \/ RunFails(r)))
          /\ WF_vars(~crashed /\ InputStep(r))
          /\ WF_vars(~crashed /\ out_stop[r] /\ OutputEnds(r))
          /\ WF_vars(~crashed /\ OutputLeaves(r))
    /\ \A c \in Channels :
          /\ WF_vars(~crashed /\ LoopStep(c))
          /\ WF_vars(~crashed /\ IdleElapses(c))
          /\ WF_vars(~crashed /\ ExitElapses(c))
          /\ WF_vars(~crashed /\ PoolKills(c))

Spec == Init /\ [][Next]_vars /\ Fairness

-----------------------------------------------------------------------------
(* Safety                                                                    *)

\* A channel that reports EChannelStart has a coroutine in handle_cycle: a
\* request that only joins it relies on that coroutine to feed its viewer.
StartedIsRunning ==
    \A c \in Channels : status[c] = "Start" => loop[c] # "off"

\* No viewer is stranded: an output that runs and was not told to stop is
\* attached to a channel whose coroutine will feed it or stop it.
NoStrandedViewer ==
    \A r \in Requests :
        out_co[r] = "run" /\ ~out_stop[r]
          => /\ r \in output_queue[channel[r]]
             /\ loop[channel[r]] # "off"

\* While channel_exit_time is set, everything attached to the channel has been
\* told to stop: what joins a stopping channel later takes the time back.
ExitTimeMeansDrained ==
    \A c \in Channels :
        channel_exit_time[c] # "unset"
          => /\ \A r \in output_queue[c] : out_stop[r]
             /\ \A q \in Inputs(c) : in_stop[q]

\* A channel that has lost its last viewer, and keeps no segments, is idle, so
\* that it stops pulling from the origin.
ViewerlessIsIdle ==
    \A c \in Channels :
        (\E r \in Requests : channel[r] = c)
          => (output_queue[c] = {} /\ ~segment_cache[c] => idle_at[c] # "unset")

\* The idle time runs only while the channel has "no input or output".
IdleMeansNoInputOrOutput ==
    \A c \in Channels :
        idle_at[c] # "unset" => input_queue[c] = <<>> \/ output_queue[c] = {}

\* The pool removes a channel only when each of its viewers has been told to
\* stop.
KillOnlyDrained ==
    [][\A c \in Channels :
          status[c] # "Kill" /\ status'[c] = "Kill"
            => \A r \in Requests :
                  channel[r] = c /\ out_co[r] = "run" => out_stop[r]]_vars

-----------------------------------------------------------------------------
(* Liveness                                                                  *)

\* A viewer that is told to stop leaves the channel.
StoppedViewerLeaves ==
    \A r \in Requests :
        out_stop[r] ~> out_co[r] = "done" \/ ~Live(r) \/ crashed

\* A channel that is left by its viewers for good, and keeps no segments, ends
\* its coroutine and those of its inputs.
AbandonedChannelStops ==
    \A c \in Channels :
        <>[](output_queue[c] = {} /\ ~segment_cache[c])
          => <>[](\/ crashed
                  \/ /\ loop[c] = "off"
                     /\ \A q \in Inputs(c) : in_co[q] = "none")

\* When all the channels have been left for good, the pool gives them up.
PoolForgetsTheDead ==
    <>[](\A c \in Channels : output_queue[c] = {} /\ ~segment_cache[c])
      => <>[](pool = Null \/ crashed)

-----------------------------------------------------------------------------
(* What the repository says of the program, and the code does not do.        *)

\* readme.md:19: client requests for a stream converge to one pull from the
\* source.
ConvergeToOneOrigin ==
    \A q1, q2 \in Requests :
        source[q1] = "Start" /\ source[q2] = "Start" /\ channel[q1] = channel[q2]
          => q1 = q2
=============================================================================
