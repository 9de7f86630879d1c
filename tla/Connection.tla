----------------------------- MODULE Connection -----------------------------
(***************************************************************************)
(* The life of the viewers' connections: accepted by the server, served by *)
(* a connection handler in a coroutine of its own, written to by an output *)
(* in another one, and ended by whichever of client, handler and output    *)
(* comes first (protocol/server, protocol/http/http_server,                *)
(* transport/tmss_trans_tcp, base/coroutine).                              *)
(*                                                                         *)
(* The connection object owns the descriptor.  It is shared by handler and *)
(* output, and closed explicitly by an output that ends, by a handler that *)
(* refuses a segment, and by its destructor when the last of them lets go  *)
(* of it.  An action is the code between two blocking calls.               *)
(***************************************************************************)
EXTENDS Naturals, FiniteSets, Coroutine

CONSTANT Conns      \* the connections that clients may open

VARIABLES
    server,     \* IServer's coroutine: accepting, or ended for good
    client,     \* the peer: "none", "here" or "gone"
    handler,    \* the connection handler's coroutine: where it is blocked
    co,         \* its STCoroutine
    interrupt,  \* its thread has a pending st_thread_interrupt
    output,     \* the output's coroutine: "join" is inside close
    conn_pool,  \* IConnManager: the handlers that are kept alive
    stop,       \* IClientConn::stop
    connected,  \* TcpStreamConn::is_connected
    fd,         \* the descriptor
    errTo       \* history: what pfn wrote a handler's error to

vars == <<server, client, handler, co, interrupt, output, conn_pool, stop,
          connected, fd, errTo>>

----------------------------------------------------------------------------
\* Where the handler's coroutine can be blocked:
\*   "parse"   in the read of the request, which times out after 3 s
\*   "play"    in the connect and request to the origin of a new channel
\*   "file"    in seek_range, for more of a file, without a timeout
\*   "refuse"  in the write of a 404 for a segment that is not there
\*   "drain"   in the read after the request, without a timeout
Reading == {"parse", "drain"}
Blocked == Reading \cup {"play", "file", "refuse"}

OutputStates == {"none", "run", "join", "ended"}

TypeOK ==
    /\ server \in {"accept", "ended"}
    /\ client \in [Conns -> {"none", "here", "gone"}]
    /\ handler \in [Conns -> Blocked \cup {"none", "ended"}]
    /\ co \in [Conns -> Coroutines]
    /\ interrupt \in [Conns -> BOOLEAN]
    /\ output \in [Conns -> OutputStates]
    /\ conn_pool \in SUBSET Conns
    /\ stop \in [Conns -> BOOLEAN]
    /\ connected \in [Conns -> BOOLEAN]
    /\ fd \in [Conns -> {"none", "open", "closed"}]
    /\ errTo \in [Conns -> {"nothing", "coroutine", "freed memory"}]

Init ==
    /\ server = "accept"
    /\ client = [c \in Conns |-> "none"]
    /\ handler = [c \in Conns |-> "none"]
    /\ co = [c \in Conns |-> New]
    /\ interrupt = [c \in Conns |-> FALSE]
    /\ output = [c \in Conns |-> "none"]
    /\ conn_pool = {}
    /\ stop = [c \in Conns |-> FALSE]
    /\ connected = [c \in Conns |-> FALSE]
    /\ fd = [c \in Conns |-> "none"]
    /\ errTo = [c \in Conns |-> "nothing"]

\* The effect of close(2): a descriptor that is closed twice may be another
\* connection's by then.
Closed(state) == IF state = "open" THEN "closed" ELSE "closed twice"

OutputLives(c) == output[c] \in {"run", "join"}

----------------------------------------------------------------------------
\* IServer::cycle around one accepted connection: the handler is created,
\* started and registered; it runs until it reads from the client.
Accept(c) ==
    /\ server = "accept"
    /\ client[c] = "none"
    /\ client' = [client EXCEPT ![c] = "here"]
    /\ handler' = [handler EXCEPT ![c] = "parse"]
    /\ co' = [co EXCEPT ![c] = Started(@)]
    /\ conn_pool' = conn_pool \cup {c}
    /\ connected' = [connected EXCEPT ![c] = TRUE]
    /\ fd' = [fd EXCEPT ![c] = "open"]
    /\ UNCHANGED <<server, interrupt, output, stop, errTo>>

\* No thread for the handler: cycle returns the error of start, nobody
\* accepts any more, and what it had created is destroyed.
AcceptFails(c) ==
    /\ server = "accept"
    /\ client[c] = "none"
    /\ server' = "ended"
    /\ client' = [client EXCEPT ![c] = "here"]
    /\ handler' = [handler EXCEPT ![c] = "ended"]
    /\ fd' = [fd EXCEPT ![c] = "closed"]
    /\ UNCHANGED <<co, interrupt, output, conn_pool, stop, connected, errTo>>

\* The client, or the network, ends the connection.
ClientLeaves(c) ==
    /\ client[c] = "here"
    /\ client' = [client EXCEPT ![c] = "gone"]
    /\ UNCHANGED <<server, handler, co, interrupt, output, conn_pool, stop,
                   connected, fd, errTo>>

----------------------------------------------------------------------------
\* A mutant: on_thread_stop forgets the pool.
HandlerEnds_StaysInPool(c, coroutine) ==
    /\ handler' = [handler EXCEPT ![c] = "ended"]
    /\ co' = [co EXCEPT ![c] = CycleEnded(coroutine)]
    /\ interrupt' = [interrupt EXCEPT ![c] = FALSE]
    /\ errTo' = [errTo EXCEPT ![c] = "coroutine"]
    /\ UNCHANGED conn_pool

\* The end of the handler's coroutine after its cycle has returned an error,
\* as it does in every path: STCoroutine::cycle wakes those who wait,
\* on_thread_stop takes the handler out of the pool, and pfn stores the error.
\* A handler that nobody else holds is destroyed in on_thread_stop, with its
\* STCoroutine; an output that waits in close holds it.
HandlerEnds(c, coroutine) ==
    /\ handler' = [handler EXCEPT ![c] = "ended"]
    /\ co' = [co EXCEPT ![c] = CycleEnded(coroutine)]
    /\ interrupt' = [interrupt EXCEPT ![c] = FALSE]
    /\ conn_pool' = conn_pool \ {c}
    /\ errTo' = [errTo EXCEPT ![c] =
           IF output[c] = "join" THEN "coroutine" ELSE "freed memory"]

\* Mutants: a handler that ends closes the connection without asking for the
\* output; and without noting that it has.
Destroy_WithHandler(c) ==
    IF connected[c] /\ c \notin conn_pool'
    THEN /\ fd' = [fd EXCEPT ![c] = Closed(@)]
         /\ connected' = [connected EXCEPT ![c] = FALSE]
    ELSE UNCHANGED <<fd, connected>>

Destroy_Unnoted(c) ==
    /\ fd' = [fd EXCEPT ![c] = IF c \in conn_pool' THEN @ ELSE Closed(@)]
    /\ UNCHANGED connected

\* ~TcpStreamConn, if handler and output were the last to hold the connection:
\* close does nothing when it is not connected any more.
Destroy(c) ==
    IF connected[c] /\ output'[c] \notin {"run", "join"} /\ c \notin conn_pool'
    THEN /\ fd' = [fd EXCEPT ![c] = Closed(@)]
         /\ connected' = [connected EXCEPT ![c] = FALSE]
    ELSE UNCHANGED <<fd, connected>>

\* HttpConnHandler::cycle: no request within the time, or no client.
ParseFails(c) ==
    /\ handler[c] = "parse"
    /\ HandlerEnds(c, co[c])
    /\ UNCHANGED <<server, client, output, stop>>
    /\ Destroy(c)

\* serve_http reads on after handle_request, to notice the client's end.
Drains(c) == handler' = [handler EXCEPT ![c] = "drain"]

OutputRuns(c) == output' = [output EXCEPT ![c] = "run"]

\* A stream request on a channel that is running.
PlayJoins(c) ==
    /\ handler[c] = "parse"
    /\ Drains(c)
    /\ OutputRuns(c)
    /\ UNCHANGED <<server, client, co, interrupt, conn_pool, stop, connected,
                   fd, errTo>>

\* A request that blocks: for the origin of a stream, for the bytes of a file
\* or segment, or in the write of the 404.
Blocks(c, where) ==
    /\ handler[c] = "parse"
    /\ handler' = [handler EXCEPT ![c] = where]
    /\ UNCHANGED <<server, client, co, interrupt, output, conn_pool, stop,
                   connected, fd, errTo>>

PlayOpens(c) == Blocks(c, "play")

FileOpens(c) == Blocks(c, "file")

SegmentIsMissing(c) == Blocks(c, "refuse")

\* The origin has answered or not: the output is run in both cases.
PlayRuns(c) ==
    /\ handler[c] = "play"
    /\ Drains(c)
    /\ OutputRuns(c)
    /\ UNCHANGED <<server, client, co, interrupt, conn_pool, stop, connected,
                   fd, errTo>>

\* A segment request whose origin was opened first.
SegmentRuns(c) ==
    /\ handler[c] = "play"
    /\ handler' \in {[handler EXCEPT ![c] = w] : w \in {"file", "refuse"}}
    /\ UNCHANGED <<server, client, co, interrupt, output, conn_pool, stop,
                   connected, fd, errTo>>

\* handle_play_segment closes the connection from the handler's own coroutine:
\* close stops the handler, that is, itself.  The interrupt is pending on the
\* running thread, so that the wait returns at once and close goes on; the
\* next read finds the connection closed, which serve_http takes for an error.
RefuseCloses(c) ==
    /\ handler[c] = "refuse"
    /\ stop' = [stop EXCEPT ![c] = TRUE]
    /\ fd' = [fd EXCEPT ![c] = Closed(@)]
    /\ connected' = [connected EXCEPT ![c] = FALSE]
    /\ HandlerEnds(c, Stopping(co[c]))
    /\ UNCHANGED <<server, client, output>>

\* The read of serve_http fails, by the client's end or by an interrupt; what
\* a client sends meanwhile is read and dropped.
DrainEnds(c) ==
    /\ handler[c] = "drain"
    /\ client[c] = "gone" \/ interrupt[c]
    /\ stop' = [stop EXCEPT ![c] = TRUE]
    /\ HandlerEnds(c, co[c])
    /\ UNCHANGED <<server, client, output>>
    /\ Destroy(c)
----------------------------------------------------------------------------
\* A mutant: set_stop before close.
OutputEnds_StopsFirst(c) ==
    /\ output[c] = "run"
    /\ output' = [output EXCEPT ![c] = IF stop[c] THEN "ended" ELSE "join"]
    /\ stop' = [stop EXCEPT ![c] = TRUE]
    /\ UNCHANGED <<server, client, handler, conn_pool, errTo>>
    /\ IF stop[c]
       THEN UNCHANGED <<co, interrupt>>
       ELSE /\ co' = [co EXCEPT ![c] = Stopping(@)]
            /\ interrupt' = [interrupt EXCEPT ![c] = InterruptsThread(co[c])]
    /\ Destroy(c)

\* OutputHandler::cycle ends at any time: no packet, a failed write, or a stop
\* that it was told or that it sees at the connection.  In on_thread_stop it
\* leaves a connection that is stopped to the handler that has stopped it, and
\* closes one that is not, which stops the handler and waits for it.
OutputEnds(c) ==
    /\ output[c] = "run"
    /\ output' = [output EXCEPT ![c] = IF stop[c] THEN "ended" ELSE "join"]
    /\ UNCHANGED <<server, client, handler, conn_pool, stop, errTo>>
    /\ IF stop[c]
       THEN UNCHANGED <<co, interrupt>>
       ELSE /\ co' = [co EXCEPT ![c] = Stopping(@)]
            /\ interrupt' = [interrupt EXCEPT ![c] = InterruptsThread(co[c])]
    /\ Destroy(c)

\* st_netfd_close refuses a descriptor that a coroutine waits for.
Busy(c) == handler[c] \in Reading

\* The rest of close and on_thread_stop, when the handler's cycle has ended.
OutputJoins(c) ==
    /\ output[c] = "join"
    /\ co[c]["cycle_done"]
    /\ output' = [output EXCEPT ![c] = "ended"]
    /\ stop' = [stop EXCEPT ![c] = TRUE]
    /\ IF Busy(c)
       THEN UNCHANGED <<fd, connected>>
       ELSE /\ fd' = [fd EXCEPT ![c] = Closed(@)]
            /\ connected' = [connected EXCEPT ![c] = FALSE]
    /\ UNCHANGED <<server, client, handler, co, interrupt, conn_pool, errTo>>

HandlerNext(c) ==
    \/ ParseFails(c) \/ PlayJoins(c)
    \/ PlayOpens(c) \/ FileOpens(c) \/ SegmentIsMissing(c)
    \/ PlayRuns(c) \/ SegmentRuns(c)
    \/ RefuseCloses(c) \/ DrainEnds(c)

Next ==
    \E c \in Conns :
        \/ Accept(c) \/ AcceptFails(c) \/ ClientLeaves(c)
        \/ HandlerNext(c)
        \/ OutputEnds(c) \/ OutputJoins(c)

\* Every blocking call of a handler ends, by a timeout or because its client
\* has left or it was interrupted, except the wait for a file.  An output
\* looks at stop at least every 2 s; nothing else need ever end it.
Fairness ==
    \A c \in Conns :
        /\ WF_vars(HandlerNext(c))
        /\ WF_vars(stop[c] /\ OutputEnds(c))
        /\ WF_vars(OutputJoins(c))

Spec == Init /\ [][Next]_vars /\ Fairness

----------------------------------------------------------------------------
\* on_thread_stop of an output does nothing for a connection that is stopped,
\* relying on the other side: stop may be set only when the handler is over,
\* or nobody would close the descriptor.
StopMeansHandlerOver == \A c \in Conns : stop[c] => handler[c] = "ended"

\* A descriptor is open as long as a coroutine may use it.
OpenWhileUsed ==
    \A c \in Conns :
        handler[c] \in Blocked \/ OutputLives(c) => connected[c] /\ fd[c] = "open"

\* A client that has left is noticed by a handler that reads, and through it
\* by the output: the descriptor is closed, whoever comes first.  A handler
\* that waits for a file does not read.
GoneIsClosed ==
    \A c \in Conns :
        client[c] = "gone" ~> (fd[c] = "closed" \/ handler[c] = "file")

\* An output that ends takes its connection with it, although the handler is
\* in a read without a timeout and the client stays.
OutputEndsConnection ==
    \A c \in Conns : output[c] \in {"join", "ended"} ~> fd[c] = "closed"

----------------------------------------------------------------------------
\* What a comment of the repository says, and the code does not do:
\* coroutine.cpp:189, the STCoroutine may be used by pfn after its cycle.
ErrorGoesToCoroutine == \A c \in Conns : errTo[c] # "freed memory"
=============================================================================
