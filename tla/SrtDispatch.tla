---------------------------- MODULE SrtDispatch ----------------------------
(***************************************************************************)
(* The srt transport (transport/st_trans/st_srt, transport/tmss_trans_srt):*)
(* coroutines read, write, accept and connect on non-blocking srt sockets. *)
(* One that would block registers a condition with SrtStDispatch, which    *)
(* keeps the epoll's subscriptions in step with the registered conditions; *)
(* its own coroutine polls the epoll and wakes them.                       *)
(*                                                                         *)
(* An action is the code between two blocking calls.  libsrt is external:  *)
(* its sockets, and what its epoll reports, is any behaviour its interface *)
(* allows.                                                                 *)
(***************************************************************************)
EXTENDS Naturals, FiniteSets

CONSTANTS
    Coros,      \* the coroutines that use the transport
    Socks,      \* the srt sockets
    Listener,   \* the one that SRTServerConn accepts from
    MaxChunks   \* the pieces of SRT_LIVE_DEF_PLSIZE bytes in a write

ASSUME SrtAssumption ==
    /\ Listener \in Socks
    /\ MaxChunks \in Nat \ {0}

VARIABLES
    sock,        \* external: the state of a socket
    ready,       \* external: the events a socket is ready for
    watch,       \* external: the events the epoll is subscribed to
    keys,        \* the keys of SrtStDispatch::conditions
    conditions,  \* its sets: who waits on a socket
    connected,   \* SRTStreamConn::is_connected
    co,          \* what a coroutine does, and where it is
    result       \* what its last operation returned

vars == <<sock, ready, watch, keys, conditions, connected, co, result>>

----------------------------------------------------------------------------
Operations == {"read", "write", "accept", "connect"}

\* ST_SRT_ACCEPT is ST_SRT_IN, ST_SRT_CONN is ST_SRT_OUT.
Event(op) == IF op \in {"read", "accept"} THEN "in" ELSE "out"

\* "ready" and "error" are the dispatcher's, the others st_cond_timedwait's.
Wakes == {"none", "ready", "error", "timeout", "eintr"}

Idle == [at |-> "idle", op |-> "read", fd |-> Listener, left |-> 0, wake |-> "none"]

\* What the callers tell apart: "error" is SRT_ERROR, "code" one of the
\* error codes of the transport, "zero" a count of no bytes; "bogus" is an
\* error code that SRTServerConn::accept takes for a socket.
Results == {"none", "data", "all", "socket", "zero", "code", "error", "bogus"}

TypeOK ==
    /\ sock \in [Socks -> {"none", "opening", "open", "broken", "closed"}]
    /\ ready \in [Socks -> SUBSET {"in", "out"}]
    /\ watch \in [Socks -> SUBSET {"in", "out", "err"}]
    /\ keys \in SUBSET Socks
    /\ conditions \in [Socks -> SUBSET Coros]
    /\ connected \in [Socks -> BOOLEAN]
    /\ co \in [Coros -> [at: {"idle", "try", "wait", "woken"}, op: Operations,
                         fd: Socks, left: 0..MaxChunks, wake: Wakes]]
    /\ result \in [Coros -> Results]

Init ==
    /\ sock = [s \in Socks |-> "none"]
    /\ ready = [s \in Socks |-> {}]
    /\ watch = [s \in Socks |-> {}]
    /\ keys = {}
    /\ conditions = [s \in Socks |-> {}]
    /\ connected = [s \in Socks |-> FALSE]
    /\ co = [c \in Coros |-> Idle]
    /\ result = [c \in Coros |-> "none"]

\* The numbers of sockets not used yet; libsrt does not use one again.  The
\* listener is only ready while there is one left to accept, a bound.
Unused == {s \in Socks \ {Listener} : sock[s] = "none"}

On(c, s) == co[c].at # "idle" /\ co[c].fd = s

Return(c, value) ==
    /\ co' = [co EXCEPT ![c] = Idle]
    /\ result' = [result EXCEPT ![c] = value]

----------------------------------------------------------------------------
\* get_exits_evt: the events that the conditions of a socket wait for.
ExitsEvt(conds, s) == {Event(co[c].op) : c \in conds[s]}

\* A mutant: the mask of a second waiter replaces that of the first.
EvtFor_OwnOnly(s, event) == {event, "err"}

\* The mask st_srt_epoll asks for before it waits.
EvtFor(s, event) == ExitsEvt(conditions, s) \cup {event, "err"}

\* st_srt_epoll up to its wait, for an operation that would block.  A socket
\* without an entry is added to the epoll, one with an entry, which may be
\* empty, is updated there: after a time-out the entry is left behind while the
\* socket has been removed, and whether libsrt then updates, adds or refuses is
\* its own business.
EpollWait(c, job) ==
    \/ /\ watch' = [watch EXCEPT ![job.fd] = EvtFor(job.fd, Event(job.op))]
       /\ keys' = keys \cup {job.fd}
       /\ conditions' = [conditions EXCEPT ![job.fd] = @ \cup {c}]
       /\ co' = [co EXCEPT ![c] = [job EXCEPT !.at = "wait"]]
       /\ UNCHANGED result
    \/ /\ job.fd \in keys /\ watch[job.fd] = {}
       /\ Return(c, "error")
       /\ UNCHANGED <<watch, keys, conditions>>

\* st_srt_epoll after its wait: what is left subscribed, which is without
\* ST_SRT_ERR; nothing is left of a socket that is removed.
Unsubscribe(s, conds) == ExitsEvt(conds, s)

\* A mutant: the condition of a wait that ended without the dispatcher is left.
Forgotten_IfNotified(c) ==
    IF co[c].wake \in {"ready", "error"}
        THEN [conditions EXCEPT ![co[c].fd] = @ \ {c}]
        ELSE conditions

\* conditions[fd].erase(&cnd): the dispatcher may have done it already.
Forgotten(c) == [conditions EXCEPT ![co[c].fd] = @ \ {c}]

\* A coroutine that has been woken goes on: its operation is tried again, or
\* returns the error.  connect is not tried again.  SRTStreamConn::connect
\* looks for SRT_ERROR only and takes any other result for a connection.
Resume(c) ==
    LET s == co[c].fd
        left == Forgotten(c)
    IN  /\ co[c].at = "woken"
        /\ conditions' = left
        /\ watch' = [watch EXCEPT ![s] = Unsubscribe(s, left)]
        /\ \/ /\ co[c].op = "connect"
              /\ Return(c, IF co[c].wake = "ready" THEN "socket" ELSE "code")
              /\ connected' = [connected EXCEPT ![s] = TRUE]
           \/ /\ co[c].op # "connect" /\ co[c].wake = "ready"
              /\ co' = [co EXCEPT ![c].at = "try", ![c].wake = "none"]
              /\ UNCHANGED <<connected, result>>
           \/ /\ co[c].op # "connect" /\ co[c].wake # "ready"
              /\ Return(c, IF co[c].op = "accept" THEN "bogus" ELSE "zero")
              /\ UNCHANGED connected
        /\ UNCHANGED <<sock, ready, keys>>

----------------------------------------------------------------------------
\* SRTStreamConn::read and write, with their first check.
Begin(c, op, s, chunks) ==
    /\ co[c].at = "idle"
    /\ op = "read" => chunks = 0
    /\ op = "write" => chunks > 0
    /\ IF connected[s]
           THEN /\ co' = [co EXCEPT ![c] = [at |-> "try", op |-> op, fd |-> s,
                                            left |-> chunks, wake |-> "none"]]
                /\ UNCHANGED result
           ELSE Return(c, "code")
    /\ UNCHANGED <<sock, ready, watch, keys, conditions, connected>>

\* SRTServerConn::listen: the server is not run when it fails.
Listen(c) ==
    /\ co[c].at = "idle"
    /\ sock[Listener] = "none"
    /\ \/ sock' = [sock EXCEPT ![Listener] = "open"] /\ Return(c, "socket")
       \/ sock' = [sock EXCEPT ![Listener] = "closed"] /\ Return(c, "code")
    /\ UNCHANGED <<ready, watch, keys, conditions, connected>>

\* SRTServerConn::accept.
BeginAccept(c) ==
    /\ co[c].at = "idle"
    /\ sock[Listener] = "open"
    /\ co' = [co EXCEPT ![c] = [at |-> "try", op |-> "accept", fd |-> Listener,
                                left |-> 0, wake |-> "none"]]
    /\ UNCHANGED <<sock, ready, watch, keys, conditions, connected, result>>

\* SRTStreamConn::connect: srt_connect fails at once, or is under way.
Connect(c, s) ==
    /\ co[c].at = "idle"
    /\ s \in Unused
    /\ "in" \in ready[Listener] => Unused # {s}
    /\ \/ /\ sock' = [sock EXCEPT ![s] = "closed"]
          /\ Return(c, "error")
          /\ UNCHANGED <<watch, keys, conditions>>
       \/ /\ sock' = [sock EXCEPT ![s] = "opening"]
          /\ EpollWait(c, [at |-> "wait", op |-> "connect", fd |-> s,
                           left |-> 0, wake |-> "none"])
    /\ UNCHANGED <<ready, connected>>

\* A mutant: the loop does not look at how much there is to send.
WriteDone_Never(left) == FALSE

\* The piece that is sent is the last one.
WriteDone(left) == left = 1

CanProceed(c) == sock[co[c].fd] = "open" /\ Event(co[c].op) \in ready[co[c].fd]

\* srt_recv, srt_sendmsg and srt_accept succeed, and may use up what made
\* them.  A write goes on with its next piece.
TrySucceeds(c) ==
    LET s == co[c].fd IN
    /\ co[c].at = "try"
    /\ CanProceed(c)
    /\ ready' \in {ready, [ready EXCEPT ![s] = @ \ {Event(co[c].op)}]}
    /\ co[c].op = "accept" /\ "in" \in ready'[s] => Cardinality(Unused) > 1
    /\ \/ /\ co[c].op = "read"
          /\ Return(c, "data")
          /\ UNCHANGED <<sock, connected>>
       \/ /\ co[c].op = "write"
          /\ IF WriteDone(co[c].left)
                THEN Return(c, "all")
                ELSE co' = [co EXCEPT ![c].left = @ - 1] /\ UNCHANGED result
          /\ UNCHANGED <<sock, connected>>
       \/ \E new \in Unused :
            /\ co[c].op = "accept"
            /\ sock' = [sock EXCEPT ![new] = "open"]
            /\ connected' = [connected EXCEPT ![new] = TRUE]
            /\ Return(c, "socket")
    /\ UNCHANGED <<watch, keys, conditions>>

\* They fail for good: the error is SRT_ERROR, and the end of the stream, which
\* is error_srt_socket_already_closed, is a read of no bytes to the caller.
TryFails(c) ==
    /\ co[c].at = "try"
    /\ sock[co[c].fd] # "open"
    /\ \/ Return(c, "error")
       \/ co[c].op = "read" /\ Return(c, "zero")
    /\ UNCHANGED <<sock, ready, watch, keys, conditions, connected>>

\* They would block.
TryAgain(c) ==
    /\ co[c].at = "try"
    /\ sock[co[c].fd] = "open" /\ ~CanProceed(c)
    /\ EpollWait(c, co[c])
    /\ UNCHANGED <<sock, ready, connected>>

----------------------------------------------------------------------------
\* st_cond_timedwait ends by itself, or by STCoroutine::interrupt from a close.
WaitEnds(c, wake) ==
    /\ co[c].at = "wait"
    /\ co' = [co EXCEPT ![c].at = "woken", ![c].wake = wake]
    /\ UNCHANGED <<sock, ready, watch, keys, conditions, connected, result>>

\* What epoll_uwait can report of a socket.
Reported(s) == watch[s] \cap (ready[s] \cup IF sock[s] = "broken" THEN {"err"} ELSE {})

\* A mutant: the event is compared, not masked.
Notified_Exact(s) ==
    {c \in conditions[s] : "err" \in Reported(s) \/ {Event(co[c].op)} = Reported(s)}

\* The conditions that cycle notifies of an event: an error is for all.
Notified(s) ==
    {c \in conditions[s] : "err" \in Reported(s) \/ Event(co[c].op) \in Reported(s)}

\* One round of SrtStDispatch::cycle for the sockets of a report.  A socket
\* without an entry is one whose waiters have been notified and not resumed
\* yet; it is removed with epoll_remove_ssock, which is for system sockets.  A
\* coroutine whose wait has ended already, but which has not run, keeps what
\* st_cond_timedwait returns to it, unless the report is an error.
Poll(report) ==
    LET notified == UNION {Notified(s) : s \in report}
        WakeFor(c) == IF "err" \in Reported(co[c].fd) THEN "error"
                      ELSE IF co[c].wake = "none" THEN "ready" ELSE co[c].wake
    IN  /\ \A s \in report : Reported(s) # {}
        /\ co' = [c \in Coros |-> IF c \in notified
                                      THEN [co[c] EXCEPT !.at = "woken", !.wake = WakeFor(c)]
                                      ELSE co[c]]
        /\ conditions' = [s \in Socks |-> conditions[s] \ notified]
        /\ keys' = keys \ {s \in report : conditions[s] \subseteq notified}
        /\ \E gone \in SUBSET (report \ keys) :
              watch' = [s \in Socks |-> IF s \in gone THEN {} ELSE watch[s]]
        /\ UNCHANGED <<sock, ready, connected, result>>

----------------------------------------------------------------------------
\* SRTStreamConn::close, after the coroutine that uses the connection has been
\* stopped and joined.  libsrt takes a closed socket out of its epolls; the
\* dispatcher's entry is not touched.  A close that fails changes nothing.
Close(s) ==
    /\ connected[s]
    /\ \A c \in Coros : ~On(c, s)
    /\ sock' = [sock EXCEPT ![s] = "closed"]
    /\ watch' = [watch EXCEPT ![s] = {}]
    /\ connected' = [connected EXCEPT ![s] = FALSE]
    /\ UNCHANGED <<ready, keys, conditions, co, result>>

\* The network: a handshake ends, data or room for data arrives, or the
\* connection breaks, which a socket may show as ready for everything.
Arrive(s, event) ==
    /\ \/ sock[s] = "open" /\ UNCHANGED sock
       \/ sock[s] = "opening" /\ event = "out" /\ sock' = [sock EXCEPT ![s] = "open"]
    /\ event \notin ready[s]
    /\ s = Listener => event = "in" /\ Unused # {}
    /\ ready' = [ready EXCEPT ![s] = @ \cup {event}]
    /\ UNCHANGED <<watch, keys, conditions, connected, co, result>>

Break(s) ==
    /\ s # Listener
    /\ sock[s] \in {"opening", "open"}
    /\ sock' = [sock EXCEPT ![s] = "broken"]
    /\ ready' \in {ready, [ready EXCEPT ![s] = {"in", "out"}]}
    /\ UNCHANGED <<watch, keys, conditions, connected, co, result>>

Next ==
    \/ \E c \in Coros :
        \/ \E op \in {"read", "write"}, s \in Socks \ {Listener}, n \in 0..MaxChunks :
              Begin(c, op, s, n)
        \/ Listen(c) \/ BeginAccept(c)
        \/ \E s \in Unused : Connect(c, s)
        \/ TrySucceeds(c) \/ TryFails(c) \/ TryAgain(c) \/ Resume(c)
        \/ \E wake \in {"timeout", "eintr"} : WaitEnds(c, wake)
    \/ \E report \in SUBSET Socks \ {{}} : Poll(report)
    \/ \E s \in Socks :
        \/ Close(s) \/ Break(s)
        \/ \E event \in {"in", "out"} : Arrive(s, event)

\* The dispatcher's coroutine sleeps 10 ms between rounds and is never ended,
\* and a socket that stays ready stays in epoll_uwait's reports.
Fairness ==
    \A s \in Socks : WF_vars(\E report \in SUBSET Socks : s \in report /\ Poll(report))

Spec == Init /\ [][Next]_vars /\ Fairness

----------------------------------------------------------------------------
Waiting(s) == {c \in Coros : co[c].at = "wait" /\ co[c].fd = s}
Woken(s)   == {c \in Coros : co[c].at = "woken" /\ co[c].fd = s}

\* The conditions live on the stacks of the coroutines that wait in
\* st_srt_epoll.  The dispatcher finds every one of them, and none of a
\* coroutine that has returned from there.
ConditionsAreTheWaiters ==
    \A s \in Socks : /\ Waiting(s) \subseteq conditions[s]
                      /\ conditions[s] \subseteq Waiting(s) \cup Woken(s)

\* Whatever the other coroutines on a socket do, come, leave, time out or be
\* notified, the epoll stays subscribed to the event a coroutine waits for.
WaiterIsWatched ==
    \A c \in Coros : co[c].at = "wait" => /\ Event(co[c].op) \in watch[co[c].fd]
                                          /\ co[c].fd \in keys

\* A coroutine that waits for an event that has come, and that nobody else
\* uses up, is woken.
ReadyIsServed ==
    \A c \in Coros :
        (co[c].at = "wait" /\ Event(co[c].op) \in ready[co[c].fd])
            ~> (co[c].at # "wait" \/ Event(co[c].op) \notin ready[co[c].fd])
=============================================================================
