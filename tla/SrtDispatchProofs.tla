-------------------------- MODULE SrtDispatchProofs --------------------------
(***************************************************************************)
(* For any number of coroutines and sockets: the dispatcher knows every    *)
(* coroutine that waits, none that has left, and stays subscribed to what  *)
(* each of them waits for.                                                 *)
(***************************************************************************)
EXTENDS SrtDispatch, TLAPS

\* A write that is under way has something left to send.
WritesLeft ==
    \A c \in Coros : co[c].at # "idle" /\ co[c].op = "write" => co[c].left > 0

IInv == TypeOK /\ WritesLeft /\ ConditionsAreTheWaiters /\ WaiterIsWatched

Jobs == [at: {"idle", "try", "wait", "woken"}, op: Operations,
         fd: Socks, left: 0..MaxChunks, wake: Wakes]

\* What ConditionsAreTheWaiters and WaiterIsWatched say of a coroutine.
LEMMA OneWaiter ==
    ASSUME IInv, NEW c \in Coros
    PROVE  /\ co[c] \in Jobs
           /\ co[c].fd \in Socks
           /\ Event(co[c].op) \in {"in", "out"}
           /\ co[c].at = "wait" => /\ c \in conditions[co[c].fd]
                                   /\ Event(co[c].op) \in watch[co[c].fd]
                                   /\ co[c].fd \in keys
           /\ \A s \in Socks : c \in conditions[s] => /\ co[c].at \in {"wait", "woken"}
                                                      /\ co[c].fd = s
<1>1. co[c] \in Jobs
  BY DEF IInv, TypeOK, Jobs
<1>2. Event(co[c].op) \in {"in", "out"}
  BY DEF Event
<1>3. QED
  BY <1>1, <1>2 DEF IInv, ConditionsAreTheWaiters, WaiterIsWatched, Waiting, Woken, Jobs

\* The other way round: from what holds of each coroutine to the invariants of
\* the next state.
LEMMA AllWaiters ==
    ASSUME TypeOK',
           \A c \in Coros :
              /\ co'[c].at # "idle" /\ co'[c].op = "write" => co'[c].left > 0
              /\ co'[c].at = "wait" => /\ c \in conditions'[co'[c].fd]
                                       /\ Event(co'[c].op) \in watch'[co'[c].fd]
                                       /\ co'[c].fd \in keys'
              /\ \A s \in Socks : c \in conditions'[s] => /\ co'[c].at \in {"wait", "woken"}
                                                          /\ co'[c].fd = s
    PROVE  IInv'
<1>1. WritesLeft' BY DEF WritesLeft
<1>2. WaiterIsWatched' BY DEF WaiterIsWatched, Event
<1>3. ConditionsAreTheWaiters'
  <2> SUFFICES ASSUME NEW s \in Socks
               PROVE  /\ Waiting(s)' \subseteq conditions'[s]
                      /\ conditions'[s] \subseteq Waiting(s)' \cup Woken(s)'
    BY DEF ConditionsAreTheWaiters
  <2>1. conditions'[s] \subseteq Coros BY DEF TypeOK
  <2>2. QED BY <2>1 DEF Waiting, Woken
<1>4. QED BY <1>1, <1>2, <1>3 DEF IInv

LEMMA InitIsIInv == Init => IInv
<1> SUFFICES ASSUME Init PROVE IInv OBVIOUS
<1>1. Listener \in Socks /\ 0 \in 0..MaxChunks BY SrtAssumption
<1>2. TypeOK BY <1>1 DEF Init, TypeOK, Idle, Operations, Wakes, Results
<1>3. WritesLeft BY DEF Init, WritesLeft, Idle
<1>4. ConditionsAreTheWaiters BY DEF Init, ConditionsAreTheWaiters, Waiting, Woken, Idle
<1>5. WaiterIsWatched BY DEF Init, WaiterIsWatched, Idle
<1>6. QED BY <1>2, <1>3, <1>4, <1>5 DEF IInv

\* A step that changes nothing but one coroutine, which neither waits nor is
\* woken before or after it.
LEMMA Aside ==
    ASSUME IInv, TypeOK', NEW c \in Coros,
           co[c].at \notin {"wait", "woken"}, co'[c].at \notin {"wait", "woken"},
           co'[c].at # "idle" /\ co'[c].op = "write" => co'[c].left > 0,
           \A d \in Coros \ {c} : co'[d] = co[d],
           UNCHANGED <<watch, keys, conditions>>
    PROVE  IInv'
<1> SUFFICES ASSUME NEW d \in Coros
             PROVE  /\ co'[d].at # "idle" /\ co'[d].op = "write" => co'[d].left > 0
                    /\ co'[d].at = "wait" => /\ d \in conditions'[co'[d].fd]
                                             /\ Event(co'[d].op) \in watch'[co'[d].fd]
                                             /\ co'[d].fd \in keys'
                    /\ \A s \in Socks : d \in conditions'[s] =>
                          co'[d].at \in {"wait", "woken"} /\ co'[d].fd = s
  BY AllWaiters
<1>1. CASE d = c BY <1>1, OneWaiter
<1>2. CASE d # c BY <1>2, OneWaiter DEF IInv, WritesLeft
<1>3. QED BY <1>1, <1>2

\* An operation that ends.
LEMMA Returned ==
    ASSUME IInv, NEW c \in Coros, NEW value \in Results, Return(c, value)
    PROVE  /\ co' \in [Coros -> Jobs]
           /\ result' \in [Coros -> Results]
           /\ co'[c] = Idle /\ Idle.at = "idle"
           /\ \A d \in Coros \ {c} : co'[d] = co[d]
<1>1. Listener \in Socks /\ 0 \in 0..MaxChunks BY SrtAssumption
<1>2. Idle \in Jobs /\ Idle.at = "idle"
  BY <1>1 DEF Idle, Jobs, Operations, Wakes
<1>3. QED BY <1>2 DEF Return, IInv, TypeOK, Jobs

----------------------------------------------------------------------------
\* The coroutines' own steps that stay clear of the dispatcher.
LEMMA BeginKeepsIInv ==
    ASSUME IInv, NEW c \in Coros, NEW op \in {"read", "write"}, NEW s \in Socks,
           NEW n \in 0..MaxChunks, Begin(c, op, s, n)
    PROVE  IInv'
<1>1. Listener \in Socks /\ 0 \in 0..MaxChunks BY SrtAssumption
<1>2. /\ co'[c].at \notin {"wait", "woken"}
      /\ co'[c].at # "idle" /\ co'[c].op = "write" => co'[c].left > 0
      /\ \A d \in Coros \ {c} : co'[d] = co[d]
  BY DEF Begin, Return, Idle, IInv, TypeOK
<1>3. TypeOK'
  BY <1>1 DEF Begin, Return, Idle, IInv, TypeOK, Operations, Wakes, Results
<1>4. QED BY <1>2, <1>3, Aside DEF Begin

LEMMA ListenKeepsIInv ==
    ASSUME IInv, NEW c \in Coros, Listen(c) \/ BeginAccept(c)
    PROVE  IInv'
<1>1. Listener \in Socks /\ 0 \in 0..MaxChunks BY SrtAssumption
<1>2. CASE Listen(c)
  <2>1. /\ co' \in [Coros -> Jobs] /\ result' \in [Coros -> Results]
        /\ co'[c].at = "idle" /\ \A d \in Coros \ {c} : co'[d] = co[d]
    BY <1>2, Returned DEF Listen, Results
  <2>2. sock' \in [Socks -> {"none", "opening", "open", "broken", "closed"}]
    BY <1>1, <1>2 DEF Listen, IInv, TypeOK
  <2>3. TypeOK'
    BY <1>2, <2>1, <2>2 DEF Listen, IInv, TypeOK, Jobs
  <2>4. QED BY <1>2, <2>1, <2>3, Aside DEF Listen
<1>3. CASE BeginAccept(c)
  <2>1. /\ co' \in [Coros -> Jobs]
        /\ co'[c].at = "try" /\ co'[c].op = "accept"
        /\ \A d \in Coros \ {c} : co'[d] = co[d]
    BY <1>1, <1>3 DEF BeginAccept, IInv, TypeOK, Jobs, Operations, Wakes
  <2>2. TypeOK'
    BY <1>3, <2>1 DEF BeginAccept, IInv, TypeOK, Jobs
  <2>3. QED BY <1>3, <2>1, <2>2, Aside DEF BeginAccept
<1>4. QED BY <1>2, <1>3

LEMMA TryKeepsIInv ==
    ASSUME IInv, NEW c \in Coros, TrySucceeds(c) \/ TryFails(c)
    PROVE  IInv'
<1>1. Listener \in Socks /\ 0 \in 0..MaxChunks BY SrtAssumption
<1>2. co[c] \in Jobs /\ co[c].left \in Nat /\ co[c].at = "try"
      /\ (co[c].op = "write" => co[c].left > 0)
  BY OneWaiter, SrtAssumption DEF IInv, WritesLeft, Jobs, TrySucceeds, TryFails
<1>3. CASE \E value \in Results : Return(c, value)
  <2>1. /\ co' \in [Coros -> Jobs] /\ result' \in [Coros -> Results]
        /\ co'[c].at = "idle" /\ \A d \in Coros \ {c} : co'[d] = co[d]
    BY <1>3, Returned
  <2>2. ready' \in [Socks -> SUBSET {"in", "out"}] /\ UNCHANGED <<watch, keys, conditions>>
    BY DEF TrySucceeds, TryFails, IInv, TypeOK
  <2>3. sock' \in [Socks -> {"none", "opening", "open", "broken", "closed"}]
    BY DEF TrySucceeds, TryFails, IInv, TypeOK
  <2>4. connected' \in [Socks -> BOOLEAN]
    BY DEF TrySucceeds, TryFails, IInv, TypeOK
  <2>5. TypeOK'
    BY <2>1, <2>2, <2>3, <2>4 DEF IInv, TypeOK, Jobs
  <2>6. QED BY <1>2, <2>1, <2>2, <2>5, Aside
<1>4. CASE /\ TrySucceeds(c) /\ co[c].op = "write" /\ ~WriteDone(co[c].left)
           /\ co' = [co EXCEPT ![c].left = @ - 1] /\ UNCHANGED <<sock, connected, result>>
  <2>1. co[c].left - 1 \in 0..MaxChunks /\ co[c].left - 1 > 0
    BY <1>2, <1>4, SrtAssumption DEF Jobs, WriteDone
  <2>2. /\ co'[c].at = "try" /\ co'[c].left > 0
        /\ \A d \in Coros \ {c} : co'[d] = co[d]
        /\ co' \in [Coros -> Jobs]
    BY <1>2, <1>4, <2>1 DEF IInv, TypeOK, Jobs
  <2>3. ready' \in [Socks -> SUBSET {"in", "out"}] /\ UNCHANGED <<watch, keys, conditions>>
    BY <1>4 DEF TrySucceeds, IInv, TypeOK
  <2>4. TypeOK'
    BY <1>4, <2>2, <2>3 DEF IInv, TypeOK, Jobs
  <2>5. QED BY <1>2, <2>2, <2>3, <2>4, Aside
<1>5. QED BY <1>3, <1>4 DEF TrySucceeds, TryFails, Results

----------------------------------------------------------------------------
\* An operation that would block: whoever waits on the socket already stays
\* watched, whatever it waits for.
LEMMA EpollWaitKeepsIInv ==
    ASSUME IInv, NEW c \in Coros, NEW job \in Jobs, EpollWait(c, job),
           co[c].at \notin {"wait", "woken"},
           job.op = "write" => job.left > 0,
           sock' \in [Socks -> {"none", "opening", "open", "broken", "closed"}],
           UNCHANGED <<ready, connected>>
    PROVE  IInv'
<1>1. Listener \in Socks /\ 0 \in 0..MaxChunks BY SrtAssumption
<1>2. CASE /\ Return(c, "error") /\ UNCHANGED <<watch, keys, conditions>>
  <2>1. /\ co'[c].at = "idle"
        /\ \A d \in Coros \ {c} : co'[d] = co[d]
    BY <1>2 DEF Return, Idle, IInv, TypeOK
  <2>2. TypeOK'
    BY <1>1, <1>2 DEF Return, Idle, IInv, TypeOK, Operations, Wakes, Results
  <2>3. QED BY <1>2, <2>1, <2>2, Aside
<1>3. CASE /\ watch' = [watch EXCEPT ![job.fd] = EvtFor(job.fd, Event(job.op))]
           /\ keys' = keys \cup {job.fd}
           /\ conditions' = [conditions EXCEPT ![job.fd] = @ \cup {c}]
           /\ co' = [co EXCEPT ![c] = [job EXCEPT !.at = "wait"]]
           /\ UNCHANGED result
  <2> DEFINE s == job.fd
  <2>1. s \in Socks /\ [job EXCEPT !.at = "wait"] \in Jobs
    BY DEF Jobs
  <2>2. EvtFor(s, Event(job.op)) \subseteq {"in", "out", "err"}
    BY DEF EvtFor, ExitsEvt, Event
  <2>3. TypeOK'
    BY <1>3, <2>1, <2>2 DEF IInv, TypeOK, Jobs
  <2>4. co'[c] = [job EXCEPT !.at = "wait"] /\ \A d \in Coros \ {c} : co'[d] = co[d]
    BY <1>3 DEF IInv, TypeOK
  <2>5. /\ conditions'[s] = conditions[s] \cup {c}
        /\ watch'[s] = ExitsEvt(conditions, s) \cup {Event(job.op), "err"}
        /\ \A t \in Socks \ {s} : conditions'[t] = conditions[t] /\ watch'[t] = watch[t]
    BY <1>3, <2>1 DEF IInv, TypeOK, EvtFor
  <2> SUFFICES ASSUME NEW d \in Coros
               PROVE  /\ co'[d].at # "idle" /\ co'[d].op = "write" => co'[d].left > 0
                      /\ co'[d].at = "wait" => /\ d \in conditions'[co'[d].fd]
                                               /\ Event(co'[d].op) \in watch'[co'[d].fd]
                                               /\ co'[d].fd \in keys'
                      /\ \A t \in Socks : d \in conditions'[t] =>
                            co'[d].at \in {"wait", "woken"} /\ co'[d].fd = t
    BY <2>3, AllWaiters
  <2>6. CASE d = c
    <3>1. co'[d].at = "wait" /\ co'[d].op = job.op /\ co'[d].fd = s /\ co'[d].left = job.left
      BY <2>4, <2>6 DEF Jobs
    <3>2. \A t \in Socks : d \notin conditions[t]
      BY <2>6, OneWaiter
    <3>3. QED BY <1>3, <2>1, <2>5, <2>6, <3>1, <3>2
  <2>7. CASE d # c
    <3>1. co'[d] = co[d] BY <2>4, <2>7
    <3>2. co[d].at = "wait" /\ co[d].fd = s => Event(co[d].op) \in watch'[s]
      BY <2>5, OneWaiter DEF ExitsEvt
    <3>3. QED BY <1>3, <2>1, <2>5, <2>7, <3>1, <3>2, OneWaiter DEF IInv, WritesLeft
  <2>8. QED BY <2>6, <2>7
<1>4. QED BY <1>2, <1>3 DEF EpollWait

LEMMA BlocksKeepsIInv ==
    ASSUME IInv, NEW c \in Coros, TryAgain(c) \/ \E s \in Unused : Connect(c, s)
    PROVE  IInv'
<1>1. CASE TryAgain(c)
  <2>1. co[c] \in Jobs /\ co[c].at = "try" /\ (co[c].op = "write" => co[c].left > 0)
    BY <1>1, OneWaiter DEF TryAgain, IInv, WritesLeft
  <2>2. sock' \in [Socks -> {"none", "opening", "open", "broken", "closed"}]
    BY <1>1 DEF TryAgain, IInv, TypeOK
  <2>3. QED BY <1>1, <2>1, <2>2, EpollWaitKeepsIInv DEF TryAgain
<1>2. ASSUME NEW s \in Unused, Connect(c, s) PROVE IInv'
  <2> DEFINE job == [at |-> "wait", op |-> "connect", fd |-> s, left |-> 0, wake |-> "none"]
  <2>1. s \in Socks /\ 0 \in 0..MaxChunks
    BY SrtAssumption DEF Unused
  <2>2. job \in Jobs /\ job.op # "write"
    BY <2>1 DEF Jobs, Operations, Wakes
  <2>3. sock' \in [Socks -> {"none", "opening", "open", "broken", "closed"}]
    BY <1>2, <2>1 DEF Connect, IInv, TypeOK
  <2>4. CASE EpollWait(c, job)
    <3> HIDE DEF job
    <3>1. co[c].at = "idle" /\ UNCHANGED <<ready, connected>>
      BY <1>2 DEF Connect
    <3>2. QED BY <2>2, <2>3, <2>4, <3>1, EpollWaitKeepsIInv
  <2>5. CASE Return(c, "error") /\ UNCHANGED <<watch, keys, conditions>>
    <3>1. /\ co' \in [Coros -> Jobs] /\ result' \in [Coros -> Results]
          /\ co'[c].at = "idle" /\ \A d \in Coros \ {c} : co'[d] = co[d]
      BY <2>5, Returned DEF Results
    <3>2. TypeOK'
      BY <1>2, <2>3, <2>5, <3>1 DEF Connect, IInv, TypeOK, Jobs
    <3>3. QED BY <1>2, <2>5, <3>1, <3>2, Aside DEF Connect
  <2>6. QED BY <1>2, <2>4, <2>5 DEF Connect
<1>3. QED BY <1>1, <1>2

\* A coroutine that was woken takes its condition with it, and the mask that it
\* leaves behind is that of the others.
LEMMA ResumeKeepsIInv ==
    ASSUME IInv, NEW c \in Coros, Resume(c)
    PROVE  IInv'
<1> DEFINE s == co[c].fd
<1>1. /\ s \in Socks /\ co[c] \in Jobs /\ co[c].at = "woken"
      /\ (co[c].op = "write" => co[c].left > 0)
  BY OneWaiter DEF Resume, IInv, WritesLeft
<1>2. /\ conditions' = [conditions EXCEPT ![s] = @ \ {c}]
      /\ watch' = [watch EXCEPT ![s] = ExitsEvt(conditions', s)]
      /\ UNCHANGED <<sock, ready, keys>>
  BY DEF Resume, Forgotten, Unsubscribe
<1>3. ExitsEvt(conditions', s) \subseteq {"in", "out", "err"}
  BY DEF ExitsEvt, Event
<1>4. /\ conditions' \in [Socks -> SUBSET Coros]
      /\ watch' \in [Socks -> SUBSET {"in", "out", "err"}]
  BY <1>1, <1>2, <1>3 DEF IInv, TypeOK
<1>5. /\ co' \in [Coros -> Jobs] /\ result' \in [Coros -> Results]
      /\ connected' \in [Socks -> BOOLEAN]
      /\ co'[c].at \in {"idle", "try"}
      /\ (co'[c].at # "idle" /\ co'[c].op = "write" => co'[c].left > 0)
      /\ \A d \in Coros \ {c} : co'[d] = co[d]
  <2>1. CASE /\ \E value \in Results : Return(c, value)
             /\ connected' = [connected EXCEPT ![s] = TRUE] \/ UNCHANGED connected
    BY <1>1, <2>1, Returned DEF IInv, TypeOK
  <2>2. CASE /\ co' = [co EXCEPT ![c].at = "try", ![c].wake = "none"]
             /\ UNCHANGED <<connected, result>>
    BY <1>1, <2>2 DEF IInv, TypeOK, Jobs, Wakes
  <2>3. QED BY <2>1, <2>2 DEF Resume, Results
<1>6. TypeOK'
  BY <1>2, <1>4, <1>5 DEF IInv, TypeOK, Jobs
<1> HIDE DEF s
<1> SUFFICES ASSUME NEW d \in Coros
             PROVE  /\ co'[d].at # "idle" /\ co'[d].op = "write" => co'[d].left > 0
                    /\ co'[d].at = "wait" => /\ d \in conditions'[co'[d].fd]
                                             /\ Event(co'[d].op) \in watch'[co'[d].fd]
                                             /\ co'[d].fd \in keys'
                    /\ \A t \in Socks : d \in conditions'[t] =>
                          co'[d].at \in {"wait", "woken"} /\ co'[d].fd = t
  BY <1>6, AllWaiters
<1>7. CASE d = c
  <2>1. \A t \in Socks : d \notin conditions'[t]
    BY <1>1, <1>2, <1>7, OneWaiter DEF IInv, TypeOK, s
  <2>2. QED BY <1>5, <1>7, <2>1
<1>8. CASE d # c
  <2>1. co'[d] = co[d] /\ co[d].fd \in Socks
    BY <1>5, <1>8, OneWaiter
  <2>2. \A t \in Socks : d \in conditions'[t] <=> d \in conditions[t]
    BY <1>1, <1>2, <1>8 DEF IInv, TypeOK
  <2>3. ASSUME co[d].at = "wait" PROVE Event(co[d].op) \in watch'[co[d].fd]
    <3>1. CASE co[d].fd = s
      <4>1. d \in conditions'[s]
        BY <2>2, <2>3, <3>1, OneWaiter
      <4>2. watch'[s] = ExitsEvt(conditions', s)
        BY <1>1, <1>2 DEF IInv, TypeOK
      <4>3. ExitsEvt(conditions', s) = {Event(co[e].op) : e \in conditions'[s]}
        BY DEF ExitsEvt
      <4>4. QED BY <3>1, <4>1, <4>2, <4>3
    <3>2. CASE co[d].fd # s
      BY <1>1, <1>2, <2>1, <2>3, <3>2, OneWaiter DEF IInv, TypeOK
    <3>3. QED BY <3>1, <3>2
  <2>4. QED BY <1>2, <2>1, <2>2, <2>3, OneWaiter DEF IInv, WritesLeft
<1>9. QED BY <1>7, <1>8

\* A wait that ends by itself leaves the condition to st_srt_epoll.
LEMMA WaitEndsKeepsIInv ==
    ASSUME IInv, NEW c \in Coros, NEW wake \in {"timeout", "eintr"}, WaitEnds(c, wake)
    PROVE  IInv'
<1>1. /\ co[c] \in Jobs /\ co[c].at = "wait"
      /\ co' = [co EXCEPT ![c] = [co[c] EXCEPT !.at = "woken", !.wake = wake]]
  BY OneWaiter DEF WaitEnds, IInv, TypeOK, Jobs
<1>2. co' \in [Coros -> Jobs]
  BY <1>1 DEF IInv, TypeOK, Jobs, Wakes
<1>3. TypeOK'
  BY <1>2 DEF WaitEnds, IInv, TypeOK, Jobs
<1> SUFFICES ASSUME NEW d \in Coros
             PROVE  /\ co'[d].at # "idle" /\ co'[d].op = "write" => co'[d].left > 0
                    /\ co'[d].at = "wait" => /\ d \in conditions'[co'[d].fd]
                                             /\ Event(co'[d].op) \in watch'[co'[d].fd]
                                             /\ co'[d].fd \in keys'
                    /\ \A t \in Socks : d \in conditions'[t] =>
                          co'[d].at \in {"wait", "woken"} /\ co'[d].fd = t
  BY <1>3, AllWaiters
<1>4. UNCHANGED <<watch, keys, conditions>>
  BY DEF WaitEnds
<1>5. CASE d = c
  <2>1. co'[d].at = "woken" /\ co'[d].op = co[d].op /\ co'[d].fd = co[d].fd
        /\ co'[d].left = co[d].left
    BY <1>1, <1>5 DEF IInv, TypeOK, Jobs
  <2>2. QED BY <1>1, <1>4, <1>5, <2>1, OneWaiter DEF IInv, WritesLeft
<1>6. CASE d # c
  <2>1. co'[d] = co[d]
    BY <1>1, <1>6 DEF IInv, TypeOK
  <2>2. QED BY <1>4, <2>1, OneWaiter DEF IInv, WritesLeft
<1>7. QED BY <1>5, <1>6

\* A round of the dispatcher: whoever it does not notify keeps its entry, and
\* a socket with an entry keeps its subscription.
LEMMA PollKeepsIInv ==
    ASSUME IInv, NEW report \in SUBSET Socks, Poll(report)
    PROVE  IInv'
<1> DEFINE notified == UNION {Notified(s) : s \in report}
           WakeFor(c) == IF "err" \in Reported(co[c].fd) THEN "error"
                         ELSE IF co[c].wake = "none" THEN "ready" ELSE co[c].wake
<1>1. PICK gone \in SUBSET (report \ keys) :
         watch' = [s \in Socks |-> IF s \in gone THEN {} ELSE watch[s]]
  BY DEF Poll
<1>2. /\ co' = [c \in Coros |-> IF c \in notified
                                    THEN [co[c] EXCEPT !.at = "woken", !.wake = WakeFor(c)]
                                    ELSE co[c]]
      /\ conditions' = [s \in Socks |-> conditions[s] \ notified]
      /\ keys' = keys \ {s \in report : conditions[s] \subseteq notified}
      /\ UNCHANGED <<sock, ready, connected, result>>
  BY DEF Poll
<1>3. \A c \in Coros : co[c] \in Jobs /\ WakeFor(c) \in Wakes
  BY OneWaiter DEF Jobs, Wakes
<1>4. \A c \in notified : \E t \in Socks : c \in conditions[t]
  BY DEF Notified
<1> HIDE DEF notified, WakeFor
<1>5. co' \in [Coros -> Jobs]
  BY <1>2, <1>3 DEF Jobs
<1>6. /\ watch' \in [Socks -> SUBSET {"in", "out", "err"}]
      /\ conditions' \in [Socks -> SUBSET Coros]
      /\ keys' \in SUBSET Socks
  BY <1>1, <1>2 DEF IInv, TypeOK
<1>7. TypeOK'
  BY <1>2, <1>5, <1>6 DEF IInv, TypeOK, Jobs
<1> SUFFICES ASSUME NEW d \in Coros
             PROVE  /\ co'[d].at # "idle" /\ co'[d].op = "write" => co'[d].left > 0
                    /\ co'[d].at = "wait" => /\ d \in conditions'[co'[d].fd]
                                             /\ Event(co'[d].op) \in watch'[co'[d].fd]
                                             /\ co'[d].fd \in keys'
                    /\ \A t \in Socks : d \in conditions'[t] =>
                          co'[d].at \in {"wait", "woken"} /\ co'[d].fd = t
  BY <1>7, AllWaiters
<1>8. CASE d \in notified
  <2>1. co'[d].at = "woken" /\ co'[d].op = co[d].op /\ co'[d].fd = co[d].fd
        /\ co'[d].left = co[d].left
    BY <1>2, <1>3, <1>8 DEF Jobs
  <2>2. co[d].at \in {"wait", "woken"}
    BY <1>4, <1>8, OneWaiter
  <2>3. \A t \in Socks : d \notin conditions'[t]
    BY <1>2, <1>8
  <2>4. QED BY <2>1, <2>2, <2>3 DEF IInv, WritesLeft
<1>9. CASE d \notin notified
  <2>1. co'[d] = co[d] /\ \A t \in Socks : d \in conditions'[t] <=> d \in conditions[t]
    BY <1>2, <1>9
  <2>2. co[d].at = "wait" => co[d].fd \in keys' /\ watch'[co[d].fd] = watch[co[d].fd]
    BY <1>1, <1>2, <1>9, OneWaiter
  <2>3. QED BY <2>1, <2>2, OneWaiter DEF IInv, WritesLeft
<1>10. QED BY <1>8, <1>9

\* What the network does, and a close, which comes when nobody uses the socket.
LEMMA NetworkKeepsIInv ==
    ASSUME IInv, NEW s \in Socks,
           Close(s) \/ Break(s) \/ \E event \in {"in", "out"} : Arrive(s, event)
    PROVE  IInv'
<1>1. UNCHANGED <<co, keys, conditions, result>>
  BY DEF Close, Break, Arrive
<1>2. /\ watch' \in [Socks -> SUBSET {"in", "out", "err"}]
      /\ connected' \in [Socks -> BOOLEAN]
  BY DEF Close, Break, Arrive, IInv, TypeOK
<1>3. /\ ready' \in [Socks -> SUBSET {"in", "out"}]
      /\ sock' \in [Socks -> {"none", "opening", "open", "broken", "closed"}]
  <2>1. CASE Close(s) BY <2>1 DEF Close, IInv, TypeOK
  <2>2. CASE Break(s) BY <2>2 DEF Break, IInv, TypeOK
  <2>3. ASSUME NEW event \in {"in", "out"}, Arrive(s, event)
        PROVE  /\ ready' \in [Socks -> SUBSET {"in", "out"}]
               /\ sock' \in [Socks -> {"none", "opening", "open", "broken", "closed"}]
    BY <2>3 DEF Arrive, IInv, TypeOK
  <2>4. QED BY <2>1, <2>2, <2>3
<1>4. TypeOK'
  BY <1>1, <1>2, <1>3 DEF IInv, TypeOK
<1>5. \A c \in Coros : co[c].at = "wait" => watch'[co[c].fd] = watch[co[c].fd]
  BY OneWaiter DEF Close, Break, Arrive, On, IInv, TypeOK
<1> SUFFICES ASSUME NEW d \in Coros
             PROVE  /\ co'[d].at # "idle" /\ co'[d].op = "write" => co'[d].left > 0
                    /\ co'[d].at = "wait" => /\ d \in conditions'[co'[d].fd]
                                             /\ Event(co'[d].op) \in watch'[co'[d].fd]
                                             /\ co'[d].fd \in keys'
                    /\ \A t \in Socks : d \in conditions'[t] =>
                          co'[d].at \in {"wait", "woken"} /\ co'[d].fd = t
  BY <1>4, AllWaiters
<1>6. QED BY <1>1, <1>5, OneWaiter DEF IInv, WritesLeft

----------------------------------------------------------------------------
LEMMA NextKeepsIInv == IInv /\ [Next]_vars => IInv'
<1> SUFFICES ASSUME IInv, [Next]_vars PROVE IInv' OBVIOUS
<1>1. ASSUME NEW c \in Coros, NEW op \in {"read", "write"}, NEW s \in Socks \ {Listener},
             NEW n \in 0..MaxChunks, Begin(c, op, s, n)
      PROVE  IInv'
  BY <1>1, BeginKeepsIInv
<1>2. ASSUME NEW c \in Coros, Listen(c) \/ BeginAccept(c) PROVE IInv'
  BY <1>2, ListenKeepsIInv
<1>3. ASSUME NEW c \in Coros, TrySucceeds(c) \/ TryFails(c) PROVE IInv'
  BY <1>3, TryKeepsIInv
<1>4. ASSUME NEW c \in Coros, TryAgain(c) \/ \E s \in Unused : Connect(c, s) PROVE IInv'
  BY <1>4, BlocksKeepsIInv
<1>5. ASSUME NEW c \in Coros, Resume(c) PROVE IInv'
  BY <1>5, ResumeKeepsIInv
<1>6. ASSUME NEW c \in Coros, NEW wake \in {"timeout", "eintr"}, WaitEnds(c, wake)
      PROVE  IInv'
  BY <1>6, WaitEndsKeepsIInv
<1>7. ASSUME NEW report \in SUBSET Socks, Poll(report) PROVE IInv'
  BY <1>7, PollKeepsIInv
<1>8. ASSUME NEW s \in Socks,
             Close(s) \/ Break(s) \/ \E event \in {"in", "out"} : Arrive(s, event)
      PROVE  IInv'
  BY <1>8, NetworkKeepsIInv
<1>9. CASE UNCHANGED vars
  BY <1>9 DEF vars, IInv, TypeOK, WritesLeft, ConditionsAreTheWaiters, WaiterIsWatched,
              Waiting, Woken
<1>10. QED
  BY <1>1, <1>2, <1>3, <1>4, <1>5, <1>6, <1>7, <1>8, <1>9 DEF Next

LEMMA Inductive == Spec => []IInv
<1>1. QED BY InitIsIInv, NextKeepsIInv, PTL DEF Spec

\* Every state of the dispatcher, its sockets and coroutines is well typed; in
\* particular a write never has more pieces left than it began with.
THEOREM TypeCorrect == Spec => []TypeOK
<1>1. IInv => TypeOK BY DEF IInv
<1>2. QED BY <1>1, Inductive, PTL

\* The conditions SrtStDispatch holds, which live on the stacks of coroutines,
\* are those of the coroutines inside st_srt_epoll: it finds all that wait and
\* none that has left.
THEOREM WaitersAreKnown == Spec => []ConditionsAreTheWaiters
<1>1. IInv => ConditionsAreTheWaiters BY DEF IInv
<1>2. QED BY <1>1, Inductive, PTL

\* Whatever other coroutines do with a socket, the epoll stays subscribed to
\* the event that a coroutine waits for in st_srt_epoll.
THEOREM WaitersAreWatched == Spec => []WaiterIsWatched
<1>1. IInv => WaiterIsWatched BY DEF IInv
<1>2. QED BY <1>1, Inductive, PTL

=============================================================================
