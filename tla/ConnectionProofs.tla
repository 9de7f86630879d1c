-------------------------- MODULE ConnectionProofs --------------------------
(* Proofs about Connection, for any set of connections.                      *)
EXTENDS Connection, TLAPS

\* How the parts of one connection hang together.
ConnInv(c) ==
    /\ handler[c] = "none" =>
           output[c] = "none" /\ ~stop[c] /\ ~connected[c]
    /\ client[c] = "none" => handler[c] = "none"
    /\ handler[c] \in Blocked =>
           connected[c] /\ ~stop[c] /\ c \in conn_pool
    /\ handler[c] \in Blocked \ {"drain"} => output[c] = "none"
    /\ handler[c] \in {"none", "ended"} => c \notin conn_pool
    /\ output[c] = "run" => connected[c] /\ (handler[c] = "drain" \/ stop[c])
    /\ output[c] = "join" => connected[c]
    /\ co[c]["cycle_done"] => handler[c] = "ended"
    /\ stop[c] => handler[c] = "ended"
    /\ connected[c] => fd[c] = "open"

IInv == TypeOK /\ \A c \in Conns : ConnInv(c)

LEMMA CoroutineTypes ==
    ASSUME NEW x \in Coroutines
    PROVE  /\ New \in Coroutines
           /\ Started(x) \in Coroutines
           /\ Stopping(x) \in Coroutines
           /\ CycleEnded(x) \in Coroutines
           /\ InterruptsThread(x) \in BOOLEAN
           /\ ~New["cycle_done"]
           /\ Started(x)["cycle_done"] = x["cycle_done"]
           /\ Stopping(x)["cycle_done"] = x["cycle_done"]
  BY DEF Coroutines, Flags, New, Started, Stopping, CycleEnded,
         InterruptsThread, CanStop, CanInterrupt

LEMMA InitHolds == Init => IInv
  BY CoroutineTypes DEF Init, IInv, TypeOK, ConnInv, New, Coroutines, Flags,
     Blocked, Reading, OutputStates

\* A step that leaves all of d as it was leaves what ConnInv says of it.
LEMMA UntouchedHolds ==
    ASSUME NEW d \in Conns, ConnInv(d),
           handler'[d] = handler[d], client'[d] = client[d], output'[d] = output[d],
           stop'[d] = stop[d], fd'[d] = fd[d], connected'[d] = connected[d],
           co'[d] = co[d], d \in conn_pool' <=> d \in conn_pool
    PROVE  ConnInv(d)'
  BY DEF ConnInv

LEMMA StepHolds == IInv /\ [Next]_vars => IInv'
  <1> SUFFICES ASSUME IInv, [Next]_vars PROVE IInv'
    OBVIOUS
  <1> USE DEF IInv, TypeOK, Blocked, Reading, OutputStates
  <1>1. ASSUME NEW c \in Conns, Accept(c) PROVE IInv'
    <2>1. TypeOK'
      BY <1>1, CoroutineTypes DEF Accept, ConnInv
    <2>2. ASSUME NEW d \in Conns PROVE ConnInv(d)'
      BY <1>1, CoroutineTypes, ZenonT(60) DEF Accept, ConnInv, CycleEnded
    <2> QED BY <2>1, <2>2
  <1>2. ASSUME NEW c \in Conns, AcceptFails(c) PROVE IInv'
    <2>1. /\ co[c] \in Coroutines
          /\ CycleEnded(co[c]) \in Coroutines
          /\ Stopping(co[c]) \in Coroutines
          /\ CycleEnded(Stopping(co[c])) \in Coroutines
          /\ InterruptsThread(co[c]) \in BOOLEAN
          /\ Stopping(co[c])["cycle_done"] = co[c]["cycle_done"]
      BY CoroutineTypes
    <2>2. handler[c] = "none" /\ output[c] = "none"
      BY <1>2 DEF AcceptFails, ConnInv
    <2>3. fd' = [fd EXCEPT ![c] = "closed"]
      BY <1>2, <2>2 DEF AcceptFails
    <2>4. TypeOK'
      BY <1>2, <2>1, <2>2, <2>3 DEF AcceptFails
    <2>5. ASSUME NEW d \in Conns, d # c PROVE ConnInv(d)'
      <3>1. /\ handler'[d] = handler[d] /\ client'[d] = client[d]
            /\ output'[d] = output[d] /\ stop'[d] = stop[d]
            /\ fd'[d] = fd[d] /\ connected'[d] = connected[d]
            /\ co'[d] = co[d] /\ (d \in conn_pool' <=> d \in conn_pool)
        BY <1>2, <2>2, <2>3, <2>5 DEF AcceptFails
      <3> QED BY <3>1, UntouchedHolds
    <2>6. ConnInv(c)'
      BY <1>2, <2>1, <2>2, <2>3, ZenonT(60) DEF AcceptFails, ConnInv
    <2> QED BY <2>4, <2>5, <2>6
  <1>3. ASSUME NEW c \in Conns, ClientLeaves(c) PROVE IInv'
    <2>1. TypeOK'
      BY <1>3, CoroutineTypes DEF ClientLeaves, ConnInv
    <2>2. ASSUME NEW d \in Conns PROVE ConnInv(d)'
      BY <1>3, CoroutineTypes DEF ClientLeaves, ConnInv, CycleEnded
    <2> QED BY <2>1, <2>2
  <1>4. ASSUME NEW c \in Conns, ParseFails(c) PROVE IInv'
    <2>1. /\ co[c] \in Coroutines
          /\ CycleEnded(co[c]) \in Coroutines
          /\ Stopping(co[c]) \in Coroutines
          /\ CycleEnded(Stopping(co[c])) \in Coroutines
          /\ InterruptsThread(co[c]) \in BOOLEAN
          /\ Stopping(co[c])["cycle_done"] = co[c]["cycle_done"]
      BY CoroutineTypes
    <2>2. connected[c] /\ fd[c] = "open" /\ output[c] = "none"
      BY <1>4 DEF ParseFails, ConnInv
    <2>3. /\ fd' = [fd EXCEPT ![c] = "closed"]
          /\ connected' = [connected EXCEPT ![c] = FALSE]
      BY <1>4, <2>2 DEF ParseFails, HandlerEnds, Destroy, Closed
    <2>4. TypeOK'
      BY <1>4, <2>1, <2>2, <2>3 DEF ParseFails, HandlerEnds
    <2>5. ASSUME NEW d \in Conns, d # c PROVE ConnInv(d)'
      BY <1>4, <2>2, <2>3, <2>5 DEF ParseFails, HandlerEnds, ConnInv
    <2>6. ConnInv(c)'
      BY <1>4, <2>1, <2>2, <2>3 DEF ParseFails, HandlerEnds, ConnInv
    <2> QED BY <2>4, <2>5, <2>6
  <1>5. ASSUME NEW c \in Conns, PlayJoins(c) PROVE IInv'
    <2>1. TypeOK'
      BY <1>5, CoroutineTypes, ZenonT(60) DEF PlayJoins, Drains, OutputRuns, ConnInv
    <2>2. ASSUME NEW d \in Conns PROVE ConnInv(d)'
      BY <1>5, CoroutineTypes, ZenonT(60) DEF PlayJoins, Drains, OutputRuns, ConnInv, CycleEnded
    <2> QED BY <2>1, <2>2
  <1>6. ASSUME NEW c \in Conns, PlayOpens(c) PROVE IInv'
    <2>1. TypeOK'
      BY <1>6 DEF PlayOpens, Blocks
    <2>2. ASSUME NEW d \in Conns PROVE ConnInv(d)'
      BY <1>6 DEF PlayOpens, Blocks, ConnInv
    <2> QED BY <2>1, <2>2
  <1>7. ASSUME NEW c \in Conns, FileOpens(c) PROVE IInv'
    <2>1. TypeOK'
      BY <1>7 DEF FileOpens, Blocks
    <2>2. ASSUME NEW d \in Conns PROVE ConnInv(d)'
      BY <1>7 DEF FileOpens, Blocks, ConnInv
    <2> QED BY <2>1, <2>2
  <1>8. ASSUME NEW c \in Conns, SegmentIsMissing(c) PROVE IInv'
    <2>1. TypeOK'
      BY <1>8 DEF SegmentIsMissing, Blocks
    <2>2. ASSUME NEW d \in Conns PROVE ConnInv(d)'
      BY <1>8 DEF SegmentIsMissing, Blocks, ConnInv
    <2> QED BY <2>1, <2>2
  <1>9. ASSUME NEW c \in Conns, PlayRuns(c) PROVE IInv'
    <2>1. TypeOK'
      BY <1>9, CoroutineTypes DEF PlayRuns, Drains, OutputRuns, ConnInv
    <2>2. ASSUME NEW d \in Conns PROVE ConnInv(d)'
      BY <1>9, CoroutineTypes, ZenonT(60) DEF PlayRuns, Drains, OutputRuns, ConnInv, CycleEnded
    <2> QED BY <2>1, <2>2
  <1>10. ASSUME NEW c \in Conns, SegmentRuns(c) PROVE IInv'
    <2>1. PICK w \in {"file", "refuse"} : handler' = [handler EXCEPT ![c] = w]
      BY <1>10 DEF SegmentRuns
    <2>2. TypeOK'
      BY <1>10, <2>1 DEF SegmentRuns
    <2>3. ASSUME NEW d \in Conns PROVE ConnInv(d)'
      BY <1>10, <2>1 DEF SegmentRuns, ConnInv
    <2> QED BY <2>2, <2>3
  <1>11. ASSUME NEW c \in Conns, RefuseCloses(c) PROVE IInv'
    <2>1. /\ co[c] \in Coroutines
          /\ CycleEnded(co[c]) \in Coroutines
          /\ Stopping(co[c]) \in Coroutines
          /\ CycleEnded(Stopping(co[c])) \in Coroutines
          /\ InterruptsThread(co[c]) \in BOOLEAN
          /\ Stopping(co[c])["cycle_done"] = co[c]["cycle_done"]
      BY CoroutineTypes
    <2>2. connected[c] /\ fd[c] = "open" /\ output[c] = "none"
      BY <1>11 DEF RefuseCloses, ConnInv
    <2>3. /\ fd' = [fd EXCEPT ![c] = "closed"]
          /\ connected' = [connected EXCEPT ![c] = FALSE]
      BY <1>11, <2>2 DEF RefuseCloses, Closed
    <2>4. TypeOK'
      BY <1>11, <2>1, <2>2, <2>3 DEF RefuseCloses, HandlerEnds
    <2>5. ASSUME NEW d \in Conns, d # c PROVE ConnInv(d)'
      <3>1. /\ handler'[d] = handler[d] /\ client'[d] = client[d]
            /\ output'[d] = output[d] /\ stop'[d] = stop[d]
            /\ fd'[d] = fd[d] /\ connected'[d] = connected[d]
            /\ co'[d] = co[d] /\ (d \in conn_pool' <=> d \in conn_pool)
        BY <1>11, <2>3, <2>5 DEF RefuseCloses, HandlerEnds
      <3> QED BY <3>1, UntouchedHolds
    <2>6. ConnInv(c)'
      BY <1>11, <2>1, <2>2, <2>3, ZenonT(60) DEF RefuseCloses, HandlerEnds, ConnInv
    <2> QED BY <2>4, <2>5, <2>6
  <1>12. ASSUME NEW c \in Conns, DrainEnds(c) PROVE IInv'
    <2>1. /\ co[c] \in Coroutines
          /\ CycleEnded(co[c]) \in Coroutines
          /\ Stopping(co[c]) \in Coroutines
          /\ CycleEnded(Stopping(co[c])) \in Coroutines
          /\ InterruptsThread(co[c]) \in BOOLEAN
          /\ Stopping(co[c])["cycle_done"] = co[c]["cycle_done"]
      BY CoroutineTypes
    <2>2. connected[c] /\ fd[c] = "open"
      BY <1>12 DEF DrainEnds, ConnInv
    <2>3. IF OutputLives(c) THEN UNCHANGED <<fd, connected>>
          ELSE /\ fd' = [fd EXCEPT ![c] = "closed"]
               /\ connected' = [connected EXCEPT ![c] = FALSE]
      BY <1>12, <2>2 DEF DrainEnds, HandlerEnds, Destroy, OutputLives, Closed
    <2>4. TypeOK'
      BY <1>12, <2>1, <2>2, <2>3 DEF DrainEnds, HandlerEnds
    <2>5. ASSUME NEW d \in Conns, d # c PROVE ConnInv(d)'
      <3>1. /\ handler'[d] = handler[d] /\ client'[d] = client[d]
            /\ output'[d] = output[d] /\ stop'[d] = stop[d]
            /\ fd'[d] = fd[d] /\ connected'[d] = connected[d]
            /\ co'[d] = co[d] /\ (d \in conn_pool' <=> d \in conn_pool)
        BY <1>12, <2>3, <2>5 DEF DrainEnds, HandlerEnds
      <3> QED BY <3>1, UntouchedHolds
    <2>6. ConnInv(c)'
      BY <1>12, <2>1, <2>2, <2>3, ZenonT(60)
      DEF DrainEnds, HandlerEnds, OutputLives, CycleEnded, ConnInv
    <2> QED BY <2>4, <2>5, <2>6
  <1>13. ASSUME NEW c \in Conns, OutputEnds(c) PROVE IInv'
    <2>1. /\ co[c] \in Coroutines
          /\ CycleEnded(co[c]) \in Coroutines
          /\ Stopping(co[c]) \in Coroutines
          /\ CycleEnded(Stopping(co[c])) \in Coroutines
          /\ InterruptsThread(co[c]) \in BOOLEAN
          /\ Stopping(co[c])["cycle_done"] = co[c]["cycle_done"]
      BY CoroutineTypes
    <2>2. /\ connected[c] /\ fd[c] = "open"
          /\ IF stop[c] THEN handler[c] = "ended" ELSE handler[c] = "drain"
      BY <1>13 DEF OutputEnds, ConnInv
    <2>3. IF ~stop[c] THEN UNCHANGED <<fd, connected>>
          ELSE /\ fd' = [fd EXCEPT ![c] = "closed"]
               /\ connected' = [connected EXCEPT ![c] = FALSE]
      BY <1>13, <2>2 DEF OutputEnds, Destroy, ConnInv, Closed
    <2>4. TypeOK'
      BY <1>13, <2>1, <2>2, <2>3 DEF OutputEnds
    <2>5. ASSUME NEW d \in Conns, d # c PROVE ConnInv(d)'
      <3>1. /\ handler'[d] = handler[d] /\ client'[d] = client[d]
            /\ output'[d] = output[d] /\ stop'[d] = stop[d]
            /\ fd'[d] = fd[d] /\ connected'[d] = connected[d]
            /\ co'[d] = co[d] /\ (d \in conn_pool' <=> d \in conn_pool)
        BY <1>13, <2>3, <2>5 DEF OutputEnds
      <3> QED BY <3>1, UntouchedHolds
    <2>6. ConnInv(c)'
      BY <1>13, <2>1, <2>2, <2>3, ZenonT(60) DEF OutputEnds, ConnInv
    <2> QED BY <2>4, <2>5, <2>6
  <1>14. ASSUME NEW c \in Conns, OutputJoins(c) PROVE IInv'
    <2>1. /\ co[c] \in Coroutines
          /\ CycleEnded(co[c]) \in Coroutines
          /\ Stopping(co[c]) \in Coroutines
          /\ CycleEnded(Stopping(co[c])) \in Coroutines
          /\ InterruptsThread(co[c]) \in BOOLEAN
          /\ Stopping(co[c])["cycle_done"] = co[c]["cycle_done"]
      BY CoroutineTypes
    <2>2. connected[c] /\ fd[c] = "open" /\ handler[c] = "ended"
      BY <1>14 DEF OutputJoins, ConnInv
    <2>3. /\ fd' = [fd EXCEPT ![c] = "closed"]
          /\ connected' = [connected EXCEPT ![c] = FALSE]
      BY <1>14, <2>2 DEF OutputJoins, Busy, Closed
    <2>4. TypeOK'
      BY <1>14, <2>1, <2>2, <2>3 DEF OutputJoins
    <2>5. ASSUME NEW d \in Conns, d # c PROVE ConnInv(d)'
      <3>1. /\ handler'[d] = handler[d] /\ client'[d] = client[d]
            /\ output'[d] = output[d] /\ stop'[d] = stop[d]
            /\ fd'[d] = fd[d] /\ connected'[d] = connected[d]
            /\ co'[d] = co[d] /\ (d \in conn_pool' <=> d \in conn_pool)
        BY <1>14, <2>3, <2>5 DEF OutputJoins
      <3> QED BY <3>1, UntouchedHolds
    <2>6. ConnInv(c)'
      BY <1>14, <2>1, <2>2, <2>3, ZenonT(60) DEF OutputJoins, ConnInv
    <2> QED BY <2>4, <2>5, <2>6
  <1>15. CASE UNCHANGED vars
    BY <1>15 DEF vars, ConnInv
  <1> QED
    BY <1>1, <1>2, <1>3, <1>4, <1>5, <1>6, <1>7, <1>8, <1>9, <1>10, <1>11, <1>12, <1>13, <1>14, <1>15 DEF Next, HandlerNext

LEMMA InvHolds == Spec => []IInv
  BY InitHolds, StepHolds, PTL DEF Spec

\* Every state of Connection is well typed; in particular no descriptor is
\* closed twice, whichever of client, handler and output end in which order.
THEOREM TypeCorrect == Spec => []TypeOK
  <1>1. IInv => TypeOK
    BY DEF IInv
  <1> QED BY <1>1, InvHolds, PTL

\* A connection is stopped only when its handler's cycle is over, so that an
\* output may leave the closing to the handler's destruction.
THEOREM StopIsLast == Spec => []StopMeansHandlerOver
  <1>1. IInv => StopMeansHandlerOver
    BY DEF IInv, ConnInv, StopMeansHandlerOver
  <1> QED BY <1>1, InvHolds, PTL

\* Neither handler nor output ever runs on a closed descriptor.
THEOREM NeverClosedWhileUsed == Spec => []OpenWhileUsed
  <1>1. IInv => OpenWhileUsed
    BY DEF IInv, ConnInv, OpenWhileUsed, OutputLives
  <1> QED BY <1>1, InvHolds, PTL
=============================================================================
