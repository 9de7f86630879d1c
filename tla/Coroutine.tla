----------------------------- MODULE Coroutine -----------------------------
(***************************************************************************)
(* class STCoroutine (src/base/coroutine): the object that starts a state  *)
(* thread for a handler, interrupts it and waits for it to end.            *)
(*                                                                         *)
(* One operator per operation, on a record of the object's flags.  The     *)
(* wait inside stop is a blocking call, so stop comes in two parts: what   *)
(* happens before the wait (Stopping, InterruptsThread) and the condition  *)
(* the waiter is woken by (cycle_done).  trd_err, which nothing in the     *)
(* server reads, is left out.                                              *)
(***************************************************************************)

Flags == {"started", "interrupted", "disposed", "cycle_done"}

Coroutines == [Flags -> BOOLEAN]

New == [f \in Flags |-> FALSE]

\* start, for an object that is new: the thread was created.
Started(co) == [co EXCEPT !["started"] = TRUE]

\* Whether interrupt reaches st_thread_interrupt.
CanInterrupt(co) == co["started"] /\ ~co["interrupted"] /\ ~co["cycle_done"]

\* Whether stop gets beyond its first line; interrupt is the next one.
CanStop(co) == ~co["disposed"]

\* A mutant: interrupt looks at disposed, which stop has just set.
InterruptsThread_AfterDisposed(co) ==
    CanInterrupt(co) /\ CanStop([co EXCEPT !["disposed"] = TRUE])

InterruptsThread(co) == CanStop(co) /\ CanInterrupt(co)

\* stop, up to the wait for the cycle to end.
Stopping(co) ==
    [co EXCEPT !["disposed"] = TRUE,
               !["interrupted"] = @ \/ InterruptsThread(co)]

\* cycle, after the handler's cycle has returned: those who wait in stop are
\* woken, and whoever comes later does not wait.
CycleEnded(co) == [co EXCEPT !["disposed"] = TRUE, !["cycle_done"] = TRUE]
=============================================================================
