-------------------------- MODULE BlockingSession --------------------------
(***************************************************************************)
(* What a DtlsCoapSession asks of the code that uses it.  It is a blocking  *)
(* object of a library: connect, then start_reader, then requests, then    *)
(* close and join, each call made by one thread at a time and none of them *)
(* after the close.  Transport, whose calls run on executor threads for    *)
(* many tasks of the event loop, is shown to keep to it.                   *)
(***************************************************************************)
CONSTANT Callers

VARIABLES phase,   \* how far the session is
          calls    \* the calls that are running: <<caller, operation>>

sessionVars == <<phase, calls>>

\* The operations the session accepts in a phase.
Accepts(p) ==
  CASE p = "built"     -> {"connect", "close"}
    [] p = "connected" -> {"reader", "close"}
    [] p = "reading"   -> {"request", "close"}
    [] OTHER           -> {}

\* The phases an operation may leave: the one it was called in, when it
\* fails, and the next one.
After(operation) ==
  CASE operation = "connect" -> {"built", "connected"}
    [] operation = "reader"  -> {"connected", "reading"}
    [] operation = "request" -> {"reading"}
    [] operation = "close"   -> {"closed", "abandoned"}

\* At most one call at a time, and one the session accepts.
MayRun(cs, p) ==
  \/ cs = {}
  \/ \E c \in Callers : \E operation \in Accepts(p) : cs = {<<c, operation>>}

SessionInit == phase = "absent" /\ calls = {}

Construct == /\ phase = "absent" /\ calls = {}
             /\ phase' = "built"
             /\ MayRun(calls', phase')

Call == /\ calls = {} /\ phase' = phase
        /\ MayRun(calls', phase)

\* A call returns; the caller may make the next one at once.
Return == \E c \in Callers :
            \E operation \in {"connect", "reader", "request", "close"} :
              /\ calls = {<<c, operation>>}
              /\ phase' \in After(operation)
              /\ MayRun(calls', phase')

SessionNext == Construct \/ Call \/ Return

SessionSpec == SessionInit /\ [][SessionNext]_sessionVars
=============================================================================
