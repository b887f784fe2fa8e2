------------------------------- MODULE MCSched -------------------------------
(* Small worlds for SmpSched: who wakes and starts whom, and what the ring *)
(* holds when the carriers start.                                          *)
EXTENDS SmpSched, TLC

CONSTANTS r1, r2

\* Two runs that wake each other, as the tasks of an event loop do.
MutualWake == (r1 :> {r2}) @@ (r2 :> {r1})

\* A sender that wakes its receiver, as in a channel pair.
SenderWakes == (r1 :> {r2}) @@ (r2 :> {})

\* The main task starts the other one.
MainSpawns == (r1 :> {r2}) @@ (r2 :> {})

NoSpawn == [r \in Runs |-> {}]

StaleThenBoth == <<Stale, r1, r2>>
MainFirst == <<r1>>

\* A caller that enqueues a run twice.
TwiceTheSame == <<r1, r2, r1>>

BothRuns == <<r1, r2>>
=============================================================================
