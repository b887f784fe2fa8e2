------------------------------ MODULE MCAsyncio ------------------------------
(* Small programs for SmpAsyncio, after tests/asyncio_corpus/programs.py. *)
EXTENDS SmpAsyncio

CONSTANT ev

Sleep(n) == <<"sleep", n>>
Start(t) == <<"spawn", t>>
Join(t) == <<"join", t>>
Wait == <<"wait", ev>>
SetEv == <<"set", ev>>
ClearEv == <<"clear", ev>>
CancelOf(t) == <<"cancel", t>>

\* Two timers armed out of order, and a join of each.
Naps == << <<Start(2), Start(3), Join(2), Join(3)>>, <<Sleep(2)>>, <<Sleep(1), Sleep(0)>> >>

\* An event with two waiters, set by a third after a sleep; one clears it and waits again.
Fan == << <<Start(2), Start(3), Wait, Join(2)>>, <<Sleep(1), SetEv>>, <<Wait, ClearEv>> >>

\* A cancel forwarded down a chain of joins to a sleeper, against the wakes of its timer.
Chain == << <<Start(2), Sleep(1), CancelOf(2), Join(2)>>, <<Start(3), Join(3)>>, <<Sleep(1)>> >>

\* A cancel against the set of the event its target waits for.
Race == << <<Start(2), Start(3), Wait, Join(2)>>, <<Wait, Sleep(1)>>,
           <<SetEv, CancelOf(2)>> >>

SomePrograms == {Naps, Fan, Chain, Race}

Ping == {<< <<Start(2), Wait>>, <<SetEv>> >>}
=============================================================================
