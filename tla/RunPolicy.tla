------------------------------ MODULE RunPolicy ------------------------------
(***************************************************************************)
(* What the execution policy promises of a run, with nothing of how: the   *)
(* state machine of the run cell and the one FIFO queue of ready runs.     *)
(* A READY run is either in the queue or in the hand of the one party that *)
(* is about to enqueue, resume or take it back.  A stale handle in the     *)
(* queue names nothing: it is dropped and never resumed.  A carrier is not *)
(* named, nor is a thread, a token or a checksum.                          *)
(*                                                                         *)
(* The states and who may leave which are the table in smp_sched.h; the    *)
(* queue is the ring's contract there.  SmpSched implements this.          *)
(***************************************************************************)
EXTENDS Naturals, Sequences

CONSTANTS Runs, Stale

VARIABLES phase, queue

policy == <<phase, queue>>

\* "hand" and "queued" are the two halves of READY.
Phases == {"FREE", "hand", "queued", "RUNNING", "PARKED", "TERMINAL"}

PolicyTypeOK == /\ phase \in [Runs -> Phases]
                /\ queue \in Seq(Runs \cup {Stale})

Move(r, from, to) == /\ phase[r] = from
                     /\ phase' = [phase EXCEPT ![r] = to]
                     /\ UNCHANGED queue

Start(r) == Move(r, "FREE", "hand")
Begin(r) == Move(r, "hand", "RUNNING")
Yield(r) == Move(r, "RUNNING", "hand")
Park(r) == Move(r, "RUNNING", "PARKED")
End(r) == Move(r, "RUNNING", "TERMINAL")
WakeUp(r) == Move(r, "PARKED", "hand")
\* The wake is committed by the enqueue, so only a run in the hand is taken back.
Retreat(r) == Move(r, "hand", "PARKED")

Enqueue(r) == /\ phase[r] = "hand"
              /\ phase' = [phase EXCEPT ![r] = "queued"]
              /\ queue' = Append(queue, r)

\* The oldest run leaves the queue for a hand; stale handles before it are dropped.
Dequeue == \E i \in 1..Len(queue) :
               /\ queue[i] \in Runs
               /\ \A j \in 1..(i - 1) : queue[j] = Stale
               /\ phase' = [phase EXCEPT ![queue[i]] = "hand"]
               /\ queue' = SubSeq(queue, i + 1, Len(queue))

DropStale == /\ \A i \in 1..Len(queue) : queue[i] = Stale
             /\ queue' = <<>>
             /\ UNCHANGED phase

PolicyInit == /\ phase \in [Runs -> {"FREE", "queued"}]
              /\ queue \in Seq(Runs \cup {Stale})
              /\ \A i, j \in 1..Len(queue) : queue[i] = queue[j] /\ queue[i] # Stale => i = j
              /\ \A r \in Runs : (phase[r] = "queued") <=> \E i \in 1..Len(queue) : queue[i] = r

PolicyNext == \/ \E r \in Runs : \/ Start(r) \/ Begin(r) \/ Yield(r) \/ Park(r) \/ End(r)
                                 \/ WakeUp(r) \/ Retreat(r) \/ Enqueue(r)
              \/ Dequeue
              \/ DropStale

PolicySpec == PolicyInit /\ [][PolicyNext]_policy
=============================================================================
