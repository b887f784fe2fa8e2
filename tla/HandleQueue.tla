----------------------------- MODULE HandleQueue -----------------------------
(***************************************************************************)
(* What the ready-ring promises its callers, with nothing of how: a        *)
(* bounded FIFO of handles in which every operation takes effect in one    *)
(* step between its call and its answer.  A handle whose slot was freed is *)
(* refused on its way out.  There is no lock, no cell and no address here. *)
(* ReadyRing implements this.                                              *)
(***************************************************************************)
EXTENDS Naturals, Sequences

CONSTANTS Procs, Handles, StaleHandles, Room, NoHandle

VARIABLES queue, call

handles == <<queue, call>>

Idle == <<"idle", NoHandle>>

\* A call, and then its answer: 0 is pushed or popped, 1 is full or empty.
Calls == {Idle, <<"pop", NoHandle>>} \cup ({"push"} \X Handles)
Answers == {<<"pushed", NoHandle>>, <<"full", NoHandle>>, <<"empty", NoHandle>>}
               \cup ({"popped"} \X (Handles \ StaleHandles))

QueueTypeOK == /\ queue \in Seq(Handles) /\ Len(queue) <= Room
               /\ call \in [Procs -> Calls \cup Answers]

QueueInit == queue = <<>> /\ call = [p \in Procs |-> Idle]

Turn(p, from, to) == /\ call[p] = from
                     /\ call' = [call EXCEPT ![p] = to]

Call(p, c) == c \in Calls /\ Turn(p, Idle, c) /\ UNCHANGED queue

Return(p, a) == a \in Answers /\ Turn(p, a, Idle) /\ UNCHANGED queue

Put(p, h) == /\ Len(queue) < Room
             /\ Turn(p, <<"push", h>>, <<"pushed", NoHandle>>)
             /\ queue' = Append(queue, h)

\* Only a full queue refuses, and only an empty one has nothing to give.
Refuse(p, h) == /\ Len(queue) = Room
                /\ Turn(p, <<"push", h>>, <<"full", NoHandle>>)
                /\ UNCHANGED queue

Get(p) == /\ queue # <<>> /\ Head(queue) \notin StaleHandles
          /\ Turn(p, <<"pop", NoHandle>>, <<"popped", Head(queue)>>)
          /\ queue' = Tail(queue)

Nothing(p) == /\ queue = <<>>
              /\ Turn(p, <<"pop", NoHandle>>, <<"empty", NoHandle>>)
              /\ UNCHANGED queue

DropOldest == /\ queue # <<>> /\ Head(queue) \in StaleHandles
              /\ queue' = Tail(queue)
              /\ UNCHANGED call

QueueNext == \/ \E p \in Procs :
                    \/ \E c \in Calls : Call(p, c)
                    \/ \E a \in Answers : Return(p, a)
                    \/ \E h \in Handles : Put(p, h) \/ Refuse(p, h)
                    \/ Get(p) \/ Nothing(p)
             \/ DropOldest

QueueSpec == QueueInit /\ [][QueueNext]_handles
=============================================================================
