--------------------------- MODULE SmpAsyncio_proofs ---------------------------
(***************************************************************************)
(* SmpAsyncio for any number of tasks, events, carriers and programs.      *)
(*   SleepersKept: registrations and blocked words agree, no sleeper is    *)
(*   forgotten but by the late exchange of smp_park, no timer is overdue.  *)
(*   NoEarlyReturn: an await is passed only with what it waited for, or    *)
(*   with a cancel.                                                        *)
(***************************************************************************)
EXTENDS SmpAsyncio, WellFoundedInduction, TLAPS

-----------------------------------------------------------------------------
(* The invariant: what each point of a step knows of its task *)

\* Where a carrier has its run for itself, and where another may have taken it.
Inside == {"poll", "op", "spawn", "block", "unblock", "park", "parkCas", "again", "cancelEnd",
           "end", "wake", "token", "wakeCas"}
Late == {"parkSwap", "selfWake"}
Waking == {"wake", "token", "wakeCas"}
EdgePcs == {"scan", "look", "confirm", "fire", "stop", "exit"} \cup Waking

Typed ==
    /\ TypeOK /\ program \in Programs /\ at = [t \in Tasks |-> at[t]]
    /\ \A c \in Carriers : IF cur[c] = None THEN pc[c] \in {"idle", "exit"}
                                            ELSE pc[c] \in Inside \cup Late
    /\ pc[Edge] \in EdgePcs /\ (pc[Edge] = "look" => seen < N)

\* A RUNNING task is inside one carrier.
Exclusive ==
    \A c \in Carriers : pc[c] \in Inside =>
        /\ state[cur[c]] = "RUNNING"
        /\ \A d \in Carriers : pc[d] \in Inside /\ cur[d] = cur[c] => d = c

\* A registration is of the op the task is at, and an op in hand is neither the end nor resumed.
Positions ==
    /\ \A t \in Tasks : /\ resumed[t] => ~AtEnd(t)
                        /\ blocked[t] # None => resumed[t]
    /\ \A c \in Carriers :
           /\ pc[c] = "spawn" => ~AtEnd(cur[c]) /\ Op(cur[c])[1] = "spawn" /\ ~resumed[cur[c]]
           /\ pc[c] \in Waking /\ ~done[cur[c]] => ~AtEnd(cur[c]) /\ ~resumed[cur[c]]
           /\ pc[c] = "cancelEnd" => blocked[cur[c]] = None

Lists ==
    \A p \in Procs : /\ pc[p] \notin Waking => todo[p] = <<>>
                     /\ pc[p] \in {"token", "wakeCas"} => todo[p] # <<>>

\* A deposit for a registered task is seen before it parks.
Deposits ==
    \A t \in Tasks : raise[t] /\ blocked[t] # None =>
        \E c \in Carriers : cur[c] = t /\ pc[c] \in {"block", "unblock"}

\* p has still to set the token of t.
Pending(p, t) == IF pc[p] = "wakeCas" THEN t \in ToSet(Tail(todo[p])) ELSE t \in ToSet(todo[p])

\* A task on its way to sleep is registered, or the token it will find was set or will be.
Awaited(t) == \/ blocked[t] # None /\ ~raise[t]
              \/ token[t] = 1
              \/ \E p \in Procs : Pending(p, t)

Retiring ==
    \A c \in Carriers, t \in Tasks : cur[c] = t /\ t \notin eaten =>
        /\ pc[c] = "block" => raise[t] \/ Awaited(t)
        /\ pc[c] \in {"park", "parkCas"} => Awaited(t)

AsyncioInv == /\ Typed /\ Exclusive /\ Positions /\ Lists /\ Deposits /\ Retiring
              /\ OneRegistration /\ NobodyForgotten /\ NoTimerPast

-----------------------------------------------------------------------------
(* Lists *)

LEMMA LeastNat ==
    ASSUME NEW T \in SUBSET Nat, T # {}
    PROVE  \E x \in T : \A y \in T : x <= y
<1>1. PICK R : IsWellFoundedOn(R, Nat) /\ R = {p \in Nat \X Nat : p[1] < p[2]}
  BY NatLessThanWellFounded, Zenon DEF OpToRel
<1>2. PICK x \in T : \A y \in T : <<y, x>> \notin R
  BY <1>1, WFMin
<1>3. \A y \in T : ~(y < x)
  BY <1>1, <1>2
<1> QED
  BY <1>3

LEMMA OnList ==
    ASSUME NEW S, NEW s \in Seq(S), NEW x
    PROVE  /\ x \in ToSet(s) <=> \E i \in 1..Len(s) : s[i] = x
           /\ Contains(s, x) <=> x \in ToSet(s)
           /\ ToSet(s) \subseteq S
           /\ s = <<>> => ToSet(s) = {}
BY DEF ToSet, Contains

LEMMA AppendList ==
    ASSUME NEW S, NEW s \in Seq(S), NEW x \in S
    PROVE  /\ Append(s, x) \in Seq(S) /\ ToSet(Append(s, x)) = ToSet(s) \cup {x}
           /\ IsInjective(s) /\ x \notin ToSet(s) => IsInjective(Append(s, x))
<1>1. /\ Append(s, x) \in Seq(S) /\ Len(Append(s, x)) = Len(s) + 1 /\ Len(s) \in Nat
      /\ \A i \in 1..(Len(s) + 1) : Append(s, x)[i] = IF i = Len(s) + 1 THEN x ELSE s[i]
      /\ DOMAIN s = 1..Len(s) /\ DOMAIN Append(s, x) = 1..(Len(s) + 1)
  OBVIOUS
<1>2. ToSet(Append(s, x)) = ToSet(s) \cup {x}
  <2>1. \A i \in 1..Len(s) : i \in 1..(Len(s) + 1) /\ i # Len(s) + 1
    BY <1>1
  <2>2. \A i \in 1..(Len(s) + 1) : i # Len(s) + 1 => i \in 1..Len(s)
    BY <1>1
  <2>3. Len(s) + 1 \in 1..(Len(s) + 1)
    BY <1>1
  <2> QED
    BY <1>1, <2>1, <2>2, <2>3 DEF ToSet
<1>3. IsInjective(s) /\ x \notin ToSet(s) => IsInjective(Append(s, x))
  BY <1>1 DEF IsInjective, ToSet
<1> QED
  BY <1>1, <1>2, <1>3

LEMMA HeadTail ==
    ASSUME NEW S, NEW s \in Seq(S), s # <<>>
    PROVE  /\ Head(s) \in S /\ Tail(s) \in Seq(S) /\ Len(s) > 0
           /\ ToSet(s) = {Head(s)} \cup ToSet(Tail(s))
<1>1. /\ Head(s) = s[1] /\ Tail(s) \in Seq(S) /\ Len(s) \in Nat /\ Len(s) > 0
      /\ Len(Tail(s)) = Len(s) - 1 /\ \A i \in 1..(Len(s) - 1) : Tail(s)[i] = s[i + 1]
      /\ DOMAIN s = 1..Len(s) /\ DOMAIN Tail(s) = 1..(Len(s) - 1)
  OBVIOUS
<1>2. /\ \A i \in 1..(Len(s) - 1) : i + 1 \in 1..Len(s)
      /\ \A i \in 1..Len(s) : i = 1 \/ (i - 1 \in 1..(Len(s) - 1) /\ (i - 1) + 1 = i)
      /\ 1 \in 1..Len(s)
  BY <1>1
<1>3. ToSet(s) = {Head(s)} \cup ToSet(Tail(s))
  <2>1. ASSUME NEW i \in 1..Len(s)
        PROVE  s[i] \in {Head(s)} \cup ToSet(Tail(s))
    <3>1. CASE i = 1
      BY <1>1, <3>1
    <3>2. CASE i # 1
      <4>1. i - 1 \in 1..(Len(s) - 1) /\ (i - 1) + 1 = i
        BY <1>2, <3>2
      <4>2. Tail(s)[i - 1] = s[i]
        BY <1>1, <4>1
      <4> QED
        BY <1>1, <4>1, <4>2 DEF ToSet
    <3> QED
      BY <3>1, <3>2
  <2>2. ASSUME NEW i \in 1..(Len(s) - 1)
        PROVE  Tail(s)[i] \in ToSet(s)
    BY <1>1, <1>2 DEF ToSet
  <2>3. Head(s) \in ToSet(s)
    BY <1>1, <1>2 DEF ToSet
  <2>4. ToSet(Tail(s)) \subseteq ToSet(s)
    BY <1>1, <2>2 DEF ToSet
  <2>5. ToSet(s) \subseteq {Head(s)} \cup ToSet(Tail(s))
    <3> DEFINE R == {Head(s)} \cup ToSet(Tail(s))
    <3>1. \A i \in 1..Len(s) : s[i] \in R
      BY <2>1
    <3> HIDE DEF R
    <3>2. ToSet(s) \subseteq R
      BY <1>1, <3>1 DEF ToSet
    <3> QED
      BY <3>2 DEF R
  <2> QED
    BY <2>3, <2>4, <2>5
<1> QED
  BY <1>1, <1>2, <1>3

\* What the loop keeps of the first n of a list, for every n up to m.
Upto(seq, gone, m, g) ==
    g = [n \in 0..m |-> IF n = 0 THEN <<>>
                        ELSE IF seq[n] \in gone THEN g[n - 1] ELSE Append(g[n - 1], seq[n])]

\* The loop has an answer for every length, by the least length that has none.
LEMMA LoopEnds ==
    ASSUME NEW S, NEW seq \in Seq(S), NEW gone
    PROVE  \E g : Upto(seq, gone, Len(seq), g)
<1> DEFINE T == {m \in Nat : ~\E g : Upto(seq, gone, m, g)}
<1>1. T = {}
  <2> SUFFICES ASSUME T # {} PROVE FALSE
    OBVIOUS
  <2>1. PICK m \in T : \A k \in T : m <= k
    BY LeastNat
  <2>2. CASE m = 0
    <3>1. Upto(seq, gone, 0, [n \in 0..0 |-> <<>>])
      BY DEF Upto
    <3> QED
      BY <2>1, <2>2, <3>1
  <2>3. CASE m # 0
    <3>0. m \in Nat
      BY <2>1
    <3>1. m - 1 \in Nat /\ m - 1 \notin T
      <4>1. \A k \in T : m <= k
        BY <2>1
      <4> HIDE DEF T
      <4> QED
        BY <2>3, <3>0, <4>1
    <3>2. PICK g : Upto(seq, gone, m - 1, g)
      BY <3>1
    <3>3. \A n \in 0..(m - 1) : g[n] = IF n = 0 THEN <<>>
                                       ELSE IF seq[n] \in gone THEN g[n - 1]
                                       ELSE Append(g[n - 1], seq[n])
      BY <3>2 DEF Upto
    <3> DEFINE last == IF seq[m] \in gone THEN g[m - 1] ELSE Append(g[m - 1], seq[m])
               h == [n \in 0..m |-> IF n = m THEN last ELSE g[n]]
               Step(n) == IF n = 0 THEN <<>>
                          ELSE IF seq[n] \in gone THEN h[n - 1] ELSE Append(h[n - 1], seq[n])
    <3>4. ASSUME NEW n \in 0..m
          PROVE  h[n] = Step(n)
      <4>1. CASE n = m
        <5>1. m - 1 \in 0..m /\ m - 1 # m /\ m \in 0..m
          BY <2>3, <3>0
        <5>2. h[m - 1] = g[m - 1] /\ h[m] = last
          BY <5>1
        <5> HIDE DEF h
        <5> QED
          BY <2>3, <4>1, <5>2
      <4>2. CASE n # m
        <5>1. n \in 0..(m - 1) /\ (n # 0 => n - 1 \in 0..m /\ n - 1 # m)
          BY <3>0, <4>2
        <5>2. h[n] = g[n] /\ (n # 0 => h[n - 1] = g[n - 1])
          BY <4>2, <5>1
        <5> HIDE DEF h
        <5> QED
          BY <3>3, <5>1, <5>2
      <4> QED
        BY <4>1, <4>2
    <3>5. h = [n \in 0..m |-> h[n]]
      OBVIOUS
    <3>6. h = [n \in 0..m |-> Step(n)]
      <4> HIDE DEF h, Step
      <4> QED
        BY <3>4, <3>5
    <3>7. Upto(seq, gone, m, h)
      <4> HIDE DEF h
      <4> QED
        BY <3>6 DEF Upto
    <3> QED
      BY <2>1, <3>7
  <2> QED
    BY <2>2, <2>3
<1>2. Len(seq) \in Nat
  OBVIOUS
<1> QED
  BY <1>1, <1>2

\* The others of a list stay, and in no new places.
LEMMA WithoutList ==
    ASSUME NEW S, NEW seq \in Seq(S), NEW gone
    PROVE  /\ Without(seq, gone) \in Seq(S)
           /\ ToSet(Without(seq, gone)) = ToSet(seq) \ gone
           /\ IsInjective(seq) => IsInjective(Without(seq, gone))
<1>1. PICK g : Upto(seq, gone, Len(seq), g) /\ Without(seq, gone) = g[Len(seq)]
  <2> DEFINE g == CHOOSE f : Upto(seq, gone, Len(seq), f)
  <2>1. Upto(seq, gone, Len(seq), g)
    BY LoopEnds
  <2>2. Without(seq, gone) = g[Len(seq)]
    BY DEF Without, Upto
  <2> QED
    BY <2>1, <2>2
<1>2. \A n \in 0..Len(seq) : g[n] = IF n = 0 THEN <<>>
                                    ELSE IF seq[n] \in gone THEN g[n - 1] ELSE Append(g[n - 1], seq[n])
  BY <1>1 DEF Upto
<1>3. Len(seq) \in Nat /\ DOMAIN seq = 1..Len(seq) /\ \A i \in 1..Len(seq) : seq[i] \in S
  OBVIOUS
<1> DEFINE Seen(n) == {seq[i] : i \in 1..n}
           Good(n) == /\ g[n] \in Seq(S) /\ ToSet(g[n]) = Seen(n) \ gone
                      /\ IsInjective(seq) => IsInjective(g[n])
           T == {n \in 0..Len(seq) : ~Good(n)}
<1>4. T = {}
  <2> SUFFICES ASSUME T # {} PROVE FALSE
    OBVIOUS
  <2>1. PICK n \in T : \A k \in T : n <= k
    <3>1. T \in SUBSET Nat
      BY <1>3
    <3> HIDE DEF T
    <3> QED
      BY <3>1, LeastNat
  <2>2. n \in 0..Len(seq) /\ ~Good(n) /\ n \in Nat
    BY <1>3, <2>1
  <2>3. CASE n = 0
    <3>1. g[0] = <<>> /\ Seen(0) = {}
      BY <1>2, <1>3
    <3>2. ToSet(<<>>) = {} /\ IsInjective(<<>>)
      BY DEF ToSet, IsInjective
    <3> QED
      BY <2>2, <2>3, <3>1, <3>2
  <2>4. CASE n # 0
    <3>1. n - 1 \in 0..Len(seq) /\ n \in 1..Len(seq) /\ n - 1 \in Nat
      BY <1>3, <2>2, <2>4
    <3>2. Good(n - 1)
      <4>1. n - 1 \notin T
        <5>1. \A k \in T : n <= k
          BY <2>1
        <5> HIDE DEF T
        <5> QED
          BY <2>2, <3>1, <5>1
      <4> HIDE DEF Good
      <4> QED
        BY <3>1, <4>1
    <3>3. Seen(n) = Seen(n - 1) \cup {seq[n]}
      <4>1. \A i \in 1..n : i = n \/ i \in 1..(n - 1)
        BY <2>2
      <4>2. \A i \in 1..(n - 1) : i \in 1..n
        BY <2>2
      <4>3. n \in 1..n
        BY <2>2, <2>4
      <4> QED
        BY <4>1, <4>2, <4>3
    <3>4. IsInjective(seq) => seq[n] \notin Seen(n - 1)
      <4>1. \A i \in 1..(n - 1) : i \in 1..Len(seq) /\ i # n
        BY <1>3, <3>1
      <4> QED
        BY <1>3, <3>1, <4>1 DEF IsInjective
    <3>5. g[n] = IF seq[n] \in gone THEN g[n - 1] ELSE Append(g[n - 1], seq[n])
      BY <1>2, <2>2, <2>4
    <3>6. seq[n] \in S
      BY <1>3, <3>1
    <3> HIDE DEF Seen
    <3>7. CASE seq[n] \in gone
      BY <2>2, <3>2, <3>3, <3>5, <3>7
    <3>8. CASE seq[n] \notin gone
      BY <2>2, <3>2, <3>3, <3>4, <3>5, <3>6, <3>8, AppendList
    <3> QED
      BY <3>7, <3>8
  <2> QED
    BY <2>3, <2>4
<1>5. Good(Len(seq))
  <2> HIDE DEF Good
  <2> QED
    BY <1>3, <1>4
<1>6. Seen(Len(seq)) = ToSet(seq)
  BY <1>3 DEF ToSet
<1> QED
  BY <1>1, <1>5, <1>6

\* The chain of awaits from t, m tasks long.
Chain(t, m, g) ==
    g = [hops \in 0..m |-> IF hops = 0 THEN t
                           ELSE IF blocked[g[hops - 1]] \in Tasks THEN blocked[g[hops - 1]]
                           ELSE g[hops - 1]]

LEMMA ChainEnds ==
    ASSUME NEW t
    PROVE  \E g : Chain(t, N, g)
<1> DEFINE T == {m \in Nat : ~\E g : Chain(t, m, g)}
<1>1. T = {}
  <2> SUFFICES ASSUME T # {} PROVE FALSE
    OBVIOUS
  <2>1. PICK m \in T : \A k \in T : m <= k
    BY LeastNat
  <2>2. CASE m = 0
    <3>1. Chain(t, 0, [hops \in 0..0 |-> t])
      BY DEF Chain
    <3> QED
      BY <2>1, <2>2, <3>1
  <2>3. CASE m # 0
    <3>0. m \in Nat
      BY <2>1
    <3>1. m - 1 \in Nat /\ m - 1 \notin T
      <4>1. \A k \in T : m <= k
        BY <2>1
      <4> HIDE DEF T
      <4> QED
        BY <2>3, <3>0, <4>1
    <3>2. PICK g : Chain(t, m - 1, g)
      BY <3>1
    <3>3. \A hops \in 0..(m - 1) : g[hops] = IF hops = 0 THEN t
                                             ELSE IF blocked[g[hops - 1]] \in Tasks
                                             THEN blocked[g[hops - 1]] ELSE g[hops - 1]
      BY <3>2 DEF Chain
    <3> DEFINE last == IF blocked[g[m - 1]] \in Tasks THEN blocked[g[m - 1]] ELSE g[m - 1]
               h == [hops \in 0..m |-> IF hops = m THEN last ELSE g[hops]]
               Hop(hops) == IF hops = 0 THEN t
                            ELSE IF blocked[h[hops - 1]] \in Tasks THEN blocked[h[hops - 1]]
                            ELSE h[hops - 1]
    <3>4. ASSUME NEW hops \in 0..m
          PROVE  h[hops] = Hop(hops)
      <4>1. CASE hops = m
        <5>1. m - 1 \in 0..m /\ m - 1 # m /\ m \in 0..m
          BY <2>3, <3>0
        <5>2. h[m - 1] = g[m - 1] /\ h[m] = last
          BY <5>1
        <5> HIDE DEF h
        <5> QED
          BY <2>3, <4>1, <5>2
      <4>2. CASE hops # m
        <5>1. hops \in 0..(m - 1) /\ (hops # 0 => hops - 1 \in 0..m /\ hops - 1 # m)
          BY <3>0, <4>2
        <5>2. h[hops] = g[hops] /\ (hops # 0 => h[hops - 1] = g[hops - 1])
          BY <4>2, <5>1
        <5> HIDE DEF h
        <5> QED
          BY <3>3, <5>1, <5>2
      <4> QED
        BY <4>1, <4>2
    <3>5. h = [hops \in 0..m |-> h[hops]]
      OBVIOUS
    <3>6. h = [hops \in 0..m |-> Hop(hops)]
      <4> HIDE DEF h, Hop
      <4> QED
        BY <3>4, <3>5
    <3>7. Chain(t, m, h)
      <4> HIDE DEF h
      <4> QED
        BY <3>6 DEF Chain
    <3> QED
      BY <2>1, <3>7
  <2> QED
    BY <2>2, <2>3
<1> QED
  BY <1>1, AsyncioAssumption

LEMMA DeepestIsTask ==
    ASSUME NEW t \in Tasks
    PROVE  Deepest(t) \in Tasks
<1>1. PICK g : Chain(t, N, g) /\ Deepest(t) = g[N]
  <2> DEFINE g == CHOOSE f : Chain(t, N, f)
  <2>1. Chain(t, N, g)
    BY ChainEnds
  <2>2. Deepest(t) = g[N]
    BY DEF Deepest, Chain
  <2> QED
    BY <2>1, <2>2
<1>2. \A hops \in 0..N : g[hops] = IF hops = 0 THEN t
                                   ELSE IF blocked[g[hops - 1]] \in Tasks
                                   THEN blocked[g[hops - 1]] ELSE g[hops - 1]
  BY <1>1 DEF Chain
<1> DEFINE T == {n \in 0..N : g[n] \notin Tasks}
<1>3. N \in Nat
  BY AsyncioAssumption
<1>4. T = {}
  <2> SUFFICES ASSUME T # {} PROVE FALSE
    OBVIOUS
  <2>1. PICK n \in T : \A k \in T : n <= k
    <3>1. T \in SUBSET Nat
      BY <1>3
    <3> HIDE DEF T
    <3> QED
      BY <3>1, LeastNat
  <2>2. n \in 0..N /\ g[n] \notin Tasks /\ n \in Nat
    BY <1>3, <2>1
  <2>3. n # 0
    BY <1>2, <2>2
  <2>4. n - 1 \in 0..N /\ n - 1 \notin T
    <3>1. \A k \in T : n <= k
      BY <2>1
    <3>2. n - 1 \in 0..N
      BY <1>3, <2>2, <2>3
    <3> HIDE DEF T
    <3> QED
      BY <2>2, <3>1, <3>2
  <2>5. g[n - 1] \in Tasks
    BY <2>4
  <2> QED
    BY <1>2, <2>2, <2>3, <2>5
<1> QED
  BY <1>1, <1>3, <1>4

-----------------------------------------------------------------------------
(* What a carrier has in hand, and what its own moves leave alone *)

Ops == ({"sleep"} \X Nat) \cup ({"wait", "set", "clear"} \X Events)
           \cup ({"spawn", "join", "cancel"} \X Tasks)

LEMMA InHand ==
    ASSUME AsyncioInv, NEW c \in Carriers, pc[c] \notin {"idle", "exit"}
    PROVE  /\ cur[c] \in Tasks /\ pc[c] \in Inside \cup Late
           /\ program[cur[c]] \in Seq(Ops) /\ Len(program[cur[c]]) \in Nat
           /\ at[cur[c]] \in 1..(Len(program[cur[c]]) + 1)
<1>1. cur[c] \in Tasks /\ pc[c] \in Inside \cup Late
  BY AsyncioAssumption DEF AsyncioInv, Typed, TypeOK, Procs
<1>2. program \in [Tasks -> Seq(Ops)]
  BY AsyncioAssumption DEF AsyncioInv, Typed, Ops
<1> QED
  BY <1>1, <1>2 DEF AsyncioInv, Typed, TypeOK

\* What the op in hand may be.
LEMMA OpInHand ==
    ASSUME AsyncioInv, NEW c \in Carriers, pc[c] \notin {"idle", "exit"}, ~AtEnd(cur[c])
    PROVE  /\ at[cur[c]] + 1 \in 1..(Len(program[cur[c]]) + 1)
           /\ Op(cur[c])[1] = "sleep" => Arg(c) \in Nat
           /\ Op(cur[c])[1] \in {"wait", "set", "clear"} => Arg(c) \in Events
           /\ Op(cur[c])[1] \in {"spawn", "join", "cancel"} => Arg(c) \in Tasks
<1>1. PICK n \in Nat, k \in Nat : /\ n = Len(program[cur[c]]) /\ k = at[cur[c]]
                                  /\ 1 <= k /\ k <= n /\ cur[c] \in Tasks
                                  /\ program[cur[c]] \in Seq(Ops)
  BY InHand DEF AtEnd
<1>2. Op(cur[c]) \in Ops
  BY <1>1 DEF Op
<1>3. k + 1 \in 1..(n + 1)
  BY <1>1
<1> QED
  BY <1>1, <1>2, <1>3 DEF Ops, Arg

\* The op in hand is over.
LEMMA Advances ==
    ASSUME AsyncioInv, NEW c \in Carriers, pc[c] \notin {"idle", "exit"}, ~AtEnd(cur[c]),
           Advance(cur[c]), program' = program
    PROVE  /\ at' = [t \in Tasks |-> at'[t]]
           /\ \A t \in Tasks : at'[t] \in 1..(Len(program'[t]) + 1)
           /\ \A t \in Tasks : t # cur[c] => at'[t] = at[t]
BY InHand, OpInHand DEF AsyncioInv, Typed, TypeOK, Advance

\* A carrier moves for itself: it wakes nobody, and of a run it has for itself, or of none.
Move(c) ==
    /\ pc[c] \in {"idle", "wake"} \cup (Inside \ Waking) /\ (pc[c] = "wake" => todo[c] = <<>>)
    /\ pc' = [pc EXCEPT ![c] = pc'[c]] /\ pc'[c] \in {"idle", "exit"} \cup (Inside \ Waking)
    /\ cur' = [cur EXCEPT ![c] = IF pc'[c] \in Inside THEN @ ELSE None]
    /\ pc'[c] \in Inside => pc[c] \in Inside
    /\ program' = program /\ todo' = todo
    /\ eaten' \subseteq eaten /\ eaten \ eaten' \subseteq {cur[c]}
    /\ \A t \in Tasks : t # cur[c] =>
           /\ token'[t] = token[t] /\ raise'[t] = raise[t] /\ blocked'[t] = blocked[t]
           /\ at'[t] = at[t] /\ resumed'[t] = resumed[t] /\ done'[t] = done[t]
           /\ \/ state'[t] = state[t]
              \/ state[t] # "RUNNING" /\ state'[t] # "PARKED"
    /\ pc[c] \in Inside => IF pc'[c] \in Inside THEN state'[cur[c]] = "RUNNING"
                                                ELSE state'[cur[c]] # "PARKED"

\* What it has to keep of its own run.
Own(c) ==
    pc[c] \in Inside => \A t \in Tasks : t = cur[c] =>
        /\ (resumed'[t] => ~AtEnd(t)') /\ (blocked'[t] # None => resumed'[t])
        /\ pc'[c] = "spawn" => ~AtEnd(t)' /\ Op(t)'[1] = "spawn" /\ ~resumed'[t]
        /\ pc'[c] = "cancelEnd" => blocked'[t] = None
        /\ raise'[t] /\ blocked'[t] # None => pc'[c] \in {"block", "unblock"}
        /\ t \notin eaten' =>
               /\ pc'[c] = "block" => raise'[t] \/ Awaited(t)'
               /\ pc'[c] \in {"park", "parkCas"} => Awaited(t)'

LEMMA MoveAlone ==
    ASSUME AsyncioInv, NEW c \in Carriers, Move(c)
    PROVE  /\ c \in Procs /\ c # Edge /\ Carriers \subseteq Procs
           /\ \A p \in Procs : p # c => pc'[p] = pc[p] /\ cur'[p] = cur[p]
           /\ cur'[c] = IF pc'[c] \in Inside THEN cur[c] ELSE None
           /\ pc[c] \in Inside => cur[c] \in Tasks /\ state[cur[c]] = "RUNNING"
           /\ pc[c] \notin Inside => cur[c] = None
           /\ \A d \in Carriers : d # c /\ pc[d] \in Inside => cur[d] # cur[c] /\ cur[d] \in Tasks
<1>1. c \in Procs /\ c # Edge /\ Carriers \subseteq Procs
  BY AsyncioAssumption DEF Procs
<1>2. pc[c] = "idle" \/ pc[c] \in Inside
  BY DEF Move, Waking, Inside
<1>3. pc[c] \in Inside => cur[c] \in Tasks /\ state[cur[c]] = "RUNNING"
  BY InHand DEF AsyncioInv, Exclusive, Inside
<1>4. pc[c] \notin Inside => cur[c] = None
  BY <1>2 DEF AsyncioInv, Typed, Inside, Late
<1>5. ASSUME NEW d \in Carriers, d # c, pc[d] \in Inside
      PROVE  cur[d] # cur[c] /\ cur[d] \in Tasks
  <2>1. cur[d] \in Tasks
    BY <1>5, InHand DEF Inside
  <2> QED
    BY <1>4, <1>5, <2>1, AsyncioAssumption DEF AsyncioInv, Exclusive, Objects
<1>6. pc \in [Procs -> Pcs] /\ cur \in [Procs -> Tasks \cup {None}]
  BY DEF AsyncioInv, Typed, TypeOK
<1> QED
  BY <1>1, <1>3, <1>4, <1>5, <1>6 DEF Move

LEMMA MovePending ==
    ASSUME AsyncioInv, NEW c \in Carriers, Move(c)
    PROVE  \A p \in Procs, t \in Tasks : Pending(p, t)' <=> Pending(p, t)
<1>1. ASSUME NEW p \in Procs
      PROVE  (pc'[p] = "wakeCas" <=> pc[p] = "wakeCas") /\ todo'[p] = todo[p]
  <2>1. CASE p = c
    <3>1. pc[c] # "wakeCas" /\ pc'[c] # "wakeCas" /\ todo' = todo
      BY DEF Move, Inside, Waking
    <3> QED
      BY <2>1, <3>1
  <2>2. CASE p # c
    BY <2>2, MoveAlone DEF Move
  <2> QED
    BY <2>1, <2>2
<1> QED
  BY <1>1 DEF Pending

LEMMA MoveAwaited ==
    ASSUME AsyncioInv, NEW c \in Carriers, Move(c), NEW t \in Tasks,
           token'[t] = token[t], raise'[t] = raise[t], blocked'[t] = blocked[t]
    PROVE  Awaited(t)' <=> Awaited(t)
<1>1. (\E p \in Procs : Pending(p, t)') <=> (\E p \in Procs : Pending(p, t))
  BY MovePending
<1> QED
  BY <1>1 DEF Awaited

LEMMA MoveKeeps ==
    ASSUME AsyncioInv, NEW c \in Carriers, Move(c), Own(c)
    PROVE  Exclusive' /\ Positions' /\ Lists' /\ Deposits' /\ Retiring' /\ NobodyForgotten'
<1>0. /\ c \in Procs /\ c # Edge /\ Carriers \subseteq Procs
      /\ \A p \in Procs : p # c => pc'[p] = pc[p] /\ cur'[p] = cur[p]
      /\ cur'[c] = IF pc'[c] \in Inside THEN cur[c] ELSE None
      /\ pc[c] \in Inside => cur[c] \in Tasks /\ state[cur[c]] = "RUNNING"
      /\ pc[c] \notin Inside => cur[c] = None
      /\ \A d \in Carriers : d # c /\ pc[d] \in Inside => cur[d] # cur[c] /\ cur[d] \in Tasks
  BY MoveAlone
<1>a. None \notin Tasks
  BY AsyncioAssumption DEF Objects
<1>1. Exclusive'
  <2> SUFFICES ASSUME NEW d \in Carriers, pc'[d] \in Inside
               PROVE  /\ state'[cur'[d]] = "RUNNING"
                      /\ \A e \in Carriers : pc'[e] \in Inside /\ cur'[e] = cur'[d] => e = d
    BY DEF Exclusive
  <2>1. \A e \in Carriers : pc'[e] \in Inside => pc[e] \in Inside /\ cur'[e] = cur[e]
    BY <1>0 DEF Move
  <2>2. state'[cur'[d]] = "RUNNING"
    BY <1>0, <2>1 DEF Move, AsyncioInv, Exclusive
  <2> QED
    BY <2>1, <2>2 DEF AsyncioInv, Exclusive
<1>2. Positions'
  <2>1. ASSUME NEW t \in Tasks
        PROVE  (resumed'[t] => ~AtEnd(t)') /\ (blocked'[t] # None => resumed'[t])
    <3>1. CASE t = cur[c]
      <4>1. pc[c] \in Inside
        BY <1>0, <1>a, <3>1
      <4> QED
        BY <3>1, <4>1 DEF Own
    <3>2. CASE t # cur[c]
      BY <3>2 DEF AsyncioInv, Positions, Move, AtEnd
    <3> QED
      BY <3>1, <3>2
  <2>2. ASSUME NEW d \in Carriers
        PROVE  /\ pc'[d] = "spawn" => /\ ~AtEnd(cur[d])' /\ Op(cur[d])'[1] = "spawn"
                                      /\ ~resumed'[cur[d]] /\ cur'[d] = cur[d]
               /\ pc'[d] \in Waking /\ ~done'[cur[d]] => ~AtEnd(cur[d])' /\ ~resumed'[cur[d]]
               /\ pc'[d] \in Waking \cup {"cancelEnd"} => cur'[d] = cur[d]
               /\ pc'[d] = "cancelEnd" => blocked'[cur[d]] = None
    <3>1. CASE d = c
      BY <1>0, <3>1 DEF Own, Move, Inside, Waking
    <3>2. CASE d # c
      <4>1. pc'[d] = pc[d] /\ cur'[d] = cur[d]
        BY <1>0, <3>2
      <4>2. CASE pc[d] \in Inside
        <5>1. cur[d] \in Tasks /\ cur[d] # cur[c]
          BY <1>0, <3>2, <4>2
        <5>2. /\ at'[cur[d]] = at[cur[d]] /\ resumed'[cur[d]] = resumed[cur[d]] /\ program' = program
              /\ done'[cur[d]] = done[cur[d]] /\ blocked'[cur[d]] = blocked[cur[d]]
          BY <5>1 DEF Move
        <5> QED
          BY <4>1, <5>2 DEF AsyncioInv, Positions, AtEnd, Op
      <4>3. CASE pc[d] \notin Inside
        BY <4>1, <4>3 DEF Inside, Waking
      <4> QED
        BY <4>2, <4>3
    <3> QED
      BY <3>1, <3>2
  <2> QED
    BY <2>1, <2>2 DEF Positions, AtEnd, Op
<1>3. Lists'
  <2>1. \A p \in Procs : p # c => pc'[p] = pc[p] /\ todo'[p] = todo[p]
    BY <1>0 DEF Move
  <2>2. todo[c] = <<>> /\ todo'[c] = <<>> /\ pc'[c] \notin Waking
    BY <1>0 DEF Move, AsyncioInv, Lists, Inside, Waking
  <2> QED
    BY <2>1, <2>2 DEF AsyncioInv, Lists, Waking
<1>4. Deposits'
  <2> SUFFICES ASSUME NEW t \in Tasks, raise'[t], blocked'[t] # None
               PROVE  \E d \in Carriers : cur'[d] = t /\ pc'[d] \in {"block", "unblock"}
    BY DEF Deposits
  <2>1. CASE t = cur[c]
    BY <1>0, <1>a, <2>1 DEF Own, Inside
  <2>2. CASE t # cur[c]
    <3>1. raise[t] /\ blocked[t] # None
      BY <2>2 DEF Move
    <3>2. PICK d \in Carriers : cur[d] = t /\ pc[d] \in {"block", "unblock"}
      BY <3>1 DEF AsyncioInv, Deposits
    <3> QED
      BY <1>0, <2>2, <3>2
  <2> QED
    BY <2>1, <2>2
<1>5. Retiring'
  <2> SUFFICES ASSUME NEW d \in Carriers, NEW t \in Tasks, cur'[d] = t, t \notin eaten'
               PROVE  /\ pc'[d] = "block" => raise'[t] \/ Awaited(t)'
                      /\ pc'[d] \in {"park", "parkCas"} => Awaited(t)'
    BY DEF Retiring
  <2>1. CASE d = c
    <3>1. pc'[c] \in Inside /\ cur[c] = t /\ pc[c] \in Inside
      BY <1>0, <1>a, <2>1 DEF Move
    <3> QED
      BY <2>1, <3>1 DEF Own
  <2>2. CASE d # c /\ pc[d] \in {"block", "park", "parkCas"}
    <3>1. pc'[d] = pc[d] /\ cur[d] = t /\ cur[d] # cur[c]
      BY <1>0, <2>2 DEF Inside
    <3>2. /\ t \notin eaten
          /\ token'[t] = token[t] /\ raise'[t] = raise[t] /\ blocked'[t] = blocked[t]
      BY <3>1 DEF Move
    <3>3. Awaited(t)' <=> Awaited(t)
      BY <3>2, MoveAwaited
    <3> QED
      BY <2>2, <3>1, <3>2, <3>3 DEF AsyncioInv, Retiring
  <2>3. CASE d # c /\ pc[d] \notin {"block", "park", "parkCas"}
    BY <1>0, <2>3
  <2> QED
    BY <2>1, <2>2, <2>3
<1>6. NobodyForgotten'
  <2> SUFFICES ASSUME NEW t \in Tasks, state'[t] = "PARKED"
               PROVE  (blocked'[t] # None /\ ~raise'[t]) \/ WakeOnTheWay(t)' \/ t \in eaten'
    BY DEF NobodyForgotten
  <2>1. t # cur[c]
    BY <1>0, <1>a DEF Move
  <2>2. /\ state[t] = "PARKED" /\ blocked'[t] = blocked[t] /\ raise'[t] = raise[t]
        /\ token'[t] = token[t] /\ (t \in eaten => t \in eaten')
    BY <2>1 DEF Move
  <2>3. WakeOnTheWay(t) => WakeOnTheWay(t)'
    BY <1>0, <2>1, <2>2 DEF WakeOnTheWay, Move
  <2> QED
    BY <2>2, <2>3 DEF AsyncioInv, NobodyForgotten
<1> QED
  BY <1>1, <1>2, <1>3, <1>4, <1>5, <1>6

-----------------------------------------------------------------------------
(* The steps a carrier takes for itself *)

\* A carrier inside a step has its run for itself, and no deposit its task would sleep on.
LEMMA HasRun ==
    ASSUME AsyncioInv, NEW c \in Carriers, pc[c] \in Inside
    PROVE  /\ cur[c] \in Tasks /\ c \in Procs /\ c # Edge /\ state[cur[c]] = "RUNNING"
           /\ raise[cur[c]] /\ blocked[cur[c]] # None => pc[c] \in {"block", "unblock"}
           /\ pc[c] \notin Waking => todo[c] = <<>>
<1>1. cur[c] \in Tasks /\ c \in Procs /\ c # Edge /\ state[cur[c]] = "RUNNING"
  BY InHand, AsyncioAssumption DEF AsyncioInv, Exclusive, Inside, Procs
<1>2. ASSUME raise[cur[c]], blocked[cur[c]] # None PROVE pc[c] \in {"block", "unblock"}
  <2>1. PICK d \in Carriers : cur[d] = cur[c] /\ pc[d] \in {"block", "unblock"}
    BY <1>1, <1>2 DEF AsyncioInv, Deposits
  <2> QED
    BY <2>1 DEF AsyncioInv, Exclusive, Inside
<1> QED
  BY <1>1, <1>2 DEF AsyncioInv, Lists

\* A carrier that goes on in its step.
LEMMA GoesOn ==
    ASSUME AsyncioInv, NEW c \in Carriers, pc[c] \in Inside, NEW l \in Inside \cup Late,
           pc' = [pc EXCEPT ![c] = l], cur' = cur
    PROVE  /\ pc' \in [Procs -> Pcs] /\ pc'[c] = l /\ \A p \in Procs : p # c => pc'[p] = pc[p]
           /\ \A d \in Carriers : IF cur'[d] = None THEN pc'[d] \in {"idle", "exit"}
                                                    ELSE pc'[d] \in Inside \cup Late
           /\ pc'[Edge] = pc[Edge]
<1>0. cur[c] \in Tasks /\ c \in Procs /\ c # Edge /\ None \notin Tasks
  BY HasRun, AsyncioAssumption DEF Objects
<1>1. l \in Pcs
  BY DEF Inside, Late, Pcs
<1>2. pc' \in [Procs -> Pcs] /\ pc'[c] = l /\ \A p \in Procs : p # c => pc'[p] = pc[p]
  BY <1>0, <1>1 DEF AsyncioInv, Typed, TypeOK
<1> QED
  BY <1>0, <1>2 DEF AsyncioInv, Typed, Procs

LEMMA ExitKeeps ==
    ASSUME AsyncioInv, NEW c \in Carriers, Exit(c)
    PROVE  AsyncioInv'
<1>0. c \in Procs /\ c # Edge /\ cur[c] = None
  BY AsyncioAssumption DEF Procs, Exit, AsyncioInv, Typed, Inside, Late
<1>1. Typed'
  BY <1>0
  DEF AsyncioInv, Typed, TypeOK, Exit, Goto, words, loop, scan, report, history, Pcs, Inside,
      Late
<1>2. OneRegistration' /\ NoTimerPast'
  BY DEF AsyncioInv, OneRegistration, NoTimerPast, Exit, loop
<1>3. Move(c)
  BY <1>0
  DEF AsyncioInv, Typed, TypeOK, Lists, Move, Exit, Goto, words, loop, scan, report, history,
      Inside, Waking
<1>4. Own(c)
  BY <1>0
  DEF AsyncioInv, Typed, TypeOK, Positions, Own, Exit, Goto, words, loop, report, history, AtEnd,
      Op, Awaited, Inside, Waking
<1> QED
  BY <1>1, <1>2, <1>3, <1>4, MoveKeeps DEF AsyncioInv

LEMMA PollKeeps ==
    ASSUME AsyncioInv, NEW c \in Carriers, Poll(c)
    PROVE  AsyncioInv'
<1>0. /\ cur[c] \in Tasks /\ c \in Procs /\ c # Edge /\ state[cur[c]] = "RUNNING"
      /\ pc[c] \in Inside /\ (raise[cur[c]] /\ blocked[cur[c]] # None => pc[c] \in {"block", "unblock"})
  BY HasRun DEF Poll, Inside
<1>1. Typed'
  BY <1>0
  DEF AsyncioInv, Typed, TypeOK, Poll, Goto, words, loop, scan, report, history, Pcs, Inside,
      Late
<1>2. OneRegistration' /\ NoTimerPast'
  BY DEF AsyncioInv, OneRegistration, NoTimerPast, Poll, loop
<1>3. Move(c)
  BY <1>0
  DEF AsyncioInv, Typed, TypeOK, Lists, Move, Poll, Goto, words, loop, scan, report, history,
      Inside, Waking
<1>4. Own(c)
  BY <1>0
  DEF AsyncioInv, Typed, TypeOK, Positions, Own, Poll, Goto, words, loop, report, history, AtEnd,
      Op, Awaited, Inside, Waking
<1> QED
  BY <1>1, <1>2, <1>3, <1>4, MoveKeeps DEF AsyncioInv

LEMMA TerminalKeeps ==
    ASSUME AsyncioInv, NEW c \in Carriers, Terminal(c)
    PROVE  AsyncioInv'
<1>0. /\ cur[c] \in Tasks /\ c \in Procs /\ c # Edge /\ state[cur[c]] = "RUNNING"
      /\ pc[c] \in Inside /\ (raise[cur[c]] /\ blocked[cur[c]] # None => pc[c] \in {"block", "unblock"})
  BY HasRun DEF Terminal, Inside
<1>1. Typed'
  BY <1>0
  DEF AsyncioInv, Typed, TypeOK, Terminal, Goto, Leave, Becomes, words, loop, scan, report,
      history, Pcs, Inside, Late
<1>2. OneRegistration' /\ NoTimerPast'
  BY DEF AsyncioInv, OneRegistration, NoTimerPast, Terminal, loop
<1>3. Move(c)
  BY <1>0
  DEF AsyncioInv, Typed, TypeOK, Lists, Move, Terminal, Goto, Leave, Becomes, words, loop, scan,
      report, history, Inside, Waking
<1>4. Own(c)
  BY <1>0
  DEF AsyncioInv, Typed, TypeOK, Positions, Own, Terminal, Goto, Leave, Becomes, words, loop,
      report, history, AtEnd, Op, Awaited, Inside, Waking
<1> QED
  BY <1>1, <1>2, <1>3, <1>4, MoveKeeps DEF AsyncioInv

LEMMA ServedKeeps ==
    ASSUME AsyncioInv, NEW c \in Carriers, Served(c)
    PROVE  AsyncioInv'
<1>0. /\ cur[c] \in Tasks /\ c \in Procs /\ c # Edge /\ state[cur[c]] = "RUNNING"
      /\ pc[c] \in Inside /\ (raise[cur[c]] /\ blocked[cur[c]] # None => pc[c] \in {"block", "unblock"})
  BY HasRun DEF Served, Inside
<1>a. /\ at' = [t \in Tasks |-> at'[t]] /\ \A t \in Tasks : at'[t] \in 1..(Len(program'[t]) + 1)
      /\ \A t \in Tasks : t # cur[c] => at'[t] = at[t]
  BY <1>0, Advances DEF Served, IsOp, Inside
<1>1. Typed'
  BY <1>0, <1>a
  DEF AsyncioInv, Typed, TypeOK, Served, Goto, words, loop, scan, report, history, Pcs, Inside,
      Late
<1>2. OneRegistration' /\ NoTimerPast'
  BY DEF AsyncioInv, OneRegistration, NoTimerPast, Served, loop
<1>3. Move(c)
  BY <1>0, <1>a
  DEF AsyncioInv, Typed, TypeOK, Lists, Move, Served, Goto, words, loop, scan, report, history,
      Inside, Waking
<1>4. Own(c)
  BY <1>0, <1>a
  DEF AsyncioInv, Typed, TypeOK, Positions, Own, Served, Goto, words, loop, report, history,
      AtEnd, Op, Awaited, Inside, Waking
<1> QED
  BY <1>1, <1>2, <1>3, <1>4, MoveKeeps DEF AsyncioInv

LEMMA NotServedKeeps ==
    ASSUME AsyncioInv, NEW c \in Carriers, NotServed(c)
    PROVE  AsyncioInv'
<1>0. /\ cur[c] \in Tasks /\ c \in Procs /\ c # Edge /\ state[cur[c]] = "RUNNING"
      /\ pc[c] \in Inside /\ (raise[cur[c]] /\ blocked[cur[c]] # None => pc[c] \in {"block", "unblock"})
  BY HasRun DEF NotServed, Inside
<1>1. Typed'
  BY <1>0
  DEF AsyncioInv, Typed, TypeOK, NotServed, Goto, words, loop, scan, report, history, Pcs,
      Inside, Late
<1>2. OneRegistration' /\ NoTimerPast'
  BY DEF AsyncioInv, OneRegistration, NoTimerPast, NotServed, loop
<1>3. Move(c)
  BY <1>0
  DEF AsyncioInv, Typed, TypeOK, Lists, Move, NotServed, Goto, words, loop, scan, report,
      history, Inside, Waking
<1>4. Own(c)
  BY <1>0
  DEF AsyncioInv, Typed, TypeOK, Positions, Own, NotServed, Goto, words, loop, report, history,
      AtEnd, Op, Awaited, Inside, Waking
<1> QED
  BY <1>1, <1>2, <1>3, <1>4, MoveKeeps DEF AsyncioInv

LEMMA SpawnKeeps ==
    ASSUME AsyncioInv, NEW c \in Carriers, Spawn(c)
    PROVE  AsyncioInv'
<1>0. /\ cur[c] \in Tasks /\ c \in Procs /\ c # Edge /\ state[cur[c]] = "RUNNING"
      /\ pc[c] \in Inside /\ (raise[cur[c]] /\ blocked[cur[c]] # None => pc[c] \in {"block", "unblock"})
  BY HasRun DEF Spawn, Inside, IsOp, Passed
<1>1. Typed'
  BY <1>0
  DEF AsyncioInv, Typed, TypeOK, Spawn, Goto, IsOp, words, loop, scan, report, history, Pcs,
      Inside, Late
<1>2. OneRegistration' /\ NoTimerPast'
  BY DEF AsyncioInv, OneRegistration, NoTimerPast, Spawn, loop
<1>3. Move(c)
  BY <1>0
  DEF AsyncioInv, Typed, TypeOK, Lists, Move, Spawn, Goto, IsOp, words, loop, scan, report,
      history, Inside, Waking
<1>4. Own(c)
  BY <1>0
  DEF AsyncioInv, Typed, TypeOK, Positions, Own, Spawn, Goto, IsOp, words, loop, report, history,
      AtEnd, Op, Awaited, Inside, Waking
<1> QED
  BY <1>1, <1>2, <1>3, <1>4, MoveKeeps DEF AsyncioInv

LEMMA SpawnCasKeeps ==
    ASSUME AsyncioInv, NEW c \in Carriers, SpawnCas(c)
    PROVE  AsyncioInv'
<1>0. /\ cur[c] \in Tasks /\ c \in Procs /\ c # Edge /\ state[cur[c]] = "RUNNING"
      /\ pc[c] \in Inside /\ (raise[cur[c]] /\ blocked[cur[c]] # None => pc[c] \in {"block", "unblock"})
  BY HasRun DEF SpawnCas, Inside
<1>a. /\ at' = [t \in Tasks |-> at'[t]] /\ \A t \in Tasks : at'[t] \in 1..(Len(program'[t]) + 1)
      /\ \A t \in Tasks : t # cur[c] => at'[t] = at[t]
  BY <1>0, Advances DEF SpawnCas, Inside, AsyncioInv, Positions
<1>1. Typed'
  <2>1. state' \in [Tasks -> {"FREE", "READY", "RUNNING", "PARKED", "TERMINAL"}]
    BY DEF AsyncioInv, Typed, TypeOK, SpawnCas
  <2>2. /\ pc' \in [Procs -> Pcs] /\ pc'[c] = "op" /\ cur' = cur
        /\ \A p \in Procs : p # c => pc'[p] = pc[p]
    BY <1>0 DEF AsyncioInv, Typed, TypeOK, SpawnCas, Goto, Pcs
  <2>3. /\ \A d \in Carriers : IF cur'[d] = None THEN pc'[d] \in {"idle", "exit"}
                                                   ELSE pc'[d] \in Inside \cup Late
        /\ pc'[Edge] = pc[Edge]
    BY <1>0, <2>2, AsyncioAssumption DEF AsyncioInv, Typed, Inside, Late, Objects, Procs
  <2> QED
    BY <1>a, <2>1, <2>2, <2>3
    DEF AsyncioInv, Typed, TypeOK, SpawnCas, words, loop, scan, report, history
<1>2. OneRegistration' /\ NoTimerPast'
  BY DEF AsyncioInv, OneRegistration, NoTimerPast, SpawnCas, loop
<1>3. Move(c)
  BY <1>0, <1>a
  DEF AsyncioInv, Typed, TypeOK, Lists, Move, SpawnCas, Goto, words, loop, scan, report, history,
      Inside, Waking
<1>4. Own(c)
  <2>1. pc'[c] = "op"
    BY <1>0 DEF AsyncioInv, Typed, TypeOK, SpawnCas, Goto
  <2>2. resumed' = resumed /\ raise' = raise /\ blocked' = blocked
    BY DEF SpawnCas, loop
  <2>3. ~resumed[cur[c]] /\ blocked[cur[c]] = None
    BY <1>0 DEF AsyncioInv, Positions, SpawnCas
  <2> QED
    BY <1>0, <2>1, <2>2, <2>3 DEF Own
<1> QED
  BY <1>1, <1>2, <1>3, <1>4, MoveKeeps DEF AsyncioInv

LEMMA ClearKeeps ==
    ASSUME AsyncioInv, NEW c \in Carriers, Clear(c)
    PROVE  AsyncioInv'
<1>0. /\ cur[c] \in Tasks /\ c \in Procs /\ c # Edge /\ state[cur[c]] = "RUNNING"
      /\ pc[c] \in Inside /\ (raise[cur[c]] /\ blocked[cur[c]] # None => pc[c] \in {"block", "unblock"})
  BY HasRun DEF Clear, Inside, IsOp, Passed
<1>a. /\ at' = [t \in Tasks |-> at'[t]] /\ \A t \in Tasks : at'[t] \in 1..(Len(program'[t]) + 1)
      /\ \A t \in Tasks : t # cur[c] => at'[t] = at[t]
  BY <1>0, Advances DEF Clear, IsOp, Inside
<1>1. Typed'
  BY <1>0, <1>a
  DEF AsyncioInv, Typed, TypeOK, Clear, Goto, IsOp, words, loop, scan, report, history, Pcs,
      Inside, Late
<1>2. OneRegistration' /\ NoTimerPast'
  BY DEF AsyncioInv, OneRegistration, NoTimerPast, Clear, loop
<1>3. Move(c)
  BY <1>0, <1>a
  DEF AsyncioInv, Typed, TypeOK, Lists, Move, Clear, Goto, IsOp, words, loop, scan, report,
      history, Inside, Waking
<1>4. Own(c)
  BY <1>0, <1>a
  DEF AsyncioInv, Typed, TypeOK, Positions, Own, Clear, Goto, IsOp, words, loop, report, history,
      AtEnd, Op, Awaited, Inside, Waking
<1> QED
  BY <1>1, <1>2, <1>3, <1>4, MoveKeeps DEF AsyncioInv

LEMMA CancelDoneKeeps ==
    ASSUME AsyncioInv, NEW c \in Carriers, CancelDone(c)
    PROVE  AsyncioInv'
<1>0. /\ cur[c] \in Tasks /\ c \in Procs /\ c # Edge /\ state[cur[c]] = "RUNNING"
      /\ pc[c] \in Inside /\ (raise[cur[c]] /\ blocked[cur[c]] # None => pc[c] \in {"block", "unblock"})
  BY HasRun DEF CancelDone, Inside, IsOp, Passed
<1>a. /\ at' = [t \in Tasks |-> at'[t]] /\ \A t \in Tasks : at'[t] \in 1..(Len(program'[t]) + 1)
      /\ \A t \in Tasks : t # cur[c] => at'[t] = at[t]
  BY <1>0, Advances DEF CancelDone, IsOp, Inside
<1>1. Typed'
  BY <1>0, <1>a
  DEF AsyncioInv, Typed, TypeOK, CancelDone, Goto, IsOp, words, loop, scan, report, history, Pcs,
      Inside, Late
<1>2. OneRegistration' /\ NoTimerPast'
  BY DEF AsyncioInv, OneRegistration, NoTimerPast, CancelDone, loop
<1>3. Move(c)
  BY <1>0, <1>a
  DEF AsyncioInv, Typed, TypeOK, Lists, Move, CancelDone, Goto, IsOp, words, loop, scan, report,
      history, Inside, Waking
<1>4. Own(c)
  BY <1>0, <1>a
  DEF AsyncioInv, Typed, TypeOK, Positions, Own, CancelDone, Goto, IsOp, words, loop, report,
      history, AtEnd, Op, Awaited, Inside, Waking
<1> QED
  BY <1>1, <1>2, <1>3, <1>4, MoveKeeps DEF AsyncioInv

LEMMA YieldKeeps ==
    ASSUME AsyncioInv, NEW c \in Carriers, Yield(c)
    PROVE  AsyncioInv'
<1>0. /\ cur[c] \in Tasks /\ c \in Procs /\ c # Edge /\ state[cur[c]] = "RUNNING"
      /\ pc[c] \in Inside /\ (raise[cur[c]] /\ blocked[cur[c]] # None => pc[c] \in {"block", "unblock"})
  BY HasRun DEF Yield, Inside, IsOp, Passed
<1>a. /\ at' = [t \in Tasks |-> at'[t]] /\ \A t \in Tasks : at'[t] \in 1..(Len(program'[t]) + 1)
      /\ \A t \in Tasks : t # cur[c] => at'[t] = at[t]
  BY <1>0, Advances DEF Yield, IsOp, Inside
<1>1. Typed'
  BY <1>0, <1>a
  DEF AsyncioInv, Typed, TypeOK, Yield, Goto, IsOp, words, loop, scan, report, history, Pcs,
      Inside, Late
<1>2. OneRegistration' /\ NoTimerPast'
  BY DEF AsyncioInv, OneRegistration, NoTimerPast, Yield, loop
<1>3. Move(c)
  BY <1>0, <1>a
  DEF AsyncioInv, Typed, TypeOK, Lists, Move, Yield, Goto, IsOp, words, loop, scan, report,
      history, Inside, Waking
<1>4. Own(c)
  BY <1>0, <1>a
  DEF AsyncioInv, Typed, TypeOK, Positions, Own, Yield, Goto, IsOp, words, loop, report, history,
      AtEnd, Op, Awaited, Inside, Waking
<1> QED
  BY <1>1, <1>2, <1>3, <1>4, MoveKeeps DEF AsyncioInv

LEMMA PassOnKeeps ==
    ASSUME AsyncioInv, NEW c \in Carriers, PassOn(c)
    PROVE  AsyncioInv'
<1>0. /\ cur[c] \in Tasks /\ c \in Procs /\ c # Edge /\ state[cur[c]] = "RUNNING"
      /\ pc[c] \in Inside /\ (raise[cur[c]] /\ blocked[cur[c]] # None => pc[c] \in {"block", "unblock"})
  BY HasRun DEF PassOn, Inside, IsOp, Passed
<1>a. /\ at' = [t \in Tasks |-> at'[t]] /\ \A t \in Tasks : at'[t] \in 1..(Len(program'[t]) + 1)
      /\ \A t \in Tasks : t # cur[c] => at'[t] = at[t]
  BY <1>0, Advances DEF PassOn, IsOp, Passed, Inside
<1>1. Typed'
  BY <1>0, <1>a
  DEF AsyncioInv, Typed, TypeOK, PassOn, Goto, IsOp, Passed, words, loop, scan, report, history,
      Pcs, Inside, Late
<1>2. OneRegistration' /\ NoTimerPast'
  BY DEF AsyncioInv, OneRegistration, NoTimerPast, PassOn, loop
<1>3. Move(c)
  BY <1>0, <1>a
  DEF AsyncioInv, Typed, TypeOK, Lists, Move, PassOn, Goto, IsOp, Passed, words, loop, scan,
      report, history, Inside, Waking
<1>4. Own(c)
  BY <1>0, <1>a
  DEF AsyncioInv, Typed, TypeOK, Positions, Own, PassOn, Goto, IsOp, Passed, words, loop, report,
      history, AtEnd, Op, Awaited, Inside, Waking
<1> QED
  BY <1>1, <1>2, <1>3, <1>4, MoveKeeps DEF AsyncioInv

LEMMA BlockKeeps ==
    ASSUME AsyncioInv, NEW c \in Carriers, Block(c)
    PROVE  AsyncioInv'
<1>0. /\ cur[c] \in Tasks /\ c \in Procs /\ c # Edge /\ state[cur[c]] = "RUNNING"
      /\ pc[c] \in Inside /\ (raise[cur[c]] /\ blocked[cur[c]] # None => pc[c] \in {"block", "unblock"})
  BY HasRun DEF Block, Inside
<1>1. Typed'
  BY <1>0
  DEF AsyncioInv, Typed, TypeOK, Block, Goto, words, loop, scan, report, history, Pcs, Inside,
      Late
<1>2. OneRegistration' /\ NoTimerPast'
  BY DEF AsyncioInv, OneRegistration, NoTimerPast, Block, loop
<1>3. Move(c)
  BY <1>0
  DEF AsyncioInv, Typed, TypeOK, Lists, Move, Block, Goto, words, loop, scan, report, history,
      Inside, Waking
<1>4. Own(c)
  <2> SUFFICES ASSUME NEW t \in Tasks, t = cur[c]
               PROVE  /\ (resumed'[t] => ~AtEnd(t)') /\ (blocked'[t] # None => resumed'[t])
                      /\ raise'[t] /\ blocked'[t] # None => pc'[c] \in {"block", "unblock"}
                      /\ t \notin eaten' /\ pc'[c] = "park" => Awaited(t)'
                      /\ pc'[c] \in {"park", "unblock"}
    BY <1>0 DEF Own
  <2>1. /\ pc'[c] = (IF raise[t] THEN "unblock" ELSE "park") /\ raise' = raise
        /\ blocked' = blocked /\ resumed' = resumed /\ at' = at /\ program' = program
        /\ token' = token /\ eaten' = eaten
    BY <1>0 DEF AsyncioInv, Typed, TypeOK, Block, Goto, words, loop, report, history
  <2>2. t \notin eaten /\ ~raise[t] => Awaited(t)
    BY DEF AsyncioInv, Retiring, Block
  <2>3. Awaited(t)' <=> Awaited(t)
    BY <1>3, <2>1, MoveAwaited
  <2> QED
    BY <2>1, <2>2, <2>3 DEF AsyncioInv, Positions, AtEnd
<1> QED
  BY <1>1, <1>2, <1>3, <1>4, MoveKeeps DEF AsyncioInv

LEMMA ParkKeeps ==
    ASSUME AsyncioInv, NEW c \in Carriers, Park(c)
    PROVE  AsyncioInv'
<1>0. /\ cur[c] \in Tasks /\ c \in Procs /\ c # Edge /\ state[cur[c]] = "RUNNING"
      /\ pc[c] \in Inside /\ (raise[cur[c]] /\ blocked[cur[c]] # None => pc[c] \in {"block", "unblock"})
  BY HasRun DEF Park, Inside
<1>1. Typed'
  BY <1>0
  DEF AsyncioInv, Typed, TypeOK, Park, Goto, words, loop, scan, report, history, Pcs, Inside,
      Late
<1>2. OneRegistration' /\ NoTimerPast'
  BY DEF AsyncioInv, OneRegistration, NoTimerPast, Park, loop
<1>3. Move(c)
  BY <1>0
  DEF AsyncioInv, Typed, TypeOK, Lists, Move, Park, Goto, words, loop, scan, report, history,
      Inside, Waking
<1>4. Own(c)
  <2> SUFFICES ASSUME NEW t \in Tasks, t = cur[c]
               PROVE  /\ (resumed'[t] => ~AtEnd(t)') /\ (blocked'[t] # None => resumed'[t])
                      /\ ~(raise'[t] /\ blocked'[t] # None)
                      /\ t \notin eaten' /\ pc'[c] = "parkCas" => Awaited(t)'
                      /\ pc'[c] \in {"again", "parkCas"}
    BY <1>0 DEF Own
  <2>1. /\ pc'[c] = (IF token[t] = 1 THEN "again" ELSE "parkCas") /\ raise' = raise
        /\ blocked' = blocked /\ resumed' = resumed /\ at' = at /\ program' = program
        /\ eaten' = eaten /\ ~(raise[t] /\ blocked[t] # None)
    BY <1>0 DEF AsyncioInv, Typed, TypeOK, Park, Goto, words, loop, report, history
  <2>2. ASSUME t \notin eaten, token[t] # 1 PROVE Awaited(t)'
    <3>1. (blocked[t] # None /\ ~raise[t]) \/ \E p \in Procs : Pending(p, t)
      BY <2>2 DEF AsyncioInv, Retiring, Awaited, Park
    <3>2. (\E p \in Procs : Pending(p, t)) => \E p \in Procs : Pending(p, t)'
      BY <1>3, MovePending
    <3> QED
      BY <2>1, <3>1, <3>2 DEF Awaited
  <2> QED
    BY <2>1, <2>2 DEF AsyncioInv, Positions, AtEnd
<1> QED
  BY <1>1, <1>2, <1>3, <1>4, MoveKeeps DEF AsyncioInv

LEMMA AgainKeeps ==
    ASSUME AsyncioInv, NEW c \in Carriers, Again(c)
    PROVE  AsyncioInv'
<1>0. /\ cur[c] \in Tasks /\ c \in Procs /\ c # Edge /\ state[cur[c]] = "RUNNING"
      /\ pc[c] \in Inside /\ (raise[cur[c]] /\ blocked[cur[c]] # None => pc[c] \in {"block", "unblock"})
  BY HasRun DEF Again, Inside
<1>1. Typed'
  BY <1>0
  DEF AsyncioInv, Typed, TypeOK, Again, Goto, Leave, Becomes, words, loop, scan, report, history,
      Pcs, Inside, Late
<1>2. OneRegistration' /\ NoTimerPast'
  BY DEF AsyncioInv, OneRegistration, NoTimerPast, Again, loop
<1>3. Move(c)
  BY <1>0
  DEF AsyncioInv, Typed, TypeOK, Lists, Move, Again, Goto, Leave, Becomes, words, loop, scan,
      report, history, Inside, Waking
<1>4. Own(c)
  BY <1>0
  DEF AsyncioInv, Typed, TypeOK, Positions, Own, Again, Goto, Leave, Becomes, words, loop,
      report, history, AtEnd, Op, Awaited, Inside, Waking
<1> QED
  BY <1>1, <1>2, <1>3, <1>4, MoveKeeps DEF AsyncioInv

LEMMA WakesDoneKeeps ==
    ASSUME AsyncioInv, NEW c \in Carriers, WakesDone(c)
    PROVE  AsyncioInv'
<1>0. /\ cur[c] \in Tasks /\ c \in Procs /\ c # Edge /\ state[cur[c]] = "RUNNING"
      /\ pc[c] \in Inside /\ (raise[cur[c]] /\ blocked[cur[c]] # None => pc[c] \in {"block", "unblock"})
  BY HasRun DEF WakesDone, Inside
<1>a. /\ pc' = [pc EXCEPT ![c] = pc'[c]] /\ pc'[c] = (IF done[cur[c]] THEN "end" ELSE "op")
      /\ at' = [t \in Tasks |-> at'[t]] /\ \A t \in Tasks : at'[t] \in 1..(Len(program'[t]) + 1)
      /\ \A t \in Tasks : t # cur[c] => at'[t] = at[t]
      /\ done[cur[c]] => at' = at
      /\ ~done[cur[c]] => ~resumed[cur[c]]
  <2>1. CASE done[cur[c]]
    BY <1>0, <2>1 DEF AsyncioInv, Typed, TypeOK, WakesDone, Goto
  <2>2. CASE ~done[cur[c]]
    <3>1. ~AtEnd(cur[c]) /\ ~resumed[cur[c]]
      BY <2>2 DEF AsyncioInv, Positions, WakesDone, Waking
    <3>2. /\ at' = [t \in Tasks |-> at'[t]]
          /\ \A t \in Tasks : at'[t] \in 1..(Len(program'[t]) + 1)
          /\ \A t \in Tasks : t # cur[c] => at'[t] = at[t]
      BY <2>2, <3>1, Advances DEF WakesDone
    <3> QED
      BY <1>0, <2>2, <3>1, <3>2 DEF AsyncioInv, Typed, TypeOK, WakesDone, Goto
  <2> QED
    BY <2>1, <2>2
<1>1. Typed'
  <2>0. PICK l \in {"end", "op"} : l = pc'[c] /\ pc' = [pc EXCEPT ![c] = l]
    BY <1>a
  <2>1. pc' \in [Procs -> Pcs] /\ \A p \in Procs : p # c => pc'[p] = pc[p]
    BY <1>0, <2>0 DEF AsyncioInv, Typed, TypeOK, Pcs
  <2>2. /\ \A d \in Carriers : IF cur'[d] = None THEN pc'[d] \in {"idle", "exit"}
                                                   ELSE pc'[d] \in Inside \cup Late
        /\ pc'[Edge] = pc[Edge] /\ cur' = cur
    BY <1>0, <1>a, <2>1, AsyncioAssumption
    DEF AsyncioInv, Typed, WakesDone, Inside, Late, Objects, Procs
  <2> QED
    BY <1>a, <2>1, <2>2
    DEF AsyncioInv, Typed, TypeOK, WakesDone, words, loop, scan, report, history
<1>2. OneRegistration' /\ NoTimerPast'
  BY DEF AsyncioInv, OneRegistration, NoTimerPast, WakesDone, loop
<1>3. Move(c)
  BY <1>0, <1>a
  DEF AsyncioInv, Typed, TypeOK, Lists, Move, WakesDone, words, loop, scan, report, history,
      Inside, Waking
<1>4. Own(c)
  BY <1>0, <1>a
  DEF AsyncioInv, Typed, TypeOK, Positions, Own, WakesDone, words, loop, report, history, AtEnd,
      Op, Awaited, Inside, Waking
<1> QED
  BY <1>1, <1>2, <1>3, <1>4, MoveKeeps DEF AsyncioInv

-----------------------------------------------------------------------------
(* The loop objects *)

\* A task on nothing is put on the list of what it awaits.
LEMMA Registers ==
    ASSUME AsyncioInv, NEW t \in Tasks, NEW o \in Objects \cup {Timer}, blocked[t] = None,
           Register(t, o), timers' = IF o = Timer THEN Append(timers, t) ELSE timers
    PROVE  /\ blocked' \in [Tasks -> Objects \cup {Timer, None}] /\ blocked'[t] = o
           /\ \A u \in Tasks : u # t => blocked'[u] = blocked[u]
           /\ waiters' \in [Objects -> Seq(Tasks)] /\ timers' \in Seq(Tasks)
           /\ ToSet(timers') \subseteq ToSet(timers) \cup {t}
           /\ OneRegistration'
<1>0. /\ blocked \in [Tasks -> Objects \cup {Timer, None}] /\ timers \in Seq(Tasks)
      /\ waiters \in [Objects -> Seq(Tasks)]
      /\ o # None /\ Timer # None /\ Timer \notin Objects
  BY AsyncioAssumption DEF AsyncioInv, Typed, TypeOK
<1>1. /\ blocked' \in [Tasks -> Objects \cup {Timer, None}] /\ blocked'[t] = o
      /\ \A u \in Tasks : u # t => blocked'[u] = blocked[u]
  BY <1>0 DEF Register
<1>2. /\ timers' \in Seq(Tasks) /\ IsInjective(timers')
      /\ ToSet(timers') = {u \in Tasks : blocked'[u] = Timer}
      /\ ToSet(timers') \subseteq ToSet(timers) \cup {t}
  <2>1. IsInjective(timers) /\ ToSet(timers) = {u \in Tasks : blocked[u] = Timer} /\ t \notin ToSet(timers)
    BY <1>0 DEF AsyncioInv, OneRegistration
  <2>2. CASE o = Timer
    BY <1>0, <1>1, <2>1, <2>2, AppendList
  <2>3. CASE o # Timer
    BY <1>0, <1>1, <2>1, <2>3
  <2> QED
    BY <2>2, <2>3
<1>3. /\ waiters' \in [Objects -> Seq(Tasks)]
      /\ \A q \in Objects : /\ IsInjective(waiters'[q])
                            /\ ToSet(waiters'[q]) = {u \in Tasks : blocked'[u] = q}
  <2>1. ASSUME NEW q \in Objects
        PROVE  /\ waiters'[q] \in Seq(Tasks) /\ IsInjective(waiters'[q])
               /\ ToSet(waiters'[q]) = {u \in Tasks : blocked'[u] = q}
    <3>1. /\ IsInjective(waiters[q]) /\ ToSet(waiters[q]) = {u \in Tasks : blocked[u] = q}
          /\ t \notin ToSet(waiters[q]) /\ q # Timer /\ q # None
      BY <1>0, AsyncioAssumption DEF AsyncioInv, OneRegistration
    <3>2. CASE o = q
      <4>1. waiters'[q] = Append(waiters[q], t)
        BY <1>0, <3>1, <3>2 DEF Register
      <4> QED
        BY <1>0, <1>1, <3>1, <3>2, <4>1, AppendList
    <3>3. CASE o # q
      <4>1. waiters'[q] = waiters[q]
        BY <1>0, <3>3 DEF Register
      <4> QED
        BY <1>0, <1>1, <3>1, <3>3, <4>1
    <3> QED
      BY <3>2, <3>3
  <2>2. waiters' = [q \in Objects |-> waiters'[q]]
    BY <1>0 DEF Register
  <2> QED
    BY <2>1, <2>2
<1> QED
  BY <1>1, <1>2, <1>3 DEF OneRegistration

\* A task is taken off what it is registered on.
LEMMA Unregisters ==
    ASSUME AsyncioInv, NEW t \in Tasks, Unregister(t)
    PROVE  /\ blocked' \in [Tasks -> Objects \cup {Timer, None}] /\ blocked'[t] = None
           /\ \A u \in Tasks : u # t => blocked'[u] = blocked[u]
           /\ waiters' \in [Objects -> Seq(Tasks)] /\ timers' \in Seq(Tasks)
           /\ ToSet(timers') \subseteq ToSet(timers)
           /\ OneRegistration'
<1>0. /\ blocked \in [Tasks -> Objects \cup {Timer, None}] /\ timers \in Seq(Tasks)
      /\ waiters \in [Objects -> Seq(Tasks)]
      /\ Timer # None /\ Timer \notin Objects /\ None \notin Objects
  BY AsyncioAssumption DEF AsyncioInv, Typed, TypeOK
<1>1. /\ blocked' \in [Tasks -> Objects \cup {Timer, None}] /\ blocked'[t] = None
      /\ \A u \in Tasks : u # t => blocked'[u] = blocked[u]
  BY <1>0 DEF Unregister
<1>2. /\ timers' \in Seq(Tasks) /\ IsInjective(timers')
      /\ ToSet(timers') = {u \in Tasks : blocked'[u] = Timer}
      /\ ToSet(timers') \subseteq ToSet(timers)
  <2>1. IsInjective(timers) /\ ToSet(timers) = {u \in Tasks : blocked[u] = Timer}
    BY DEF AsyncioInv, OneRegistration
  <2>2. CASE blocked[t] = Timer
    <3>1. timers' = Without(timers, {t})
      BY <2>2 DEF Unregister
    <3>2. /\ timers' \in Seq(Tasks) /\ ToSet(timers') = ToSet(timers) \ {t}
          /\ IsInjective(timers')
      BY <1>0, <2>1, <3>1, WithoutList
    <3> QED
      BY <1>0, <1>1, <2>1, <3>2
  <2>3. CASE blocked[t] # Timer
    <3>1. timers' = timers
      BY <2>3 DEF Unregister
    <3> QED
      BY <1>0, <1>1, <2>1, <2>3, <3>1
  <2> QED
    BY <2>2, <2>3
<1>3. /\ waiters' \in [Objects -> Seq(Tasks)]
      /\ \A q \in Objects : /\ IsInjective(waiters'[q])
                            /\ ToSet(waiters'[q]) = {u \in Tasks : blocked'[u] = q}
  <2>1. ASSUME NEW q \in Objects
        PROVE  /\ waiters'[q] \in Seq(Tasks) /\ IsInjective(waiters'[q])
               /\ ToSet(waiters'[q]) = {u \in Tasks : blocked'[u] = q}
    <3>1. IsInjective(waiters[q]) /\ ToSet(waiters[q]) = {u \in Tasks : blocked[u] = q} /\ q # None
      BY <1>0 DEF AsyncioInv, OneRegistration
    <3>2. CASE blocked[t] = q
      <4>1. waiters'[q] = Without(waiters[q], {t})
        BY <1>0, <3>2 DEF Unregister
      <4>2. /\ waiters'[q] \in Seq(Tasks) /\ ToSet(waiters'[q]) = ToSet(waiters[q]) \ {t}
            /\ IsInjective(waiters'[q])
        BY <1>0, <3>1, <4>1, WithoutList
      <4> QED
        BY <1>1, <3>1, <4>2
    <3>3. CASE blocked[t] # q
      <4>1. waiters'[q] = waiters[q]
        BY <1>0, <3>3 DEF Unregister
      <4> QED
        BY <1>0, <1>1, <3>1, <3>3, <4>1
    <3> QED
      BY <3>2, <3>3
  <2>2. waiters' = [q \in Objects |-> waiters'[q]]
    BY <1>0 DEF Unregister
  <2> QED
    BY <2>1, <2>2
<1> QED
  BY <1>1, <1>2, <1>3 DEF OneRegistration

\* Everyone on o is taken off it; those taken off are whom p wakes.
LEMMA Releases ==
    ASSUME AsyncioInv, NEW p \in Procs, NEW o \in Objects, Release(p, o), timers' = timers,
           o \in Tasks => blocked[o] = None
    PROVE  /\ blocked' \in [Tasks -> Objects \cup {Timer, None}]
           /\ \A u \in Tasks : blocked'[u] = IF u \in ToSet(waiters[o]) THEN None ELSE blocked[u]
           /\ waiters' \in [Objects -> Seq(Tasks)]
           /\ todo' = [todo EXCEPT ![p] = todo'[p]] /\ todo'[p] = waiters[o]
           /\ todo' \in [Procs -> Seq(Tasks)]
           /\ OneRegistration'
<1>0. /\ blocked \in [Tasks -> Objects \cup {Timer, None}] /\ timers \in Seq(Tasks)
      /\ waiters \in [Objects -> Seq(Tasks)] /\ todo \in [Procs -> Seq(Tasks)]
      /\ Timer # None /\ Timer \notin Objects /\ None \notin Objects
  BY AsyncioAssumption DEF AsyncioInv, Typed, TypeOK
<1>1. \A u : Contains(waiters[o], u) <=> u \in ToSet(waiters[o])
  BY <1>0, OnList
<1>2. /\ blocked' \in [Tasks -> Objects \cup {Timer, None}]
      /\ \A u \in Tasks : blocked'[u] = IF u \in ToSet(waiters[o]) THEN None ELSE blocked[u]
  BY <1>0, <1>1 DEF Release
<1>3. ToSet(waiters[o]) = {u \in Tasks : blocked[u] = o}
  BY DEF AsyncioInv, OneRegistration
<1>4. IsInjective(timers') /\ ToSet(timers') = {u \in Tasks : blocked'[u] = Timer}
  BY <1>0, <1>2, <1>3 DEF AsyncioInv, OneRegistration
<1>5. ASSUME NEW q \in Objects
      PROVE  IsInjective(waiters'[q]) /\ ToSet(waiters'[q]) = {u \in Tasks : blocked'[u] = q}
  <2>1. CASE q = o
    <3>1. waiters'[q] = <<>>
      BY <1>0, <2>1 DEF Release
    <3>2. IsInjective(<<>>) /\ ToSet(<<>>) = {}
      BY DEF IsInjective, ToSet
    <3> QED
      BY <1>0, <1>2, <1>3, <2>1, <3>1, <3>2
  <2>2. CASE q # o
    <3>1. waiters'[q] = waiters[q]
      BY <1>0, <2>2 DEF Release
    <3> QED
      BY <1>0, <1>2, <1>3, <2>2, <3>1 DEF AsyncioInv, OneRegistration
  <2> QED
    BY <2>1, <2>2
<1>6. /\ waiters' \in [Objects -> Seq(Tasks)] /\ todo' \in [Procs -> Seq(Tasks)]
      /\ todo' = [todo EXCEPT ![p] = todo'[p]] /\ todo'[p] = waiters[o]
  BY <1>0 DEF Release
<1> QED
  BY <1>2, <1>4, <1>5, <1>6 DEF OneRegistration

-----------------------------------------------------------------------------
(* To sleep and back *)

\* A task that has registered its op and goes to sleep.
LEMMA AwaitMoves ==
    ASSUME AsyncioInv, NEW c \in Carriers, NEW o \in Objects \cup {Timer},
           pc[c] = "op", ~AtEnd(cur[c]), blocked[cur[c]] = None, Await(c, o),
           timers' = (IF o = Timer THEN Append(timers, cur[c]) ELSE timers),
           due' \in [Tasks -> Nat], \A t \in Tasks : t # cur[c] => due'[t] = due[t],
           o = Timer => vnow <= due'[cur[c]],
           UNCHANGED <<program, words, at, done, cancelled, evSet, vnow, scan, stop, verdict,
                       misjudged, cur, todo>>
    PROVE  AsyncioInv'
<1>0. /\ cur[c] \in Tasks /\ c \in Procs /\ c # Edge /\ state[cur[c]] = "RUNNING"
      /\ pc[c] \in Inside
  BY HasRun DEF Inside
<1>1. Register(cur[c], o) /\ o # None
  BY AsyncioAssumption DEF Await
<1>2. /\ blocked' \in [Tasks -> Objects \cup {Timer, None}] /\ blocked'[cur[c]] = o
      /\ \A u \in Tasks : u # cur[c] => blocked'[u] = blocked[u]
      /\ waiters' \in [Objects -> Seq(Tasks)] /\ timers' \in Seq(Tasks)
      /\ ToSet(timers') \subseteq ToSet(timers) \cup {cur[c]}
      /\ OneRegistration'
  BY <1>0, <1>1, Registers
<1>3. Typed'
  <2>1. "block" \in Inside \cup Late
    BY DEF Inside
  <2>2. /\ pc' \in [Procs -> Pcs] /\ pc'[Edge] = pc[Edge]
        /\ \A d \in Carriers : IF cur'[d] = None THEN pc'[d] \in {"idle", "exit"}
                                                 ELSE pc'[d] \in Inside \cup Late
    BY <1>0, <2>1, GoesOn DEF Await, Goto
  <2> QED
    BY <1>0, <1>2, <2>2 DEF AsyncioInv, Typed, TypeOK, Await, words, scan
<1>4. NoTimerPast'
  <2> SUFFICES ASSUME NEW t \in ToSet(timers') PROVE vnow' <= due'[t]
    BY DEF NoTimerPast
  <2>1. t \in Tasks /\ (t = cur[c] \/ t \in ToSet(timers)) /\ vnow' = vnow
    BY <1>0, <1>2, OnList
  <2>2. CASE t # cur[c]
    BY <2>1, <2>2 DEF AsyncioInv, NoTimerPast
  <2>3. CASE t = cur[c]
    <3>1. blocked'[t] = Timer
      BY <1>2, <2>1 DEF OneRegistration
    <3> QED
      BY <1>2, <2>1, <2>3, <3>1
  <2> QED
    BY <2>2, <2>3
<1>5. Move(c)
  BY <1>0, <1>2 DEF AsyncioInv, Typed, TypeOK, Lists, Move, Await, Goto, words, Inside, Waking
<1>6. Own(c)
  BY <1>0, <1>1, <1>2 DEF AsyncioInv, Typed, TypeOK, Own, Await, Goto, words, AtEnd, Awaited
<1> QED
  BY <1>2, <1>3, <1>4, <1>5, <1>6, MoveKeeps DEF AsyncioInv

LEMMA SleepForKeeps ==
    ASSUME AsyncioInv, NEW c \in Carriers, SleepFor(c)
    PROVE  AsyncioInv'
<1>1. /\ pc[c] = "op" /\ ~AtEnd(cur[c]) /\ cur[c] \in Tasks /\ blocked[cur[c]] = None
      /\ Await(c, Timer) /\ Timer \in Objects \cup {Timer}
  BY HasRun DEF SleepFor, IsOp, Inside, AsyncioInv, Positions
<1>2. PICK n \in Nat, v \in Nat : Arg(c) = n /\ v = vnow
  BY <1>1, OpInHand DEF SleepFor, IsOp, AsyncioInv, Typed, TypeOK
<1>3. v + n \in Nat /\ v <= v + n
  OBVIOUS
<1>4. due' = [due EXCEPT ![cur[c]] = v + n] /\ vnow <= v + n
  BY <1>2, <1>3 DEF SleepFor
<1>5. /\ due' \in [Tasks -> Nat] /\ \A t \in Tasks : t # cur[c] => due'[t] = due[t]
      /\ vnow <= due'[cur[c]]
  BY <1>1, <1>3, <1>4 DEF AsyncioInv, Typed, TypeOK
<1> QED
  BY <1>1, <1>5, AwaitMoves DEF SleepFor

LEMMA AwaitOtherKeeps ==
    ASSUME AsyncioInv, NEW c \in Carriers, AwaitOther(c)
    PROVE  AsyncioInv'
<1>1. /\ pc[c] = "op" /\ ~AtEnd(cur[c]) /\ cur[c] \in Tasks /\ blocked[cur[c]] = None
      /\ Await(c, Arg(c))
  BY HasRun DEF AwaitOther, IsOp, Inside, AsyncioInv, Positions
<1>2. Arg(c) \in Objects /\ Arg(c) # Timer
  BY <1>1, OpInHand, AsyncioAssumption DEF AwaitOther, IsOp, Objects
<1>3. due' \in [Tasks -> Nat]
  BY DEF AwaitOther, AsyncioInv, Typed, TypeOK
<1> QED
  BY <1>1, <1>2, <1>3, AwaitMoves DEF AwaitOther

LEMMA UnblockKeeps ==
    ASSUME AsyncioInv, NEW c \in Carriers, Unblock(c)
    PROVE  AsyncioInv'
<1>0. /\ cur[c] \in Tasks /\ c \in Procs /\ c # Edge /\ state[cur[c]] = "RUNNING"
      /\ pc[c] \in Inside
  BY HasRun DEF Unblock, Inside
<1>1. /\ blocked' \in [Tasks -> Objects \cup {Timer, None}] /\ blocked'[cur[c]] = None
      /\ \A u \in Tasks : u # cur[c] => blocked'[u] = blocked[u]
      /\ waiters' \in [Objects -> Seq(Tasks)] /\ timers' \in Seq(Tasks)
      /\ ToSet(timers') \subseteq ToSet(timers)
      /\ OneRegistration'
  BY <1>0, Unregisters DEF Unblock
<1>2. Typed'
  <2>1. "again" \in Inside \cup Late
    BY DEF Inside
  <2>2. /\ pc' \in [Procs -> Pcs] /\ pc'[Edge] = pc[Edge]
        /\ \A d \in Carriers : IF cur'[d] = None THEN pc'[d] \in {"idle", "exit"}
                                                 ELSE pc'[d] \in Inside \cup Late
    BY <1>0, <2>1, GoesOn DEF Unblock, Goto
  <2> QED
    BY <1>0, <1>1, <2>2 DEF AsyncioInv, Typed, TypeOK, Unblock, words, scan, report, history
<1>3. NoTimerPast'
  BY <1>1 DEF AsyncioInv, NoTimerPast, Unblock
<1>4. Move(c)
  BY <1>0, <1>1
  DEF AsyncioInv, Typed, TypeOK, Lists, Move, Unblock, Goto, words, report, history, Inside,
      Waking
<1>5. Own(c)
  BY <1>0, <1>1 DEF AsyncioInv, Typed, TypeOK, Own, Unblock, Goto, words
<1> QED
  BY <1>1, <1>2, <1>3, <1>4, <1>5, MoveKeeps DEF AsyncioInv

-----------------------------------------------------------------------------
(* The steps by which the runs of others change hands *)

LEMMA TakeKeeps ==
    ASSUME AsyncioInv, NEW c \in Carriers, NEW t \in Tasks, Take(c, t)
    PROVE  AsyncioInv'
<1>0. c \in Procs /\ c # Edge /\ None \notin Tasks /\ "poll" \in Inside /\ "poll" \in Pcs
  BY AsyncioAssumption DEF Procs, Objects, Inside, Pcs
<1>1. /\ pc' \in [Procs -> Pcs] /\ pc'[c] = "poll" /\ \A p \in Procs : p # c => pc'[p] = pc[p]
      /\ cur' \in [Procs -> Tasks \cup {None}] /\ cur'[c] = t
      /\ \A p \in Procs : p # c => cur'[p] = cur[p]
      /\ state' \in [Tasks -> {"FREE", "READY", "RUNNING", "PARKED", "TERMINAL"}]
      /\ state'[t] = "RUNNING" /\ \A u \in Tasks : u # t => state'[u] = state[u]
  BY <1>0 DEF AsyncioInv, Typed, TypeOK, Take, Goto, Becomes
<1>2. Typed'
  <2>1. \A d \in Carriers : IF cur'[d] = None THEN pc'[d] \in {"idle", "exit"}
                                              ELSE pc'[d] \in Inside \cup Late
    BY <1>0, <1>1 DEF AsyncioInv, Typed, Procs
  <2>2. pc'[Edge] = pc[Edge]
    BY <1>0, <1>1 DEF Procs
  <2> QED
    BY <1>1, <2>1, <2>2 DEF AsyncioInv, Typed, TypeOK, Take, loop, scan, report, history
<1>3. Exclusive'
  <2>1. ASSUME NEW d \in Carriers, pc'[d] \in Inside, d # c
        PROVE  pc[d] \in Inside /\ cur'[d] = cur[d] /\ cur[d] # t
    BY <1>1, <2>1 DEF AsyncioInv, Exclusive, Take, Procs
  <2>2. ASSUME NEW d \in Carriers, pc'[d] \in Inside
        PROVE  /\ state'[cur'[d]] = "RUNNING"
               /\ \A e \in Carriers : pc'[e] \in Inside /\ cur'[e] = cur'[d] => e = d
    <3>1. CASE d = c
      BY <1>1, <2>1, <3>1
    <3>2. CASE d # c
      <4>1. pc[d] \in Inside /\ cur'[d] = cur[d] /\ cur[d] # t /\ cur[d] \in Tasks
        BY <2>1, <2>2, <3>2, HasRun
      <4> QED
        BY <1>1, <2>1, <4>1 DEF AsyncioInv, Exclusive
    <3> QED
      BY <3>1, <3>2
  <2> QED
    BY <2>2 DEF Exclusive
<1>4. Positions'
  <2>1. \A d \in Carriers : pc'[d] \in Waking \cup {"spawn", "cancelEnd"} =>
            pc[d] = pc'[d] /\ cur[d] = cur'[d]
    BY <1>0, <1>1 DEF Waking, Procs
  <2> QED
    BY <2>1 DEF AsyncioInv, Positions, Take, Waking, loop, AtEnd, Op
<1>5. Lists'
  BY <1>0, <1>1 DEF AsyncioInv, Lists, Take, Waking
<1>6. Deposits'
  BY <1>1 DEF AsyncioInv, Deposits, Take, loop, Procs
<1>7. \A u \in Tasks : Awaited(u) => Awaited(u)'
  BY <1>1 DEF Take, Awaited, Pending, loop
<1>8. Retiring'
  BY <1>1, <1>7 DEF AsyncioInv, Retiring, Take, report, history, Procs
<1>9. NobodyForgotten'
  <2> SUFFICES ASSUME NEW u \in Tasks, state'[u] = "PARKED"
               PROVE  (blocked'[u] # None /\ ~raise'[u]) \/ WakeOnTheWay(u)' \/ u \in eaten'
    BY DEF NobodyForgotten
  <2>1. u # t /\ state[u] = "PARKED"
    BY <1>1
  <2>2. WakeOnTheWay(u) => WakeOnTheWay(u)'
    BY <1>1 DEF WakeOnTheWay, Take, Procs
  <2> QED
    BY <2>1, <2>2 DEF AsyncioInv, NobodyForgotten, Take, loop, report, history
<1>10. OneRegistration' /\ NoTimerPast'
  BY DEF AsyncioInv, OneRegistration, NoTimerPast, Take, loop
<1> QED
  BY <1>2, <1>3, <1>4, <1>5, <1>6, <1>8, <1>9, <1>10 DEF AsyncioInv

LEMMA ParkCasKeeps ==
    ASSUME AsyncioInv, NEW c \in Carriers, ParkCas(c)
    PROVE  AsyncioInv'
<1> DEFINE t == cur[c]
<1>0. /\ t \in Tasks /\ c \in Procs /\ c # Edge /\ state[t] = "RUNNING" /\ pc[c] \in Inside
      /\ "parkSwap" \in Inside \cup Late /\ "parkSwap" \notin Inside
  BY HasRun DEF ParkCas, Inside, Late
<1>1. /\ pc' \in [Procs -> Pcs] /\ pc'[c] = "parkSwap" /\ \A p \in Procs : p # c => pc'[p] = pc[p]
      /\ \A d \in Carriers : IF cur'[d] = None THEN pc'[d] \in {"idle", "exit"}
                                               ELSE pc'[d] \in Inside \cup Late
      /\ pc'[Edge] = pc[Edge] /\ cur' = cur
      /\ state' \in [Tasks -> {"FREE", "READY", "RUNNING", "PARKED", "TERMINAL"}]
      /\ state'[t] = "PARKED" /\ \A u \in Tasks : u # t => state'[u] = state[u]
  <2>1. /\ pc' \in [Procs -> Pcs] /\ pc'[c] = "parkSwap" /\ \A p \in Procs : p # c => pc'[p] = pc[p]
        /\ \A d \in Carriers : IF cur'[d] = None THEN pc'[d] \in {"idle", "exit"}
                                                 ELSE pc'[d] \in Inside \cup Late
        /\ pc'[Edge] = pc[Edge] /\ cur' = cur
    BY <1>0, GoesOn DEF ParkCas, Goto
  <2> QED
    BY <1>0, <2>1 DEF AsyncioInv, Typed, TypeOK, ParkCas, Becomes
<1>2. Typed'
  BY <1>1 DEF AsyncioInv, Typed, TypeOK, ParkCas, loop, scan, report, history
<1>3. Exclusive'
  <2>1. ASSUME NEW d \in Carriers, pc'[d] \in Inside
        PROVE  pc[d] \in Inside /\ cur'[d] = cur[d] /\ cur[d] # t /\ cur[d] \in Tasks
    <3>1. d # c /\ pc[d] \in Inside
      BY <1>0, <1>1, <2>1 DEF Procs
    <3> QED
      BY <1>0, <1>1, <3>1, HasRun DEF AsyncioInv, Exclusive
  <2> QED
    BY <1>1, <2>1 DEF AsyncioInv, Exclusive
<1>4. Positions'
  <2>1. \A d \in Carriers : pc'[d] \in Waking \cup {"spawn", "cancelEnd"} =>
            pc[d] = pc'[d] /\ cur[d] = cur'[d]
    BY <1>0, <1>1 DEF Waking, Procs
  <2> QED
    BY <2>1 DEF AsyncioInv, Positions, ParkCas, Waking, loop, AtEnd, Op
<1>5. Lists'
  BY <1>0, <1>1 DEF AsyncioInv, Lists, ParkCas, Waking
<1>6. Deposits'
  BY <1>1 DEF AsyncioInv, Deposits, ParkCas, loop, Procs
<1>7. \A u \in Tasks : Awaited(u) => Awaited(u)'
  BY <1>1 DEF ParkCas, Awaited, Pending, loop
<1>8. Retiring'
  BY <1>1, <1>7 DEF AsyncioInv, Retiring, ParkCas, report, history, Procs
<1>9. NobodyForgotten'
  <2> SUFFICES ASSUME NEW u \in Tasks, state'[u] = "PARKED"
               PROVE  (blocked'[u] # None /\ ~raise'[u]) \/ WakeOnTheWay(u)' \/ u \in eaten'
    BY DEF NobodyForgotten
  <2>1. CASE u # t
    <3>1. state[u] = "PARKED"
      BY <1>1, <2>1
    <3>2. WakeOnTheWay(u) => WakeOnTheWay(u)'
      BY <1>1, <2>1 DEF WakeOnTheWay, ParkCas, Procs
    <3> QED
      BY <3>1, <3>2 DEF AsyncioInv, NobodyForgotten, ParkCas, loop, report, history
  <2>2. CASE u = t /\ u \notin eaten
    <3>1. Awaited(u)
      BY <2>2 DEF AsyncioInv, Retiring, ParkCas
    <3>2. (\E p \in Procs : Pending(p, u)) => WakeOnTheWay(u)'
      <4> SUFFICES ASSUME NEW p \in Procs, Pending(p, u) PROVE Contains(todo[p], u)
        BY DEF WakeOnTheWay, ParkCas
      <4>1. todo[p] \in Seq(Tasks) /\ (pc[p] = "wakeCas" => todo[p] # <<>>)
        BY DEF AsyncioInv, Typed, TypeOK, Lists
      <4>2. u \in ToSet(todo[p])
        BY <4>1, HeadTail DEF Pending
      <4> QED
        BY <4>1, <4>2, OnList
    <3>3. token[u] = 1 => WakeOnTheWay(u)'
      BY <1>1, <2>2 DEF WakeOnTheWay, ParkCas
    <3> QED
      BY <3>1, <3>2, <3>3 DEF Awaited, ParkCas, loop
  <2>3. CASE u \in eaten
    BY <2>3 DEF ParkCas, report, history
  <2> QED
    BY <2>1, <2>2, <2>3
<1>10. OneRegistration' /\ NoTimerPast'
  BY DEF AsyncioInv, OneRegistration, NoTimerPast, ParkCas, loop
<1> QED
  BY <1>2, <1>3, <1>4, <1>5, <1>6, <1>8, <1>9, <1>10 DEF AsyncioInv

\* A late parker leaves its run: whatever it does to it, it has it no longer.
LEMMA LateGone ==
    ASSUME AsyncioInv, NEW c \in Carriers, pc[c] \in Late, NEW l \in {"idle", "selfWake"},
           pc' = [pc EXCEPT ![c] = l],
           cur' = IF l = "idle" THEN [cur EXCEPT ![c] = None] ELSE cur,
           program' = program, todo' = todo,
           UNCHANGED <<raise, blocked, at, resumed, done>>
    PROVE  /\ cur[c] \in Tasks /\ c \in Procs /\ c # Edge
           /\ pc' \in [Procs -> Pcs] /\ pc'[c] = l /\ \A p \in Procs : p # c => pc'[p] = pc[p]
           /\ cur' \in [Procs -> Tasks \cup {None}] /\ \A p \in Procs : p # c => cur'[p] = cur[p]
           /\ \A d \in Carriers : IF cur'[d] = None THEN pc'[d] \in {"idle", "exit"}
                                                    ELSE pc'[d] \in Inside \cup Late
           /\ pc'[Edge] = pc[Edge]
           /\ \A d \in Carriers : pc'[d] \in Inside => pc[d] \in Inside /\ cur'[d] = cur[d] /\ d # c
           /\ Positions' /\ Lists' /\ Deposits'
           /\ \A p \in Procs, t \in Tasks : Pending(p, t)' <=> Pending(p, t)
<1>0. /\ cur[c] \in Tasks /\ c \in Procs /\ c # Edge /\ None \notin Tasks /\ Carriers \subseteq Procs
      /\ Edge \in Procs
  BY InHand, AsyncioAssumption DEF Late, Procs, Objects
<1>1. /\ pc' \in [Procs -> Pcs] /\ pc'[c] = l /\ \A p \in Procs : p # c => pc'[p] = pc[p]
      /\ cur' \in [Procs -> Tasks \cup {None}] /\ \A p \in Procs : p # c => cur'[p] = cur[p]
      /\ l = "idle" => cur'[c] = None
      /\ l # "idle" => cur'[c] = cur[c]
  BY <1>0 DEF AsyncioInv, Typed, TypeOK, Pcs
<1>2. pc[c] \notin Inside /\ l \notin Inside /\ (l # "idle" => l \in Late)
  BY DEF Inside, Late
<1>3. /\ \A d \in Carriers : IF cur'[d] = None THEN pc'[d] \in {"idle", "exit"}
                                               ELSE pc'[d] \in Inside \cup Late
      /\ pc'[Edge] = pc[Edge]
  BY <1>0, <1>1, <1>2 DEF AsyncioInv, Typed
<1>4. \A d \in Carriers : pc'[d] \in Inside => pc[d] \in Inside /\ cur'[d] = cur[d] /\ d # c
  BY <1>0, <1>1, <1>2
<1>5. Positions'
  <2>1. \A d \in Carriers : pc'[d] \in Waking \cup {"spawn", "cancelEnd"} =>
            pc[d] = pc'[d] /\ cur[d] = cur'[d]
    BY <1>0, <1>1 DEF Waking
  <2> QED
    BY <2>1 DEF AsyncioInv, Positions, Waking, AtEnd, Op
<1>6. Lists'
  BY <1>1 DEF AsyncioInv, Lists, Waking, Late
<1>7. Deposits'
  BY <1>0, <1>1 DEF AsyncioInv, Deposits, Late
<1>8. \A p \in Procs, t \in Tasks : Pending(p, t)' <=> Pending(p, t)
  BY <1>1 DEF Pending, Late
<1> QED
  BY <1>0, <1>1, <1>3, <1>4, <1>5, <1>6, <1>7, <1>8

LEMMA ParkSwapKeeps ==
    ASSUME AsyncioInv, NEW c \in Carriers, ParkSwap(c)
    PROVE  AsyncioInv'
<1>1. PICK t \in Tasks, l \in {"idle", "selfWake"} :
          /\ t = cur[c] /\ l = (IF token[t] = 1 THEN "selfWake" ELSE "idle")
          /\ pc' = [pc EXCEPT ![c] = l]
          /\ cur' = IF l = "idle" THEN [cur EXCEPT ![c] = None] ELSE cur
          /\ pc[c] \in Late
  BY InHand DEF ParkSwap, Goto, Leave, Late
<1>2. /\ cur[c] \in Tasks /\ c \in Procs /\ c # Edge
      /\ pc' \in [Procs -> Pcs] /\ pc'[c] = l /\ \A p \in Procs : p # c => pc'[p] = pc[p]
      /\ cur' \in [Procs -> Tasks \cup {None}] /\ \A p \in Procs : p # c => cur'[p] = cur[p]
      /\ \A d \in Carriers : IF cur'[d] = None THEN pc'[d] \in {"idle", "exit"}
                                               ELSE pc'[d] \in Inside \cup Late
      /\ pc'[Edge] = pc[Edge]
      /\ \A d \in Carriers : pc'[d] \in Inside => pc[d] \in Inside /\ cur'[d] = cur[d] /\ d # c
      /\ Positions' /\ Lists' /\ Deposits'
      /\ \A p \in Procs, u \in Tasks : Pending(p, u)' <=> Pending(p, u)
  BY <1>1, LateGone DEF ParkSwap, loop
<1>3. /\ token' \in [Tasks -> {0, 1}] /\ token'[t] = 0
      /\ \A u \in Tasks : u # t => token'[u] = token[u]
      /\ eaten' \subseteq Tasks /\ eaten \subseteq eaten'
      /\ EatsWake(t) => t \in eaten'
  BY <1>1 DEF AsyncioInv, Typed, TypeOK, ParkSwap
<1>4. Typed'
  BY <1>2, <1>3 DEF AsyncioInv, Typed, TypeOK, ParkSwap, loop, scan
<1>5. Exclusive'
  BY <1>2 DEF AsyncioInv, Exclusive, ParkSwap
<1>6. Retiring'
  <2> SUFFICES ASSUME NEW d \in Carriers, NEW u \in Tasks, cur'[d] = u, u \notin eaten',
                      pc'[d] \in {"block", "park", "parkCas"}
               PROVE  (pc'[d] = "block" /\ raise'[u]) \/ Awaited(u)'
    BY DEF Retiring
  <2>0. pc[d] \in Inside /\ pc'[d] = pc[d] /\ cur[d] = u /\ u \notin eaten /\ state[u] = "RUNNING"
    <3>1. pc'[d] \in Inside
      BY DEF Inside
    <3> QED
      BY <1>2, <1>3, <3>1, HasRun DEF Procs
  <2>1. (pc[d] = "block" /\ raise[u]) \/ Awaited(u)
    BY <2>0 DEF AsyncioInv, Retiring
  <2>2. /\ raise' = raise /\ blocked' = blocked
        /\ (\E p \in Procs : Pending(p, u)') <=> (\E p \in Procs : Pending(p, u))
    BY <1>2 DEF ParkSwap, loop
  <2>3. CASE token[u] # 1 \/ u # t
    <3>1. token'[u] = token[u] \/ token[u] # 1
      BY <1>3, <2>3
    <3> QED
      BY <2>0, <2>1, <2>2, <3>1 DEF Awaited
  <2>4. CASE token[u] = 1 /\ u = t
    <3>1. blocked[u] # None
      BY <1>3, <2>0, <2>4 DEF EatsWake
    <3>2. raise[u] => pc[d] = "block"
      BY <2>0, <3>1, HasRun
    <3> QED
      BY <2>0, <2>2, <3>1, <3>2 DEF Awaited
  <2> QED
    BY <2>3, <2>4
<1>7. NobodyForgotten'
  <2> SUFFICES ASSUME NEW u \in Tasks, state[u] = "PARKED"
               PROVE  (blocked[u] # None /\ ~raise[u]) \/ WakeOnTheWay(u)' \/ u \in eaten'
    BY DEF NobodyForgotten, ParkSwap, loop
  <2>1. WakeOnTheWay(u) => WakeOnTheWay(u)'
    <3>1. ASSUME NEW d \in Carriers, cur[d] = u,
                 pc[d] = "selfWake" \/ (pc[d] = "parkSwap" /\ token[u] = 1)
          PROVE  WakeOnTheWay(u)'
      <4>1. CASE u # t
        BY <1>1, <1>2, <1>3, <3>1, <4>1 DEF WakeOnTheWay, Procs
      <4>2. CASE u = t /\ (token[u] = 1 \/ d = c)
        <5>1. token[u] = 1
          BY <3>1, <4>2 DEF ParkSwap
        <5>2. cur' = cur /\ pc'[c] = "selfWake"
          BY <1>1, <1>2, <4>2, <5>1
        <5> QED
          BY <1>1, <4>2, <5>2 DEF WakeOnTheWay
      <4>3. CASE token[u] # 1 /\ d # c
        <5>1. pc'[d] = "selfWake" /\ cur'[d] = u
          BY <1>2, <3>1, <4>3 DEF Procs
        <5> QED
          BY <5>1 DEF WakeOnTheWay
      <4> QED
        BY <4>1, <4>2, <4>3
    <3> QED
      BY <3>1 DEF WakeOnTheWay, ParkSwap
  <2> QED
    BY <1>3, <2>1 DEF AsyncioInv, NobodyForgotten
<1>8. OneRegistration' /\ NoTimerPast'
  BY DEF AsyncioInv, OneRegistration, NoTimerPast, ParkSwap, loop
<1> QED
  BY <1>2, <1>4, <1>5, <1>6, <1>7, <1>8 DEF AsyncioInv

LEMMA SelfWakeKeeps ==
    ASSUME AsyncioInv, NEW c \in Carriers, SelfWake(c)
    PROVE  AsyncioInv'
<1>1. /\ cur[c] \in Tasks /\ c \in Procs /\ c # Edge
      /\ pc' \in [Procs -> Pcs] /\ pc'[c] = "idle" /\ \A p \in Procs : p # c => pc'[p] = pc[p]
      /\ cur' \in [Procs -> Tasks \cup {None}] /\ \A p \in Procs : p # c => cur'[p] = cur[p]
      /\ \A d \in Carriers : IF cur'[d] = None THEN pc'[d] \in {"idle", "exit"}
                                               ELSE pc'[d] \in Inside \cup Late
      /\ pc'[Edge] = pc[Edge]
      /\ \A d \in Carriers : pc'[d] \in Inside => pc[d] \in Inside /\ cur'[d] = cur[d] /\ d # c
      /\ Positions' /\ Lists' /\ Deposits'
      /\ \A p \in Procs, u \in Tasks : Pending(p, u)' <=> Pending(p, u)
  <2>1. pc[c] \in Late /\ "idle" \in {"idle", "selfWake"}
    BY DEF SelfWake, Late
  <2>2. pc' = [pc EXCEPT ![c] = "idle"]
    BY DEF SelfWake, Leave, Goto
  <2>3. cur' = IF "idle" = "idle" THEN [cur EXCEPT ![c] = None] ELSE cur
    BY DEF SelfWake, Leave
  <2>4. program' = program /\ todo' = todo /\ UNCHANGED <<raise, blocked, at, resumed, done>>
    BY DEF SelfWake, loop
  <2> QED
    BY <2>1, <2>2, <2>3, <2>4, LateGone
<1>2. /\ state' \in [Tasks -> {"FREE", "READY", "RUNNING", "PARKED", "TERMINAL"}]
      /\ state'[cur[c]] # "PARKED"
      /\ \A u \in Tasks : state'[u] = state[u] \/ (state[u] = "PARKED" /\ state'[u] = "READY")
      /\ \A u \in Tasks : u # cur[c] => state'[u] = state[u]
  BY <1>1 DEF AsyncioInv, Typed, TypeOK, SelfWake
<1>3. Typed'
  BY <1>1, <1>2 DEF AsyncioInv, Typed, TypeOK, SelfWake, loop, scan, report, history
<1>4. Exclusive'
  BY <1>1, <1>2, HasRun DEF AsyncioInv, Exclusive
<1>5. Retiring'
  <2>1. \A u \in Tasks : Awaited(u) => Awaited(u)'
    BY <1>1 DEF Awaited, SelfWake, loop
  <2> QED
    <3> SUFFICES ASSUME NEW d \in Carriers, NEW u \in Tasks, cur'[d] = u, u \notin eaten',
                        pc'[d] \in {"block", "park", "parkCas"}
                 PROVE  (pc'[d] = "block" /\ raise'[u]) \/ Awaited(u)'
      BY DEF Retiring
    <3>1. d # c /\ pc'[d] \in Inside
      BY <1>1 DEF Inside
    <3>2. pc[d] = pc'[d] /\ cur[d] = u
      BY <1>1, <3>1 DEF Procs
    <3>3. raise' = raise /\ eaten' = eaten
      BY DEF SelfWake, report, history
    <3> QED
      BY <2>1, <3>2, <3>3 DEF AsyncioInv, Retiring
<1>6. NobodyForgotten'
  <2> SUFFICES ASSUME NEW u \in Tasks, state'[u] = "PARKED"
               PROVE  (blocked'[u] # None /\ ~raise'[u]) \/ WakeOnTheWay(u)' \/ u \in eaten'
    BY DEF NobodyForgotten
  <2>1. u # cur[c] /\ state[u] = "PARKED"
    BY <1>2
  <2>2. WakeOnTheWay(u) => WakeOnTheWay(u)'
    BY <1>1, <2>1 DEF WakeOnTheWay, SelfWake, Procs
  <2> QED
    BY <2>1, <2>2 DEF AsyncioInv, NobodyForgotten, SelfWake, loop, report, history
<1>7. OneRegistration' /\ NoTimerPast'
  BY DEF AsyncioInv, OneRegistration, NoTimerPast, SelfWake, loop
<1> QED
  BY <1>1, <1>3, <1>4, <1>5, <1>6, <1>7 DEF AsyncioInv

-----------------------------------------------------------------------------
(* aio_wake, by a carrier or the edge *)

\* A waker goes on: what it has of its run stays.
LEMMA WakerGoesOn ==
    ASSUME AsyncioInv, NEW p \in Procs, pc[p] \in Waking, NEW l \in Waking,
           pc' = [pc EXCEPT ![p] = l], todo' \in [Procs -> Seq(Tasks)],
           \A q \in Procs : q # p => todo'[q] = todo[q],
           l # "wake" => todo'[p] # <<>>,
           UNCHANGED <<program, raise, blocked, at, resumed, done, cur>>
    PROVE  /\ pc' \in [Procs -> Pcs] /\ pc'[p] = l /\ \A q \in Procs : q # p => pc'[q] = pc[q]
           /\ \A d \in Carriers : IF cur[d] = None THEN pc'[d] \in {"idle", "exit"}
                                                   ELSE pc'[d] \in Inside \cup Late
           /\ pc'[Edge] \in EdgePcs /\ (pc'[Edge] = "look" => pc[Edge] = "look")
           /\ \A d \in Carriers : /\ pc'[d] \in Inside <=> pc[d] \in Inside
                                  /\ pc'[d] = pc[d] \/ (pc'[d] \in Waking /\ pc[d] \in Waking)
           /\ Positions' /\ Lists' /\ Deposits'
<1>1. /\ pc' \in [Procs -> Pcs] /\ pc'[p] = l /\ \A q \in Procs : q # p => pc'[q] = pc[q]
      /\ Carriers \subseteq Procs /\ Edge \in Procs /\ Waking \subseteq Inside
  BY DEF AsyncioInv, Typed, TypeOK, Pcs, Waking, Procs, Inside
<1>2. \A d \in Carriers : /\ pc'[d] \in Inside <=> pc[d] \in Inside
                          /\ pc'[d] = pc[d] \/ (pc'[d] \in Waking /\ pc[d] \in Waking)
  BY <1>1
<1>3. /\ \A d \in Carriers : IF cur[d] = None THEN pc'[d] \in {"idle", "exit"}
                                              ELSE pc'[d] \in Inside \cup Late
      /\ pc'[Edge] \in EdgePcs /\ (pc'[Edge] = "look" => pc[Edge] = "look")
  <2>1. Waking \cap {"idle", "exit", "look"} = {} /\ Waking \subseteq EdgePcs
    BY DEF Waking, EdgePcs
  <2> QED
    BY <1>1, <1>2, <2>1 DEF AsyncioInv, Typed
<1>4. Positions'
  <2>1. Waking \cap {"spawn", "cancelEnd"} = {}
    BY DEF Waking
  <2> QED
    BY <1>2, <2>1 DEF AsyncioInv, Positions, AtEnd, Op
<1>5. Lists'
  BY <1>1 DEF AsyncioInv, Lists, Waking
<1>6. Deposits'
  BY <1>2 DEF AsyncioInv, Deposits, Waking
<1> QED
  BY <1>1, <1>2, <1>3, <1>4, <1>5, <1>6

LEMMA WakeBeginsKeeps ==
    ASSUME AsyncioInv, NEW p \in Procs, WakeBegins(p)
    PROVE  AsyncioInv'
<1>1. /\ pc' \in [Procs -> Pcs] /\ pc'[p] = "token" /\ \A q \in Procs : q # p => pc'[q] = pc[q]
      /\ \A d \in Carriers : IF cur[d] = None THEN pc'[d] \in {"idle", "exit"}
                                              ELSE pc'[d] \in Inside \cup Late
      /\ pc'[Edge] \in EdgePcs /\ (pc'[Edge] = "look" => pc[Edge] = "look")
      /\ \A d \in Carriers : /\ pc'[d] \in Inside <=> pc[d] \in Inside
                             /\ pc'[d] = pc[d] \/ (pc'[d] \in Waking /\ pc[d] \in Waking)
      /\ Positions' /\ Lists' /\ Deposits'
  <2>1. pc[p] \in Waking /\ "token" \in Waking /\ todo' = todo /\ todo[p] # <<>>
    BY DEF WakeBegins, Waking
  <2>2. todo' \in [Procs -> Seq(Tasks)]
    BY <2>1 DEF AsyncioInv, Typed, TypeOK
  <2> QED
    BY <2>1, <2>2, WakerGoesOn DEF WakeBegins, Goto, words, loop
<1>2. Typed'
  BY <1>1 DEF AsyncioInv, Typed, TypeOK, WakeBegins, words, loop, report, history
<1>3. Exclusive'
  BY <1>1 DEF AsyncioInv, Exclusive, WakeBegins, words
<1>4. Retiring'
  <2>1. \A q \in Procs : pc[q] = "wakeCas" <=> pc'[q] = "wakeCas"
    BY <1>1 DEF WakeBegins
  <2>2. \A t \in Tasks : Awaited(t) => Awaited(t)'
    BY <2>1 DEF Awaited, Pending, WakeBegins, words, loop
  <2> QED
    BY <1>1, <2>2 DEF AsyncioInv, Retiring, WakeBegins, words, report, history, Waking
<1>5. NobodyForgotten'
  BY <1>1
  DEF AsyncioInv, NobodyForgotten, WakeOnTheWay, WakeBegins, words, loop, report, history, Waking
<1>6. OneRegistration' /\ NoTimerPast'
  BY DEF AsyncioInv, OneRegistration, NoTimerPast, WakeBegins, loop
<1> QED
  BY <1>1, <1>2, <1>3, <1>4, <1>5, <1>6 DEF AsyncioInv

LEMMA SetTokenKeeps ==
    ASSUME AsyncioInv, NEW p \in Procs, SetToken(p)
    PROVE  AsyncioInv'
<1>0. /\ todo[p] \in Seq(Tasks) /\ todo[p] # <<>>
      /\ Head(todo[p]) \in Tasks /\ ToSet(todo[p]) = {Head(todo[p])} \cup ToSet(Tail(todo[p]))
  <2>1. todo[p] \in Seq(Tasks) /\ todo[p] # <<>>
    BY DEF AsyncioInv, Typed, TypeOK, Lists, SetToken
  <2> QED
    BY <2>1, HeadTail
<1>1. /\ pc' \in [Procs -> Pcs] /\ pc'[p] = "wakeCas" /\ \A q \in Procs : q # p => pc'[q] = pc[q]
      /\ \A d \in Carriers : IF cur[d] = None THEN pc'[d] \in {"idle", "exit"}
                                              ELSE pc'[d] \in Inside \cup Late
      /\ pc'[Edge] \in EdgePcs /\ (pc'[Edge] = "look" => pc[Edge] = "look")
      /\ \A d \in Carriers : /\ pc'[d] \in Inside <=> pc[d] \in Inside
                             /\ pc'[d] = pc[d] \/ (pc'[d] \in Waking /\ pc[d] \in Waking)
      /\ Positions' /\ Lists' /\ Deposits'
  <2>1. pc[p] \in Waking /\ "wakeCas" \in Waking /\ todo' = todo
    BY DEF SetToken, Waking
  <2>2. todo' \in [Procs -> Seq(Tasks)]
    BY <2>1 DEF AsyncioInv, Typed, TypeOK
  <2> QED
    BY <1>0, <2>1, <2>2, WakerGoesOn DEF SetToken, Goto, loop
<1>2. /\ token' \in [Tasks -> {0, 1}] /\ token'[Head(todo[p])] = 1
      /\ \A t \in Tasks : token[t] = 1 => token'[t] = 1
  BY <1>0 DEF AsyncioInv, Typed, TypeOK, SetToken
<1>3. Typed'
  BY <1>1, <1>2 DEF AsyncioInv, Typed, TypeOK, SetToken, loop, scan, report, history
<1>4. Exclusive'
  BY <1>1 DEF AsyncioInv, Exclusive, SetToken
<1>5. Retiring'
  <2>1. ASSUME NEW t \in Tasks, NEW q \in Procs, Pending(q, t)
        PROVE  Pending(q, t)' \/ token'[t] = 1
    BY <1>0, <1>1, <1>2, <2>1 DEF Pending, SetToken
  <2>2. \A t \in Tasks : Awaited(t) => Awaited(t)'
    BY <1>2, <2>1 DEF Awaited, SetToken, loop
  <2> QED
    BY <1>1, <2>2 DEF AsyncioInv, Retiring, SetToken, report, history, Waking
<1>6. NobodyForgotten'
  BY <1>1, <1>2
  DEF AsyncioInv, NobodyForgotten, WakeOnTheWay, SetToken, loop, report, history, Waking
<1>7. OneRegistration' /\ NoTimerPast'
  BY DEF AsyncioInv, OneRegistration, NoTimerPast, SetToken, loop
<1> QED
  BY <1>1, <1>3, <1>4, <1>5, <1>6, <1>7 DEF AsyncioInv

LEMMA WakeCasKeeps ==
    ASSUME AsyncioInv, NEW p \in Procs, WakeCas(p)
    PROVE  AsyncioInv'
<1>0. /\ todo[p] \in Seq(Tasks) /\ todo[p] # <<>> /\ Tail(todo[p]) \in Seq(Tasks)
      /\ Head(todo[p]) \in Tasks /\ ToSet(todo[p]) = {Head(todo[p])} \cup ToSet(Tail(todo[p]))
  <2>1. todo[p] \in Seq(Tasks) /\ todo[p] # <<>>
    BY DEF AsyncioInv, Typed, TypeOK, Lists, WakeCas
  <2> QED
    BY <2>1, HeadTail
<1>1. /\ todo' \in [Procs -> Seq(Tasks)] /\ todo'[p] = Tail(todo[p])
      /\ \A q \in Procs : q # p => todo'[q] = todo[q]
  BY <1>0 DEF AsyncioInv, Typed, TypeOK, WakeCas
<1>2. /\ pc' \in [Procs -> Pcs] /\ pc'[p] = "wake" /\ \A q \in Procs : q # p => pc'[q] = pc[q]
      /\ \A d \in Carriers : IF cur[d] = None THEN pc'[d] \in {"idle", "exit"}
                                              ELSE pc'[d] \in Inside \cup Late
      /\ pc'[Edge] \in EdgePcs /\ (pc'[Edge] = "look" => pc[Edge] = "look")
      /\ \A d \in Carriers : /\ pc'[d] \in Inside <=> pc[d] \in Inside
                             /\ pc'[d] = pc[d] \/ (pc'[d] \in Waking /\ pc[d] \in Waking)
      /\ Positions' /\ Lists' /\ Deposits'
  <2>1. pc[p] \in Waking /\ "wake" \in Waking
    BY DEF WakeCas, Waking
  <2> QED
    BY <1>1, <2>1, WakerGoesOn DEF WakeCas, Goto, loop
<1>3. /\ state' \in [Tasks -> {"FREE", "READY", "RUNNING", "PARKED", "TERMINAL"}]
      /\ state'[Head(todo[p])] # "PARKED"
      /\ \A t \in Tasks : state'[t] = state[t] \/ (state[t] = "PARKED" /\ state'[t] = "READY")
  BY <1>0 DEF AsyncioInv, Typed, TypeOK, WakeCas
<1>4. Typed'
  BY <1>1, <1>2, <1>3 DEF AsyncioInv, Typed, TypeOK, WakeCas, loop, scan, report, history
<1>5. Exclusive'
  BY <1>2, <1>3, HasRun DEF AsyncioInv, Exclusive, WakeCas
<1>6. Retiring'
  <2>1. ASSUME NEW t \in Tasks, NEW q \in Procs, Pending(q, t)
        PROVE  Pending(q, t)'
    BY <1>1, <1>2, <2>1 DEF Pending, WakeCas
  <2>2. \A t \in Tasks : Awaited(t) => Awaited(t)'
    BY <2>1 DEF Awaited, WakeCas, loop
  <2> QED
    BY <1>2, <2>2 DEF AsyncioInv, Retiring, WakeCas, report, history, Waking
<1>7. NobodyForgotten'
  <2> SUFFICES ASSUME NEW t \in Tasks, state'[t] = "PARKED"
               PROVE  (blocked'[t] # None /\ ~raise'[t]) \/ WakeOnTheWay(t)' \/ t \in eaten'
    BY DEF NobodyForgotten
  <2>1. t # Head(todo[p]) /\ state[t] = "PARKED"
    BY <1>3
  <2>2. ASSUME NEW q \in Procs, Contains(todo[q], t) PROVE Contains(todo'[q], t)
    <3>1. CASE q # p
      BY <1>1, <2>2, <3>1
    <3>2. CASE q = p
      <4>1. t \in ToSet(Tail(todo[p]))
        BY <1>0, <2>1, <2>2, <3>2, OnList
      <4> QED
        BY <1>0, <1>1, <3>2, <4>1, OnList
    <3> QED
      BY <3>1, <3>2
  <2>3. WakeOnTheWay(t) => WakeOnTheWay(t)'
    BY <1>2, <2>2 DEF WakeOnTheWay, WakeCas, Waking
  <2> QED
    BY <2>1, <2>3 DEF AsyncioInv, NobodyForgotten, WakeCas, loop, report, history
<1>8. OneRegistration' /\ NoTimerPast'
  BY DEF AsyncioInv, OneRegistration, NoTimerPast, WakeCas, loop
<1> QED
  BY <1>2, <1>4, <1>5, <1>6, <1>7, <1>8 DEF AsyncioInv

-----------------------------------------------------------------------------
(* Whoever is taken off a list is woken by the one who took it off *)

\* p takes the tasks of off from what they are registered on and will wake those who were, and
\* marks some tasks of mark cancelled; its own task is at an op, or ends.
Hands(p, off, mark) ==
    /\ todo[p] = <<>> /\ todo'[p] \in Seq(Tasks)
    /\ pc' = [pc EXCEPT ![p] = "wake"] /\ todo' = [todo EXCEPT ![p] = todo'[p]]
    /\ \A t \in off : blocked[t] # None => t \in ToSet(todo'[p])
    /\ blocked' \in [Tasks -> Objects \cup {Timer, None}]
    /\ \A t \in Tasks : blocked'[t] = IF t \in off THEN None ELSE blocked[t]
    /\ \A t \in Tasks : raise'[t] <=> (raise[t] \/ t \in mark)
    /\ mark \subseteq off
    /\ UNCHANGED <<program, state, token, at, resumed, eaten, cur>>

LEMMA HandsKeep ==
    ASSUME AsyncioInv, NEW p \in Procs, NEW off, NEW mark, Hands(p, off, mark),
           pc[p] \in {"op", "cancelEnd", "fire"},
           \A t \in Tasks : done[t] => done'[t],
           p \in Carriers => done'[cur[p]] \/ (~AtEnd(cur[p]) /\ ~resumed[cur[p]])
    PROVE  /\ pc' \in [Procs -> Pcs] /\ pc'[Edge] \in EdgePcs
           /\ pc'[Edge] = "look" => pc[Edge] = "look"
           /\ \A d \in Carriers : IF cur[d] = None THEN pc'[d] \in {"idle", "exit"}
                                                   ELSE pc'[d] \in Inside \cup Late
           /\ todo' \in [Procs -> Seq(Tasks)]
           /\ Exclusive' /\ Positions' /\ Lists' /\ Deposits' /\ Retiring' /\ NobodyForgotten'
<1>1. /\ pc' \in [Procs -> Pcs] /\ pc'[p] = "wake" /\ \A q \in Procs : q # p => pc'[q] = pc[q]
      /\ todo' \in [Procs -> Seq(Tasks)] /\ \A q \in Procs : q # p => todo'[q] = todo[q]
      /\ Carriers \subseteq Procs /\ Edge \in Procs /\ Edge \notin Carriers
  <2>1. PICK s \in Seq(Tasks) : s = todo'[p] /\ todo' = [todo EXCEPT ![p] = s]
    BY DEF Hands
  <2>2. todo' \in [Procs -> Seq(Tasks)] /\ \A q \in Procs : q # p => todo'[q] = todo[q]
    BY <2>1 DEF AsyncioInv, Typed, TypeOK
  <2>3. /\ pc' \in [Procs -> Pcs] /\ pc'[p] = "wake" /\ \A q \in Procs : q # p => pc'[q] = pc[q]
    BY DEF AsyncioInv, Typed, TypeOK, Hands, Pcs
  <2> QED
    BY <2>2, <2>3, AsyncioAssumption DEF Procs
<1>2. p \in Carriers => pc[p] \in Inside /\ cur[p] # None
  BY <1>1 DEF AsyncioInv, Typed, Inside, Late
<1>3. /\ pc'[Edge] \in EdgePcs /\ (pc'[Edge] = "look" => pc[Edge] = "look")
      /\ \A d \in Carriers : IF cur[d] = None THEN pc'[d] \in {"idle", "exit"}
                                              ELSE pc'[d] \in Inside \cup Late
  <2>1. "wake" \in EdgePcs /\ "wake" \in Inside
    BY DEF EdgePcs, Waking, Inside
  <2> QED
    BY <1>1, <1>2, <2>1 DEF AsyncioInv, Typed
<1>4. Exclusive'
  <2>1. \A d \in Carriers : pc'[d] \in Inside <=> pc[d] \in Inside
    BY <1>1, <1>2 DEF Inside
  <2> QED
    BY <2>1 DEF AsyncioInv, Exclusive, Hands
<1>5. Positions'
  <2>1. \A t \in Tasks : (resumed'[t] => ~AtEnd(t)') /\ (blocked'[t] # None => resumed'[t])
    BY DEF AsyncioInv, Positions, Hands, AtEnd
  <2>2. ASSUME NEW d \in Carriers
        PROVE  /\ pc'[d] = "spawn" => ~AtEnd(cur[d])' /\ Op(cur[d])'[1] = "spawn" /\ ~resumed'[cur[d]]
               /\ pc'[d] \in Waking /\ ~done'[cur[d]] => ~AtEnd(cur[d])' /\ ~resumed'[cur[d]]
               /\ pc'[d] = "cancelEnd" => blocked'[cur[d]] = None
    <3>1. CASE d = p
      BY <1>1, <3>1 DEF Hands, AtEnd, Op
    <3>2. CASE d # p /\ pc[d] \in Inside
      <4>1. pc'[d] = pc[d] /\ cur[d] \in Tasks
        BY <1>1, <3>2, HasRun
      <4>2. (done[cur[d]] => done'[cur[d]]) /\ (blocked[cur[d]] = None => blocked'[cur[d]] = None)
        BY <4>1 DEF Hands
      <4> QED
        BY <4>1, <4>2 DEF AsyncioInv, Positions, Hands, AtEnd, Op
    <3>3. CASE d # p /\ pc[d] \notin Inside
      BY <1>1, <3>3 DEF Inside, Waking
    <3> QED
      BY <3>1, <3>2, <3>3
  <2> QED
    BY <2>1, <2>2 DEF Positions, Hands
<1>6. Lists'
  BY <1>1 DEF AsyncioInv, Lists, Waking
<1>7. Deposits'
  <2> SUFFICES ASSUME NEW t \in Tasks, raise'[t], blocked'[t] # None
               PROVE  \E d \in Carriers : cur'[d] = t /\ pc'[d] \in {"block", "unblock"}
    BY DEF Deposits
  <2>1. raise[t] /\ blocked[t] # None
    BY DEF Hands
  <2>2. PICK d \in Carriers : cur[d] = t /\ pc[d] \in {"block", "unblock"}
    BY <2>1 DEF AsyncioInv, Deposits
  <2> QED
    BY <1>1, <2>2 DEF Hands
<1>8. \A t \in Tasks, q \in Procs : Pending(q, t) => q # p /\ Pending(q, t)'
  <2>1. \A t \in Tasks : ~Pending(p, t)
    <3>1. ToSet(<<>>) = {}
      BY DEF ToSet
    <3> QED
      BY <3>1 DEF Pending, Hands
  <2> QED
    BY <1>1, <2>1 DEF Pending
<1>9. ASSUME NEW t \in Tasks, Awaited(t)
      PROVE  Awaited(t)'
  <2>1. CASE blocked[t] # None /\ ~raise[t] /\ t \notin off
    BY <2>1 DEF Awaited, Hands
  <2>2. CASE blocked[t] # None /\ t \in off
    <3>1. Pending(p, t)'
      BY <1>1, <2>2 DEF Pending, Hands
    <3> QED
      BY <3>1 DEF Awaited
  <2>3. CASE token[t] = 1 \/ \E q \in Procs : Pending(q, t)
    BY <1>8, <2>3 DEF Awaited, Hands
  <2> QED
    BY <1>9, <2>1, <2>2, <2>3 DEF Awaited
<1>10. Retiring'
  <2> SUFFICES ASSUME NEW d \in Carriers, NEW t \in Tasks, cur'[d] = t, t \notin eaten',
                      pc'[d] \in {"block", "park", "parkCas"}
               PROVE  (pc'[d] = "block" /\ raise'[t]) \/ Awaited(t)'
    BY DEF Retiring
  <2>1. pc[d] = pc'[d] /\ cur[d] = t /\ t \notin eaten
    BY <1>1 DEF Hands
  <2>2. (pc[d] = "block" /\ raise[t]) \/ Awaited(t)
    BY <2>1 DEF AsyncioInv, Retiring
  <2> QED
    BY <1>9, <2>1, <2>2 DEF Hands
<1>11. NobodyForgotten'
  <2> SUFFICES ASSUME NEW t \in Tasks, state[t] = "PARKED", t \notin eaten
               PROVE  (blocked'[t] # None /\ ~raise'[t]) \/ WakeOnTheWay(t)'
    BY DEF NobodyForgotten, Hands
  <2>1. CASE blocked[t] # None /\ ~raise[t] /\ t \notin off
    BY <2>1 DEF Hands
  <2>2. CASE blocked[t] # None /\ t \in off
    <3>1. t \in ToSet(todo'[p]) /\ todo'[p] \in Seq(Tasks)
      BY <2>2 DEF Hands
    <3>2. Contains(todo'[p], t)
      BY <3>1, OnList
    <3> QED
      BY <3>2 DEF WakeOnTheWay
  <2>3. CASE WakeOnTheWay(t)
    <3>1. \A q \in Procs : Contains(todo[q], t) => q # p
      BY DEF Hands, Contains
    <3> QED
      BY <1>1, <2>3, <3>1 DEF WakeOnTheWay, Hands
  <2> QED
    BY <2>1, <2>2, <2>3 DEF AsyncioInv, NobodyForgotten
<1> QED
  BY <1>1, <1>3, <1>4, <1>5, <1>6, <1>7, <1>10, <1>11

LEMMA SetEventKeeps ==
    ASSUME AsyncioInv, NEW c \in Carriers, SetEvent(c)
    PROVE  AsyncioInv'
<1>1. /\ cur[c] \in Tasks /\ c \in Procs /\ pc[c] = "op" /\ todo[c] = <<>>
      /\ ~AtEnd(cur[c]) /\ ~resumed[cur[c]]
  BY HasRun DEF SetEvent, IsOp, Inside, Waking
<1>2. Arg(c) \in Events /\ Arg(c) \in Objects /\ Arg(c) \notin Tasks
  BY <1>1, OpInHand, AsyncioAssumption DEF SetEvent, IsOp, Objects
<1>3. /\ blocked' \in [Tasks -> Objects \cup {Timer, None}]
      /\ \A u \in Tasks : blocked'[u] = IF u \in ToSet(waiters[Arg(c)]) THEN None ELSE blocked[u]
      /\ waiters' \in [Objects -> Seq(Tasks)]
      /\ todo' = [todo EXCEPT ![c] = todo'[c]] /\ todo'[c] = waiters[Arg(c)]
      /\ OneRegistration'
  BY <1>1, <1>2, Releases DEF SetEvent
<1>4. Hands(c, ToSet(waiters[Arg(c)]), {})
  BY <1>1, <1>2, <1>3 DEF Hands, SetEvent, Goto, words, report, history, AsyncioInv, Typed, TypeOK
<1>5. /\ pc' \in [Procs -> Pcs] /\ pc'[Edge] \in EdgePcs
      /\ pc'[Edge] = "look" => pc[Edge] = "look"
      /\ \A d \in Carriers : IF cur[d] = None THEN pc'[d] \in {"idle", "exit"}
                                              ELSE pc'[d] \in Inside \cup Late
      /\ todo' \in [Procs -> Seq(Tasks)]
      /\ Exclusive' /\ Positions' /\ Lists' /\ Deposits' /\ Retiring' /\ NobodyForgotten'
  BY <1>1, <1>4, HandsKeep DEF SetEvent
<1>6. Typed'
  BY <1>2, <1>3, <1>5 DEF AsyncioInv, Typed, TypeOK, SetEvent, words, scan, report, history
<1>7. NoTimerPast'
  BY DEF AsyncioInv, NoTimerPast, SetEvent
<1> QED
  BY <1>3, <1>5, <1>6, <1>7 DEF AsyncioInv

LEMMA FinishKeeps ==
    ASSUME AsyncioInv, NEW c \in Carriers, NEW how \in BOOLEAN, Finish(c, how),
           pc[c] \in {"op", "cancelEnd"}, pc[c] = "op" => AtEnd(cur[c])
    PROVE  AsyncioInv'
<1>1. cur[c] \in Tasks /\ c \in Procs /\ todo[c] = <<>> /\ cur[c] \in Objects
  BY HasRun DEF Inside, Waking, Objects
<1>2. blocked[cur[c]] = None
  BY <1>1 DEF AsyncioInv, Positions
<1>3. /\ blocked' \in [Tasks -> Objects \cup {Timer, None}]
      /\ \A u \in Tasks : blocked'[u] = IF u \in ToSet(waiters[cur[c]]) THEN None ELSE blocked[u]
      /\ waiters' \in [Objects -> Seq(Tasks)]
      /\ todo' = [todo EXCEPT ![c] = todo'[c]] /\ todo'[c] = waiters[cur[c]]
      /\ OneRegistration'
  BY <1>1, <1>2, Releases DEF Finish
<1>4. Hands(c, ToSet(waiters[cur[c]]), {})
  BY <1>1, <1>3 DEF Hands, Finish, Goto, words, report, history, AsyncioInv, Typed, TypeOK
<1>5. done' \in [Tasks -> BOOLEAN] /\ done'[cur[c]] /\ \A t \in Tasks : done[t] => done'[t]
  BY <1>1 DEF AsyncioInv, Typed, TypeOK, Finish
<1>6. /\ pc' \in [Procs -> Pcs] /\ pc'[Edge] \in EdgePcs
      /\ pc'[Edge] = "look" => pc[Edge] = "look"
      /\ \A d \in Carriers : IF cur[d] = None THEN pc'[d] \in {"idle", "exit"}
                                              ELSE pc'[d] \in Inside \cup Late
      /\ todo' \in [Procs -> Seq(Tasks)]
      /\ Exclusive' /\ Positions' /\ Lists' /\ Deposits' /\ Retiring' /\ NobodyForgotten'
  BY <1>1, <1>4, <1>5, HandsKeep
<1>7. Typed'
  BY <1>1, <1>3, <1>5, <1>6 DEF AsyncioInv, Typed, TypeOK, Finish, words, scan, report, history
<1>8. NoTimerPast'
  BY DEF AsyncioInv, NoTimerPast, Finish
<1> QED
  BY <1>3, <1>6, <1>7, <1>8 DEF AsyncioInv

LEMMA CancelKeeps ==
    ASSUME AsyncioInv, NEW c \in Carriers, Cancel(c)
    PROVE  AsyncioInv'
<1>1. /\ cur[c] \in Tasks /\ c \in Procs /\ pc[c] = "op" /\ todo[c] = <<>>
      /\ ~AtEnd(cur[c]) /\ ~resumed[cur[c]]
  BY HasRun DEF Cancel, IsOp, Inside, Waking
<1>2. PICK v \in Tasks : v = Deepest(Arg(c))
  BY <1>1, OpInHand, DeepestIsTask DEF Cancel, IsOp
<1>3. /\ blocked' \in [Tasks -> Objects \cup {Timer, None}] /\ blocked'[v] = None
      /\ \A u \in Tasks : u # v => blocked'[u] = blocked[u]
      /\ waiters' \in [Objects -> Seq(Tasks)] /\ timers' \in Seq(Tasks)
      /\ ToSet(timers') \subseteq ToSet(timers)
      /\ OneRegistration'
  BY <1>2, Unregisters DEF Cancel
<1>4. raise' \in [Tasks -> BOOLEAN] /\ \A t \in Tasks : raise'[t] <=> (raise[t] \/ t \in {v})
  BY <1>2 DEF AsyncioInv, Typed, TypeOK, Cancel
<1>5. Hands(c, {v}, {v})
  <2>1. /\ todo' = [todo EXCEPT ![c] = todo'[c]]
        /\ todo'[c] = IF blocked[v] # None THEN <<v>> ELSE <<>>
    BY <1>1, <1>2 DEF AsyncioInv, Typed, TypeOK, Cancel
  <2>2. <<v>> \in Seq(Tasks) /\ v \in ToSet(<<v>>) /\ <<>> \in Seq(Tasks)
    BY DEF ToSet
  <2> QED
    <3>1. todo'[c] \in Seq(Tasks) /\ (blocked[v] # None => v \in ToSet(todo'[c]))
      BY <2>1, <2>2
    <3>2. /\ blocked' \in [Tasks -> Objects \cup {Timer, None}]
          /\ \A t \in Tasks : blocked'[t] = IF t \in {v} THEN None ELSE blocked[t]
      BY <1>3
    <3>3. /\ pc' = [pc EXCEPT ![c] = "wake"]
          /\ UNCHANGED <<program, state, token, at, resumed, eaten, cur>>
      BY DEF Cancel, Goto, report, history
    <3> QED
      BY <1>1, <1>4, <2>1, <3>1, <3>2, <3>3 DEF Hands
<1>6. /\ pc' \in [Procs -> Pcs] /\ pc'[Edge] \in EdgePcs
      /\ pc'[Edge] = "look" => pc[Edge] = "look"
      /\ \A d \in Carriers : IF cur[d] = None THEN pc'[d] \in {"idle", "exit"}
                                              ELSE pc'[d] \in Inside \cup Late
      /\ todo' \in [Procs -> Seq(Tasks)]
      /\ Exclusive' /\ Positions' /\ Lists' /\ Deposits' /\ Retiring' /\ NobodyForgotten'
  BY <1>1, <1>5, HandsKeep DEF Cancel
<1>7. Typed'
  BY <1>3, <1>4, <1>6 DEF AsyncioInv, Typed, TypeOK, Cancel, scan, report, history
<1>8. NoTimerPast'
  BY <1>3 DEF AsyncioInv, NoTimerPast, Cancel
<1> QED
  BY <1>3, <1>6, <1>7, <1>8 DEF AsyncioInv

LEMMA FireKeeps ==
    ASSUME AsyncioInv, Fire
    PROVE  AsyncioInv'
<1>1. PICK now : /\ now \in {due[t] : t \in ToSet(timers)} /\ pc[Edge] = "fire"
                 /\ \A t \in ToSet(timers) : now <= due[t]
                 /\ vnow' = now
                 /\ timers' = Without(timers, {t \in ToSet(timers) : due[t] = now})
                 /\ todo' = [todo EXCEPT ![Edge] =
                                Without(timers, Tasks \ {t \in ToSet(timers) : due[t] = now})]
                 /\ blocked' = [t \in Tasks |-> IF t \in {u \in ToSet(timers) : due[u] = now}
                                                THEN None ELSE blocked[t]]
                 /\ Judge /\ Goto(Edge, "wake")
                 /\ UNCHANGED <<program, words, at, resumed, done, cancelled, waiters, evSet, due,
                                scan, stop, verdict, eaten, cur>>
  BY DEF Fire
<1> DEFINE fired == {t \in ToSet(timers) : due[t] = now}
<1>2. /\ Edge \in Procs /\ Edge \notin Carriers /\ Timer # None /\ Timer \notin Objects
      /\ None \notin Objects /\ timers \in Seq(Tasks) /\ IsInjective(timers)
      /\ ToSet(timers) = {t \in Tasks : blocked[t] = Timer} /\ fired \subseteq Tasks
      /\ todo[Edge] = <<>>
  BY <1>1, AsyncioAssumption DEF Procs, AsyncioInv, Typed, TypeOK, OneRegistration, Lists, Waking
<1> HIDE DEF fired
<1>3. /\ timers' \in Seq(Tasks) /\ ToSet(timers') = ToSet(timers) \ fired /\ IsInjective(timers')
  BY <1>1, <1>2, WithoutList DEF fired
<1>4. PICK s \in Seq(Tasks) : /\ s = Without(timers, Tasks \ fired)
                              /\ ToSet(s) = ToSet(timers) \ (Tasks \ fired)
  BY <1>2, WithoutList
<1>5. /\ todo' = [todo EXCEPT ![Edge] = s] /\ todo'[Edge] = s /\ todo' = [todo EXCEPT ![Edge] = todo'[Edge]]
      /\ \A t \in fired : t \in ToSet(s)
  BY <1>1, <1>2, <1>4 DEF AsyncioInv, Typed, TypeOK, fired
<1>6. /\ blocked' \in [Tasks -> Objects \cup {Timer, None}]
      /\ \A t \in Tasks : blocked'[t] = IF t \in fired THEN None ELSE blocked[t]
  BY <1>1 DEF AsyncioInv, Typed, TypeOK, fired
<1>7. OneRegistration'
  <2>1. ToSet(timers') = {t \in Tasks : blocked'[t] = Timer}
    BY <1>2, <1>3, <1>6
  <2>2. \A o \in Objects : {t \in Tasks : blocked'[t] = o} = {t \in Tasks : blocked[t] = o}
    BY <1>2, <1>6 DEF fired
  <2>3. waiters' = waiters
    BY <1>1
  <2> QED
    BY <1>3, <2>1, <2>2, <2>3 DEF AsyncioInv, OneRegistration
<1>8. NoTimerPast'
  BY <1>1, <1>3 DEF NoTimerPast
<1>9. Hands(Edge, fired, {})
  BY <1>1, <1>2, <1>4, <1>5, <1>6 DEF Hands, Goto, words
<1>10. /\ pc' \in [Procs -> Pcs] /\ pc'[Edge] \in EdgePcs
       /\ pc'[Edge] = "look" => pc[Edge] = "look"
       /\ \A d \in Carriers : IF cur[d] = None THEN pc'[d] \in {"idle", "exit"}
                                               ELSE pc'[d] \in Inside \cup Late
       /\ todo' \in [Procs -> Seq(Tasks)]
       /\ Exclusive' /\ Positions' /\ Lists' /\ Deposits' /\ Retiring' /\ NobodyForgotten'
  BY <1>1, <1>2, <1>9, HandsKeep
<1>11. vnow' \in Nat /\ misjudged' \in BOOLEAN
  BY <1>1, <1>2 DEF AsyncioInv, Typed, TypeOK, Judge
<1>12. Typed'
  BY <1>1, <1>3, <1>6, <1>10, <1>11 DEF AsyncioInv, Typed, TypeOK, words, scan
<1> QED
  BY <1>7, <1>8, <1>10, <1>12 DEF AsyncioInv

-----------------------------------------------------------------------------
(* The scan of the edge, and the whole *)

\* The edge moves alone: it touches neither a run nor a list.
LEMMA EdgeAlone ==
    ASSUME AsyncioInv, pc[Edge] \notin {"token", "wakeCas"}, todo[Edge] = <<>>,
           NEW l \in {"scan", "look", "confirm", "fire", "stop", "exit"},
           pc' = [pc EXCEPT ![Edge] = l], l = "look" => seen' < N,
           straddled' \in BOOLEAN, seen' \in 0..N, stop' \in BOOLEAN, misjudged' \in BOOLEAN,
           verdict' \in {"none", "main", "deadlock", "deadline"},
           UNCHANGED <<program, words, at, resumed, loop, eaten, cur, todo>>
    PROVE  AsyncioInv'
<1>1. /\ Edge \in Procs /\ Edge \notin Carriers /\ Carriers \subseteq Procs
      /\ pc' \in [Procs -> Pcs] /\ pc'[Edge] = l /\ \A p \in Procs : p # Edge => pc'[p] = pc[p]
  BY AsyncioAssumption DEF Procs, AsyncioInv, Typed, TypeOK, Pcs
<1>2. l \in EdgePcs /\ l \notin Waking /\ l # "wakeCas"
  BY DEF EdgePcs, Waking
<1>3. \A d \in Carriers : pc'[d] = pc[d]
  BY <1>1
<1>4. Typed'
  BY <1>1, <1>2, <1>3 DEF AsyncioInv, Typed, TypeOK, words, loop
<1>5. Exclusive' /\ Deposits'
  BY <1>3 DEF AsyncioInv, Exclusive, Deposits, words, loop
<1>6. Positions'
  BY <1>3 DEF AsyncioInv, Positions, words, loop, AtEnd, Op
<1>7. Lists'
  BY <1>1, <1>2 DEF AsyncioInv, Lists, Waking
<1>8. Retiring'
  <2>1. \A t \in Tasks : Awaited(t) => Awaited(t)'
    BY <1>1, <1>2 DEF Awaited, Pending, words, loop
  <2> QED
    BY <1>3, <2>1 DEF AsyncioInv, Retiring, words
<1>9. NobodyForgotten'
  BY <1>3 DEF AsyncioInv, NobodyForgotten, WakeOnTheWay, words, loop
<1>10. OneRegistration' /\ NoTimerPast'
  BY DEF AsyncioInv, OneRegistration, NoTimerPast, loop
<1> QED
  BY <1>4, <1>5, <1>6, <1>7, <1>8, <1>9, <1>10 DEF AsyncioInv

LEMMA EdgeKeeps ==
    ASSUME AsyncioInv, ScanBegins \/ Look \/ Confirm \/ NoTimer \/ FireDone \/ Stop
    PROVE  AsyncioInv'
<1>0. /\ straddled \in BOOLEAN /\ seen \in 0..N /\ stop \in BOOLEAN /\ misjudged \in BOOLEAN
      /\ verdict \in {"none", "main", "deadlock", "deadline"} /\ N \in Nat \ {0}
      /\ pc[Edge] = "look" => seen < N
      /\ pc[Edge] \notin Waking => todo[Edge] = <<>>
  BY AsyncioAssumption DEF AsyncioInv, Typed, TypeOK, Lists, Procs
<1>1. CASE ScanBegins
  <2>1. pc' = [pc EXCEPT ![Edge] = "look"] /\ seen' = 0 /\ straddled' = FALSE /\ pc[Edge] = "scan"
    BY <1>1 DEF ScanBegins, Goto
  <2>2. seen' \in 0..N /\ seen' < N
    BY <1>0, <2>1
  <2> QED
    BY <1>0, <1>1, <2>1, <2>2, EdgeAlone DEF ScanBegins, report, history, Waking
<1>2. CASE Look
  <2>0. pc[Edge] = "look" /\ UNCHANGED <<program, words, at, resumed, loop, straddled, stop, history, cur, todo>>
    BY <1>2 DEF Look
  <2>1. PICK l \in {"scan", "look", "confirm", "stop"} :
            /\ pc' = [pc EXCEPT ![Edge] = l]
            /\ \/ seen' = seen /\ l # "look"
               \/ seen' = seen + 1 /\ l = (IF seen + 1 = N THEN "confirm" ELSE "look")
            /\ verdict' \in {"main", "deadline", verdict}
    BY <1>2 DEF Look, Goto, Ends
  <2>2. seen' \in 0..N /\ (l = "look" => seen' < N)
    BY <1>0, <2>0, <2>1
  <2>3. verdict' \in {"none", "main", "deadlock", "deadline"}
    BY <1>0, <2>1
  <2> QED
    BY <1>0, <2>0, <2>1, <2>2, <2>3, EdgeAlone DEF history, Waking
<1>3. CASE Confirm
  <2>1. PICK l \in {"scan", "fire"} : pc' = [pc EXCEPT ![Edge] = l]
    BY <1>3 DEF Confirm, Goto
  <2> QED
    BY <1>0, <1>3, <2>1, EdgeAlone DEF Confirm, scan, report, history, Waking
<1>4. CASE NoTimer
  <2>1. misjudged' \in BOOLEAN
    BY <1>0, <1>4 DEF NoTimer, Judge
  <2> QED
    BY <1>0, <1>4, <2>1, EdgeAlone DEF NoTimer, Ends, Goto, scan, Waking
<1>5. CASE FireDone
  BY <1>0, <1>5, EdgeAlone DEF FireDone, Goto, scan, report, history
<1>6. CASE Stop
  BY <1>0, <1>6, EdgeAlone DEF Stop, Goto, scan, report, history, Waking
<1> QED
  BY <1>1, <1>2, <1>3, <1>4, <1>5, <1>6

LEMMA AsyncioHolds == Spec => []AsyncioInv
<1>1. Init => AsyncioInv
  <2> SUFFICES ASSUME Init PROVE AsyncioInv
    OBVIOUS
  <2>0. /\ N \in Nat \ {0} /\ Edge \notin Carriers /\ Main \in Tasks /\ None \notin Tasks
        /\ None # Timer /\ \A o \in Objects : o # None
    BY AsyncioAssumption DEF Tasks, Main, Objects
  <2>1. program \in [Tasks -> Seq(Ops)] /\ \A t \in Tasks : Len(program[t]) \in Nat
    BY AsyncioAssumption DEF Init, Ops
  <2>2. \A t \in Tasks : 1 \in 1..(Len(program[t]) + 1)
    BY <2>1
  <2>3. TypeOK
    <3>1. /\ state \in [Tasks -> {"FREE", "READY", "RUNNING", "PARKED", "TERMINAL"}]
          /\ token \in [Tasks -> {0, 1}] /\ raise \in [Tasks -> BOOLEAN]
          /\ \A t \in Tasks : at[t] \in 1..(Len(program[t]) + 1)
          /\ resumed \in [Tasks -> BOOLEAN]
          /\ done \in [Tasks -> BOOLEAN] /\ cancelled \in [Tasks -> BOOLEAN]
          /\ blocked \in [Tasks -> Objects \cup {Timer, None}]
      BY <2>2 DEF Init
    <3>a. waiters \in [Objects -> Seq(Tasks)] /\ timers \in Seq(Tasks) /\ due \in [Tasks -> Nat]
      BY DEF Init
    <3>2. /\ evSet \subseteq Events /\ vnow \in Nat /\ seen \in 0..N
      BY <2>0 DEF Init
    <3>b. /\ straddled \in BOOLEAN /\ stop \in BOOLEAN /\ misjudged \in BOOLEAN /\ eaten \subseteq Tasks
          /\ verdict \in {"none", "main", "deadlock", "deadline"}
      BY DEF Init
    <3>3. /\ pc \in [Procs -> Pcs] /\ cur \in [Procs -> Tasks \cup {None}]
          /\ todo \in [Procs -> Seq(Tasks)]
      BY DEF Init, Pcs
    <3> QED
      BY <3>1, <3>a, <3>2, <3>b, <3>3 DEF TypeOK
  <2>4. /\ \A c \in Carriers : pc[c] = "idle" /\ cur[c] = None
        /\ pc[Edge] = "scan" /\ \A p \in Procs : pc[p] \in {"scan", "idle"} /\ todo[p] = <<>>
    BY <2>0 DEF Init, Procs
  <2>5. Typed
    BY <2>3, <2>4 DEF Typed, Init, EdgePcs
  <2>6. Exclusive /\ Positions /\ Lists /\ Deposits /\ Retiring
    BY <2>4 DEF Exclusive, Positions, Lists, Deposits, Retiring, Inside, Waking, Init
  <2>7. OneRegistration /\ NoTimerPast
    <3>1. IsInjective(<<>>) /\ ToSet(<<>>) = {}
      BY DEF IsInjective, ToSet
    <3> QED
      BY <2>0, <3>1 DEF OneRegistration, NoTimerPast, Init
  <2>8. NobodyForgotten
    BY DEF NobodyForgotten, Init
  <2> QED
    BY <2>5, <2>6, <2>7, <2>8 DEF AsyncioInv
<1>2. AsyncioInv /\ [Next]_vars => AsyncioInv'
  <2> SUFFICES ASSUME AsyncioInv, [Next]_vars PROVE AsyncioInv'
    OBVIOUS
  <2>1. ASSUME NEW p \in Procs, Wake(p) PROVE AsyncioInv'
    BY <2>1, WakeBeginsKeeps, SetTokenKeeps, WakeCasKeeps DEF Wake
  <2>2. ASSUME NEW c \in Carriers, CarrierNext(c) PROVE AsyncioInv'
    <3>1. CASE Exit(c) \/ Poll(c) \/ Terminal(c) \/ WakesDone(c)
      BY <3>1, ExitKeeps, PollKeeps, TerminalKeeps, WakesDoneKeeps
    <3>2. CASE \E t \in Tasks : Take(c, t)
      BY <3>2, TakeKeeps
    <3>3. CASE EndsCancelled(c) \/ EndsDone(c)
      BY <3>3, FinishKeeps DEF EndsCancelled, EndsDone
    <3>4. CASE RunOp(c)
      BY <3>4, ServedKeeps, NotServedKeeps, SpawnKeeps, SpawnCasKeeps, SetEventKeeps, ClearKeeps,
         CancelDoneKeeps, CancelKeeps, YieldKeeps, SleepForKeeps, PassOnKeeps, AwaitOtherKeeps
      DEF RunOp
    <3>5. CASE Suspend(c)
      BY <3>5, BlockKeeps, UnblockKeeps, ParkKeeps, ParkCasKeeps, ParkSwapKeeps, SelfWakeKeeps,
         AgainKeeps DEF Suspend
    <3>6. CASE Wake(c)
      BY <2>1, <3>6 DEF Procs
    <3> QED
      BY <2>2, <3>1, <3>2, <3>3, <3>4, <3>5, <3>6 DEF CarrierNext
  <2>3. CASE EdgeNext
    BY <2>1, <2>3, EdgeKeeps, FireKeeps DEF EdgeNext, Procs
  <2>4. CASE UNCHANGED vars
    <3>1. \A t \in Tasks : Awaited(t) => Awaited(t)'
      BY <2>4 DEF vars, words, loop, Awaited, Pending
    <3>2. Typed' /\ Exclusive' /\ Positions' /\ Lists' /\ Deposits'
      BY <2>4 DEF AsyncioInv, vars, words, loop, scan, report, history, Typed, TypeOK, Exclusive,
                  Positions, Lists, Deposits, AtEnd, Op
    <3>3. Retiring'
      BY <2>4, <3>1 DEF AsyncioInv, vars, words, report, history, Retiring
    <3>4. OneRegistration' /\ NobodyForgotten' /\ NoTimerPast'
      BY <2>4 DEF AsyncioInv, vars, words, loop, report, history, OneRegistration, NobodyForgotten,
                  NoTimerPast, WakeOnTheWay
    <3> QED
      BY <3>2, <3>3, <3>4 DEF AsyncioInv
  <2> QED
    BY <2>2, <2>3, <2>4 DEF Next, Terminated
<1> QED
  BY <1>1, <1>2, PTL DEF Spec

\* A sleeper is registered once, where it will be found in time: smp_asyncio.c keeps SleepersKept
\* with any number of tasks, events and carriers, whatever the tasks do.
THEOREM SleepersAreKept == Spec => []SleepersKept
<1>1. AsyncioInv => SleepersKept
  BY DEF AsyncioInv, Typed, SleepersKept
<1> QED
  BY <1>1, AsyncioHolds, PTL
-----------------------------------------------------------------------------
(* No early return: what a resumed task was resumed for *)

\* A registration is what the op in hand asks for.
Kinds ==
    \A t \in Tasks : /\ blocked[t] = Timer => Op(t)[1] = "sleep"
                     /\ blocked[t] \in Objects =>
                            Op(t)[1] \in {"wait", "join"} /\ Op(t)[2] = blocked[t]

\* Whoever wakes others and has not ended is at an op that wakes.
Wakers ==
    \A c \in Carriers : pc[c] \in Waking /\ ~done[cur[c]] => Op(cur[c])[1] \in {"set", "cancel"}

\* A task that is done takes no further step.
Ended ==
    \A t \in Tasks : done[t] => \/ state[t] = "TERMINAL"
                                \/ \E c \in Carriers : cur[c] = t /\ pc[c] \in Waking \cup {"end"}

\* What t awaits has come.
Came(t) == /\ Op(t)[1] = "sleep" => due[t] <= vnow
           /\ Op(t)[1] = "join" => done[Op(t)[2]]

\* A task whose registration was taken got what it waited for, or a cancel.
Answered ==
    \A t \in Tasks : resumed[t] /\ blocked[t] = None /\ ~raise[t] =>
        Came(t) \/ done[t] \/ \E c \in Carriers : cur[c] = t /\ pc[c] = "cancelEnd"

ReturnInv == Kinds /\ Wakers /\ Ended /\ Answered

\* What NoEarlyReturn says of one step.
Returns ==
    \A t \in Tasks : at'[t] # at[t] /\ ~raise[t] =>
        /\ Op(t)[1] = "sleep" => Op(t)[2] = 0 \/ due[t] <= vnow
        /\ Op(t)[1] = "join" => done[Op(t)[2]]

\* Steps that move no program word.
LEMMA Aside ==
    ASSUME ReturnInv, UNCHANGED <<program, at, resumed, blocked, raise, done, due, vnow>>,
           \A t \in Tasks : state[t] = "TERMINAL" => state'[t] = "TERMINAL",
           \A c \in Carriers : pc[c] \in Waking \cup {"end"} =>
               state'[cur[c]] = "TERMINAL" \/ (pc'[c] \in Waking \cup {"end"} /\ cur'[c] = cur[c]),
           \A c \in Carriers : pc'[c] \in Waking => pc[c] \in Waking /\ cur'[c] = cur[c],
           \A c \in Carriers : pc[c] = "cancelEnd" => pc'[c] = "cancelEnd" /\ cur'[c] = cur[c]
    PROVE  ReturnInv' /\ Returns
<1>1. Kinds' /\ Wakers'
  BY DEF ReturnInv, Kinds, Wakers, Op
<1>2. Ended'
  BY DEF ReturnInv, Ended
<1>3. Answered'
  BY DEF ReturnInv, Answered, Came, Op
<1> QED
  BY <1>1, <1>2, <1>3 DEF ReturnInv, Returns

\* The op of a task on nothing is over.
LEMMA Passing ==
    ASSUME AsyncioInv, ReturnInv, NEW c \in Carriers, pc[c] \in {"op", "spawn", "wake"},
           cur[c] \in Tasks, blocked[cur[c]] = None, ~resumed'[cur[c]], ~done[cur[c]],
           \A t \in Tasks : t # cur[c] => at'[t] = at[t] /\ resumed'[t] = resumed[t],
           \A p \in Procs : p # c => pc'[p] = pc[p],
           pc'[c] \in {"op", "again"}, cur' = cur,
           \A t \in Tasks : state[t] = "TERMINAL" => state'[t] = "TERMINAL",
           UNCHANGED <<program, blocked, raise, done, due, vnow>>
    PROVE  ReturnInv'
<1>1. \A d \in Carriers : d # c => pc'[d] = pc[d]
  BY DEF Procs
<1>2. pc'[c] \notin Waking \cup {"end", "cancelEnd"} /\ pc[c] # "cancelEnd"
  BY DEF Waking
<1>3. \A d \in Carriers : pc[d] \in Waking /\ d # c /\ pc[c] \in Inside =>
          cur[d] # cur[c] /\ cur[d] \in Tasks
  BY HasRun DEF AsyncioInv, Exclusive, Waking, Inside
<1>4. pc[c] \in Inside
  BY DEF Inside
<1>5. Kinds'
  <2>1. \A t \in Tasks : t # cur[c] => Op(t)' = Op(t)
    BY DEF Op
  <2>2. None # Timer /\ None \notin Objects
    BY AsyncioAssumption
  <2> QED
    BY <2>1, <2>2 DEF ReturnInv, Kinds
<1>6. Wakers'
  <2>1. \A d \in Carriers : pc'[d] \in Waking =>
            pc[d] \in Waking /\ d # c /\ Op(cur[d])' = Op(cur[d])
    BY <1>1, <1>2, <1>3, <1>4 DEF Op
  <2> QED
    BY <2>1 DEF ReturnInv, Wakers, Op
<1>7. Ended'
  BY <1>1 DEF ReturnInv, Ended
<1>8. Answered'
  <2>1. ASSUME NEW t \in Tasks, resumed'[t], blocked'[t] = None, ~raise'[t]
        PROVE  Came(t)' \/ done'[t] \/ \E d \in Carriers : cur'[d] = t /\ pc'[d] = "cancelEnd"
    <3>1. t # cur[c] /\ Op(t)' = Op(t)
      BY <2>1 DEF Op
    <3>2. Came(t) => Came(t)'
      BY <3>1 DEF Came
    <3>3. Came(t) \/ done[t] \/ \E d \in Carriers : cur[d] = t /\ pc[d] = "cancelEnd"
      BY <2>1, <3>1 DEF ReturnInv, Answered
    <3> QED
      BY <1>1, <1>2, <3>2, <3>3
  <2> QED
    BY <2>1 DEF Answered
<1> QED
  BY <1>5, <1>6, <1>7, <1>8 DEF ReturnInv

\* A task at an op, or at the end of one, is not done.
LEMMA NotDone ==
    ASSUME AsyncioInv, ReturnInv, NEW c \in Carriers, pc[c] \in Inside \ (Waking \cup {"end"})
    PROVE  ~done[cur[c]]
<1>1. cur[c] \in Tasks /\ state[cur[c]] # "TERMINAL"
  BY HasRun
<1>2. \A d \in Carriers : cur[d] = cur[c] /\ pc[d] \in Waking \cup {"end"} => d = c
  BY DEF AsyncioInv, Exclusive, Waking, Inside
<1> QED
  BY <1>1, <1>2 DEF ReturnInv, Ended

\* The carriers' steps that move no program word.
LEMMA CarrierAside ==
    ASSUME AsyncioInv, ReturnInv, NEW c \in Carriers,
           \/ Exit(c) \/ (\E t \in Tasks : Take(c, t)) \/ Terminal(c) \/ NotServed(c) \/ Spawn(c)
           \/ (Suspend(c) /\ ~Unblock(c)) \/ (WakesDone(c) /\ done[cur[c]])
    PROVE  ReturnInv' /\ Returns
<1>0. c \in Procs /\ pc \in [Procs -> Pcs] /\ cur \in [Procs -> Tasks \cup {None}]
  BY DEF Procs, AsyncioInv, Typed, TypeOK
<1>a. pc[c] \in Inside => cur[c] \in Tasks /\ state[cur[c]] = "RUNNING"
  BY HasRun
<1> DEFINE Ok(to) == /\ \A t \in Tasks : state[t] = "TERMINAL" => state'[t] = "TERMINAL"
                     /\ \A p \in Procs : p # c => pc'[p] = pc[p] /\ cur'[p] = cur[p]
                     /\ pc'[c] = to
                     /\ UNCHANGED <<program, at, resumed, blocked, raise, done, due, vnow>>
<1>1. CASE Exit(c)
  <2>1. pc[c] = "idle" /\ Ok("exit")
    BY <1>0, <1>1 DEF Exit, Goto, words, loop
  <2> QED
    BY <2>1, Aside DEF Waking, Procs
<1>2. CASE \E t \in Tasks : Take(c, t)
  <2>1. pc[c] = "idle" /\ Ok("poll")
    BY <1>0, <1>2 DEF AsyncioInv, Typed, TypeOK, Take, Goto, Becomes, loop
  <2> QED
    BY <2>1, Aside DEF Waking, Procs
<1>3. CASE Terminal(c)
  <2>1. pc[c] = "end" /\ Ok("idle") /\ state'[cur[c]] = "TERMINAL"
    BY <1>0, <1>a, <1>3 DEF AsyncioInv, Typed, TypeOK, Terminal, Leave, Goto, Becomes, loop, Inside
  <2> QED
    BY <2>1, Aside DEF Waking, Procs
<1>4. CASE NotServed(c)
  <2>1. pc[c] = "op" /\ Ok("block")
    BY <1>0, <1>4 DEF NotServed, Goto, words, loop
  <2> QED
    BY <2>1, Aside DEF Waking, Procs
<1>5. CASE Spawn(c)
  <2>1. pc[c] = "op" /\ Ok("spawn")
    BY <1>0, <1>5 DEF Spawn, IsOp, Goto, words, loop
  <2> QED
    BY <2>1, Aside DEF Waking, Procs
<1>6. CASE Block(c) \/ Park(c) \/ ParkCas(c) \/ Again(c)
  <2>1. /\ pc[c] \in {"block", "park", "parkCas", "again"}
        /\ Ok(pc'[c]) /\ pc'[c] \in {"unblock", "park", "again", "parkCas", "parkSwap", "idle"}
    BY <1>0, <1>a, <1>6
    DEF AsyncioInv, Typed, TypeOK, Block, Park, ParkCas, Again, Leave, Goto, Becomes, words, loop,
        Inside
  <2> QED
    BY <2>1, Aside DEF Waking, Procs
<1>7. CASE ParkSwap(c) \/ SelfWake(c)
  <2>1. pc[c] \in {"parkSwap", "selfWake"} /\ Ok(pc'[c]) /\ pc'[c] \in {"selfWake", "idle"}
    BY <1>0, <1>7 DEF AsyncioInv, Typed, TypeOK, ParkSwap, SelfWake, Leave, Goto, loop
  <2> QED
    BY <2>1, Aside DEF Waking, Procs
<1>8. CASE WakesDone(c) /\ done[cur[c]]
  <2>1. pc[c] = "wake" /\ Ok("end") /\ cur' = cur
    BY <1>0, <1>8 DEF WakesDone, Goto, words, loop
  <2> QED
    BY <2>1, Aside DEF Waking, Procs
<1> QED
  BY <1>1, <1>2, <1>3, <1>4, <1>5, <1>6, <1>7, <1>8 DEF Suspend

\* The wakes and the scan move no program word either.
LEMMA WakeAside ==
    ASSUME AsyncioInv, ReturnInv, NEW p \in Procs, Wake(p)
    PROVE  ReturnInv' /\ Returns
<1>1. /\ pc[p] \in Waking /\ pc'[p] \in Waking /\ \A q \in Procs : q # p => pc'[q] = pc[q]
      /\ cur' = cur
  BY DEF AsyncioInv, Typed, TypeOK, Wake, WakeBegins, SetToken, WakeCas, Goto, Waking
<1>2. \A t \in Tasks : state[t] = "TERMINAL" => state'[t] = "TERMINAL"
  BY DEF AsyncioInv, Typed, TypeOK, Wake, WakeBegins, SetToken, WakeCas, words
<1>3. UNCHANGED <<program, at, resumed, blocked, raise, done, due, vnow>>
  BY DEF Wake, WakeBegins, SetToken, WakeCas, words, loop
<1>4. \A c \in Carriers : pc'[c] = pc[c] \/ (pc[c] \in Waking /\ pc'[c] \in Waking)
  BY <1>1 DEF Procs
<1> QED
  BY <1>1, <1>2, <1>3, <1>4, Aside DEF Waking

LEMMA EdgeAside ==
    ASSUME AsyncioInv, ReturnInv, ScanBegins \/ Look \/ Confirm \/ NoTimer \/ FireDone \/ Stop
    PROVE  ReturnInv' /\ Returns
<1>1. \A p \in Procs : p # Edge => pc'[p] = pc[p]
  BY DEF AsyncioInv, Typed, TypeOK, ScanBegins, Look, Confirm, NoTimer, FireDone, Stop, Ends, Goto
<1>2. /\ UNCHANGED <<program, at, resumed, blocked, raise, done, due, vnow, cur, state>>
  BY DEF ScanBegins, Look, Confirm, NoTimer, FireDone, Stop, words, loop
<1>3. \A c \in Carriers : pc'[c] = pc[c]
  BY <1>1, AsyncioAssumption DEF Procs
<1> QED
  BY <1>2, <1>3, Aside

\* The ops that end, and what an await that ends was answered.
LEMMA Passes ==
    ASSUME AsyncioInv, ReturnInv, NEW c \in Carriers,
           \/ Served(c) \/ SpawnCas(c) \/ Clear(c) \/ CancelDone(c) \/ Yield(c) \/ PassOn(c)
           \/ (WakesDone(c) /\ ~done[cur[c]])
    PROVE  ReturnInv' /\ Returns
<1>0. /\ pc \in [Procs -> Pcs] /\ resumed \in [Tasks -> BOOLEAN] /\ at = [t \in Tasks |-> at[t]]
      /\ state \in [Tasks -> {"FREE", "READY", "RUNNING", "PARKED", "TERMINAL"}]
  BY DEF AsyncioInv, Typed, TypeOK
<1>1. pc[c] \in {"op", "spawn", "wake"}
  BY DEF Served, SpawnCas, Clear, CancelDone, Yield, PassOn, Passed, WakesDone, IsOp
<1>2. cur[c] \in Tasks /\ c \in Procs /\ state[cur[c]] = "RUNNING"
  BY <1>1, HasRun DEF Inside
<1>3. ~done[cur[c]]
  <2>1. CASE WakesDone(c) /\ ~done[cur[c]]
    BY <2>1
  <2>2. CASE Served(c) \/ SpawnCas(c) \/ Clear(c) \/ CancelDone(c) \/ Yield(c) \/ PassOn(c)
    <3>1. pc[c] \in Inside \ (Waking \cup {"end"})
      BY <2>2 DEF Served, SpawnCas, Clear, CancelDone, Yield, PassOn, Passed, IsOp, Inside, Waking
    <3> QED
      BY <3>1, NotDone
  <2> QED
    BY <2>1, <2>2
<1>4. blocked[cur[c]] = None
  <2>1. ~resumed[cur[c]] => blocked[cur[c]] = None
    BY <1>2 DEF AsyncioInv, Positions
  <2>2. CASE Served(c)
    BY <2>2 DEF Served
  <2>3. CASE Clear(c) \/ CancelDone(c) \/ Yield(c) \/ PassOn(c)
    BY <2>1, <2>3 DEF Clear, CancelDone, Yield, PassOn, Passed, IsOp
  <2>4. CASE SpawnCas(c) \/ WakesDone(c)
    BY <1>3, <2>1, <2>4 DEF SpawnCas, WakesDone, AsyncioInv, Positions, Waking
  <2> QED
    BY <2>2, <2>3, <2>4
<1>5. ~resumed'[cur[c]] /\ \A t \in Tasks : t # cur[c] => resumed'[t] = resumed[t]
  <2>1. CASE Served(c)
    BY <1>0, <1>2, <2>1 DEF Served
  <2>2. CASE Clear(c) \/ CancelDone(c) \/ Yield(c) \/ PassOn(c)
    BY <2>2 DEF Clear, CancelDone, Yield, PassOn, Passed, IsOp
  <2>3. CASE SpawnCas(c) \/ WakesDone(c)
    BY <1>3, <2>3 DEF SpawnCas, WakesDone, AsyncioInv, Positions, Waking
  <2> QED
    BY <2>1, <2>2, <2>3
<1>6. \A t \in Tasks : t # cur[c] => at'[t] = at[t]
  BY <1>0, <1>2, <1>3 DEF Served, SpawnCas, Clear, CancelDone, Yield, PassOn, WakesDone, Advance
<1>7. /\ \A p \in Procs : p # c => pc'[p] = pc[p]
      /\ pc'[c] \in {"op", "again"} /\ cur' = cur
  <2>1. CASE Served(c) \/ Clear(c) \/ CancelDone(c) \/ PassOn(c)
    BY <2>1 DEF Served, Clear, CancelDone, PassOn, Passed, IsOp
  <2>2. CASE Yield(c) \/ SpawnCas(c) \/ (WakesDone(c) /\ ~done[cur[c]])
    BY <1>0, <1>2, <2>2 DEF Yield, SpawnCas, WakesDone, Goto
  <2> QED
    BY <2>1, <2>2
<1>8. \A t \in Tasks : state[t] = "TERMINAL" => state'[t] = "TERMINAL"
  <2>1. CASE SpawnCas(c)
    BY <1>0, <2>1 DEF SpawnCas
  <2>2. CASE ~SpawnCas(c)
    BY <2>2 DEF Served, Clear, CancelDone, Yield, PassOn, WakesDone, words
  <2> QED
    BY <2>1, <2>2
<1>9. UNCHANGED <<program, blocked, raise, done, due, vnow>>
  BY DEF Served, SpawnCas, Clear, CancelDone, Yield, PassOn, WakesDone, words, loop
<1>10. ReturnInv'
  BY <1>1, <1>2, <1>3, <1>4, <1>5, <1>6, <1>7, <1>8, <1>9, Passing
<1>11. Returns
  <2> SUFFICES ASSUME ~raise[cur[c]]
               PROVE  /\ Op(cur[c])[1] = "sleep" => Op(cur[c])[2] = 0 \/ due[cur[c]] <= vnow
                      /\ Op(cur[c])[1] = "join" => done[Op(cur[c])[2]]
    BY <1>6 DEF Returns
  <2>1. CASE Served(c)
    <3>1. resumed[cur[c]] /\ pc[c] = "op"
      BY <2>1 DEF Served
    <3>2. \A d \in Carriers : cur[d] = cur[c] => pc[d] # "cancelEnd"
      BY <3>1 DEF AsyncioInv, Exclusive, Inside
    <3>3. Came(cur[c])
      BY <1>2, <1>3, <1>4, <3>1, <3>2 DEF ReturnInv, Answered
    <3> QED
      BY <3>3 DEF Came
  <2>2. CASE SpawnCas(c)
    BY <2>2 DEF SpawnCas, AsyncioInv, Positions
  <2>3. CASE Clear(c) \/ CancelDone(c) \/ Yield(c) \/ PassOn(c)
    BY <2>3 DEF Clear, CancelDone, Yield, PassOn, Passed, IsOp, Arg
  <2>4. CASE WakesDone(c) /\ ~done[cur[c]]
    BY <2>4 DEF WakesDone, ReturnInv, Wakers, Waking
  <2> QED
    BY <2>1, <2>2, <2>3, <2>4
<1> QED
  BY <1>10, <1>11

\* A step of p that ends no op: who comes off a list there was answered.
LEMMA Settles ==
    ASSUME AsyncioInv, ReturnInv, NEW p \in Procs,
           pc[p] \in {"poll", "op", "unblock", "cancelEnd", "fire"},
           NEW l, pc' = [pc EXCEPT ![p] = l],
           UNCHANGED <<program, state, at, cur>>,
           p \in Carriers /\ l \in Waking => done'[cur[p]] \/ Op(cur[p])[1] \in {"set", "cancel"},
           \A t \in Tasks : done[t] => done'[t],
           \A t \in Tasks : done'[t] => done[t] \/ (p \in Carriers /\ cur[p] = t /\ l = "wake"),
           p \in Carriers /\ pc[p] = "cancelEnd" => done'[cur[p]],
           Kinds',
           \A t \in Tasks : resumed'[t] /\ blocked'[t] = None /\ ~raise'[t] =>
               \/ resumed[t] /\ blocked[t] = None /\ ~raise[t] /\ (Came(t) => Came(t)')
               \/ Came(t)' \/ done'[t]
               \/ p \in Carriers /\ cur[p] = t /\ l = "cancelEnd"
    PROVE  ReturnInv' /\ Returns
<1>1. pc'[p] = l /\ \A q \in Procs : q # p => pc'[q] = pc[q]
  BY DEF AsyncioInv, Typed, TypeOK
<1>2. \A d \in Carriers : d # p => pc'[d] = pc[d] /\ cur'[d] = cur[d]
  BY <1>1 DEF Procs
<1>3. Wakers'
  <2>1. ASSUME NEW d \in Carriers, pc'[d] \in Waking, ~done'[cur[d]]
        PROVE  Op(cur[d])[1] \in {"set", "cancel"}
    <3>1. CASE d = p
      BY <1>1, <2>1, <3>1
    <3>2. CASE d # p
      <4>1. pc[d] \in Waking /\ cur[d] \in Tasks
        BY <1>2, <2>1, <3>2, HasRun DEF Waking, Inside
      <4> QED
        BY <2>1, <4>1 DEF ReturnInv, Wakers
    <3> QED
      BY <3>1, <3>2
  <2>2. \A d \in Carriers : cur'[d] = cur[d] /\ Op(cur[d])' = Op(cur[d])
    BY DEF Op
  <2> QED
    BY <2>1, <2>2 DEF Wakers
<1>4. Ended'
  <2>1. ASSUME NEW t \in Tasks, done'[t]
        PROVE  \/ state'[t] = "TERMINAL"
               \/ \E d \in Carriers : cur'[d] = t /\ pc'[d] \in Waking \cup {"end"}
    <3>1. CASE done[t]
      <4>1. state[t] = "TERMINAL" \/ \E d \in Carriers : cur[d] = t /\ pc[d] \in Waking \cup {"end"}
        BY <3>1 DEF ReturnInv, Ended
      <4>2. pc[p] \notin Waking \cup {"end"}
        BY DEF Waking
      <4> QED
        BY <1>2, <4>1, <4>2
    <3>2. CASE ~done[t]
      BY <1>1, <2>1, <3>2 DEF Waking
    <3> QED
      BY <3>1, <3>2
  <2> QED
    BY <2>1 DEF Ended
<1>5. Answered'
  <2>1. ASSUME NEW t \in Tasks, resumed'[t], blocked'[t] = None, ~raise'[t]
        PROVE  Came(t)' \/ done'[t] \/ \E d \in Carriers : cur'[d] = t /\ pc'[d] = "cancelEnd"
    <3>1. CASE resumed[t] /\ blocked[t] = None /\ ~raise[t] /\ (Came(t) => Came(t)')
      <4>1. Came(t) \/ done[t] \/ \E d \in Carriers : cur[d] = t /\ pc[d] = "cancelEnd"
        BY <3>1 DEF ReturnInv, Answered
      <4> QED
        BY <1>2, <3>1, <4>1
    <3>2. CASE p \in Carriers /\ cur[p] = t /\ l = "cancelEnd"
      BY <1>1, <3>2
    <3> QED
      BY <2>1, <3>1, <3>2
  <2> QED
    BY <2>1 DEF Answered
<1> QED
  BY <1>3, <1>4, <1>5 DEF ReturnInv, Returns

\* What the op of a task may be, wherever the task is.
LEMMA OpOf ==
    ASSUME AsyncioInv, NEW t \in Tasks, ~AtEnd(t)
    PROVE  Op(t)[1] = "join" => Op(t)[2] \in Tasks
<1>1. program[t] \in Seq(Ops) /\ at[t] \in 1..(Len(program[t]) + 1) /\ Len(program[t]) \in Nat
  BY AsyncioAssumption DEF AsyncioInv, Typed, TypeOK, Ops
<1>2. at[t] \in 1..Len(program[t])
  BY <1>1 DEF AtEnd
<1>3. Op(t) \in Ops
  BY <1>1, <1>2 DEF Op
<1> QED
  BY <1>3 DEF Ops

\* Whoever is taken off an object waited there, or joined it.
LEMMA Listed ==
    ASSUME AsyncioInv, ReturnInv, NEW o \in Objects, NEW t \in Tasks, t \in ToSet(waiters[o])
    PROVE  Op(t)[1] # "sleep" /\ (Op(t)[1] = "join" => Op(t)[2] = o /\ o \in Tasks)
<1>1. blocked[t] = o /\ o # None
  BY AsyncioAssumption DEF AsyncioInv, OneRegistration
<1>2. ~AtEnd(t)
  BY <1>1 DEF AsyncioInv, Positions
<1>3. Op(t)[1] \in {"wait", "join"} /\ Op(t)[2] = o
  BY <1>1 DEF ReturnInv, Kinds
<1> QED
  BY <1>2, <1>3, OpOf

\* Registrations that only go.
LEMMA KindsStay ==
    ASSUME ReturnInv, UNCHANGED <<program, at>>,
           \A t \in Tasks : blocked'[t] \in {None, blocked[t]}
    PROVE  Kinds'
<1>1. None # Timer /\ None \notin Objects
  BY AsyncioAssumption
<1> QED
  BY <1>1 DEF ReturnInv, Kinds, Op

LEMMA PollReturns ==
    ASSUME AsyncioInv, ReturnInv, NEW c \in Carriers, Poll(c)
    PROVE  ReturnInv' /\ Returns
<1>0. c \in Procs /\ pc[c] = "poll" /\ cur[c] \in Tasks /\ raise \in [Tasks -> BOOLEAN]
  BY HasRun DEF Poll, Inside, AsyncioInv, Typed, TypeOK
<1>1. PICK l \in {"cancelEnd", "op"} : /\ pc' = [pc EXCEPT ![c] = l]
                                       /\ raise[cur[c]] => l = "cancelEnd"
  BY DEF Poll, Goto
<1>2. UNCHANGED <<program, state, at, cur, blocked, resumed, done, due, vnow>>
  BY DEF Poll, loop
<1>3. \A t \in Tasks : ~raise'[t] => ~raise[t] \/ (cur[c] = t /\ l = "cancelEnd")
  BY <1>0, <1>1 DEF Poll
<1>4. Kinds'
  BY <1>2, KindsStay
<1>5. \A t \in Tasks : Came(t)' <=> Came(t)
  BY <1>2 DEF Came, Op
<1>6. l \notin Waking
  BY <1>1 DEF Waking
<1>7. \A t \in Tasks : resumed'[t] /\ blocked'[t] = None /\ ~raise'[t] =>
          \/ resumed[t] /\ blocked[t] = None /\ ~raise[t] /\ (Came(t) => Came(t)')
          \/ cur[c] = t /\ l = "cancelEnd"
  BY <1>2, <1>3, <1>5
<1> QED
  BY <1>0, <1>1, <1>2, <1>4, <1>6, <1>7, Settles

LEMMA UnblockReturns ==
    ASSUME AsyncioInv, ReturnInv, NEW c \in Carriers, Unblock(c)
    PROVE  ReturnInv' /\ Returns
<1>0. c \in Procs /\ pc[c] = "unblock" /\ cur[c] \in Tasks /\ resumed \in [Tasks -> BOOLEAN]
  BY HasRun DEF Unblock, Inside, AsyncioInv, Typed, TypeOK
<1>1. pc' = [pc EXCEPT ![c] = "again"] /\ "again" \notin Waking
  BY DEF Unblock, Goto, Waking
<1>2. UNCHANGED <<program, state, at, cur, raise, done, due, vnow>>
  BY DEF Unblock, words
<1>3. blocked'[cur[c]] = None /\ \A t \in Tasks : t # cur[c] => blocked'[t] = blocked[t]
  BY <1>0, Unregisters DEF Unblock
<1>4. ~resumed'[cur[c]] /\ \A t \in Tasks : t # cur[c] => resumed'[t] = resumed[t]
  BY <1>0 DEF Unblock
<1>5. Kinds'
  BY <1>2, <1>3, KindsStay
<1>6. \A t \in Tasks : Came(t)' <=> Came(t)
  BY <1>2 DEF Came, Op
<1>7. \A t \in Tasks : resumed'[t] /\ blocked'[t] = None /\ ~raise'[t] =>
          resumed[t] /\ blocked[t] = None /\ ~raise[t] /\ (Came(t) => Came(t)')
  BY <1>2, <1>3, <1>4, <1>6
<1> QED
  BY <1>0, <1>1, <1>2, <1>5, <1>7, Settles

LEMMA AwaitReturns ==
    ASSUME AsyncioInv, ReturnInv, NEW c \in Carriers, SleepFor(c) \/ AwaitOther(c)
    PROVE  ReturnInv' /\ Returns
<1>0. /\ c \in Procs /\ pc[c] = "op" /\ cur[c] \in Tasks /\ ~AtEnd(cur[c])
      /\ resumed \in [Tasks -> BOOLEAN] /\ due \in [Tasks -> Nat]
      /\ blocked \in [Tasks -> Objects \cup {Timer, None}]
  BY HasRun DEF SleepFor, AwaitOther, IsOp, Inside, AsyncioInv, Typed, TypeOK
<1>1. PICK o \in Objects \cup {Timer} :
          /\ Await(c, o)
          /\ o = Timer => Op(cur[c])[1] = "sleep"
          /\ o # Timer => Op(cur[c])[1] \in {"wait", "join"} /\ Op(cur[c])[2] = o
  <2>1. CASE SleepFor(c)
    BY <2>1 DEF SleepFor, IsOp
  <2>2. CASE AwaitOther(c)
    <3>1. Op(cur[c])[1] \in {"wait", "join"} /\ Arg(c) = Op(cur[c])[2] /\ Await(c, Arg(c))
      BY <2>2 DEF AwaitOther, IsOp, Arg
    <3>2. Arg(c) \in Objects
      BY <1>0, <3>1, OpInHand DEF Objects
    <3> QED
      BY <3>1, <3>2, AsyncioAssumption
  <2> QED
    BY <2>1, <2>2
<1>2. pc' = [pc EXCEPT ![c] = "block"] /\ "block" \notin Waking
  BY <1>1 DEF Await, Goto, Waking
<1>3. /\ UNCHANGED <<program, state, at, cur, raise, done, vnow>>
      /\ \A t \in Tasks : t # cur[c] => due'[t] = due[t]
  BY <1>0 DEF SleepFor, AwaitOther, words
<1>4. /\ blocked'[cur[c]] = o /\ \A t \in Tasks : t # cur[c] => blocked'[t] = blocked[t]
      /\ \A t \in Tasks : t # cur[c] => resumed'[t] = resumed[t]
  BY <1>0, <1>1 DEF Await, Register
<1>5. Timer \notin Objects /\ o # None
  BY <1>1, AsyncioAssumption
<1>6. \A t \in Tasks : Op(t)' = Op(t)
  BY <1>3 DEF Op
<1>7. Kinds'
  <2>1. ASSUME NEW t \in Tasks
        PROVE  /\ blocked'[t] = Timer => Op(t)[1] = "sleep"
               /\ blocked'[t] \in Objects => Op(t)[1] \in {"wait", "join"} /\ Op(t)[2] = blocked'[t]
    BY <1>1, <1>4, <1>5 DEF ReturnInv, Kinds
  <2> QED
    BY <1>6, <2>1 DEF Kinds
<1>8. \A t \in Tasks : t # cur[c] => (Came(t)' <=> Came(t))
  BY <1>3, <1>6 DEF Came
<1>9. \A t \in Tasks : resumed'[t] /\ blocked'[t] = None /\ ~raise'[t] =>
          resumed[t] /\ blocked[t] = None /\ ~raise[t] /\ (Came(t) => Came(t)')
  BY <1>3, <1>4, <1>5, <1>8
<1> QED
  BY <1>0, <1>2, <1>3, <1>7, <1>9, Settles

LEMMA SetReturns ==
    ASSUME AsyncioInv, ReturnInv, NEW c \in Carriers, SetEvent(c)
    PROVE  ReturnInv' /\ Returns
<1>0. /\ c \in Procs /\ pc[c] = "op" /\ cur[c] \in Tasks /\ ~AtEnd(cur[c])
      /\ Op(cur[c])[1] = "set"
  BY HasRun DEF SetEvent, IsOp, Inside
<1>1. Arg(c) \in Events /\ Arg(c) \in Objects /\ Arg(c) \notin Tasks
  BY <1>0, OpInHand, AsyncioAssumption DEF Objects
<1>2. pc' = [pc EXCEPT ![c] = "wake"]
  BY DEF SetEvent, Goto
<1>3. UNCHANGED <<program, state, at, cur, raise, resumed, done, due, vnow>>
  BY DEF SetEvent, words
<1>4. \A t \in Tasks : blocked'[t] = IF t \in ToSet(waiters[Arg(c)]) THEN None ELSE blocked[t]
  BY <1>0, <1>1, Releases DEF SetEvent
<1>5. Kinds'
  BY <1>3, <1>4, KindsStay
<1>6. \A t \in Tasks : Op(t)' = Op(t) /\ (Came(t)' <=> Came(t))
  BY <1>3 DEF Came, Op
<1>7. \A t \in ToSet(waiters[Arg(c)]) : t \in Tasks => Came(t)
  BY <1>1, Listed DEF Came
<1>8. \A t \in Tasks : resumed'[t] /\ blocked'[t] = None /\ ~raise'[t] =>
          \/ resumed[t] /\ blocked[t] = None /\ ~raise[t] /\ (Came(t) => Came(t)')
          \/ Came(t)'
  BY <1>3, <1>4, <1>6, <1>7
<1> QED
  BY <1>0, <1>2, <1>3, <1>5, <1>8, Settles

LEMMA FinishReturns ==
    ASSUME AsyncioInv, ReturnInv, NEW c \in Carriers, EndsCancelled(c) \/ EndsDone(c)
    PROVE  ReturnInv' /\ Returns
<1>1. PICK how \in BOOLEAN : Finish(c, how)
  BY DEF EndsCancelled, EndsDone
<1>2. /\ c \in Procs /\ pc[c] \in {"op", "cancelEnd"} /\ cur[c] \in Tasks /\ cur[c] \in Objects
      /\ done \in [Tasks -> BOOLEAN]
  BY HasRun DEF EndsCancelled, EndsDone, Inside, Objects, AsyncioInv, Typed, TypeOK
<1>3. blocked[cur[c]] = None
  BY <1>2 DEF EndsCancelled, EndsDone, AsyncioInv, Positions
<1>4. pc' = [pc EXCEPT ![c] = "wake"]
  BY <1>1 DEF Finish, Goto
<1>5. UNCHANGED <<program, state, at, cur, raise, resumed, due, vnow>>
  BY <1>1 DEF Finish, words
<1>6. \A t \in Tasks : blocked'[t] = IF t \in ToSet(waiters[cur[c]]) THEN None ELSE blocked[t]
  BY <1>1, <1>2, <1>3, Releases DEF Finish
<1>7. \A t \in Tasks : done'[t] = IF t = cur[c] THEN TRUE ELSE done[t]
  BY <1>1, <1>2 DEF Finish
<1>8. Kinds'
  BY <1>5, <1>6, KindsStay
<1>9. ASSUME NEW t \in Tasks, Came(t), ~AtEnd(t)
      PROVE  Came(t)'
  <2>1. Op(t)' = Op(t)
    BY <1>5 DEF Op
  <2>2. Op(t)[1] = "join" => Op(t)[2] \in Tasks
    BY <1>9, OpOf
  <2> QED
    BY <1>5, <1>7, <1>9, <2>1, <2>2 DEF Came
<1>10. ASSUME NEW t \in Tasks, t \in ToSet(waiters[cur[c]])
       PROVE  Came(t)'
  <2>1. Op(t)' = Op(t)
    BY <1>5 DEF Op
  <2>2. Op(t)[1] # "sleep" /\ (Op(t)[1] = "join" => Op(t)[2] = cur[c])
    BY <1>2, <1>10, Listed
  <2> QED
    BY <1>2, <1>7, <2>1, <2>2 DEF Came
<1>11. \A t \in Tasks : resumed[t] => ~AtEnd(t)
  BY DEF AsyncioInv, Positions
<1>12. \A t \in Tasks : resumed'[t] /\ blocked'[t] = None /\ ~raise'[t] =>
           \/ resumed[t] /\ blocked[t] = None /\ ~raise[t] /\ (Came(t) => Came(t)')
           \/ Came(t)'
  BY <1>5, <1>6, <1>9, <1>10, <1>11
<1> QED
  BY <1>2, <1>4, <1>5, <1>7, <1>8, <1>12, Settles

LEMMA CancelReturns ==
    ASSUME AsyncioInv, ReturnInv, NEW c \in Carriers, Cancel(c)
    PROVE  ReturnInv' /\ Returns
<1>0. /\ c \in Procs /\ pc[c] = "op" /\ cur[c] \in Tasks /\ ~AtEnd(cur[c])
      /\ Op(cur[c])[1] = "cancel" /\ raise \in [Tasks -> BOOLEAN]
  BY HasRun DEF Cancel, IsOp, Inside, AsyncioInv, Typed, TypeOK
<1>1. PICK v \in Tasks : v = Deepest(Arg(c))
  BY <1>0, OpInHand, DeepestIsTask
<1>2. pc' = [pc EXCEPT ![c] = "wake"]
  BY DEF Cancel, Goto
<1>3. UNCHANGED <<program, state, at, cur, resumed, done, due, vnow>>
  BY DEF Cancel
<1>4. blocked'[v] = None /\ \A t \in Tasks : t # v => blocked'[t] = blocked[t]
  BY <1>1, Unregisters DEF Cancel
<1>5. raise'[v] /\ \A t \in Tasks : t # v => raise'[t] = raise[t]
  BY <1>0, <1>1 DEF Cancel
<1>6. Kinds'
  BY <1>3, <1>4, KindsStay
<1>7. \A t \in Tasks : Came(t)' <=> Came(t)
  BY <1>3 DEF Came, Op
<1>8. \A t \in Tasks : resumed'[t] /\ blocked'[t] = None /\ ~raise'[t] =>
          resumed[t] /\ blocked[t] = None /\ ~raise[t] /\ (Came(t) => Came(t)')
  BY <1>3, <1>4, <1>5, <1>7
<1> QED
  BY <1>0, <1>2, <1>3, <1>6, <1>8, Settles

LEMMA FireReturns ==
    ASSUME AsyncioInv, ReturnInv, Fire
    PROVE  ReturnInv' /\ Returns
<1>1. PICK now : /\ now \in {due[t] : t \in ToSet(timers)} /\ pc[Edge] = "fire"
                 /\ vnow' = now
                 /\ blocked' = [t \in Tasks |-> IF t \in {u \in ToSet(timers) : due[u] = now}
                                                THEN None ELSE blocked[t]]
                 /\ Goto(Edge, "wake")
                 /\ UNCHANGED <<program, words, at, resumed, done, due, cur>>
  BY DEF Fire
<1>2. /\ Edge \in Procs /\ Edge \notin Carriers
      /\ ToSet(timers) = {t \in Tasks : blocked[t] = Timer} /\ due \in [Tasks -> Nat]
  BY AsyncioAssumption DEF Procs, AsyncioInv, Typed, TypeOK, OneRegistration
<1>3. vnow \in Nat /\ now \in Nat /\ vnow <= now
  BY <1>1, <1>2 DEF AsyncioInv, NoTimerPast, Typed, TypeOK
<1>4. pc' = [pc EXCEPT ![Edge] = "wake"]
  BY <1>1 DEF Goto
<1>5. UNCHANGED <<program, state, at, cur, raise, resumed, done, due>>
  BY <1>1 DEF words
<1>6. Kinds'
  BY <1>1, <1>5, KindsStay
<1>7. \A t \in Tasks : Came(t) => Came(t)'
  <2>1. \A t \in Tasks : due[t] <= vnow => due'[t] <= vnow'
    BY <1>1, <1>2, <1>3, <1>5
  <2> QED
    BY <1>5, <2>1 DEF Came, Op
<1>8. ASSUME NEW t \in Tasks, t \in ToSet(timers), due[t] = now
      PROVE  Came(t)'
  <2>1. Op(t)[1] = "sleep" /\ Op(t)' = Op(t)
    BY <1>2, <1>5, <1>8 DEF ReturnInv, Kinds, Op
  <2>2. due'[t] <= vnow'
    BY <1>1, <1>3, <1>5, <1>8
  <2> QED
    BY <2>1, <2>2 DEF Came
<1>9. \A t \in Tasks : resumed'[t] /\ blocked'[t] = None /\ ~raise'[t] =>
          \/ resumed[t] /\ blocked[t] = None /\ ~raise[t] /\ (Came(t) => Came(t)')
          \/ Came(t)'
  BY <1>1, <1>5, <1>7, <1>8
<1> QED
  BY <1>1, <1>2, <1>4, <1>5, <1>6, <1>9, Settles

LEMMA ReturnHolds == Spec => [](AsyncioInv /\ ReturnInv) /\ [][Returns]_vars
<1>1. Init => ReturnInv
  <2> SUFFICES ASSUME Init PROVE ReturnInv
    OBVIOUS
  <2>1. Edge \notin Carriers /\ None # Timer /\ None \notin Objects
    BY AsyncioAssumption
  <2>2. \A c \in Carriers : pc[c] = "idle"
    BY <2>1 DEF Init, Procs
  <2>3. \A t \in Tasks : blocked[t] = None /\ ~done[t] /\ ~resumed[t]
    BY DEF Init
  <2> QED
    BY <2>1, <2>2, <2>3 DEF ReturnInv, Kinds, Wakers, Ended, Answered, Waking
<1>2. AsyncioInv /\ ReturnInv /\ [Next]_vars => ReturnInv' /\ Returns
  <2> SUFFICES ASSUME AsyncioInv, ReturnInv, [Next]_vars PROVE ReturnInv' /\ Returns
    OBVIOUS
  <2>1. ASSUME NEW c \in Carriers, CarrierNext(c) PROVE ReturnInv' /\ Returns
    <3>1. CASE Exit(c) \/ (\E t \in Tasks : Take(c, t)) \/ Terminal(c)
      BY <3>1, CarrierAside
    <3>2. CASE Poll(c)
      BY <3>2, PollReturns
    <3>3. CASE EndsCancelled(c) \/ EndsDone(c)
      BY <3>3, FinishReturns
    <3>4. CASE RunOp(c)
      BY <3>4, Passes, CarrierAside, SetReturns, CancelReturns, AwaitReturns DEF RunOp
    <3>5. CASE Suspend(c)
      BY <3>5, CarrierAside, UnblockReturns
    <3>6. CASE Wake(c)
      BY <3>6, WakeAside DEF Procs
    <3>7. CASE WakesDone(c)
      BY <3>7, Passes, CarrierAside
    <3> QED
      BY <2>1, <3>1, <3>2, <3>3, <3>4, <3>5, <3>6, <3>7 DEF CarrierNext
  <2>2. CASE EdgeNext
    BY <2>2, FireReturns, EdgeAside, WakeAside DEF EdgeNext, Procs
  <2>3. CASE UNCHANGED vars
    BY <2>3, Aside DEF vars, words, loop, report, history
  <2> QED
    BY <2>1, <2>2, <2>3 DEF Next, Terminated
<1>3. AsyncioInv /\ ReturnInv /\ [Next]_vars => [Returns]_vars
  BY <1>2
<1> QED
  BY <1>1, <1>2, <1>3, AsyncioHolds, PTL DEF Spec

\* An await is passed only with what it waited for, or with a cancel: a resumed task of
\* smp_asyncio.c never goes on from a sleep that is not due or from the join of a task that
\* runs, however many carriers, wakers and cancels race with its park.
THEOREM AwaitsAreAnswered == Spec => NoEarlyReturn
<1>1. [][Returns]_vars => NoEarlyReturn
  <2>1. [Returns]_vars => [\A t \in Tasks : at'[t] # at[t] /\ ~raise[t] =>
           /\ Op(t)[1] = "sleep" => Op(t)[2] = 0 \/ due[t] <= vnow
           /\ Op(t)[1] = "join" => done[Op(t)[2]]]_vars
    BY DEF Returns
  <2> QED
    BY <2>1, PTL DEF NoEarlyReturn
<1> QED
  BY <1>1, ReturnHolds, PTL

\* Of what the run checks as one property, the answers are settled here for every instance:
\* what is left to TLC is that the world comes to its end.
THEOREM AwaitsEnd == Spec => (AwaitsAnswer <=> MainEnds)
  BY AwaitsAreAnswered, PTL DEF AwaitsAnswer
=============================================================================
