----------------------------- MODULE QueueProofs -----------------------------
(***************************************************************************)
(* Lemmas about natural numbers and queues that the proofs about the lock  *)
(* modules rest on. Induction is by the least counterexample.              *)
(***************************************************************************)
EXTENDS Queues, SequencesExt, WellFoundedInduction, TLAPS

\* A nonempty set of natural numbers has a least element.
LEMMA LeastNat ==
  ASSUME NEW S \in SUBSET Nat, S # {}
  PROVE  \E n \in S : \A m \in S : n <= m
<1> DEFINE R == {ss \in Nat \X Nat : ss[1] < ss[2]}
<1>1. IsWellFoundedOn(R, Nat)
  BY NatLessThanWellFounded, Zenon DEF OpToRel
<1>2. PICK n \in S : \A m \in S : ~(<<m, n>> \in R)
  <2> HIDE DEF R
  <2> QED BY <1>1, WFMin, Zenon
<1>3. ASSUME NEW m \in S PROVE n <= m
  <2>1. m < n => <<m, n>> \in R
    OBVIOUS
  <2> QED BY <1>2, <2>1
<1> QED BY <1>3

\* A nonempty bounded set of natural numbers has a greatest element.
LEMMA GreatestNat ==
  ASSUME NEW S \in SUBSET Nat, S # {}, NEW b \in Nat, \A m \in S : m <= b
  PROVE  \E n \in S : \A m \in S : m <= n
<1> DEFINE U == {u \in Nat : \A m \in S : m <= u}
<1>1. PICK n \in U : \A u \in U : n <= u
  <2>1. U # {} /\ U \in SUBSET Nat
    OBVIOUS
  <2> HIDE DEF U
  <2> QED BY <2>1, LeastNat
<1>2. n \in S
  <2> SUFFICES ASSUME n \notin S PROVE FALSE
    OBVIOUS
  <2>1. PICK m \in S : TRUE
    OBVIOUS
  <2>2. n \in Nat /\ n # 0 /\ n - 1 \in Nat
    BY <1>1, <2>1
  <2>3. n - 1 \in U
    BY <1>1, <2>2
  <2> QED BY <1>1, <2>2, <2>3
<1> QED BY <1>1, <1>2

\* The elements of a sequence after an append
LEMMA ToSetAppend ==
  ASSUME NEW T, NEW s \in Seq(T), NEW e \in T
  PROVE  ToSet(Append(s, e)) = ToSet(s) \cup {e}
<1>1. DOMAIN Append(s, e) = DOMAIN s \cup {Len(s) + 1}
  OBVIOUS
<1>2. \A i \in DOMAIN s : Append(s, e)[i] = s[i]
  OBVIOUS
<1>3. Append(s, e)[Len(s) + 1] = e
  OBVIOUS
<1>4. \A x : x \in ToSet(Append(s, e)) <=> \E i \in DOMAIN Append(s, e) : x = Append(s, e)[i]
  BY Zenon DEF ToSet
<1>5. \A x : x \in ToSet(s) <=> \E i \in DOMAIN s : x = s[i]
  BY Zenon DEF ToSet
<1> QED BY <1>1, <1>2, <1>3, <1>4, <1>5

\* The elements of two sequences, one after the other
LEMMA ToSetConcat ==
  ASSUME NEW T, NEW s \in Seq(T), NEW t \in Seq(T)
  PROVE  /\ ToSet(s \o t) = ToSet(s) \cup ToSet(t)
         /\ IsInjective(s) /\ IsInjective(t) /\ ToSet(s) \cap ToSet(t) = {} => IsInjective(s \o t)
<1>1. /\ DOMAIN (s \o t) = 1..(Len(s) + Len(t)) /\ DOMAIN s = 1..Len(s) /\ DOMAIN t = 1..Len(t)
      /\ Len(s) \in Nat /\ Len(t) \in Nat
  OBVIOUS
<1>2. \A i \in 1..(Len(s) + Len(t)) : (s \o t)[i] = IF i <= Len(s) THEN s[i] ELSE t[i - Len(s)]
  OBVIOUS
<1>3. \A x : x \in ToSet(s \o t) <=> \E i \in DOMAIN (s \o t) : x = (s \o t)[i]
  BY Zenon DEF ToSet
<1>4. \A x : x \in ToSet(s) <=> \E i \in DOMAIN s : x = s[i]
  BY Zenon DEF ToSet
<1>5. \A x : x \in ToSet(t) <=> \E i \in DOMAIN t : x = t[i]
  BY Zenon DEF ToSet
<1> DEFINE st == s \o t
<1>6. \A i \in DOMAIN st : IF i <= Len(s) THEN i \in DOMAIN s ELSE i - Len(s) \in DOMAIN t
  BY <1>1
<1>7. \A i \in DOMAIN s : i \in DOMAIN st /\ st[i] = s[i]
  BY <1>1, <1>2
<1>8. \A i \in DOMAIN t : i + Len(s) \in DOMAIN st /\ st[i + Len(s)] = t[i]
  BY <1>1, <1>2
<1>9. \A i \in DOMAIN st : st[i] = IF i <= Len(s) THEN s[i] ELSE t[i - Len(s)]
  BY <1>1, <1>2
<1> HIDE DEF st
<1>10. ToSet(st) = ToSet(s) \cup ToSet(t)
  <2>1. ASSUME NEW x \in ToSet(st) PROVE x \in ToSet(s) \cup ToSet(t)
    <3>1. PICK i \in DOMAIN st : x = st[i]
      BY <1>3 DEF st
    <3> QED BY <3>1, <1>4, <1>5, <1>6, <1>9
  <2>2. ASSUME NEW x \in ToSet(s) PROVE x \in ToSet(st)
    BY <1>3, <1>4, <1>7 DEF st
  <2>3. ASSUME NEW x \in ToSet(t) PROVE x \in ToSet(st)
    BY <1>3, <1>5, <1>8 DEF st
  <2> QED BY <2>1, <2>2, <2>3
<1>11. ASSUME IsInjective(s), IsInjective(t), ToSet(s) \cap ToSet(t) = {},
              NEW i \in DOMAIN st, NEW j \in DOMAIN st, st[i] = st[j]
       PROVE  i = j
  <2>1. i \in Nat /\ j \in Nat
    BY <1>1 DEF st
  <2>2. CASE i <= Len(s) /\ j <= Len(s)
    BY <1>6, <1>9, <1>11, <2>2 DEF IsInjective
  <2>3. CASE ~(i <= Len(s)) /\ ~(j <= Len(s))
    <3>1. i - Len(s) = j - Len(s)
      BY <1>6, <1>9, <1>11, <2>3 DEF IsInjective
    <3> QED BY <1>1, <2>1, <3>1
  <2>4. CASE i <= Len(s) /\ ~(j <= Len(s))
    <3>1. st[i] \in ToSet(s) /\ st[j] \in ToSet(t)
      BY <1>4, <1>5, <1>6, <1>9, <2>4
    <3> QED BY <1>11, <3>1
  <2>5. CASE ~(i <= Len(s)) /\ j <= Len(s)
    <3>1. st[j] \in ToSet(s) /\ st[i] \in ToSet(t)
      BY <1>4, <1>5, <1>6, <1>9, <2>5
    <3> QED BY <1>11, <3>1
  <2> QED BY <2>2, <2>3, <2>4, <2>5
<1> QED BY <1>10, <1>11 DEF IsInjective, st

\* The elements of a sequence without its head
LEMMA ToSetTail ==
  ASSUME NEW T, NEW s \in Seq(T), s # <<>>
  PROVE  /\ Head(s) \in T /\ Head(s) \in ToSet(s) /\ Tail(s) \in Seq(T)
         /\ ToSet(Tail(s)) \subseteq ToSet(s)
         /\ ToSet(s) = ToSet(Tail(s)) \cup {Head(s)}
         /\ IsInjective(s) => IsInjective(Tail(s)) /\ Head(s) \notin ToSet(Tail(s))
<1> DEFINE u == Tail(s)
<1>1. /\ DOMAIN s = 1..Len(s) /\ DOMAIN u = 1..(Len(s) - 1) /\ Len(s) \in Nat /\ Len(s) # 0
      /\ Head(s) = s[1] /\ \A i \in 1..(Len(s) - 1) : u[i] = s[i + 1]
      /\ Head(s) \in T /\ u \in Seq(T)
  OBVIOUS
<1>2. \A x : x \in ToSet(s) <=> \E i \in DOMAIN s : x = s[i]
  BY Zenon DEF ToSet
<1>3. \A x : x \in ToSet(u) <=> \E i \in DOMAIN u : x = u[i]
  BY Zenon DEF ToSet
<1> HIDE DEF u
<1>4. \A i \in DOMAIN u : i + 1 \in DOMAIN s /\ i + 1 # 1 /\ u[i] = s[i + 1]
  BY <1>1
<1>5. \A i \in DOMAIN s : i # 1 => i - 1 \in DOMAIN u /\ s[i] = u[i - 1]
  BY <1>1
<1>6. 1 \in DOMAIN s
  BY <1>1
<1>7. Head(s) \in ToSet(s)
  BY <1>1, <1>2, <1>6
<1>8. ToSet(s) = ToSet(u) \cup {Head(s)}
  <2>1. ASSUME NEW x \in ToSet(s) PROVE x \in ToSet(u) \cup {Head(s)}
    BY <1>1, <1>2, <1>3, <1>5
  <2>2. ASSUME NEW x \in ToSet(u) PROVE x \in ToSet(s)
    BY <1>2, <1>3, <1>4
  <2> QED BY <1>7, <2>1, <2>2
<1>9. ASSUME IsInjective(s) PROVE IsInjective(u) /\ Head(s) \notin ToSet(u)
  <2>1. ASSUME NEW i \in DOMAIN u, NEW j \in DOMAIN u, u[i] = u[j] PROVE i = j
    <3>1. i + 1 = j + 1
      BY <1>4, <1>9, <2>1 DEF IsInjective
    <3>2. i \in Nat /\ j \in Nat
      BY <1>1
    <3> QED BY <3>1, <3>2
  <2>2. Head(s) \notin ToSet(u)
    BY <1>1, <1>3, <1>4, <1>6, <1>9 DEF IsInjective
  <2> QED BY <2>1, <2>2 DEF IsInjective
<1> QED BY <1>1, <1>7, <1>8, <1>9 DEF u

\* Appending a new element keeps a sequence free of repetitions.
LEMMA InjectiveAppend ==
  ASSUME NEW T, NEW s \in Seq(T), NEW e \in T, IsInjective(s), e \notin ToSet(s)
  PROVE  IsInjective(Append(s, e))
<1>1. /\ DOMAIN Append(s, e) = 1..(Len(s) + 1) /\ DOMAIN s = 1..Len(s) /\ Len(s) \in Nat
      /\ \A i \in 1..Len(s) : Append(s, e)[i] = s[i]
      /\ Append(s, e)[Len(s) + 1] = e
  OBVIOUS
<1>2. \A i \in DOMAIN s : s[i] \in ToSet(s)
  BY Zenon DEF ToSet
<1> QED BY <1>1, <1>2 DEF IsInjective

\* The elements of a sequence have its type.
LEMMA SeqElements ==
  ASSUME NEW T, NEW s \in Seq(T)
  PROVE  DOMAIN s = 1..Len(s) /\ Len(s) \in Nat /\ \A i \in DOMAIN s : s[i] \in T
OBVIOUS

\* The sequence of one element
LEMMA ToSetSingle ==
  ASSUME NEW e
  PROVE  ToSet(<<e>>) = {e}
<1>1. DOMAIN <<e>> = {1} /\ <<e>>[1] = e
  OBVIOUS
<1>2. \A x : x \in ToSet(<<e>>) <=> \E i \in DOMAIN <<e>> : x = <<e>>[i]
  BY Zenon DEF ToSet
<1> QED BY <1>1, <1>2

\* Replacing an element
LEMMA SeqExcept ==
  ASSUME NEW T, NEW s \in Seq(T), NEW i \in DOMAIN s, NEW e \in T
  PROVE  [s EXCEPT ![i] = e] \in Seq(T)
OBVIOUS

\* Removing an element leaves a sequence of the same elements.
LEMMA RemoveAtType ==
  ASSUME NEW T, NEW s \in Seq(T), NEW i \in DOMAIN s
  PROVE  RemoveAt(s, i) \in Seq(T)
<1>1. i \in 1..Len(s) /\ Len(s) \in Nat
  OBVIOUS
<1>2. SubSeq(s, 1, i - 1) \in Seq(T) /\ SubSeq(s, i + 1, Len(s)) \in Seq(T)
  BY <1>1
<1> QED BY <1>2 DEF RemoveAt

-----------------------------------------------------------------------------
(* Dequeued                                                                *)

\* One step of the loop
Step(queue, gone, rest, i) ==
  IF i = 0 THEN <<>>
  ELSE IF queue[i] \in gone THEN rest[i - 1]
  ELSE Append(rest[i - 1], queue[i])

\* f is the loop's value after each of its first n steps
IsLoop(f, queue, gone, n) == f = [i \in 0..n |-> Step(queue, gone, f, i)]

\* The recursion defines a function.
LEMMA LoopExists ==
  ASSUME NEW queue, NEW gone, NEW n \in Nat
  PROVE  \E f : IsLoop(f, queue, gone, n)
<1> DEFINE Bad == {m \in Nat : ~\E f : IsLoop(f, queue, gone, m)}
<1> SUFFICES ASSUME Bad # {} PROVE FALSE
  OBVIOUS
<1>1. PICK m \in Bad : \A k \in Bad : m <= k
  <2>1. Bad \in SUBSET Nat
    OBVIOUS
  <2> HIDE DEF Bad
  <2> QED BY <2>1, LeastNat
<1>2. CASE m = 0
  <2> DEFINE f == [i \in 0..0 |-> <<>>]
  <2>1. IsLoop(f, queue, gone, 0)
    BY DEF IsLoop, Step
  <2> QED BY <1>2, <2>1, <1>1
<1>3. CASE m # 0
  <2>1. m \in Nat /\ m - 1 \in Nat /\ m - 1 \notin Bad
    BY <1>1, <1>3
  <2>2. PICK f : IsLoop(f, queue, gone, m - 1)
    BY <2>1
  <2> DEFINE g == [i \in 0..m |-> IF i = m THEN Step(queue, gone, f, m) ELSE f[i]]
  <2>3. \A i \in 0..m : Step(queue, gone, g, i) = Step(queue, gone, f, i)
    <3> SUFFICES ASSUME NEW i \in 0..m
                 PROVE  Step(queue, gone, g, i) = Step(queue, gone, f, i)
      OBVIOUS
    <3>1. i # 0 => i - 1 \in 0..m /\ i - 1 # m
      BY <2>1
    <3>2. i # 0 => g[i - 1] = f[i - 1]
      BY <3>1
    <3> QED BY <3>2 DEF Step
  <2>4. \A i \in 0..m : g[i] = Step(queue, gone, f, i)
    <3> SUFFICES ASSUME NEW i \in 0..m PROVE g[i] = Step(queue, gone, f, i)
      OBVIOUS
    <3>1. i # m => i \in 0..(m - 1)
      BY <2>1
    <3>2. i # m => f[i] = Step(queue, gone, f, i)
      BY <2>2, <3>1, Zenon DEF IsLoop
    <3> QED BY <3>2
  <2>5. g = [i \in 0..m |-> Step(queue, gone, g, i)]
    <3> HIDE DEF g
    <3>1. g = [i \in 0..m |-> g[i]]
      BY DEF g
    <3> QED BY <3>1, <2>3, <2>4
  <2>6. IsLoop(g, queue, gone, m)
    BY <2>5 DEF IsLoop
  <2> QED BY <1>1, <2>6
<1> QED BY <1>2, <1>3

\* Dequeued is what the loop has gathered at the end.
LEMMA DequeuedIsLoop ==
  ASSUME NEW queue, Len(queue) \in Nat, NEW gone
  PROVE  \E f : IsLoop(f, queue, gone, Len(queue)) /\ Dequeued(queue, gone) = f[Len(queue)]
<1> DEFINE f == CHOOSE f : IsLoop(f, queue, gone, Len(queue))
<1>1. IsLoop(f, queue, gone, Len(queue))
  BY LoopExists
<1>2. Dequeued(queue, gone) = f[Len(queue)]
  BY Zenon DEF Dequeued, IsLoop, Step
<1> QED BY <1>1, <1>2

\* Sequence d has the elements of the first n of sequence s that are not in gone, in their order:
\* its element k is element g[k] of s.
Picks(g, d, s, gone, n) ==
  /\ g \in [1..Len(d) -> 1..n]
  /\ \A a, b \in 1..Len(d) : a < b => g[a] < g[b]
  /\ \A k \in 1..Len(d) : d[k] = s[g[k]] /\ d[k] \notin gone
  /\ \A i \in 1..n : s[i] \notin gone => \E k \in 1..Len(d) : g[k] = i

\* A loop that erases elements leaves the others in their order.
LEMMA DequeuedPicks ==
  ASSUME NEW T, NEW queue \in Seq(T), NEW gone
  PROVE  /\ Dequeued(queue, gone) \in Seq(T)
         /\ \E g : Picks(g, Dequeued(queue, gone), queue, gone, Len(queue))
<1>1. Len(queue) \in Nat /\ \A i \in 1..Len(queue) : queue[i] \in T
  OBVIOUS
<1>2. PICK f : IsLoop(f, queue, gone, Len(queue)) /\ Dequeued(queue, gone) = f[Len(queue)]
  BY <1>1, DequeuedIsLoop
<1>3. \A i \in 0..Len(queue) : f[i] = Step(queue, gone, f, i)
  BY <1>2, Zenon DEF IsLoop
<1> DEFINE P(n) == f[n] \in Seq(T) /\ \E g : Picks(g, f[n], queue, gone, n)
           Bad == {n \in Nat : n <= Len(queue) /\ ~P(n)}
<1> SUFFICES ASSUME Bad # {} PROVE FALSE
  BY <1>1, <1>2
<1>4. PICK n \in Bad : \A m \in Bad : n <= m
  <2>1. Bad \in SUBSET Nat
    OBVIOUS
  <2> HIDE DEF Bad
  <2> QED BY <2>1, LeastNat
<1>5. CASE n = 0
  <2>1. f[0] = <<>>
    BY <1>1, <1>3 DEF Step
  <2>2. Picks([k \in {} |-> 0], <<>>, queue, gone, 0)
    BY DEF Picks
  <2>3. P(0)
    BY <2>1, <2>2
  <2> HIDE DEF P
  <2> QED BY <1>4, <1>5, <2>3
<1>6. CASE n # 0
  <2>1. n \in Nat /\ n - 1 \in Nat /\ n \in 1..Len(queue) /\ n \in 0..Len(queue)
    BY <1>1, <1>4, <1>6
  <2>2. P(n - 1)
    <3>1. n - 1 \notin Bad /\ n - 1 <= Len(queue)
      <4> HIDE DEF Bad
      <4> QED BY <1>1, <1>4, <2>1
    <3> HIDE DEF P
    <3> QED BY <2>1, <3>1
  <2> DEFINE d == f[n - 1]
  <2>3. PICK g : Picks(g, d, queue, gone, n - 1)
    BY <2>2
  <2>4. d \in Seq(T) /\ Len(d) \in Nat
    BY <2>2
  <2>5. f[n] = IF queue[n] \in gone THEN d ELSE Append(d, queue[n])
    BY <1>3, <1>6, <2>1 DEF Step
  <2> HIDE DEF d
  <2>6. CASE queue[n] \in gone
    <3>1. Picks(g, d, queue, gone, n)
      <4>1. \A i \in 1..n : i \notin 1..(n - 1) => i = n
        BY <2>1
      <4>2. \A i \in 1..(n - 1) : i \in 1..n
        BY <2>1
      <4> QED BY <2>3, <2>6, <4>1, <4>2 DEF Picks
    <3> QED BY <1>4, <2>4, <2>5, <2>6, <3>1
  <2>7. CASE queue[n] \notin gone
    <3> DEFINE e == Append(d, queue[n])
               h == [k \in 1..Len(e) |-> IF k = Len(e) THEN n ELSE g[k]]
    <3>1. e \in Seq(T) /\ Len(e) = Len(d) + 1 /\ e[Len(e)] = queue[n]
      BY <1>1, <2>1, <2>4
    <3>2. \A k \in 1..Len(e) : k # Len(e) => k \in 1..Len(d) /\ e[k] = d[k]
      BY <1>1, <2>1, <2>4
    <3>3. Len(e) \in 1..Len(e) /\ \A k \in 1..Len(d) : k \in 1..Len(e) /\ k # Len(e)
      BY <2>4, <3>1
    <3> HIDE DEF e
    <3>4. \A k \in 1..Len(e) : k # Len(e) => g[k] \in 1..(n - 1) /\ h[k] = g[k]
      BY <2>3, <3>2 DEF Picks
    <3>5. h[Len(e)] = n /\ DOMAIN h = 1..Len(e)
      BY <3>3
    <3>6. h \in [1..Len(e) -> 1..n]
      BY <2>1, <3>3, <3>4, <3>5
    <3> HIDE DEF h
    <3>7. \A a, b \in 1..Len(e) : a < b => h[a] < h[b]
      <4> SUFFICES ASSUME NEW a \in 1..Len(e), NEW b \in 1..Len(e), a < b PROVE h[a] < h[b]
        OBVIOUS
      <4>1. a # Len(e) /\ a \in 1..Len(d)
        BY <3>1, <3>2, <2>4
      <4>2. CASE b = Len(e)
        BY <2>1, <3>4, <3>5, <4>1, <4>2
      <4>3. CASE b # Len(e)
        BY <2>3, <3>2, <3>4, <4>1, <4>3 DEF Picks
      <4> QED BY <4>2, <4>3
    <3>8. \A k \in 1..Len(e) : e[k] = queue[h[k]] /\ e[k] \notin gone
      BY <2>3, <2>7, <3>1, <3>2, <3>4, <3>5 DEF Picks
    <3>9. \A i \in 1..n : queue[i] \notin gone => \E k \in 1..Len(e) : h[k] = i
      <4> SUFFICES ASSUME NEW i \in 1..n, queue[i] \notin gone
                   PROVE  \E k \in 1..Len(e) : h[k] = i
        OBVIOUS
      <4>1. CASE i = n
        BY <3>3, <3>5, <4>1
      <4>2. CASE i # n
        <5>1. i \in 1..(n - 1)
          BY <2>1, <4>2
        <5>2. PICK k \in 1..Len(d) : g[k] = i
          BY <2>3, <5>1 DEF Picks
        <5> QED BY <3>3, <3>4, <5>2
      <4> QED BY <4>1, <4>2
    <3>10. Picks(h, e, queue, gone, n)
      BY <3>6, <3>7, <3>8, <3>9 DEF Picks
    <3>11. f[n] = e
      BY <2>5, <2>7 DEF e
    <3> QED BY <1>4, <3>1, <3>10, <3>11
  <2> QED BY <2>6, <2>7
<1> QED BY <1>5, <1>6

\* What is left in the queue
LEMMA DequeuedElements ==
  ASSUME NEW T, NEW queue \in Seq(T), NEW gone
  PROVE  /\ Dequeued(queue, gone) \in Seq(T)
         /\ ToSet(Dequeued(queue, gone)) = ToSet(queue) \ gone
         /\ IsInjective(queue) => IsInjective(Dequeued(queue, gone))
<1> DEFINE d == Dequeued(queue, gone)
<1>1. d \in Seq(T) /\ DOMAIN d = 1..Len(d) /\ DOMAIN queue = 1..Len(queue) /\ Len(d) \in Nat
  BY DequeuedPicks
<1>2. PICK g : Picks(g, d, queue, gone, Len(queue))
  BY DequeuedPicks
<1> HIDE DEF d
<1>3. \A x : x \in ToSet(d) <=> \E i \in DOMAIN d : x = d[i]
  BY Zenon DEF ToSet
<1>4. \A x : x \in ToSet(queue) <=> \E i \in DOMAIN queue : x = queue[i]
  BY Zenon DEF ToSet
<1>5. \A k \in 1..Len(d) : g[k] \in 1..Len(queue) /\ d[k] = queue[g[k]] /\ d[k] \notin gone
  BY <1>2 DEF Picks
<1>6. \A i \in 1..Len(queue) : queue[i] \notin gone => \E k \in 1..Len(d) : g[k] = i
  BY <1>2 DEF Picks
<1>7. ToSet(d) = ToSet(queue) \ gone
  BY <1>1, <1>3, <1>4, <1>5, <1>6
<1>8. ASSUME IsInjective(queue), NEW a \in DOMAIN d, NEW b \in DOMAIN d, d[a] = d[b]
      PROVE  a = b
  <2>1. g[a] = g[b]
    BY <1>1, <1>5, <1>8 DEF IsInjective
  <2>2. g[a] \in Nat /\ g[b] \in Nat /\ a \in Nat /\ b \in Nat
    BY <1>1, <1>5
  <2>3. ~(a < b) /\ ~(b < a)
    BY <1>1, <1>2, <2>1, <2>2 DEF Picks
  <2> QED BY <2>2, <2>3
<1> QED BY <1>1, <1>7, <1>8 DEF IsInjective, d
=============================================================================
