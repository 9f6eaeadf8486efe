------------------------ MODULE RangeLocksRefinement ------------------------
(***************************************************************************)
(* RangeLocks implements ByteLocks, for every number of owners, bytes,     *)
(* waiters and works: the sets of ranges, merged, trimmed and split,       *)
(* behave as a set of byte locks.                                          *)
(***************************************************************************)
EXTENDS RangeLocksProofs

-----------------------------------------------------------------------------
(* The refinement mapping, as functions of the locks                       *)

Keys == [owner : Owners, byte : Bytes, mode : {"shared", "excl"}]

\* The byte locks of L
BytesOf(L) ==
  {k \in Keys : IF k.mode = "excl" THEN Covers(L.excl, k.owner, k.byte)
                 ELSE Covers(L.shared, k.owner, k.byte)}

Wanted(L) == ToSet(L.waitersExcl) \cup ToSet(L.waitersShared)

\* No byte is locked exclusively by one owner and in any mode by another.
Compat(L) ==
  \A o, p : \A b \in Bytes :
    o # p /\ Covers(L.excl, o, b) => ~Covers(L.excl, p, b) /\ ~Covers(L.shared, p, b)

\* No other owner has a byte of q in a mode that conflicts with it.
NoOthers(L, q) ==
  \A o : \A b \in Bytes :
    o # q.owner /\ In(q, b) => /\ ~Covers(L.excl, o, b)
                               /\ q.mode = "excl" => ~Covers(L.shared, o, b)

\* What the requests G ask for
AskedBy(G) == UNION {B!Asked(r) : r \in G}

\* The byte locks that a request asks for
LEMMA AskedFacts ==
  ASSUME NEW q \in Requests
  PROVE  /\ B!Asked(q) \in SUBSET Keys
         /\ \A k \in Keys : k \in B!Asked(q) <=> k.owner = q.owner /\ k.mode = q.mode /\ In(q, k.byte)
<1>1. q.owner \in Owners /\ q.mode \in {"shared", "excl"}
  BY RangeSpan
<1>2. B!Asked(q) = [owner : {q.owner}, byte : {b \in Bytes : In(q, b)}, mode : {q.mode}]
  BY DEF B!Asked, B!Bytes, Bytes, In
<1> QED BY <1>1, <1>2 DEF Keys

\* Byte locks are compared key by key.
LEMMA SameBytes ==
  ASSUME NEW X \in SUBSET Keys, NEW Y \in SUBSET Keys, \A k \in Keys : k \in X <=> k \in Y
  PROVE  X = Y
OBVIOUS

\* A request without conflicts may be granted.
LEMMA NoConflictNoOthers ==
  ASSUME NEW L \in LockStates, NEW q \in Requests, NEW before, ~CheckConflicts(L, q, before)
  PROVE  NoOthers(L, q)
<1>1. L.excl \in SUBSET Ranges /\ L.shared \in SUBSET Ranges /\ Span(q)
  BY RangeSpan DEF LockStates
<1>2. Others(L.excl, q) = {} /\ (q.mode = "excl" => Others(L.shared, q) = {})
  BY DEF CheckConflicts
<1>3. \A o : \A b \in Bytes : o # q.owner /\ In(q, b) => ~Covers(L.excl, o, b)
  BY <1>1, <1>2, OthersCovers
<1>4. q.mode = "excl" =>
        \A o : \A b \in Bytes : o # q.owner /\ In(q, b) => ~Covers(L.shared, o, b)
  BY <1>1, <1>2, OthersCovers
<1> QED BY <1>3, <1>4 DEF NoOthers

\* A grant gives its owner the bytes it asked for.
LEMMA GrantBytes ==
  ASSUME NEW L \in LockStates, NEW q \in Requests
  PROVE  /\ BytesOf(Grant(L, q)) = BytesOf(L) \cup B!Asked(q)
         /\ Wanted(Grant(L, q)) = Wanted(L)
         /\ Compat(L) /\ NoOthers(L, q) => Compat(Grant(L, q))
<1> DEFINE G == Grant(L, q)
<1>1. /\ G.waitersExcl = L.waitersExcl /\ G.waitersShared = L.waitersShared
      /\ \A o : \A b \in Bytes :
           /\ Covers(G.excl, o, b) <=>
                Covers(L.excl, o, b) \/ (q.mode = "excl" /\ o = q.owner /\ In(q, b))
           /\ Covers(G.shared, o, b) <=>
                Covers(L.shared, o, b) \/ (q.mode = "shared" /\ o = q.owner /\ In(q, b))
  BY GrantFacts
<1>2. q.mode \in {"shared", "excl"}
  BY RangeSpan
<1>3. /\ B!Asked(q) \in SUBSET Keys
      /\ \A k \in Keys : k \in B!Asked(q) <=> k.owner = q.owner /\ k.mode = q.mode /\ In(q, k.byte)
  BY AskedFacts
<1> HIDE DEF G
<1>4. ASSUME NEW k \in Keys PROVE k \in BytesOf(G) <=> k \in BytesOf(L) \cup B!Asked(q)
  <2>1. k.byte \in Bytes /\ k.mode \in {"shared", "excl"}
    BY DEF Keys
  <2>2. CASE k.mode = "excl"
    BY <1>1, <1>3, <2>1, <2>2 DEF BytesOf
  <2>3. CASE k.mode = "shared"
    BY <1>1, <1>3, <2>1, <2>3 DEF BytesOf
  <2> QED BY <2>1, <2>2, <2>3
<1>5. BytesOf(G) \in SUBSET Keys /\ BytesOf(L) \cup B!Asked(q) \in SUBSET Keys
  BY <1>3 DEF BytesOf
<1>6. BytesOf(G) = BytesOf(L) \cup B!Asked(q)
  BY <1>4, <1>5, SameBytes
<1>7. Compat(L) /\ NoOthers(L, q) => Compat(G)
  BY <1>1, <1>2 DEF Compat, NoOthers
<1>8. Wanted(G) = Wanted(L)
  BY <1>1 DEF Wanted
<1> QED BY <1>6, <1>7, <1>8 DEF G

\* A request that waits changes no byte.
LEMMA EnqueueBytes ==
  ASSUME NEW L \in LockStates, NEW q \in Requests
  PROVE  /\ BytesOf(Enqueue(L, q)) = BytesOf(L)
         /\ Wanted(Enqueue(L, q)) = Wanted(L) \cup {q}
         /\ Compat(L) => Compat(Enqueue(L, q))
<1> DEFINE E == Enqueue(L, q)
           x == L.waitersExcl
           s == L.waitersShared
<1>1. /\ E.excl = L.excl /\ E.shared = L.shared
      /\ E.waitersExcl = IF q.mode = "excl" THEN Append(x, q) ELSE x
      /\ E.waitersShared = IF q.mode = "excl" THEN s ELSE Append(s, q)
  BY EnqueueFacts
<1>2. x \in Seq(Requests) /\ s \in Seq(Requests)
  BY DEF LockStates
<1>3. ToSet(Append(x, q)) = ToSet(x) \cup {q} /\ ToSet(Append(s, q)) = ToSet(s) \cup {q}
  BY <1>2, ToSetAppend
<1> HIDE DEF E
<1>4. Wanted(E) = Wanted(L) \cup {q}
  <2>1. CASE q.mode = "excl"
    BY <1>1, <1>3, <2>1 DEF Wanted
  <2>2. CASE q.mode # "excl"
    BY <1>1, <1>3, <2>2 DEF Wanted
  <2> QED BY <2>1, <2>2
<1>5. BytesOf(E) = BytesOf(L)
  BY <1>1 DEF BytesOf
<1>6. Compat(L) => Compat(E)
  BY <1>1 DEF Compat
<1> QED BY <1>4, <1>5, <1>6 DEF E

\* What an unlock of q's range leaves of L
Cleared(L, q) ==
  {k \in BytesOf(L) : ~(k.owner = q.owner /\ In(q, k.byte) /\ (k.mode = "excl" \/ ~Whole(L, q)))}

\* An unlock takes its owner's bytes.
LEMMA UnlockBytes ==
  ASSUME NEW L \in LockStates, NEW q, Span(q), AllMerged(L)
  PROVE  /\ BytesOf(Unlock(L, q)) = Cleared(L, q)
         /\ Wanted(Unlock(L, q)) = Wanted(L)
         /\ Compat(L) => Compat(Unlock(L, q))
         /\ NoOthers(L, q) => NoOthers(Unlock(L, q), q)
<1> DEFINE U == Unlock(L, q)
<1>1. /\ U.waitersExcl = L.waitersExcl /\ U.waitersShared = L.waitersShared
      /\ \A o : \A b \in Bytes :
           /\ Covers(U.excl, o, b) <=> Covers(L.excl, o, b) /\ ~(o = q.owner /\ In(q, b))
           /\ Covers(U.shared, o, b) <=>
                Covers(L.shared, o, b) /\ ~(o = q.owner /\ In(q, b) /\ ~Whole(L, q))
  BY UnlockFacts
<1> HIDE DEF U
<1>2. ASSUME NEW k \in Keys PROVE k \in BytesOf(U) <=> k \in Cleared(L, q)
  <2>1. k.byte \in Bytes /\ k.mode \in {"shared", "excl"}
    BY DEF Keys
  <2>2. CASE k.mode = "excl"
    BY <1>1, <2>1, <2>2 DEF BytesOf, Cleared
  <2>3. CASE k.mode = "shared"
    BY <1>1, <2>1, <2>3 DEF BytesOf, Cleared
  <2> QED BY <2>1, <2>2, <2>3
<1>3. BytesOf(U) \in SUBSET Keys /\ Cleared(L, q) \in SUBSET Keys
  BY DEF BytesOf, Cleared
<1>4. BytesOf(U) = Cleared(L, q)
  BY <1>2, <1>3, SameBytes
<1>5. Compat(L) => Compat(U)
  BY <1>1 DEF Compat
<1>6. NoOthers(L, q) => NoOthers(U, q)
  BY <1>1 DEF NoOthers
<1>7. Wanted(U) = Wanted(L)
  BY <1>1 DEF Wanted
<1> QED BY <1>4, <1>5, <1>6, <1>7 DEF U

-----------------------------------------------------------------------------
(* flockRangeTryNextWaiters                                                *)

\* The first i waiters
Seen(w, i) == {w[k] : k \in {j \in DOMAIN w : j <= i}}

\* What the loop has done to the locks L after i iterations: waiters G were granted what they
\* asked for, and nobody else has gained anything.
Progress(L, M, w, i) ==
  /\ Compat(M)
  /\ Wanted(M) \subseteq Seen(w, i)
  /\ \E G \in SUBSET Seen(w, i) :
       Seen(w, i) \ Wanted(M) \subseteq G /\ BytesOf(M) = BytesOf(L) \cup AskedBy(G)

\* An iteration grants a waiter all it asked for, or nothing.
LEMMA TryWaiterGives ==
  ASSUME NEW L, NEW acc \in Accs, NEW w \in Seq(Requests), NEW i \in DOMAIN w,
         Progress(L, acc.locks, w, i - 1)
  PROVE  Progress(L, TryWaiter(acc, w[i]).locks, w, i)
<1> DEFINE A == acc.locks
           q == w[i]
           C == CheckConflicts(A, q, A.waitersExcl)
           M == TryWaiter(acc, q).locks
           old == Seen(w, i - 1)
           new == Seen(w, i)
<1>1. acc = [locks |-> A, granted |-> acc.granted] /\ A \in LockStates
  BY DEF Accs
<1>2. M = IF C THEN Enqueue(A, q) ELSE Grant(A, q)
  BY <1>1 DEF TryWaiter
<1>3. q \in Requests /\ i \in Nat /\ DOMAIN w \in SUBSET Nat
  BY SeqElements
<1>4. \A k \in DOMAIN w : k <= i <=> k <= i - 1 \/ k = i
  BY <1>3
<1>5. new = old \cup {q}
  BY <1>4 DEF Seen
<1>6. Wanted(A) \subseteq old /\ Compat(A)
  BY DEF Progress
<1>7. PICK G \in SUBSET old : old \ Wanted(A) \subseteq G /\ BytesOf(A) = BytesOf(L) \cup AskedBy(G)
  BY DEF Progress
<1> HIDE DEF A, q, C, M, old, new
<1>8. CASE C
  <2>1. /\ BytesOf(Enqueue(A, q)) = BytesOf(A)
        /\ Wanted(Enqueue(A, q)) = Wanted(A) \cup {q}
        /\ Compat(Enqueue(A, q))
    BY <1>1, <1>3, <1>6, EnqueueBytes
  <2>2. M = Enqueue(A, q)
    BY <1>2, <1>8
  <2>3. G \in SUBSET new /\ new \ Wanted(M) \subseteq G /\ BytesOf(M) = BytesOf(L) \cup AskedBy(G)
    BY <1>5, <1>7, <2>1, <2>2
  <2>4. Wanted(M) \subseteq new /\ Compat(M)
    BY <1>5, <1>6, <2>1, <2>2
  <2> QED BY <2>3, <2>4 DEF Progress, M, new, q
<1>9. CASE ~C
  <2>1. NoOthers(A, q)
    BY <1>1, <1>3, <1>9, NoConflictNoOthers DEF C
  <2>2. /\ BytesOf(Grant(A, q)) = BytesOf(A) \cup B!Asked(q)
        /\ Wanted(Grant(A, q)) = Wanted(A)
        /\ Compat(Grant(A, q))
    BY <1>1, <1>3, <1>6, <2>1, GrantBytes
  <2>3. M = Grant(A, q)
    BY <1>2, <1>9
  <2> DEFINE H == G \cup {q}
  <2>4. AskedBy(H) = AskedBy(G) \cup B!Asked(q)
    BY Zenon DEF AskedBy
  <2>5. BytesOf(M) = BytesOf(L) \cup AskedBy(H)
    BY <1>7, <2>2, <2>3, <2>4
  <2>6. H \in SUBSET new /\ new \ Wanted(M) \subseteq H
    BY <1>5, <1>7, <2>2, <2>3
  <2>7. Wanted(M) \subseteq new /\ Compat(M)
    BY <1>5, <1>6, <2>2, <2>3
  <2> HIDE DEF H
  <2> QED BY <2>5, <2>6, <2>7 DEF Progress, M, new, q
<1> QED BY <1>8, <1>9

\* The locks after an operation, and what they were before the waiters were looked at: some
\* waiters were granted what they asked for, and only they gained anything.
Explained(L, M) ==
  /\ Compat(M) /\ Wanted(M) \subseteq Wanted(L)
  /\ \E G \in SUBSET Wanted(L) :
       Wanted(L) \ Wanted(M) \subseteq G /\ BytesOf(M) = BytesOf(L) \cup AskedBy(G)

\* The waiters that the loop does not keep were granted what they asked for.
LEMMA TryNextWaitersGives ==
  ASSUME NEW L \in LockStates, Compat(L)
  PROVE  Explained(L, TryNextWaiters(L).locks)
<1> DEFINE w == AllWaiters(L)
<1>1. w \in Seq(Requests)
  BY AllWaitersFacts
<1>2. DOMAIN w = 1..Len(w) /\ Len(w) \in Nat
  BY <1>1, SeqElements
<1>3. PICK f : WaiterRun(f, L) /\ TryNextWaiters(L) = f[Len(w)]
  BY TryNextWaitersRun
<1>4. /\ f[0] = [locks |-> NoWaiters(L), granted |-> {}]
      /\ \A i \in DOMAIN w : f[i] = TryWaiter(f[i - 1], w[i])
      /\ \A i \in 0..Len(w) : f[i] \in Accs
  BY <1>3 DEF WaiterRun
<1>5. Seen(w, Len(w)) = Wanted(L)
  <2>1. \A j \in DOMAIN w : j <= Len(w)
    BY <1>2
  <2>2. Seen(w, Len(w)) = ToSet(w)
    BY <2>1, Zenon DEF Seen, ToSet
  <2>3. L.waitersExcl \in Seq(Requests) /\ L.waitersShared \in Seq(Requests)
    BY DEF LockStates
  <2> QED BY <2>2, <2>3, ToSetConcat DEF AllWaiters, Wanted
<1> HIDE DEF w
<1> DEFINE P(n) == Progress(L, f[n].locks, w, n)
           Bad == {n \in Nat : n <= Len(w) /\ ~P(n)}
<1>6. P(0)
  <2> DEFINE N == NoWaiters(L)
  <2>1. /\ N.excl = L.excl /\ N.shared = L.shared
        /\ N.waitersExcl = <<>> /\ N.waitersShared = <<>>
    BY NoWaitersFacts
  <2> HIDE DEF N
  <2>2. Wanted(N) = {}
    <3>1. DOMAIN N.waitersExcl = {} /\ DOMAIN N.waitersShared = {}
      BY <2>1
    <3> QED BY <3>1 DEF Wanted, ToSet
  <2>3. Seen(w, 0) = {}
    <3>1. \A j \in DOMAIN w : ~(j <= 0)
      BY <1>2
    <3> QED BY <3>1 DEF Seen
  <2>4. Compat(N)
    BY <2>1 DEF Compat
  <2>5. BytesOf(N) = BytesOf(L) \cup AskedBy({})
    BY <2>1 DEF BytesOf, AskedBy
  <2>6. f[0].locks = N
    BY <1>4 DEF N
  <2> QED BY <2>2, <2>3, <2>4, <2>5, <2>6 DEF Progress
<1>7. ASSUME NEW i \in DOMAIN w, P(i - 1) PROVE P(i)
  <2>1. i - 1 \in 0..Len(w)
    BY <1>2
  <2>2. f[i - 1] \in Accs
    BY <1>4, <2>1
  <2>3. Progress(L, TryWaiter(f[i - 1], w[i]).locks, w, i)
    BY <1>1, <1>7, <2>2, TryWaiterGives
  <2> QED BY <1>4, <2>3
<1> HIDE DEF P
<1>8. Bad = {}
  <2> SUFFICES ASSUME Bad # {} PROVE FALSE
    OBVIOUS
  <2>1. PICK n \in Bad : \A m \in Bad : n <= m
    <3>1. Bad \in SUBSET Nat
      OBVIOUS
    <3> HIDE DEF Bad
    <3> QED BY <3>1, LeastNat
  <2>2. n # 0 /\ n \in Nat /\ n <= Len(w) /\ ~P(n)
    BY <1>6, <2>1
  <2>3. n \in DOMAIN w /\ n - 1 \in Nat /\ n - 1 <= Len(w) /\ ~(n <= n - 1)
    BY <1>2, <2>2
  <2>4. P(n - 1)
    BY <2>1, <2>3
  <2> QED BY <1>7, <2>2, <2>3, <2>4
<1>9. P(Len(w))
  BY <1>2, <1>8
<1> QED BY <1>3, <1>5, <1>9 DEF P, Progress, Explained

\* Nothing is granted.
LEMMA SameExplained ==
  ASSUME NEW L, Compat(L)
  PROVE  Explained(L, L)
<1>1. BytesOf(L) = BytesOf(L) \cup AskedBy({}) /\ Wanted(L) \ Wanted(L) = {}
  BY DEF AskedBy
<1> QED BY <1>1 DEF Explained

\* After the owner's own change, only waiters gain anything.
LEMMA InstallExplained ==
  ASSUME TypeOK, NEW L, L \in LockStates, NEW removed \in BOOLEAN, NEW tell \in BOOLEAN,
         Install(L, removed, tell), Compat(L)
  PROVE  Explained(L, Locks')
<1>1. ASSUME NEW M, M \in LockStates, Set(M) PROVE Locks' = M
  <2>1. M = [excl |-> M.excl, shared |-> M.shared,
             waitersExcl |-> M.waitersExcl, waitersShared |-> M.waitersShared]
    BY <1>1 DEF LockStates
  <2>2. Locks' = [excl |-> excl', shared |-> shared',
                  waitersExcl |-> waitersExcl', waitersShared |-> waitersShared']
    BY DEF Locks
  <2> QED BY <1>1, <2>1, <2>2 DEF Set
<1>2. CASE removed
  <2> DEFINE M == TryNextWaiters(L).locks
  <2>1. Set(M)
    BY <1>2 DEF Install
  <2>2. M \in LockStates
    BY TryNextWaitersFacts DEF Accs
  <2>3. Explained(L, M)
    BY TryNextWaitersGives
  <2> HIDE DEF M
  <2>4. Locks' = M
    BY <1>1, <2>1, <2>2
  <2> QED BY <2>3, <2>4
<1>3. CASE ~removed
  <2>1. Set(L)
    BY <1>3 DEF Install
  <2>2. Locks' = L
    BY <1>1, <2>1
  <2> QED BY <2>2, SameExplained
<1> QED BY <1>2, <1>3

-----------------------------------------------------------------------------
(* Steps of ByteLocks                                                      *)

WantedNow == ToSet(waitersExcl) \cup ToSet(waitersShared)

\* The refinement mapping is given by BytesOf and Wanted.
LEMMA Mapping ==
  /\ ByteLock = BytesOf(Locks) /\ ByteLock' = BytesOf(Locks')
  /\ WantedNow = Wanted(Locks) /\ WantedNow' = Wanted(Locks')
<1>1. ByteLock = BytesOf(Locks)
  BY DEF ByteLock, BytesOf, Keys, Covers, In, Locks
<1>2. ByteLock' = BytesOf(Locks')
  BY DEF ByteLock, BytesOf, Keys, Covers, In, Locks
<1>3. WantedNow = Wanted(Locks) /\ WantedNow' = Wanted(Locks')
  BY DEF WantedNow, Wanted, Locks
<1> QED BY <1>1, <1>2, <1>3

\* What an unlock leaves, for ByteLocks
LEMMA ClearedMapping ==
  ASSUME NEW q, Span(q)
  PROVE  B!Cleared(q.owner, q.start, q.end) = Cleared(Locks, q)
<1> DEFINE own == {k \in ByteLock : k.owner = q.owner /\ q.start <= k.byte /\ k.byte <= q.end}
           exclusive == {k \in own : k.mode = "excl"}
           whole == \A b \in Bytes : q.start <= b /\ b <= q.end => \E k \in exclusive : k.byte = b
<1>1. B!Cleared(q.owner, q.start, q.end) = ByteLock \ (IF whole THEN exclusive ELSE own)
  BY DEF B!Cleared, B!Bytes, Bytes
<1>2. ByteLock = BytesOf(Locks)
  BY Mapping
<1>3. q.owner \in Owners => (whole <=> Whole(Locks, q))
  <2> SUFFICES ASSUME q.owner \in Owners PROVE whole <=> Whole(Locks, q)
    OBVIOUS
  <2>1. ASSUME NEW b \in Bytes, In(q, b)
        PROVE  (\E k \in exclusive : k.byte = b) <=> Covers(Locks.excl, q.owner, b)
    <3>1. ASSUME Covers(Locks.excl, q.owner, b) PROVE \E k \in exclusive : k.byte = b
      <4> DEFINE k == [owner |-> q.owner, byte |-> b, mode |-> "excl"]
      <4>1. k \in Keys /\ k.owner = q.owner /\ k.byte = b /\ k.mode = "excl"
        BY DEF Keys
      <4> HIDE DEF k
      <4>2. k \in BytesOf(Locks)
        BY <3>1, <4>1 DEF BytesOf
      <4> QED BY <1>2, <2>1, <4>1, <4>2 DEF In
    <3>2. ASSUME NEW k \in exclusive, k.byte = b PROVE Covers(Locks.excl, q.owner, b)
      BY <1>2, <3>2 DEF BytesOf
    <3> QED BY <3>1, <3>2
  <2> HIDE DEF exclusive
  <2> QED BY <2>1 DEF Whole, In
<1>4. q.owner \notin Owners => own = {}
  BY <1>2 DEF BytesOf, Keys
<1>5. CASE q.owner \notin Owners
  <2>1. B!Cleared(q.owner, q.start, q.end) = BytesOf(Locks)
    BY <1>1, <1>2, <1>4, <1>5
  <2>2. \A k \in BytesOf(Locks) : k.owner # q.owner
    BY <1>5 DEF BytesOf, Keys
  <2> QED BY <2>1, <2>2 DEF Cleared
<1>6. CASE q.owner \in Owners
  <2>1. CASE whole
    <3>1. Whole(Locks, q)
      BY <1>3, <1>6, <2>1
    <3> HIDE DEF whole
    <3> QED BY <1>1, <1>2, <2>1, <3>1 DEF Cleared, In
  <2>2. CASE ~whole
    <3>1. ~Whole(Locks, q)
      BY <1>3, <1>6, <2>2
    <3> HIDE DEF whole
    <3> QED BY <1>1, <1>2, <2>2, <3>1 DEF Cleared, In
  <2> QED BY <2>1, <2>2
<1> QED BY <1>5, <1>6

\* An operation that makes the locks L, followed by grants
LEMMA ChangeStep ==
  ASSUME NEW L, Explained(L, Locks')
  PROVE  B!Change(BytesOf(L), Wanted(L))
<1>1. WantedNow' \subseteq Wanted(L)
  BY Mapping DEF Explained
<1>2. PICK G \in SUBSET Wanted(L) :
        Wanted(L) \ Wanted(Locks') \subseteq G /\ BytesOf(Locks') = BytesOf(L) \cup AskedBy(G)
  BY DEF Explained
<1>3. ByteLock' = BytesOf(L) \cup AskedBy(G) /\ Wanted(L) \ WantedNow' \subseteq G
  BY <1>2, Mapping
<1>4. B!Compatible(ByteLock')
  <2> SUFFICES ASSUME NEW k \in BytesOf(Locks'), NEW l \in BytesOf(Locks'),
                      k.byte = l.byte, k.owner # l.owner
               PROVE  k.mode = "shared" /\ l.mode = "shared"
    BY Mapping DEF B!Compatible
  <2>1. Compat(Locks')
    BY DEF Explained
  <2>2. k \in Keys /\ l \in Keys /\ k.byte \in Bytes
        /\ k.mode \in {"shared", "excl"} /\ l.mode \in {"shared", "excl"}
    BY DEF BytesOf, Keys
  <2>3. CASE k.mode = "excl"
    BY <2>1, <2>2, <2>3 DEF BytesOf, Compat
  <2>4. CASE l.mode = "excl"
    BY <2>1, <2>2, <2>4 DEF BytesOf, Compat
  <2> QED BY <2>2, <2>3, <2>4
<1> QED BY <1>1, <1>3, <1>4 DEF B!Change, WantedNow, AskedBy

\* What a step of RangeLocks is for ByteLocks
Implemented == (B!Next \/ (ByteLock' = ByteLock /\ WantedNow' = WantedNow)) /\ Compat(Locks')

\* A step that leaves the locks alone
LEMMA Stutter ==
  ASSUME Compat(Locks), Locks' = Locks
  PROVE  Implemented
<1>1. ByteLock' = ByteLock /\ WantedNow' = WantedNow
  BY Mapping
<1> QED BY <1>1 DEF Implemented

\* Requests of clients, in ByteLocks
LEMMA AbstractRequest == Requests \subseteq B!Requests
BY DEF Requests, Bytes, B!Requests, B!Modes, B!Bytes

\* A request is granted at once, waits, or is refused.
LEMMA LockStep ==
  ASSUME TypeOK, AllMerged(Locks), Compat(Locks),
         NEW q \in Requests, NEW wait \in BOOLEAN, Lock(q, wait)
  PROVE  Implemented
<1> DEFINE U == Unlock(Locks, q)
           C == CheckConflicts(Locks, q, waitersExcl)
           removed == U # Locks
<1>1. Locks \in LockStates /\ Span(q) /\ q.owner \in Owners /\ q \in B!Requests
  BY LocksType, RangeSpan, AbstractRequest
<1>2. U \in LockStates
  BY <1>1, UnlockFacts
<1>3. /\ BytesOf(U) = B!Cleared(q.owner, q.start, q.end)
      /\ Wanted(U) = Wanted(Locks) /\ Compat(U)
      /\ NoOthers(Locks, q) => NoOthers(U, q)
  BY <1>1, UnlockBytes, ClearedMapping
<1>4. Grant(U, q) \in LockStates /\ Enqueue(U, q) \in LockStates
  BY <1>2, GrantFacts, EnqueueFacts
<1>5. removed \in BOOLEAN
  OBVIOUS
<1>6. CASE ~C
  <2> DEFINE G == Grant(U, q)
  <2>1. NoOthers(U, q)
    BY <1>1, <1>3, <1>6, NoConflictNoOthers
  <2>2. BytesOf(G) = BytesOf(U) \cup B!Asked(q) /\ Wanted(G) = Wanted(U) /\ Compat(G)
    BY <1>2, <1>3, <2>1, GrantBytes
  <2>3. Install(G, removed, TRUE)
    BY <1>6 DEF Lock
  <2> HIDE DEF G, U, C, removed
  <2>4. Explained(G, Locks')
    BY <1>4, <1>5, <2>2, <2>3, InstallExplained DEF G
  <2>5. B!Change(BytesOf(G), Wanted(G))
    BY <2>4, ChangeStep
  <2>6. B!Lock(q)
    BY <1>3, <2>2, <2>5, Mapping DEF B!Lock, WantedNow
  <2>7. B!Next
    BY <1>1, <2>6 DEF B!Next
  <2> QED BY <2>4, <2>7 DEF Implemented, Explained
<1>7. CASE C /\ wait
  <2> DEFINE E == Enqueue(U, q)
  <2>1. BytesOf(E) = BytesOf(U) /\ Wanted(E) = Wanted(U) \cup {q} /\ Compat(E)
    BY <1>2, <1>3, EnqueueBytes
  <2>2. Install(E, removed, TRUE)
    BY <1>7 DEF Lock
  <2> HIDE DEF E, U, C, removed
  <2>3. Explained(E, Locks')
    BY <1>4, <1>5, <2>1, <2>2, InstallExplained DEF E
  <2>4. B!Change(BytesOf(E), Wanted(E))
    BY <2>3, ChangeStep
  <2>5. B!Wait(q)
    BY <1>3, <2>1, <2>4, Mapping DEF B!Wait, WantedNow
  <2>6. B!Next
    BY <1>1, <2>5 DEF B!Next
  <2> QED BY <2>3, <2>6 DEF Implemented, Explained
<1>8. CASE C /\ ~wait
  <2>1. UNCHANGED vars
    BY <1>8 DEF Lock
  <2>2. Locks' = Locks
    BY <2>1 DEF vars, Locks
  <2> QED BY <2>2, Stutter
<1> QED BY <1>6, <1>7, <1>8

\* Part of an owner's locks is unlocked.
LEMMA UnlockStep ==
  ASSUME TypeOK, AllMerged(Locks), NEW g, Span(g), g.owner \in Owners,
         Explained(Unlock(Locks, g), Locks')
  PROVE  Implemented
<1> DEFINE U == Unlock(Locks, g)
<1>1. BytesOf(U) = B!Cleared(g.owner, g.start, g.end) /\ Wanted(U) = Wanted(Locks)
  BY LocksType, UnlockBytes, ClearedMapping
<1>2. B!Change(BytesOf(U), Wanted(U))
  BY ChangeStep
<1> HIDE DEF U
<1>3. B!Unlock(g.owner, g.start, g.end)
  BY <1>1, <1>2, Mapping DEF B!Unlock, WantedNow
<1>4. g.start \in B!Bytes /\ g.end \in B!Bytes
  BY DEF Span, Bytes, B!Bytes
<1>5. B!Next
  BY <1>3, <1>4 DEF B!Next
<1> QED BY <1>5 DEF Implemented, Explained

\* An owner closes the file.
LEMMA CancelStep ==
  ASSUME TypeOK, Compat(Locks), NEW o \in Owners, CancelRange(o)
  PROVE  Implemented
<1> DEFINE C == CancelLocks(o)
<1>1. /\ C \in LockStates
      /\ C.excl = {r \in excl : r.owner # o} /\ C.shared = {r \in shared : r.owner # o}
      /\ ToSet(C.waitersExcl) = {q \in ToSet(waitersExcl) : q.owner # o}
      /\ ToSet(C.waitersShared) = {q \in ToSet(waitersShared) : q.owner # o}
  BY CancelFacts
<1>2. Install(C, TRUE, TRUE)
  BY DEF CancelRange
<1> HIDE DEF C
<1>3. \A p : \A b \in Bytes :
        /\ Covers(C.excl, p, b) <=> Covers(Locks.excl, p, b) /\ p # o
        /\ Covers(C.shared, p, b) <=> Covers(Locks.shared, p, b) /\ p # o
  BY <1>1 DEF Covers, Locks
<1>4. Compat(C)
  <2> HIDE DEF Locks
  <2> QED BY <1>3 DEF Compat
<1>5. Explained(C, Locks')
  BY <1>1, <1>2, <1>4, InstallExplained
<1>6. BytesOf(C) = {k \in ByteLock : k.owner # o}
  <2>1. \A k \in Keys : k.byte \in Bytes
    BY DEF Keys
  <2>2. ByteLock = BytesOf(Locks)
    BY Mapping
  <2> HIDE DEF Locks
  <2> QED BY <1>3, <2>1, <2>2 DEF BytesOf
<1>7. B!Change(BytesOf(C), Wanted(C))
  BY <1>5, ChangeStep
<1>8. Wanted(C) = {r \in WantedNow : r.owner # o}
  BY <1>1 DEF Wanted, WantedNow
<1>9. B!Cancel(o)
  BY <1>6, <1>7, <1>8 DEF B!Cancel, WantedNow
<1>10. B!Next
  BY <1>9 DEF B!Next
<1> QED BY <1>5, <1>10 DEF Implemented, Explained

\* A range is unlocked at its owner's request.
LEMMA UnlockRangeStep ==
  ASSUME TypeOK, AllMerged(Locks), Compat(Locks), NEW r \in Ranges, UnlockRange(r)
  PROVE  Implemented
<1>1. Locks \in LockStates /\ Span(r) /\ r.owner \in Owners
  BY LocksType, RangeSpan
<1>2. Unlock(Locks, r) \in LockStates /\ Compat(Unlock(Locks, r))
  BY <1>1, UnlockFacts, UnlockBytes
<1>3. Install(Unlock(Locks, r), TRUE, TRUE)
  BY DEF UnlockRange
<1>4. Explained(Unlock(Locks, r), Locks')
  BY <1>2, <1>3, InstallExplained
<1> QED BY <1>1, <1>4, UnlockStep

\* A lock without an ack is unlocked.
LEMMA UnlockWaiterStep ==
  ASSUME TypeOK, AllMerged(Locks), Compat(Locks), TypeOK',
         NEW i \in DOMAIN works, NEW g \in works[i].todo, UnlockWaiter(i, g)
  PROVE  Implemented
<1> DEFINE L == Unlock(Locks, g)
           M == IF L # Locks THEN TryNextWaiters(L).locks ELSE L
<1>1. Locks \in LockStates /\ Span(g) /\ g.owner \in Owners
  BY LocksType, RangeSpan, WorkFacts
<1>2. L \in LockStates /\ Compat(L)
  BY <1>1, UnlockFacts, UnlockBytes
<1>3. Set(M)
  BY DEF UnlockWaiter
<1>4. M \in LockStates
  BY <1>2, TryNextWaitersFacts DEF Accs
<1>5. works' \in Seq(Works)
  BY DEF TypeOK
<1>6. Explained(L, M)
  <2>1. CASE L # Locks
    BY <1>2, <2>1, TryNextWaitersGives
  <2>2. CASE L = Locks
    BY <1>2, <2>2, SameExplained
  <2> QED BY <2>1, <2>2
<1> HIDE DEF M
<1>7. Locks' = M
  BY <1>3, <1>4, <1>5, SetFacts
<1> QED BY <1>1, <1>6, <1>7, UnlockStep

\* All waiters are told to ask again.
LEMMA CancelAllWaitersStep ==
  ASSUME TypeOK, Compat(Locks), TypeOK', NEW i \in DOMAIN works, CancelAllWaiters(i)
  PROVE  Implemented
<1> DEFINE N == NoWaiters(Locks)
<1>1. /\ N \in LockStates /\ N.excl = Locks.excl /\ N.shared = Locks.shared
      /\ N.waitersExcl = <<>> /\ N.waitersShared = <<>>
  BY LocksType, NoWaitersFacts
<1>2. Set(N) /\ works' \in Seq(Works)
  BY DEF CancelAllWaiters, TypeOK
<1> HIDE DEF N
<1>3. Locks' = N
  BY <1>1, <1>2, SetFacts
<1>4. BytesOf(N) = BytesOf(Locks)
  BY <1>1 DEF BytesOf
<1>5. Compat(N)
  BY <1>1 DEF Compat
<1>6. Wanted(N) = {}
  <2>1. DOMAIN N.waitersExcl = {} /\ DOMAIN N.waitersShared = {}
    BY <1>1
  <2> QED BY <2>1 DEF Wanted, ToSet
<1>7. ByteLock' = ByteLock /\ WantedNow' = {}
  BY <1>3, <1>4, <1>6, Mapping
<1>8. B!CancelAllWaiters
  BY <1>7 DEF B!CancelAllWaiters, WantedNow
<1>9. B!Next
  BY <1>8 DEF B!Next
<1> QED BY <1>3, <1>5, <1>9 DEF Implemented

\* Every step is one of ByteLocks, or changes nothing there.
LEMMA NextImplemented ==
  ASSUME TypeOK, AllMerged(Locks), Compat(Locks), TypeOK', [Next]_vars
  PROVE  Implemented
<1>1. ASSUME NEW q \in Requests, NEW wait \in BOOLEAN, Lock(q, wait) PROVE Implemented
  BY <1>1, LockStep
<1>2. ASSUME NEW r \in Ranges, UnlockRange(r) PROVE Implemented
  BY <1>2, UnlockRangeStep
<1>3. ASSUME NEW o \in Owners, CancelRange(o) PROVE Implemented
  BY <1>3, CancelStep
<1>4. ASSUME NEW i \in DOMAIN works, NEW g \in works[i].todo, Acknowledged(i, g)
      PROVE  Implemented
  <2>1. Locks' = Locks
    BY <1>4 DEF Acknowledged, Locks
  <2> QED BY <2>1, Stutter
<1>5. ASSUME NEW i \in DOMAIN works, NEW g \in works[i].todo, UnlockWaiter(i, g)
      PROVE  Implemented
  BY <1>5, UnlockWaiterStep
<1>6. ASSUME NEW i \in DOMAIN works, AcksMissing(i) PROVE Implemented
  <2>1. Locks' = Locks
    BY <1>6 DEF AcksMissing, Locks
  <2> QED BY <2>1, Stutter
<1>7. ASSUME NEW i \in DOMAIN works, CancelAllWaiters(i) PROVE Implemented
  BY <1>7, CancelAllWaitersStep
<1>8. ASSUME UNCHANGED vars PROVE Implemented
  <2>1. Locks' = Locks
    BY <1>8 DEF vars, Locks
  <2> QED BY <2>1, Stutter
<1> QED BY <1>1, <1>2, <1>3, <1>4, <1>5, <1>6, <1>7, <1>8 DEF Next

\* The sets of ranges behave as a set of byte locks, for any file size, owners, waiters and
\* works: no two owners hold a byte in conflicting modes, a request changes nothing outside
\* of its range, an unlock takes all of its range, or its exclusive locks only where all of
\* it is locked exclusively, and a waiter gets all it asked for or nothing (FileInode,
\* RangeLockDetails).
THEOREM Implementation == Spec => ImplementsByteLocks
<1>1. Init => B!Init /\ Compat(Locks)
  <2> SUFFICES ASSUME Init PROVE B!Init /\ Compat(Locks)
    OBVIOUS
  <2>1. Locks.excl = {} /\ Locks.shared = {}
    BY DEF Init, Locks
  <2>2. Compat(Locks) /\ BytesOf(Locks) = {}
    BY <2>1 DEF Compat, BytesOf, Covers
  <2>3. ByteLock = {}
    BY <2>2, Mapping
  <2>4. WantedNow = {}
    <3>1. DOMAIN waitersExcl = {} /\ DOMAIN waitersShared = {}
      BY DEF Init
    <3> QED BY <3>1 DEF WantedNow, ToSet
  <2> QED BY <2>2, <2>3, <2>4 DEF B!Init, WantedNow
<1>2. IInv /\ Compat(Locks) /\ IInv' /\ [Next]_vars
        => Compat(Locks)' /\ [B!Next]_<<ByteLock, ToSet(waitersExcl) \cup ToSet(waitersShared)>>
  <2> SUFFICES ASSUME IInv, Compat(Locks), IInv', [Next]_vars
               PROVE  Compat(Locks)' /\ [B!Next]_<<ByteLock, ToSet(waitersExcl) \cup ToSet(waitersShared)>>
    OBVIOUS
  <2>1. Implemented
    BY NextImplemented DEF IInv, Safe
  <2> QED BY <2>1 DEF Implemented, WantedNow
<1> QED BY <1>1, <1>2, Invariance, PTL DEF Spec, ImplementsByteLocks, B!Spec
=============================================================================
