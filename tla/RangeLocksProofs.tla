-------------------------- MODULE RangeLocksProofs --------------------------
(***************************************************************************)
(* Safety of the fcntl locks for every number of owners, bytes, waiters    *)
(* and works: no wake-up is lost, and an owner's ranges stay merged.       *)
(***************************************************************************)
EXTENDS RangeLocks, QueueProofs

-----------------------------------------------------------------------------
(* Ranges as sets of bytes                                                 *)

\* Anything with a start and an end in the file
Span(q) == q.start \in Bytes /\ q.end \in Bytes /\ q.start <= q.end
In(q, b) == q.start <= b /\ b <= q.end

\* Owner o has byte b in one of the ranges S.
Covers(S, o, b) == \E r \in S : r.owner = o /\ In(r, b)

\* The ranges of an owner are disjoint and not adjacent.
Separated(S) ==
  \A a, b \in S : a # b /\ a.owner = b.owner => a.end + 1 < b.start \/ b.end + 1 < a.start

\* The bounds of a span are numbers.
LEMMA SpanType ==
  ASSUME NEW q, Span(q)
  PROVE  q.start \in Nat /\ q.end \in Nat /\ q.start <= MaxByte /\ q.end <= MaxByte
         /\ q.start <= q.end
BY BoundsAssumption DEF Span, Bytes

\* Ranges and requests are spans.
LEMMA RangeSpan ==
  /\ \A r \in Ranges : Span(r) /\ r.owner \in Owners
  /\ \A q \in Requests : Span(q) /\ q.owner \in Owners /\ q.mode \in {"shared", "excl"}
  /\ \A q \in Requests : RangeOf(q) \in Ranges
  /\ \A g \in Grants : Span(g) /\ g.owner \in Owners
BY DEF Ranges, Requests, Grants, Span, RangeOf

\* Two spans overlap if they have a byte in common.
LEMMA OverlapsIff ==
  ASSUME NEW a, NEW c, Span(a), Span(c)
  PROVE  Overlaps(a, c) <=> \E b \in Bytes : In(a, b) /\ In(c, b)
<1>1. /\ a.start \in Nat /\ a.end \in Nat /\ a.start <= a.end
      /\ c.start \in Nat /\ c.end \in Nat /\ c.start <= c.end
      /\ a.start \in Bytes /\ c.start \in Bytes
  BY SpanType DEF Span
<1>2. ASSUME Overlaps(a, c) PROVE \E b \in Bytes : In(a, b) /\ In(c, b)
  <2>1. CASE a.start <= c.start
    BY <1>1, <1>2, <2>1 DEF Overlaps, In
  <2>2. CASE c.start <= a.start
    BY <1>1, <1>2, <2>2 DEF Overlaps, In
  <2> QED BY <1>1, <2>1, <2>2
<1>3. ASSUME NEW b \in Bytes, In(a, b), In(c, b) PROVE Overlaps(a, c)
  <2>1. b \in Nat
    BY BoundsAssumption DEF Bytes
  <2> QED BY <1>1, <1>3, <2>1 DEF In, Overlaps
<1> QED BY <1>2, <1>3

\* Other owners' ranges overlap q if another owner has a byte of q.
LEMMA OthersIff ==
  ASSUME NEW S, \A r \in S : Span(r), NEW q, Span(q)
  PROVE  Others(S, q) # {} <=>
           \E r \in S, b \in Bytes : r.owner # q.owner /\ In(r, b) /\ In(q, b)
<1>1. \A r \in S : Overlaps(r, q) <=> \E b \in Bytes : In(r, b) /\ In(q, b)
  BY OverlapsIff
<1> QED BY <1>1 DEF Others

\* The owner's ranges overlap q if it has a byte of q.
LEMMA OwnIff ==
  ASSUME NEW S \in SUBSET Ranges, NEW q, Span(q)
  PROVE  Own(S, q) # {} <=> \E b \in Bytes : In(q, b) /\ Covers(S, q.owner, b)
<1>1. \A r \in S : Overlaps(r, q) <=> \E b \in Bytes : In(r, b) /\ In(q, b)
  BY OverlapsIff, RangeSpan
<1> QED BY <1>1 DEF Own, Covers

-----------------------------------------------------------------------------
(* merge, trim and split                                                   *)

\* The ranges that a is merged with, and a
Parts(S, a) == {a} \cup {r \in S : r.owner = a.owner /\ IsMergeable(r, a)}

\* The merged range reaches from the first start to the last end.
LEMMA MergedFacts ==
  ASSUME NEW S \in SUBSET Ranges, NEW a \in Ranges
  PROVE  /\ Merged(S, a) \in Ranges /\ Merged(S, a).owner = a.owner
         /\ \A r \in Parts(S, a) : Includes(Merged(S, a), r)
         /\ \E r \in Parts(S, a) : Merged(S, a).start = r.start
         /\ \E r \in Parts(S, a) : Merged(S, a).end = r.end
<1> DEFINE P == Parts(S, a)
           Starts == {r.start : r \in P}
           Ends == {r.end : r \in P}
           s == CHOOSE x \in Starts : \A r \in P : x <= r.start
           e == CHOOSE x \in Ends : \A r \in P : r.end <= x
<1>1. P \in SUBSET Ranges /\ a \in P
  BY DEF Parts
<1>2. \A r \in P : r.start \in Nat /\ r.end \in Nat /\ r.end <= MaxByte /\ r.start <= r.end
  BY <1>1, RangeSpan, SpanType
<1>3. s \in Starts /\ \A r \in P : s <= r.start
  <2>1. Starts \in SUBSET Nat /\ Starts # {}
    BY <1>1, <1>2
  <2>2. \E x \in Starts : \A m \in Starts : x <= m
    <3> HIDE DEF Starts
    <3> QED BY <2>1, LeastNat
  <2>3. \E x \in Starts : \A r \in P : x <= r.start
    BY <2>2
  <2> HIDE DEF P, Starts
  <2> QED BY <2>3
<1>4. e \in Ends /\ \A r \in P : r.end <= e
  <2>1. Ends \in SUBSET Nat /\ Ends # {} /\ \A m \in Ends : m <= MaxByte
    BY <1>1, <1>2
  <2>2. \E x \in Ends : \A m \in Ends : m <= x
    <3> HIDE DEF Ends
    <3> QED BY <2>1, GreatestNat, BoundsAssumption
  <2>3. \E x \in Ends : \A r \in P : r.end <= x
    BY <2>2
  <2> HIDE DEF P, Ends
  <2> QED BY <2>3
<1>5. Merged(S, a) = [owner |-> a.owner, start |-> s, end |-> e]
  BY DEF Merged, Parts
<1> HIDE DEF s, e
<1>6. PICK r1 \in P : s = r1.start
  BY <1>3
<1>7. PICK r2 \in P : e = r2.end
  BY <1>4
<1>8. s <= a.start /\ a.end <= e /\ a.start <= a.end
  BY <1>1, <1>2, <1>3, <1>4
<1> HIDE DEF P, Starts, Ends
<1>9. s \in Bytes /\ e \in Bytes /\ s <= e /\ a.owner \in Owners
  <2>1. r1.start \in Bytes /\ r2.end \in Bytes /\ a.start \in Nat /\ a.end \in Nat
        /\ r1.start \in Nat /\ r2.end \in Nat /\ a.owner \in Owners
    BY <1>1, <1>2, <1>6, <1>7, RangeSpan DEF Span
  <2> QED BY <1>6, <1>7, <1>8, <2>1
<1>10. Merged(S, a) \in Ranges
  BY <1>5, <1>9 DEF Ranges
<1>11. Merged(S, a).start = s /\ Merged(S, a).end = e /\ Merged(S, a).owner = a.owner
  BY <1>5
<1>12. \A r \in P : Includes(Merged(S, a), r)
  BY <1>3, <1>4, <1>11 DEF Includes
<1> QED BY <1>6, <1>7, <1>10, <1>11, <1>12 DEF P

\* A grant adds the bytes of its range, and no others.
LEMMA InsertCovers ==
  ASSUME NEW S \in SUBSET Ranges, NEW a \in Ranges
  PROVE  /\ Insert(S, a) \in SUBSET Ranges
         /\ \A o : \A b \in Bytes :
              Covers(Insert(S, a), o, b) <=> Covers(S, o, b) \/ (o = a.owner /\ In(a, b))
<1> DEFINE m == Merged(S, a)
           I == Insert(S, a)
<1>1. /\ m \in Ranges /\ m.owner = a.owner
      /\ \A r \in Parts(S, a) : Includes(m, r)
      /\ \E r \in Parts(S, a) : m.start = r.start
      /\ \E r \in Parts(S, a) : m.end = r.end
  BY MergedFacts
<1>2. I = {r \in S : ~(r.owner = a.owner /\ IsMergeable(r, a))} \cup {m}
  BY DEF Insert
<1> HIDE DEF m, I
<1>3. I \in SUBSET Ranges
  BY <1>1, <1>2
<1>4. Parts(S, a) \in SUBSET Ranges /\ a \in Parts(S, a)
  BY DEF Parts
<1>5. \A r \in Ranges : r.start \in Nat /\ r.end \in Nat /\ r.start <= r.end
  BY RangeSpan, SpanType
<1>6. Bytes \in SUBSET Nat
  BY BoundsAssumption DEF Bytes
<1>7. ASSUME NEW o, NEW b \in Bytes, Covers(I, o, b)
      PROVE  Covers(S, o, b) \/ (o = a.owner /\ In(a, b))
  <2>1. PICK r \in I : r.owner = o /\ In(r, b)
    BY <1>7 DEF Covers
  <2>2. CASE r \in S
    BY <2>1, <2>2 DEF Covers
  <2>3. CASE r = m
    <3>1. PICK r1 \in Parts(S, a) : m.start = r1.start
      BY <1>1
    <3>2. PICK r2 \in Parts(S, a) : m.end = r2.end
      BY <1>1
    <3>3. /\ r1 = a \/ (r1 \in S /\ r1.owner = a.owner /\ IsMergeable(r1, a))
          /\ r2 = a \/ (r2 \in S /\ r2.owner = a.owner /\ IsMergeable(r2, a))
      BY DEF Parts
    <3>4. /\ r1.start \in Nat /\ r1.end \in Nat /\ r2.start \in Nat /\ r2.end \in Nat
          /\ a.start \in Nat /\ a.end \in Nat /\ b \in Nat
      BY <1>4, <1>5, <1>6
    <3>5. m.start <= b /\ b <= m.end
      BY <2>1, <2>3 DEF In
    <3>6. In(r1, b) \/ In(a, b) \/ In(r2, b)
      BY <3>1, <3>2, <3>3, <3>4, <3>5 DEF In, IsMergeable
    <3> QED BY <1>1, <2>1, <2>3, <3>3, <3>6 DEF Covers
  <2> QED BY <1>2, <2>1, <2>2, <2>3
<1>8. ASSUME NEW o, NEW b \in Bytes, NEW r \in S \cup {a}, r.owner = o, In(r, b)
      PROVE  Covers(I, o, b)
  <2>1. CASE r \in Parts(S, a)
    <3>1. r.owner = a.owner
      BY <2>1 DEF Parts
    <3>2. Includes(m, r) /\ r \in Ranges /\ b \in Nat
      BY <1>1, <1>4, <1>6, <2>1
    <3>3. In(m, b)
      BY <1>1, <1>5, <1>8, <3>2 DEF In, Includes
    <3> QED BY <1>1, <1>2, <1>8, <3>1, <3>3 DEF Covers
  <2>2. CASE r \notin Parts(S, a)
    <3>1. r \in I
      BY <1>2, <1>8, <2>2 DEF Parts
    <3> QED BY <1>8, <3>1 DEF Covers
  <2> QED BY <2>1, <2>2
<1>9. ASSUME NEW o, NEW b \in Bytes, Covers(S, o, b) \/ (o = a.owner /\ In(a, b))
      PROVE  Covers(I, o, b)
  BY <1>8, <1>9 DEF Covers
<1> QED BY <1>3, <1>7, <1>9 DEF I

\* Merging leaves no range adjacent to another.
LEMMA InsertSeparated ==
  ASSUME NEW S \in SUBSET Ranges, NEW a \in Ranges, Separated(S)
  PROVE  Separated(Insert(S, a))
<1> DEFINE m == Merged(S, a)
           I == Insert(S, a)
<1>1. /\ m \in Ranges /\ m.owner = a.owner
      /\ \E r \in Parts(S, a) : m.start = r.start
      /\ \E r \in Parts(S, a) : m.end = r.end
  BY MergedFacts
<1>2. I = {r \in S : ~(r.owner = a.owner /\ IsMergeable(r, a))} \cup {m}
  BY DEF Insert
<1> HIDE DEF m, I
<1>3. \A r \in Ranges : r.start \in Nat /\ r.end \in Nat /\ r.start <= r.end
  BY RangeSpan, SpanType
<1>4. ASSUME NEW x \in S, x.owner = a.owner, ~IsMergeable(x, a)
      PROVE  x.end + 1 < m.start \/ m.end + 1 < x.start
  <2>1. PICK r1 \in Parts(S, a) : m.start = r1.start
    BY <1>1
  <2>2. PICK r2 \in Parts(S, a) : m.end = r2.end
    BY <1>1
  <2>3. /\ r1 = a \/ (r1 \in S /\ r1.owner = a.owner /\ IsMergeable(r1, a) /\ r1 # x)
        /\ r2 = a \/ (r2 \in S /\ r2.owner = a.owner /\ IsMergeable(r2, a) /\ r2 # x)
    BY <1>4 DEF Parts
  <2>4. /\ r1.start \in Nat /\ r1.end \in Nat /\ r2.start \in Nat /\ r2.end \in Nat
        /\ r1.start <= r1.end /\ r2.start <= r2.end /\ a.start <= a.end
        /\ a.start \in Nat /\ a.end \in Nat /\ x.start \in Nat /\ x.end \in Nat /\ x.start <= x.end
    BY <1>3, <2>3
  <2>5. /\ r1 = a \/ x.end + 1 < r1.start \/ r1.end + 1 < x.start
        /\ r2 = a \/ x.end + 1 < r2.start \/ r2.end + 1 < x.start
    BY <1>4, <2>3 DEF Separated
  <2> QED BY <1>4, <2>1, <2>2, <2>3, <2>4, <2>5 DEF IsMergeable
<1>5. ASSUME NEW x \in I, NEW y \in I, x # y, x.owner = y.owner
      PROVE  x.end + 1 < y.start \/ y.end + 1 < x.start
  <2>1. CASE x \in S /\ y \in S
    BY <1>5, <2>1 DEF Separated
  <2>2. CASE x = m
    <3>1. y \in S /\ y.owner = a.owner /\ ~IsMergeable(y, a)
      BY <1>1, <1>2, <1>5, <2>2
    <3> QED BY <1>4, <2>2, <3>1
  <2>3. CASE y = m
    <3>1. x \in S /\ x.owner = a.owner /\ ~IsMergeable(x, a)
      BY <1>1, <1>2, <1>5, <2>3
    <3> QED BY <1>4, <2>3, <3>1
  <2> QED BY <1>2, <1>5, <2>1, <2>2, <2>3
<1> QED BY <1>5 DEF Separated, I

\* What is left of a range: its bytes outside of the cut, in at most two parts that are
\* not adjacent.
LEMMA WithoutFacts ==
  ASSUME NEW a \in Ranges, NEW cut, Span(cut), Overlaps(a, cut)
  PROVE  /\ Without(a, cut) \in SUBSET Ranges
         /\ \A p \in Without(a, cut) : /\ p.owner = a.owner /\ Includes(a, p)
                                       /\ p.end < cut.start \/ cut.end < p.start
         /\ \A b \in Bytes : In(a, b) /\ ~In(cut, b) => \E p \in Without(a, cut) : In(p, b)
         /\ Separated(Without(a, cut))
<1> DEFINE l == [a EXCEPT !.end = cut.start - 1]
           h == [a EXCEPT !.start = cut.end + 1]
<1>1. /\ a.owner \in Owners /\ a.start \in Nat /\ a.end \in Nat /\ a.start <= a.end /\ a.end <= MaxByte
      /\ cut.start \in Nat /\ cut.end \in Nat /\ cut.start <= cut.end /\ cut.end <= MaxByte
      /\ MaxByte \in Nat
  BY RangeSpan, SpanType, BoundsAssumption
<1>2. /\ l = [owner |-> a.owner, start |-> a.start, end |-> cut.start - 1]
      /\ h = [owner |-> a.owner, start |-> cut.end + 1, end |-> a.end]
  BY DEF Ranges
<1>3. /\ l.owner = a.owner /\ l.start = a.start /\ l.end = cut.start - 1
      /\ h.owner = a.owner /\ h.start = cut.end + 1 /\ h.end = a.end
  BY <1>2
<1>4. Without(a, cut) = {p \in {l, h} : p.start <= p.end}
  BY DEF Without
<1> HIDE DEF l, h
<1>5. (l.start <= l.end => l.end <= MaxByte /\ l.end \in Nat) /\ (h.start <= h.end => h.start \in 0..MaxByte)
  BY <1>1, <1>3
<1>6. (l.start <= l.end => l \in Ranges) /\ (h.start <= h.end => h \in Ranges)
  BY <1>1, <1>2, <1>3, <1>5 DEF Ranges, Bytes

<1>7. Without(a, cut) \in SUBSET Ranges
  BY <1>4, <1>6
<1>8. \A p \in Without(a, cut) : /\ p.owner = a.owner /\ Includes(a, p)
                                 /\ p.end < cut.start \/ cut.end < p.start
  BY <1>1, <1>3, <1>4 DEF Includes, Overlaps
<1>9. ASSUME NEW b \in Bytes, In(a, b), ~In(cut, b) PROVE \E p \in Without(a, cut) : In(p, b)
  <2>1. b \in Nat /\ a.start <= b /\ b <= a.end /\ (b < cut.start \/ cut.end < b)
    BY <1>1, <1>9, BoundsAssumption DEF Bytes, In
  <2>2. CASE b < cut.start
    <3>1. l.start <= b /\ b <= l.end /\ l.start <= l.end
      BY <1>1, <1>3, <2>1, <2>2
    <3> QED BY <1>4, <3>1 DEF In
  <2>3. CASE cut.end < b
    <3>1. h.start <= b /\ b <= h.end /\ h.start <= h.end
      BY <1>1, <1>3, <2>1, <2>3
    <3> QED BY <1>4, <3>1 DEF In
  <2> QED BY <2>1, <2>2, <2>3
<1>10. l.end + 1 < h.start
  BY <1>1, <1>3
<1>11. Separated(Without(a, cut))
  BY <1>4, <1>10 DEF Separated
<1> QED BY <1>7, <1>8, <1>9, <1>11

\* An unlock takes the owner's bytes of its range, and no others.
LEMMA SubtractCovers ==
  ASSUME NEW S \in SUBSET Ranges, NEW q, Span(q)
  PROVE  /\ Subtract(S, q) \in SUBSET Ranges
         /\ \A o : \A b \in Bytes :
              Covers(Subtract(S, q), o, b) <=> Covers(S, o, b) /\ ~(o = q.owner /\ In(q, b))
<1> DEFINE T == Subtract(S, q)
<1>1. \A r \in Own(S, q) : r \in S /\ r.owner = q.owner /\ Overlaps(r, q)
  BY DEF Own
<1>2. \A r \in S : r.owner = q.owner /\ Overlaps(r, q) => r \in Own(S, q)
  BY DEF Own
<1>3. \A p : p \in T <=> \/ p \in S /\ p \notin Own(S, q)
                         \/ \E r \in Own(S, q) : p \in Without(r, q)
  BY DEF Subtract
<1> HIDE DEF T
<1>4. \A r \in Own(S, q) :
        /\ Without(r, q) \in SUBSET Ranges
        /\ \A p \in Without(r, q) : /\ p.owner = r.owner /\ Includes(r, p)
                                    /\ p.end < q.start \/ q.end < p.start
        /\ \A b \in Bytes : In(r, b) /\ ~In(q, b) => \E p \in Without(r, q) : In(p, b)
  BY <1>1, WithoutFacts
<1>5. T \in SUBSET Ranges
  BY <1>3, <1>4
<1>6. \A r \in Ranges : r.start \in Nat /\ r.end \in Nat /\ r.start <= r.end
  BY RangeSpan, SpanType
<1>7. Bytes \in SUBSET Nat /\ q.start \in Nat /\ q.end \in Nat
  BY BoundsAssumption, SpanType DEF Bytes
<1>8. ASSUME NEW o, NEW b \in Bytes, Covers(T, o, b)
      PROVE  Covers(S, o, b) /\ ~(o = q.owner /\ In(q, b))
  <2>1. PICK p \in T : p.owner = o /\ In(p, b)
    BY <1>8 DEF Covers
  <2>2. CASE p \in S /\ p \notin Own(S, q)
    <3>1. p.owner = q.owner => ~Overlaps(p, q)
      BY <1>2, <2>2
    <3>2. p.owner = q.owner => ~In(q, b)
      BY <2>1, <2>2, <3>1, OverlapsIff, RangeSpan
    <3> QED BY <2>1, <2>2, <3>2 DEF Covers
  <2>3. ASSUME NEW r \in Own(S, q), p \in Without(r, q)
        PROVE  Covers(S, o, b) /\ ~(o = q.owner /\ In(q, b))
    <3>1. p.owner = r.owner /\ Includes(r, p) /\ (p.end < q.start \/ q.end < p.start)
      BY <1>4, <2>3
    <3>2. r \in Ranges /\ p \in Ranges /\ b \in Nat
      BY <1>1, <1>5, <1>7
    <3>3. In(r, b) /\ ~In(q, b)
      BY <1>6, <1>7, <2>1, <3>1, <3>2 DEF In, Includes
    <3> QED BY <1>1, <2>1, <3>1, <3>3 DEF Covers
  <2> QED BY <1>3, <2>2, <2>3
<1>9. ASSUME NEW o, NEW b \in Bytes, Covers(S, o, b), ~(o = q.owner /\ In(q, b))
      PROVE  Covers(T, o, b)
  <2>1. PICK r \in S : r.owner = o /\ In(r, b)
    BY <1>9 DEF Covers
  <2>2. CASE r \in Own(S, q)
    <3>1. ~In(q, b)
      BY <1>1, <1>9, <2>1, <2>2
    <3>2. PICK p \in Without(r, q) : In(p, b)
      BY <1>4, <2>1, <2>2, <3>1
    <3>3. p \in T /\ p.owner = o
      BY <1>3, <1>4, <2>1, <2>2, <3>2
    <3> QED BY <3>2, <3>3 DEF Covers
  <2>3. CASE r \notin Own(S, q)
    BY <1>3, <2>1, <2>3 DEF Covers
  <2> QED BY <2>2, <2>3
<1> QED BY <1>5, <1>8, <1>9 DEF T

\* Trimming and splitting keep the ranges of an owner apart.
LEMMA SubtractSeparated ==
  ASSUME NEW S \in SUBSET Ranges, NEW q, Span(q), Separated(S)
  PROVE  Separated(Subtract(S, q))
<1> DEFINE T == Subtract(S, q)
<1>1. \A r \in Own(S, q) : r \in S /\ Overlaps(r, q)
  BY DEF Own
<1>2. \A p : p \in T <=> \/ p \in S /\ p \notin Own(S, q)
                         \/ \E r \in Own(S, q) : p \in Without(r, q)
  BY DEF Subtract
<1> HIDE DEF T
<1>3. \A r \in Own(S, q) :
        /\ Without(r, q) \in SUBSET Ranges /\ Separated(Without(r, q))
        /\ \A p \in Without(r, q) : p.owner = r.owner /\ Includes(r, p)
  BY <1>1, WithoutFacts
<1>4. \A r \in Ranges : r.start \in Nat /\ r.end \in Nat /\ r.start <= r.end
  BY RangeSpan, SpanType
<1>5. \A p \in T : \E r \in S : /\ p \in Ranges /\ p.owner = r.owner /\ Includes(r, p)
                                /\ IF r \in Own(S, q) THEN p \in Without(r, q) ELSE p = r
  BY <1>1, <1>2, <1>3, <1>4 DEF Includes
<1>6. ASSUME NEW x \in T, NEW y \in T, x # y, x.owner = y.owner
      PROVE  x.end + 1 < y.start \/ y.end + 1 < x.start
  <2>1. PICK r \in S : /\ x \in Ranges /\ x.owner = r.owner /\ Includes(r, x)
                       /\ IF r \in Own(S, q) THEN x \in Without(r, q) ELSE x = r
    BY <1>5
  <2>2. PICK u \in S : /\ y \in Ranges /\ y.owner = u.owner /\ Includes(u, y)
                       /\ IF u \in Own(S, q) THEN y \in Without(u, q) ELSE y = u
    BY <1>5
  <2>3. CASE r = u
    <3>1. r \in Own(S, q) /\ x \in Without(r, q) /\ y \in Without(r, q)
      BY <1>6, <2>1, <2>2, <2>3
    <3> QED BY <1>3, <1>6, <3>1 DEF Separated
  <2>4. CASE r # u
    <3>1. r.end + 1 < u.start \/ u.end + 1 < r.start
      BY <1>6, <2>1, <2>2, <2>4 DEF Separated
    <3> QED BY <1>4, <2>1, <2>2, <3>1 DEF Includes
  <2> QED BY <2>3, <2>4
<1> QED BY <1>6 DEF Separated, T

\* One range covers all of q if the ranges together do, because they are merged.
LEMMA WholeIff ==
  ASSUME NEW S \in SUBSET Ranges, NEW q, Span(q), Separated(S)
  PROVE  (\E r \in Own(S, q) : Includes(r, q)) <=>
           \A b \in Bytes : In(q, b) => Covers(S, q.owner, b)
<1>1. /\ q.start \in Nat /\ q.end \in Nat /\ q.start <= q.end /\ q.end <= MaxByte
      /\ MaxByte \in Nat /\ q.start \in Bytes
  BY SpanType, BoundsAssumption DEF Span
<1>2. \A r \in S : r.start \in Nat /\ r.end \in Nat /\ r.start <= r.end
  BY RangeSpan, SpanType
<1>3. \A b \in Bytes : b \in Nat
  BY BoundsAssumption DEF Bytes
<1>4. ASSUME NEW r \in Own(S, q), Includes(r, q), NEW b \in Bytes, In(q, b)
      PROVE  Covers(S, q.owner, b)
  <2>1. r \in S /\ r.owner = q.owner
    BY DEF Own
  <2>2. In(r, b)
    BY <1>1, <1>2, <1>3, <1>4, <2>1 DEF Includes, In
  <2> QED BY <2>1, <2>2 DEF Covers
<1>5. ASSUME \A b \in Bytes : In(q, b) => Covers(S, q.owner, b)
      PROVE  \E r \in Own(S, q) : Includes(r, q)
  <2>1. In(q, q.start)
    BY <1>1 DEF In
  <2>2. PICK r \in S : r.owner = q.owner /\ In(r, q.start)
    BY <1>1, <1>5, <2>1 DEF Covers
  <2>3. r.start \in Nat /\ r.end \in Nat /\ r.start <= q.start /\ q.start <= r.end
    BY <1>2, <2>2 DEF In
  <2>4. q.end <= r.end
    <3> SUFFICES ASSUME ~(q.end <= r.end) PROVE FALSE
      OBVIOUS
    <3> DEFINE n == r.end + 1
    <3>1. n \in Bytes /\ In(q, n)
      BY <1>1, <2>3 DEF Bytes, In
    <3>2. PICK u \in S : u.owner = q.owner /\ In(u, n)
      BY <1>5, <3>1 DEF Covers
    <3>3. u.start \in Nat /\ u.end \in Nat /\ u.start <= r.end + 1 /\ r.end + 1 <= u.end
      BY <1>2, <3>2 DEF In
    <3>4. u # r
      BY <2>3, <3>3
    <3>5. u.end + 1 < r.start \/ r.end + 1 < u.start
      BY <2>2, <3>2, <3>4 DEF Separated
    <3> QED BY <1>1, <2>3, <3>3, <3>5
  <2>5. Overlaps(r, q) /\ Includes(r, q)
    BY <1>1, <2>3, <2>4 DEF Overlaps, Includes
  <2> QED BY <2>2, <2>5 DEF Own
<1> QED BY <1>4, <1>5

-----------------------------------------------------------------------------
(* The operations of FileInode                                             *)

LockStates == [excl : SUBSET Ranges, shared : SUBSET Ranges,
               waitersExcl : Seq(Requests), waitersShared : Seq(Requests)]

\* NoNeedlessWait of locks L
Served(L) ==
  /\ \A i \in DOMAIN L.waitersExcl :
       CheckConflicts(L, L.waitersExcl[i], SubSeq(L.waitersExcl, 1, i - 1))
  /\ \A i \in DOMAIN L.waitersShared : CheckConflicts(L, L.waitersShared[i], L.waitersExcl)

\* Every byte that is locked in L is locked in M.
Grows(L, M) ==
  \A o : \A b \in Bytes : /\ Covers(L.excl, o, b) => Covers(M.excl, o, b)
                          /\ Covers(L.shared, o, b) => Covers(M.shared, o, b)

\* The ranges of each mode are merged.
AllMerged(L) == Separated(L.excl) /\ Separated(L.shared)

\* Another owner's range overlaps q, in terms of bytes
LEMMA OthersCovers ==
  ASSUME NEW S \in SUBSET Ranges, NEW q, Span(q)
  PROVE  Others(S, q) # {} <=> \E o : \E b \in Bytes : o # q.owner /\ In(q, b) /\ Covers(S, o, b)
<1>1. \A r \in S : Span(r)
  BY RangeSpan
<1>2. Others(S, q) # {} <=>
        \E r \in S, b \in Bytes : r.owner # q.owner /\ In(r, b) /\ In(q, b)
  BY <1>1, OthersIff
<1> QED BY <1>2 DEF Covers

\* A request that has to wait for others does so after more was locked.
LEMMA ConflictStays ==
  ASSUME NEW L \in LockStates, NEW M \in LockStates, Grows(L, M), NEW q \in Requests,
         NEW before, NEW after, ToSet(before) \subseteq ToSet(after),
         CheckConflicts(L, q, before)
  PROVE  CheckConflicts(M, q, after)
<1>1. /\ L.excl \in SUBSET Ranges /\ L.shared \in SUBSET Ranges
      /\ M.excl \in SUBSET Ranges /\ M.shared \in SUBSET Ranges /\ Span(q)
  BY RangeSpan DEF LockStates
<1>2. Others(L.excl, q) # {} => Others(M.excl, q) # {}
  BY <1>1, OthersCovers DEF Grows
<1>3. Others(L.shared, q) # {} => Others(M.shared, q) # {}
  BY <1>1, OthersCovers DEF Grows
<1>4. Others(ToSet(before), q) # {} => Others(ToSet(after), q) # {}
  BY DEF Others
<1> QED BY <1>2, <1>3, <1>4 DEF CheckConflicts

\* flockRangeExclusive, flockRangeShared
LEMMA GrantFacts ==
  ASSUME NEW L \in LockStates, NEW q \in Requests
  PROVE  /\ Grant(L, q) \in LockStates
         /\ Grant(L, q).waitersExcl = L.waitersExcl
         /\ Grant(L, q).waitersShared = L.waitersShared
         /\ \A o : \A b \in Bytes :
              /\ Covers(Grant(L, q).excl, o, b) <=>
                   Covers(L.excl, o, b) \/ (q.mode = "excl" /\ o = q.owner /\ In(q, b))
              /\ Covers(Grant(L, q).shared, o, b) <=>
                   Covers(L.shared, o, b) \/ (q.mode = "shared" /\ o = q.owner /\ In(q, b))
         /\ Separated(L.excl) => Separated(Grant(L, q).excl)
         /\ Separated(L.shared) => Separated(Grant(L, q).shared)
         /\ Granted(L, q) \in Grants
<1> DEFINE a == RangeOf(q)
           G == Grant(L, q)
<1>1. /\ L.excl \in SUBSET Ranges /\ L.shared \in SUBSET Ranges /\ a \in Ranges
      /\ L.waitersExcl \in Seq(Requests) /\ L.waitersShared \in Seq(Requests)
      /\ q.mode \in {"shared", "excl"} /\ q.owner \in Owners
  BY RangeSpan DEF LockStates
<1>2. a.owner = q.owner /\ \A b : In(a, b) <=> In(q, b)
  BY DEF RangeOf, In
<1> HIDE DEF a
<1>3. /\ G.waitersExcl = L.waitersExcl /\ G.waitersShared = L.waitersShared
      /\ G.excl = IF q.mode = "excl" THEN Insert(L.excl, a) ELSE L.excl
      /\ G.shared = IF q.mode = "excl" THEN L.shared ELSE Insert(L.shared, a)
  BY DEF Grant, LockStates, a
<1>4. Insert(L.excl, a) \in SUBSET Ranges /\ Insert(L.shared, a) \in SUBSET Ranges
  BY <1>1, InsertCovers
<1>5. G \in LockStates
  BY <1>1, <1>4 DEF Grant, LockStates, a
<1>6. \A o : \A b \in Bytes :
        /\ Covers(Insert(L.excl, a), o, b) <=> Covers(L.excl, o, b) \/ (o = q.owner /\ In(q, b))
        /\ Covers(Insert(L.shared, a), o, b) <=> Covers(L.shared, o, b) \/ (o = q.owner /\ In(q, b))
  BY <1>1, <1>2, InsertCovers
<1>7. /\ Separated(L.excl) => Separated(Insert(L.excl, a))
      /\ Separated(L.shared) => Separated(Insert(L.shared, a))
  BY <1>1, InsertSeparated
<1>8. Granted(L, q) \in Grants
  <2> DEFINE m == Merged(IF q.mode = "excl" THEN L.excl ELSE L.shared, a)
  <2>1. m \in Ranges
    BY <1>1, MergedFacts
  <2>2. Granted(L, q) = [owner |-> q.owner, start |-> m.start, end |-> m.end, asked |-> a]
    BY DEF Granted, a
  <2> HIDE DEF m
  <2> QED BY <1>1, <2>1, <2>2 DEF Grants, Ranges
<1> HIDE DEF G
<1>9. CASE q.mode = "excl"
  BY <1>3, <1>5, <1>6, <1>7, <1>8, <1>9 DEF G
<1>10. CASE q.mode = "shared"
  BY <1>3, <1>5, <1>6, <1>7, <1>8, <1>10 DEF G
<1> QED BY <1>1, <1>9, <1>10

\* A request that waits
LEMMA EnqueueFacts ==
  ASSUME NEW L \in LockStates, NEW q \in Requests
  PROVE  /\ Enqueue(L, q) \in LockStates
         /\ Enqueue(L, q).excl = L.excl /\ Enqueue(L, q).shared = L.shared
         /\ Enqueue(L, q).waitersExcl =
              (IF q.mode = "excl" THEN Append(L.waitersExcl, q) ELSE L.waitersExcl)
         /\ Enqueue(L, q).waitersShared =
              (IF q.mode = "excl" THEN L.waitersShared ELSE Append(L.waitersShared, q))
<1>1. L.waitersExcl \in Seq(Requests) /\ L.waitersShared \in Seq(Requests)
  BY DEF LockStates
<1>2. Append(L.waitersExcl, q) \in Seq(Requests) /\ Append(L.waitersShared, q) \in Seq(Requests)
  BY <1>1
<1> QED BY <1>2 DEF Enqueue, LockStates

\* The first waiters of a queue
LEMMA SubSeqSet ==
  ASSUME NEW T, NEW s \in Seq(T), NEW i \in DOMAIN s
  PROVE  \A x : x \in ToSet(SubSeq(s, 1, i - 1)) <=> \E j \in 1..(i - 1) : x = s[j]
<1> DEFINE u == SubSeq(s, 1, i - 1)
<1>1. i \in 1..Len(s) /\ Len(s) \in Nat
  OBVIOUS
<1>2. DOMAIN u = 1..(i - 1) /\ \A j \in 1..(i - 1) : u[j] = s[j]
  BY <1>1
<1>3. \A x : x \in ToSet(u) <=> \E j \in DOMAIN u : x = u[j]
  BY Zenon DEF ToSet
<1> HIDE DEF u
<1>4. \A x : x \in ToSet(u) <=> \E j \in 1..(i - 1) : x = s[j]
  BY <1>2, <1>3
<1> QED BY <1>4 DEF u

\* After a grant the waiters wait for the same reasons.
LEMMA GrantServed ==
  ASSUME NEW L \in LockStates, NEW q \in Requests, Served(L)
  PROVE  Served(Grant(L, q))
<1> DEFINE G == Grant(L, q)
<1>1. G \in LockStates /\ G.waitersExcl = L.waitersExcl /\ G.waitersShared = L.waitersShared
  BY GrantFacts
<1>2. Grows(L, G)
  BY GrantFacts DEF Grows
<1>3. L.waitersExcl \in Seq(Requests) /\ L.waitersShared \in Seq(Requests)
  BY DEF LockStates
<1> HIDE DEF G
<1>4. ASSUME NEW w \in Requests, NEW before, CheckConflicts(L, w, before)
      PROVE  CheckConflicts(G, w, before)
  BY <1>1, <1>2, <1>4, ConflictStays
<1>5. /\ \A i \in DOMAIN L.waitersExcl : L.waitersExcl[i] \in Requests
      /\ \A i \in DOMAIN L.waitersShared : L.waitersShared[i] \in Requests
  BY <1>3, SeqElements
<1>6. Served(G)
  BY <1>1, <1>4, <1>5 DEF Served
<1> QED BY <1>6 DEF G

\* A request that has to wait may be queued.
LEMMA EnqueueServed ==
  ASSUME NEW L \in LockStates, NEW q \in Requests, Served(L),
         CheckConflicts(L, q, L.waitersExcl)
  PROVE  Served(Enqueue(L, q))
<1> DEFINE E == Enqueue(L, q)
           x == L.waitersExcl
           s == L.waitersShared
<1>1. /\ E \in LockStates /\ E.excl = L.excl /\ E.shared = L.shared
      /\ E.waitersExcl = IF q.mode = "excl" THEN Append(x, q) ELSE x
      /\ E.waitersShared = IF q.mode = "excl" THEN s ELSE Append(s, q)
  BY EnqueueFacts
<1>2. Grows(L, E)
  BY <1>1 DEF Grows
<1>3. x \in Seq(Requests) /\ s \in Seq(Requests)
  BY DEF LockStates
<1> HIDE DEF E
<1>4. ASSUME NEW w \in Requests, NEW before, NEW after, ToSet(before) \subseteq ToSet(after),
             CheckConflicts(L, w, before)
      PROVE  CheckConflicts(E, w, after)
  BY <1>1, <1>2, <1>4, ConflictStays
<1>5. /\ \A i \in DOMAIN x : x[i] \in Requests /\ CheckConflicts(L, x[i], SubSeq(x, 1, i - 1))
      /\ \A i \in DOMAIN s : s[i] \in Requests /\ CheckConflicts(L, s[i], x)
      /\ CheckConflicts(L, q, x)
      /\ DOMAIN x = 1..Len(x) /\ DOMAIN s = 1..Len(s) /\ Len(x) \in Nat /\ Len(s) \in Nat
  BY <1>3, SeqElements DEF Served
<1> HIDE DEF x, s
<1>6. CASE q.mode = "excl"
  <2> DEFINE y == Append(x, q)
  <2>1. /\ y \in Seq(Requests) /\ DOMAIN y = 1..(Len(x) + 1) /\ y[Len(x) + 1] = q
        /\ \A i \in 1..Len(x) : y[i] = x[i]
    BY <1>3, <1>5
  <2>2. ToSet(x) \subseteq ToSet(y)
    BY <1>3, ToSetAppend
  <2> HIDE DEF y
  <2>3. ASSUME NEW i \in DOMAIN y PROVE CheckConflicts(E, y[i], SubSeq(y, 1, i - 1))
    <3>1. CASE i \in DOMAIN x
      <4>1. ToSet(SubSeq(x, 1, i - 1)) \subseteq ToSet(SubSeq(y, 1, i - 1))
        <5>1. /\ \A e : e \in ToSet(SubSeq(x, 1, i - 1)) <=> \E j \in 1..(i - 1) : e = x[j]
              /\ \A e : e \in ToSet(SubSeq(y, 1, i - 1)) <=> \E j \in 1..(i - 1) : e = y[j]
          BY <1>3, <2>1, <3>1, SubSeqSet
        <5>2. \A j \in 1..(i - 1) : y[j] = x[j]
          BY <1>5, <2>1, <3>1
        <5> QED BY <5>1, <5>2
      <4>2. y[i] = x[i]
        BY <1>5, <2>1, <3>1
      <4> QED BY <1>4, <1>5, <3>1, <4>1, <4>2
    <3>2. CASE i = Len(x) + 1
      <4>1. ToSet(x) \subseteq ToSet(SubSeq(y, 1, i - 1))
        <5>1. \A e : e \in ToSet(SubSeq(y, 1, i - 1)) <=> \E j \in 1..(i - 1) : e = y[j]
          BY <2>1, SubSeqSet
        <5>2. i - 1 = Len(x)
          BY <1>5, <3>2
        <5>3. \A e : e \in ToSet(x) <=> \E j \in DOMAIN x : e = x[j]
          BY Zenon DEF ToSet
        <5> QED BY <1>5, <2>1, <5>1, <5>2, <5>3
      <4> QED BY <1>4, <1>5, <2>1, <3>2, <4>1
    <3> QED BY <1>5, <2>1, <3>1, <3>2
  <2>4. \A i \in DOMAIN s : CheckConflicts(E, s[i], y)
    BY <1>4, <1>5, <2>2
  <2>5. E.waitersExcl = y /\ E.waitersShared = s
    BY <1>1, <1>6 DEF y
  <2>6. Served(E)
    BY <2>3, <2>4, <2>5 DEF Served
  <2> QED BY <2>6 DEF E
<1>7. CASE q.mode # "excl"
  <2> DEFINE y == Append(s, q)
  <2>1. /\ DOMAIN y = 1..(Len(s) + 1) /\ y[Len(s) + 1] = q
        /\ \A i \in 1..Len(s) : y[i] = s[i]
    BY <1>3, <1>5
  <2> HIDE DEF y
  <2>2. \A i \in DOMAIN x : CheckConflicts(E, x[i], SubSeq(x, 1, i - 1))
    BY <1>4, <1>5
  <2>3. \A i \in DOMAIN y : CheckConflicts(E, y[i], x)
    <3>1. \A i \in DOMAIN s : CheckConflicts(E, s[i], x)
      BY <1>4, <1>5
    <3>2. CheckConflicts(E, q, x)
      BY <1>4, <1>5
    <3>3. \A i \in DOMAIN y : y[i] = q \/ (i \in DOMAIN s /\ y[i] = s[i])
      BY <1>5, <2>1
    <3> QED BY <3>1, <3>2, <3>3
  <2>4. E.waitersExcl = x /\ E.waitersShared = y
    BY <1>1, <1>7 DEF y
  <2>5. Served(E)
    BY <2>2, <2>3, <2>4 DEF Served
  <2> QED BY <2>5 DEF E
<1> QED BY <1>6, <1>7

\* The owner of q has all of q exclusively.
Whole(L, q) == \A b \in Bytes : In(q, b) => Covers(L.excl, q.owner, b)

\* flockRangeUnlock: no other owner is touched, and no byte becomes locked. Shared bytes
\* stay where the whole range is locked exclusively.
LEMMA UnlockFacts ==
  ASSUME NEW L \in LockStates, NEW q, Span(q)
  PROVE  /\ Unlock(L, q) \in LockStates
         /\ Unlock(L, q).waitersExcl = L.waitersExcl
         /\ Unlock(L, q).waitersShared = L.waitersShared
         /\ Separated(L.excl) => Separated(Unlock(L, q).excl)
         /\ Separated(L.shared) => Separated(Unlock(L, q).shared)
         /\ Grows(Unlock(L, q), L)
         /\ \A o : \A b \in Bytes :
              /\ Covers(Unlock(L, q).excl, o, b) <=>
                   Covers(L.excl, o, b) /\ ~(o = q.owner /\ In(q, b))
              /\ AllMerged(L) =>
                   (Covers(Unlock(L, q).shared, o, b) <=>
                      Covers(L.shared, o, b) /\ ~(o = q.owner /\ In(q, b) /\ ~Whole(L, q)))
<1> DEFINE U == Unlock(L, q)
           covered == \E r \in Own(L.excl, q) : Includes(r, q)
<1>1. /\ L.excl \in SUBSET Ranges /\ L.shared \in SUBSET Ranges
      /\ L.waitersExcl \in Seq(Requests) /\ L.waitersShared \in Seq(Requests)
  BY DEF LockStates
<1>2. /\ U.waitersExcl = L.waitersExcl /\ U.waitersShared = L.waitersShared
      /\ U.excl = Subtract(L.excl, q)
      /\ U.shared = IF covered THEN L.shared ELSE Subtract(L.shared, q)
  BY DEF Unlock, LockStates
<1>3. Subtract(L.excl, q) \in SUBSET Ranges /\ Subtract(L.shared, q) \in SUBSET Ranges
  BY <1>1, SubtractCovers
<1>4. U \in LockStates
  BY <1>1, <1>3 DEF Unlock, LockStates
<1>5. /\ Separated(L.excl) => Separated(Subtract(L.excl, q))
      /\ Separated(L.shared) => Separated(Subtract(L.shared, q))
  BY <1>1, SubtractSeparated
<1>6. \A o : \A b \in Bytes :
        /\ Covers(Subtract(L.excl, q), o, b) <=> Covers(L.excl, o, b) /\ ~(o = q.owner /\ In(q, b))
        /\ Covers(Subtract(L.shared, q), o, b) <=> Covers(L.shared, o, b) /\ ~(o = q.owner /\ In(q, b))
  BY <1>1, SubtractCovers
<1>7. AllMerged(L) => (covered <=> Whole(L, q))
  BY <1>1, WholeIff DEF AllMerged, Whole
<1> HIDE DEF U, covered
<1>8. ASSUME AllMerged(L), NEW o, NEW b \in Bytes
      PROVE  Covers(U.shared, o, b) <=>
               Covers(L.shared, o, b) /\ ~(o = q.owner /\ In(q, b) /\ ~Whole(L, q))
  <2>1. CASE covered
    BY <1>2, <1>7, <1>8, <2>1
  <2>2. CASE ~covered
    BY <1>2, <1>6, <1>7, <1>8, <2>2
  <2> QED BY <2>1, <2>2
<1>9. Grows(U, L)
  <2>1. CASE covered
    BY <1>2, <1>6, <2>1 DEF Grows
  <2>2. CASE ~covered
    BY <1>2, <1>6, <2>2 DEF Grows
  <2> QED BY <2>1, <2>2
<1>10. Separated(L.shared) => Separated(U.shared)
  BY <1>2, <1>5
<1>11. Separated(L.excl) => Separated(U.excl)
  BY <1>2, <1>5
<1>12. \A o : \A b \in Bytes :
         Covers(U.excl, o, b) <=> Covers(L.excl, o, b) /\ ~(o = q.owner /\ In(q, b))
  BY <1>2, <1>6
<1> QED BY <1>2, <1>4, <1>8, <1>9, <1>10, <1>11, <1>12 DEF U

-----------------------------------------------------------------------------
(* flockRangeTryNextWaiters                                                *)

\* One iteration of the loop, after those of f
WaiterStep(L, f, i) ==
  IF i = 0 THEN [locks |-> NoWaiters(L), granted |-> {}]
  ELSE TryWaiter(f[i - 1], AllWaiters(L)[i])

\* f is what the loop has done after each of its first n iterations.
IsWaiterLoop(f, L, n) == f = [i \in 0..n |-> WaiterStep(L, f, i)]

\* The recursion defines a function.
LEMMA WaiterLoopExists ==
  ASSUME NEW L, NEW n \in Nat
  PROVE  \E f : IsWaiterLoop(f, L, n)
<1> DEFINE Bad == {m \in Nat : ~\E f : IsWaiterLoop(f, L, m)}
<1> SUFFICES ASSUME Bad # {} PROVE FALSE
  OBVIOUS
<1>1. PICK m \in Bad : \A k \in Bad : m <= k
  <2>1. Bad \in SUBSET Nat
    OBVIOUS
  <2> HIDE DEF Bad
  <2> QED BY <2>1, LeastNat
<1>2. CASE m = 0
  <2> DEFINE f == [i \in 0..0 |-> [locks |-> NoWaiters(L), granted |-> {}]]
  <2>1. IsWaiterLoop(f, L, 0)
    BY DEF IsWaiterLoop, WaiterStep
  <2> QED BY <1>2, <2>1, <1>1
<1>3. CASE m # 0
  <2>1. m \in Nat /\ m - 1 \in Nat /\ m - 1 \notin Bad
    BY <1>1, <1>3
  <2>2. PICK f : IsWaiterLoop(f, L, m - 1)
    BY <2>1
  <2> DEFINE g == [i \in 0..m |-> IF i = m THEN WaiterStep(L, f, m) ELSE f[i]]
  <2>3. \A i \in 0..m : WaiterStep(L, g, i) = WaiterStep(L, f, i)
    <3> SUFFICES ASSUME NEW i \in 0..m
                 PROVE  WaiterStep(L, g, i) = WaiterStep(L, f, i)
      OBVIOUS
    <3>1. i # 0 => i - 1 \in 0..m /\ i - 1 # m
      BY <2>1
    <3>2. i # 0 => g[i - 1] = f[i - 1]
      BY <3>1
    <3> QED BY <3>2 DEF WaiterStep
  <2>4. \A i \in 0..m : g[i] = WaiterStep(L, f, i)
    <3> SUFFICES ASSUME NEW i \in 0..m PROVE g[i] = WaiterStep(L, f, i)
      OBVIOUS
    <3>1. i # m => i \in 0..(m - 1)
      BY <2>1
    <3>2. i # m => f[i] = WaiterStep(L, f, i)
      BY <2>2, <3>1, Zenon DEF IsWaiterLoop
    <3> QED BY <3>2
  <2>5. g = [i \in 0..m |-> WaiterStep(L, g, i)]
    <3> HIDE DEF g
    <3>1. g = [i \in 0..m |-> g[i]]
      BY DEF g
    <3> QED BY <3>1, <2>3, <2>4
  <2>6. IsWaiterLoop(g, L, m)
    BY <2>5 DEF IsWaiterLoop
  <2> QED BY <1>1, <2>6
<1> QED BY <1>2, <1>3

\* TryNextWaiters is what the loop has done at its end.
LEMMA TryNextWaitersIsLoop ==
  ASSUME NEW L, Len(AllWaiters(L)) \in Nat
  PROVE  \E f : /\ IsWaiterLoop(f, L, Len(AllWaiters(L)))
                /\ TryNextWaiters(L) = f[Len(AllWaiters(L))]
<1> DEFINE f == CHOOSE f : IsWaiterLoop(f, L, Len(AllWaiters(L)))
<1>1. IsWaiterLoop(f, L, Len(AllWaiters(L)))
  BY WaiterLoopExists
<1>2. TryNextWaiters(L) = f[Len(AllWaiters(L))]
  BY Zenon DEF TryNextWaiters, IsWaiterLoop, WaiterStep
<1> QED BY <1>1, <1>2

Accs == [locks : LockStates, granted : SUBSET Grants]

\* An iteration keeps the types and the ranges merged, and no waiter that it keeps waits
\* needlessly.
LEMMA TryWaiterServed ==
  ASSUME NEW acc \in Accs, NEW q \in Requests, Served(acc.locks)
  PROVE  /\ TryWaiter(acc, q) \in Accs /\ Served(TryWaiter(acc, q).locks)
         /\ AllMerged(acc.locks) => AllMerged(TryWaiter(acc, q).locks)
<1> DEFINE L == acc.locks
           C == CheckConflicts(L, q, L.waitersExcl)
<1>1. acc = [locks |-> L, granted |-> acc.granted] /\ L \in LockStates /\ acc.granted \in SUBSET Grants
  BY DEF Accs
<1>2. TryWaiter(acc, q) = IF C THEN [locks |-> Enqueue(L, q), granted |-> acc.granted]
                          ELSE [locks |-> Grant(L, q),
                                granted |-> acc.granted \cup {Granted(L, q)}]
  BY <1>1 DEF TryWaiter
<1>3. /\ Enqueue(L, q) \in LockStates /\ (C => Served(Enqueue(L, q)))
      /\ AllMerged(L) => AllMerged(Enqueue(L, q))
  BY <1>1, EnqueueFacts, EnqueueServed DEF AllMerged
<1>4. /\ Grant(L, q) \in LockStates /\ Granted(L, q) \in Grants /\ Served(Grant(L, q))
      /\ AllMerged(L) => AllMerged(Grant(L, q))
  BY <1>1, GrantFacts, GrantServed DEF AllMerged
<1> HIDE DEF L, C
<1>5. CASE C
  BY <1>1, <1>2, <1>3, <1>5 DEF Accs, L
<1>6. CASE ~C
  BY <1>1, <1>2, <1>4, <1>6 DEF Accs, L
<1> QED BY <1>5, <1>6

\* The waiters of both queues
LEMMA AllWaitersFacts ==
  ASSUME NEW L \in LockStates
  PROVE  AllWaiters(L) \in Seq(Requests)
BY DEF LockStates, AllWaiters

\* flockRangeCancelAllWaiters
LEMMA NoWaitersFacts ==
  ASSUME NEW L \in LockStates
  PROVE  /\ NoWaiters(L) \in LockStates
         /\ NoWaiters(L).excl = L.excl /\ NoWaiters(L).shared = L.shared
         /\ NoWaiters(L).waitersExcl = <<>> /\ NoWaiters(L).waitersShared = <<>>
<1> DEFINE none == <<>>
<1>1. none \in Seq(Requests)
  OBVIOUS
<1>2. NoWaiters(L) = [L EXCEPT !.waitersExcl = none, !.waitersShared = none]
  BY DEF NoWaiters
<1> HIDE DEF none
<1>3. L = [excl |-> L.excl, shared |-> L.shared,
           waitersExcl |-> L.waitersExcl, waitersShared |-> L.waitersShared]
  BY DEF LockStates
<1>4. NoWaiters(L) = [excl |-> L.excl, shared |-> L.shared,
                      waitersExcl |-> none, waitersShared |-> none]
  BY <1>2, <1>3
<1>5. L.excl \in SUBSET Ranges /\ L.shared \in SUBSET Ranges
  BY DEF LockStates
<1> QED BY <1>1, <1>4, <1>5 DEF LockStates, none

\* f is a run of the loop over the waiters of L, in which no waiter that was looked at waits
\* needlessly, and the ranges stay merged.
WaiterRun(f, L) ==
  LET w == AllWaiters(L)
  IN /\ f[0] = [locks |-> NoWaiters(L), granted |-> {}]
     /\ \A i \in DOMAIN w : f[i] = TryWaiter(f[i - 1], w[i])
     /\ \A i \in 0..Len(w) :
          /\ f[i] \in Accs /\ Served(f[i].locks)
          /\ AllMerged(L) => AllMerged(f[i].locks)

\* The loop has such a run.
LEMMA TryNextWaitersRun ==
  ASSUME NEW L \in LockStates
  PROVE  \E f : WaiterRun(f, L) /\ TryNextWaiters(L) = f[Len(AllWaiters(L))]
<1> DEFINE w == AllWaiters(L)
<1>1. w \in Seq(Requests)
  BY AllWaitersFacts
<1>2. DOMAIN w = 1..Len(w) /\ Len(w) \in Nat /\ \A k \in DOMAIN w : w[k] \in Requests
  BY <1>1, SeqElements
<1>3. PICK f : IsWaiterLoop(f, L, Len(w)) /\ TryNextWaiters(L) = f[Len(w)]
  BY <1>2, TryNextWaitersIsLoop
<1>4. \A i \in 0..Len(w) : f[i] = WaiterStep(L, f, i)
  BY <1>3, Zenon DEF IsWaiterLoop
<1> HIDE DEF w
<1>5. f[0] = [locks |-> NoWaiters(L), granted |-> {}]
  <2>1. 0 \in 0..Len(w)
    BY <1>2
  <2>2. f[0] = WaiterStep(L, f, 0)
    BY <1>4, <2>1
  <2> QED BY <2>2, Zenon DEF WaiterStep
<1>6. \A i \in DOMAIN w : f[i] = TryWaiter(f[i - 1], w[i])
  <2> SUFFICES ASSUME NEW i \in DOMAIN w PROVE f[i] = TryWaiter(f[i - 1], w[i])
    OBVIOUS
  <2>1. i \in 0..Len(w) /\ i # 0
    BY <1>2
  <2> QED BY <1>4, <2>1 DEF WaiterStep, w
<1> DEFINE P(n) == /\ f[n] \in Accs /\ Served(f[n].locks)
                   /\ AllMerged(L) => AllMerged(f[n].locks)
           Bad == {n \in Nat : n <= Len(w) /\ ~P(n)}
<1>7. P(0)
  <2> DEFINE N == NoWaiters(L)
  <2>1. /\ N \in LockStates /\ N.excl = L.excl /\ N.shared = L.shared
        /\ N.waitersExcl = <<>> /\ N.waitersShared = <<>>
    BY NoWaitersFacts
  <2> HIDE DEF N
  <2>2. DOMAIN N.waitersExcl = {} /\ DOMAIN N.waitersShared = {}
    BY <2>1
  <2>3. Served(N)
    BY <2>2 DEF Served
  <2>5. AllMerged(L) => AllMerged(N)
    BY <2>1 DEF AllMerged
  <2>7. f[0] = [locks |-> N, granted |-> {}]
    BY <1>5 DEF N
  <2>8. f[0] \in Accs /\ f[0].locks = N
    BY <2>1, <2>7 DEF Accs
  <2> QED BY <2>3, <2>5, <2>8
<1>8. ASSUME NEW i \in DOMAIN w, P(i - 1) PROVE P(i)
  <2>1. w[i] \in Requests /\ f[i] = TryWaiter(f[i - 1], w[i])
    BY <1>2, <1>6
  <2> QED BY <1>8, <2>1, TryWaiterServed
<1> HIDE DEF P
<1>9. Bad = {}
  <2> SUFFICES ASSUME Bad # {} PROVE FALSE
    OBVIOUS
  <2>1. PICK n \in Bad : \A m \in Bad : n <= m
    <3>1. Bad \in SUBSET Nat
      OBVIOUS
    <3> HIDE DEF Bad
    <3> QED BY <3>1, LeastNat
  <2>2. n # 0 /\ n \in Nat /\ n <= Len(w) /\ ~P(n)
    BY <1>7, <2>1
  <2>3. n \in DOMAIN w /\ n - 1 \in Nat /\ n - 1 <= Len(w) /\ ~(n <= n - 1)
    BY <1>2, <2>2
  <2>4. P(n - 1)
    BY <2>1, <2>3
  <2> QED BY <1>8, <2>2, <2>3, <2>4
<1>10. \A i \in 0..Len(w) : P(i)
  BY <1>2, <1>9
<1>11. WaiterRun(f, L)
  BY <1>5, <1>6, <1>10 DEF P, WaiterRun, w
<1> QED BY <1>3, <1>11 DEF w

\* After the loop no one waits needlessly, and the ranges are still merged.
LEMMA TryNextWaitersFacts ==
  ASSUME NEW L \in LockStates
  PROVE  /\ TryNextWaiters(L) \in Accs /\ Served(TryNextWaiters(L).locks)
         /\ AllMerged(L) => AllMerged(TryNextWaiters(L).locks)
<1>1. PICK f : WaiterRun(f, L) /\ TryNextWaiters(L) = f[Len(AllWaiters(L))]
  BY TryNextWaitersRun
<1>2. Len(AllWaiters(L)) \in 0..Len(AllWaiters(L))
  BY AllWaitersFacts
<1> QED BY <1>1, <1>2 DEF WaiterRun

-----------------------------------------------------------------------------
(* The inductive invariant                                                 *)

Safe(L) == Served(L) /\ AllMerged(L)

IInv == TypeOK /\ Safe(Locks)

\* The locks are a record of their fields.
LEMMA LocksType ==
  ASSUME TypeOK
  PROVE  Locks \in LockStates
BY DEF TypeOK, Locks, LockStates

\* The variables are assigned from a record.
LEMMA SetFacts ==
  ASSUME NEW M, M \in LockStates, Set(M), works' \in Seq(Works)
  PROVE  TypeOK' /\ Locks' = M
<1>1. /\ M.excl \in SUBSET Ranges /\ M.shared \in SUBSET Ranges
      /\ M.waitersExcl \in Seq(Requests) /\ M.waitersShared \in Seq(Requests)
  BY DEF LockStates
<1>2. TypeOK'
  BY <1>1 DEF Set, TypeOK
<1>3. M = [excl |-> M.excl, shared |-> M.shared,
           waitersExcl |-> M.waitersExcl, waitersShared |-> M.waitersShared]
  BY DEF LockStates
<1>4. Locks' = [excl |-> excl', shared |-> shared',
                waitersExcl |-> waitersExcl', waitersShared |-> waitersShared']
  BY DEF Locks
<1>5. Locks' = M
  BY <1>3, <1>4 DEF Set
<1> QED BY <1>2, <1>5

\* An operation on the locks, and the grants that follow when it has removed something
LEMMA InstallSafe ==
  ASSUME TypeOK, NEW L, L \in LockStates, NEW removed \in BOOLEAN, NEW tell \in BOOLEAN,
         Install(L, removed, tell),
         removed \/ Served(L), AllMerged(L)
  PROVE  TypeOK' /\ Safe(Locks')
<1>1. works \in Seq(Works)
  BY DEF TypeOK
<1>2. CASE removed
  <2> DEFINE n == TryNextWaiters(L)
             e == [todo |-> n.granted, undo |-> FALSE, many |-> FALSE]
  <2>1. /\ n \in Accs /\ Served(n.locks)
        /\ AllMerged(L) => AllMerged(n.locks)
    BY TryNextWaitersFacts
  <2>2. Set(n.locks) /\ works' = IF tell /\ n.granted # {} THEN Append(works, e) ELSE works
    BY <1>2 DEF Install
  <2> HIDE DEF n
  <2>3. n.locks \in LockStates /\ n.granted \in SUBSET Grants
    BY <2>1 DEF Accs
  <2>4. n.granted # {} => e \in Works
    BY <2>3 DEF Works
  <2> HIDE DEF e
  <2>5. works' \in Seq(Works)
    BY <1>1, <2>2, <2>4
  <2>6. TypeOK' /\ Locks' = n.locks
    BY <2>2, <2>3, <2>5, SetFacts
  <2> QED BY <2>1, <2>6 DEF Safe
<1>3. CASE ~removed
  <2>1. Set(L) /\ works' = works
    BY <1>3 DEF Install
  <2>2. TypeOK' /\ Locks' = L
    BY <1>1, <2>1, SetFacts
  <2> QED BY <1>3, <2>2 DEF Safe
<1> QED BY <1>2, <1>3

\* A request is granted, waits, or is refused.
LEMMA LockSafe ==
  ASSUME IInv, NEW q \in Requests, NEW wait \in BOOLEAN, Lock(q, wait)
  PROVE  TypeOK' /\ Safe(Locks')
<1> DEFINE U == Unlock(Locks, q)
           C == CheckConflicts(Locks, q, waitersExcl)
           removed == U # Locks
<1>1. TypeOK /\ Locks \in LockStates /\ Span(q) /\ Served(Locks) /\ waitersExcl = Locks.waitersExcl
  BY LocksType, RangeSpan DEF IInv, Safe, Locks
<1>2. U \in LockStates /\ U.waitersExcl = Locks.waitersExcl /\ U.waitersShared = Locks.waitersShared
  BY <1>1, UnlockFacts
<1>3. AllMerged(U)
  BY <1>1, UnlockFacts DEF IInv, Safe, AllMerged
<1>4. AllMerged(Grant(U, q)) /\ AllMerged(Enqueue(U, q))
  BY <1>2, <1>3, GrantFacts, EnqueueFacts DEF AllMerged
<1>5. Grant(U, q) \in LockStates /\ Enqueue(U, q) \in LockStates
  BY <1>2, GrantFacts, EnqueueFacts
<1>6. removed \/ Served(Grant(U, q))
  BY <1>1, GrantServed
<1>7. C => removed \/ Served(Enqueue(U, q))
  BY <1>1, EnqueueServed
<1>8. CASE ~C
  <2>1. Install(Grant(U, q), removed, TRUE)
    BY <1>8 DEF Lock
  <2> HIDE DEF removed
  <2>2. removed \in BOOLEAN
    BY DEF removed
  <2> HIDE DEF U, C
  <2> QED BY <1>1, <1>4, <1>5, <1>6, <2>1, <2>2, InstallSafe
<1>9. CASE C /\ wait
  <2>1. Install(Enqueue(U, q), removed, TRUE)
    BY <1>9 DEF Lock
  <2>2. removed \in BOOLEAN
    OBVIOUS
  <2> HIDE DEF U, C, removed
  <2> QED BY <1>1, <1>4, <1>5, <1>7, <1>9, <2>1, <2>2, InstallSafe
<1>10. CASE C /\ ~wait
  <2>1. UNCHANGED vars
    BY <1>10 DEF Lock
  <2>2. TypeOK' /\ Locks' = Locks
    BY <1>1, <2>1 DEF vars, TypeOK, Locks
  <2> QED BY <2>2 DEF IInv
<1> QED BY <1>8, <1>9, <1>10

\* A range is unlocked.
LEMMA UnlockRangeSafe ==
  ASSUME IInv, NEW r \in Ranges, UnlockRange(r)
  PROVE  TypeOK' /\ Safe(Locks')
<1>1. TypeOK /\ Locks \in LockStates /\ Span(r)
  BY LocksType, RangeSpan DEF IInv
<1>2. Unlock(Locks, r) \in LockStates
  BY <1>1, UnlockFacts
<1>3. AllMerged(Unlock(Locks, r))
  BY <1>1, UnlockFacts DEF IInv, Safe, AllMerged
<1>4. Install(Unlock(Locks, r), TRUE, TRUE)
  BY DEF UnlockRange
<1> QED BY <1>1, <1>2, <1>3, <1>4, InstallSafe

\* The locks without those of owner o
LEMMA CancelFacts ==
  ASSUME TypeOK, NEW o \in Owners
  PROVE  /\ CancelLocks(o) \in LockStates
         /\ CancelLocks(o).excl = {r \in excl : r.owner # o}
         /\ CancelLocks(o).shared = {r \in shared : r.owner # o}
         /\ ToSet(CancelLocks(o).waitersExcl) = {q \in ToSet(waitersExcl) : q.owner # o}
         /\ ToSet(CancelLocks(o).waitersShared) = {q \in ToSet(waitersShared) : q.owner # o}
         /\ AllMerged(Locks) => AllMerged(CancelLocks(o))
<1> DEFINE C == CancelLocks(o)
           x == Dequeued(waitersExcl, {q \in ToSet(waitersExcl) : q.owner = o})
           s == Dequeued(waitersShared, {q \in ToSet(waitersShared) : q.owner = o})
<1>1. /\ TypeOK /\ waitersExcl \in Seq(Requests) /\ waitersShared \in Seq(Requests)
      /\ excl \in SUBSET Ranges /\ shared \in SUBSET Ranges
  BY DEF TypeOK
<1>2. /\ C = [excl |-> {r \in excl : r.owner # o}, shared |-> {r \in shared : r.owner # o},
              waitersExcl |-> x, waitersShared |-> s]
  BY Zenon DEF CancelLocks
<1>3. x \in Seq(Requests)
  BY <1>1, DequeuedPicks
<1>4. s \in Seq(Requests)
  BY <1>1, DequeuedPicks
<1>5. /\ ToSet(x) = {q \in ToSet(waitersExcl) : q.owner # o}
      /\ ToSet(s) = {q \in ToSet(waitersShared) : q.owner # o}
  BY <1>1, DequeuedElements
<1> HIDE DEF C, x, s
<1>6. C \in LockStates
  BY <1>1, <1>2, <1>3, <1>4 DEF LockStates
<1>7. /\ C.excl \subseteq Locks.excl /\ C.shared \subseteq Locks.shared
      /\ C.waitersExcl = x /\ C.waitersShared = s
      /\ Locks.waitersExcl = waitersExcl /\ Locks.waitersShared = waitersShared
  BY <1>2 DEF Locks
<1>8. AllMerged(Locks) => AllMerged(C)
  BY <1>7 DEF AllMerged, Separated
<1> QED BY <1>2, <1>5, <1>6, <1>7, <1>8 DEF C

\* An owner closes the file.
LEMMA CancelRangeSafe ==
  ASSUME IInv, NEW o \in Owners, CancelRange(o)
  PROVE  TypeOK' /\ Safe(Locks')
<1>1. /\ TypeOK /\ CancelLocks(o) \in LockStates
      /\ AllMerged(Locks) => AllMerged(CancelLocks(o))
  BY CancelFacts DEF IInv
<1>2. Install(CancelLocks(o), TRUE, TRUE)
  BY DEF CancelRange
<1> QED BY <1>1, <1>2, InstallSafe DEF IInv, Safe

\* The lists of grants of the works
LEMMA WorkFacts ==
  ASSUME TypeOK, NEW i \in DOMAIN works
  PROVE  /\ works \in Seq(Works) /\ RemoveAt(works, i) \in Seq(Works)
         /\ works[i] \in Works
         /\ \A g \in works[i].todo : /\ g \in Grants
                                     /\ works[i].todo = {g} \/ works[i].todo \ {g} # {}
         /\ \A e \in Works : [works EXCEPT ![i] = e] \in Seq(Works)
<1>1. works \in Seq(Works)
  BY DEF TypeOK
<1>2. works[i] \in Works /\ RemoveAt(works, i) \in Seq(Works)
  BY <1>1, SeqElements, RemoveAtType
<1>3. \A e \in Works : [works EXCEPT ![i] = e] \in Seq(Works)
  BY <1>1, SeqExcept
<1> QED BY <1>1, <1>2, <1>3 DEF Works

\* An ack arrives.
LEMMA AcknowledgedSafe ==
  ASSUME IInv, NEW i \in DOMAIN works, NEW g \in works[i].todo, Acknowledged(i, g)
  PROVE  TypeOK' /\ Safe(Locks')
<1> DEFINE e == [works[i] EXCEPT !.todo = @ \ {g}]
<1>1. works' = IF works[i].todo = {g} THEN RemoveAt(works, i) ELSE [works EXCEPT ![i] = e]
  BY DEF Acknowledged
<1>2. works[i].todo # {g} => e \in Works
  BY WorkFacts DEF IInv, Works
<1>3. works' \in Seq(Works)
  BY <1>1, <1>2, WorkFacts DEF IInv
<1>4. Locks' = Locks
  BY DEF Acknowledged, Locks
<1>5. TypeOK'
  BY <1>3 DEF Acknowledged, IInv, TypeOK
<1> QED BY <1>4, <1>5 DEF IInv

\* Acks are missing.
LEMMA AcksMissingSafe ==
  ASSUME IInv, NEW i \in DOMAIN works, AcksMissing(i)
  PROVE  TypeOK' /\ Safe(Locks')
<1> DEFINE m == Cardinality(works[i].todo) > 1
           e == [works[i] EXCEPT !.undo = TRUE, !.many = m]
<1>1. works' = [works EXCEPT ![i] = e]
  BY DEF AcksMissing
<1>2. m \in BOOLEAN
  OBVIOUS
<1> HIDE DEF m
<1>3. e \in Works
  BY <1>2, WorkFacts DEF IInv, Works, AcksMissing
<1>4. works' \in Seq(Works)
  BY <1>1, <1>3, WorkFacts DEF IInv
<1>5. Locks' = Locks
  BY DEF AcksMissing, Locks
<1>6. TypeOK'
  BY <1>4 DEF AcksMissing, IInv, TypeOK
<1> QED BY <1>5, <1>6 DEF IInv

\* A lock without an ack is unlocked.
LEMMA UnlockWaiterSafe ==
  ASSUME IInv, NEW i \in DOMAIN works, NEW g \in works[i].todo, UnlockWaiter(i, g)
  PROVE  TypeOK' /\ Safe(Locks')
<1> DEFINE L == Unlock(Locks, g)
           M == IF L # Locks THEN TryNextWaiters(L).locks ELSE L
           e == [works[i] EXCEPT !.todo = @ \ {g}]
<1>1. TypeOK /\ Locks \in LockStates /\ Span(g)
  BY LocksType, RangeSpan, WorkFacts DEF IInv
<1>2. L \in LockStates /\ AllMerged(L)
  BY <1>1, UnlockFacts DEF IInv, Safe, AllMerged
<1>3. Set(M)
  BY DEF UnlockWaiter
<1>4. works' = IF works[i].todo = {g} /\ ~works[i].many THEN RemoveAt(works, i)
               ELSE [works EXCEPT ![i] = e]
  BY DEF UnlockWaiter
<1>5. ~(works[i].todo = {g} /\ ~works[i].many) => e \in Works
  BY WorkFacts DEF IInv, Works, UnlockWaiter
<1>6. works' \in Seq(Works)
  BY <1>4, <1>5, WorkFacts DEF IInv
<1>7. M \in LockStates /\ Safe(M)
  <2>1. CASE L = Locks
    BY <1>2, <2>1 DEF IInv, Safe
  <2>2. CASE L # Locks
    <3>1. /\ TryNextWaiters(L) \in Accs /\ Served(TryNextWaiters(L).locks)
          /\ AllMerged(L) => AllMerged(TryNextWaiters(L).locks)
      BY <1>2, TryNextWaitersFacts
    <3>2. M = TryNextWaiters(L).locks
      BY <2>2
    <3> HIDE DEF M, L
    <3>3. M \in LockStates
      BY <3>1, <3>2 DEF Accs
    <3> QED BY <1>2, <3>1, <3>2, <3>3 DEF Safe
  <2> QED BY <2>1, <2>2
<1> HIDE DEF M
<1>8. TypeOK' /\ Locks' = M
  BY <1>3, <1>6, <1>7, SetFacts
<1> QED BY <1>7, <1>8

\* All waiters are told to ask again.
LEMMA CancelAllWaitersSafe ==
  ASSUME IInv, NEW i \in DOMAIN works, CancelAllWaiters(i)
  PROVE  TypeOK' /\ Safe(Locks')
<1> DEFINE N == NoWaiters(Locks)
<1>1. Locks \in LockStates
  BY LocksType DEF IInv
<1>2. /\ N \in LockStates /\ N.excl = Locks.excl /\ N.shared = Locks.shared
      /\ N.waitersExcl = <<>> /\ N.waitersShared = <<>>
  BY <1>1, NoWaitersFacts
<1>3. Set(N) /\ works' = RemoveAt(works, i)
  BY DEF CancelAllWaiters
<1> HIDE DEF N
<1>4. works' \in Seq(Works)
  BY <1>3, WorkFacts DEF IInv
<1>5. DOMAIN N.waitersExcl = {} /\ DOMAIN N.waitersShared = {}
  BY <1>2
<1>6. Served(N)
  BY <1>5 DEF Served
<1>7. AllMerged(Locks) => AllMerged(N)
  BY <1>2 DEF AllMerged
<1>8. TypeOK' /\ Locks' = N
  BY <1>2, <1>3, <1>4, SetFacts
<1> QED BY <1>6, <1>7, <1>8 DEF IInv, Safe

\* Every step keeps the invariant.
LEMMA NextSafe ==
  ASSUME IInv, [Next]_vars
  PROVE  TypeOK' /\ Safe(Locks')
<1>1. ASSUME NEW q \in Requests, NEW wait \in BOOLEAN, Lock(q, wait) PROVE TypeOK' /\ Safe(Locks')
  BY <1>1, LockSafe
<1>2. ASSUME NEW r \in Ranges, UnlockRange(r) PROVE TypeOK' /\ Safe(Locks')
  BY <1>2, UnlockRangeSafe
<1>3. ASSUME NEW o \in Owners, CancelRange(o) PROVE TypeOK' /\ Safe(Locks')
  BY <1>3, CancelRangeSafe
<1>4. ASSUME NEW i \in DOMAIN works, NEW g \in works[i].todo, Acknowledged(i, g)
      PROVE  TypeOK' /\ Safe(Locks')
  BY <1>4, AcknowledgedSafe
<1>5. ASSUME NEW i \in DOMAIN works, NEW g \in works[i].todo, UnlockWaiter(i, g)
      PROVE  TypeOK' /\ Safe(Locks')
  BY <1>5, UnlockWaiterSafe
<1>6. ASSUME NEW i \in DOMAIN works, AcksMissing(i) PROVE TypeOK' /\ Safe(Locks')
  BY <1>6, AcksMissingSafe
<1>7. ASSUME NEW i \in DOMAIN works, CancelAllWaiters(i) PROVE TypeOK' /\ Safe(Locks')
  BY <1>7, CancelAllWaitersSafe
<1>8. ASSUME UNCHANGED vars PROVE TypeOK' /\ Safe(Locks')
  <2>1. TypeOK' /\ Locks' = Locks
    BY <1>8 DEF IInv, vars, TypeOK, Locks
  <2> QED BY <2>1 DEF IInv
<1> QED BY <1>1, <1>2, <1>3, <1>4, <1>5, <1>6, <1>7, <1>8 DEF Next

\* Nothing is locked at first.
LEMMA InitSafe ==
  ASSUME Init
  PROVE  IInv
<1>1. TypeOK
  BY DEF Init, TypeOK
<1>2. Locks.excl = {} /\ Locks.shared = {} /\ Locks.waitersExcl = <<>> /\ Locks.waitersShared = <<>>
  BY DEF Init, Locks
<1>3. DOMAIN Locks.waitersExcl = {} /\ DOMAIN Locks.waitersShared = {}
  BY <1>2
<1> HIDE DEF Locks
<1>4. Served(Locks) /\ AllMerged(Locks)
  BY <1>2, <1>3 DEF Served, AllMerged, Separated
<1> QED BY <1>1, <1>4 DEF IInv, Safe

\* The invariant holds in every state.
LEMMA Invariance == Spec => []IInv
<1>1. Init => IInv
  BY InitSafe
<1>2. IInv /\ [Next]_vars => IInv'
  BY NextSafe DEF IInv
<1> QED BY <1>1, <1>2, PTL DEF Spec

\* No range is empty or leaves the file, however ranges are merged, trimmed and split, and a
\* work with nothing left to unlock only cancels the waiters.
THEOREM TypeCorrect == Spec => []TypeOK
<1>1. IInv => TypeOK
  BY DEF IInv
<1> QED BY <1>1, Invariance, PTL

\* No wake-up is lost (flockRangeTryNextWaiters), for any number of owners, bytes, waiters
\* and works.
THEOREM NobodyWaitsNeedlessly == Spec => []NoNeedlessWait
<1>1. IInv => NoNeedlessWait
  BY DEF IInv, Safe, Served, NoNeedlessWait, Locks
<1> QED BY <1>1, Invariance, PTL

\* Ranges that are merged, trimmed and split piece by piece never become adjacent: "otherwise
\* we wouldn't find a partial match because of our merging" (flockRangeIsGranted), for any
\* number of owners, bytes, waiters and works.
THEOREM RangesStayMerged == Spec => []RangesMerged
<1>1. IInv => RangesMerged
  BY DEF IInv, Safe, AllMerged, Separated, RangesMerged, Locks
<1> QED BY <1>1, Invariance, PTL
=============================================================================
