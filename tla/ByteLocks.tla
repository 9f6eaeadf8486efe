----------------------------- MODULE ByteLocks ------------------------------
(***************************************************************************)
(* What the byte-range locks of a file amount to: a set of byte locks,     *)
(* each of a byte, in a mode, by an owner. A request is served or waits as *)
(* a whole, it changes only its owner's bytes in its range, and what       *)
(* others gain in the same step is what they were waiting for.             *)
(*                                                                         *)
(* An owner may have a byte in both modes: what it waits for is given to   *)
(* it whatever it has locked in the meantime.                              *)
(***************************************************************************)
EXTENDS Naturals

CONSTANTS
  Owners,
  MaxByte        \* bytes are 0..MaxByte

VARIABLES
  lock,          \* the byte locks
  wanted         \* requests that wait

Bytes == 0..MaxByte
Modes == {"shared", "excl"}
Requests == {r \in [owner : Owners, mode : Modes, start : Bytes, end : Bytes] :
               r.start <= r.end}

\* No byte is locked exclusively by one owner and in any mode by another.
Compatible(locks) ==
  \A k, l \in locks :
    k.byte = l.byte /\ k.owner # l.owner => k.mode = "shared" /\ l.mode = "shared"

\* What a request asks for
Asked(r) == [owner : {r.owner}, byte : {b \in Bytes : r.start <= b /\ b <= r.end}, mode : {r.mode}]

\* What an unlock of owner o's range start..end leaves. A range that is locked
\* exclusively as a whole loses its exclusive locks only.
Cleared(o, start, end) ==
  LET own == {k \in lock : k.owner = o /\ start <= k.byte /\ k.byte <= end}
      exclusive == {k \in own : k.mode = "excl"}
      whole == \A b \in Bytes : start <= b /\ b <= end => \E k \in exclusive : k.byte = b
  IN lock \ (IF whole THEN exclusive ELSE own)

\* The owner's request makes the byte locks what is given, and some of those waiting get
\* what they asked for. The others go on waiting, also those that ask for the same.
Change(locks, waiting) ==
  /\ locks \subseteq lock' /\ wanted' \subseteq waiting
  /\ \E granted \in SUBSET waiting :
       /\ waiting \ wanted' \subseteq granted
       /\ lock' = locks \cup UNION {Asked(r) : r \in granted}
  /\ Compatible(lock')

Init == lock = {} /\ wanted = {}

\* A request is granted at once.
Lock(r) == Change(Cleared(r.owner, r.start, r.end) \cup Asked(r), wanted)

\* A request waits, without the locks it would convert.
Wait(r) == Change(Cleared(r.owner, r.start, r.end), wanted \cup {r})

\* Some bytes of an owner are unlocked.
Unlock(o, start, end) == Change(Cleared(o, start, end), wanted)

\* An owner closes the file: it holds nothing and waits for nothing.
Cancel(o) == Change({k \in lock : k.owner # o}, {r \in wanted : r.owner # o})

\* All waiters are told to ask again.
CancelAllWaiters == wanted' = {} /\ UNCHANGED lock

Next ==
  \/ \E r \in Requests : Lock(r) \/ Wait(r)
  \/ \E o \in Owners, start, end \in Bytes : Unlock(o, start, end)
  \/ \E o \in Owners : Cancel(o)
  \/ CancelAllWaiters

Spec == Init /\ [][Next]_<<lock, wanted>>
=============================================================================
