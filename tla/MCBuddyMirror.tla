--------------------------- MODULE MCBuddyMirror ---------------------------
(* BuddyMirror with one or two writes, with both servers up at first (Spec)*)
(* or with the secondary stopped (FairSpec).                               *)
EXTENDS BuddyMirror

CONSTANTS w1, w2

OneWrite  == {w1}
TwoWrites == {w1, w2}

\* B is down at first: what it misses, its start and its resync come before any
\* fault, and with no write until B is up again this is Init's group.
FairSpec == InitWith({A}) /\ [][Next]_vars /\ Fairness

\* A server crashes only while both targets are GOOD to everyone. A primary that
\* crashes before its buddy is GOOD leaves two targets that need a resync, which
\* is for an administrator to resolve (ctl ModeSetState::printHelp).
CrashWhenGood ==
  \A t \in Targets : srv[t] # "down" /\ srv'[t] = "down" /\ ~session'[t] =>
    \A u \in Targets :
      /\ srv[u] = "up"
      /\ "NEEDS_RESYNC" \notin {cons[u], local[u], new[u], got[A].cons[u], got[B].cons[u]}
=============================================================================
