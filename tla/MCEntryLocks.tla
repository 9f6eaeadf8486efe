---------------------------- MODULE MCEntryLocks ----------------------------
(* EntryLocks with three open files of two clients, or two of one each.    *)
EXTENDS EntryLocks

CONSTANTS h1, h2, h3

MCHandles == {h1, h2, h3}
MCClients == {{h1, h2}, {h3}}
TwoHandles == {h1, h2}
TwoClients == {{h1}, {h2}}
=============================================================================
