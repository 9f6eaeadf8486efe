# CongFS in TLA+

CongFS (a BeeGFS derivative) is a parallel file system. A management daemon
(`src/mgmtd`) knows every node, target and buddy group; metadata servers
(`src/meta`) keep names, inodes and locks; storage servers (`src/storage`) keep
chunks; a kernel client (`src/client_module`) talks to all of them; tools
(`src/fsck`, `src/ctl`, `src/mon`, ...) sit beside. `src/common` has the message,
thread and store code the daemons share.

Three things in such a system are hard to get right and hard to test, and are
modelled here:

* high availability of storage: two buddies keep the same chunks, the management
  daemon decides from silence who is dead and who takes over, and a buddy that
  missed something is resynchronised while writes go on;
* mirrored metadata: a request is repeated after a timeout or a switchover, and
  must neither be lost nor take effect twice;
* file locks: queues of waiters on the server, whose grants travel by datagrams to
  clients that may have been interrupted, closed the file or disappeared.

## 1. Inventory

| Component | State it keeps | Operations | Talks to | Hard behaviour | What makes it correct |
|---|---|---|---|---|---|
| mgmtd target states and switchover (`MgmtdTargetStateStore`, `MirrorBuddyGroupMapperEx`, `InternodeSyncer`, `App`) | reachability, consistency, last report of each target; primary and secondary of each group; two files | reports (`SetTargetConsistencyStates`, `ChangeTargetConsistencyStates`), auto-offline, find/resolve primary resync, switchover, save, load, shutdown | servers and clients download its state | handlers against the syncer thread; response before save; crash between; clocks after a restart | members of a group never change; accepted states survive; no switch before a report; a primary that needs a resync is replaced |
| mgmtd buddy group mapping (`MirrorBuddyGroupMapper`) | groups, local group, storage pools | map, unmap, new ID, lookups | target mapper, pools | check, release, insert; wrap-around of the ID | a target is in one group |
| storage server state protocol (`StorageTarget(s)`, `InternodeSyncer`) | consistency state, offline timeout, buddy-needs-resync file, retry entry, downloaded view | download, decide, publish, check, retry, start, stop | mgmtd | decides from a stale download; lost requests and lost answers; restart with half-told state | a divergence is never forgotten |
| storage buddy resync (`BuddyResyncer`, `BuddyResyncJob`, gatherers, sync slaves) | one job per primary target, candidates, errors | start, barrier, gather, copy, abort, verdict, inform | the buddy, mgmtd | chunks change while they are compared | what a GOOD secondary holds equals the primary's chunks |
| storage write mirroring (`WriteLocalFileMsgEx`, ...) | sessions, open chunk files, progress of a message | write, truncate, unlink, attributes, forwarded | client, buddy | forwarding fails half way; resync in parallel | an acknowledged write is not lost |
| storage chunk locks (`ChunkLockStore`) | locked chunks per target | lock, unlock | write, resync | waiters and wake-ups | mutual exclusion, no lost wake-up |
| storage sessions and chunk store | sessions, references, directory cache | reference, release, remove, store, load | write, resync, shutdown | removal while referenced | no use after removal |
| mgmtd node and target registration | nodes, numeric IDs, target map | register, map, unmap, remove, auto-remove | all daemons | ID exhaustion, concurrent registration | IDs are unique |
| mgmtd capacity and storage pools | pool of each target, group, node | add, remove, move, refresh limits | mapper | two stores updated one after the other | each target in one pool |
| mgmtd quota | usage and limits per ID | collect, sum, push | storage, meta | partial answers | exceeded IDs are those over the limit |
| meta mirrored messages (`MirroredMessage`, `Session`) | response cache by sequence number, entry locks | execute, forward, retry, resync of sessions | client, secondary | retry of what was already done; forgetting a response too early; switchover between execution and answer | each request has its effect once, and what the caller was told stays true |
| meta file and entry locks (`EntryLockStore`, `FileInode` locks) | holders and waiters, pending notifications | lock, unlock, cancel, grant with acknowledgement, take back | client | grant races interrupt and cancel; lost datagrams; merged ranges | no two conflicting holders, no lost wake-up, every call returns |
| meta inodes and directories | inode references, dentries, disposal | create, open, close, unlink, rename | storage, locks | references held across removal | no dentry without inode |
| meta buddy resync and states | as on storage, plus change sets and sessions | as on storage | mgmtd, buddy | as on storage, with operations blocked for a moment | as on storage |
| common threads, queues, connections | work queues, timers, connection pool | enqueue, steal, cancel, acquire, release | everyone | limits, personal queues, cancellation | no lost work, no leaked connection |
| common messages and serialization | none | encode, decode | everyone | | decode inverts encode |
| client module | node stores, caches, retries | VFS operations | servers | retries, caches, signals | |
| fsck, ctl, mon, helperd, event listener | none of the protocol | commands | servers | | |

The code's hazards, at the lines where they bite, are in `PROJECT.json`
("hazards"), each with the properties that would catch it going wrong.

## 2. Modules

    Mgmtd                    abstract daemon: what servers can see of it
      ^        ^
      |        +---- BuddyMirror             two storage servers composed with Mgmtd
      |                 MCBuddyMirror        one or two writes
      |                 BuddyMirrorProofs    acknowledged writes survive one fault
    TargetStates             the daemon with threads, clocks, files and crashes
      MCTargetStates         one group of two targets
      TargetStatesProofs     safety theorems
      TargetStatesRefinement TargetStates implements Mgmtd

    MirroredMessages         requests of a client to two mirrored metadata servers
      MCMirroredMessages     one thread, two requests
      MirroredMessagesProofs requests take effect once, answers stay true
    SequenceNumbers          the client's heap and ring buffer of request numbers

    Queues                   a queue after a loop that takes out what it can
      ^  ^  ^
      |  |  +---- QueueProofs         its lemmas, and induction over lists
      |  EntryLocks            flock locks: queues, grants, acknowledgements, clients
      |    MCEntryLocks        two or three open files
      |    EntryLocksProofs    waiters known, no lost wake-up, writers preferred
      |
      |  ByteLocks             abstract byte-range locks: a table of bytes
      |    ^
    RangeLocks                 fcntl locks as sets of ranges with queues
      MCRangeLocks             two or three processes
      RangeLocksProofs         ranges merged, no lost wake-up
      RangeLocksRefinement     RangeLocks implements ByteLocks

### TargetStates

The daemon in detail. A step is what the code does under one acquisition of its
locks.

* `states`, `groups` are `statesMap` and `mirrorBuddyGroups`; `statesFile` and
  `groupsFile` are their files. `age` is the time since `lastChangedTime`.
* `SetTargetConsistencyStates` and `ChangeTargetConsistencyStates` are the two
  message handlers. Both respond to the sender before they save: the handler is
  counted in `pending` until `HandlerSave`. `lead` is the set of secondaries that
  precede their primary in the message, which decides whether the loop in
  `changeConsistencyStatesFromLists` sees the primary ONLINE already.
* The `InternodeSyncer`'s pass is `AutoOfflineTargets`, `CopyGroups`,
  `FindPrimaryResync`, `ResolvePrimaryResync` (group after group, each under its
  own lock) and `SaveStates`. `CopyGroups` and `FindPrimaryResync` are two steps
  because `findPrimaryResync` releases the mapper's lock in between.
* `SaveTargetMappings` is the periodic save of the groups, the only one besides
  that of the shutdown: a crash falls back to older groups.
* `Shutdown`, `SetPrimariesPOffline`, `Stop`, `Crash` and `Start` are the daemon's
  life cycle. `Start` sets all targets POFFLINE and gives a new timestamp only to
  those that were not POFFLINE; after a reboot of the machine an old timestamp may
  mean any age, because the clock is monotonic and starts again.
* `heard` is a history variable: the targets that have reported themselves since
  the start.

### Mgmtd

What a server can observe of the daemon: reachability, consistency, the primary
of each group and the groups that `findPrimaryResync` has found (`found`). No
clocks, threads or files: reachability falls and groups revert nondeterministically
(`Restart`). `BuddyMirror` uses its actions, and `TargetStates` is shown to
implement it, by TLC (`ImplementsMgmtd` in run `target_states`) and for all
constants by TLAPS. `BuddyMirror` does not use `Restart`: the abstract daemon may
come back with any states, while the detailed one comes back with the consistency
states it has accepted (`AcceptedStatesSaved`) and possibly older groups.

### BuddyMirror

One group of two targets on two servers.

* Storage server: `local` is `consistencyState`, `wait` the offline timeout,
  `flag` the buddy-needs-resync file (`required`, `unacked`), `retry` the queued
  timer entry, `view` its `TargetStateStore` and group mapper, `session` the
  session file of a clean shutdown, `open` open chunk files of mirror sessions.
* `InternodeSyncer` of a server: `DownloadStatesAndBuddyGroups`, `DownloadFails`,
  `SyncStatesAndGroups`, `Decide`, `PublishLocalTargetStateChanges`,
  `CheckBuddyNeedsResync`. What was downloaded (`got`) is used three steps later.
* `BuddyResyncJob`: `ResyncStarted` (the workers' barrier and the buddy's
  `StorageResyncStarted`), `CopyChunk` and `CopyFails` per chunk, `JobVerdict`,
  `JobSetBuddyNeedsResync`, `InformBuddy`, and the ends by failure or abort.
* Write: `WriteStart` at the target the client takes for the primary, with all
  refusals; then the forwarded and the own half in either order (`MirrorWrite`,
  `LocalWrite`), or `WriteFails` and the client's retry. A write is to a chunk of
  its own; a chunk's content is whether the write is in it.
* Requests to the daemon have three outcomes: answered, handled but unanswered,
  lost. Every fault draws on one budget `MaxFaults`.

### MirroredMessages

One client with several threads and one group of two metadata servers
(`MirroredMessage.h`, `Session.h`, `MessagingTk.c`).

* Client: `Start`, `Acquire` (a new sequence number, and the acknowledgement of
  finished ones that travels with the message), `Timeout`, `GiveUp`, and
  `TakeResponse` at every place where a response reaches it. A request is repeated
  with the same number after a communication error, and with a new number after an
  indirect communication error or an `AckNotifyResp`.
* Primary: `ProcessIncoming` is `processIncoming` up to the decision new, repeat or
  stored response, with `acquireMirrorStateSlot(Selective)`; then `ExecuteLocally`,
  `SendToSecondary`, `ForwardFails` and `FinishOperation`. `work[n]` is where a
  worker is with message `n`, and goes on after the client has gone.
* Secondary: `MirrorIncoming` and `MirrorExecute`. A request the primary refused is
  forwarded as `AckNotifyMsg`, whose stored response is `notified`.
* `slots` is `mirrorProcessState`; a slot is absent, empty, or holds a response.
  `applied` counts how often a server has executed a request successfully; that is
  all of the metadata the properties need.
* A crash takes the sessions with it. `PrimaryCrashes` leaves the group to what comes
  next: `Switchover` to a GOOD secondary by the management daemon, or
  `PrimaryRestarts` before that. A restarted primary finds no session file, so it needs
  a resync in its own eyes (`App.cpp:300`), reports nothing during its offline wait
  (`InternodeSyncer.cpp:162`) and is still ONLINE and GOOD for daemon and clients:
  `processIncoming` serves them without the old slots (`primaryState = "waiting"`,
  `Serving`). The wait ends in the switchover or, with no GOOD secondary, in
  `MarkedOffline`: clients send nothing to the group until an administrator acts.
* `SecondaryCrashes`, and a resync with the barrier of the primary's workers, the
  transfer of sessions, and its failure.
* `forgotten` and `exposed` are history variables: the numbers whose slots the primary has
  lost, and the requests that came again to it with such a number, or that it was
  still working on when it was replaced.

`SequenceNumbers` has what `Acquire` abstracts: `seqNoInFlight` as the binary heap it
is, with the loops of `MirrorBuddyGroup_releaseSequenceNumber`, and the ring buffer
of finished numbers. `MirroredMessages` takes the acknowledgement the client intends
(all numbers below the smallest in flight); `SequenceNumbers` shows when the heap
fails to give it.

### EntryLocks

The flock locks of one file, from the call on a client to the queues in `FileInode`
and back. A handle is an open file; a `lockAckID` is the number of a request.

* Server: `lockQs` is the `EntryLockQueuesContainer`. The operators on it are named
  after the functions (`CheckConflicts` for `flockEntryCheckConflicts`, ...).
  `Install` is the common end of unlock, cancel and conversion: when something was
  released, `flockEntryTryNextWaiters` follows in the same step. What its loops leave
  in a queue is `Dequeued` of module `Queues`.
* `works` are the `LockEntryNotificationWork`s: a grant arrives and is acknowledged in
  time, late or not at all; then `UnlockWaiter` takes back each lock without an
  ack, and `CancelAllWaiters` drops the queues when there were several.
* Client: `Request`, `TakeResponse`, `GrantSeen`, `WaitEnds` (timeout or signal),
  `Resend`, `Interrupted`, `RequestInterrupted`, `UnlockEntry`, `Close`. The grant may arrive between
  the end of the wait and `unregisterInterestedAck`. `RemoveClient` is
  `InternodeSyncer::syncClients`.

### RangeLocks and ByteLocks

`RangeLocks` has the sets of exclusive and shared ranges, which are merged with their
owner's neighbours, trimmed and split (`Insert`, `Merged`, `Without`), and the two
queues with the conflict rules of `flockRangeCheckConflictsEx`. A step of an owner may
grant any number of waiters. An owner may ask again while requests of its own wait: a
process may have several threads, and an interrupted `fcntl` returns with its waiter
still queued (`FhgfsOpsRemoting.c:1051`). `ByteLocks` says what the ranges stand for: a set
of byte locks, each with an owner and a mode, in which no two owners conflict. A
request changes only its own bytes; an unlock takes all of them, or, where all of them are
locked exclusively, the exclusive locks only; what a waiter gains is all that it asked
for. The refinement mapping computes the byte locks from the ranges that cover them.

## 3. Runs

| Run | Instance | Shows |
|---|---|---|
| `target_states` | 2 targets on 2 servers, 1 group, 1 crash or restart, fair syncer, saves and clock; 660 k states | members kept; accepted states saved; no switch after a start before a report; a primary that needs a resync beside a usable secondary is replaced; a silent target goes OFFLINE; implements `Mgmtd` |
| `buddy_mirror` | 2 writes, any single fault; 1.8 M states | a GOOD primary has every acknowledged write; a divergence is recorded |
| `buddy_mirror_live` | 1 write, the secondary stopped at first, then any single fault, fair threads; 574 k states | a forwarded write is on the buddy when it is acknowledged, resync or not; the buddies converge, or the daemon shows the one whose resync failed as BAD; resyncs end |
| `mirrored_messages` | 1 thread, 2 requests, 2 numbers, 2 crashes, restarts and resyncs without limit; 1.8 M states | a request takes effect once and answers stay true, across retries, a restarted primary and a switchover, unless the request is exposed; every call returns |
| `entry_locks` | 2 clients, 3 requests, lossy datagrams; 137 k states | the waiters' IDs match the queues; no lost wake-up; writers preferred; every flock returns |
| `range_locks` | 2 processes, all ranges of 2 bytes, 2 waiting requests; 92 k states | ranges of one mode stay merged; no lost wake-up; implements `ByteLocks` |

Six runs state what a comment of the code says and are violated by what the
code does ("findings" in `PROJECT.json` quotes the lines):

* `buddy_mirror_offline`: a running resync is looked up under the buddy's target
  ID while jobs are kept under the primary's, so it does not notice an OFFLINE buddy.
* `entry_locks_shared`: `flockEntryTryNextWaiters` grants the exclusive lock beside a
  remaining shared holder, when one of two readers unlocks and a writer waits.
* `entry_locks_held`: an interrupted flock stays in the queue; its grant is never
  acknowledged, and the work that takes it back unlocks by handle, which takes the
  lock that the handle's next call was told it has.
* `range_locks_merged`: a granted waiter's range is extended by the ranges it is
  merged with, and the notification work unlocks the extended range when the ack is
  missing.
* `range_locks_own`: a waiter's grant does not remove its owner's range of the other mode.
  A process that waits for a shared and then for the exclusive lock of a byte gets both
  when the holder unlocks, although "there cannot be another overlapping range which we also
  own". `ByteLocks` is stated so that it allows this.
* `sequence_numbers`: `parentIndex = index / 2` does not fit children `2i+1` and
  `2i+2`. With seven numbers in flight the root is no longer the smallest, and a
  request acknowledges a number that is in flight; its response is then forgotten on
  the server and a retry executes the request again. Up to six in flight the heap
  is right (model-checked with capacity 6 and numbers up to 10); the default `connMaxInternodeNum`
  is 8 (`Config.c:210`).

### Bounds and why they are enough

* One group of two targets: groups share no state but the two files, and every
  decision concerns one group. The theorems are for any number of groups.
* Timeouts 0 and 1: three ages (fresh, beyond the first timeout, beyond the second)
  are all that the code tells apart. The theorems are for any timeouts.
* One handler between response and save, next to the syncer's own save. Two, where one
  handler's save can cover the other's change, were checked for safety (2.7 M
  states), and the theorems are for any number.
* One restart: a start depends only on the files, and the files of a run after a
  restart are those of a run before it.
* One write is enough for a write, a resync and a switch to cross; two are needed
  for one that is forwarded beside one that leaves the buddy out. `MirroredAckOnBuddy`
  is proved for any number of writes and faults, the two invariants for any number of
  writes and one fault.
* `buddy_mirror_live` begins with the secondary stopped (`InitWith({A})`), so that its start
  and its resync meet the one fault: a failed disk, an abort and a lost report of a
  resync's end need one that is running. With no write before the secondary is up the
  behaviours are those from `Init`. Its action constraint `CrashWhenGood` leaves out
  crashes while a target is not GOOD to the daemon and to both servers: a primary that
  crashes then, even between telling the daemon and telling the buddy of a resync's end,
  leaves two targets that need a resync, and they wait for an administrator
  (`ctl/source/modes/mirroring/ModeSetState.cpp`, "to resolve a situation in which both
  buddies in a buddy mirror group are in the state needs-resync").
* `MirroredMessages`: two numbers are a request beside one that acknowledges it, or a
  request repeated with a new number. Two crashes are a primary that forgets and one that
  is replaced, or one that forgets what it has done since its restart. With one thread
  two messages are at work when the first was given up; two threads and one crash were
  checked for safety (1.8 M states), and safety is proved for any number of threads, numbers and crashes.
  `RequestsReturn` excludes a thread that needs a number beyond the bound, and a group
  without a server (`NoServer`).
* `EntryLocks`: two handles and three requests are a holder, a waiter and an
  abandoned request of one of them. Safety was also checked with three handles of two
  clients (1.8 M states), where `cancelAllWaiters` meets a third, and is proved for
  any number of clients, handles and requests.
* `RangeLocks`: two bytes have ranges that overlap, contain and extend each other; two
  waiting requests are two of one owner or one of each. A split in the middle takes three
  bytes: it is covered by the theorems, which are for any owners, bytes, waiting requests
  and works. `MaxWaiting` and `MaxWorks` bound the requests that would wait and the works that would
  be added, and nothing else.
* `SequenceNumbers`: capacity 8 is the default; seven numbers in flight are the least
  at which the heap breaks.

Deadlock is not checked where the numbered requests may be used up
(`MirroredMessages`, `EntryLocks`, `SequenceNumbers`) and where nothing may be left
to ask for (`RangeLocks`).

### Fairness

`TargetStates!FairSpec`: the syncer thread runs its loop every update interval, a
handler that has responded goes on to save, time passes. No fairness for reports,
crashes or shutdowns. `BuddyMirror!Fairness`: each thread (syncer, job, timer,
worker) goes on, servers that are down are started again, the daemon's pass runs,
and clients keep retrying. Faults are not fair; they are bounded by `MaxFaults`, so
the liveness properties speak of what happens after the last. The consistency that
the daemon shows may alternate for ever if every end of a resync races the
buddy's own update, so the properties are about the server's own state and data.

`MirroredMessages!FairSpec`: a thread gets its number, notices that its connection is
gone and reaches the primary, servers go on with what they have begun, and the
management daemon, whose pass is periodic, replaces a primary that is down or waits to be replaced
if there is a GOOD secondary. Crashes, restarts and resyncs are not fair: a group whose only
server is down or shunned waits for an administrator (`NoServer`). `EntryLocks!FairSpec`: a call goes on (each of its waits has a
timeout), a process that holds a lock releases it, and a notification work comes to
its end. Nothing is assumed of datagrams: that a call returns although all grants are
lost is due to the repeated request.

## 4. Theorems

`TargetStatesProofs`, for all targets, groups, servers, timeouts and bounds that
meet the assumptions of `TargetStates`:

* `TypeCorrect`: `TypeOK`, inductive as it stands; one step per action.
* `MembersCorrect`: `MembersPreserved` is inductive with `TypeOK`. It holds of
  memory, file and the syncer's copy together, because each is assigned from another.
* `AcceptedStatesSurvive`: `AcceptedStatesSaved` is inductive because every change
  of a consistency state raises `pending` in the same step, and each save copies all
  states, other handlers' changes included.
* `SwitchAfterReport`: the action property `NoSwitchBeforeReport`. It needs
  `OnlineWasHeard` as inductive invariant: a target is ONLINE only if it was heard
  since the start, and a group is in `toSwitch` only if a member was.

`TargetStatesRefinement`, theorem `Implementation`: `Spec => M!Spec` with
`reach`, `cons`, `primary`, `found` mapped to the states (POFFLINE while the
daemon is down), the primaries of the groups, and `toSwitch`. It needs an
invariant about a daemon that is down (what is left in memory is what the files
hold, and the syncer is idle), and `MembersPreserved`, because the abstract daemon
keeps only the primary of a group.

`MirroredMessagesProofs`, for all sets of threads and (nonempty) requests and all
bounds on numbers and crashes: `TypesCorrect`, `RequestsAppliedOnce` (`AppliedOnce`)
and `AnswersStayTrue` (`AnswersTrue`), the last two about requests that are not exposed. The
two properties speak of `applied` and `answer`, which say nothing about the next step:
whether a repeated request is executed again depends on the slots. The inductive
invariant `IInv` therefore says of each request under way that is not exposed, for the
number it is sent with (`MessagesInv`),

* what the slot on each valid server says about its effect (`SlotFacts`): no slot means
  no effect, a stored success means one, an empty slot means that somebody works on it.
  A primary that has lost the slot of this number is left out (`Knows`); the slot of the
  secondary, which may replace it, is not;
* what the primary's work says about it (`WorkFacts`), and how far a GOOD secondary
  may be behind at each stage of forwarding (`SecondaryFacts`);

and, so that this is preserved: a number under way is held by one thread and
acknowledged by no message, not even an old one that is repeated (`NumbersInv`); a
request has one caller (`CallersInv`); numbers not given out have left no trace
(`FreshInv`); what a valid server works on is awaited by a thread, or is not followed (given up or exposed)
(`BusyInv`); no resync runs beside a GOOD secondary or on a primary that has crashed, and such a
primary has no forwarded messages of its former role left (`JobInv`); a request without a number has had
no effect (`NoEffectInv`). There is one lemma per action; `OtherRequest` separates a step's
own number from all others, `FactsKept` carries the facts of those over, and
`TakeResponseStep` is what the three places share where a client takes a response.

`BuddyMirrorProofs`, for any set of writes, any faults and any bound on them:
`TypeCorrect` (`TypeOK`), and `AckedWritesMirrored` (the action property
`MirroredAckOnBuddy`). The latter needs two facts that only hold together:
`MirroredOnBuddy`, that a forwarded write whose buddy has answered is among the
buddy's chunks, and `CopyLocked`, that during the copying every write of the job's
server has its chunk locked. The second is what the barrier of `ResyncStarted` is for; without it
`CopyChunk` could remove from the buddy a chunk that the primary has not written yet.

For any set of writes and at most one fault (`MaxFaults <= 1`, of any kind):
`GoodPrimaryComplete` (`GoodPrimaryHasAckedWrites`) and `DivergenceNotForgotten`
(`DivergenceRecorded`). The assumption is needed: with two faults both fail (section 5).
The invariant `OneFaultInv` names the servers by their part: a survivor `s` without
a fault and a victim `v` (`Survives(s, v)`). Before any fault it holds both ways round, so that
"nothing has happened yet" needs no invariant of its own (`Undisturbed`); the fault
chooses the victim (`FaultStep`), and from then on every step keeps `Survives(s, v)`
(`NoFaultStep`, one lemma per action). Its parts are

* `Healthy`, `SeenHealthy`: the survivor is ONLINE and GOOD, and nobody, however old its
  download, has seen it otherwise; so the victim never leaves it out of a write;
* `NoSwitchBack`, `Replaced`: the group is switched at most once, and before that the victim is
  neither OFFLINE nor marked; an unclean start of the primary is covered by the offline timeout;
* `Returned`: a victim that was ever seen OFFLINE, or is marked, is OFFLINE or back for good.
  A resync starts from a view in which it is ONLINE and marked, hence back; so no write
  leaves it out while the resync runs. This is what a second fault breaks;
* `Chunks`, `WritesMarked`: the survivor has all acknowledged writes; what the victim misses is
  marked, and still to be copied while a resync copies; a write that leaves the victim
  out is older than the barrier.

`EntryLocksProofs`, for all clients, handles and requests: `TypeCorrect`,
`WaitersAlwaysKnown` (`WaitersKnown`), `NobodyWaitsNeedlessly` (`NoNeedlessWait`) and
`WritersPreferred` (`WriterPreference`). The inductive invariant is `TypeOK`,
`GoodQueues` (the set of IDs is that of the two queues, and each queue has requests of
its mode, none of them twice), `Served` (`NoNeedlessWait` of a lock record)
and `RequestsInv` (a handle in a call has made a request). A lemma per queue
operation says that it keeps `GoodQueues` and what it does to `Served`: a conversion or an
unlock may break `Served`, and the loop `TryNextWaiters` behind it restores it.

`RangeLocksProofs`, for all owners, bytes, waiting requests and works: `TypeCorrect`,
`NobodyWaitsNeedlessly` (`NoNeedlessWait`) and `RangesStayMerged` (`RangesMerged`). The
operations merge, trim and split ranges, so nothing about single ranges survives them;
the lemmas speak of the bytes that a set of ranges covers (`InsertCovers`,
`SubtractCovers`), from which conflicts are decided. The inductive invariant is `TypeOK` with
`Served` (`NoNeedlessWait` of a lock record) and `AllMerged`. `Served` is kept by a grant
because locks only grow then, and re-established by the loop after a release; `AllMerged` is
kept by `Insert` and `Subtract` alone (`InsertSeparated`, `SubtractSeparated`).

`RangeLocksRefinement`, theorem `Implementation`: `Spec => ImplementsByteLocks`, without an
assumption on what owners ask for while they wait. The mapping takes the byte locks from the
ranges that cover them (`BytesOf`), and the wanted requests from the two queues. One
step of `RangeLocks` may grant many waiters, so the loop's invariant relates the byte locks
before the step with those after each round: what was added is what the granted requests ask
for (`AskedBy`), and no two owners conflict on a byte (`Compat`). An unlock looks at the shared
ranges only if no exclusive one covers all of it; that the byte table can say the same needs
`AllMerged` (`WholeIff`: all bytes are covered if and only if one range covers them).

`QueueProofs` is what both rest on. The loops over queues are recursive functions, not
operators, and the library's induction theorems are out of the provers' reach;
the lemmas therefore argue by a least counterexample (`LeastNat`: a nonempty set of naturals
has a least element), which needs no operator parameter. So what the loops leave behind
is proved for queues of every length.

Only model-checked:

* liveness (fairness and ENABLED are beyond the prover);
* `SequenceNumbers`, whose heap loops are recursive.

## 5. Assumptions and what is left out

* `Silent` (BuddyMirror): the daemon declares OFFLINE only a server that is down,
  waits for its offline timeout, or has noticed that it cannot download: the
  daemon's offline timeout is six of a server's update intervals. Clients notice an OFFLINE
  primary at that time. `OfflineTimeoutEnds` comes after OFFLINE: `OfflineWaitTimeoutTk`
  is computed to be longer than the daemon's timeout.
* Adding and removing targets and groups is not in `TargetStates`; its sets are fixed.
* `decideResync`'s read and write of the consistency state are one step; several
  targets per server and targets outside of groups are left out.
* The timestamp of the last communication with the buddy, which limits the chunks
  a resync compares, is abstracted to one that excludes no differing chunk.
* Repeated messages of a resync are idempotent and are one step. File descriptors
  of a session do not survive a restart. Truncate, unlink and attribute changes
  follow the scheme of writes and are not modelled.
* With two faults `DivergenceRecorded` and `GoodPrimaryHasAckedWrites` do not hold of
  `BuddyMirror`: a write that leaves an OFFLINE buddy out during a resync loses its
  flag to that resync's end, and an isolated former primary may finish a resync over the new
  primary's chunks. Two unclean crashes are enough with one write; with two writes, one
  that needs the resync and one that crosses its end, two failed downloads are. The first
  path is what the comments at `BuddyResyncJob.cpp:319-341` promise to handle: a buddy that goes
  offline while a resync runs makes the resync fail, or has its mark renewed. The flag they
  rely on is never set, which is the violation of run `buddy_mirror_offline`; the lost write is its
  consequence. The passing runs and theorems therefore claim one fault.
* The storage server's separate download of the mirror groups every ten minutes
  (`InternodeSyncer.cpp:112-119`, `:856-886`), which may make its groups newer than its
  states, is left out. So are errors and short writes of the primary's own half of a write
  (`WriteLocalFileMsgEx.cpp:317-357`), and open and read errors of a copied chunk other than as
  the failure of the job (`BuddyResyncerFileSyncSlave.cpp:139-171`, `:188-199`).
* `SetBuddyNeedsResync` writes the flag, asks the daemon and clears `unacked` in one step,
  and a daemon that refuses the states (`StorageTargets.cpp:159-163`) does not occur. `StartUp`
  removes the session file in the same step (`App.cpp:291-295` does so after the components were
  started).
* A failed `saveStatesToFile`, which is only logged (`MgmtdTargetStateStore.cpp:430`), is left out
  of `TargetStates`.
* `MirroredMessages`: a change of the group or of a state is current everywhere once it is
  made, `setBuddyNeedsResync` takes effect at once (`BuddyCommTk.cpp:115-131` repeats it by a
  timer), and a primary that works is not declared OFFLINE by mistake. GOOD is
  set together with the copy of the sessions, and reports of the end of a resync that fail
  (`BuddyResyncJob.cpp:220-222`) are left out. A clean stop, which saves the sessions, is not
  modelled. `ExecuteLocally` assumes that an execution that is refused or ends with an indirect
  error has had no effect; early completion (`MirroredMessage.h:152-159`) is left out. A
  request whose connection was closed before its number was looked at is not handled any
  more. A request given up is excluded from `AppliedOnce`: its number is acknowledged while
  the primary may still repeat the forwarded message, which the secondary then takes for a
  new one. What a replaced primary still does with requests it had begun is left out;
  these requests are exposed. The requests of metadata servers to each other, and
  `EntryLockStore`, are left out.
* `EntryLocks`, `RangeLocks`: the secondary's copies of the locks are left out; they
  are changed by the same operators in a forwarded message. `end + 1` would wrap at
  2^64 - 1, but clients send at most `OFFSET_MAX`. An unlock whose file version cannot be
  written (`FLockEntryMsgEx.cpp:105-111`), which drops the notify list, is left out. A call is
  interrupted only after the server has handled its request; one that is handled later is left
  out.
* `CallsReturn` excludes a handle blocked by its own abandoned request
  (`SelfBlocked`): when an interrupted call's request is granted by a caller that
  drops the notify list, nobody takes the lock back, and the handle's next request may
  wait for its own lock.

Observed, without a promise in the repository to hold against it, or with too little at
stake for a run of its own:

* a secondary that turns GOOD while its primary is already OFFLINE is not promoted
  until some reachability changes (`MgmtdTargetStateStore.cpp:126` and `:147`);
* between `findPrimaryResync` and the switch a report may take the secondary's GOOD
  away; the switch does not look again (`MgmtdTargetStateStore.cpp:333`, `:382`);
* a comment there says the secondary's reachability does not matter, the condition
  requires ONLINE (`:383`);
* `checkBuddyNeedsResync` calls `setBuddyNeedsResync(true)` for a recorded needs-resync that
  the daemon does not show (`StorageTargets.cpp:435`), which returns without a message because
  the flag is set already (`:102`), while the log says that the state was set;
* a BAD target becomes GOOD without a restart (`StorageTargets.cpp:285`);
* a starting storage server reads groups and states with two requests
  (`App.cpp:1285`, `TargetStateStore.cpp:44`);
* a metadata primary that crashed and is started again before it is replaced executes
  repeated requests again, because their slots are gone and `processIncoming` does not look
  at the server's own NEEDS_RESYNC: an effect may take place twice, or a `mkdir` that has
  succeeded is answered with EEXIST. These are the exposed requests of `MirroredMessages`;
  `AppliedOnce` and `AnswersTrue` are false of them;
* `FLockRangeMsgEx.cpp:57` tests for another operation than cancel, so the special case
  for a session that is gone is not reached and its range locks stay;
* a full ring buffer overwrites its second oldest entry (`MirrorBuddyGroup.c`),
  which only delays an acknowledgement;
* after a successful resync the primary forwards messages even to a secondary that has
  been set to NEEDS_RESYNC again (`MirroredMessage.h`, `sendToSecondary`).

Not modelled: group mapping, storage sessions and chunk directories, registration, pools,
quota, inode and directory operations, queues and connections (each a state space of
its own, see the plan); serialization, tools and third-party code (no protocol
state); the client's VFS and caching code (bound to the page cache).

## 6. Plan

1. `BuddyGroupMapper`: concurrent map, unmap and ID generation; a target is in one
   group, a group ID is used once; composed with the removal of targets.
2. `ChunkLockStore` with waiters; truncate and unlink in `BuddyMirror`.
3. `EntryLockStore` (locks of names and inodes that mirrored messages take), and
   messages that depend on each other in `MirroredMessages`.
4. `NodeConnPool`, `MultiWorkQueue`, `TimerQueue`: limits and cancellation.
5. `BuddyMirror` with restarts of the daemon that keep accepted states but may
   revert groups; change sets and file resync of the metadata servers.
6. Capacity pools; registration.
7. Proofs: with what fixes `buddy_mirror_offline` in the model, which pairs of faults are
   tolerated.
