# A TLA+ development for meshproxy

meshproxy is a peer-to-peer node written in Go. It carries SOCKS5 traffic over
multi-hop circuits, and it is a serverless messenger: direct chats, groups and
public channels over libp2p, with SQLite behind each of them. This directory
holds TLA+ models of its core, the TLC instances that check them, and proofs
checked by TLAPS.

Paths below are relative to the repository; `chat/` stands for
`internal/chat/`, `client/` for `internal/client/`.

## 1. Inventory

### Parts, their state and their operations

| Part | State | Operations | Model |
|---|---|---|---|
| circuit pool (`client/pool.go`) | idle lists, stream counts, `outCount`, reservations, limits | get, return, fail, reserve, register, maintain, trim, replenish | `CircuitPool` |
| SOCKS5 entry (`client/socks5.go`) | one goroutine per request | acquire, BEGIN, fail over, reply, pump, release | `CircuitPool` (use of the pool), `Circuit` (use of a circuit) |
| circuit manager (`client/circuit_manager.go`) | circuits, streams to the first hop, pending replies, heartbeat dues | build, close, read loop, heartbeat | `CircuitPool` (as the pool sees it), `Circuit` |
| stream manager (`client/stream_manager.go`) | streams of every circuit | register, remove, notify closed | `CircuitPool`, `Circuit` |
| path selection (`client/path_selector.go`, `exit_selection.go`) | health of peers, the exit selection | select, report | `PathSelector` |
| relay and exit (`internal/relay/service.go`, `internal/exit/service.go`) | the two legs of a circuit, connections to targets | handshake, extend, begin, data, end | `Circuit` |
| exit policy (`internal/exit/policy.go`) | rules, replaced by the API | checks | `ExitPolicy` |
| direct chat (`chat/service.go`, `chat/message_store.go`) | messages, send and receive counter, outbox jobs, revoke jobs | send, retry, recover, receive, sync, ack, revoke | `DirectChat` |
| offline store client (`chat/offline_store.go`) | envelopes at store nodes, a cursor per node | submit, fetch, ack | `DirectChat` (direct messages) |
| friend requests (`chat/service.go`, `chat/request_store.go`, `chat/direct_state.go`) | requests, conversations, sessions, retry jobs | request, accept, reject, ack, retry, repair | `FriendHandshake` |
| group chat (`chat/group_*.go`) | groups, epochs, members, events, deliveries | create, invite, join, leave, remove, transfer, send, sync, retry, purge | `GroupChat`, refining `GroupLog` |
| public channels (`internal/publicchannel/`) | profile, head, versions, messages, change feed, cursors | create, publish, edit, delete, subscribe, sync, exchange, push, announce | `PublicChannel` |
| chat relay v1 (`chat/relay_v1.go`, `internal/relay/chatrelay_v1.go`) | sessions, keys, sequence numbers, tables | connect, handshake, data, expire, evict, fail over | `ChatRelay` |
| discovery (`internal/discovery/`) | descriptors by peer | announce, exchange, expire | not modelled |

The remaining parts (API and console, configuration, identity, IPFS, DNS,
geo lookup, logging, update, application wiring) are input and output, glue or
wrappers of libraries; `PROJECT.json` lists each with its reason.

### How they interact, and what is hard

*Client.* A SOCKS5 handler takes a circuit from the pool or reserves a place and
has the manager build one, registers a stream, sends BEGIN, pumps data and gives
the circuit back. The maintenance goroutine, the heartbeat goroutine and the
read loop of each circuit work on the same pool. `CircuitPool.mu` is never held
across a call of the manager, so most operations of the pool are two or three
critical sections with a stale snapshot between them; a wrong counter is never
repaired.

*Chat.* Every node is sender and receiver, with a goroutine per incoming stream,
one per outgoing message, a retry loop, a recovery on reconnect, an offline
fetch loop and the HTTP API, all on one SQLite connection: a statement is
atomic, and nearly no operation is one statement. Messages of a conversation are
numbered; the number is the AEAD nonce, the receiver's duplicate filter and the
cursor of the gap sync at once. Envelopes are lost, repeated and reordered, and
nodes crash.

*Groups.* Only the controller numbers events; requests, broadcasts, retries and
manual syncs bring them to replicas in any order, and each replica applies the
one that comes next or refuses it.

*Channels.* The owner's API handlers share no lock; a subscriber reads a
snapshot in several RPCs, pages of changes in others, and hears notes, all at
once, from replicas that may lag.

*Circuits and relays.* Client, relay and exit each run a goroutine per stream;
a timeout races with the late answer, a failover with the old circuit's data,
and a session with the one that replaces it.

What makes them correct: the pool's books are exact, its limits hold, no circuit
is lost or shared with the pool while it is used; a nonce is never reused, the
cursor never passes a message that was not stored, "delivered" means stored,
replicas are windows of one history, the application of a stream reads what its
remote end wrote, and what was sent arrives in the end. `PROJECT.json` lists each hazard at its
line, with the properties that would notice it.

## 2. Plan

1. `CircuitPool`, its runs and its proofs: **done**.
2. `DirectChat`: **done**.
3. `GroupLog` and `GroupChat`, which implements it: **done**.
4. `PublicChannel`: **done**.
5. `PathSelector`, `ExitPolicy` and `Circuit`, which composes them: **done**.
6. `FriendHandshake`: **done**.
7. `ChatRelay`: **done**.
8. Proofs about the pool, direct chat, groups (with the refinement of
   `GroupLog`), channels, friend requests, the chat relay and circuits:
   **done**. Every safety property that a run checks is proved.
9. Next, models: discovery (last writer of signed descriptors), the offline
   store's cursor per node, the counters of a session composed with
   `FriendHandshake`.

The modules of 2 to 7 take a constant `Scopes`: a behaviour begins by choosing
one scope, a record that says who takes part, which operations are called, which
faults happen and how often. One TLC run thus explores several situations
without their product, and a theorem about the module holds for every set of
scopes.

## 3. CircuitPool

`CircuitPool.tla` has one action per critical section of the pool's mutex;
what the code reads before it unlocks is a per-goroutine variable (`cid`,
`snapInUse`, `snapIdle`, `expired`, `victims`).

| Model | Code |
|---|---|
| `idle`, `older` | `p.idle`: which circuits are on the lists, and in which order they became idle |
| `registered`, `streams`, `outCount` | `circuitToKind`, `inUseStreamCount`, `outCount` |
| `pendingByKind`, `pendingTotal` | reservations of `TryReserveBuild` |
| `link` | what `IsCircuitOpen` would say: absent, up, sick (record unhealthy), down (stream broken, read loop not told yet), gone |
| `hb` | the heartbeat goroutine between `MarkCircuitFailed` and `CloseCircuit` |
| `pc`, `cid`, `stream` | a SOCKS5 handler: `handleConn` or one stream of `handleUDPAssociate` |
| `mpc`, `mkind`, `expired`, `victims`, `slot`, `shared`, `building` | `maintainOnce` |
| `panicked` | the process died of `list[len(list)-toEvict:]` with a negative index |

- `GetFromPool`, `ProbeInUse`, `TakeInUse`, `ProbeIdle`, `TakeIdle`: the
  snapshot, the scoring without the lock, and the second critical section.
- `ReturnToPool`, `ReturnFinish`: the two halves of `ReturnToPool`. The second
  merges the `IsCircuitOpen` test with the append.
- `TryReserveBuild`, `BuildSucceeds`, `BuildFails`, `RegisterCircuitInUse`.
- `EvictCount`, `EvictCut`, `CloseEvicted`, `TrimExcessIdle`, `CloseTrimmed`,
  `Replenish`, `ReplenishBuilt`, `ReplenishFails`, `RegisterPoolCircuit`:
  `maintainOnce` in order. `victims` aliases the idle list's backing array as
  the Go slice does: `AliasWrite` lets an append overwrite it.
- `HeartbeatUnhealthy`, `HeartbeatHighRTT`, `HeartbeatMark`, `HeartbeatClose`,
  `LinkBreaks`, `NotifyCircuitClosed`: what the manager does to circuits.

Abstractions: a circuit id has a fixed kind (`KindOf`), and an id nobody refers
to may name the next circuit, as a fresh UUID would; a scan over many circuits
reads their links at one moment; scores are nondeterministic; the number of
BEGIN retries is left open; any circuit may be judged by the heartbeat (the code
exempts circuits straight to the exit); the exit never sends END, as its code
does not. `Daemons` says which background loops an instance runs, so that the
interleavings of handlers and of maintenance can be explored apart. The proofs
hold for every value of it.

### Runs

| Run | Instance | Checks |
|---|---|---|
| `pool_books` | two circuits, a TCP and a UDP request, heartbeat, failures, `maxTotal` 1 (504,880 states) | `TypeOK`, `OnePlace`, `OutCountExact`, `CapacityBound`, `StreamCountMatches`, `IdleNotHeld` |
| `pool_maintenance` | three circuits of two kinds, a UDP request, maintenance and two pairs of limits, with fairness (29,488 states) | `PendingExact`, `TrimsToLimit` |

Two circuits and two requests are the smallest instance in which a snapshot can
be stale in every way (taken, returned, failed, replaced) and the limit of one
circuit is contended. Three circuits of two kinds let eviction, trimming and
replenishment act on different lists. Deadlock is not checked: a node without
requests may rest.

Fairness (`FairSpec`): handlers keep running, because builds and BEGINs have
context timeouts; a broken stream ends its read loop; a heartbeat verdict is
carried out; the maintenance ticker fires. Clients, the API and failures owe
nothing.

### Proofs (`CircuitPoolProofs.tla`)

For every finite set of circuits and requests, every `KindOf`, limit and
`MaxPerPool` (`PoolAssumption`), TLAPS proves `Spec => []PoolInv` (theorem
`PoolInvariant`) and from it `TypeOK`, `OnePlace`, `OutCountExact`,
`PendingExact` and `CapacityBound`.

`PoolInv` is the conjunction of `TypeOK`, `Threads`, `OnePlace`,
`OutCountExact`, `PendingExact` and `CapInv`. None is inductive alone.

- `Threads` says what local variables hold, above all that a circuit under
  construction is unknown to the pool, to every snapshot and to every other
  goroutine. Without it `RegisterCircuitInUse` could register a lent circuit.
- `OnePlace` needs `Threads`; `OutCountExact` needs `OnePlace`, because
  `pickBestIdle` overwrites the stream count of what it takes, which is only
  an increment of `outCount` if that count was 0.
- `CapInv` bounds idle + lent + reserved + *returning* circuits by
  `TopTotal` + the number of requests: `ReturnToPool` hides a circuit from
  `TryReserveBuild` between its critical sections, once per request, so
  `maxTotal` itself is not an invariant, and this is the bound that is.

The lemmas come one per conjunct (`ThreadsStep`, `OnePlaceStep`, ...), each with
one step per action, over lemmas on how the cardinalities change.

On top of `PoolInv`, `Spec => []HoldInv` (`HoldInvariant`) gives
`StreamCountMatches` and `IdleNotHeld`. `HoldInv` says of a circuit whose stream
has not broken that its count is the number of its holders (`CountsLive`) and
that neither a circuit on the idle list nor one between the halves of
`ReturnToPool` has a holder (`IdleNotHeld`, `BackNotHeld`); `Tied` ties a
handler's stream to its circuit. `BackNotHeld` is what the second half of
`ReturnToPool` needs: while a circuit is on its way back it is off the books, so
nobody can take it, but only because the first half found its count at 0. Once
the stream is broken a return, a failure and a notification may each have
counted the same handler, and nothing is claimed. The liveness `TrimsToLimit`
is only model-checked.

## 4. DirectChat

One direction of one conversation. `DirectChat.tla` makes every SQL statement or
transaction, and every network operation, an action of one goroutine.

| Model | Code |
|---|---|
| `sendCounter`, `recvCounter` | `session_states` of sender and receiver |
| `row`, `counter`, `outbox`, `revokeJobs` | `messages` (outbound), `outbox_jobs`, `message_revoke_jobs` |
| `spc` | `SendText`, then `completeOutboundDirectSend`, per message |
| `wpc`, `wmsg`, `batch` | `runOutboxRetryLoop` ("loop"), `OnPeerConnected` ("connect"), the `recoverMissingOutboxJobs` of `NewService` ("startup"), with the items they listed |
| `apc`, `vpc` | `handleIncomingDeliveryAck`, `RevokeMessage` |
| `wire`, `acks`, `revokes`, `depot` | envelopes on streams or relays, and at offline store nodes |
| `inbox` | `messages` (inbound) |
| `stack`, `hpc`, `triggered` | goroutines of the receiver: `handleIncomingChatText` and `syncConversationFromCounter` call each other, so each is a stack of frames; syncs waiting to start |
| `owed`, `alone`, `missed` | history: revokes queued and not yet sent; messages whose `SendText` read the send counter while no other call was between reading and updating it; messages stored between the two reads of a sync answer |

The record `scope` names what a behaviour may contain: the messages (`msgs`,
`backlog`, `revocable`), the goroutines of both nodes (`calls` of `SendText` at a
time, `workers`, `handlers`, `syncs`), whether there are offline store nodes
(`offline`), `faults` and `crashes`. `MaxDepth` bounds the frames of a goroutine.
The scopes bound how much happens, never in which order: `SendText` takes no
lock, so its calls overlap each other and the two reads of a sync answer, and a
crash may fall between any two of its statements.

The code does not keep three things one would like here: overlapping calls seal
two messages under one counter and may set `send_counter` back; the answer to a
sync may leave out a message stored between its reads; a crash between
`AddMessage` and `UpdateSendCounter` lets the next call reuse the counter (section
10). The invariants say what holds nevertheless, and that nothing else goes
wrong. `Passable(m)` is the exception they share: another message was stored
under the counter of `m`, or `m` was stored between the two reads of an answer. Every
other message the cursor passes is at the receiver (`CursorCoversInbox`), and so is
every other one shown as delivered (`DeliveredIsStored`). Two messages that were
both `alone`, and that no crash cut, never share a counter
(`NonceSharedByOverlap`), although a call before them may have set the send
counter back below numbers in use.

A chat_text may be delivered late or never; losing it explicitly matters only to
liveness. An envelope is in a set: a repetition is the resend of a delivered one.
`MarkDelivered` merges the `SELECT` of the row with the `UPDATE`. `AddMessage`
stands for its `INSERT OR REPLACE`; the conversation's preview is left out.

Not modelled here: files (the same path with another payload), server mode,
retention cleanup, blocked peers, recovery of undecryptable sessions, retry
counts and intervals, the limits of 64 rounds and 256 rows of a sync, the
relay's table of pending syncs, and the cursor per store node.

| Run | Scopes | Checks |
|---|---|---|
| `chat_safety` | `Overlap`: three overlapping `SendText` calls, a crash; the sender alone. `Crossing`: two overlapping calls, two goroutines whose syncs may fail. `Answer`: the same with one goroutine and a sync of its own, so that rows are stored while a sync is answered. `Torn`: two overlapping calls, a crash of either node, recovery at the start. `Restart`: two calls one after the other, a crash, a sync of its own, failing acknowledgements and syncs. `OfflineStore`: two goroutines, failing sends. `Revoke`: a message that is revoked, reconnects, failing sends. | `CursorCoversInbox`, `CursorBehindStored`, `DeliveredIsStored`, `NonceSharedByOverlap`, `RevokeKept` |
| `chat_live` | `GapFill`: two queued messages, retry loop, lost envelopes, failing syncs. `Settle`: one message, retry loop and reconnect. | `EventuallyStored`, `EventuallySettled` |

At the receiver two messages give a gap, a duplicate, a reordering and a hole; a
third would be in the same position as one of the two. At the sender it takes
three to overlap one call with two that follow each other. `MaxDepth` 5 lets a text call a sync
that calls a text that calls a sync again, once more than a gap that can be
filled needs. With an offline store `CursorCoversInbox` and `DeliveredIsStored`
are not expected (section 10), so they are stated for the other scopes and
`CursorBehindStored` says what remains. Deadlock is not checked: when everything
is delivered nothing is left to do.

Fairness: `Scheduling` says goroutines that have begun go on, the ticker fires
and a lost peer connects again. `TextsArrive` and `SyncsWork` say that the
network, which may fail an operation arbitrarily often, does not fail it for
ever: the retry loops exist because it is expected to work in the end.

### Proofs (`DirectChatProofs.tla`)

For every set of messages and goroutines and every scope, TLAPS proves
`RevokeKept`, `NonceSharedByOverlap`, `CursorCoversInbox` and `DeliveredIsStored`
without a condition, and `CursorBehindStored` unless there are offline stores and
`recoverMissingOutboxJobs` runs (at the start or on a reconnect), a case that
breaks it (section 10). The invariant has layers, each proved from the ones below
it:

- `RoomInv`: `sendCounter` is at most the number of messages past
  `UpdateSendCounter`, so that counters stay in their range; frames and workers
  have a message where their next step needs one.
- `RevokeInv`: a listed or stored revoke job belongs to a revoke that has ended.
- `SendInv`: a message has a row, or had one until its revoke, exactly from
  `InsertOutbound` on (`Rows`). No number is left out below `sendCounter` or below
  a number in use, and if the counter was set back to or below such a number,
  two messages have the one before it (`Filled`). A message that was alone and
  not cut has a number below every number that is given later (`Apart`).
- `Carried`: what is in an envelope, a frame or a depot is a message with a row.
- `RecvInv`: `Covered(n)` says that n stands right behind a message and that no
  message with a counter below n is missing at the receiver, but for the passable
  ones. It holds for the cursor, for every counter a goroutine may move the
  cursor to, and for every cursor a sync may start from. What a goroutine knows
  depends on its step (`TopKnows`): a response that is being applied lists every
  message from its cursor up to the send counter it carries, and that is why the
  jump at its end is safe. A message stored later below such a counter shares its
  number, because `Filled` says that every number there was used.
- `QueueInv`, `StandInv`: with an offline store messages may be skipped, and
  only the message right before the cursor is known to be stored. `Standing`
  adds that the send counter stands behind one too where it was set back below
  the cursor, so that a sync answer cannot lead the cursor to a hole. `QueueInv`
  says that only messages `UpdateSendCounter` has counted are sent again, which
  is what `recoverMissingOutboxJobs` breaks.

`EventuallyStored`, `EventuallySettled` stay with TLC.

`EventuallySettled` is worth a remark. An acknowledgement may arrive before the
sender has stored "sent"; the row is then set back and its job may be deleted.
No run of the retry loop finds it again; only `recoverMissingOutboxJobs`, which
lists rows in state "sent" too, does (the mutant of this property drops exactly
that state).

## 5. GroupLog and GroupChat

`GroupLog.tla` is what the control events of a group promise: one log, appended
to only by a replica that has its newest event, and replicas that are windows of
it: a peer joins at an event and then takes the next one, never a later one.
`GroupChat.tla` is the code, and `ImplementsLog` (`Shared!Spec`, with the events
a replica has applied for `held`) is the refinement, checked as a property.

| Model | Code |
|---|---|
| `db` | `groups`, `group_members`, `group_epochs`, `group_events`, `group_messages` of each node |
| `deliv`, `evjobs` | `group_message_deliveries`, `group_event_deliveries` |
| `prep` | an API call between `newGroupEvent`, which numbers the event from `last_event_seq`, and the transaction (`CommitEvent`) |
| `sealed`, `added`, `marking` | `SendGroupText` between sealing, `AddGroupMessage` and the update of each delivery |
| `answer` | the response `SyncGroup` is applying, event by event and text by text |
| `ctl`, `requests`, `texts`, `acks` | envelopes under way: control events, join and leave requests, texts, acknowledgements |
| `log` | history: every event a node has numbered |
| `nilIsNull` | whether the driver stores a nil slice as NULL, which `group_epochs` refuses |

`CreateGroup`, `InviteGroupMember`, `AcceptGroupInvite`, `LeaveGroup`,
`RemoveGroupMember`, `Prepare...` with `CommitEvent`, `SyncGroup`,
`SealText`/`SendGroupText`/`MarkSent`, `RetryDelivery`, `RetryEvent`,
`HandleRequest`, `ReceiveEvent`, `ReceiveGroupText`, `ReceiveAck`,
`CleanupExpired` and `PurgeArchived` are the operations of the same names.
`Commits` stands for the constraints of the tables: a transaction whose number
or epoch is taken rolls back.

| Run | Scopes | Checks |
|---|---|---|
| `group` | `Control`: three peers; invite, accept, remove, transfer, sync. `Settle`: two peers; texts, revokes and a title under failing and lost sends. `Founding`: from the creation to the purge, with crashes. `Ageing`: the retention time passes. `Returning`: a peer leaves and is invited again. | `RowsFollowLog`, `DepartedLackKeys`, `DeliveredIsStored`, `ImplementsLog`, `EveryCopySettles` |

`top` bounds the event numbers of a scope. Two peers are a controller and a
member; the third in `Control` is what lets one peer be told of the group by
another's event, and lets the role move while a request is under way.

Fairness is stated per message: an author's delivery rows are updated, and of
the copies and acknowledgements sent again and again not all get lost
(`runGroupDeliveryRetryLoop` repeats them for that reason). `EveryCopySettles`
is stated for `Steady` scopes: without a crash (section 10) and without changes
of the membership.

### Proofs (`GroupChatProofs.tla`)

For every set of peers, messages and scopes, TLAPS proves that a behaviour
implements `GroupLog` (`LogRefined`), that rows follow the log, that who departed
has no key of a later epoch, and type correctness. The condition is `Ordered`:
the scope has no `delegated` operations, whose events are numbered by a node that
is not the controller, and not both purges and transfers. Both break the log
(section 10). A scope never changes, so `Ordered` is a condition on the
instance. Of the constants `GroupAssumption` says that peers and messages are
finitely many, that `MaxSeq` is positive and that the members a scope begins with
are distinct and leave room for the events that brought them in.

`GroupInv` is `TypeOK`, `LogOK` (what numbers a log has and who signed what),
`ReplicaOK` for each node (its events are a stretch of the log and its rows are
what the last of them says), `Signers`, `Carried` (an event in an envelope, a
delivery row or an answer is in the log), `PrepOK` (an event that an API call has
numbered and not yet committed) and `Room`. The argument turns on `HasNewest`: a
node whose rows name it controller has every event, because the next one would
have been signed by that node itself (`LogOK`: an event is signed by the
controller of its predecessor), and a node has every event it signed
(`Signers`). Hence what it numbers next is new, and `Append` of `GroupLog` is
enabled. Two events with one number would need a controller that forgot what it
signed, which is what a purge between two transfers does.

Steps are summarised before they are used: `Moved` says how the replicas and the
log change (nothing, a group is founded, forgotten, one node appends, one takes
the next event, one joins), `Told` what goes under way, `Spoken` what happens to
texts. `StandsAt` says which event a node's rows describe. `SameRowsAtOneEvent`
then gives `RowsFollowLog`, and each case of `Moved` is a step of `GroupLog` or
a stutter (`SharesStep`).

Keys need a second invariant, `KeysOK`: epochs grow along the log, whoever holds
the key of an epoch was present at it or later, every copy of an event under way
is addressed to a node that may hear it (`MayHear`), and a node answers a sync
only for peers that are members in its rows. `GoneHasNoKey` concludes for a
member that has left or was removed.

Texts need a third. `DeliveredHolds` states `DeliveredIsStored` for `Ordered`
scopes without "purge", in every state in which no two stored messages of an
author share a `sender_seq` (`NoReuse`). Its invariants are `Copies`, every copy
in a row, an envelope or a sync answer is what the author stored under that id,
and `Receipts`, whoever acknowledged a message has it. What carries them is
`Lasts`: from one replica to the next no message is lost without a reason, which
each transaction is shown to respect. Both conditions are there because the
code needs them (section 10): `INSERT OR REPLACE` drops a message whose number
comes again, and a purged replica that an old invite makes anew has lost what it
acknowledged. `NumbersHold` says where `NoReuse` is so: in `Lasting` scopes,
where the sends of an author do not overlap (no "send" in `races`) and no row is
revoked, expired or purged. There `NextGroupSenderSeq` sees every number that
was used (`RowsStay`), and one text at most is sealed and not yet stored
(`OneAtATime`); so the AEAD nonce of a text is not repeated there either, crashes
between sealing and storing included. Where a message is revoked the number may
come again, and what a delivered message then means is what `DeliveredHolds`
says of it. The liveness `EveryCopySettles` stays with TLC.

Abstractions: a handler of an incoming event is one step, because everything it
reads before its transaction only changes together with `last_event_seq`; keys
are "has the key of epoch n"; files take the path of texts; the limits of a sync
page, retry intervals and local-only settings are left out.

## 6. PublicChannel

`PublicChannel.tla` has the owner and its subscribers. `db[n]` is the SQLite file
of a node; a signature is the signed content itself, so "verifies" is "equals
what was signed". Every RPC is a step that reads the state of the peer served.

| Model | Code |
|---|---|
| `call` | an owner API call: profile and message read, head read, commit; these share no lock |
| `job` | the two workers of a subscriber: "loop" (`runSubscriptionLoop`) and "api" (bootstrap, `SyncChannel`, `syncPeerSubscriptionDigests`, `LoadMessagesFromProviders`), with what they have fetched |
| `notes`, `topic` | changes published over pubsub, and whether the loop reads them |
| `pushes`, `pushing`, `stored` | a goroutine per change that pushes to the store nodes; the holder of the mutex; the head at the store node |
| `prov` | `provideState`: due, in flight, announced |
| `aged` | messages older than the retention time |
| `signed` | history: every version the owner has committed |

`FetchProfile`, `FetchHead`, `FetchMessages`, `ApplyProfileStep`,
`ApplyHeadStep`, `ApplyMessagesStep` are `fetchInitialSnapshot` and
`applyInitialSnapshot`; `FetchPage`, `FetchItem`, `ApplyItem`,
`FetchAndApplyHead`, `EndPage`, `Finish` are `syncAfterWithPeer` and
`applyChanges`; `NextPeer`, `GiveUp` what happens when a peer fails.

| Run | Scopes | Checks |
|---|---|---|
| `channel_safety` | `Sync`: two overlapping owner calls, two messages, a subscriber with both workers, one failing RPC or lost note. `Push`: store pushes, a crash, replicas that serve each other. `History`: a retention time, history loaded on request. | `TypeOK`, `OwnerBooks`, `SyncedCovers`, `MessagesMonotone`, `StoredHeadMonotone` |
| `channel_live` | one message, a subscriber, RPC, note and announce faults | `CatchesUp`, `Announced` |

Pages of one change let an RPC fail between two pages; a snapshot overlaps
changes because its three fetches and its applications are separate steps. Two
callers are the smallest overlap. All four safety properties are stated for as
long as no message has expired (`aged = {}`): the sweep removes rows, and with
them the number that `UNIQUE(seq)` guards (section 10). `SyncedCovers` is also stated only for subscribers that
sync with the owner, without "exchange" (section 10), and for channels that fit
one page: a snapshot fetches one page of messages and older ones are loaded when
a user asks for them.

Fairness: workers go on, a client asks for a channel again and again
(`SyncChannel`, strongly fair because it is refused while a job runs), the
announce loop keeps running; the owner owes nothing.

### Proofs (`PublicChannelProofs.tla`)

For every owner, set of subscribers and callers, bound and scope, with the
message ids 1..n (`ChannelAssumption`: `last_message_id` counts them), TLAPS
proves `TypeOK`, `OwnerBooks`, `SyncedCovers`, `MessagesMonotone` and
`StoredHeadMonotone` from `ChannelInv`:

- `Sorted`: types, and what each step of a job relies on; above all that a
  message is only written where a verified profile is, and that a placeholder row
  holds neither messages nor a head.
- `Books`: the owner's changes are numbered 1..`last_seq` without a gap, each
  signed version is the only one of its number and of its version, every copy
  of a message at any node or in any job was signed (`Genuine`), and a call about
  to commit is either stale or has read what the tables hold (`UpToDate`). A
  stale call has an old number, the numbering has no gap, so its number is taken
  and `UNIQUE(seq)` rolls it back (`OnlyFreshCommit`). This is where `aged = {}`
  is needed: with expired rows gone there are gaps.
- `Caught`: how far each job and cursor covers what was signed, for the
  situations of `SyncedCovers`: what a page promised is in the tables or among
  its items, what a snapshot fetched covers the head it fetched before.

Owner steps only add a version with the next number (`OwnerMoves`), so whatever
covered up to n still does (`StillCovers`); subscriber steps move one row and
one job (`Moves`, `Fit`, `RowFit`). Pages are set-valued; the smallest number
among a page's items (`Earliest`) is applied next.

`CatchesUp` and `Announced` stay with TLC.

Abstractions: a message does not age during an owner call; the messages of a
snapshot are applied in one step, and so are a change of a page and its entry in
the change feed, which the code writes in two transactions
(`internal/publicchannel/service.go:1711`, `:1718`: a peer that asks between the
two sees the message before its change, and a page is fetched again after a crash); `SubscribeChannel` is only called when the
channel is not followed. Server mode (the HTTP API in front of the store) and
the IPFS copies of files are left out.

## 7. PathSelector, ExitPolicy and Circuit

`PathSelector.tla` and `ExitPolicy.tla` are pure: the set of plans
`SelectForPoolExcluding` may return under a selection and the health of the
peers, and the verdict of each rule of `checkBeginPolicy` under a policy.
`Circuit.tla` extends both and composes client, relay and exit.

| Model | Code |
|---|---|
| `bld`, `plan`, `man` | `CreateForPoolExcluding` with its retries; the record and the read loop of a circuit |
| `hb` | the heartbeat goroutine between ping and pong |
| `app`, `reg`, `pending`, `answer` | SOCKS5 handlers, `StreamManager.streams`, `pendingConnected` |
| `near`, `far`, `up`, `down`, `up2`, `down2` | the two libp2p streams of a circuit and the frames in them, in order |
| `rel`, `nxt` | the relay's goroutine and `nextHopStreams` |
| `ex`, `conn`, `policy` | the exit's goroutine, remote connections, `PolicyChecker` |
| `sent`, `heard` | chunks read at one end and written at the other |

An onion cell carries the layer index each seal was bound to; nonce counters are
left out, since both ends move them in step on a stream that keeps its order.
The pool is in `CircuitPool`; here any usable circuit may be handed to a handler.
Cooldowns end only while a build selects; an id is never used twice.
`betterNode` leaves out its first criterion, the smoothed round-trip time
(`client/path_selector.go:486`): it is only recorded with a pong, and none ever
arrives (section 10). `Clash`, two overlapping writes on a circuit, covers BEGIN
and data; END frames and pings are written whole.

The exit consults its policy in one step for each lock it takes, and `SetPolicy`
may come between any two of them: `ExitRule` for the rules every BEGIN goes
through (`Rules`, where "accepting" and "draining" are two reads), then for a name
`ExitRemoteDNS` (`internal/exit/service.go:969`), `ExitLookup`, which waits
without a lock, and `ExitAddress` once for each address found. `ExitDial`
resolves the name once more (`:518`, `:585`), so the address it connects to may
differ from every one that was checked. A lookup may fail, and what it answers is
chosen anew each time from `answers` of the target. A BEGIN for the exit's own
SOCKS5 server goes through no rule (`Exempt`).

`AdmittedByPolicy` says what this can give: each clause of the configuration
admitted the connection at some moment of the check, and so did the clause about
addresses for every address the check saw, one by one. The address dialled is
only included when the name has a single answer. Section 10 lists the two
stronger statements that the code does not keep.

| Run | Scopes | Checks |
|---|---|---|
| `circuit_streams` | `Sharing`, `Flowing`, `Failover`, `PolicyChange`, `PolicyOfAddress`, `PolicyOfName`, `PolicyOfLookup`, `Relayed`, `SharedRelay`, `Switching` | `ConnectedIsDialled`, `InOrder`, `AdmittedByPolicy` |
| `circuit_live` | `Brief`, `PolicyChange`, `Relayed` | `EndCloses`, `DeadCircuitFailed`, `NoOrphanStream` |

Each scope isolates one composition: two streams on a circuit (a TCP and a UDP
one), several chunks each way, a stream that moves to a second circuit, a policy
that changes between two locks, a relayed circuit, a build that is retried under
a changed selection. One relay and two exits are enough for a failover to have
another exit and for a relayed circuit to have a hop of its own.

The targets of the policy scopes are those on which each clause decides: a literal
private address (`b`), a name with a private and a loopback address (`d`), and a
name whose lookups give one, the other or nothing (`h`). The policies differ in
ports, peers and draining (`Changing`), or in names, RemoteDNS and the classes of
addresses (`ChangingTargets`: `PrivateOnly` and `LoopbackOnly` admit the two
addresses of `d` only between them). Two changes let a policy come back or a third
one follow within one check. Failing over runs with the target no rule binds
(`g`), so that `Exempt` is taken without multiplying the policy steps.

Fairness: every goroutine keeps running and its timers fire; pings are strongly
fair because a circuit that is being built or judged is skipped. Faults, the
application, the remote end and the operator are never forced.

### Proofs (`CircuitProofs.tla`, `CircuitStreamProofs.tla`)

Type correctness and all three safety properties are proved for any nodes,
circuits, requests, targets, policies, selections and scopes, without a
condition on the scope. Of the constants `CircuitAssumption` asks that the
threshold and the number of tries are positive, that there is a policy and that
the address classes of a target are those the policy rules tell apart.

*The policy.* `CircuitTypeCorrect` comes from `SafeInv`: `TypeOK`, `Planned` and
`Linked`, by which a circuit that anybody has written to has a plan with an
exit. For `PolicyHolds` the inductive part is `Checked`: the policy now in force is
among those a check in progress has seen; every rule and every address it has
passed was passed under one of these; and a goroutine about to dial, and a
connection, have passed them all. `CheckedStep` goes through the steps of a check
(`CheckGoes`): each keeps what was passed, adds at most the rule or address just
read, and `SetPolicy` only adds to what was seen. `RulesCoverClauses` shows that the
rules together consult every clause of the configuration, and `AddressRule` that
`CheckTargetIPAllowed` is the clause about addresses. A clause that came or went
between two locks may have been missed: the theorem excludes the one that
forbade the connection throughout.

*The answer to BEGIN.* `DialledHolds` rests on `Sound`, which adds to `SafeInv`:
`Held`, a circuit that is being built is known to nobody but its builder;
`Touched`, what a leg carries is gone when its end is closed; `Sealed`, plain
BEGIN and data frames are only on direct circuits and nothing on the way back is
torn; `Begun`, the BEGIN of an attempt is nowhere, in flight once, with the exit
once, or has made its connection, over the circuit the attempt names; and
`Answered`, nobody is told CONNECTED before there is a connection. Attempts
matter: a handler that fails over leaves a BEGIN and perhaps a late answer
behind, and neither may count for the next attempt.

*The data.* `OrderHolds` takes each direction of a stream as a `Channel` between
what was sent and what was delivered: chunks rise and are at most as many as were
sent (`Numbered`); up to a tear each follows its predecessor or what was
delivered (`Follows`); without a tear the last one sent is there or was delivered
(`Complete`), as long as the reader still takes them. `UpMoves` and `DownMoves`
reduce every step of the module to one of the `Moves` of a channel, and
`ChannelStep` shows that each keeps it. Chunks behind a tear are never read,
because the reader closes its leg at the tear: this is where the unserialised
`WriteFrame` of the client could have cost a hole in the data and does not.

`EndCloses`, `DeadCircuitFailed` and `NoOrphanStream` are liveness and stay with
TLC.

## 8. FriendHandshake

Two nodes, each with one user call, one incoming envelope and one retry under way
at a time; each store statement of an accept is a step.

| Model | Code |
|---|---|
| `req`, `job` | `requests` rows (state, exchange key, conversation), `friend_request_jobs` |
| `conv`, `sess`, `contact` | the conversation, `session_states`, the peers row |
| `task` | `AcceptRequest`, `RejectRequest`, `DeleteContact` and handlers between two statements |
| `retry` | `runFriendRequestRetryLoop` between the send and the next schedule |
| `net` | session_request, session_accept, session_reject, session_accept_ack, texts |

`Restart` is the repair at startup (`direct_state.go`), `ReceiveText` the repair
and refusal on an incoming text, `Abandon` the end of a job's week.

`friend_handshake` checks `AckMeansBoth`, `NeverReopened` and
`AcceptReachesInitiator` with two requests that cross, in six scopes that bound
how often users accept, reject, delete, forget or block, and how often an
envelope is lost or copied, a node dies or a week passes. Fairness: goroutines
and the retry ticker go on, and an accept that is sent again and again is
received (`ReceiveAccept`, strongly fair).

### Proofs (`FriendHandshakeProofs.tla`)

For any two peers, any set of requests between them and every scope, TLAPS proves
type correctness, `AckMeansBoth` and the action property `NeverReopened`.
`HandshakeInv` adds three parts to `TypeOK`. `Keys`: the exchange key in a row
of a received request, in a handshake envelope and in a task that establishes
a session is the other node's, never the local one. `SentFirst`: rows, envelopes
and tasks belong to requests that were sent. `Friends`, as long as no user has
undone the friendship: a node with an accept under way or to be repeated has a
conversation and a session, so has the other one once the initiator works on
the answer, and an acknowledgement exists only when both have. The repairs at
startup and on a text are the steps to watch, since they decide requests outside
the handshake; `Mends`, `Keeps`, `RowMoves`, `TaskMoves` and `Settles` say what
each kind of step may do to rows, jobs and tasks. `AcceptReachesInitiator` stays
with TLC.

Abstractions: repairs and the handling of a text are one step; the counters of a
session are reduced to "a text was sent, or got, under it"; migration of old
conversation ids, retention and avatars are left out.

## 9. ChatRelay

Two peers and the relays both are connected to: `sendViaRelay` at the sender,
`ChatRelayV1Table` at the relay, the connect and key tables and the reordering
at the receiver.

| Model | Code |
|---|---|
| `task`, `sess` | a call of `sendViaRelay`; `relayV1Sessions` with the lock `st.mu` |
| `call` | how far connect and handshake of a session got |
| `table` | the relay's registrations, oldest first, with expiry and caps |
| `conn`, `keys` | `relayV1BConnect`, `relayV1BBySrc`, `relayV1BKeys` |
| `acts` | sessions the responder is about to take over as its own way back |
| `frames`, `age` | data frames, one stream each; the age of a session |
| `handing` | what `relayV1BIngestRelayDataPacket` returned to a stream and it still holds |
| `sealed`, `arrived` | history: what was sealed with which key and number, what was handed on |

| Run | Scopes | Checks |
|---|---|---|
| `chat_relay` | two overlapping or serial messages under failing connects, handshakes, writes; lost frames; timeouts; restarts; ageing sessions; one message each way | `HandedOnce`, `NonceOnce`, `KeysBounded`, `SendConcludes` |
| `chat_reply` | a message and a reply, no failure; **violated** | `ReplyArrives` |

The limits of the receiver (`MaxReorderGap`, `MaxPendingSlots`, the caps) are 1
or, where they must not bite, 3, so that each is reached. Fairness: as long as
goroutines can run, or streams deliver, one of them does (weak fairness of each
kind as a whole, enough since the bounds make their steps finitely many);
`SenderStep` is strongly fair since a Go mutex does not starve a waiter.

A frame is taken off its stream, opened and put in order under `relayV1BMu`
(`ServeRelayDataAsB`), and what that returns is handed to `processEnvelopeBytes`
after the unlock, one packet at a time, in the goroutine of that stream
(`HandOn`). Streams of one session overlap there, so the order in which envelopes
reach the chat service is not that of their numbers (section 10). What holds is
`HandedOnce`: each number at most once, as sealed, and none that the table counts
as delivered is missing, but for what a stream still holds.

`chat_reply` shows that a peer that has just served a session takes it over as
its own route back (`relay_v1.go:807`, "the reusable send route"), while the
relay's table only forwards the direction in which it was connected: the frame
of the reply is dropped and the call reports success.

### Proofs (`ChatRelayProofs.tla`)

For any two peers, any set of relays and messages, limits and scopes, TLAPS
proves type correctness, `NonceOnce`, `KeysBounded` and `HandedOnce` from `RelayInv`:

- `Senders`: one call of a peer at a time works on its session, and it seals
  with a session that has a key.
- `Tables`, `Bounded`: registrations are of sessions that were begun, keys are
  of registered sessions, and a source has at most its cap of them.
- `KeyUse`: who seals with the key of a session. The side that connected gets it
  with the answer of its handshake, once; the side that answered by the
  activation that follows its answer, once. Each sets the counter to 0 only
  then, so a key and number of one side are sealed with once (`NonceOnce`).
- `Deliveries`: what travels was sealed, and what has passed the relay comes from
  the side that connected. For each session, what its streams handed on and what
  they hold is sealed (`Genuine`), in one place per number (`Apart`), and fills
  all numbers below `next` of the entry (`Counted`). An entry is made once per
  session, so its counter never starts again. `HandedOnce` follows.

`SendConcludes` stays with TLC.

Abstractions: `SessionFor` with its lock, and `GetKeys` with the ingest, are one
step each; heartbeats and envelope signatures are left out; the minimum gap
between connects is a lost call.

## 10. Observations

Statements that the code does not keep, met while modelling. The first table
lists those the modules can show: each is defined in its module, and TLC refutes
it on the instance named. They are not part of the regular runs.

| Statement | Instance | What happens |
|---|---|---|
| `ClientCloseReturns` (`client/circuit_manager.go:1059`) | `pool_books` with one TCP request, under `FairSpec` | the pump ends when the client closes, without closing the wrapped connection, whose `Close` returns the circuit |
| `WithinMaxPerPool` (`internal/config/config.go:227`) | `pool_books` with `MaxPerPool = 1` and limits <<1, 2>> | a build is reserved between the halves of `ReturnToPool` |
| `LentHasStream` (`client/pool.go:61`) | `pool_books` | the heartbeat drops an idle circuit from `circuitToKind`; it is lent before it is closed and can never be returned |
| `FailedNotBackToIdle` (`client/pool.go:219`) | `pool_books` | `MarkCircuitFailed` between the halves of `ReturnToPool` |
| `EvictsOnlyExpired` (`client/pool.go:309`) | `pool_maintenance` | expired entries head the list, the tail is cut |
| `ClosesOnlyEvicted` (`client/pool.go:337`) | `pool_maintenance` | an append overwrites the evicted entries before they are closed |
| `NonceUnique` (`internal/protocol/crypto.go:107`) | `Overlap` | two API requests read one `send_counter`; two texts are sealed under one key and nonce |
| `CursorCoversInbox` without `Passable` (`chat/service.go:3551`) | `Answer` | a message stored between the rows and the counter of a sync answer: the receiver jumps over it for good |
| `CursorCoversInbox` without `Passable` (`chat/service.go:1323`) | `Crossing` | of two messages with one counter the second is taken for a duplicate |
| `SyncNotNested` (`chat/service.go:3171`) | a backlog of two, the first revocable and deleted unsent | the sync for the hole returns the message behind it, which is a gap again, and the functions call each other |
| `DeliveredIsStored` without `Passable` (`chat/message_store.go:33`) | `Torn` | a crash between `AddMessage` and `UpdateSendCounter`: the counter is used again, the second message is acknowledged as a duplicate |
| `RevokedStaysGone` (`chat/service.go:3272`) | `Revoke` | `AddMessage` after the transmission brings the row back |
| `RevokedOnBothSides` (`README.md:61`) | `Revoke` | the revoke sees "local_only" while the text is on its way |
| `UnsentRevokeKeepsRow` (`README.md:68`) | `Revoke` | `QueueMessageRevoke` deletes the row and reports success |
| `CursorAdvances` (`chat/message_store.go:31`) | `Crossing` with one call at a time and the retry loop | the slower of two goroutines with one message writes the cursor back |
| `ImplementsLog` (`group-chat.md:760`) | `Ageing` with `delegated` | an admin's retention change, or a member's revoke, is numbered by a node that is not the controller: two events get one number |
| `CursorBehindStored` (`chat/service.go:3551`) | an offline store, a backlog <<m1, m2>>, m3, reconnects, one sync | `recoverMissingOutboxJobs` sends m3 between its `AddMessage` and `UpdateSendCounter`; the cursor, moved to 3 by the offline copy, is written back to 1 by a slower goroutine, and a sync answered before then jumps to 2 although m2 was never stored |
| `DeliveredIsStored` of `GroupChat` (`chat/group_service.go:648`) | two texts of one author, "text", "revoke", faults "late", "send" | a text reported failed is deleted unsent, the next one takes its `sender_seq`; the first arrives late and replaces it |
| `ImplementsLog` (`chat/group_service.go:648`) | three peers; invite, transfer, sync, dissolve, purge | a controller that hands on, gets the role back, dissolves and purges while an old sync answer is being applied becomes controller at an old number: two events get one number (the purge waits long after archival, so only a very old answer does this) |
| `OwnerBooks` without `aged = {}` (`internal/publicchannel/store.go:1045`) | three callers and "retention" | the sweep frees a number `UNIQUE(seq)` guards while two edits overlap |
| `LastSeqMonotone` (`docs/去中心化公开频道协议与本地存储设计（最终版 v1）.md:176`, "monotonically increasing") | `Edits`: two callers, a message that expires | an edit that read its head before two other changes finds its number free and moves `last_seq` from 3 back to 2 (`store.go:656`) |
| `SyncedCovers`, `CatchesUp` (`internal/publicchannel/service.go:517`) | `Push` without the guard on "exchange" | the exchange starts after `head.last_seq`, which moves without the cursor: changes in between are passed |
| `DialsChecked`: the address dialled was checked (`internal/exit/service.go:972`, "remote_dns: 解析後對 IP 再做一次", the resolved addresses are checked once more) | `PolicyOfLookup` without a change | the name is resolved again at the dial, and answers differently |
| `OnePolicyAdmits`: one policy admitted all addresses of a connection (`internal/exit/service.go:977`) | `PolicyOfName` | the policy is replaced between two addresses of a name: neither policy allows both |
| `HandedInOrder` (`chat/relay_v1.go:1004`, "按序交給業務層", to be handed to the business layer in order) | `chat_relay`, two frames | `relayV1BIngestRelayDataPacket` returns them in order, but each stream hands on after the unlock: the second may be first |
| `Consent` (`chat/direct_state.go:433`) | one request, `Some({"crash"})` | the repair at startup takes any pending request that has an exchange key, as every one has, for a cut-short accept |

Observations that the models leave outside, or show only indirectly:

*Direct chat.* A message that an offline item has skipped is acknowledged as a
duplicate when its own copy arrives, so it is delivered and not stored.

*Friends.* `SendRequest` schedules no retry, against `chat.md:405`. A late or
repeated SessionAccept rebuilds the session with the same keys and resets both
counters (`chat/service.go:1824`). A crash between `UpdateRequestState` and the
retry job leaves the initiator without an answer. A text of a node whose session
is missing is refused in the name of the latest request, which may be the
refuser's own, and can race with `AcceptRequest`. A deleted conversation of an
accepted request comes back at the next start.

*Groups.* Overlapping `SendGroupText` calls take one `sender_seq`: the nonce
repeats and `INSERT OR REPLACE` drops a message (`group-chat.md:1253`). An event
that is retried lets the next arrive first, which is refused for the gap and not
sent again. An invite that arrives after the purge makes a dissolved group
again. A peer invited again has a gap it cannot sync. A crash after
`AddGroupMessage` leaves deliveries pending for ever, one after a commit loses
the broadcast. With a driver that stores nil as NULL a removed peer cannot apply
its removal.

*Channels.* An owner call that read an old profile writes its version back. The
snapshot reads the profile before the head. `ApplyMessage` moves `last_seq`, so
that the stored signature of the head no longer verifies. Failed pushes are not
repeated. A provide scheduled during an attempt is overwritten by its result.
Unsubscribing while a sync runs leaves `subscribed = 1`.

*Circuits.* `WrapForward` binds layer i into the cell and the exit opens layer 0
(`internal/protocol/onion.go:39`, `:65`), so a relayed circuit carries no cell
beyond the extension; only `allow_direct_exit = false` reaches it, and
`DeadCircuitFailed` shows that heartbeats clear such circuits away. The
client's `WriteFrame` takes no lock, so frames of two streams may tear. Remote
data can reach the application before the SOCKS5 reply. Errors of the extend
phase shadow `err`, and the report praises the hops of a failed build. A late
CONNECTED leaves its connection open at the exit, and connections outlive their
circuit. A UDP teardown sends no END. The relay forgets an END and never deletes
`sessionsByStream`.

*Chat relay.* A session is replaced although its handshake then fails, and the
new id goes with the old key (`chat/relay_v1.go:468`). A number used by a failed
stream, or a lost frame, is a hole that later packets wait behind without a
timeout. Two peers that connect at once each end with the session the other
answered.

## 11. What is proved and what is only checked

Proved for all values of the constants, under the conditions named there:

| Module | Proved | Checked by TLC only |
|---|---|---|
| `CircuitPool` | `TypeOK`, `OnePlace`, `OutCountExact`, `PendingExact`, `CapacityBound`, `StreamCountMatches`, `IdleNotHeld` | `TrimsToLimit` |
| `DirectChat` | `TypeOK`, `RevokeKept`, `NonceSharedByOverlap`, `CursorCoversInbox`, `DeliveredIsStored`, `CursorBehindStored` | `EventuallyStored`, `EventuallySettled` |
| `GroupChat` | `TypeOK`, `RowsFollowLog`, `ImplementsLog`, `DepartedLackKeys`, `DeliveredIsStored` | `EveryCopySettles` |
| `PublicChannel` | `TypeOK`, `OwnerBooks`, `SyncedCovers`, `MessagesMonotone`, `StoredHeadMonotone` | `CatchesUp`, `Announced` |
| `FriendHandshake` | `TypeOK`, `AckMeansBoth`, `NeverReopened` | `AcceptReachesInitiator` |
| `ChatRelay` | `TypeOK`, `NonceOnce`, `KeysBounded`, `HandedOnce` | `SendConcludes` |
| `Circuit` | `TypeOK`, `ConnectedIsDialled`, `InOrder`, `AdmittedByPolicy` | `EndCloses`, `DeadCircuitFailed`, `NoOrphanStream` |

Liveness under fairness, ENABLED and what a recursive definition computes for
every input are outside the prover's reach and stay with TLC: the last column is
liveness throughout, and every safety property a run checks is proved. The type
invariants of `DirectChat`, `GroupChat`, `FriendHandshake`, `ChatRelay` and
`Circuit` are proved and not part of the runs. A theorem that has conditions
states them in its formula (`Ordered`, `NoReuse` and no "purge" in `GroupChat`,
no recovery beside offline stores in `DirectChat`), and section 10 shows for
each what happens without it.

No proof takes anything on trust beyond the named assumptions on the constants
(`PoolAssumption`, `ChatAssumption`, ...), which TLC evaluates on every run.

Every property of a passing run has a mutant in `PROJECT.json`: a plausible slip
in one mapped definition under which TLC refutes the property on the same
instance.

## 12. Not modelled

Discovery and its signed descriptors, server mode of the messenger, profiles and
bindings, relay scores, the upstream relay of MeshChat, circuit records and the
relay cache: each is listed in `PROJECT.json` with its reason. The API, the
console, configuration, identity, IPFS, DNS, geo lookup, logging, update and the
wiring of the application hold no protocol state of their own.

## 13. Running

    tlc -workers 2 -config MCCircuitPool.cfg MCCircuitPool
    tlc -workers 2 -config MCChatSafety.cfg MCDirectChat
    tlc -workers 2 -config MCGroupChat.cfg MCGroupChat
    tlapm CircuitPoolProofs.tla
    tlapm DirectChatProofs.tla
    tlapm GroupChatProofs.tla
    tlapm PublicChannelProofs.tla
    tlapm FriendHandshakeProofs.tla
    tlapm ChatRelayProofs.tla
    tlapm CircuitProofs.tla
    tlapm CircuitStreamProofs.tla

The `MC...` modules give constants their values and define the scopes, and the
`.cfg` files choose the instances: `MCCircuitPool`, `MCPoolMaintain` (module
`MCCircuitPool`); `MCChatSafety`, `MCChatLive` (`MCDirectChat`); `MCGroupChat`;
`MCChannelSafety`, `MCChannelLive` (`MCPublicChannel`); `MCCircuitStreams`,
`MCCircuitLive` (`MCCircuit`); `MCFriendHandshake`; `MCChatRelay`, `MCChatReply`
(`MCChatRelay`).
