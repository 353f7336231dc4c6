--------------------------- MODULE PublicChannel ---------------------------
(***************************************************************************)
(* One public channel: its owner numbers the changes and signs profile,    *)
(* head and messages, subscribers copy them (internal/publicchannel).      *)
(*                                                                         *)
(* db[n] is what the SQLite file of node n holds of the channel: the row   *)
(* of public_channels, the tables of messages and changes and the sync     *)
(* state.  A signature is the signed content itself, so that "verifies"    *)
(* is "equals what was signed".  Owner calls run in Callers; a subscriber  *)
(* has two workers, "loop" (runSubscriptionLoop) and "api" (bootstrap,     *)
(* SyncChannel, the exchange with a new peer, LoadMessagesFromProviders).  *)
(* Every RPC is a step of its own that reads the state of the peer served. *)
(***************************************************************************)
EXTENDS Integers, FiniteSets, FiniteSetsExt

CONSTANTS
    Owner, Subs,    \* the owner and the subscribing nodes
    Ids,            \* message numbers, 1 .. N
    MaxSeq,         \* bound on the changes of the channel
    Callers,        \* goroutines that can run an owner API call
    Scopes          \* the situations the channel is looked at in, see Scope

Nodes == {Owner} \cup Subs
NoOne == "none"

OpNames == {"create", "update", "delete", "profile", "retention", "push", "provide",
            "subscribe", "unsubscribe", "sync", "load", "exchange"}
FaultNames == {"rpc", "loss", "push", "provide", "crash"}

\*   page      DefaultPageLimit: messages in a page
\*   chunk     DefaultChangesLimit: changes in a page
\*   ids       the messages the owner writes
\*   calls     owner API calls under way together
\*   loop      notes arrive over pubsub
\*   sources   nodes that providerPeerIDs can return
\*   lastSeen  last_seen_seq values a client subscribes with
\*   ops       the operations called
\*   faults    what goes wrong, at most budget times
\*   attempts  attempts of bootstrapSubscriptionAsync
Scope == [page : Nat \ {0}, chunk : Nat \ {0}, ids : SUBSET Ids, calls : Nat, loop : BOOLEAN,
          sources : SUBSET Nodes, lastSeen : SUBSET (0 .. MaxSeq), ops : SUBSET OpNames,
          faults : SUBSET FaultNames, budget : Nat, attempts : Nat \ {0}]

ASSUME ChannelAssumption ==
    /\ Owner \notin Subs /\ NoOne \notin Nodes
    /\ \E n \in Ids : n \in Nat /\ Ids = 1..n
    /\ MaxSeq \in Nat
    /\ \A s \in Scopes : s \in Scope

VARIABLES
    db,         \* [Nodes -> the tables]
    topic,      \* subscribers whose runSubscriptionLoop runs
    notes,      \* [Subs -> SUBSET seq]: published changes not yet read
    call,       \* [Callers -> an owner call]
    job,        \* [Subs -> [Workers -> a fetch under way]]
    aged,       \* messages older than the channel's retention time
    pushes,     \* goroutines of scheduleStorePush, by the seq of their change
    pushing,    \* the request the holder of the push mutex sends, or NoPush
    stored,     \* last_seq of the head at the store node (external)
    prov,       \* provideState of the owned channel
    signed,     \* history: every message version committed by the owner
    faults,
    scope       \* the situation

vars == <<db, topic, notes, call, job, aged, pushes, pushing, stored, prov, signed, faults, scope>>

Workers == {"loop", "api"}
Sources == scope.sources
Ops == scope.ops
Faults == scope.faults
PageLimit == scope.page
ChangesLimit == scope.chunk

Seqs == 0..MaxSeq
NoMsg == [ver |-> 0, seq |-> 0, del |-> FALSE]
NoProfile == [ver |-> 0, at |-> 0, limited |-> FALSE]
NoHead == [seq |-> 0, last |-> 0, pver |-> 0]
NoPush == -1

\* A profile is named by the change that wrote it; limited: it has a retention time.
Profiles == [ver : Nat, at : Seqs, limited : BOOLEAN]
Heads == [seq : Seqs, last : Ids \cup {0}, pver : Nat]
Messages == [ver : Nat, seq : Seqs, del : BOOLEAN]
Changes == [seq : Seqs, kind : {"profile", "message"}, id : Ids \cup {0}]

\* public_channels, public_channel_messages, public_channel_changes and
\* public_channel_sync_state of the channel.  pver is the profile_version
\* column, which the profile and the head share.
Tables == [here : BOOLEAN, prof : Profiles, pver : Nat, lastSeq : Seqs, lastMsg : Ids \cup {0},
           head : Heads, msgs : [Ids -> Messages], log : SUBSET Changes,
           seen : Seqs, synced : Seqs, sub : BOOLEAN]

NoChannel == [here |-> FALSE, prof |-> NoProfile, pver |-> 0, lastSeq |-> 0, lastMsg |-> 0,
              head |-> NoHead, msgs |-> [i \in Ids |-> NoMsg], log |-> {},
              seen |-> 0, synced |-> 0, sub |-> FALSE]

Held(d) == {i \in Ids : d.msgs[i] # NoMsg}
Placeholder(p) == p.ver = 0

\* What GetChannelProfile and GetChannelHead return, and whether it verifies.
GetChannelProfile(d) == [d.prof EXCEPT !.ver = d.pver]
GetChannelHead(d) == [seq |-> d.lastSeq, last |-> d.lastMsg, pver |-> d.pver]
ProfileVerifies(d) == ~Placeholder(d.prof) /\ d.prof = GetChannelProfile(d)
HeadVerifies(d) == d.head # NoHead /\ d.head = GetChannelHead(d)

\* The newest PageLimit messages with a number below before.
GetChannelMessages(d, before) ==
    LET below == {i \in Held(d) : i < before}
    IN  [i \in Ids |-> IF i \in below /\ Cardinality({k \in below : k > i}) < PageLimit
                       THEN d.msgs[i] ELSE NoMsg]
AllIds == Max(Ids) + 1

\* The ChangesLimit changes that follow; lastSeq is returned with every page.
GetChannelChanges(d, after) ==
    LET later == {c \in d.log : c.seq > after}
        page == {c \in later : Cardinality({x \in later : x.seq < c.seq}) < ChangesLimit}
    IN  [items |-> page, more |-> page # later, last |-> d.lastSeq,
         next |-> IF page = {} THEN after ELSE Max({c.seq : c \in page})]

\* The changes of a page are applied in the order of seq.
Earliest(changes) == CHOOSE c \in changes : \A x \in changes : c.seq <= x.seq

-----------------------------------------------------------------------------
(* The transactions of store.go, as functions from tables to tables.       *)

ApplyProfile(d, p) ==
    IF d.here /\ (p.ver < d.pver \/ (p.ver = d.pver /\ p = d.prof)) THEN d
    ELSE [d EXCEPT !.here = TRUE, !.prof = p, !.pver = p.ver]

\* Mutant: a head is stored although the row is a placeholder.
ApplyHead_Mutant(d, h) ==
    IF h.seq < d.lastSeq \/ (h.seq = d.lastSeq /\ h = d.head) THEN d
    ELSE [d EXCEPT !.lastSeq = h.seq, !.lastMsg = h.last, !.pver = h.pver, !.head = h]

ApplyHead(d, h) ==
    IF Placeholder(d.prof) \/ h.seq < d.lastSeq \/ (h.seq = d.lastSeq /\ h = d.head) THEN d
    ELSE [d EXCEPT !.lastSeq = h.seq, !.lastMsg = h.last, !.pver = h.pver, !.head = h]

\* Mutant: the version of the stored row is not compared.
ApplyMessage_Mutant(d, i, m) ==
    [d EXCEPT !.msgs[i] = m, !.lastSeq = Max({@, m.seq}), !.lastMsg = Max({@, i})]

ApplyMessage(d, i, m) ==
    IF m.ver <= d.msgs[i].ver THEN d
    ELSE [d EXCEPT !.msgs[i] = m, !.lastSeq = Max({@, m.seq}), !.lastMsg = Max({@, i})]

SameVersionOtherSignature(d, i, m) == d.msgs[i].ver = m.ver /\ d.msgs[i] # m

RecordChange(d, c) ==
    IF \E x \in d.log : x.seq = c.seq THEN d ELSE [d EXCEPT !.log = @ \cup {c}]

UpdateSyncState(d, seq, subscribed) ==
    [d EXCEPT !.seen = Max({@, seq}), !.synced = Max({@, seq}), !.sub = subscribed]

EnsureSubscribedChannel(d, lastSeen) ==
    [d EXCEPT !.here = TRUE, !.seen = Max({@, lastSeen}), !.sub = TRUE]

\* cleanupExpiredChannelMessages: the expired messages and their change rows.
Swept(d) ==
    LET gone == IF d.prof.limited THEN Held(d) \cap aged ELSE {}
    IN  [d EXCEPT !.msgs = [i \in Ids |-> IF i \in gone THEN NoMsg ELSE @[i]],
                  !.log = {c \in @ : c.id \notin gone}]

IsMessageExpired(p, i) == p.limited /\ i \in aged

\* Every message of a page that has not expired under profile p.
ApplyMessages(d, p, ms) ==
    LET new == {i \in Ids : ms[i] # NoMsg /\ ~IsMessageExpired(p, i) /\ ms[i].ver > d.msgs[i].ver}
    IN  [d EXCEPT !.msgs = [i \in Ids |-> IF i \in new THEN ms[i] ELSE @[i]],
                  !.lastSeq = Max({@} \cup {ms[i].seq : i \in new}),
                  !.lastMsg = Max({@} \cup new)]

\* Mutant: the change table without UNIQUE(seq).
SeqTaken_Mutant(d, seq) == \E i \in Held(d) : FALSE

\* UNIQUE(channel_db_id, seq) of the tables of changes and of messages.
SeqTaken(d, seq) == (\E c \in d.log : c.seq = seq) \/ (\E i \in Held(d) : d.msgs[i].seq = seq)

-----------------------------------------------------------------------------
(* The owner.                                                              *)

IdleCall == [pc |-> "idle", op |-> "none", id |-> 0, limited |-> FALSE,
             prof |-> NoProfile, head |-> NoHead, msg |-> NoMsg]

\* scheduleOwnedProvide: due now; an attempt under way overwrites it.
Scheduled(p) == [p EXCEPT !.due = TRUE]

CreateChannel(limited) ==
    /\ ~db[Owner].here
    /\ limited => "retention" \in Ops
    /\ db' = [db EXCEPT ![Owner] = [@ EXCEPT
                 !.here = TRUE, !.sub = TRUE, !.pver = 1, !.prof = [ver |-> 1, at |-> 0, limited |-> limited],
                 !.head = [seq |-> 0, last |-> 0, pver |-> 1]]]
    /\ prov' = Scheduled(prov)
    /\ pushes' = IF "push" \in Ops THEN {0} ELSE {}
    /\ UNCHANGED <<topic, notes, call, job, aged, pushing, stored, signed, faults, scope>>

Editing == {"update", "delete"}

\* A call reads the profile first; an edit needs the message.
BeginCall(c, op, i, limited) ==
    /\ op \in Ops /\ db[Owner].here /\ call[c].pc = "idle"
    /\ Cardinality({x \in Callers : call[x].pc # "idle"}) < scope.calls
    /\ db[Owner].lastSeq < MaxSeq
    /\ op = "create" => db[Owner].lastMsg + 1 \in scope.ids
    /\ op \in Editing => i \in Held(db[Owner])
    /\ op \notin Editing => i = Min(Ids)
    /\ limited => op = "profile" /\ "retention" \in Ops
    /\ call' = [call EXCEPT ![c] = [IdleCall EXCEPT !.pc = "head", !.op = op, !.limited = limited,
                   !.id = IF op \in Editing THEN i ELSE 0, !.prof = GetChannelProfile(db[Owner])]]
    /\ UNCHANGED <<db, topic, notes, job, aged, pushes, pushing, stored, prov, signed, faults, scope>>

\* ... then the head, and the message it edits; a deleted or expired one ends it.
ReadHead(c) ==
    LET d == db[Owner]  k == call[c]  m == d.msgs[k.id]
    IN  /\ k.pc = "head"
        /\ call' = [call EXCEPT ![c] =
              IF k.op \in Editing /\ (m = NoMsg \/ m.del) THEN IdleCall
              ELSE [k EXCEPT !.pc = "commit", !.head = GetChannelHead(d),
                             !.msg = IF k.op \in Editing THEN m ELSE NoMsg]]
        /\ UNCHANGED <<db, topic, notes, job, aged, pushes, pushing, stored, prov, signed, faults, scope>>

\* CommitOwnedMessageChange and CommitOwnedProfileChange: one transaction.
Committed(d, k, i, m, p, seq) ==
    [d EXCEPT !.prof = p, !.pver = IF k.op = "profile" THEN p.ver ELSE k.prof.ver,
        !.lastSeq = seq, !.lastMsg = Max({k.head.last, i}),
        !.head = [seq |-> seq, last |-> Max({k.head.last, i}),
                  pver |-> IF k.op = "profile" THEN p.ver ELSE k.prof.ver],
        !.msgs = IF i = 0 THEN @ ELSE [@ EXCEPT ![i] = m],
        !.log = @ \cup {[seq |-> seq, kind |-> IF i = 0 THEN "profile" ELSE "message", id |-> i]},
        !.seen = seq, !.synced = seq, !.sub = TRUE]

Commit(c) ==
    LET d == db[Owner]
        k == call[c]
        seq == k.head.seq + 1
        i == CASE k.op = "create" -> k.head.last + 1
               [] k.op \in Editing -> k.id
               [] OTHER -> 0
        m == [ver |-> k.msg.ver + 1, seq |-> seq, del |-> k.op = "delete"]
        p == IF k.op = "profile" THEN [ver |-> k.prof.ver + 1, at |-> seq, limited |-> k.limited] ELSE d.prof
        after == Committed(d, k, i, m, p, seq)
    IN  /\ k.pc = "commit" /\ seq <= MaxSeq /\ i \in Ids \cup {0}
        /\ call' = [call EXCEPT ![c] = IdleCall]
        /\ \/ /\ SeqTaken(d, seq)
              /\ UNCHANGED <<db, notes, pushes, prov, signed>>
           \/ /\ ~SeqTaken(d, seq)
              /\ db' = [db EXCEPT ![Owner] = IF i = 0 THEN Swept(after) ELSE after]
              /\ notes' = [s \in Subs |-> IF s \in topic /\ scope.loop THEN notes[s] \cup {seq} ELSE notes[s]]
              /\ pushes' = IF "push" \in Ops THEN pushes \cup {seq} ELSE pushes
              /\ prov' = Scheduled(prov)
              /\ signed' = IF i = 0 THEN signed
                           ELSE signed \cup {[id |-> i, ver |-> m.ver, seq |-> seq, del |-> m.del]}
        /\ UNCHANGED <<topic, job, aged, pushing, stored, faults, scope>>

\* ensureMessageAvailable of an edit: the row has expired here, another node has it.
RecallMessage(i, s) ==
    /\ Ops \cap Editing # {} /\ db[Owner].here /\ i \notin Held(db[Owner]) /\ i \in Held(db[s])
    /\ s \in Sources
    /\ ~IsMessageExpired(db[Owner].prof, i)
    /\ db' = [db EXCEPT ![Owner] = ApplyMessage(@, i, db[s].msgs[i])]
    /\ UNCHANGED <<topic, notes, call, job, aged, pushes, pushing, stored, prov, signed, faults, scope>>

\* Messages age in the order of their creation, and not within the
\* milliseconds of an owner call.
Age(i) ==
    /\ "retention" \in Ops /\ i \notin aged
    /\ i <= db[Owner].lastMsg /\ \A k \in Ids : k < i => k \in aged
    /\ \A c \in Callers : call[c].pc = "idle"
    /\ aged' = aged \cup {i}
    /\ UNCHANGED <<db, topic, notes, call, job, pushes, pushing, stored, prov, signed, faults, scope>>

\* runRetentionLoop
RetentionSweep(n) ==
    /\ db' = [db EXCEPT ![n] = Swept(@)] /\ db' # db
    /\ UNCHANGED <<topic, notes, call, job, aged, pushes, pushing, stored, prov, signed, faults, scope>>

\* Mutant: no mutex, a push under way is overtaken.
BeginPush_Mutant(k) ==
    /\ k \in pushes /\ pushes' = pushes \ {k} /\ pushing' = k
    /\ UNCHANGED <<db, topic, notes, call, job, aged, stored, prov, signed, faults, scope>>

\* runStorePush under the mutex of the channel: the head is read inside it.
BeginPush(k) ==
    LET change == {c \in db[Owner].log : c.seq = k /\ c.kind = "message"}
    IN  /\ k \in pushes /\ pushing = NoPush
        /\ pushes' = pushes \ {k}
        /\ pushing' = IF \E c \in change : c.id \notin Held(db[Owner]) THEN NoPush ELSE db[Owner].lastSeq
        /\ UNCHANGED <<db, topic, notes, call, job, aged, stored, prov, signed, faults, scope>>

EndPush ==
    /\ pushing # NoPush /\ pushing' = NoPush
    /\ \/ stored' = pushing /\ faults' = faults
       \/ "push" \in Faults /\ faults < scope.budget /\ faults' = faults + 1 /\ stored' = stored
    /\ UNCHANGED <<db, topic, notes, call, job, aged, pushes, prov, signed, scope>>

\* The provide loop: startDueProvides, runProvideAttempt, and the next time that comes.
StartDueProvides ==
    /\ "provide" \in Ops /\ prov.due /\ ~prov.inFlight
    /\ prov' = [prov EXCEPT !.inFlight = TRUE]
    /\ UNCHANGED <<db, topic, notes, call, job, aged, pushes, pushing, stored, signed, faults, scope>>

RunProvideAttempt ==
    /\ prov.inFlight
    /\ \/ prov' = [prov EXCEPT !.inFlight = FALSE, !.due = FALSE, !.announced = TRUE] /\ faults' = faults
       \/ /\ "provide" \in Faults /\ faults < scope.budget /\ faults' = faults + 1
          /\ prov' = [prov EXCEPT !.inFlight = FALSE, !.due = FALSE]
    /\ UNCHANGED <<db, topic, notes, call, job, aged, pushes, pushing, stored, signed, scope>>

\* Mutant: only a channel that was provided once is provided again.
ProvideTimeComes_Mutant ==
    /\ "provide" \in Ops /\ prov.announced /\ ~prov.due /\ ~prov.inFlight
    /\ prov' = [prov EXCEPT !.due = TRUE]
    /\ UNCHANGED <<db, topic, notes, call, job, aged, pushes, pushing, stored, signed, faults, scope>>

ProvideTimeComes ==
    /\ "provide" \in Ops /\ db[Owner].here /\ ~prov.due /\ ~prov.inFlight
    /\ prov' = [prov EXCEPT !.due = TRUE]
    /\ UNCHANGED <<db, topic, notes, call, job, aged, pushes, pushing, stored, signed, faults, scope>>

-----------------------------------------------------------------------------
(* Subscribers.  A job's pc names the step it takes next.                  *)

IdleJob == [pc |-> "idle", kind |-> "none", src |-> NoOne, left |-> {}, after |-> 0, next |-> 0,
            cur |-> 0, last |-> 0, page |-> 0, more |-> FALSE, items |-> {}, tries |-> 0,
            before |-> 0, prof |-> NoProfile, got |-> NoProfile, hd |-> NoHead, msg |-> NoMsg,
            msgs |-> [i \in Ids |-> NoMsg]]

Put(s, w, j) == job' = [job EXCEPT ![s][w] = j]
PutDb(s, d) == db' = [db EXCEPT ![s] = d]
Others == <<topic, call, aged, pushes, pushing, stored, prov, signed, scope>>

Peers(s) == Sources \ {s}

\* syncAfter: every provider in turn, each from the same afterSeq.
SyncJob(peers, after) ==
    IF peers = {} THEN IdleJob
    ELSE [IdleJob EXCEPT !.pc = "page", !.kind = "sync", !.left = peers, !.after = after,
                         !.next = after, !.cur = after]

\* The attempts of bootstrapSubscriptionAsync; after is the client's last_seen_seq.
SnapshotJob(peers, lastSeen, tries) ==
    IF tries > scope.attempts \/ peers = {} THEN IdleJob
    ELSE [IdleJob EXCEPT !.pc = "profile", !.kind = "snapshot", !.left = peers, !.after = lastSeen,
                         !.tries = tries]

\* A client subscribes to a channel of the owner that it does not follow.
SubscribeChannel(s, lastSeen) ==
    /\ "subscribe" \in Ops /\ db[Owner].here /\ s \notin topic /\ job[s]["api"] = IdleJob
    /\ PutDb(s, EnsureSubscribedChannel(db[s], lastSeen))
    /\ topic' = topic \cup {s}
    /\ Put(s, "api", SnapshotJob(Peers(s), lastSeen, 1))
    /\ UNCHANGED <<notes, call, aged, pushes, pushing, stored, prov, signed, faults, scope>>

UnsubscribeChannel(s) ==
    /\ "unsubscribe" \in Ops /\ db[s].sub
    /\ PutDb(s, [db[s] EXCEPT !.sub = FALSE])
    /\ topic' = topic \ {s} /\ notes' = [notes EXCEPT ![s] = {}]
    /\ UNCHANGED <<job, call, aged, pushes, pushing, stored, prov, signed, faults, scope>>

\* Mutant: the sync starts after what the client has seen.
SyncChannel_Mutant(s) ==
    /\ "sync" \in Ops /\ db[s].here /\ job[s]["api"] = IdleJob
    /\ Put(s, "api", SyncJob(Peers(s), db[s].seen))
    /\ UNCHANGED <<db, notes, faults, Others>>

SyncChannel(s) ==
    /\ "sync" \in Ops /\ db[s].here /\ job[s]["api"] = IdleJob
    /\ Put(s, "api", SyncJob(Peers(s), db[s].synced))
    /\ UNCHANGED <<db, notes, faults, Others>>

\* runSubscriptionLoop: a change the node has seen is skipped.
HandleNote(s, n) ==
    /\ n \in notes[s] /\ scope.loop /\ job[s]["loop"] = IdleJob
    /\ notes' = [notes EXCEPT ![s] = @ \ {n}]
    /\ Put(s, "loop", IF n <= db[s].seen THEN IdleJob ELSE SyncJob(Peers(s), db[s].synced))
    /\ UNCHANGED <<db, faults, Others>>

\* SyncPeerSubscriptions with a peer that just connected: from the head's last_seq.
ExchangeSubscriptions(s, p) ==
    /\ "exchange" \in Ops /\ p \in Peers(s) /\ job[s]["api"] = IdleJob
    /\ db[s].sub /\ db[p].sub /\ db[p].lastSeq > db[s].lastSeq
    /\ Put(s, "api", [SyncJob({p}, db[s].lastSeq) EXCEPT !.src = p, !.left = {}])
    /\ UNCHANGED <<db, notes, faults, Others>>

\* LoadMessagesFromProviders: the local page first, the profile when it is missing.
LoadMessages(s, before) ==
    /\ "load" \in Ops /\ db[s].here /\ job[s]["api"] = IdleJob /\ Peers(s) # {}
    /\ Cardinality({i \in Held(db[s]) : i < before}) < PageLimit
    /\ Put(s, "api", [IdleJob EXCEPT !.kind = "load", !.left = Peers(s), !.before = before,
                        !.pc = IF Placeholder(db[s].prof) THEN "profile" ELSE "messages",
                        !.prof = db[s].prof])
    /\ UNCHANGED <<db, notes, faults, Others>>

\* An attempt that fails: the next peer, or for a snapshot the next attempt.
NextPeer(s, j) ==
    CASE j.left # {} /\ j.kind = "sync" -> SyncJob(j.left, j.after)
      [] j.left # {} /\ j.kind = "snapshot" -> [SnapshotJob(j.left, j.after, j.tries) EXCEPT !.tries = j.tries]
      [] j.left # {} /\ j.kind = "load" ->
            [IdleJob EXCEPT !.kind = "load", !.left = j.left, !.before = j.before, !.prof = j.prof,
                            !.pc = IF Placeholder(j.prof) THEN "profile" ELSE "messages"]
      [] j.left = {} /\ j.kind = "snapshot" -> SnapshotJob(Peers(s), j.after, j.tries + 1)
      [] OTHER -> IdleJob

\* Mutant: the first page ends the sync.
EndPage_Mutant(j) == [j EXCEPT !.pc = "finish", !.cur = Max({j.cur, j.last})]

\* A page has been applied; only the last one lets the cursor move.
EndPage(j) ==
    LET cur == Max({j.cur, j.last})
    IN  IF j.more /\ j.page > j.next
        THEN [SyncJob(j.left \cup {j.src}, j.after) EXCEPT !.left = j.left, !.src = j.src, !.cur = cur, !.next = j.page]
        ELSE [SyncJob(j.left \cup {j.src}, j.after) EXCEPT !.left = j.left, !.pc = "finish", !.cur = cur]

\* A verification error ends a snapshot attempt or a load, without trying another peer.
GiveUp(s, j) == IF j.kind = "snapshot" THEN SnapshotJob(Peers(s), j.after, j.tries + 1) ELSE IdleJob

RpcSteps == {"page", "item", "head", "profile", "messages"}

\* An RPC fails: unreachable peer, timeout, or a row the peer does not have.
RpcFails(s, w) ==
    LET j == job[s][w]
    IN  /\ j.pc \in RpcSteps /\ "rpc" \in Faults /\ faults < scope.budget /\ faults' = faults + 1
        /\ \E p \in IF j.src = NoOne THEN j.left ELSE {j.src} :
              Put(s, w, IF j.kind = "sync" /\ j.pc = "head" THEN EndPage(j)
                        ELSE NextPeer(s, [j EXCEPT !.left = @ \ {p}]))
        /\ UNCHANGED <<db, notes, Others>>

\* The peer an RPC goes to: the one under way or any provider left.
Peer(j) == IF j.src = NoOne THEN j.left ELSE {j.src}
At(j, p) == [j EXCEPT !.src = p, !.left = @ \ {p}]

\* GetChannelChanges; applyChanges starts from the profile it reads now.
FetchPage(s, w) ==
    LET j == job[s][w]
    IN  /\ j.pc = "page"
        /\ \E p \in Peer(j) :
              LET r == GetChannelChanges(db[p], j.next)
              IN  Put(s, w, IF ~db[p].here THEN NextPeer(s, At(j, p))
                            ELSE [At(j, p) EXCEPT !.pc = IF r.items = {} THEN "head" ELSE "item",
                                     !.items = r.items, !.more = r.more, !.page = r.next,
                                     !.last = r.last, !.prof = db[s].prof])
        /\ UNCHANGED <<db, notes, faults, Others>>

\* The profile or the message of the next change, as the peer holds it now.
FetchItem(s, w) ==
    LET j == job[s][w]  c == Earliest(j.items)  p == db[j.src]
        fails == IF c.kind = "profile" THEN ~ProfileVerifies(p)
                 ELSE c.id \notin Held(p) \/ Placeholder(j.prof)
    IN  /\ j.pc = "item"
        /\ Put(s, w, IF fails THEN NextPeer(s, j)
                     ELSE IF c.kind = "profile" THEN [j EXCEPT !.pc = "apply", !.got = p.prof]
                     ELSE [j EXCEPT !.pc = "apply", !.msg = p.msgs[c.id]])
        /\ UNCHANGED <<db, notes, faults, Others>>

ApplyItem(s, w) ==
    LET j == job[s][w]  c == Earliest(j.items)  d == db[s]
        rest == [j EXCEPT !.items = @ \ {c}, !.got = NoProfile, !.msg = NoMsg,
                          !.pc = IF j.items = {c} THEN "head" ELSE "item"]
    IN  /\ j.pc = "apply"
        /\ \/ /\ c.kind = "profile"
              /\ PutDb(s, RecordChange(Swept(ApplyProfile(d, j.got)), c))
              /\ Put(s, w, [rest EXCEPT !.prof = j.got])
           \/ /\ c.kind = "message" /\ IsMessageExpired(j.prof, c.id)
              /\ db' = db /\ Put(s, w, rest)
           \/ /\ c.kind = "message" /\ ~IsMessageExpired(j.prof, c.id)
              /\ IF SameVersionOtherSignature(d, c.id, j.msg)
                 THEN db' = db /\ Put(s, w, NextPeer(s, j))
                 ELSE PutDb(s, RecordChange(ApplyMessage(d, c.id, j.msg), c)) /\ Put(s, w, rest)
        /\ UNCHANGED <<notes, faults, Others>>

\* The head after a page: an error is ignored, whatever it is.
FetchAndApplyHead(s, w) ==
    LET j == job[s][w]  p == db[j.src]
    IN  /\ j.pc = "head" /\ j.kind = "sync"
        /\ PutDb(s, IF HeadVerifies(p) THEN ApplyHead(db[s], p.head) ELSE db[s])
        /\ Put(s, w, EndPage(j))
        /\ UNCHANGED <<notes, faults, Others>>

\* The head of a snapshot, or of a load without profile.  A snapshot fetches
\* all three answers before it verifies them.
FetchHead(s, w) ==
    LET j == job[s][w]  p == db[j.src]
    IN  /\ j.pc = "head" /\ j.kind # "sync"
        /\ Put(s, w, IF j.kind = "snapshot"
                     THEN [j EXCEPT !.hd = IF HeadVerifies(p) THEN p.head ELSE NoHead, !.pc = "messages"]
                     ELSE IF HeadVerifies(p) THEN [j EXCEPT !.hd = p.head, !.pc = "applyhead"]
                     ELSE GiveUp(s, j))
        /\ UNCHANGED <<db, notes, faults, Others>>

ApplyHeadStep(s, w) ==
    LET j == job[s][w]
    IN  /\ j.pc = "applyhead"
        /\ \/ /\ j.kind = "snapshot"
              /\ PutDb(s, ApplyHead(db[s], j.hd))
              /\ Put(s, w, [j EXCEPT !.pc = "applymessages", !.got = NoProfile])
           \/ /\ j.kind = "load"      \* ensureChannelProfileAvailable
              /\ PutDb(s, ApplyHead(ApplyProfile(db[s], j.got), j.hd))
              /\ Put(s, w, [IdleJob EXCEPT !.kind = "load", !.pc = "messages", !.left = Peers(s),
                                           !.before = j.before, !.prof = j.got])
        /\ UNCHANGED <<notes, faults, Others>>

\* syncAfterWithPeer: the cursor moves to the largest last_seq a page announced.
Finish(s, w) ==
    LET j == job[s][w]
    IN  /\ j.pc = "finish"
        /\ PutDb(s, UpdateSyncState(db[s], j.cur, TRUE))
        /\ Put(s, w, IF j.cur > j.after THEN IdleJob ELSE NextPeer(s, j))
        /\ UNCHANGED <<notes, faults, Others>>

\* fetchInitialSnapshot, ensureChannelProfileAvailable: the profile of a peer.
FetchProfile(s, w) ==
    LET j == job[s][w]
    IN  /\ j.pc = "profile"
        /\ \E p \in Peer(j) :
              Put(s, w, IF ~db[p].here THEN NextPeer(s, At(j, p))
                        ELSE IF j.kind = "load" /\ ~ProfileVerifies(db[p]) THEN IdleJob
                        ELSE [At(j, p) EXCEPT !.pc = "head",
                                 !.got = IF ProfileVerifies(db[p]) THEN db[p].prof ELSE NoProfile])
        /\ UNCHANGED <<db, notes, faults, Others>>

FetchMessages(s, w) ==
    LET j == job[s][w]
    IN  /\ j.pc = "messages"
        /\ \E p \in Peer(j) :
              LET ms == GetChannelMessages(db[p], IF j.kind = "load" THEN j.before ELSE AllIds)
              IN  Put(s, w,
                    CASE j.kind = "load" /\ ~db[p].here -> NextPeer(s, At(j, p))
                      [] j.kind = "load" /\ db[p].here -> [At(j, p) EXCEPT !.pc = "applymessages", !.msgs = ms]
                      [] j.kind = "snapshot" /\ (Placeholder(j.got) \/ j.hd = NoHead) -> GiveUp(s, j)
                      [] OTHER -> [j EXCEPT !.pc = "applyprofile", !.msgs = ms])
        /\ UNCHANGED <<db, notes, faults, Others>>

ApplyProfileStep(s, w) ==
    LET j == job[s][w]
    IN  /\ j.pc = "applyprofile"
        /\ PutDb(s, Swept(ApplyProfile(db[s], j.got)))
        /\ Put(s, w, [j EXCEPT !.pc = "applyhead"])
        /\ UNCHANGED <<notes, faults, Others>>

\* The end of applyInitialSnapshot: the cursor, and a sync when the client resumes.
Resume(s, j) == IF j.after < j.hd.seq THEN j.after ELSE j.hd.seq
SnapshotCursor(s, j) == IF Resume(s, j) = 0 THEN j.hd.seq ELSE Resume(s, j)

ApplyMessagesStep(s, w) ==
    LET j == job[s][w]  d == db[s]
        clash == \E i \in Ids : j.msgs[i] # NoMsg /\ SameVersionOtherSignature(d, i, j.msgs[i])
        stored2 == ApplyMessages(d, IF j.kind = "load" THEN j.prof ELSE d.prof, j.msgs)
        full == Cardinality({i \in Held(stored2) : i < j.before}) >= PageLimit
    IN  /\ j.pc = "applymessages"
        /\ \/ /\ clash /\ db' = db /\ Put(s, w, GiveUp(s, j))
           \/ /\ ~clash /\ j.kind = "load"
              /\ PutDb(s, stored2)
              /\ Put(s, w, IF full THEN IdleJob ELSE NextPeer(s, j))
           \/ /\ ~clash /\ j.kind = "snapshot"
              /\ PutDb(s, UpdateSyncState(stored2, SnapshotCursor(s, j), TRUE))
              /\ Put(s, w, IF Resume(s, j) = 0 THEN IdleJob ELSE SyncJob(Peers(s), Resume(s, j)))
        /\ UNCHANGED <<notes, faults, Others>>

LoseNote(s, n) ==
    /\ n \in notes[s] /\ "loss" \in Faults /\ faults < scope.budget /\ faults' = faults + 1
    /\ notes' = [notes EXCEPT ![s] = @ \ {n}]
    /\ UNCHANGED <<db, job, Others>>

\* A restart keeps the tables; subscribed topics are not joined again,
\* owned channels are provided again.
Restart(n) ==
    /\ "crash" \in Faults /\ faults < scope.budget /\ faults' = faults + 1 /\ db[n].here
    /\ topic' = topic \ {n}
    /\ IF n = Owner
       THEN /\ call' = [c \in Callers |-> IdleCall] /\ pushes' = {} /\ pushing' = NoPush
            /\ prov' = [due |-> TRUE, inFlight |-> FALSE, announced |-> FALSE]
            /\ UNCHANGED <<job, notes>>
       ELSE /\ job' = [job EXCEPT ![n] = [w \in Workers |-> IdleJob]]
            /\ notes' = [notes EXCEPT ![n] = {}]
            /\ UNCHANGED <<call, pushes, pushing, prov>>
    /\ UNCHANGED <<db, aged, stored, signed, scope>>

-----------------------------------------------------------------------------
Init ==
    /\ db = [n \in Nodes |-> NoChannel]
    /\ topic = {} /\ notes = [s \in Subs |-> {}]
    /\ call = [c \in Callers |-> IdleCall]
    /\ job = [s \in Subs |-> [w \in Workers |-> IdleJob]]
    /\ aged = {} /\ pushes = {} /\ pushing = NoPush /\ stored = 0
    /\ prov = [due |-> FALSE, inFlight |-> FALSE, announced |-> FALSE]
    /\ signed = {} /\ faults = 0 /\ scope \in Scopes

\* The steps of a job under way.
JobStep(s, w) ==
    \/ FetchPage(s, w) \/ FetchItem(s, w) \/ ApplyItem(s, w) \/ FetchAndApplyHead(s, w)
    \/ FetchHead(s, w) \/ ApplyHeadStep(s, w)
    \/ Finish(s, w) \/ FetchProfile(s, w) \/ FetchMessages(s, w) \/ ApplyProfileStep(s, w)
    \/ ApplyMessagesStep(s, w)

OwnerStep ==
    \/ \E limited \in BOOLEAN : CreateChannel(limited)
    \/ \E c \in Callers :
          \/ \E op \in {"create", "profile"} \cup Editing, i \in Ids, limited \in BOOLEAN :
                BeginCall(c, op, i, limited)
          \/ ReadHead(c) \/ Commit(c)
    \/ \E i \in Ids, s \in Subs : RecallMessage(i, s)
    \/ \E k \in Seqs : BeginPush(k)
    \/ EndPush \/ StartDueProvides \/ RunProvideAttempt \/ ProvideTimeComes

SubStep(s) ==
    \/ \E l \in scope.lastSeen : SubscribeChannel(s, l)
    \/ UnsubscribeChannel(s) \/ SyncChannel(s)
    \/ \E n \in Seqs : HandleNote(s, n) \/ LoseNote(s, n)
    \/ \E p \in Nodes : ExchangeSubscriptions(s, p)
    \/ \E b \in scope.ids \cup {AllIds} : LoadMessages(s, b)
    \/ \E w \in Workers : JobStep(s, w) \/ RpcFails(s, w)

Next ==
    \/ OwnerStep
    \/ \E s \in Subs : SubStep(s)
    \/ \E i \in Ids : Age(i)
    \/ \E n \in Nodes : RetentionSweep(n) \/ Restart(n)

Spec == Init /\ [][Next]_vars

\* Goroutines under way go on; a client refreshes its channels again and again.
Fairness ==
    /\ \A s \in Subs : SF_vars(SyncChannel(s))
    /\ \A s \in Subs, w \in Workers : WF_vars(JobStep(s, w))
    /\ WF_vars(StartDueProvides) /\ WF_vars(RunProvideAttempt) /\ WF_vars(ProvideTimeComes)

FairSpec == Spec /\ Fairness

-----------------------------------------------------------------------------
(* Properties.                                                             *)

Calls == [pc : {"idle", "head", "commit"}, op : {"none", "create", "profile"} \cup Editing,
          id : Ids \cup {0}, limited : BOOLEAN, prof : Profiles, head : Heads, msg : Messages]

JobKinds == {"none", "sync", "snapshot", "load"}
JobSteps == RpcSteps \cup {"idle", "apply", "finish", "applyprofile", "applyhead", "applymessages"}
Jobs == [pc : JobSteps, kind : JobKinds, src : Nodes \cup {NoOne}, left : SUBSET Nodes,
         after : Seqs, next : Seqs, cur : Seqs, last : Seqs, page : Seqs, more : BOOLEAN,
         items : SUBSET Changes, tries : Nat, before : Nat, prof : Profiles, got : Profiles,
         hd : Heads, msg : Messages, msgs : [Ids -> Messages]]

\* The tables, the calls and the jobs hold what their columns and locals can
\* hold: a placeholder row neither messages nor a head, and a job no more
\* providers and attempts than there are.
TypeOK ==
    /\ db \in [Nodes -> Tables]
    /\ \A n \in Nodes : Placeholder(db[n].prof) => Held(db[n]) = {} /\ db[n].head = NoHead
    /\ topic \subseteq Subs /\ notes \in [Subs -> SUBSET Seqs] /\ aged \subseteq Ids
    /\ call \in [Callers -> Calls]
    /\ job \in [Subs -> [Workers -> Jobs]]
    /\ \A s \in Subs, w \in Workers :
          LET j == job[s][w]
          IN  /\ j.left \subseteq Sources /\ j.tries <= scope.attempts
              /\ j.pc \in {"item", "apply"} => j.items # {}
    /\ pushes \subseteq Seqs /\ pushing \in Seqs \cup {NoPush} /\ stored \in Seqs
    /\ faults \in 0..scope.budget /\ scope \in Scopes

\* While no message has expired, overlapping owner calls (API handlers without
\* a lock) never sign two versions under one number: a sequence number and a
\* version of a message each belong to one change, and the owner's row is the
\* last one signed.
OwnerBooks ==
    aged = {} =>
    /\ \A x, y \in signed : (x.seq = y.seq \/ (x.id = y.id /\ x.ver = y.ver)) => x = y
    /\ \A x \in signed :
          /\ db[Owner].msgs[x.id].ver >= x.ver
          /\ [seq |-> x.seq, kind |-> "message", id |-> x.id] \in db[Owner].log

\* While no message has expired, everything up to a subscriber's last_synced_seq
\* is stored there in that version or a later one, when it syncs with the owner
\* and one page holds the channel: sync pages, the snapshot and the pubsub loop
\* may not move the cursor over a change they have not applied.
SyncedCovers ==
    "exchange" \notin Ops /\ Sources \subseteq {Owner} /\ Cardinality(Ids) <= PageLimit /\ aged = {} =>
    \A s \in Subs : \A x \in signed :
        x.seq <= db[s].synced => db[s].msgs[x.id].ver >= x.ver

\* While no message has expired, a stored message is never replaced by an older
\* version and a deleted one never comes back, whichever replica answers in
\* whichever order.
MessagesMonotone ==
    [][aged = {} =>
       \A n \in Nodes, i \in Ids :
          i \in Held(db[n]) /\ i \in Held(db'[n]) =>
             /\ db'[n].msgs[i].ver >= db[n].msgs[i].ver
             /\ db[n].msgs[i].del => db'[n].msgs[i].del]_vars

\* While no message has expired, the head at the store node never goes back,
\* although every change pushes from a goroutine of its own.
StoredHeadMonotone == [][aged = {} => stored' >= stored]_stored

\* last_seq of the owner never goes back, which is what its subscribers take it
\* for; the code keeps it only while no message has expired.
LastSeqMonotone == [][db'[Owner].lastSeq >= db[Owner].lastSeq]_vars

Current(s) == \A i \in Held(db[Owner]) \ aged : db[s].msgs[i] = db[Owner].msgs[i]

\* When the owner has stopped writing, every subscriber ends with its messages,
\* although notes get lost, an RPC fails and a snapshot overlaps the changes.
CatchesUp == <>[](\A s \in Subs : db[s].sub => Current(s))

\* An owned channel is announced in the DHT in the end, whatever attempts fail.
Announced == db[Owner].here ~> prov.announced
=============================================================================
