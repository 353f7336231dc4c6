----------------------------- MODULE GroupChat -----------------------------
(***************************************************************************)
(* One group (internal/chat/group_service.go, group_store.go): the events  *)
(* its controller numbers and broadcasts, the replica every member builds  *)
(* from them, and the messages members send to each other under the key of *)
(* the current epoch.                                                      *)
(*                                                                         *)
(* A transaction of the store is atomic.  An API call reads the replica,   *)
(* builds an event and commits it later (Prepare..., Commit).  A handler   *)
(* of an incoming event is one step: everything it reads before its        *)
(* transaction changes only together with last_event_seq, and              *)
(* UNIQUE(group_id, event_seq) then refuses the transaction.               *)
(***************************************************************************)
EXTENDS Integers, FiniteSets, Sequences

CONSTANTS
    Peers,      \* the nodes
    NoPeer,     \* no node
    NoEvent,    \* no event
    Msgs,       \* message ids
    Author,     \* the sender of each message
    MaxSeq,     \* bound on event_seq
    Scopes      \* the situations the group is looked at in, see Scope

OpNames == {"create", "invite", "accept", "leave", "remove", "title", "retention",
            "dissolve", "transfer", "revoke", "text", "sync", "purge"}

\* An error of a send (then of the offline store too); an error although the
\* envelope arrived; the loss of an accepted envelope; an acknowledgement that
\* is not sent; the death of a process.
FaultNames == {"send", "late", "loss", "ack", "crash"}

\*   peers      the nodes that run
\*   roster     who is in the group at the start, the controller first; <<>>: no group yet
\*   admins     the invited peers that get the role admin
\*   ops        the operations users call
\*   delegated  retention changes and revokes by others than the controller happen
\*   races      {"send"}: two SendGroupText of one member may overlap
\*   faults     what goes wrong
\*   top        the last event_seq there is room for
Scope == [peers : SUBSET Peers, roster : Seq(Peers), admins : SUBSET Peers,
          ops : SUBSET OpNames, delegated : BOOLEAN, races : SUBSET {"send"},
          faults : SUBSET FaultNames, top : 0 .. MaxSeq]

ASSUME GroupAssumption ==
    /\ IsFiniteSet(Peers) /\ NoPeer \notin Peers /\ IsFiniteSet(Msgs)
    /\ Author \in [Msgs -> Peers]
    /\ MaxSeq \in Nat \ {0}
    /\ \A s \in Scopes :
          /\ s \in Scope
          /\ \A i, j \in DOMAIN s.roster : s.roster[i] = s.roster[j] => i = j
          /\ \A i \in DOMAIN s.roster : s.roster[i] \in s.peers
          /\ s.top >= 2 * Len(s.roster)

VARIABLES
    \* --- the databases ----------------------------------------------------
    db,        \* the replica of each node, see Replicas
    deliv,     \* group_message_deliveries of a message, at its author
    evjobs,    \* group_event_deliveries to be retried: <<node, event, recipient>>
    \* --- goroutines ---------------------------------------------------------
    prep,      \* the event an API call of the node has built and not committed
    sealed,    \* the text SendGroupText has sealed, per message
    added,     \* the messages SendGroupText has stored
    marking,   \* <<message, recipient>>: transmitted, delivery not updated yet
    answer,    \* the response SyncGroup of the node is applying
    \* --- under way ----------------------------------------------------------
    ctl,       \* control events: <<recipient, event>>
    requests,  \* <<"join" or "leave", requester, recipient>>
    texts,     \* group texts: <<recipient, text>>
    acks,      \* delivery acks: <<message, receiver>>
    \* --- the rest -------------------------------------------------------------
    aged,      \* the messages older than the retention time
    nilIsNull, \* the SQLite driver stores a nil slice as NULL, not as an empty blob
    scope,     \* the situation
    log        \* history: every event a node has numbered

stores == <<db, deliv, evjobs>>
threads == <<prep, sealed, added, marking, answer>>
network == <<ctl, requests, texts, acks>>
env == <<aged, nilIsNull, scope>>
vars == <<stores, threads, network, env, log>>

Roster == scope.roster
RosterSet == {Roster[i] : i \in DOMAIN Roster}
Admins == scope.admins
Ops == scope.ops
Faults == scope.faults

-----------------------------------------------------------------------------
(* Data                                                                     *)

Roles == {"none", "controller", "admin", "member"}
MemberStates == {"none", "invited", "active", "left", "removed"}
DeliveryStates == {"none", "pending", "retry", "sent", "delivered"}
Types == {"create", "invite", "join", "leave", "remove", "title", "retention",
          "dissolve", "transfer", "revoke"}
\* The events that start a new epoch with a new key.
Rotations == {"leave", "remove", "transfer"}

\* A key is named after the event that generated it.  A row of group_epochs may
\* be missing, or hold no key for the local peer.
NoRow == -1
NoKey == 0
Epochs == 1 .. MaxSeq

\*   target   the invited, joining, leaving or removed peer, the new controller,
\*            the author of the revoked message
\*   holders  the peers payload.EpochKeys has a key for; for an invite KnownMembers
\*   val      the new title (named after its event) or retention, or the revoked message
Events == [seq : 0 .. MaxSeq, type : Types, signer : Peers, target : Peers,
           role : Roles, epoch : Epochs, key : NoKey .. MaxSeq,
           holders : SUBSET Peers, val : Msgs \cup (0 .. MaxSeq)]

\* What the wire carries of a text: the sender_seq is the nonce under the key.
Texts == [id : Msgs, sseq : 1 .. Cardinality(Msgs), epoch : Epochs, key : 1 .. MaxSeq]

Replicas == [known : BOOLEAN, ctrl : Peers \cup {NoPeer}, epoch : 0 .. MaxSeq,
             state : {"active", "archived"}, last : 0 .. MaxSeq, title : 0 .. MaxSeq,
             retention : 0 .. 1, role : [Peers -> Roles], status : [Peers -> MemberStates],
             events : SUBSET Events, keys : [Epochs -> NoRow .. MaxSeq],
             msgs : SUBSET Texts, revoked : SUBSET Msgs,
             cursor : [Peers -> 0 .. Cardinality(Msgs)]]

NoAnswer == [events |-> <<>>, texts |-> {}]

Absent == [known |-> FALSE, ctrl |-> NoPeer, epoch |-> 0, state |-> "active", last |-> 0,
           title |-> 0, retention |-> 0, role |-> [p \in Peers |-> "none"],
           status |-> [p \in Peers |-> "none"], events |-> {},
           keys |-> [n \in Epochs |-> NoRow], msgs |-> {}, revoked |-> {},
           cursor |-> [p \in Peers |-> 0]]

Active(d) == {p \in Peers : d.status[p] = "active"}
Invited(d) == {p \in Peers : d.status[p] = "invited"}
Members(d) == Active(d) \cup Invited(d)  \* peersFromMembers
IdsOf(d) == {t.id : t \in d.msgs}

Create(p) == [seq |-> 1, type |-> "create", signer |-> p, target |-> p,
              role |-> "controller", epoch |-> 1, key |-> 1, holders |-> {p}, val |-> 1]

\* The fields an event of type t by p has in common with every other.
Event(p, t, q, v) ==
    [seq |-> db[p].last + 1, type |-> t, signer |-> p, target |-> q, role |-> "none",
     epoch |-> db[p].epoch, key |-> NoKey, holders |-> {}, val |-> v]

InviteEvent(p, q) ==
    [Event(p, "invite", q, db[p].title) EXCEPT
        !.role = IF q \in Admins THEN "admin" ELSE "member",
        !.key = db[p].keys[db[p].epoch],
        !.holders = Active(db[p]) \cup {q}]

\* A fresh key for the active peers, except the one that goes.
RotationEvent_Mutant(p, t, q) ==
    [Event(p, t, q, 0) EXCEPT
        !.epoch = db[p].epoch + 1,
        !.key = db[p].last + 1,
        !.holders = Active(db[p])]
RotationEvent(p, t, q) ==
    [Event(p, t, q, 0) EXCEPT
        !.epoch = db[p].epoch + 1,
        !.key = db[p].last + 1,
        !.holders = Active(db[p]) \ (IF t = "transfer" THEN {} ELSE {q})]

-----------------------------------------------------------------------------
(* The store: the transactions of group_store.go                           *)

\* insertGroupEventTx and updateGroupMetaTx
InsertEvent_Mutant(d, e) == [d EXCEPT !.last = e.seq]
InsertEvent(d, e) == [d EXCEPT !.events = @ \cup {e}, !.last = e.seq]

UpsertGroupMember(d, e) ==
    [InsertEvent(d, e) EXCEPT !.role[e.target] = e.role, !.status[e.target] = "invited"]

\* An UPDATE of a member that has no row changes nothing.
ActivateGroupMember(d, e) ==
    [InsertEvent(d, e) EXCEPT !.status[e.target] = IF @ = "none" THEN @ ELSE "active"]

NewEpoch(p, d, e) ==
    [InsertEvent(d, e) EXCEPT
        !.epoch = e.epoch,
        !.keys[e.epoch] = IF p \in e.holders THEN e.key ELSE NoKey]

FinishGroupMembershipChange(p, d, e) ==
    [NewEpoch(p, d, e) EXCEPT
        !.status[e.target] = IF @ = "none" THEN @
                             ELSE IF e.type = "leave" THEN "left" ELSE "removed"]

SetRole(d, q, r) == IF d.role[q] = "none" THEN "none" ELSE r
TransferGroupController(p, d, e) ==
    [NewEpoch(p, d, e) EXCEPT
        !.ctrl = e.target,
        !.role = [@ EXCEPT ![e.signer] = SetRole(d, e.signer, "member"),
                           ![e.target] = SetRole(d, e.target, "controller")]]

UpdateGroupTitle(d, e) == [InsertEvent(d, e) EXCEPT !.title = e.val]

\* cleanupExpiredGroupMessages
DropAged(d) ==
    IF d.retention = 0 THEN d ELSE [d EXCEPT !.msgs = {t \in @ : t.id \notin aged}]
UpdateGroupRetention(d, e) == DropAged([InsertEvent(d, e) EXCEPT !.retention = e.val])

DissolveGroup(d, e) == [InsertEvent(d, e) EXCEPT !.state = "archived", !.msgs = {}]

StoreRevoke(d, e) ==
    [InsertEvent(d, e) EXCEPT !.revoked = @ \cup {e.val}, !.msgs = {t \in @ : t.id # e.val}]

\* The transaction of an event at p.
StoreEvent(p, d, e) ==
    CASE e.type = "invite" -> UpsertGroupMember(d, e)
      [] e.type = "join" -> ActivateGroupMember(d, e)
      [] e.type \in {"leave", "remove"} -> FinishGroupMembershipChange(p, d, e)
      [] e.type = "transfer" -> TransferGroupController(p, d, e)
      [] e.type = "title" -> UpdateGroupTitle(d, e)
      [] e.type = "retention" -> UpdateGroupRetention(d, e)
      [] e.type = "dissolve" -> DissolveGroup(d, e)
      [] e.type = "revoke" -> StoreRevoke(d, e)

\* The constraints of its tables: UNIQUE(group_id, event_seq), the primary key
\* of group_epochs, and NOT NULL for the local peer's key.
Commits(p, d, e) ==
    /\ \A f \in d.events : f.seq # e.seq
    /\ e.type \in Rotations => d.keys[e.epoch] = NoRow /\ (p \in e.holders \/ ~nilIsNull)

\* AddGroupMessage: INSERT OR REPLACE over msg_id and (sender, sender_seq), and
\* the greatest sender_seq as the cursor.
AddGroupMessage(d, t) ==
    LET s == Author[t.id] IN
    [d EXCEPT
        !.msgs = {u \in @ : u.id # t.id /\ ~(Author[u.id] = s /\ u.sseq = t.sseq)} \cup {t},
        !.cursor[s] = IF t.sseq > @ THEN t.sseq ELSE @]

\* Rows of group_message_deliveries go with the rows of group_messages.
Kept(p, d) ==
    [m \in Msgs |-> IF Author[m] = p /\ m \in added /\ m \notin IdsOf(d)
                     THEN [q \in Peers |-> "none"] ELSE deliv[m]]

\* p's replica becomes d.
Put(p, d) == db' = [db EXCEPT ![p] = d] /\ deliv' = Kept(p, d)

-----------------------------------------------------------------------------
(* What a group looks like once everybody on the roster has joined, each   *)
(* invited after the one before had joined.                                *)

Founder == Roster[1]
RosterEvents ==
    {Create(Founder)} \cup
    UNION {{[seq |-> 2 * (i - 1), type |-> "invite", signer |-> Founder, target |-> Roster[i],
             role |-> IF Roster[i] \in Admins THEN "admin" ELSE "member",
             epoch |-> 1, key |-> 1, holders |-> {Roster[j] : j \in 1 .. i}, val |-> 1],
            [seq |-> 2 * i - 1, type |-> "join", signer |-> Founder, target |-> Roster[i],
             role |-> "none", epoch |-> 1, key |-> NoKey, holders |-> {}, val |-> 0]}
           : i \in 2 .. Len(Roster)}

\* The row of j at i: the invite tells i that who was there before are members.
RosterRole(i, j) == IF j = 1 THEN "controller"
                    ELSE IF Roster[j] \in Admins /\ i \in {1} \cup (2 .. j) THEN "admin"
                    ELSE "member"
Index(p) == CHOOSE i \in DOMAIN Roster : Roster[i] = p
RosterReplica(p) ==
    IF p \notin RosterSet THEN Absent
    ELSE [Absent EXCEPT
        !.known = TRUE, !.ctrl = Founder, !.epoch = 1, !.title = 1,
        !.last = 2 * Len(Roster) - 1,
        !.role = [q \in Peers |-> IF q \in RosterSet THEN RosterRole(Index(p), Index(q))
                                   ELSE "none"],
        !.status = [q \in Peers |-> IF q \in RosterSet THEN "active" ELSE "none"],
        !.events = {e \in RosterEvents : p = Founder \/ e.seq >= 2 * (Index(p) - 1)},
        !.keys[1] = 1]

Init ==
    /\ scope \in Scopes
    /\ db = [p \in Peers |-> IF Roster = <<>> THEN Absent ELSE RosterReplica(p)]
    /\ deliv = [m \in Msgs |-> [q \in Peers |-> "none"]]
    /\ evjobs = {}
    /\ prep = [p \in Peers |-> NoEvent]
    /\ sealed = [m \in Msgs |-> <<>>]
    /\ added = {}
    /\ marking = {}
    /\ answer = [p \in Peers |-> NoAnswer]
    /\ ctl = {} /\ requests = {} /\ texts = {} /\ acks = {}
    /\ aged = {}
    /\ nilIsNull \in BOOLEAN
    /\ log = IF Roster = <<>> THEN {} ELSE RosterEvents

-----------------------------------------------------------------------------
(* Sending                                                                  *)

\* sendEnvelope, then submitOfflineGroupWire: whom it reached and for whom it
\* failed.  A process that dies on the way has tried only some.
Sent(R, sent, failed) ==
    /\ sent \cup failed \subseteq R
    /\ sent \cup failed = R \/ "crash" \in Faults
    /\ failed # {} => "send" \in Faults
    /\ sent \cap failed # {} => "late" \in Faults

\* broadcastGroupEvent; an invite also goes to the invitee, as a direct message.
BroadcastGroupEvent(p, e, R) ==
    \E sent \in SUBSET R : \E failed \in SUBSET R :
        /\ Sent(R, sent, failed)
        /\ ctl' = ctl \cup {<<q, e>> : q \in sent \cup (IF e.type = "invite" THEN {e.target} ELSE {})}
        /\ evjobs' = evjobs \cup {<<p, e, q>> : q \in failed}

\* The members before the change, and the one it is about.
Recipients(p, e) ==
    (Members(db[p]) \cup (IF e.type \in {"leave", "remove"} THEN {e.target} ELSE {})) \ {p}

-----------------------------------------------------------------------------
(* API calls that make an event                                             *)

CreateGroup(p) ==
    /\ "create" \in Ops /\ p \in scope.peers
    /\ log = {}
    /\ log' = {Create(p)}
    /\ db' = [db EXCEPT ![p] =
            [Absent EXCEPT !.known = TRUE, !.ctrl = p, !.epoch = 1, !.last = 1, !.title = 1,
                           !.role[p] = "controller", !.status[p] = "active",
                           !.events = {Create(p)}, !.keys[1] = 1]]
    /\ UNCHANGED <<deliv, evjobs, threads, network, env>>

\* The call has read the replica and built e.
Prepare(p, op, e) ==
    /\ op \in Ops
    /\ db[p].known /\ db[p].state = "active"
    /\ prep[p] = NoEvent
    /\ e.seq <= scope.top
    /\ prep' = [prep EXCEPT ![p] = e]
    /\ UNCHANGED <<stores, sealed, added, marking, answer, network, env, log>>

InviteGroupMember(p, q) ==
    /\ db[p].ctrl = p /\ q \in scope.peers \ {p} /\ q \notin Members(db[p])
    /\ db[p].keys[db[p].epoch] # NoRow
    /\ Prepare(p, "invite", InviteEvent(p, q))

RemoveGroupMember(p, q) ==
    /\ db[p].ctrl = p /\ q # p /\ q \in Members(db[p])
    /\ Prepare(p, "remove", RotationEvent(p, "remove", q))

PrepareTitle(p) ==
    /\ db[p].ctrl = p
    /\ Prepare(p, "title", Event(p, "title", p, db[p].last + 1))

PrepareDissolve(p) ==
    /\ db[p].ctrl = p
    /\ Prepare(p, "dissolve", Event(p, "dissolve", p, 0))

PrepareTransfer(p, q) ==
    /\ db[p].ctrl = p /\ q # p /\ q \in Active(db[p])
    /\ Prepare(p, "transfer", RotationEvent(p, "transfer", q))

PrepareRetention(p, v) ==
    /\ p \in Active(db[p]) /\ db[p].role[p] \in {"controller", "admin"}
    /\ scope.delegated \/ db[p].ctrl = p
    /\ Prepare(p, "retention", Event(p, "retention", p, v))

\* ensureLocalGroupMessageRevokeAllowed, and the same rule for a remote revoke
MayRevoke(d, p, s) ==
    \/ p = s
    \/ d.role[p] = "controller"
    \/ d.role[p] = "admin" /\ d.role[s] \notin {"none", "controller"}

\* refreshGroupMessageState says "local_only" or "queued_for_retry".
Unsent(m) ==
    \A q \in Peers : deliv[m][q] \in {"none", "retry"}

PrepareRevoke(p, m) ==
    /\ p \in Active(db[p]) /\ m \in IdsOf(db[p])
    /\ ~(Author[m] = p /\ Unsent(m))
    /\ MayRevoke(db[p], p, Author[m])
    /\ scope.delegated \/ db[p].ctrl = p
    /\ Prepare(p, "revoke", Event(p, "revoke", Author[m], m))

\* RevokeGroupMessage of a message nobody was sent: DeleteGroupMessage.
DeleteUnsent(p, m) ==
    /\ "revoke" \in Ops /\ db[p].known /\ db[p].state = "active"
    /\ p \in Active(db[p]) /\ m \in IdsOf(db[p]) /\ Author[m] = p /\ Unsent(m)
    /\ Put(p, [db[p] EXCEPT !.msgs = {t \in @ : t.id # m}])
    /\ UNCHANGED <<evjobs, threads, network, env, log>>

\* The transaction of the prepared event and its broadcast, or the error.
CommitEvent(p) ==
    LET e == prep[p] IN
    /\ e # NoEvent
    /\ prep' = [prep EXCEPT ![p] = NoEvent]
    /\ IF Commits(p, db[p], e)
       THEN /\ Put(p, StoreEvent(p, db[p], e))
            /\ BroadcastGroupEvent(p, e, Recipients(p, e))
            /\ log' = log \cup {e}
       ELSE UNCHANGED <<stores, ctl, log>>
    /\ UNCHANGED <<sealed, added, marking, answer, requests, texts, acks, env>>

-----------------------------------------------------------------------------
(* Joining and leaving                                                      *)

\* AcceptGroupInvite and LeaveGroup ask the controller; for the rest of
\* AcceptGroupInvite, syncAcceptedInviteState, see SyncGroup.
AcceptGroupInvite(p) ==
    /\ "accept" \in Ops
    /\ db[p].known /\ db[p].state = "active" /\ p \in Invited(db[p]) /\ db[p].ctrl # p
    /\ requests' = requests \cup {<<"join", p, db[p].ctrl>>}
    /\ UNCHANGED <<stores, threads, ctl, texts, acks, env, log>>

LeaveGroup(p) ==
    /\ "leave" \in Ops
    /\ db[p].known /\ db[p].state = "active" /\ p \in Active(db[p])
    /\ db[p].role[p] # "controller" /\ db[p].ctrl # p
    /\ requests' = requests \cup {<<"leave", p, db[p].ctrl>>}
    /\ UNCHANGED <<stores, threads, ctl, texts, acks, env, log>>

\* handleRemoteGroupJoinRequest and handleRemoteGroupLeaveRequest
HandleRequest(r) ==
    LET p == r[3]
        q == r[2]
        d == db[p]
        e == IF r[1] = "join" THEN Event(p, "join", q, 0) ELSE RotationEvent(p, "leave", q)
        accepts == /\ d.known /\ d.state = "active" /\ d.ctrl = p
                   /\ q \in IF r[1] = "join" THEN Invited(d) ELSE Active(d)
    IN
    /\ r \in requests
    /\ requests' = requests \ {r}
    /\ d.last < scope.top
    /\ IF accepts /\ Commits(p, d, e)
       THEN /\ Put(p, StoreEvent(p, d, e))
            /\ BroadcastGroupEvent(p, e, Recipients(p, e))
            /\ log' = log \cup {e}
       ELSE UNCHANGED <<stores, ctl, log>>
    /\ UNCHANGED <<threads, texts, acks, env>>

-----------------------------------------------------------------------------
(* Receiving events                                                         *)

\* verifyGroupControlAuthority
Authorised(d, e) ==
    IF ~d.known THEN e.type = "invite"
    ELSE CASE e.type = "retention" ->
                  e.signer \in Active(d) /\ d.role[e.signer] \in {"controller", "admin"}
           [] e.type = "revoke" ->
                  /\ e.signer \in Active(d)
                  /\ e.signer = e.target \/ d.status[e.target] # "none"
                  /\ MayRevoke(d, e.signer, e.target)
           [] OTHER -> e.signer = d.ctrl

\* ensureGroupForInviteEnvelope: a group known only from an invite, whose
\* event 0 is made up locally.
GroupFromInvite_Mutant(p, e) ==
    [Absent EXCEPT
        !.known = TRUE, !.ctrl = e.signer, !.epoch = 1, !.last = e.seq - 1, !.title = e.val,
        !.role = [q \in Peers |-> IF q = e.signer THEN "controller"
                                  ELSE IF q \in e.holders THEN "member" ELSE "none"],
        !.status = [q \in Peers |-> IF q = e.target THEN "invited"
                                    ELSE IF q \in e.holders \cup {e.signer} THEN "active" ELSE "none"],
        !.keys[e.epoch] = e.key]
GroupFromInvite(p, e) ==
    [Absent EXCEPT
        !.known = TRUE, !.ctrl = e.signer, !.epoch = e.epoch, !.last = e.seq - 1, !.title = e.val,
        !.role = [q \in Peers |-> IF q = e.signer THEN "controller"
                                  ELSE IF q \in e.holders THEN "member" ELSE "none"],
        !.status = [q \in Peers |-> IF q = e.target THEN "invited"
                                    ELSE IF q \in e.holders \cup {e.signer} THEN "active" ELSE "none"],
        !.keys[e.epoch] = e.key]

\* shouldApplyGroupEvent: older ones are ignored, later ones are errors.
Due(d, e) == e.seq = d.last + 1

\* applyGroupControlEnvelope with its applyRemote... functions.  An error and an
\* event that is ignored both leave the replica as it was.
Applied(p, d, e) ==
    LET g == IF d.known THEN d ELSE GroupFromInvite(p, e)
        k == IF e.type = "invite" THEN [g EXCEPT !.keys[e.epoch] = e.key] ELSE g
    IN IF /\ Authorised(d, e)
          /\ g.state = "active" \/ e.type = "dissolve"
          /\ Due(g, e)
          /\ Commits(p, k, e)
       THEN StoreEvent(p, k, e)
       ELSE d

\* SyncGroup gives up at an error, but not at an event it already has.
Refused(p, d, e) ==
    \/ ~Authorised(d, e)
    \/ d.state = "active" /\ e.seq > d.last /\ Applied(p, d, e) = d

ReceiveEvent(p, e) ==
    /\ <<p, e>> \in ctl
    /\ ctl' = ctl \ {<<p, e>>}
    /\ Put(p, Applied(p, db[p], e))
    /\ UNCHANGED <<evjobs, threads, requests, texts, acks, env, log>>

\* retryGroupEventDelivery
RetryEvent(p, e, q) ==
    /\ <<p, e, q>> \in evjobs
    /\ e \in db[p].events
    /\ ctl' = ctl \cup {<<q, e>>}
    /\ evjobs' = evjobs \ {<<p, e, q>>}
    /\ UNCHANGED <<db, deliv, threads, requests, texts, acks, env, log>>

-----------------------------------------------------------------------------
(* SyncGroup                                                                *)

InOrder(E) == [i \in 1 .. Cardinality(E) |->
                  CHOOSE e \in E : Cardinality({f \in E : f.seq < e.seq}) = i - 1]

\* The request and handleGroupSyncRequest at q.
SyncGroup(p, q) ==
    LET d == db[p] IN
    /\ "sync" \in Ops
    /\ d.known /\ p \in Members(d) /\ q # p /\ q \in Active(d)
    /\ answer[p] = NoAnswer
    /\ db[q].known /\ p \in Active(db[q])
    /\ answer' = [answer EXCEPT ![p] =
           [events |-> InOrder({e \in db[q].events : e.seq > d.last}),
            texts |-> {t \in db[q].msgs : t.sseq > d.cursor[Author[t.id]]}]]
    /\ UNCHANGED <<stores, prep, sealed, added, marking, network, env, log>>

SyncEvent(p) ==
    /\ answer[p].events # <<>>
    /\ LET e == Head(answer[p].events) IN
       /\ Put(p, Applied(p, db[p], e))
       /\ answer' = [answer EXCEPT ![p] =
              IF Refused(p, db[p], e) THEN NoAnswer
              ELSE [answer[p] EXCEPT !.events = Tail(@)]]
    /\ UNCHANGED <<evjobs, prep, sealed, added, marking, network, env, log>>

-----------------------------------------------------------------------------
(* Messages                                                                 *)

\* SendGroupText: it takes the next sender_seq and seals the text.
SealText(m) ==
    LET p == Author[m]
        d == db[p]
        seqs == {t.sseq : t \in {u \in d.msgs : Author[u.id] = p}}
        next == 1 + (IF seqs = {} THEN 0 ELSE CHOOSE n \in seqs : \A k \in seqs : k <= n)
    IN
    /\ "text" \in Ops /\ sealed[m] = <<>> /\ m \notin added
    /\ d.known /\ d.state = "active" /\ p \in Active(d) /\ d.keys[d.epoch] > NoKey
    /\ "send" \in scope.races \/ \A n \in Msgs : Author[n] = p => sealed[n] = <<>> \/ n \in added
    /\ sealed' = [sealed EXCEPT ![m] =
           <<[id |-> m, sseq |-> next, epoch |-> d.epoch, key |-> d.keys[d.epoch]]>>]
    /\ UNCHANGED <<stores, prep, added, marking, answer, network, env, log>>

\* It stores the message with a delivery for every active member, and sends it.
SendGroupText(m) ==
    LET p == Author[m]
        t == sealed[m][1]
        R == Active(db[p]) \ {p}
    IN
    /\ sealed[m] # <<>> /\ m \notin added
    /\ added' = added \cup {m}
    /\ db' = [db EXCEPT ![p] = AddGroupMessage(@, t)]
    /\ \E sent \in SUBSET R : \E failed \in SUBSET R :
          /\ Sent(R, sent, failed)
          /\ texts' = texts \cup {<<q, t>> : q \in sent}
          /\ marking' = marking \cup {<<m, q>> : q \in sent \ failed}
          /\ deliv' = [deliv EXCEPT ![m] = [q \in Peers |-> IF q \in failed THEN "retry"
                                                            ELSE IF q \in R THEN "pending" ELSE "none"]]
    /\ UNCHANGED <<evjobs, prep, sealed, answer, ctl, requests, acks, env, log>>

SetDelivery(m, q, s) ==
    deliv' = [deliv EXCEPT ![m][q] = IF @ = "none" THEN @ ELSE s]

\* MarkGroupDeliveryState(..., sent_to_transport)
MarkSent(m, q) ==
    /\ <<m, q>> \in marking
    /\ marking' = marking \ {<<m, q>>}
    /\ SetDelivery(m, q, "sent")
    /\ UNCHANGED <<db, evjobs, prep, sealed, added, answer, network, env, log>>

\* processGroupRetries: deliveries queued for a retry, and those without an
\* acknowledgement; retryGroupDelivery.
Retryable_Mutant == {"retry"}
Retryable == {"retry", "sent"}
RetryDelivery(m, q, ok) ==
    LET p == Author[m] IN
    /\ m \in IdsOf(db[p])
    /\ deliv[m][q] \in Retryable
    /\ <<m, q>> \notin marking
    /\ IF ok
       THEN /\ texts' = texts \cup {<<q, t>> : t \in {u \in db[p].msgs : u.id = m}}
            /\ marking' = marking \cup {<<m, q>>}
            /\ UNCHANGED deliv
       ELSE /\ "send" \in Faults
            /\ SetDelivery(m, q, "retry")
            /\ UNCHANGED <<texts, marking>>
    /\ UNCHANGED <<db, evjobs, prep, sealed, added, answer, ctl, requests, acks, env, log>>

\* handleIncomingGroupText up to the acknowledgement.  A message that was
\* revoked is acknowledged and not stored; one that cannot be opened is an error.
Opens(d, t) == d.keys[t.epoch] = t.key
Accepts(d, t) ==
    /\ d.known /\ t.id \notin d.revoked /\ Author[t.id] \in Active(d)
    /\ Opens(d, t)
Stored(d, t) == IF Accepts(d, t) THEN AddGroupMessage(d, t) ELSE d
\* sendGroupDeliveryAck
Acknowledge_Mutant(p, d, t) ==
    /\ acks' = acks \cup {<<t.id, p>>}
Acknowledge(p, d, t) ==
    \/ /\ Accepts(d, t) \/ (d.known /\ t.id \in d.revoked)
       /\ acks' = acks \cup {<<t.id, p>>}
    \/ /\ (Accepts(d, t) \/ (d.known /\ t.id \in d.revoked)) => "ack" \in Faults
       /\ UNCHANGED acks

ReceiveGroupText(p, t) ==
    /\ <<p, t>> \in texts
    /\ texts' = texts \ {<<p, t>>}
    /\ Put(p, Stored(db[p], t))
    /\ Acknowledge(p, db[p], t)
    /\ UNCHANGED <<evjobs, threads, ctl, requests, env, log>>

\* The errors of handleIncomingGroupText, at which SyncGroup gives up.
Unreadable(d, t) ==
    /\ t.id \notin d.revoked
    /\ d.status[Author[t.id]] \in {"none"} \cup (IF Opens(d, t) THEN {} ELSE {"active"})

\* The texts of a sync response, after its events.
SyncText(p, t) ==
    /\ answer[p].events = <<>> /\ t \in answer[p].texts
    /\ Put(p, Stored(db[p], t))
    /\ Acknowledge(p, db[p], t)
    /\ answer' = [answer EXCEPT ![p].texts =
           IF Unreadable(db[p], t) THEN {} ELSE @ \ {t}]
    /\ UNCHANGED <<evjobs, prep, sealed, added, marking, ctl, requests, texts, env, log>>

\* handleIncomingGroupAck
ReceiveAck(m, q) ==
    /\ <<m, q>> \in acks
    /\ acks' = acks \ {<<m, q>>}
    /\ IF m \in IdsOf(db[Author[m]]) THEN SetDelivery(m, q, "delivered") ELSE UNCHANGED deliv
    /\ UNCHANGED <<db, evjobs, threads, ctl, requests, texts, env, log>>

-----------------------------------------------------------------------------
(* Time, loss and crashes                                                   *)

\* A message reaches the age at which the retention of the group deletes it.
MessageAges(m) ==
    /\ "retention" \in Ops /\ m \in added \ aged
    /\ aged' = aged \cup {m}
    /\ UNCHANGED <<stores, threads, network, nilIsNull, scope, log>>

\* CleanupExpiredGroupMessages
CleanupExpired(p) ==
    /\ DropAged(db[p]) # db[p]
    /\ Put(p, DropAged(db[p]))
    /\ UNCHANGED <<evjobs, threads, network, env, log>>

\* CleanupArchivedGroups, deleteGroupRecords
PurgeArchived(p) ==
    /\ "purge" \in Ops /\ db[p].known /\ db[p].state = "archived"
    /\ Put(p, Absent)
    /\ evjobs' = {j \in evjobs : j[1] # p}
    /\ UNCHANGED <<threads, network, env, log>>

Lose ==
    /\ "loss" \in Faults
    /\ \/ \E x \in ctl : ctl' = ctl \ {x} /\ UNCHANGED <<requests, texts, acks>>
       \/ \E x \in requests : requests' = requests \ {x} /\ UNCHANGED <<ctl, texts, acks>>
       \/ \E x \in texts : texts' = texts \ {x} /\ UNCHANGED <<ctl, requests, acks>>
       \/ \E x \in acks : acks' = acks \ {x} /\ UNCHANGED <<ctl, requests, texts>>
    /\ UNCHANGED <<stores, threads, env, log>>

\* The process of p ends and starts again: its goroutines are gone.
Crash(p) ==
    /\ "crash" \in Faults
    /\ prep' = [prep EXCEPT ![p] = NoEvent]
    /\ sealed' = [m \in Msgs |-> IF Author[m] = p /\ m \notin added THEN <<>> ELSE sealed[m]]
    /\ marking' = {x \in marking : Author[x[1]] # p}
    /\ answer' = [answer EXCEPT ![p] = NoAnswer]
    /\ <<prep, sealed, marking, answer>> # <<prep', sealed', marking', answer'>>
    /\ UNCHANGED <<stores, added, network, env, log>>

-----------------------------------------------------------------------------

ApiCall(p) ==
    \/ CreateGroup(p) \/ PrepareTitle(p) \/ PrepareDissolve(p)
    \/ \E q \in Peers : InviteGroupMember(p, q) \/ RemoveGroupMember(p, q)
                        \/ PrepareTransfer(p, q) \/ SyncGroup(p, q)
    \/ \E v \in 0 .. 1 : PrepareRetention(p, v)
    \/ \E m \in Msgs : PrepareRevoke(p, m) \/ DeleteUnsent(p, m)
    \/ AcceptGroupInvite(p) \/ LeaveGroup(p)

Receive(p) ==
    \/ \E x \in ctl : x[1] = p /\ ReceiveEvent(p, x[2])
    \/ \E x \in texts : x[1] = p /\ ReceiveGroupText(p, x[2])
    \/ SyncEvent(p)
    \/ \E t \in answer[p].texts : SyncText(p, t)

Next ==
    \/ \E p \in Peers : ApiCall(p) \/ CommitEvent(p) \/ Receive(p)
                        \/ CleanupExpired(p) \/ PurgeArchived(p) \/ Crash(p)
    \/ \E r \in requests : HandleRequest(r)
    \/ \E j \in evjobs : RetryEvent(j[1], j[2], j[3])
    \/ \E m \in Msgs : SealText(m) \/ SendGroupText(m) \/ MessageAges(m)
    \/ \E m \in Msgs, q \in Peers :
          MarkSent(m, q) \/ ReceiveAck(m, q) \/ \E ok \in BOOLEAN : RetryDelivery(m, q, ok)
    \/ Lose

Spec == Init /\ [][Next]_vars

\* The retry loop runs every few seconds and a recipient that is online answers:
\* of the envelopes and acknowledgements sent again and again not all get lost.
\* Stated per message, which is enough while a message has one recipient.
Fairness ==
    \A m \in Msgs :
        /\ WF_vars(\E q \in Peers : MarkSent(m, q))
        /\ SF_vars(\E q \in Peers : RetryDelivery(m, q, TRUE))
        /\ SF_vars(\E q \in Peers : ReceiveAck(m, q))
        /\ SF_vars(\E x \in texts : /\ x[2].id = m
                                   /\ ReceiveGroupText(x[1], x[2])
                                   /\ <<m, x[1]>> \in acks')
FairSpec == Spec /\ Fairness

-----------------------------------------------------------------------------
(* Properties                                                               *)

\* What the tables, goroutines and envelopes of a group (group_store.go) can hold.
TypeOK ==
    /\ db \in [Peers -> Replicas]
    /\ deliv \in [Msgs -> [Peers -> DeliveryStates]]
    /\ \A j \in evjobs : j \in Peers \X Events \X Peers
    /\ prep \in [Peers -> Events \cup {NoEvent}]
    /\ sealed \in [Msgs -> Seq(Texts)]
    /\ added \subseteq Msgs /\ aged \subseteq Msgs
    /\ marking \subseteq Msgs \X Peers
    /\ answer \in [Peers -> [events : Seq(Events), texts : SUBSET Texts]]
    /\ \A x \in ctl : x \in Peers \X Events
    /\ requests \subseteq {"join", "leave"} \X Peers \X Peers
    /\ \A x \in texts : x \in Peers \X Texts
    /\ acks \subseteq Msgs \X Peers
    /\ nilIsNull \in BOOLEAN /\ scope \in Scopes
    /\ \A e \in log : e \in Events

\* Replicas that have applied the same events agree on the controller, the
\* epoch, the title and whether the group is dissolved, also when one of them
\* started from an invite (ensureGroupForInviteEnvelope).
RowsFollowLog ==
    \A p, q \in Peers :
        db[p].known /\ db[q].known /\ db[p].last = db[q].last =>
            /\ db[p].ctrl = db[q].ctrl /\ db[p].epoch = db[q].epoch
            /\ db[p].title = db[q].title /\ db[p].state = db[q].state

\* A peer that left or was removed, and was not invited again, never holds the
\* key of an epoch that began with its departure or later.
DepartedLackKeys ==
    \A e \in log :
        e.type \in {"leave", "remove"}
            /\ ~(\E f \in log : f.type = "invite" /\ f.target = e.target /\ f.seq > e.seq)
        => \A n \in Epochs : n >= e.epoch => db[e.target].keys[n] <= NoKey

\* A message the author's node shows as delivered to a peer is stored there,
\* unless it has been revoked or has expired since, or the group was dissolved.
DeliveredIsStored ==
    \A m \in Msgs, q \in Peers :
        deliv[m][q] = "delivered" =>
            \/ m \in IdsOf(db[q]) \cup db[q].revoked \cup aged
            \/ db[q].state = "archived" \/ ~db[q].known

EventSeq(e) == e.seq
Shared == INSTANCE GroupLog WITH
    Entries <- Events, Number <- EventSeq, held <- [p \in Peers |-> db[p].events]

\* The replicas implement the shared log of GroupLog.
ImplementsLog == Shared!Spec

\* Every copy of a message in a group with steady membership is delivered in
\* the end, or its rows are deleted (a revoke, the retention).
Steady == "crash" \notin Faults /\ Ops \cap {"leave", "remove", "transfer", "dissolve"} = {}
EveryCopySettles ==
    \A m \in Msgs, q \in Peers :
        Steady /\ deliv[m][q] \in {"pending", "sent", "retry"}
            ~> deliv[m][q] \in {"delivered", "none"}

=============================================================================
