-------------------------- MODULE FriendHandshake --------------------------
(***************************************************************************)
(* Friend requests between two nodes (internal/chat/service.go,            *)
(* direct_state.go, request_store.go, conversation_store.go,               *)
(* offline_friend.go): session_request, session_accept, session_reject and *)
(* session_accept_ack, the retry jobs of an accept, the repairs at startup *)
(* and on an incoming text, and what users delete or block meanwhile.      *)
(*                                                                         *)
(* A node has one call of its user, one incoming envelope and one retry    *)
(* under way at a time; each store statement of an accept is a step.  The  *)
(* exchange key of a node is named after the node.                         *)
(***************************************************************************)
EXTENDS Integers, FiniteSets

CONSTANTS
    Peers,     \* the two nodes
    Requests,  \* request ids
    NoReq,     \* no request
    NoKey,     \* no exchange key
    Sender,    \* the node that sends each request
    Scopes     \* how often each of Uses happens in an instance

\* The calls of users besides SendRequest, and the faults, that are bounded.
Uses == {"accept", "reject", "delete", "forget", "block", "text",
         "loss", "copy", "crash", "week"}

ASSUME HandshakeAssumption ==
    /\ \E p, q \in Peers : p # q /\ Peers = {p, q}
    /\ IsFiniteSet(Requests) /\ NoReq \notin Requests /\ NoKey \notin Peers
    /\ Sender \in [Requests -> Peers]
    /\ \A s \in Scopes : s \in [Uses -> Nat]

VARIABLES
    \* --- the databases ----------------------------------------------------
    req,      \* requests: state, remote_chat_kex_pub, whether conversation_id is set
    job,      \* friend_request_jobs
    conv,     \* the conversation with the other node
    sess,     \* its session state
    contact,  \* the peers row of the other node
    \* --- goroutines ---------------------------------------------------------
    task,     \* the user's call ("api") and the incoming envelope ("in") of a node
    retry,    \* the job the retry loop has sent for and not yet scheduled again
    \* --- the rest -------------------------------------------------------------
    net,      \* envelopes under way, on streams, relays and in offline stores
    sent,     \* the requests that have been sent (their ids are fresh)
    left,     \* how often each of Uses may still happen
    undone,   \* the nodes that have rejected, deleted, blocked or given up the
              \* friendship, or died in the middle of accepting it
    consent   \* the requests their recipient called AcceptRequest for

stores == <<req, job, conv, sess, contact>>
vars == <<stores, task, retry, net, sent, left, undone, consent>>

-----------------------------------------------------------------------------
(* Data                                                                     *)

Decided == {"accepted", "rejected", "blocked"}

Other(p) == CHOOSE q \in Peers : q # p
Recipient(r) == Other(Sender[r])

Rows == [st : {"none", "pending"} \cup Decided, key : Peers \cup {NoKey}, conv : BOOLEAN]
NoRow == [st |-> "none", key |-> NoKey, conv |-> FALSE]

\* A session is derived from the local private key and the exchange key given;
\* of its counters matter whether a text was sent, or got, under it.
Session(k) == [key |-> k, sent |-> FALSE, got |-> FALSE]
NoSession == Session(NoKey)
Sessions == [key : Peers \cup {NoKey}, sent : BOOLEAN, got : BOOLEAN]

\*   key    the exchange key in a request or an accept, the key the session
\*          of a text is derived from
\*   first  the counter of a text is 0
Envelopes == [type : {"request", "accept", "reject", "ack", "text"},
              r : Requests \cup {NoReq}, from : Peers, key : Peers, first : BOOLEAN]
Envelope(t, r, p) == [type |-> t, r |-> r, from |-> p, key |-> p, first |-> FALSE]

Idle == [pc |-> "idle", r |-> NoReq, key |-> NoKey]
Tasks == [pc : {"idle", "conv", "sess", "key", "state", "done", "upsert", "reject",
                "nofriend", "forget"},
          r : Requests \cup {NoReq}, key : Peers \cup {NoKey}]
Slots == {"api", "in"}

Known(p, r) == req[p][r].st # "none"

\* An UPDATE of a request that may be gone.
SetRow(p, r, row) == req' = [req EXCEPT ![p][r] = IF Known(p, r) THEN row ELSE @]

\* DeleteConversationData takes the jobs and the conversation ids of its requests along.
Unlinked(rows) == [r \in Requests |-> [rows[r] EXCEPT !.conv = FALSE]]
Linked(p) == {r \in Requests : req[p][r].conv}

Use(k) == left[k] > 0 /\ left' = [left EXCEPT ![k] = @ - 1]

\* Envelopes are handed to the network, which may lose them.
Send(e) == \/ net' = net \cup {e} /\ UNCHANGED left
           \/ net' = net /\ Use("loss")

Init ==
    /\ req = [p \in Peers |-> [r \in Requests |-> NoRow]]
    /\ job = [p \in Peers |-> {}]
    /\ conv = [p \in Peers |-> "none"]
    /\ sess = [p \in Peers |-> NoSession]
    /\ contact = [p \in Peers |-> "none"]
    /\ task = [p \in Peers |-> [s \in Slots |-> Idle]]
    /\ retry = [p \in Peers |-> NoReq]
    /\ net = {}
    /\ sent = {}
    /\ left \in Scopes
    /\ undone = {}
    /\ consent = {}

Goto(p, s, pc) == task' = [task EXCEPT ![p][s].pc = pc]
End(p, s) == task' = [task EXCEPT ![p][s] = Idle]
AddJob(p, r) == job' = [job EXCEPT ![p] = @ \cup {r}]
DropJob(p, r) == job' = [job EXCEPT ![p] = @ \ {r}]
Meet(p) == contact' = [contact EXCEPT ![p] = IF @ = "none" THEN "open" ELSE @]  \* UpsertPeer

-----------------------------------------------------------------------------
(* Calls of the user                                                        *)

\* The row holds the sender's own exchange key until the accept comes.  No
\* retry job is scheduled, whether or not the request gets away.
SendRequest(p, r) ==
    /\ r \notin sent /\ Sender[r] = p
    /\ contact[p] # "blocked"
    /\ sent' = sent \cup {r}
    /\ req' = [req EXCEPT ![p][r] = [st |-> "pending", key |-> p, conv |-> FALSE]]
    /\ Meet(p)
    /\ Send(Envelope("request", r, p))
    /\ UNCHANGED <<job, conv, sess, task, retry, undone, consent>>

\* The state of the request is not asked for.
AcceptRequest(p, r) ==
    /\ task[p]["api"] = Idle
    /\ Known(p, r) /\ Recipient(r) = p
    /\ Use("accept")
    /\ task' = [task EXCEPT ![p]["api"] = [pc |-> "conv", r |-> r, key |-> req[p][r].key]]
    /\ consent' = consent \cup {r}
    /\ UNCHANGED <<stores, retry, net, sent, undone>>

RejectRequest(p, r) ==
    /\ task[p]["api"] = Idle
    /\ Known(p, r) /\ Recipient(r) = p
    /\ Use("reject")
    /\ SetRow(p, r, [req[p][r] EXCEPT !.st = "rejected", !.conv = FALSE])
    /\ net' = net \cup {Envelope("reject", r, p)}
    /\ undone' = undone \cup {p}
    /\ UNCHANGED <<job, conv, sess, contact, task, retry, sent, consent>>

DeleteConversationData(p) ==
    /\ conv' = [conv EXCEPT ![p] = "none"]
    /\ sess' = [sess EXCEPT ![p] = NoSession]
    /\ job' = [job EXCEPT ![p] = @ \ Linked(p)]
    /\ req' = [req EXCEPT ![p] = Unlinked(@)]

DeleteConversationLocal(p) ==
    /\ task[p]["api"] = Idle
    /\ conv[p] # "none"
    /\ Use("delete")
    /\ DeleteConversationData(p)
    /\ undone' = undone \cup {p}
    /\ UNCHANGED <<contact, task, retry, net, sent, consent>>

\* Conversations are deleted until there is none, then the contact with its requests.
DeleteContactLocal(p) ==
    /\ task[p]["api"] = Idle
    /\ Use("forget")
    /\ task' = [task EXCEPT ![p]["api"].pc = "forget"]
    /\ undone' = undone \cup {p}
    /\ UNCHANGED <<stores, retry, net, sent, consent>>

DeletePeerAndRelatedData(p) ==
    /\ job' = [job EXCEPT ![p] = {}]
    /\ req' = [req EXCEPT ![p] = [r \in Requests |-> NoRow]]
    /\ contact' = [contact EXCEPT ![p] = "none"]

ForgetStep(p) ==
    /\ task[p]["api"].pc = "forget"
    /\ \/ /\ conv[p] # "none"
          /\ DeleteConversationData(p)
          /\ UNCHANGED <<contact, task>>
       \/ /\ conv[p] = "none"
          /\ DeletePeerAndRelatedData(p)
          /\ End(p, "api")
          /\ UNCHANGED <<conv, sess>>
    /\ UNCHANGED <<retry, net, sent, left, undone, consent>>

SetContactBlocked(p) ==
    /\ contact[p] # "none"
    /\ Use("block")
    /\ contact' = [contact EXCEPT ![p] = IF @ = "open" THEN "blocked" ELSE "open"]
    /\ undone' = undone \cup {p}
    /\ UNCHANGED <<req, job, conv, sess, task, retry, net, sent, consent>>

\* SendText needs the conversation, whatever its state, and the session.
SendText(p) ==
    /\ task[p]["api"] = Idle
    /\ conv[p] # "none" /\ contact[p] # "blocked" /\ sess[p] # NoSession
    /\ Use("text")
    /\ net' = net \cup {[type |-> "text", r |-> NoReq, from |-> p, key |-> sess[p].key,
                         first |-> ~sess[p].sent]}
    /\ sess' = [sess EXCEPT ![p].sent = TRUE]
    /\ UNCHANGED <<req, job, conv, contact, task, retry, sent, undone, consent>>

-----------------------------------------------------------------------------
(* Establishing a session: the tail of AcceptRequest ("api") and of the     *)
(* handler of an accept ("in")                                              *)

\* CreateConversation replaces the conversation, then the session with a new one.
StoreConversation(p, s) ==
    /\ task[p][s].pc = "conv"
    /\ conv' = [conv EXCEPT ![p] = "active"]
    /\ Goto(p, s, "sess")
    /\ UNCHANGED <<req, job, sess, contact, retry, net, sent, left, undone, consent>>

StoreSession_Mutant(p, s) ==
    /\ task[p][s].pc = "sess"
    /\ sess' = [sess EXCEPT ![p] = IF @ = NoSession THEN Session(task[p][s].key) ELSE @]
    /\ Goto(p, s, IF s = "in" THEN "key" ELSE "state")
    /\ UNCHANGED <<req, job, conv, contact, retry, net, sent, left, undone, consent>>
StoreSession(p, s) ==
    /\ task[p][s].pc = "sess"
    /\ sess' = [sess EXCEPT ![p] = Session(task[p][s].key)]
    /\ Goto(p, s, IF s = "in" THEN "key" ELSE "state")
    /\ UNCHANGED <<req, job, conv, contact, retry, net, sent, left, undone, consent>>

UpdateRequestRemoteChatKexPub(p) ==
    /\ task[p]["in"].pc = "key"
    /\ SetRow(p, task[p]["in"].r, [req[p][task[p]["in"].r] EXCEPT !.key = task[p]["in"].key])
    /\ Meet(p)
    /\ Goto(p, "in", "state")
    /\ UNCHANGED <<job, conv, sess, retry, net, sent, left, undone, consent>>

StoreAccepted(p, s) ==
    /\ task[p][s].pc = "state"
    /\ SetRow(p, task[p][s].r, [req[p][task[p][s].r] EXCEPT !.st = "accepted", !.conv = TRUE])
    /\ Goto(p, s, "done")
    /\ UNCHANGED <<job, conv, sess, contact, retry, net, sent, left, undone, consent>>

\* The accept is sent again until its ack comes.
SendAccept_Mutant(p) ==
    /\ task[p]["api"].pc = "done"
    /\ Meet(p)
    /\ Send(Envelope("accept", task[p]["api"].r, p))
    /\ End(p, "api")
    /\ UNCHANGED <<req, job, conv, sess, retry, sent, undone, consent>>
SendAccept(p) ==
    /\ task[p]["api"].pc = "done"
    /\ AddJob(p, task[p]["api"].r)
    /\ Meet(p)
    /\ Send(Envelope("accept", task[p]["api"].r, p))
    /\ End(p, "api")
    /\ UNCHANGED <<req, conv, sess, retry, sent, undone, consent>>

SendAck(p) ==
    /\ task[p]["in"].pc = "done"
    /\ DropJob(p, task[p]["in"].r)
    /\ Send(Envelope("ack", task[p]["in"].r, p))
    /\ End(p, "in")
    /\ UNCHANGED <<req, conv, sess, contact, retry, sent, undone, consent>>

-----------------------------------------------------------------------------
(* Incoming envelopes                                                       *)

\* Streams deliver an envelope once; a relay and a store may both deliver it.
Take(p, e) ==
    /\ e \in net /\ e.from = Other(p)
    /\ task[p]["in"] = Idle
    /\ \/ net' = net \ {e} /\ UNCHANGED left
       \/ net' = net /\ Use("copy")

Handle(p, e, pc) == task' = [task EXCEPT ![p]["in"] = [pc |-> pc, r |-> e.r, key |-> e.key]]

\* A request that is decided, or of a blocked peer, changes nothing.
ReceiveRequest(p, e) ==
    /\ e.type = "request"
    /\ Recipient(e.r) = p  \* ToPeerID
    /\ Take(p, e)
    /\ IF contact[p] = "blocked" \/ req[p][e.r].st \in Decided
       THEN UNCHANGED task
       ELSE Handle(p, e, "upsert")
    /\ UNCHANGED <<stores, retry, sent, undone, consent>>

\* The state may have been decided since the handler looked at it.
Upserted_Mutant(row, k) == [row EXCEPT !.st = "pending", !.key = k]
Upserted(row, k) == [row EXCEPT !.st = IF @ \in Decided THEN @ ELSE "pending", !.key = k]

UpsertIncomingRequest(p) ==
    /\ task[p]["in"].pc = "upsert"
    /\ req' = [req EXCEPT ![p][task[p]["in"].r] = Upserted(@, task[p]["in"].key)]
    /\ Meet(p)
    /\ End(p, "in")
    /\ UNCHANGED <<job, conv, sess, retry, net, sent, left, undone, consent>>

\* The row exists, and is about this peer.
Validated(p, e) == Known(p, e.r) /\ e.from = Other(p)

ReceiveAccept(p, e) ==
    /\ e.type = "accept"
    /\ Take(p, e)
    /\ IF Validated(p, e) THEN Handle(p, e, "conv") ELSE UNCHANGED task
    /\ UNCHANGED <<stores, retry, sent, undone, consent>>

ReceiveReject(p, e) ==
    /\ e.type = "reject"
    /\ Take(p, e)
    /\ IF Validated(p, e) /\ req[p][e.r].st = "pending" THEN Handle(p, e, "reject") ELSE UNCHANGED task
    /\ UNCHANGED <<stores, retry, sent, undone, consent>>

StoreRejected(p) ==
    /\ task[p]["in"].pc = "reject"
    /\ SetRow(p, task[p]["in"].r, [req[p][task[p]["in"].r] EXCEPT !.st = "rejected", !.conv = FALSE])
    /\ Goto(p, "in", "nofriend")
    /\ UNCHANGED <<job, conv, sess, contact, retry, net, sent, left, undone, consent>>

StoreNoFriend(p) ==
    /\ task[p]["in"].pc = "nofriend"
    /\ DropJob(p, task[p]["in"].r)
    /\ conv' = [conv EXCEPT ![p] = IF @ = "none" THEN @ ELSE "no_friend"]
    /\ End(p, "in")
    /\ UNCHANGED <<req, sess, contact, retry, net, sent, left, undone, consent>>

ReceiveAck(p, e) ==
    /\ e.type = "ack"
    /\ Take(p, e)
    /\ IF Validated(p, e) THEN DropJob(p, e.r) ELSE UNCHANGED job
    /\ UNCHANGED <<req, conv, sess, contact, task, retry, sent, undone, consent>>

-----------------------------------------------------------------------------
(* Repairs                                                                  *)

\* The key of a request of the other node, whatever its state; a request to the
\* local node has its own.
RemoteChatKexPubForRepair(p, rows, r) ==
    IF Recipient(r) = p THEN rows[r].key
    ELSE IF \E i \in Requests : Recipient(i) = p /\ rows[i].key # NoKey THEN Other(p)
    ELSE NoKey

Accepted(rows) == {r \in Requests : rows[r].st = "accepted"}

\* The databases of one node as the repairs rewrite them.
State(p) == [rows |-> req[p], jobs |-> job[p], conv |-> conv[p], sess |-> sess[p]]
Put(p, d) ==
    /\ req' = [req EXCEPT ![p] = d.rows]
    /\ job' = [job EXCEPT ![p] = d.jobs]
    /\ conv' = [conv EXCEPT ![p] = d.conv]
    /\ sess' = [sess EXCEPT ![p] = d.sess]

\* repairIncomingDirectState: the sessions it can build from the accepted request
\* that findAcceptedRequestForPeer selects; none: sql.ErrNoRows.
RepairIncoming(p, d) ==
    LET linked == {r \in Accepted(d.rows) : d.rows[r].conv}
        selected == IF linked # {} THEN linked ELSE Accepted(d.rows)
        pub(r) == RemoteChatKexPubForRepair(p, d.rows, r)
        fit == {r \in selected : d.sess # NoSession \/ pub(r) # NoKey}
    IN  {[d EXCEPT !.conv = "active",
                   !.sess = IF @ = NoSession THEN Session(pub(r)) ELSE @,
                   !.rows[r].conv = TRUE,
                   !.rows[r].key = IF pub(r) = NoKey THEN @ ELSE pub(r)] : r \in fit}

LoadIncoming(p, d) ==
    IF d.conv # "none" /\ d.sess # NoSession THEN {d} ELSE RepairIncoming(p, d)

HasAcceptedRequest(p) == \E r \in Accepted(req[p]) : Recipient(r) = p

\* Which of the requests, of either node, was updated last is left open.
LatestRequestBetweenPeers(p) == {r \in Requests : Known(p, r)}

\* maybeSendSessionRejectForConversation.
Rejections(p) == IF HasAcceptedRequest(p) THEN {} ELSE LatestRequestBetweenPeers(p)

Opens(p, d, e) == e.key = p /\ d.sess.key = e.from
Wiped(d) == [rows |-> Unlinked(d.rows), jobs |-> {r \in d.jobs : ~d.rows[r].conv},
             conv |-> "none", sess |-> NoSession]

\* tryRecoverDirectStateOnCounterZeroAuthFailure: the first text under the sender's
\* session does not open, so the node drops its own session.
Resets(p, d, e) == e.first /\ ~d.sess.got /\ ~Opens(p, d, e)

\* The counter of a text that opens is remembered.  One that is not next in line
\* is DirectChat's business.
TextOutcomes(p, d, e) ==
    IF Resets(p, d, e)
    THEN IF RepairIncoming(p, Wiped(d)) = {} THEN {Wiped(d)}
         ELSE {[w EXCEPT !.sess.got = Opens(p, w, e)] : w \in RepairIncoming(p, Wiped(d))}
    ELSE {[d EXCEPT !.sess.got = @ \/ e.first]}

ReceiveText(p, e) ==
    /\ e.type = "text"
    /\ Take(p, e)
    /\ contact[p] # "blocked"
    /\ \E d \in LoadIncoming(p, State(p)) :
        /\ \E o \in TextOutcomes(p, d, e) : Put(p, o)
        /\ undone' = IF Resets(p, d, e) THEN undone \cup {p} ELSE undone
    /\ Meet(p)
    /\ UNCHANGED <<task, retry, sent, consent>>

\* A text the node has no session for is answered with a reject, or not at all.
RefuseText(p, e) ==
    /\ e.type = "text" /\ e \in net /\ e.from = Other(p)
    /\ task[p]["in"] = Idle
    /\ contact[p] = "blocked" \/ LoadIncoming(p, State(p)) = {}
    /\ \/ /\ contact[p] = "blocked" \/ Rejections(p) = {}
          /\ net' = net \ {e}
          /\ UNCHANGED undone
       \/ /\ contact[p] # "blocked"
          /\ \E r \in Rejections(p) : net' = (net \ {e}) \cup {Envelope("reject", r, p)}
          /\ undone' = undone \cup {p}
    /\ UNCHANGED <<stores, task, retry, sent, left, consent>>

\* repairHistoricalDirectState: every accepted request gets its conversation id, and
\* the conversation and the session are made where one of them has a key for it.
Historical(p, d) ==
    LET acc == Accepted(d.rows)
        usable == {r \in acc : RemoteChatKexPubForRepair(p, d.rows, r) # NoKey}
        linked == [d EXCEPT !.rows = [r \in Requests |->
                       IF r \in acc THEN [d.rows[r] EXCEPT !.conv = TRUE] ELSE d.rows[r]]]
    IN  IF acc = {} THEN d
        ELSE IF d.sess # NoSession THEN [linked EXCEPT !.conv = "active"]
        ELSE IF usable = {} THEN linked
        ELSE [linked EXCEPT !.conv = "active",
                  !.sess = Session(RemoteChatKexPubForRepair(p, d.rows, CHOOSE r \in usable : TRUE))]

\* repairOrphanPendingSessionAccepts: a pending request that holds a key is taken for
\* an accept that was cut short.  The order of the requests is left open.
Orphans(p, d) ==
    LET pend == {r \in Requests : d.rows[r].st = "pending" /\ d.rows[r].key # NoKey}
        rows == [r \in Requests |-> IF r \in pend
                     THEN [d.rows[r] EXCEPT !.st = "accepted", !.conv = TRUE] ELSE d.rows[r]]
    IN  IF pend = {} THEN {d}
        ELSE IF d.conv = "active" /\ d.sess # NoSession THEN {[d EXCEPT !.rows = rows]}
        ELSE {[rows |-> rows, jobs |-> d.jobs \ {r}, conv |-> "active",
               sess |-> Session(d.rows[r].key)] : r \in pend}

\* The process dies and starts again: NewService repairs before it listens.
Restart(p) ==
    /\ Use("crash")
    /\ \E d \in Orphans(p, Historical(p, State(p))) : Put(p, d)
    /\ undone' = IF task[p]["api"] # Idle THEN undone \cup {p} ELSE undone
    /\ task' = [task EXCEPT ![p] = [s \in Slots |-> Idle]]
    /\ retry' = [retry EXCEPT ![p] = NoReq]
    /\ UNCHANGED <<contact, net, sent, consent>>

-----------------------------------------------------------------------------
(* The retry loop                                                           *)

Resends(p, r) == req[p][r].st = "accepted" /\ req[p][r].conv /\ conv[p] # "none"

Due(p, r) == r \in job[p] /\ retry[p] = NoReq

\* Gone, decided otherwise, blocked since, or without its conversation.
RetryDrop(p, r) ==
    /\ Due(p, r)
    /\ req[p][r].st # "pending"
    /\ Resends(p, r) => contact[p] = "blocked"
    /\ IF req[p][r].st = "accepted" /\ contact[p] = "blocked"
       THEN SetRow(p, r, [req[p][r] EXCEPT !.st = "blocked", !.conv = FALSE])
       ELSE UNCHANGED req
    /\ DropJob(p, r)
    /\ UNCHANGED <<conv, sess, contact, task, retry, net, sent, left, undone, consent>>

\* A pending request with a job is one to the local node whose accept was overtaken
\* by DeleteContactLocal: what is sent again names the local node as recipient.
RetryPending(p, r) ==
    /\ Due(p, r)
    /\ req[p][r].st = "pending"
    /\ IF contact[p] = "blocked"
       THEN SetRow(p, r, [req[p][r] EXCEPT !.st = "blocked", !.conv = FALSE])
       ELSE UNCHANGED req
    /\ DropJob(p, r)
    /\ UNCHANGED <<conv, sess, contact, task, retry, net, sent, left, undone, consent>>

\* The job is scheduled again once the send returns, whatever happened meanwhile.
RetryAccept(p, r) ==
    /\ Due(p, r)
    /\ Resends(p, r) /\ contact[p] # "blocked"
    /\ Send(Envelope("accept", r, p))
    /\ retry' = [retry EXCEPT ![p] = r]
    /\ UNCHANGED <<stores, task, sent, undone, consent>>

ScheduleFriendRequestRetry(p) ==
    /\ retry[p] # NoReq
    /\ AddJob(p, retry[p])
    /\ retry' = [retry EXCEPT ![p] = NoReq]
    /\ UNCHANGED <<req, conv, sess, contact, task, net, sent, left, undone, consent>>

\* A request is given up one week after it was made.
Abandon(p, r) ==
    /\ Due(p, r) /\ Known(p, r)
    /\ Use("week")
    /\ SetRow(p, r, IF req[p][r].st = "pending"
                    THEN [req[p][r] EXCEPT !.st = "rejected", !.conv = FALSE] ELSE req[p][r])
    /\ DropJob(p, r)
    /\ undone' = undone \cup {p}
    /\ UNCHANGED <<conv, sess, contact, task, retry, net, sent, consent>>

-----------------------------------------------------------------------------
(* The specification                                                        *)

UserCall(p) ==
    \/ \E r \in Requests : SendRequest(p, r) \/ AcceptRequest(p, r) \/ RejectRequest(p, r)
    \/ DeleteConversationLocal(p)
    \/ DeleteContactLocal(p)
    \/ SetContactBlocked(p)
    \/ SendText(p)

ApiStep(p) ==
    \/ StoreConversation(p, "api") \/ StoreSession(p, "api") \/ StoreAccepted(p, "api")
    \/ SendAccept(p)
    \/ ForgetStep(p)

HandlerStep(p) ==
    \/ StoreConversation(p, "in") \/ StoreSession(p, "in") \/ UpdateRequestRemoteChatKexPub(p)
    \/ StoreAccepted(p, "in") \/ SendAck(p)
    \/ UpsertIncomingRequest(p)
    \/ StoreRejected(p) \/ StoreNoFriend(p)

ReceiveFriendControl(p, e) ==
    \/ ReceiveRequest(p, e) \/ ReceiveAccept(p, e) \/ ReceiveReject(p, e) \/ ReceiveAck(p, e)

RetryStep(p) ==
    \/ \E r \in Requests : RetryDrop(p, r) \/ RetryPending(p, r) \/ RetryAccept(p, r)
    \/ ScheduleFriendRequestRetry(p)

Next ==
    \E p \in Peers :
        \/ UserCall(p)
        \/ ApiStep(p)
        \/ HandlerStep(p)
        \/ \E e \in net : ReceiveFriendControl(p, e) \/ ReceiveText(p, e) \/ RefuseText(p, e)
        \/ RetryStep(p)
        \/ \E r \in Requests : Abandon(p, r)
        \/ Restart(p)

Spec == Init /\ [][Next]_vars

\* Goroutines go on; the retry loop ticks; the network delivers what it has not lost.
FairSpec ==
    /\ Spec
    /\ \A p \in Peers :
        /\ WF_vars(ApiStep(p))
        /\ WF_vars(HandlerStep(p))
        /\ WF_vars(RetryStep(p))
        /\ \A r \in Requests : SF_vars(ReceiveAccept(p, Envelope("accept", r, Other(p))))

-----------------------------------------------------------------------------
(* Properties                                                               *)

\* Every table, task and envelope has the shape the code gives it.
TypeOK ==
    /\ req \in [Peers -> [Requests -> Rows]]
    /\ job \in [Peers -> SUBSET Requests]
    /\ conv \in [Peers -> {"none", "active", "no_friend"}]
    /\ sess \in [Peers -> Sessions]
    /\ contact \in [Peers -> {"none", "open", "blocked"}]
    /\ task \in [Peers -> [Slots -> Tasks]]
    /\ retry \in [Peers -> Requests \cup {NoReq}]
    /\ net \subseteq Envelopes
    /\ sent \subseteq Requests /\ consent \subseteq Requests
    /\ undone \subseteq Peers
    /\ left \in [Uses -> Nat]

\* The node has a conversation and a session that the other node can read.
Ready(p) == conv[p] # "none" /\ sess[p].key = Other(p)

\* A session_accept_ack under way, which ends the retries of an accept, means that
\* both nodes have their conversation and a session with the other's key, unless one
\* of the users undid the friendship since (SessionAcceptAck in ChangeLog.md).
AckMeansBoth ==
    \A e \in net : e.type = "ack" => undone # {} \/ \A p \in Peers : Ready(p)

\* A copy of a request that arrives while its recipient decides does not open a
\* decided request again (handleIncomingSessionRequestEnvelope, UpsertIncomingRequest).
NeverReopened ==
    [][\A p \in Peers, r \in Requests :
          req[p][r].st \in Decided => req'[p][r].st # "pending"]_vars

\* A conversation exists only where some user called AcceptRequest.
Consent == \A p \in Peers : conv[p] = "active" => consent # {}

\* Once AcceptRequest has stored its answer, the nodes end up with matching sessions,
\* although envelopes get lost and the initiator restarts.
AcceptReachesInitiator ==
    \A r \in Requests :
        (task[Recipient(r)]["api"].pc = "done" /\ task[Recipient(r)]["api"].r = r)
            ~> (undone # {} \/ \A p \in Peers : Ready(p))

=============================================================================
